----------------------- MODULE P2pProxyServerProofs -----------------------
(***************************************************************************)
(* What the host's side of a P2P network keeps, for any number of          *)
(* sessions, tokens, players and zombies: a token admits one session, a    *)
(* player only gets what is meant for him, m_session_count counts the      *)
(* slots; and, as long as every client authenticates once, no player is    *)
(* admitted without a slot or forgotten in one.  At the end, the server's  *)
(* port at the router (PortLease).                                         *)
(***************************************************************************)
EXTENDS P2pProxyServer, PortLease, FiniteSetTheorems, SequenceTheorems, WellFoundedInduction, TLAPS

(***************************************************************************)
(* Types, as far as the proofs need them.                                  *)
(***************************************************************************)
ObjectType ==
  [pc : SessionPc, connected : BOOLEAN, authenticated : BOOLEAN,
   virtual_ip : Addresses \cup {Unset}, claim : Tokens \cup {None},
   stack : Stacks \cup {NoStack}, on : Stacks \cup {NoStack}, freed : BOOLEAN,
   claims : Nat, joined : Nat, told : Nat, swept : BOOLEAN]
Typed ==
  /\ m_sessions \in [Slots -> Sessions \cup {None}]
  /\ m_zombie_sessions \in Seq(Sessions) /\ Len(m_zombie_sessions) <= MaxZombieSessions
  /\ m_waiting_tokens \in Seq(Tokens)
  /\ session \in [Sessions -> ObjectType]
  /\ used \in SUBSET Stacks
  /\ ldn \in LdnState
  /\ ldn.pc \in {"victims", "checked", "telling"} => ldn.victims # <<>>
  /\ issued \in SUBSET Tokens
  /\ tokenUses \in [Tokens -> Nat]

(***************************************************************************)
(* A token has admitted nobody before it is announced, while it is on its  *)
(* way into the list, and as long as it waits there, which it does in one  *)
(* place.                                                                  *)
(***************************************************************************)
Waiting == {m_waiting_tokens[i] : i \in DOMAIN m_waiting_tokens}
UnusedTokens ==
  /\ \A k \in Tokens \ issued : tokenUses[k] = 0
  /\ \A k \in Waiting : k \in issued /\ tokenUses[k] = 0
  /\ ldn.pc = "token" => /\ ldn.token \in issued /\ tokenUses[ldn.token] = 0
                         /\ ldn.token \notin Waiting
WaitsOnce ==
  \A i, j \in DOMAIN m_waiting_tokens : m_waiting_tokens[i] = m_waiting_tokens[j] => i = j
TokenInv == UnusedTokens /\ WaitsOnce /\ TokenAdmitsOnce

(***************************************************************************)
(* A session that has not registered and still may is connected and has a  *)
(* stack of its own, and so has each session in a slot: as there are as    *)
(* many slots as stacks, there is a slot for one that registers.           *)
(***************************************************************************)
Applying(s) == session[s].joined = 0 /\ session[s].pc \in {"recv", "auth", "authWait"}
Course(s) ==
  /\ session[s].claims \in {0, 1} /\ session[s].joined \in {0, 1}
  /\ session[s].joined = 0 => session[s].told = 0
  /\ session[s].joined = 1 => /\ session[s].claims = 1
                              /\ session[s].pc \notin {"unborn", "leaked", "auth", "authWait"}
  /\ Applying(s) => session[s].connected /\ session[s].stack # NoStack
  /\ session[s].pc = "telling" => ~session[s].connected
  /\ session[s].pc \in {"auth", "authWait"} => session[s].claims = 1
Courses == \A s \in Sessions : Course(s)
Seated ==
  \A i \in Slots : m_sessions[i] # None =>
    /\ session[m_sessions[i]].joined = 1 /\ session[m_sessions[i]].authenticated
    /\ session[m_sessions[i]].stack # NoStack
OneSeat ==
  \A i, j \in Slots : m_sessions[i] # None /\ m_sessions[i] = m_sessions[j] => i = j
OwnStack ==
  /\ \A s \in Sessions : session[s].stack # NoStack => session[s].stack \in used
  /\ \A s, t \in Sessions : s # t /\ session[s].stack # NoStack =>
                              session[s].stack # session[t].stack

(***************************************************************************)
(* What is reaped or sent away has come and gone: it cannot register.      *)
(***************************************************************************)
Past(s) == session[s].joined = 1 \/ session[s].pc \in {"exiting", "done"}
ZombiesPast == \A z \in Zombies : Past(z) /\ z \notin Registered
VictimsPast ==
  ldn.pc \in {"victims", "checked", "telling"} =>
    \A i \in DOMAIN ldn.victims : session[ldn.victims[i]].joined = 1
VictimCutOff == ldn.pc = "telling" => ~session[Head(ldn.victims)].connected
PlayerInv ==
  /\ Courses /\ Seated /\ OneSeat /\ OwnStack
  /\ ZombiesPast /\ VictimsPast /\ VictimCutOff /\ PlayerAccounted

USE P2pProxyServerAssumption

-----------------------------------------------------------------------------
(***************************************************************************)
(* The least of some slots or stacks, and the entries at some positions of *)
(* a sequence.                                                             *)
(***************************************************************************)
LEMMA Least ==
  ASSUME NEW T \in SUBSET Nat, T # {}
  PROVE  \E m \in T : \A k \in T : m <= k
<1>1. \E m \in T : \A k \in T : <<k, m>> \notin OpToRel(<, Nat)
  BY NatLessThanWellFounded, WFMin
<1>2. PICK m \in T : \A k \in T : <<k, m>> \notin OpToRel(<, Nat)
  BY <1>1
<1>3. ASSUME NEW k \in T PROVE m <= k
  <2>1. SUFFICES ASSUME k < m PROVE FALSE
    OBVIOUS
  <2>2. <<k, m>> \in Nat \X Nat /\ <<k, m>>[1] = k /\ <<k, m>>[2] = m
    OBVIOUS
  <2>3. <<k, m>> \in {ss \in Nat \X Nat : ss[1] < ss[2]}
    BY <2>1, <2>2
  <2>4. <<k, m>> \in OpToRel(<, Nat)
    BY <2>3 DEF OpToRel
  <2>5. QED
    BY <1>2, <2>4
<1>4. QED
  BY <1>3

\* The j-th position is one of the positions, and j of them are up to it.
LEMMA NthIs ==
  ASSUME NEW n \in Nat, NEW P \in SUBSET (1..n), NEW j \in 1..Cardinality(P)
  PROVE  Nth(P, j) \in P /\ Cardinality(UpTo(P, Nth(P, j))) = j
<1>1. IsFiniteSet(P) /\ Cardinality(P) \in Nat
  <2>1. IsFiniteSet(1..n)
    BY FS_Interval
  <2>2. QED
    BY <2>1, FS_Subset, FS_CardinalityType
<1>10. \A k \in P : k \in Nat /\ 1 <= k /\ k <= n
  OBVIOUS
<1>2. ASSUME NEW i \in Nat
      PROVE  IsFiniteSet(UpTo(P, i)) /\ Cardinality(UpTo(P, i)) \in Nat
  BY <1>1, FS_Subset, FS_CardinalityType DEF UpTo
<1> DEFINE T == {i \in Nat : j <= Cardinality(UpTo(P, i))}
<1>3. n \in T
  <2>1. UpTo(P, n) = P
    BY <1>10 DEF UpTo
  <2>2. QED
    BY <2>1
<1>4. PICK m \in T : \A k \in T : m <= k
  BY <1>3, Least
<1>5. m # 0
  <2>1. UpTo(P, 0) = {}
    <3>1. \A k \in P : ~(k <= 0)
      BY <1>10
    <3>2. QED
      BY <3>1, Zenon DEF UpTo
  <2>2. Cardinality(UpTo(P, 0)) = 0
    BY <2>1, FS_EmptySet
  <2>3. QED
    BY <2>2
<1>6. m - 1 \in Nat /\ Cardinality(UpTo(P, m - 1)) < j
  <2>1. m - 1 \in Nat /\ m - 1 \notin T
    BY <1>4, <1>5
  <2>2. QED
    BY <2>1, <1>2
<1>7. m \in P
  <2>1. SUFFICES ASSUME m \notin P PROVE FALSE
    OBVIOUS
  <2>2. UpTo(P, m) = UpTo(P, m - 1)
    <3>1. \A k \in P : k <= m <=> k <= m - 1
      BY <1>10, <1>6, <2>1
    <3>2. QED
      BY <3>1, Zenon DEF UpTo
  <2>3. QED
    BY <1>2, <1>6, <2>2
<1>8. Cardinality(UpTo(P, m)) = j
  <2>1. UpTo(P, m) = UpTo(P, m - 1) \cup {m} /\ m \notin UpTo(P, m - 1)
    <3>1. \A k \in P : k <= m <=> k <= m - 1 \/ k = m
      BY <1>10, <1>6, <1>7
    <3>2. ~(m <= m - 1)
      BY <1>6
    <3>3. QED
      BY <1>7, <3>1, <3>2, Zenon DEF UpTo
  <2>2. Cardinality(UpTo(P, m)) = Cardinality(UpTo(P, m - 1)) + 1
    BY <1>2, <1>6, <2>1, FS_AddElement
  <2>3. QED
    BY <1>2, <1>6, <2>2
<1>9. QED
  BY <1>7, <1>8 DEF Nth

\* A subsequence has the entries of the sequence at the chosen positions, each once.
LEMMA SubsequenceIs ==
  ASSUME NEW S, NEW s \in Seq(S), NEW P \in SUBSET (DOMAIN s)
  PROVE  /\ Subsequence(s, P) \in Seq(S) /\ Len(Subsequence(s, P)) = Cardinality(P)
         /\ Len(Subsequence(s, P)) <= Len(s)
         /\ \A j \in DOMAIN Subsequence(s, P) :
              Nth(P, j) \in P /\ Subsequence(s, P)[j] = s[Nth(P, j)]
         /\ \A j, k \in DOMAIN Subsequence(s, P) : Nth(P, j) = Nth(P, k) => j = k
<1>1. Len(s) \in Nat /\ DOMAIN s = 1..Len(s) /\ s \in [1..Len(s) -> S]
  BY LenProperties
<1>2. IsFiniteSet(P) /\ Cardinality(P) \in Nat /\ Cardinality(P) <= Len(s)
  <2>1. IsFiniteSet(1..Len(s)) /\ Cardinality(1..Len(s)) = Len(s)
    <3>1. 1 \in Int /\ Len(s) \in Int
      BY <1>1
    <3>2. Cardinality(1..Len(s)) = IF 1 > Len(s) THEN 0 ELSE Len(s) - 1 + 1
      BY <3>1, FS_Interval
    <3>3. QED
      BY <1>1, <3>1, <3>2, FS_Interval
  <2>2. QED
    BY <1>1, <2>1, FS_Subset, FS_CardinalityType
<1>3. ASSUME NEW j \in 1..Cardinality(P)
      PROVE  Nth(P, j) \in P /\ Cardinality(UpTo(P, Nth(P, j))) = j
  BY <1>1, NthIs
<1>4. Subsequence(s, P) \in [1..Cardinality(P) -> S]
  BY <1>1, <1>3 DEF Subsequence
<1>5. Subsequence(s, P) \in Seq(S) /\ Len(Subsequence(s, P)) = Cardinality(P)
  <2>1. Subsequence(s, P) \in Seq(S)
    BY <1>2, <1>4, SeqDef
  <2>2. QED
    BY <1>2, <1>4, <2>1, LenProperties
<1>6. QED
  BY <1>2, <1>3, <1>4, <1>5 DEF Subsequence

\* First picks one of the given slots or stacks.
LEMMA FirstIs ==
  ASSUME NEW P \in SUBSET Nat, P # {}
  PROVE  First(P) \in P
BY Least DEF First

\* InOrder lists the sessions in the given slots, all of them taken.
LEMMA InOrderIs ==
  ASSUME m_sessions \in [Slots -> Sessions \cup {None}],
         NEW P \in SUBSET {i \in Slots : m_sessions[i] # None}
  PROVE  /\ InOrder(P) \in Seq(Sessions)
         /\ \A j \in DOMAIN InOrder(P) : \E i \in P : InOrder(P)[j] = m_sessions[i]
         /\ P # {} => InOrder(P) # <<>>
<1>1. m_sessions \in Seq(Sessions \cup {None}) /\ DOMAIN m_sessions = Slots
  BY SeqDef DEF Slots
<1>2. P \in SUBSET DOMAIN m_sessions
  BY <1>1
<1>3. /\ InOrder(P) \in Seq(Sessions \cup {None}) /\ Len(InOrder(P)) = Cardinality(P)
      /\ \A j \in DOMAIN InOrder(P) : Nth(P, j) \in P /\ InOrder(P)[j] = m_sessions[Nth(P, j)]
  BY <1>1, <1>2, SubsequenceIs DEF InOrder
<1>4. \A j \in DOMAIN InOrder(P) : \E i \in P : InOrder(P)[j] = m_sessions[i]
  BY <1>3
<1>5. InOrder(P) \in Seq(Sessions)
  <2>1. \A j \in DOMAIN InOrder(P) : InOrder(P)[j] \in Sessions
    BY <1>4
  <2>2. QED
    BY <1>3, <2>1, ElementOfSeq, SeqDef, LenProperties
<1>6. P # {} => InOrder(P) # <<>>
  <2>1. IsFiniteSet(P)
    <3>1. 1 \in Int /\ MaxPlayers \in Int
      OBVIOUS
    <3>2. IsFiniteSet(Slots)
      BY <3>1, FS_Interval DEF Slots
    <3>3. QED
      BY <3>2, FS_Subset
  <2>2. P # {} => Cardinality(P) # 0
    BY <2>1, FS_EmptySet
  <2>3. QED
    BY <1>3, <2>2
<1>7. QED
  BY <1>4, <1>5, <1>6

-----------------------------------------------------------------------------
(***************************************************************************)
(* Types.                                                                  *)
(***************************************************************************)
ObjectsOK == session \in [Sessions -> ObjectType]

\* What the fields of a session object are.
LEMMA ObjectFacts ==
  ASSUME ObjectsOK, NEW s \in Sessions
  PROVE  /\ session[s].pc \in SessionPc /\ session[s].connected \in BOOLEAN
         /\ session[s].authenticated \in BOOLEAN
         /\ session[s].stack \in Stacks \cup {NoStack}
         /\ session[s].claim \in Tokens \cup {None}
         /\ session[s].claims \in Nat /\ session[s].joined \in Nat /\ session[s].told \in Nat
BY DEF ObjectsOK, ObjectType

(***************************************************************************)
(* The ten ways in which the code changes a session object.                *)
(***************************************************************************)
AtPc(r, p) == [r EXCEPT !.pc = p]
CutOff(r) == [r EXCEPT !.connected = FALSE]
CutAt(r, p) == [r EXCEPT !.pc = p, !.connected = FALSE]
OffStack(r, p) == [r EXCEPT !.pc = p, !.on = NoStack]
Claiming(r, p, k, m) == [r EXCEPT !.pc = p, !.claim = k, !.claims = m]
Joining(r, p, ip, m) == [r EXCEPT !.pc = p, !.authenticated = TRUE, !.virtual_ip = ip,
                           !.joined = m]
ToldOf(r, n, p) == [r EXCEPT !.told = n, !.pc = p]
Begun(r, p, k, on) == [r EXCEPT !.pc = p, !.connected = TRUE, !.stack = k, !.on = on]
FreedOf(r) == [r EXCEPT !.freed = TRUE, !.stack = NoStack]
SweptOf(r, f, k) == [r EXCEPT !.connected = FALSE, !.swept = TRUE, !.freed = f, !.stack = k]

\* The fields that the proofs speak of, but for pc, connected and stack.
Rest(n, r) ==
  /\ n.authenticated = r.authenticated /\ n.claim = r.claim /\ n.claims = r.claims
  /\ n.joined = r.joined /\ n.told = r.told /\ n.swept = r.swept

\* Each of them sets what it names and nothing else.
LEMMA EditPc ==
  ASSUME NEW r \in ObjectType, NEW p \in SessionPc
  PROVE  LET n == AtPc(r, p) IN
         /\ n \in ObjectType /\ Rest(n, r)
         /\ n.pc = p /\ n.connected = r.connected /\ n.stack = r.stack
BY DEF ObjectType, Rest, AtPc

\* Disconnect's edit.
LEMMA EditCutAt ==
  ASSUME NEW r \in ObjectType, NEW p \in SessionPc
  PROVE  LET n == CutAt(r, p) IN
         /\ n \in ObjectType /\ Rest(n, r)
         /\ n.pc = p /\ n.connected = FALSE /\ n.stack = r.stack
BY DEF ObjectType, Rest, CutAt

\* The end of the thread.
LEMMA EditOff ==
  ASSUME NEW r \in ObjectType, NEW p \in SessionPc
  PROVE  LET n == OffStack(r, p) IN
         /\ n \in ObjectType /\ Rest(n, r)
         /\ n.pc = p /\ n.connected = r.connected /\ n.stack = r.stack
BY DEF ObjectType, Rest, OffStack

\* A session the LDN receive thread cuts off.
LEMMA EditCut ==
  ASSUME NEW r \in ObjectType
  PROVE  /\ CutOff(r) \in ObjectType /\ Rest(CutOff(r), r)
         /\ CutOff(r).pc = r.pc /\ CutOff(r).connected = FALSE /\ CutOff(r).stack = r.stack
BY DEF ObjectType, Rest, CutOff

\* The destructor's edit.
LEMMA EditFreed ==
  ASSUME NEW r \in ObjectType
  PROVE  /\ FreedOf(r) \in ObjectType /\ Rest(FreedOf(r), r) /\ FreedOf(r).pc = r.pc
         /\ FreedOf(r).connected = r.connected /\ FreedOf(r).stack = NoStack
BY DEF ObjectType, Rest, FreedOf

\* A token that is claimed.
LEMMA EditClaim ==
  ASSUME NEW r \in ObjectType, NEW p \in SessionPc, NEW k \in Tokens, NEW m \in Nat
  PROVE  LET n == Claiming(r, p, k, m) IN
         /\ n \in ObjectType /\ n.pc = p /\ n.connected = r.connected
         /\ n.stack = r.stack /\ n.authenticated = r.authenticated /\ n.claim = k
         /\ n.claims = m /\ n.joined = r.joined /\ n.told = r.told
         /\ n.swept = r.swept
BY DEF ObjectType, Claiming

\* A registration.
LEMMA EditJoin ==
  ASSUME NEW r \in ObjectType, NEW p \in SessionPc, NEW ip \in Addresses, NEW m \in Nat
  PROVE  LET n == Joining(r, p, ip, m) IN
         /\ n \in ObjectType /\ n.pc = p /\ n.connected = r.connected
         /\ n.stack = r.stack /\ n.authenticated /\ n.claim = r.claim
         /\ n.claims = r.claims /\ n.joined = m /\ n.told = r.told
         /\ n.swept = r.swept
BY DEF ObjectType, Joining

\* A notice to the master server.
LEMMA EditTold ==
  ASSUME NEW r \in ObjectType, NEW m \in Nat, NEW p \in SessionPc
  PROVE  LET n == ToldOf(r, m, p) IN
         /\ n \in ObjectType /\ n.pc = p /\ n.connected = r.connected
         /\ n.stack = r.stack /\ n.authenticated = r.authenticated /\ n.claim = r.claim
         /\ n.claims = r.claims /\ n.joined = r.joined /\ n.told = m
         /\ n.swept = r.swept
BY DEF ObjectType, ToldOf

\* A thread's start.
LEMMA EditBegin ==
  ASSUME NEW r \in ObjectType, NEW p \in SessionPc, NEW k \in Stacks,
         NEW on \in Stacks \cup {NoStack}
  PROVE  LET n == Begun(r, p, k, on) IN
         /\ n \in ObjectType /\ Rest(n, r)
         /\ n.pc = p /\ n.connected /\ n.connected \in BOOLEAN /\ n.stack = k
BY DEF ObjectType, Rest, Begun

\* Stop's edit.
LEMMA EditSwept ==
  ASSUME NEW r \in ObjectType, NEW f \in BOOLEAN, NEW k \in Stacks \cup {NoStack}
  PROVE  LET n == SweptOf(r, f, k) IN
         /\ n \in ObjectType /\ n.pc = r.pc /\ ~n.connected
         /\ n.stack = k /\ n.authenticated = r.authenticated /\ n.claim = r.claim
         /\ n.claims = r.claims /\ n.joined = r.joined /\ n.told = r.told
         /\ n.swept
BY DEF ObjectType, SweptOf

-----------------------------------------------------------------------------
(***************************************************************************)
(* What the steps do to the objects.  Alone(s): only s is changed.         *)
(***************************************************************************)
Alone(s) == ObjectsOK' /\ \A t \in Sessions : t # s => session'[t] = session[t]
Moves(s, p, c, k) ==
  /\ Alone(s) /\ Rest(session'[s], session[s])
  /\ session'[s].pc = p /\ session'[s].connected = c /\ session'[s].stack = k

\* One object replaced by another.
LEMMA AloneIs ==
  ASSUME ObjectsOK, NEW s \in Sessions, NEW n \in ObjectType,
         session' = [session EXCEPT ![s] = n]
  PROVE  Alone(s) /\ session'[s] = n
BY DEF ObjectsOK, Alone

\* The places in the code have the type of pc.
LEMMA Places ==
  /\ \A p \in {"recv", "auth", "authWait", "checked", "telling", "exiting", "done", "leaked"} :
       p \in SessionPc
  /\ NoStack \notin Stacks /\ Unborn \in ObjectType
BY DEF SessionPc, NoStack, Stacks, Unborn, ObjectType

\* A step that only moves the thread.
LEMMA GotoMoves ==
  ASSUME ObjectsOK, NEW s \in Sessions, NEW p \in SessionPc, Goto(s, p)
  PROVE  Moves(s, p, session[s].connected, session[s].stack)
<1>1. session' = [session EXCEPT ![s] = AtPc(session[s], p)]
  BY DEF Goto, AtPc
<1>2. session[s] \in ObjectType
  BY DEF ObjectsOK
<1>3. AtPc(session[s], p) \in ObjectType /\ Rest(AtPc(session[s], p), session[s])
  BY <1>2, EditPc
<1>4. Alone(s) /\ session'[s] = AtPc(session[s], p)
  BY <1>1, <1>3, AloneIs
<1>5. QED
  BY <1>2, <1>3, <1>4, EditPc DEF Moves

\* Disconnect sets m_connected; the end of the thread leaves its stack.
LEMMA ThreadMoves ==
  ASSUME ObjectsOK, NEW s \in Sessions
  PROVE  /\ Disconnect(s) => Moves(s, "telling", FALSE, session[s].stack)
         /\ ThreadDone(s) => Moves(s, "done", session[s].connected, session[s].stack)
<1>1. session[s] \in ObjectType
  BY DEF ObjectsOK
<1>2. ASSUME Disconnect(s) PROVE Moves(s, "telling", FALSE, session[s].stack)
  <2>1. session' = [session EXCEPT ![s] = CutAt(session[s], "telling")]
    BY <1>2 DEF Disconnect, CutAt, ObjectsOK
  <2>2. "telling" \in SessionPc
    BY Places
  <2>3. CutAt(session[s], "telling") \in ObjectType
    BY <1>1, <2>2, EditCutAt
  <2>4. Alone(s) /\ session'[s] = CutAt(session[s], "telling")
    BY <2>1, <2>3, AloneIs
  <2>5. LET n == CutAt(session[s], "telling") IN
        /\ Rest(n, session[s])
        /\ n.pc = "telling" /\ n.connected = FALSE /\ n.stack = session[s].stack
    BY <1>1, <2>2, EditCutAt, Zenon
  <2>6. QED
    BY <2>4, <2>5, Zenon DEF Moves
<1>3. ASSUME ThreadDone(s)
      PROVE  Moves(s, "done", session[s].connected, session[s].stack)
  <2>1. session' = [session EXCEPT ![s] = OffStack(session[s], "done")]
    BY <1>3 DEF ThreadDone, OffStack, ObjectsOK
  <2>2. "done" \in SessionPc
    BY Places
  <2>3. OffStack(session[s], "done") \in ObjectType
    BY <1>1, <2>2, EditOff
  <2>4. Alone(s) /\ session'[s] = OffStack(session[s], "done")
    BY <2>1, <2>3, AloneIs
  <2>5. QED
    BY <1>1, <2>2, <2>4, EditOff DEF Moves
<1>4. QED
  BY <1>2, <1>3

\* ExternalProxy arrives.
Claims(s, k) ==
  /\ Alone(s) /\ session'[s].pc = "auth" /\ session'[s].connected = session[s].connected
  /\ session'[s].stack = session[s].stack
  /\ session'[s].authenticated = session[s].authenticated /\ session'[s].claim = k
  /\ session'[s].claims = session[s].claims + 1 /\ session'[s].joined = session[s].joined
  /\ session'[s].told = session[s].told /\ session'[s].swept = session[s].swept

\* HandleExternalProxy notes the token that is claimed.
LEMMA ClaimMoves ==
  ASSUME ObjectsOK, NEW s \in Sessions, HandleExternalProxy(s)
  PROVE  \E k \in Tokens : Claims(s, k)
<1>1. session[s] \in ObjectType /\ session[s].claims + 1 \in Nat
  BY ObjectFacts DEF ObjectsOK
<1>2. PICK k \in Tokens :
        session' = [session EXCEPT ![s] = Claiming(session[s], "auth", k, session[s].claims + 1)]
  BY DEF HandleExternalProxy, Claiming, ObjectsOK
<1>3. Claims(s, k)
  <2>1. "auth" \in SessionPc
    BY Places
  <2>2. Claiming(session[s], "auth", k, session[s].claims + 1) \in ObjectType
    BY <1>1, <2>1, EditClaim
  <2>3. Alone(s) /\ session'[s] = Claiming(session[s], "auth", k, session[s].claims + 1)
    BY <1>2, <2>2, AloneIs
  <2>4. QED
    BY <1>1, <2>1, <2>3, EditClaim DEF Claims
<1>4. QED
  BY <1>3

\* HandleExternalProxyStateChange disconnects a session as it finds it.
LEMMA CutMoves ==
  ASSUME ObjectsOK, NEW s \in Sessions,
         session' = [session EXCEPT ![s].connected = FALSE]
  PROVE  Moves(s, session[s].pc, FALSE, session[s].stack)
<1>1. session' = [session EXCEPT ![s] = CutOff(session[s])]
  BY DEF CutOff, ObjectsOK
<1>2. session[s] \in ObjectType
  BY DEF ObjectsOK
<1>3. CutOff(session[s]) \in ObjectType
  BY <1>2, EditCut
<1>4. Alone(s) /\ session'[s] = CutOff(session[s])
  BY <1>1, <1>3, AloneIs
<1>5. LET n == CutOff(session[s]) IN
      /\ Rest(n, session[s])
      /\ n.pc = session[s].pc /\ n.connected = FALSE /\ n.stack = session[s].stack
  BY <1>2, EditCut, Zenon
<1>6. QED
  BY <1>4, <1>5, Zenon DEF Moves

\* OnSessionDisconnected notes that the master server was told, if it was.
Tells(s, p) ==
  /\ Alone(s) /\ session'[s].pc = p /\ session'[s].connected = session[s].connected
  /\ session'[s].stack = session[s].stack
  /\ session'[s].authenticated = session[s].authenticated
  /\ session'[s].claim = session[s].claim /\ session'[s].claims = session[s].claims
  /\ session'[s].joined = session[s].joined
  /\ session'[s].told = NotifyMasterDisconnect(s)
  /\ session'[s].swept = session[s].swept

\* And that is all it does to the object.
LEMMA TellMoves ==
  ASSUME ObjectsOK, NEW s \in Sessions, NEW p \in SessionPc,
         session' = [session EXCEPT ![s].told = NotifyMasterDisconnect(s), ![s].pc = p]
  PROVE  Tells(s, p)
<1>1. session' = [session EXCEPT ![s] = ToldOf(session[s], NotifyMasterDisconnect(s), p)]
  BY DEF ToldOf, ObjectsOK
<1>2. session[s] \in ObjectType
  BY DEF ObjectsOK
<1>3. NotifyMasterDisconnect(s) \in Nat
  BY ObjectFacts DEF NotifyMasterDisconnect
<1>4. ToldOf(session[s], NotifyMasterDisconnect(s), p) \in ObjectType
  BY <1>2, <1>3, EditTold
<1>5. Alone(s) /\ session'[s] = ToldOf(session[s], NotifyMasterDisconnect(s), p)
  BY <1>1, <1>4, AloneIs
<1>6. QED
  BY <1>2, <1>3, <1>5, EditTold DEF Tells

\* A session that is admitted.
Joins(s) ==
  /\ Alone(s) /\ session'[s].pc = "recv" /\ session'[s].connected = session[s].connected
  /\ session'[s].stack = session[s].stack /\ session'[s].authenticated
  /\ session'[s].claim = session[s].claim /\ session'[s].claims = session[s].claims
  /\ session'[s].joined = session[s].joined + 1 /\ session'[s].told = session[s].told
  /\ session'[s].swept = session[s].swept

\* Register gives it one of the announced addresses.
LEMMA JoinMoves ==
  ASSUME ObjectsOK, m_waiting_tokens \in Seq(Tokens), NEW s \in Sessions,
         NEW i \in DOMAIN m_waiting_tokens, Register(s, i)
  PROVE  Joins(s)
<1>1. session' = [session EXCEPT ![s] =
                    Joining(session[s], "recv", AssignedIp(i), session[s].joined + 1)]
  BY DEF Register, Joining, ObjectsOK
<1>2. session[s] \in ObjectType /\ session[s].joined + 1 \in Nat /\ "recv" \in SessionPc
  BY ObjectFacts, Places DEF ObjectsOK
<1>3. AssignedIp(i) \in Addresses
  <2>1. \A j \in DOMAIN m_waiting_tokens : m_waiting_tokens[j] \in Tokens
    BY ElementOfSeq, LenProperties
  <2>2. (IF i < Len(m_waiting_tokens) THEN i + 1 ELSE i) \in DOMAIN m_waiting_tokens
    BY LenProperties
  <2>3. QED
    BY <2>1, <2>2 DEF AssignedIp, Addresses
<1>4. Joining(session[s], "recv", AssignedIp(i), session[s].joined + 1) \in ObjectType
  BY <1>2, <1>3, EditJoin
<1>5. /\ Alone(s)
      /\ session'[s] = Joining(session[s], "recv", AssignedIp(i), session[s].joined + 1)
  BY <1>1, <1>4, AloneIs
<1>6. LET n == Joining(session[s], "recv", AssignedIp(i), session[s].joined + 1) IN
      /\ n.pc = "recv" /\ n.connected = session[s].connected /\ n.stack = session[s].stack
      /\ n.authenticated /\ n.claim = session[s].claim
      /\ n.claims = session[s].claims /\ n.joined = session[s].joined + 1
      /\ n.told = session[s].told /\ n.swept = session[s].swept
  BY <1>2, <1>3, EditJoin
<1>7. QED
  BY <1>5, <1>6, Zenon DEF Joins

\* ReapZombieSessions frees every session on the list.
Reaps ==
  /\ ObjectsOK'
  /\ \A s \in Sessions :
       IF s \in Zombies
       THEN /\ Rest(session'[s], session[s]) /\ session'[s].pc = session[s].pc
            /\ session'[s].connected = session[s].connected /\ session'[s].stack = NoStack
       ELSE session'[s] = session[s]

\* It touches nothing else of them.
LEMMA ReapMoves ==
  ASSUME ObjectsOK, ReapZombieSessions
  PROVE  Reaps
<1>1. session' = [s \in Sessions |-> IF s \in Zombies THEN FreedOf(session[s]) ELSE session[s]]
  BY DEF ReapZombieSessions, FreedOf
<1>2. \A s \in Sessions : session[s] \in ObjectType
  BY DEF ObjectsOK
<1>3. ASSUME NEW s \in Sessions
      PROVE  FreedOf(session[s]) \in ObjectType
  BY <1>2, EditFreed
<1>4. ObjectsOK'
  <2>1. \A s \in Sessions : (IF s \in Zombies THEN FreedOf(session[s]) ELSE session[s]) \in ObjectType
    BY <1>2, <1>3
  <2>2. QED
    BY <1>1, <2>1 DEF ObjectsOK
<1>5. ASSUME NEW s \in Sessions, s \in Zombies
      PROVE  /\ Rest(session'[s], session[s]) /\ session'[s].pc = session[s].pc
             /\ session'[s].connected = session[s].connected /\ session'[s].stack = NoStack
  <2>1. session'[s] = FreedOf(session[s])
    BY <1>1, <1>5
  <2>2. QED
    BY <1>2, <2>1, EditFreed
<1>6. \A s \in Sessions : s \notin Zombies => session'[s] = session[s]
  BY <1>1
<1>7. QED
  BY <1>4, <1>5, <1>6 DEF Reaps

\* Stop takes the sessions out of their slots.
Sweeps ==
  /\ ObjectsOK'
  /\ \A s \in Sessions :
       IF s \in Registered
       THEN /\ session'[s].pc = session[s].pc /\ ~session'[s].connected
            /\ session'[s].stack = IF s \in Overflow THEN NoStack ELSE session[s].stack
            /\ session'[s].authenticated = session[s].authenticated
            /\ session'[s].claim = session[s].claim
            /\ session'[s].claims = session[s].claims /\ session'[s].joined = session[s].joined
            /\ session'[s].told = session[s].told /\ session'[s].swept
       ELSE session'[s] = session[s]

\* The others are not told.
LEMMA StopMoves ==
  ASSUME ObjectsOK, session' = Swept
  PROVE  Sweeps
<1> DEFINE F(s) == session[s].freed \/ s \in Overflow
           K(s) == IF s \in Overflow THEN NoStack ELSE session[s].stack
<1>1. session' = [s \in Sessions |->
        IF s \in Registered THEN SweptOf(session[s], F(s), K(s)) ELSE session[s]]
  BY DEF Swept, SweptOf
<1>2. ASSUME NEW s \in Sessions
      PROVE  session[s] \in ObjectType /\ F(s) \in BOOLEAN /\ K(s) \in Stacks \cup {NoStack}
  BY ObjectFacts DEF ObjectsOK
<1> HIDE DEF F, K
<1>3. ASSUME NEW s \in Sessions
      PROVE  SweptOf(session[s], F(s), K(s)) \in ObjectType
  BY <1>2, EditSwept
<1>4. ObjectsOK'
  <2>1. \A s \in Sessions :
          (IF s \in Registered THEN SweptOf(session[s], F(s), K(s)) ELSE session[s]) \in ObjectType
    BY <1>2, <1>3
  <2>2. QED
    BY <1>1, <2>1 DEF ObjectsOK
<1>5. ASSUME NEW s \in Sessions, s \in Registered
      PROVE  /\ session'[s].pc = session[s].pc /\ ~session'[s].connected
             /\ session'[s].stack = K(s)
             /\ session'[s].authenticated = session[s].authenticated
             /\ session'[s].claim = session[s].claim
             /\ session'[s].claims = session[s].claims /\ session'[s].joined = session[s].joined
             /\ session'[s].told = session[s].told /\ session'[s].swept
  <2>1. session'[s] = SweptOf(session[s], F(s), K(s))
    BY <1>1, <1>5
  <2>2. LET n == SweptOf(session[s], F(s), K(s)) IN
        /\ n.pc = session[s].pc /\ ~n.connected
        /\ n.stack = K(s) /\ n.authenticated = session[s].authenticated
        /\ n.claim = session[s].claim /\ n.claims = session[s].claims
        /\ n.joined = session[s].joined /\ n.told = session[s].told /\ n.swept
    BY <1>2, EditSwept
  <2>3. QED
    BY <2>1, <2>2, Zenon
<1>6. \A s \in Sessions : s \notin Registered => session'[s] = session[s]
  BY <1>1
<1>7. QED
  BY <1>4, <1>5, <1>6 DEF Sweeps, K

\* AcceptSession: no stack, or a stack and a thread or none.
Begins(s) ==
  \/ UNCHANGED used /\ Moves(s, "leaked", session[s].connected, session[s].stack)
  \/ \E k \in Stacks \ used :
       /\ used' = used \cup {k}
       /\ \E p \in {"recv", "leaked"} : Moves(s, p, TRUE, k)

\* P2pProxySession::Start takes a stack nobody has.
LEMMA BeginMoves ==
  ASSUME ObjectsOK, NEW s \in Sessions, SessionStart(s)
  PROVE  Begins(s)
<1>1. session[s] \in ObjectType
  BY DEF ObjectsOK
<1>2. CASE FreeStacks = {}
  BY <1>2, GotoMoves, Places DEF SessionStart, Begins
<1>3. CASE FreeStacks # {}
  <2>1. PICK k \in FreeStacks : k = First(FreeStacks)
    BY <1>3, FirstIs DEF FreeStacks, Stacks
  <2>2. used' = used \cup {k}
    BY <1>3, <2>1, ZenonT(60) DEF SessionStart
  <2>3. PICK ran \in BOOLEAN : session' = [session EXCEPT ![s].pc = IF ran THEN "recv" ELSE "leaked",
                 ![s].connected = TRUE, ![s].stack = k,
                 ![s].on = IF ran THEN k ELSE NoStack]
    BY <1>3, <2>1 DEF SessionStart
  <2>4. PICK p \in {"recv", "leaked"}, on \in Stacks \cup {NoStack} :
          session' = [session EXCEPT ![s].pc = p, ![s].connected = TRUE, ![s].stack = k,
                                     ![s].on = on]
    BY <2>3 DEF FreeStacks
  <2>5. session' = [session EXCEPT ![s] = Begun(session[s], p, k, on)]
    BY <2>4 DEF Begun, ObjectsOK
  <2>6. k \in Stacks /\ k \notin used /\ p \in SessionPc
    BY <2>1, Places DEF FreeStacks
  <2>7. Begun(session[s], p, k, on) \in ObjectType
    BY <1>1, <2>6, EditBegin
  <2>8. Alone(s) /\ session'[s] = Begun(session[s], p, k, on)
    BY <2>5, <2>7, AloneIs
  <2>9. LET n == Begun(session[s], p, k, on) IN
        /\ Rest(n, session[s]) /\ n.pc = p /\ n.connected /\ n.connected \in BOOLEAN
        /\ n.stack = k
    BY <1>1, <2>6, EditBegin
  <2>10. Moves(s, p, TRUE, k)
    <3>1. session'[s].connected = TRUE
      BY <2>8, <2>9, Zenon
    <3>2. QED
      BY <2>8, <2>9, <3>1, Zenon DEF Moves
  <2>11. QED
    BY <2>2, <2>6, <2>10 DEF Begins
<1>4. QED
  BY <1>2, <1>3

-----------------------------------------------------------------------------
(***************************************************************************)
(* What the steps do to the LDN receive thread.                            *)
(***************************************************************************)
LdnOK ==
  /\ ldn \in LdnState
  /\ ldn.pc \in {"victims", "checked", "telling"} => ldn.victims # <<>>
LdnAt(p, k, v) == ldn' \in LdnState /\ ldn'.pc = p /\ ldn'.token = k /\ ldn'.victims = v
LdnIdle == LdnAt("idle", None, <<>>)

\* Its records.
LEMMA LdnEdit ==
  ASSUME ldn \in LdnState
  PROVE  /\ ldn.pc \in {"idle", "token", "victims", "checked", "telling"}
         /\ ldn.token \in Tokens \cup {None} /\ ldn.victims \in Seq(Sessions)
         /\ ldn' = IdleLdn => LdnIdle
         /\ \A p \in {"victims", "checked", "telling"} :
              ldn' = [ldn EXCEPT !.pc = p] => LdnAt(p, ldn.token, ldn.victims)
         /\ \A k \in Tokens :
              ldn' = [ldn EXCEPT !.pc = "token", !.token = k] => LdnAt("token", k, ldn.victims)
         /\ \A v \in Seq(Sessions) :
              ldn' = [ldn EXCEPT !.pc = "victims", !.victims = v] => LdnAt("victims", ldn.token, v)
<1>1. /\ ldn.pc \in {"idle", "token", "victims", "checked", "telling"}
      /\ ldn.token \in Tokens \cup {None} /\ ldn.victims \in Seq(Sessions)
  BY DEF LdnState
<1>2. ldn' = IdleLdn => LdnIdle
  <2>1. <<>> \in Seq(Sessions)
    BY EmptySeq
  <2>2. QED
    BY <2>1 DEF LdnState, IdleLdn, LdnAt, LdnIdle
<1>3. ASSUME NEW p \in {"victims", "checked", "telling"}, ldn' = [ldn EXCEPT !.pc = p]
      PROVE  LdnAt(p, ldn.token, ldn.victims)
  BY <1>3 DEF LdnState, LdnAt
<1>4. ASSUME NEW k \in Tokens, ldn' = [ldn EXCEPT !.pc = "token", !.token = k]
      PROVE  LdnAt("token", k, ldn.victims)
  BY <1>4 DEF LdnState, LdnAt
<1>5. ASSUME NEW v \in Seq(Sessions), ldn' = [ldn EXCEPT !.pc = "victims", !.victims = v]
      PROVE  LdnAt("victims", ldn.token, v)
  BY <1>5 DEF LdnState, LdnAt
<1>6. QED
  BY <1>1, <1>2, <1>3, <1>4, <1>5

\* The next session to be sent away, or none.
LEMMA NextVictimIs ==
  ASSUME LdnOK, ldn.pc \in {"victims", "checked", "telling"}, ldn' = NextVictim
  PROVE  LdnIdle \/ (Tail(ldn.victims) # <<>> /\ LdnAt("victims", ldn.token, Tail(ldn.victims)))
<1>1. CASE Len(ldn.victims) = 1
  BY <1>1, LdnEdit DEF LdnOK, NextVictim
<1>2. CASE Len(ldn.victims) # 1
  <2>1. ldn' = [ldn EXCEPT !.pc = "victims", !.victims = Tail(ldn.victims)]
    BY <1>2 DEF NextVictim
  <2>2. ldn.victims \in Seq(Sessions) /\ ldn.victims # <<>>
    BY LdnEdit DEF LdnOK
  <2>3. Tail(ldn.victims) \in Seq(Sessions) /\ Len(Tail(ldn.victims)) = Len(ldn.victims) - 1
    BY <2>2, HeadTailProperties
  <2>4. Len(Tail(ldn.victims)) # 0
    BY <1>2, <2>3
  <2>5. Tail(ldn.victims) # <<>>
    <3>1. PICK u \in Seq(Sessions) : u = Tail(ldn.victims)
      BY <2>3
    <3>2. Len(u) # 0
      BY <2>4, <3>1
    <3>3. u # <<>>
      BY <3>2
    <3>4. QED
      BY <3>1, <3>3
  <2>6. LdnAt("victims", ldn.token, Tail(ldn.victims))
    BY <2>1, <2>3, LdnEdit DEF LdnOK
  <2>7. QED
    BY <2>5, <2>6
<1>3. QED
  BY <1>1, <1>2

\* The steps of the LDN receive thread, and of nobody else.
LEMMA LdnStep ==
  ASSUME LdnOK, m_sessions \in [Slots -> Sessions \cup {None}], [Next]_vars
  PROVE  \/ UNCHANGED ldn
         \/ HandleExternalProxyToken /\ \E k \in Tokens \ issued :
              LdnAt("token", k, ldn.victims) /\ issued' = issued \cup {k}
         \/ AddWaitingToken /\ LdnIdle
         \/ /\ HandleExternalProxyStateChange
            /\ \E P \in SUBSET {i \in Slots : m_sessions[i] # None} :
                 P # {} /\ LdnAt("victims", ldn.token, InOrder(P))
         \/ VictimChecked /\ session[Head(ldn.victims)].connected
              /\ LdnAt("checked", ldn.token, ldn.victims)
         \/ VictimCut /\ LdnAt("telling", ldn.token, ldn.victims)
         \/ /\ (VictimChecked /\ ~session[Head(ldn.victims)].connected) \/ VictimTold
            /\ LdnIdle \/ (Tail(ldn.victims) # <<>> /\ LdnAt("victims", ldn.token, Tail(ldn.victims)))
<1>1. CASE HandleExternalProxyToken
  <2>1. PICK k \in Tokens \ issued : /\ ldn' = [ldn EXCEPT !.pc = "token", !.token = k]
                                     /\ issued' = issued \cup {k}
    BY <1>1 DEF HandleExternalProxyToken
  <2>2. LdnAt("token", k, ldn.victims)
    BY <2>1, LdnEdit DEF LdnOK
  <2>3. QED
    BY <1>1, <2>1, <2>2
<1>2. CASE AddWaitingToken
  <2>1. ldn' = IdleLdn
    BY <1>2 DEF AddWaitingToken
  <2>2. QED
    BY <1>2, <2>1, LdnEdit DEF LdnOK
<1>3. CASE HandleExternalProxyStateChange
  <2>1. PICK P \in SUBSET {i \in Slots : m_sessions[i] # None} :
          ldn' = IF P = {} THEN ldn ELSE [ldn EXCEPT !.pc = "victims", !.victims = InOrder(P)]
    BY <1>3 DEF HandleExternalProxyStateChange
  <2>2. CASE P # {}
    <3>1. InOrder(P) \in Seq(Sessions)
      BY InOrderIs
    <3>2. LdnAt("victims", ldn.token, InOrder(P))
      BY <2>1, <2>2, <3>1, LdnEdit DEF LdnOK
    <3>3. QED
      BY <1>3, <2>2, <3>2
  <2>3. QED
    BY <2>1, <2>2, SMTT(30)
<1>4. CASE VictimChecked
  <2>1. ldn.pc = "victims"
    BY <1>4 DEF VictimChecked
  <2>2. CASE session[Head(ldn.victims)].connected
    <3>1. ldn' = [ldn EXCEPT !.pc = "checked"]
      BY <1>4, <2>2 DEF VictimChecked
    <3>2. QED
      BY <1>4, <2>2, <3>1, LdnEdit DEF LdnOK
  <2>3. CASE ~session[Head(ldn.victims)].connected
    <3>1. ldn' = NextVictim
      BY <1>4, <2>3 DEF VictimChecked
    <3>2. QED
      BY <1>4, <2>1, <2>3, <3>1, NextVictimIs
  <2>4. QED
    BY <2>2, <2>3
<1>5. CASE VictimCut
  <2>1. ldn' = [ldn EXCEPT !.pc = "telling"]
    BY <1>5 DEF VictimCut
  <2>2. QED
    BY <1>5, <2>1, LdnEdit DEF LdnOK
<1>6. CASE VictimTold
  <2>1. ldn.pc = "telling" /\ ldn' = NextVictim
    BY <1>6 DEF VictimTold
  <2>2. QED
    BY <1>6, <2>1, NextVictimIs
<1>7. CASE Start \/ AcceptReap \/ AcceptSession \/ Stop \/ StopAcceptEnded \/ StopReap
           \/ BroadcastFromHost \/ UNCHANGED vars
  BY <1>7 DEF Start, AcceptReap, AcceptSession, Stop, StopAcceptEnded, StopReap,
     BroadcastFromHost, vars
<1>8. ASSUME NEW s \in Sessions, SessionNext(s) PROVE UNCHANGED ldn
  BY <1>8 DEF SessionNext, TryRegisterUser, HandleExternalProxy, ReceiveEnds, AuthFails,
     Disconnect, SessionTells, ThreadDone, HandleProxyData
<1>9. QED
  BY <1>1, <1>2, <1>3, <1>4, <1>5, <1>6, <1>7, <1>8 DEF Next

-----------------------------------------------------------------------------
(***************************************************************************)
(* Tokens.                                                                 *)
(***************************************************************************)
TokenOK ==
  /\ m_waiting_tokens \in Seq(Tokens) /\ issued \in SUBSET Tokens
  /\ tokenUses \in [Tokens -> Nat]

\* The list v has entries of the list w, each from a place of its own.
Thinned(v, w) ==
  \E f \in [DOMAIN v -> DOMAIN w] :
    /\ \A j \in DOMAIN v : v[j] = w[f[j]]
    /\ \A j, k \in DOMAIN v : f[j] = f[k] => j = k

\* The list without its front, which AddWaitingToken drops when it is full.
LEMMA TailIs ==
  ASSUME NEW w \in Seq(Tokens), w # <<>>, NEW v, v = Tail(w)
  PROVE  v \in Seq(Tokens) /\ Thinned(v, w)
<1>1. Len(w) \in Nat /\ DOMAIN w = 1..Len(w) /\ Len(w) # 0
  BY LenProperties, EmptySeq
<1>2. v \in Seq(Tokens) /\ Len(v) = Len(w) - 1 /\ \A j \in 1..Len(v) : v[j] = w[j + 1]
  BY HeadTailProperties
<1> DEFINE f == [j \in 1..Len(w) - 1 |-> j + 1]
<1>3. f \in [DOMAIN v -> DOMAIN w] /\ DOMAIN v = 1..Len(w) - 1
  BY <1>1, <1>2, LenProperties
<1>4. \A j \in DOMAIN v : v[j] = w[f[j]]
  BY <1>1, <1>2, <1>3
<1>5. \A j, k \in DOMAIN v : f[j] = f[k] => j = k
  BY <1>1, <1>3
<1>6. QED
  BY <1>2, <1>3, <1>4, <1>5 DEF Thinned

\* What a departure leaves of the list, and what a session that registers does.
LEMMA FilteredIs ==
  ASSUME NEW w \in Seq(Tokens), NEW P \in SUBSET DOMAIN w, NEW v, v = Subsequence(w, P)
  PROVE  /\ v \in Seq(Tokens) /\ Thinned(v, w)
         /\ \A j \in DOMAIN v : \E k \in P : v[j] = w[k]
<1> DEFINE f == [j \in DOMAIN v |-> Nth(P, j)]
<1>1. /\ v \in Seq(Tokens) /\ \A j \in DOMAIN v : Nth(P, j) \in P /\ v[j] = w[Nth(P, j)]
      /\ \A j, k \in DOMAIN v : Nth(P, j) = Nth(P, k) => j = k
  BY SubsequenceIs
<1>2. f \in [DOMAIN v -> DOMAIN w] /\ \A j \in DOMAIN v : v[j] = w[f[j]]
  BY <1>1
<1>3. \A j, k \in DOMAIN v : f[j] = f[k] => j = k
  BY <1>1
<1>4. QED
  BY <1>1, <1>2, <1>3, ZenonT(40) DEF Thinned

\* A list that only loses entries still has each token once.
LEMMA ThinnedKeeps ==
  ASSUME NEW v, NEW w, Thinned(v, w),
         \A i, j \in DOMAIN w : w[i] = w[j] => i = j
  PROVE  /\ \A i, j \in DOMAIN v : v[i] = v[j] => i = j
         /\ {v[i] : i \in DOMAIN v} \subseteq {w[i] : i \in DOMAIN w}
<1>1. PICK f \in [DOMAIN v -> DOMAIN w] : /\ \A j \in DOMAIN v : v[j] = w[f[j]]
                                          /\ \A j, k \in DOMAIN v : f[j] = f[k] => j = k
  BY DEF Thinned
<1>2. ASSUME NEW i \in DOMAIN v, NEW j \in DOMAIN v, v[i] = v[j] PROVE i = j
  BY <1>1, <1>2
<1>3. QED
  BY <1>1, <1>2

\* What the steps leave alone of the tokens.
TokensStand ==
  /\ UNCHANGED <<m_waiting_tokens, issued, tokenUses>>
  /\ ldn' = ldn \/ ldn'.pc # "token"

\* All but five kinds of steps do.
LEMMA TokensMove ==
  ASSUME LdnOK, m_sessions \in [Slots -> Sessions \cup {None}], [Next]_vars
  PROVE  \/ TokensStand \/ HandleExternalProxyToken \/ AddWaitingToken
         \/ HandleExternalProxyStateChange \/ Stop \/ \E s \in Sessions : TryRegisterUser(s)
<1>1. CASE VictimChecked \/ VictimCut \/ VictimTold
  <2>1. UNCHANGED <<m_waiting_tokens, issued, tokenUses>>
    BY <1>1 DEF VictimChecked, VictimCut, VictimTold, lists
  <2>2. ldn' = ldn \/ ldn'.pc # "token" \/ HandleExternalProxyToken
    BY LdnStep DEF LdnAt, LdnIdle
  <2>3. QED
    BY <2>1, <2>2 DEF TokensStand
<1>2. CASE Start \/ AcceptReap \/ AcceptSession \/ StopAcceptEnded \/ StopReap
           \/ BroadcastFromHost \/ UNCHANGED vars
  BY <1>2 DEF Start, AcceptReap, AcceptSession, StopAcceptEnded, StopReap,
     BroadcastFromHost, vars, lists, TokensStand
<1>3. ASSUME NEW s \in Sessions, SessionNext(s), ~TryRegisterUser(s) PROVE TokensStand
  BY <1>3 DEF SessionNext, HandleExternalProxy, ReceiveEnds, AuthFails,
     Disconnect, SessionTells, ThreadDone, HandleProxyData, lists, TokensStand
<1>4. QED
  BY <1>1, <1>2, <1>3 DEF Next

\* A token that is announced is a new one.
LEMMA AnnounceKeeps ==
  ASSUME TokenOK, LdnOK, TokenInv, NEW k \in Tokens \ issued,
         UNCHANGED <<m_waiting_tokens, tokenUses>>, issued' = issued \cup {k},
         ldn'.pc = "token", ldn'.token = k
  PROVE  TokenOK' /\ TokenInv'
<1>1. TokenOK' /\ WaitsOnce' /\ TokenAdmitsOnce' /\ Waiting' = Waiting
  BY DEF TokenOK, TokenInv, WaitsOnce, TokenAdmitsOnce, Waiting
<1>2. UnusedTokens'
  BY <1>1 DEF TokenOK, TokenInv, UnusedTokens
<1>3. QED
  BY <1>1, <1>2 DEF TokenInv

\* A list that is thinned out while nobody is admitted.
LEMMA ThinningKeeps ==
  ASSUME TokenOK, TokenInv, UNCHANGED <<issued, tokenUses>>, ldn' = ldn \/ ldn'.pc # "token",
         m_waiting_tokens' \in Seq(Tokens), Thinned(m_waiting_tokens', m_waiting_tokens)
  PROVE  TokenOK' /\ TokenInv'
<1>1. WaitsOnce' /\ Waiting' \subseteq Waiting
  BY ThinnedKeeps DEF TokenInv, WaitsOnce, Waiting
<1>2. UnusedTokens'
  BY <1>1 DEF TokenInv, UnusedTokens
<1>3. TokenOK' /\ TokenAdmitsOnce'
  BY DEF TokenOK, TokenInv, TokenAdmitsOnce
<1>4. QED
  BY <1>1, <1>2, <1>3 DEF TokenInv

\* Stop empties the list.
LEMMA EmptyingKeeps ==
  ASSUME TokenOK, TokenInv, UNCHANGED <<issued, tokenUses, ldn>>, m_waiting_tokens' = <<>>
  PROVE  TokenOK' /\ TokenInv'
<1>1. m_waiting_tokens' \in Seq(Tokens) /\ DOMAIN m_waiting_tokens' = {}
  BY EmptySeq
<1>2. WaitsOnce' /\ Waiting' = {}
  BY <1>1 DEF WaitsOnce, Waiting
<1>3. UnusedTokens'
  BY <1>2 DEF TokenInv, UnusedTokens
<1>4. TokenOK' /\ TokenAdmitsOnce'
  BY <1>1 DEF TokenOK, TokenInv, TokenAdmitsOnce
<1>5. QED
  BY <1>2, <1>3, <1>4 DEF TokenInv

\* AddWaitingToken puts a token behind the others, or in the place of the first.
LEMMA AddKeeps ==
  ASSUME TokenOK, LdnOK, TokenInv, AddWaitingToken
  PROVE  TokenOK' /\ TokenInv'
<1>1. ldn.pc = "token" /\ ldn'.pc # "token" /\ UNCHANGED <<issued, tokenUses>>
  BY DEF AddWaitingToken, IdleLdn
<1>2. PICK k \in Tokens : k = ldn.token
  BY <1>1 DEF TokenInv, UnusedTokens, TokenOK
<1>3. PICK u \in Seq(Tokens) : /\ m_waiting_tokens' = Append(u, k)
                               /\ \A i, j \in DOMAIN u : u[i] = u[j] => i = j
                               /\ {u[i] : i \in DOMAIN u} \subseteq Waiting
  <2>1. CASE Len(m_waiting_tokens) >= MaxWaitingTokens
    <3>1. m_waiting_tokens # <<>>
      BY <2>1, EmptySeq DEF TokenOK
    <3>2. PICK u \in Seq(Tokens) : u = Tail(m_waiting_tokens) /\ Thinned(u, m_waiting_tokens)
      BY <3>1, TailIs DEF TokenOK
    <3>3. /\ \A i, j \in DOMAIN u : u[i] = u[j] => i = j
          /\ {u[i] : i \in DOMAIN u} \subseteq Waiting
      BY <3>2, ThinnedKeeps DEF TokenInv, WaitsOnce, Waiting
    <3>4. m_waiting_tokens' = Append(u, k)
      BY <1>2, <2>1, <3>2 DEF AddWaitingToken
    <3>5. QED
      BY <3>3, <3>4
  <2>2. CASE ~(Len(m_waiting_tokens) >= MaxWaitingTokens)
    <3>1. m_waiting_tokens' = Append(m_waiting_tokens, k)
      BY <1>2, <2>2 DEF AddWaitingToken
    <3>2. QED
      BY <3>1 DEF TokenOK, TokenInv, WaitsOnce, Waiting
  <2>3. QED
    BY <2>1, <2>2
<1>4. k \notin Waiting /\ k \in issued /\ tokenUses[k] = 0
  BY <1>1, <1>2 DEF TokenInv, UnusedTokens
<1>5. PICK n \in Nat : n = Len(u) /\ DOMAIN u = 1..n
  BY LenProperties
<1>6. /\ m_waiting_tokens' \in Seq(Tokens) /\ DOMAIN m_waiting_tokens' = 1..(n + 1)
      /\ \A i \in 1..n : m_waiting_tokens'[i] = u[i]
      /\ m_waiting_tokens'[n + 1] = k
  BY <1>3, <1>5, AppendProperties
<1>7. WaitsOnce'
  <2>1. SUFFICES ASSUME NEW i \in 1..(n + 1), NEW j \in 1..(n + 1),
                        m_waiting_tokens'[i] = m_waiting_tokens'[j]
                 PROVE  i = j
    BY <1>6 DEF WaitsOnce
  <2>2. \A h \in 1..n : u[h] # k
    BY <1>3, <1>4, <1>5
  <2>3. (i \in 1..n \/ i = n + 1) /\ (j \in 1..n \/ j = n + 1)
    OBVIOUS
  <2>4. QED
    BY <1>3, <1>5, <1>6, <2>1, <2>2, <2>3
<1>8. \A t \in Waiting' : t \in Waiting \/ t = k
  <2>1. ASSUME NEW t \in Waiting' PROVE t \in Waiting \/ t = k
    <3>1. PICK i \in 1..(n + 1) : t = m_waiting_tokens'[i]
      BY <1>6, <2>1 DEF Waiting
    <3>2. i \in 1..n \/ i = n + 1
      OBVIOUS
    <3>3. QED
      BY <1>3, <1>5, <1>6, <3>1, <3>2
  <2>2. QED
    BY <2>1
<1>9. UnusedTokens'
  BY <1>1, <1>4, <1>8 DEF TokenInv, UnusedTokens
<1>10. TokenOK' /\ TokenAdmitsOnce'
  BY <1>1, <1>6 DEF TokenOK, TokenInv, TokenAdmitsOnce
<1>11. QED
  BY <1>7, <1>9, <1>10 DEF TokenInv

\* Register takes the token out of the only place where it waits.
LEMMA RegisterKeeps ==
  ASSUME TokenOK, LdnOK, TokenInv, NEW k \in Tokens, NEW i \in DOMAIN m_waiting_tokens,
         m_waiting_tokens[i] = k, m_waiting_tokens' = Without(i),
         tokenUses' = [tokenUses EXCEPT ![k] = @ + 1], UNCHANGED <<issued, ldn>>
  PROVE  TokenOK' /\ TokenInv'
<1>1. /\ m_waiting_tokens' \in Seq(Tokens) /\ Thinned(m_waiting_tokens', m_waiting_tokens)
      /\ \A j \in DOMAIN m_waiting_tokens' : \E h \in DOMAIN m_waiting_tokens \ {i} :
           m_waiting_tokens'[j] = m_waiting_tokens[h]
  <2>1. PICK P \in SUBSET DOMAIN m_waiting_tokens : P = DOMAIN m_waiting_tokens \ {i}
    OBVIOUS
  <2>2. m_waiting_tokens' = Subsequence(m_waiting_tokens, P)
    BY <2>1 DEF Without
  <2>3. m_waiting_tokens \in Seq(Tokens)
    BY DEF TokenOK
  <2>4. m_waiting_tokens' \in Seq(Tokens) /\ Thinned(m_waiting_tokens', m_waiting_tokens)
    BY <2>2, <2>3, FilteredIs, Zenon
  <2>5. \A j \in DOMAIN m_waiting_tokens' : \E h \in P :
          m_waiting_tokens'[j] = m_waiting_tokens[h]
    <3>1. PICK v : v = m_waiting_tokens'
      OBVIOUS
    <3>2. v = Subsequence(m_waiting_tokens, P)
      BY <2>2, <3>1
    <3>3. \A j \in DOMAIN v : \E h \in P : v[j] = m_waiting_tokens[h]
      BY <2>3, <3>2, FilteredIs
    <3>4. QED
      BY <3>1, <3>3
  <2>6. QED
    BY <2>1, <2>4, <2>5, Zenon
<1>2. WaitsOnce' /\ Waiting' \subseteq Waiting
  BY <1>1, ThinnedKeeps DEF TokenInv, WaitsOnce, Waiting
<1>3. k \notin Waiting'
  BY <1>1 DEF TokenInv, WaitsOnce, Waiting
<1>4. k \in Waiting
  BY DEF Waiting
<1>5. k \in issued /\ tokenUses[k] = 0 /\ (ldn.pc = "token" => ldn.token # k)
  BY <1>4 DEF TokenInv, UnusedTokens
<1>6. tokenUses' \in [Tokens -> Nat] /\ tokenUses'[k] = 1
      /\ \A t \in Tokens : t # k => tokenUses'[t] = tokenUses[t]
  BY <1>5 DEF TokenOK
<1>7. \A t \in Waiting : t \in Tokens
  BY DEF TokenInv, UnusedTokens, TokenOK
<1>8. UnusedTokens'
  BY <1>2, <1>3, <1>5, <1>6, <1>7 DEF TokenOK, TokenInv, UnusedTokens
<1>9. TokenAdmitsOnce'
  BY <1>6 DEF TokenInv, TokenAdmitsOnce
<1>10. TokenOK'
  BY <1>1, <1>6 DEF TokenOK
<1>11. QED
  BY <1>2, <1>8, <1>9, <1>10 DEF TokenInv

\* TryRegisterUser looks for the token, and takes it if it is there.
LEMMA TryRegisterIs ==
  ASSUME NEW s \in Sessions, TryRegisterUser(s), ObjectsOK, m_waiting_tokens \in Seq(Tokens)
  PROVE  \/ Goto(s, "authWait") /\ UNCHANGED <<m_waiting_tokens, m_sessions, m_session_count, tokenUses>>
         \/ \E i \in DOMAIN m_waiting_tokens :
              /\ m_waiting_tokens[i] = session[s].claim /\ session[s].claim \in Tokens
              /\ Register(s, i)
<1>1. CASE Positions(session[s].claim) = {}
  BY <1>1 DEF TryRegisterUser
<1>2. CASE Positions(session[s].claim) # {}
  <2>1. DOMAIN m_waiting_tokens \in SUBSET Nat /\ Positions(session[s].claim) \in SUBSET Nat
    BY LenProperties DEF Positions
  <2>2. PICK i \in Positions(session[s].claim) : i = First(Positions(session[s].claim))
    BY <1>2, <2>1, FirstIs
  <2>3. Register(s, i)
    BY <1>2, <2>2 DEF TryRegisterUser
  <2>4. i \in DOMAIN m_waiting_tokens /\ m_waiting_tokens[i] = session[s].claim
    BY <2>2 DEF Positions
  <2>5. m_waiting_tokens[i] \in Tokens
    BY <2>4, ElementOfSeq, LenProperties
  <2>6. QED
    BY <2>3, <2>4, <2>5
<1>3. QED
  BY <1>1, <1>2

\* Every step keeps what is known of the tokens.
LEMMA TokenStep ==
  ASSUME Typed, TokenInv, [Next]_vars
  PROVE  TokenOK' /\ TokenInv'
<1>1. TokenOK /\ LdnOK /\ ObjectsOK /\ m_sessions \in [Slots -> Sessions \cup {None}]
  BY DEF Typed, TokenOK, LdnOK, ObjectsOK
<1>2. CASE TokensStand
  BY <1>1, <1>2 DEF TokensStand, TokenOK, TokenInv, UnusedTokens, WaitsOnce, Waiting,
     TokenAdmitsOnce
<1>3. CASE HandleExternalProxyToken
  <2>1. UNCHANGED <<m_waiting_tokens, tokenUses>>
    BY <1>3 DEF HandleExternalProxyToken, lists
  <2>2. PICK k \in Tokens \ issued : /\ ldn' = [ldn EXCEPT !.pc = "token", !.token = k]
                                     /\ issued' = issued \cup {k}
    BY <1>3 DEF HandleExternalProxyToken
  <2>3. ldn'.pc = "token" /\ ldn'.token = k
    BY <1>1, <2>2, LdnEdit DEF LdnOK, LdnAt
  <2>4. QED
    BY <1>1, <2>1, <2>2, <2>3, AnnounceKeeps
<1>4. CASE AddWaitingToken
  BY <1>1, <1>4, AddKeeps
<1>5. CASE HandleExternalProxyStateChange
  <2>1. UNCHANGED <<issued, tokenUses>>
    BY <1>5 DEF HandleExternalProxyStateChange
  <2>2. ldn' = ldn \/ ldn'.pc # "token"
    <3>1. ldn.pc = "idle"
      BY <1>5 DEF HandleExternalProxyStateChange
    <3>2. ~HandleExternalProxyToken \/ issued' # issued
      BY DEF HandleExternalProxyToken
    <3>3. QED
      BY <1>1, <2>1, <3>1, <3>2, LdnStep DEF LdnAt, LdnIdle
  <2>3. PICK P \in SUBSET DOMAIN m_waiting_tokens :
          m_waiting_tokens' = Subsequence(m_waiting_tokens, P)
    BY <1>5 DEF HandleExternalProxyStateChange
  <2>4. m_waiting_tokens \in Seq(Tokens)
    BY <1>1 DEF TokenOK
  <2>5. m_waiting_tokens' \in Seq(Tokens) /\ Thinned(m_waiting_tokens', m_waiting_tokens)
    BY <2>3, <2>4, FilteredIs, Zenon
  <2>6. QED
    BY <1>1, <2>1, <2>2, <2>5, ThinningKeeps
<1>6. CASE Stop
  <2>1. UNCHANGED <<issued, tokenUses, ldn>> /\ m_waiting_tokens' = <<>>
    BY <1>6 DEF Stop
  <2>2. QED
    BY <1>1, <2>1, EmptyingKeeps
<1>7. ASSUME NEW s \in Sessions, TryRegisterUser(s)
      PROVE  TokenOK' /\ TokenInv'
  <2>1. UNCHANGED <<issued, ldn>> /\ m_waiting_tokens \in Seq(Tokens)
    BY <1>1, <1>7 DEF TryRegisterUser, TokenOK
  <2>2. CASE UNCHANGED <<m_waiting_tokens, m_sessions, m_session_count, tokenUses>>
    <3>1. TokensStand
      BY <2>1, <2>2 DEF TokensStand
    <3>2. QED
      BY <1>2, <3>1
  <2>3. ASSUME NEW i \in DOMAIN m_waiting_tokens,
               m_waiting_tokens[i] = session[s].claim, session[s].claim \in Tokens,
               Register(s, i)
        PROVE  TokenOK' /\ TokenInv'
    <3>1. PICK k \in Tokens : k = session[s].claim
      BY <2>3
    <3>2. m_waiting_tokens' = Without(i) /\ tokenUses' = [tokenUses EXCEPT ![k] = @ + 1]
      BY <2>3, <3>1 DEF Register, Remaining
    <3>3. QED
      BY <1>1, <2>1, <2>3, <3>1, <3>2, RegisterKeeps
  <2>4. QED
    BY <1>1, <1>7, <2>1, <2>2, <2>3, TryRegisterIs
<1>8. QED
  BY <1>1, <1>2, <1>3, <1>4, <1>5, <1>6, <1>7, TokensMove

-----------------------------------------------------------------------------
(***************************************************************************)
(* The lists of sessions.                                                  *)
(***************************************************************************)
ListsOK ==
  /\ m_sessions \in [Slots -> Sessions \cup {None}]
  /\ m_zombie_sessions \in Seq(Sessions) /\ Len(m_zombie_sessions) <= MaxZombieSessions
RangeOf(q) == {q[i] : i \in DOMAIN q}

\* A sequence is one of the entries it has.
LEMMA OwnRange ==
  ASSUME NEW S, NEW q \in Seq(S)
  PROVE  RangeOf(q) \subseteq S /\ q \in Seq(RangeOf(q))
<1>1. Len(q) \in Nat /\ DOMAIN q = 1..Len(q) /\ q \in [1..Len(q) -> S]
  BY LenProperties
<1>2. q \in [1..Len(q) -> RangeOf(q)]
  BY <1>1 DEF RangeOf
<1>3. q \in Seq(RangeOf(q))
  <2>1. Seq(RangeOf(q)) = UNION {[1..n -> RangeOf(q)] : n \in Nat}
    BY SeqDef
  <2>2. QED
    BY <1>1, <1>2, <2>1
<1>4. QED
  BY <1>1, <1>3 DEF RangeOf

\* A sequence over a set has its entries there.
LEMMA InRange ==
  ASSUME NEW S, NEW q \in Seq(S)
  PROVE  RangeOf(q) \subseteq S
BY OwnRange

\* What ReapZombieSessions leaves was on the list.
LEMMA ReapedIs ==
  ASSUME ListsOK, ReapZombieSessions
  PROVE  /\ m_zombie_sessions' \in Seq(Sessions)
         /\ Len(m_zombie_sessions') <= MaxZombieSessions
         /\ Zombies' \subseteq Zombies
<1>1. m_zombie_sessions \in Seq(Sessions) /\ Len(m_zombie_sessions) \in Nat
  BY LenProperties DEF ListsOK
<1>2. PICK P \in SUBSET DOMAIN m_zombie_sessions :
        m_zombie_sessions' = Subsequence(m_zombie_sessions, P)
  BY DEF ReapZombieSessions
<1>3. PICK v : v = m_zombie_sessions'
  OBVIOUS
<1>4. /\ v \in Seq(Sessions) /\ Len(v) <= Len(m_zombie_sessions)
      /\ \A j \in DOMAIN v : Nth(P, j) \in P /\ v[j] = m_zombie_sessions[Nth(P, j)]
  BY <1>1, <1>2, <1>3, SubsequenceIs
<1>5. Len(v) \in Nat
  BY <1>4, LenProperties
<1>6. Len(v) <= MaxZombieSessions
  BY <1>1, <1>4, <1>5 DEF ListsOK
<1>7. Zombies' \subseteq Zombies
  BY <1>3, <1>4 DEF Zombies
<1>8. QED
  BY <1>3, <1>4, <1>6, <1>7

\* What OnSessionDisconnected makes of the list.
LEMMA QueuedIs ==
  ASSUME ListsOK, NEW s \in Sessions, m_zombie_sessions' = Queued(m_zombie_sessions, s)
  PROVE  /\ m_zombie_sessions' \in Seq(Sessions)
         /\ Len(m_zombie_sessions') <= MaxZombieSessions
         /\ Zombies' \subseteq Zombies \cup {s}
<1>1. m_zombie_sessions \in Seq(Sessions) /\ Len(m_zombie_sessions) \in Nat
  BY LenProperties DEF ListsOK
<1>2. CASE ~(Len(m_zombie_sessions) < MaxZombieSessions)
  BY <1>2 DEF ListsOK, Queued, Zombies
<1>3. CASE Len(m_zombie_sessions) < MaxZombieSessions
  <2>1. PICK v : v = m_zombie_sessions' /\ v = Append(m_zombie_sessions, s)
    BY <1>3 DEF Queued
  <2>2. v \in Seq(Sessions) /\ Len(v) = Len(m_zombie_sessions) + 1
    BY <1>1, <2>1, AppendProperties
  <2>3. v \in Seq(Zombies \cup {s})
    <3>1. m_zombie_sessions \in Seq(RangeOf(m_zombie_sessions))
      BY <1>1, OwnRange
    <3>2. m_zombie_sessions \in Seq(Zombies \cup {s})
      BY <3>1, SeqDef DEF RangeOf, Zombies
    <3>3. s \in Zombies \cup {s}
      OBVIOUS
    <3>4. QED
      BY <2>1, <3>2, <3>3, AppendProperties
  <2>4. RangeOf(v) \subseteq Zombies \cup {s}
    BY <2>3, InRange
  <2>5. QED
    BY <1>1, <1>3, <2>1, <2>2, <2>4 DEF RangeOf, Zombies
<1>4. QED
  BY <1>2, <1>3

\* What Stop makes of it: only sessions that had a slot are added or freed.
LEMMA SweptIs ==
  ASSUME ListsOK, Stop
  PROVE  /\ m_zombie_sessions' \in Seq(Sessions)
         /\ Len(m_zombie_sessions') <= MaxZombieSessions
         /\ Zombies' \subseteq Zombies \cup Registered /\ Overflow \subseteq Registered
<1>1. m_zombie_sessions \in Seq(Sessions) /\ Len(m_zombie_sessions) \in Nat
  BY LenProperties DEF ListsOK
<1>2. PICK p : p = Players
  OBVIOUS
<1>3. p \in Seq(Sessions) /\ RangeOf(p) \subseteq Registered /\ Len(p) \in Nat
  <2>1. PICK P \in SUBSET {i \in Slots : m_sessions[i] # None} :
          P = {i \in Slots : m_sessions[i] # None}
    OBVIOUS
  <2>2. p = InOrder(P)
    BY <1>2, <2>1 DEF Players
  <2>3. p \in Seq(Sessions) /\ \A j \in DOMAIN p : \E i \in P : p[j] = m_sessions[i]
    BY <2>2, InOrderIs DEF ListsOK
  <2>4. \A i \in P : m_sessions[i] \in Registered
    BY <2>1 DEF Registered, SlotsOf, ListsOK
  <2>5. QED
    BY <2>3, <2>4, LenProperties DEF RangeOf
<1>4. PICK k \in Nat : k = Kept /\ k <= Len(p) /\ Len(m_zombie_sessions) + k <= MaxZombieSessions
  <2>1. Room \in Nat /\ Len(m_zombie_sessions) + Room = MaxZombieSessions
    BY <1>1 DEF Room, ListsOK
  <2>2. Kept = IF Len(p) <= Room THEN Len(p) ELSE Room
    BY <1>2 DEF Kept
  <2>3. QED
    BY <1>1, <1>3, <2>1, <2>2
<1>5. Overflow \subseteq Registered
  <2>1. \A i \in k + 1..Len(p) : i \in DOMAIN p
    BY <1>3, LenProperties
  <2>2. Overflow = {p[i] : i \in k + 1..Len(p)}
    BY <1>2, <1>4 DEF Overflow
  <2>3. QED
    BY <1>3, <2>1, <2>2 DEF RangeOf
<1>6. PICK u : u = SubSeq(p, 1, k)
  OBVIOUS
<1>7. u \in Seq(RangeOf(p)) /\ Len(u) = k
  <2>1. \A i \in 1..k : p[i] \in RangeOf(p)
    BY <1>3, <1>4, LenProperties DEF RangeOf
  <2>2. 1 \in Int /\ k \in Int /\ (IF 1 <= k THEN k - 1 + 1 ELSE 0) = k
    OBVIOUS
  <2>3. QED
    BY <1>6, <2>1, <2>2, SubSeqProperties
<1> DEFINE A == Zombies \cup Registered
<1>8. m_zombie_sessions \in Seq(A) /\ u \in Seq(A)
  <2>1. m_zombie_sessions \in Seq(RangeOf(m_zombie_sessions))
    BY <1>1, OwnRange
  <2>2. RangeOf(m_zombie_sessions) \subseteq A /\ RangeOf(p) \subseteq A
    BY <1>3 DEF RangeOf, Zombies
  <2>3. QED
    BY <1>7, <2>1, <2>2, SeqDef
<1>9. PICK v : v = m_zombie_sessions' /\ v = m_zombie_sessions \o u
  BY <1>2, <1>4, <1>6 DEF Stop
<1> HIDE DEF A
<1>10. v \in Seq(A) /\ Len(v) = Len(m_zombie_sessions) + Len(u)
  BY <1>8, <1>9, ConcatProperties
<1>11. RangeOf(v) \subseteq A
  BY <1>10, InRange
<1>12. A \subseteq Sessions
  <2>1. Zombies \subseteq Sessions
    BY <1>1, OwnRange DEF RangeOf, Zombies
  <2>2. QED
    BY <2>1 DEF A, Registered
<1>13. v \in Seq(Sessions)
  BY <1>10, <1>12, SeqDef
<1>14. QED
  BY <1>4, <1>5, <1>7, <1>9, <1>10, <1>11, <1>13 DEF A, RangeOf, Zombies

-----------------------------------------------------------------------------
(***************************************************************************)
(* The slots.                                                              *)
(***************************************************************************)
Sits(s, i) ==
  i \in FreeSlots /\ m_sessions' = [m_sessions EXCEPT ![i] = s]
  /\ m_session_count' = m_session_count + 1
Leaves(s, i) ==
  i \in SlotsOf(s) /\ m_sessions' = [m_sessions EXCEPT ![i] = None]
  /\ m_session_count' = m_session_count - 1
SlotsStand == UNCHANGED <<m_sessions, m_session_count>>

\* A session is stored in a free slot, if there is one.
LEMMA StoreIs ==
  ASSUME NEW s \in Sessions, Store(s)
  PROVE  (FreeSlots = {} /\ SlotsStand) \/ \E i \in Slots : Sits(s, i)
<1>1. CASE FreeSlots = {}
  BY <1>1 DEF Store, SlotsStand
<1>2. CASE FreeSlots # {}
  <2>1. PICK i \in FreeSlots : i = First(FreeSlots)
    <3>1. FreeSlots \in SUBSET Nat
      BY DEF FreeSlots, Slots
    <3>2. QED
      BY <1>2, <3>1, FirstIs
  <2>2. QED
    BY <1>2, <2>1 DEF Store, Sits, FreeSlots
<1>3. QED
  BY <1>1, <1>2

\* It is removed from one of its slots, if it has one.
LEMMA RemoveIs ==
  ASSUME NEW s \in Sessions, Remove(s)
  PROVE  (s \notin Registered /\ SlotsStand) \/ \E i \in Slots : Leaves(s, i)
<1>1. CASE s \notin Registered
  BY <1>1 DEF Remove, SlotsStand
<1>2. CASE s \in Registered
  <2>1. SlotsOf(s) # {}
    BY <1>2 DEF Registered
  <2>2. PICK i \in SlotsOf(s) : i = First(SlotsOf(s))
    BY <2>1, FirstIs DEF SlotsOf, Slots
  <2>3. QED
    BY <1>2, <2>2 DEF Remove, Leaves, SlotsOf
<1>3. QED
  BY <1>1, <1>2

\* What the steps do to the slots.
LEMMA SlotStep ==
  ASSUME [Next]_vars, ObjectsOK, LdnOK, m_waiting_tokens \in Seq(Tokens)
  PROVE  \/ SlotsStand \/ \E s \in Sessions, i \in Slots : Sits(s, i) \/ Leaves(s, i)
         \/ m_sessions' = [i \in Slots |-> None] /\ m_session_count' = 0
<1>1. CASE VictimTold
  <2>1. ldn.pc = "telling"
    BY <1>1 DEF VictimTold
  <2>2. PICK s \in Sessions : s = Head(ldn.victims)
    BY <2>1, LdnEdit, HeadTailProperties DEF LdnOK
  <2>3. Remove(s)
    BY <1>1, <2>2 DEF VictimTold, OnSessionDisconnected
  <2>4. QED
    BY <2>3, RemoveIs
<1>2. CASE Start \/ AcceptReap \/ AcceptSession \/ StopAcceptEnded \/ StopReap
           \/ BroadcastFromHost \/ UNCHANGED vars
  BY <1>2, SMTT(30) DEF Start, AcceptReap, AcceptSession, StopAcceptEnded, StopReap,
     BroadcastFromHost, vars, lists, SlotsStand
<1>3. CASE HandleExternalProxyToken \/ AddWaitingToken \/ HandleExternalProxyStateChange
           \/ VictimChecked \/ VictimCut
  BY <1>3 DEF HandleExternalProxyToken, AddWaitingToken, HandleExternalProxyStateChange,
     VictimChecked, VictimCut, lists, SlotsStand
<1>4. CASE Stop
  BY <1>4 DEF Stop
<1>5. ASSUME NEW s \in Sessions, SessionNext(s)
      PROVE  SlotsStand \/ \E i \in Slots : Sits(s, i) \/ Leaves(s, i)
  <2>1. CASE TryRegisterUser(s)
    <3>1. SlotsStand \/ Store(s)
      BY <2>1, TryRegisterIs DEF Register, SlotsStand
    <3>2. QED
      BY <3>1, StoreIs, SMTT(30)
  <2>2. CASE SessionTells(s)
    <3>1. Remove(s)
      BY <2>2 DEF SessionTells, OnSessionDisconnected
    <3>2. QED
      BY <3>1, RemoveIs
  <2>3. CASE ~TryRegisterUser(s) /\ ~SessionTells(s)
    BY <1>5, <2>3 DEF SessionNext, HandleExternalProxy, ReceiveEnds, AuthFails,
       Disconnect, ThreadDone, HandleProxyData, lists, SlotsStand
  <2>4. QED
    BY <2>1, <2>2, <2>3
<1>6. QED
  BY <1>1, <1>2, <1>3, <1>4, <1>5 DEF Next

\* The slots keep their type.
LEMMA SlotType ==
  ASSUME Typed, [Next]_vars
  PROVE  m_sessions' \in [Slots -> Sessions \cup {None}]
<1>1. ObjectsOK /\ LdnOK /\ m_waiting_tokens \in Seq(Tokens)
      /\ m_sessions \in [Slots -> Sessions \cup {None}]
  BY DEF Typed, ObjectsOK, LdnOK
<1>2. ASSUME NEW s \in Sessions, NEW i \in Slots, Sits(s, i) \/ Leaves(s, i)
      PROVE  m_sessions' \in [Slots -> Sessions \cup {None}]
  BY <1>1, <1>2 DEF Sits, Leaves
<1>3. QED
  BY <1>1, <1>2, SlotStep DEF SlotsStand

\* The accept thread's count of the slots stays right.
LEMMA CountStep ==
  ASSUME Typed, SessionsCounted, [Next]_vars
  PROVE  SessionsCounted'
<1> DEFINE Taken == {i \in Slots : m_sessions[i] # None}
<1>1. ObjectsOK /\ LdnOK /\ m_waiting_tokens \in Seq(Tokens)
      /\ m_sessions \in [Slots -> Sessions \cup {None}]
  BY DEF Typed, ObjectsOK, LdnOK
<1>2. IsFiniteSet(Taken) /\ Cardinality(Taken) \in Nat /\ m_session_count = Cardinality(Taken)
  <2>1. 1 \in Int /\ MaxPlayers \in Int
    OBVIOUS
  <2>2. IsFiniteSet(Slots)
    BY <2>1, FS_Interval DEF Slots
  <2>3. IsFiniteSet(Taken)
    BY <2>2, FS_Subset
  <2>4. QED
    BY <2>3, FS_CardinalityType DEF SessionsCounted
<1>3. CASE SlotsStand
  BY <1>3 DEF SlotsStand, SessionsCounted
<1>4. ASSUME NEW s \in Sessions, NEW i \in Slots, Sits(s, i)
      PROVE  SessionsCounted'
  <2>1. i \notin Taken /\ {j \in Slots : m_sessions'[j] # None} = Taken \cup {i}
    BY <1>1, <1>4 DEF Sits, FreeSlots
  <2>2. Cardinality(Taken \cup {i}) = Cardinality(Taken) + 1
    BY <1>2, <2>1, FS_AddElement
  <2>3. m_session_count' = Cardinality(Taken \cup {i})
    BY <1>2, <1>4, <2>2 DEF Sits
  <2>4. QED
    BY <2>1, <2>3 DEF SessionsCounted
<1>5. ASSUME NEW s \in Sessions, NEW i \in Slots, Leaves(s, i)
      PROVE  SessionsCounted'
  <2>1. i \in Taken /\ {j \in Slots : m_sessions'[j] # None} = Taken \ {i}
    BY <1>1, <1>5 DEF Leaves, SlotsOf
  <2>2. Cardinality(Taken \ {i}) = Cardinality(Taken) - 1
    BY <1>2, <2>1, FS_RemoveElement
  <2>3. m_session_count' = Cardinality(Taken \ {i})
    BY <1>2, <1>5, <2>2 DEF Leaves
  <2>4. QED
    BY <2>1, <2>3 DEF SessionsCounted
<1>6. CASE m_sessions' = [i \in Slots |-> None] /\ m_session_count' = 0
  <2>1. {j \in Slots : m_sessions'[j] # None} = {}
    BY <1>6
  <2>2. QED
    BY <1>6, <2>1, FS_EmptySet DEF SessionsCounted
<1>7. QED
  BY <1>1, <1>3, <1>4, <1>5, <1>6, SlotStep

-----------------------------------------------------------------------------
(***************************************************************************)
(* All of Typed.                                                           *)
(***************************************************************************)

\* The LDN receive thread has somebody to send away when it is about to.
LEMMA LdnType ==
  ASSUME Typed, [Next]_vars
  PROVE  LdnOK'
<1>1. LdnOK /\ m_sessions \in [Slots -> Sessions \cup {None}]
  BY DEF Typed, LdnOK
<1>2. ASSUME NEW P \in SUBSET {i \in Slots : m_sessions[i] # None}, P # {},
             LdnAt("victims", ldn.token, InOrder(P))
      PROVE  LdnOK'
  <2>1. InOrder(P) # <<>>
    BY <1>1, <1>2, InOrderIs
  <2>2. QED
    BY <1>2, <2>1 DEF LdnAt, LdnOK
<1>3. CASE UNCHANGED ldn
  BY <1>1, <1>3 DEF LdnOK
<1>4. ASSUME NEW k, LdnAt("token", k, ldn.victims) PROVE LdnOK'
  BY <1>4 DEF LdnAt, LdnOK
<1>5. CASE LdnIdle
  BY <1>5 DEF LdnIdle, LdnAt, LdnOK
<1>6. CASE VictimChecked /\ LdnAt("checked", ldn.token, ldn.victims)
  BY <1>1, <1>6 DEF LdnAt, LdnOK, VictimChecked
<1>7. CASE VictimCut /\ LdnAt("telling", ldn.token, ldn.victims)
  BY <1>1, <1>7 DEF LdnAt, LdnOK, VictimCut
<1>8. CASE Tail(ldn.victims) # <<>> /\ LdnAt("victims", ldn.token, Tail(ldn.victims))
  BY <1>8 DEF LdnAt, LdnOK
<1>9. QED
  BY <1>1, <1>2, <1>3, <1>4, <1>5, <1>6, <1>7, <1>8, LdnStep

\* The list of zombies keeps its type and its bound.
LEMMA ZombieType ==
  ASSUME Typed, [Next]_vars
  PROVE  m_zombie_sessions' \in Seq(Sessions) /\ Len(m_zombie_sessions') <= MaxZombieSessions
<1>1. ListsOK /\ LdnOK
  BY DEF Typed, ListsOK, LdnOK
<1>2. CASE UNCHANGED m_zombie_sessions
  BY <1>1, <1>2 DEF ListsOK
<1>3. CASE ReapZombieSessions
  BY <1>1, <1>3, ReapedIs
<1>4. ASSUME NEW s \in Sessions, m_zombie_sessions' = Queued(m_zombie_sessions, s)
      PROVE  m_zombie_sessions' \in Seq(Sessions) /\ Len(m_zombie_sessions') <= MaxZombieSessions
  BY <1>1, <1>4, QueuedIs
<1>5. CASE VictimTold
  <2>1. PICK s \in Sessions : s = Head(ldn.victims)
    BY <1>1, <1>5, LdnEdit, HeadTailProperties DEF LdnOK, VictimTold
  <2>2. QED
    BY <1>4, <1>5, <2>1 DEF VictimTold, OnSessionDisconnected
<1>6. CASE Stop
  BY <1>1, <1>6, SweptIs
<1>7. CASE Start \/ AcceptReap \/ AcceptSession \/ StopAcceptEnded \/ StopReap
           \/ BroadcastFromHost \/ UNCHANGED vars
  BY <1>2, <1>3, <1>7, SMTT(30) DEF Start, AcceptReap, AcceptSession, StopAcceptEnded, StopReap,
     BroadcastFromHost, vars, lists
<1>8. CASE HandleExternalProxyToken \/ AddWaitingToken \/ HandleExternalProxyStateChange
           \/ VictimChecked \/ VictimCut
  BY <1>2, <1>8 DEF HandleExternalProxyToken, AddWaitingToken, HandleExternalProxyStateChange,
     VictimChecked, VictimCut, lists
<1>9. ASSUME NEW s \in Sessions, SessionNext(s)
      PROVE  UNCHANGED m_zombie_sessions \/ m_zombie_sessions' = Queued(m_zombie_sessions, s)
  BY <1>9 DEF SessionNext, TryRegisterUser, HandleExternalProxy, ReceiveEnds, AuthFails,
     Disconnect, SessionTells, OnSessionDisconnected, ThreadDone, HandleProxyData, lists
<1>10. QED
  BY <1>2, <1>4, <1>5, <1>6, <1>7, <1>8, <1>9 DEF Next

\* What the steps of one session's thread do to the objects.
LEMMA ThreadStep ==
  ASSUME ObjectsOK, m_waiting_tokens \in Seq(Tokens), NEW s \in Sessions, SessionNext(s)
  PROVE  \/ HandleProxyData(s) /\ UNCHANGED session
         \/ \E k \in Tokens : Claims(s, k)
         \/ TryRegisterUser(s) /\ Joins(s)
         \/ SessionTells(s) /\ Tells(s, "exiting")
         \/ \E p \in {"authWait", "checked", "exiting", "telling", "done"}, c \in BOOLEAN :
              Moves(s, p, c, session[s].stack)
<1>1. CASE ReceiveEnds(s) \/ AuthFails(s)
  <2>1. PICK p \in {"checked", "exiting"} : Goto(s, p)
    BY <1>1 DEF ReceiveEnds, AuthFails, Disconnecting
  <2>2. Moves(s, p, session[s].connected, session[s].stack)
    BY <2>1, GotoMoves, Places
  <2>3. QED
    BY <2>2, ObjectFacts
<1>2. CASE Disconnect(s) \/ ThreadDone(s)
  BY <1>2, ThreadMoves, ObjectFacts
<1>3. CASE HandleExternalProxy(s)
  BY <1>3, ClaimMoves
<1>4. CASE SessionTells(s)
  BY <1>4, TellMoves, Places DEF SessionTells, OnSessionDisconnected
<1>5. CASE HandleProxyData(s)
  BY <1>5 DEF HandleProxyData
<1>6. CASE TryRegisterUser(s)
  <2>1. CASE Goto(s, "authWait")
    <3>1. Moves(s, "authWait", session[s].connected, session[s].stack)
      BY <2>1, GotoMoves, Places
    <3>2. QED
      BY <3>1, ObjectFacts
  <2>2. ASSUME NEW i \in DOMAIN m_waiting_tokens, Register(s, i)
        PROVE  Joins(s)
    BY <2>2, JoinMoves
  <2>3. QED
    BY <1>6, <2>1, <2>2, TryRegisterIs
<1>7. QED
  BY <1>1, <1>2, <1>3, <1>4, <1>5, <1>6 DEF SessionNext

\* The objects keep their type, and the stacks in use are stacks.
LEMMA ObjectStep ==
  ASSUME Typed, [Next]_vars
  PROVE  ObjectsOK' /\ used' \in SUBSET Stacks
<1>1. ListsOK /\ LdnOK /\ ObjectsOK /\ used \in SUBSET Stacks /\ m_waiting_tokens \in Seq(Tokens)
  BY DEF Typed, ListsOK, LdnOK, ObjectsOK
<1>2. CASE UNCHANGED <<session, used>>
  BY <1>1, <1>2 DEF ObjectsOK
<1>3. CASE ReapZombieSessions
  BY <1>1, <1>3, ReapMoves DEF Reaps, ReapZombieSessions, ReleaseSessionStackSlot
<1>4. CASE AcceptSession
  <2>1. CASE UNCHANGED <<session, used>>
    BY <1>2, <2>1
  <2>2. ASSUME NEW s \in Sessions, SessionStart(s)
        PROVE  ObjectsOK' /\ used' \in SUBSET Stacks
    BY <1>1, <2>2, BeginMoves DEF Begins, Moves, Alone
  <2>3. QED
    BY <1>4, <2>1, <2>2 DEF AcceptSession, Unmade
<1>5. CASE VictimCut \/ VictimTold
  <2>1. PICK s \in Sessions : s = Head(ldn.victims)
    BY <1>1, <1>5, LdnEdit, HeadTailProperties DEF LdnOK, VictimCut, VictimTold
  <2>2. UNCHANGED used
    BY <1>5 DEF VictimCut, VictimTold
  <2>3. CASE VictimCut
    BY <1>1, <2>1, <2>2, <2>3, CutMoves DEF VictimCut, Moves, Alone
  <2>4. CASE VictimTold
    <3>1. session[s].pc \in SessionPc
      BY <1>1, ObjectFacts
    <3>2. session' = [session EXCEPT ![s].told = NotifyMasterDisconnect(s), ![s].pc = session[s].pc]
      BY <2>1, <2>4 DEF VictimTold, OnSessionDisconnected
    <3>3. QED
      BY <1>1, <2>2, <3>1, <3>2, TellMoves DEF Tells, Alone
  <2>5. QED
    BY <1>5, <2>3, <2>4
<1>6. CASE Stop
  BY <1>1, <1>6, StopMoves DEF Stop, Sweeps, ReleaseSessionStackSlot
<1>7. CASE Start \/ AcceptReap \/ StopAcceptEnded \/ StopReap
           \/ BroadcastFromHost \/ UNCHANGED vars
  BY <1>2, <1>3, <1>7, SMTT(30) DEF Start, AcceptReap, StopAcceptEnded, StopReap,
     BroadcastFromHost, vars, lists
<1>8. CASE HandleExternalProxyToken \/ AddWaitingToken \/ HandleExternalProxyStateChange
           \/ VictimChecked
  BY <1>2, <1>8 DEF HandleExternalProxyToken, AddWaitingToken, HandleExternalProxyStateChange,
     VictimChecked
<1>9. ASSUME NEW s \in Sessions, SessionNext(s)
      PROVE  ObjectsOK' /\ used' \in SUBSET Stacks
  <2>1. UNCHANGED used
    BY <1>9 DEF SessionNext, TryRegisterUser, HandleExternalProxy, ReceiveEnds, AuthFails,
       Disconnect, SessionTells, ThreadDone, HandleProxyData
  <2>2. ObjectsOK'
    BY <1>1, <1>9, ThreadStep DEF Claims, Joins, Tells, Moves, Alone, ObjectsOK
  <2>3. QED
    BY <1>1, <2>1, <2>2
<1>10. QED
  BY <1>2, <1>4, <1>5, <1>6, <1>7, <1>8, <1>9 DEF Next

\* Every step keeps the types.
LEMMA TypedStep ==
  ASSUME Typed, TokenInv, [Next]_vars
  PROVE  Typed'
BY LdnType, ZombieType, SlotType, ObjectStep, TokenStep DEF Typed, LdnOK, ObjectsOK, TokenOK

\* A server that was just made.
LEMMA InitTyped == Init => Typed /\ TokenInv /\ SessionsCounted
<1> SUFFICES ASSUME Init PROVE Typed /\ TokenInv /\ SessionsCounted
  OBVIOUS
<1>1. <<>> \in Seq(Sessions) /\ <<>> \in Seq(Tokens) /\ Len(<<>>) = 0 /\ DOMAIN <<>> = {}
  BY EmptySeq
<1>2. ldn \in LdnState /\ ldn.pc = "idle"
  BY <1>1 DEF Init, IdleLdn, LdnState
<1>3. session \in [Sessions -> ObjectType]
  BY Places DEF Init
<1>4. Typed
  BY <1>1, <1>2, <1>3 DEF Init, Typed, Slots
<1>5. TokenInv
  <2>1. Waiting = {}
    BY <1>1 DEF Init, Waiting
  <2>2. WaitsOnce
    BY <1>1 DEF Init, WaitsOnce
  <2>3. QED
    BY <1>2, <2>1, <2>2 DEF Init, TokenInv, UnusedTokens, TokenAdmitsOnce
<1>6. SessionsCounted
  <2>1. {i \in Slots : m_sessions[i] # None} = {}
    BY DEF Init
  <2>2. QED
    BY <2>1, FS_EmptySet DEF Init, SessionsCounted
<1>7. QED
  BY <1>4, <1>5, <1>6

-----------------------------------------------------------------------------
(***************************************************************************)
(* A token admits one session: TryRegisterUser finds it under m_mutex and  *)
(* takes it out of the list in the same critical section, no other step    *)
(* puts it back, and the master server announces it once.                  *)
(***************************************************************************)
THEOREM TokenIsUsedOnce == Spec => []TokenAdmitsOnce
<1>1. Init => Typed /\ TokenInv
  BY InitTyped
<1>2. Typed /\ TokenInv /\ [Next]_vars => (Typed /\ TokenInv)'
  BY TypedStep, TokenStep
<1>3. Typed /\ TokenInv => TokenAdmitsOnce
  BY DEF TokenInv
<1>4. QED
  BY <1>1, <1>2, <1>3, PTL DEF Spec

(***************************************************************************)
(* m_session_count, by which the accept thread admits, is the number of    *)
(* slots that are taken, whatever registers, leaves and is sent away.      *)
(***************************************************************************)
THEOREM CountIsRight == Spec => []SessionsCounted
<1>1. Init => Typed /\ TokenInv /\ SessionsCounted
  BY InitTyped
<1>2. Typed /\ TokenInv /\ SessionsCounted /\ [Next]_vars
        => (Typed /\ TokenInv /\ SessionsCounted)'
  BY TypedStep, TokenStep, CountStep
<1>3. QED
  BY <1>1, <1>2, PTL DEF Spec

\* Only RouteMessage is about misrouted packets, and it routes none.
LEMMA RouteKeeps ==
  ASSUME NEW sender, NEW source, NEW dest, RoutedHonestly, RouteMessage(sender, source, dest)
  PROVE  RoutedHonestly'
<1>1. ASSUME NEW src \in Source(sender, source) PROVE src = sender
  BY <1>1 DEF Source
<1>2. ASSUME NEW s \in Targets(dest)
      PROVE  session[s].authenticated /\ (dest = Broadcast \/ session[s].virtual_ip = dest)
  <2> DEFINE authenticated == {i \in Slots : /\ m_sessions[i] # None
                                             /\ session[m_sessions[i]].authenticated}
             named == {i \in authenticated : session[m_sessions[i]].virtual_ip = dest}
  <2>1. CASE dest = Broadcast
    BY <1>2, <2>1 DEF Targets
  <2>2. CASE dest # Broadcast
    <3>1. named # {} /\ s = m_sessions[First(named)]
      BY <1>2, <2>2 DEF Targets
    <3>2. named \in SUBSET Nat
      BY DEF Slots
    <3>3. First(named) \in named
      BY <3>1, <3>2, FirstIs
    <3>4. QED
      BY <3>1, <3>3
  <2>3. QED
    BY <2>1, <2>2
<1>3. misrouted' = (misrouted \/ \E src \in Source(sender, source) : \E s \in Targets(dest) :
                      \/ src # sender \/ ~session[s].authenticated
                      \/ dest # Broadcast /\ session[s].virtual_ip # dest)
  BY DEF RouteMessage
<1>4. ~\E src \in Source(sender, source) : \E s \in Targets(dest) :
         \/ src # sender \/ ~session[s].authenticated
         \/ dest # Broadcast /\ session[s].virtual_ip # dest
  BY <1>1, <1>2, Zenon
<1>5. QED
  BY <1>3, <1>4, Zenon DEF RoutedHonestly

(***************************************************************************)
(* A player only gets packets that carry their sender's address and are    *)
(* for all or for him, once he is authenticated: RouteMessage replaces or  *)
(* refuses the source, and looks for the destination among the             *)
(* authenticated players in the list.                                      *)
(***************************************************************************)
THEOREM RoutingIsHonest == Spec => []RoutedHonestly
<1>1. Init => RoutedHonestly
  BY DEF Init, RoutedHonestly
<1>2. RoutedHonestly /\ [Next]_vars => RoutedHonestly'
  <2>1. SUFFICES ASSUME RoutedHonestly, [Next]_vars PROVE RoutedHonestly'
    OBVIOUS
  <2>2. CASE UNCHANGED misrouted
    BY <2>1, <2>2 DEF RoutedHonestly
  <2>3. CASE BroadcastFromHost
    BY <2>1, <2>3, RouteKeeps DEF BroadcastFromHost
  <2>4. ASSUME NEW s \in Sessions, HandleProxyData(s) PROVE RoutedHonestly'
    BY <2>1, <2>4, RouteKeeps DEF HandleProxyData
  <2>5. CASE Start \/ AcceptReap \/ AcceptSession \/ Stop \/ StopAcceptEnded \/ StopReap
             \/ UNCHANGED vars
    BY <2>2, <2>5, SMTT(30) DEF Start, AcceptReap, AcceptSession, Stop, StopAcceptEnded, StopReap, vars
  <2>6. CASE HandleExternalProxyToken \/ AddWaitingToken \/ HandleExternalProxyStateChange
             \/ VictimChecked \/ VictimCut \/ VictimTold
    BY <2>2, <2>6 DEF HandleExternalProxyToken, AddWaitingToken,
       HandleExternalProxyStateChange, VictimChecked, VictimCut, VictimTold
  <2>7. ASSUME NEW s \in Sessions, SessionNext(s), ~HandleProxyData(s)
        PROVE  UNCHANGED misrouted
    BY <2>7 DEF SessionNext, TryRegisterUser, HandleExternalProxy, ReceiveEnds, AuthFails,
       Disconnect, SessionTells, ThreadDone
  <2>8. QED
    BY <2>1, <2>2, <2>3, <2>4, <2>5, <2>6, <2>7 DEF Next
<1>3. QED
  BY <1>1, <1>2, PTL DEF Spec

-----------------------------------------------------------------------------
(***************************************************************************)
(* Players.  Accounted(s) is what PlayerAccounted says of a player.        *)
(***************************************************************************)
Accounted(s) ==
  \/ /\ s \in Registered /\ session[s].told = 0
     /\ session[s].connected \/ TellerOf(s)
  \/ /\ s \notin Registered /\ ~session[s].connected
     /\ session[s].told = 1 \/ session[s].swept
AllAccounted == \A s \in Sessions : session[s].joined = 1 => Accounted(s)

\* The same in two parts.
LEMMA AccountedIs == PlayerAccounted <=> AllAccounted
BY DEF PlayerAccounted, AllAccounted, Accounted

\* The slots a session has, and whether it has one.
LEMMA RegisteredIs ==
  ASSUME NEW s \in Sessions
  PROVE  s \in Registered <=> \E i \in Slots : m_sessions[i] = s
BY DEF Registered, SlotsOf

\* A session that has not registered has no slot.
LEMMA NewcomerIsOut ==
  ASSUME Typed, Seated, NEW s \in Sessions, session[s].joined = 0
  PROVE  s \notin Registered
<1>1. s # None
  OBVIOUS
<1>2. QED
  BY <1>1, RegisteredIs DEF Seated

(***************************************************************************)
(* There is a slot for a session that has a stack but no slot: the stacks  *)
(* of the sessions in the slots are distinct, and there are no more stacks *)
(* than slots.                                                             *)
(***************************************************************************)
LEMMA SlotIsFree ==
  ASSUME Typed, Seated, OneSeat, OwnStack, NEW s \in Sessions,
         session[s].stack # NoStack, s \notin Registered
  PROVE  FreeSlots # {}
<1>1. SUFFICES ASSUME FreeSlots = {} PROVE FALSE
  OBVIOUS
<1>2. ObjectsOK /\ m_sessions \in [Slots -> Sessions \cup {None}]
  BY DEF Typed, ObjectsOK
<1>3. \A i \in Slots : m_sessions[i] \in Sessions /\ m_sessions[i] # None
  BY <1>1, <1>2 DEF FreeSlots
<1>4. \A t \in Sessions : session[t].stack # NoStack => session[t].stack \in Stacks
  BY <1>2, ObjectFacts
<1> DEFINE who == [i \in 1..(MaxPlayers + 1) |-> IF i \in Slots THEN m_sessions[i] ELSE s]
           f == [i \in 1..(MaxPlayers + 1) |-> session[who[i]].stack]
<1>5. \A i \in 1..(MaxPlayers + 1) :
        who[i] \in Sessions /\ session[who[i]].stack # NoStack
  BY <1>3 DEF Seated
<1>6. \A i, j \in 1..(MaxPlayers + 1) : who[i] = who[j] => i = j
  <2>1. \A i \in Slots : m_sessions[i] # s
    BY RegisteredIs
  <2>2. \A i \in 1..(MaxPlayers + 1) : i \notin Slots => i = MaxPlayers + 1
    BY DEF Slots
  <2>3. QED
    BY <1>3, <2>1, <2>2 DEF OneSeat
<1>7. f \in [1..(MaxPlayers + 1) -> Stacks]
  BY <1>4, <1>5
<1>8. \A i, j \in 1..(MaxPlayers + 1) : f[i] = f[j] => who[i] = who[j]
  BY <1>5 DEF OwnStack
<1> HIDE DEF f, who
<1>9. /\ IsFiniteSet(1..(MaxPlayers + 1)) /\ Cardinality(1..(MaxPlayers + 1)) = MaxPlayers + 1
      /\ IsFiniteSet(Stacks) /\ Cardinality(Stacks) = MaxPlayers
  <2>1. 1 \in Int /\ MaxPlayers \in Int /\ MaxPlayers + 1 \in Int
    OBVIOUS
  <2>2. IsFiniteSet(1..MaxPlayers) /\ Cardinality(1..MaxPlayers) = MaxPlayers
    BY <2>1, FS_Interval
  <2>3. IsFiniteSet(1..(MaxPlayers + 1)) /\ Cardinality(1..(MaxPlayers + 1)) = MaxPlayers + 1
    BY <2>1, FS_Interval
  <2>4. QED
    BY <2>2, <2>3 DEF Stacks
<1>10. \E i, j \in 1..(MaxPlayers + 1) : i # j /\ f[i] = f[j]
  <2>1. Cardinality(Stacks) < Cardinality(1..(MaxPlayers + 1))
    BY <1>9
  <2>2. QED
    BY <1>7, <1>9, <2>1, FS_PigeonHole
<1>11. QED
  BY <1>6, <1>8, <1>10

(***************************************************************************)
(* A step of one session's thread that stays away from slots and zombies.  *)
(***************************************************************************)
Walks(s) ==
  /\ Alone(s) /\ UNCHANGED <<m_sessions, m_zombie_sessions, used, ldn>>
  /\ session'[s].stack = session[s].stack
  /\ session'[s].authenticated = session[s].authenticated
  /\ session'[s].joined = session[s].joined
  /\ session[s].connected \/ ~session'[s].connected
  /\ Course(s)' /\ (Past(s) => Past(s)')
  /\ session[s].joined = 1 => Accounted(s)'

\* It keeps what is known of the players, if it does for its session.
LEMMA WalkKeeps ==
  ASSUME Typed, PlayerInv, NEW s \in Sessions, Walks(s)
  PROVE  PlayerInv'
<1>1. \A t \in Sessions : t # s => session'[t] = session[t]
  BY DEF Walks, Alone
<1>2. Registered' = Registered /\ Zombies' = Zombies
  BY DEF Walks, Registered, SlotsOf, Zombies
<1>3. Courses'
  BY <1>1 DEF Walks, PlayerInv, Courses, Course, Applying
<1>4. Seated' /\ OneSeat'
  BY <1>1, SMTT(30) DEF Walks, PlayerInv, Seated, OneSeat, Typed
<1>5. OwnStack'
  BY <1>1 DEF Walks, PlayerInv, OwnStack
<1>6. ZombiesPast'
  <2>1. \A z \in Zombies : z \in Sessions
    BY ElementOfSeq, LenProperties DEF Typed, Zombies
  <2>2. QED
    BY <1>1, <1>2, <2>1 DEF Walks, PlayerInv, ZombiesPast, Past
<1>7. VictimsPast' /\ VictimCutOff'
  <2>1. ldn.victims \in Seq(Sessions)
    BY LdnEdit DEF Typed
  <2>2. \A i \in DOMAIN ldn.victims : ldn.victims[i] \in Sessions
    BY <2>1, ElementOfSeq, LenProperties
  <2>3. ldn.pc = "telling" => Head(ldn.victims) \in Sessions
    BY <2>1, HeadTailProperties DEF Typed
  <2>4. QED
    BY <1>1, <2>2, <2>3 DEF Walks, PlayerInv, VictimsPast, VictimCutOff
<1>8. AllAccounted'
  <2>1. AllAccounted
    BY AccountedIs DEF PlayerInv
  <2>2. ASSUME NEW t \in Sessions, t # s PROVE TellerOf(t)' = TellerOf(t)
    BY <1>1, <2>2 DEF Walks, TellerOf
  <2>3. ASSUME NEW t \in Sessions, t # s, session'[t].joined = 1 PROVE Accounted(t)'
    BY <1>1, <1>2, <2>1, <2>2, <2>3 DEF AllAccounted, Accounted
  <2>4. QED
    BY <2>3 DEF AllAccounted, Walks
<1>9. PlayerAccounted'
  BY <1>8, AccountedIs, PTL
<1>10. QED
  BY <1>3, <1>4, <1>5, <1>6, <1>7, <1>9 DEF PlayerInv

\* The steps of a session's thread that only move it are such steps.
LEMMA MoveWalks ==
  ASSUME Typed, PlayerInv, NEW s \in Sessions, NEW p \in SessionPc, NEW c \in BOOLEAN,
         Moves(s, p, c, session[s].stack),
         UNCHANGED <<m_sessions, m_zombie_sessions, used, ldn>>,
         \/ /\ session[s].pc = "recv" /\ c = session[s].connected
            /\ p = IF session[s].connected THEN "checked" ELSE "exiting"
         \/ /\ session[s].pc \in {"auth", "authWait"} /\ c = session[s].connected
            /\ p \in {"authWait", "checked", "exiting"}
         \/ session[s].pc = "checked" /\ p = "telling" /\ c = FALSE
         \/ session[s].pc = "exiting" /\ p = "done" /\ c = session[s].connected
  PROVE  Walks(s)
<1>1. ObjectsOK /\ Course(s) /\ (session[s].joined = 1 => Accounted(s))
  BY AccountedIs DEF Typed, PlayerInv, Courses, ObjectsOK, AllAccounted
<1>2. /\ session'[s].pc = p /\ session'[s].connected = c /\ session'[s].stack = session[s].stack
      /\ session'[s].authenticated = session[s].authenticated
      /\ session'[s].claims = session[s].claims /\ session'[s].joined = session[s].joined
      /\ session'[s].told = session[s].told /\ session'[s].swept = session[s].swept
      /\ Alone(s)
  BY DEF Moves, Rest
<1>3. Registered' = Registered
  BY DEF Registered, SlotsOf
<1>4. session[s].connected \/ ~session'[s].connected
  BY <1>1, <1>2, ObjectFacts
<1>5. Course(s)'
  BY <1>1, <1>2, ObjectFacts DEF Course, Applying
<1>6. Past(s) => Past(s)'
  BY <1>1, <1>2 DEF Past, Course
<1>7. ASSUME session[s].joined = 1 PROVE Accounted(s)'
  <2>1. session[s].pc \notin {"auth", "authWait"}
    BY <1>1, <1>7 DEF Course
  <2>2. CASE s \notin Registered /\ ~session[s].connected
             /\ (session[s].told = 1 \/ session[s].swept)
    BY <1>2, <1>3, <1>4, <2>2 DEF Accounted
  <2>3. CASE s \in Registered /\ session[s].told = 0 /\ (session[s].connected \/ TellerOf(s))
    <3>1. session'[s].connected \/ TellerOf(s)'
      <4>1. CASE p \in {"checked", "telling"}
        BY <1>2, <4>1 DEF TellerOf
      <4>2. CASE p \notin {"checked", "telling"} /\ session[s].pc \notin {"checked", "telling"}
        <5>1. session'[s].connected = session[s].connected
          BY <1>2, <2>1, <4>2
        <5>2. TellerOf(s) => TellerOf(s)'
          BY <4>2 DEF TellerOf
        <5>3. QED
          BY <2>3, <5>1, <5>2
      <4>3. QED
        BY <4>1, <4>2
    <3>2. QED
      BY <1>2, <1>3, <2>3, <3>1 DEF Accounted
  <2>4. QED
    BY <1>1, <1>7, <2>2, <2>3 DEF Accounted
<1>8. QED
  BY <1>2, <1>4, <1>5, <1>6, <1>7 DEF Walks

\* ExternalProxy, which a client sends once, arrives before the session has registered.
LEMMA ClaimWalks ==
  ASSUME MaxClaims = 1, Typed, PlayerInv, NEW s \in Sessions, HandleExternalProxy(s)
  PROVE  Walks(s)
<1>1. ObjectsOK /\ Course(s)
  BY DEF Typed, PlayerInv, Courses, ObjectsOK
<1>2. PICK k \in Tokens : Claims(s, k)
  BY <1>1, ClaimMoves
<1>3. session[s].pc = "recv" /\ session[s].connected /\ session[s].claims = 0
      /\ session[s].joined = 0
  BY <1>1 DEF HandleExternalProxy, Course
<1>4. UNCHANGED <<m_sessions, m_zombie_sessions, used, ldn>>
  BY DEF HandleExternalProxy, lists
<1>5. Course(s)' /\ (Past(s) => Past(s)')
  BY <1>1, <1>2, <1>3 DEF Claims, Course, Applying, Past
<1>6. QED
  BY <1>2, <1>3, <1>4, <1>5 DEF Claims, Walks

\* The receive thread's steps, but for registering and telling the server.
LEMMA ThreadKeeps ==
  ASSUME MaxClaims = 1, Typed, PlayerInv, NEW s \in Sessions, SessionNext(s),
         ~SessionTells(s), ~HandleProxyData(s), TryRegisterUser(s) => Goto(s, "authWait")
  PROVE  PlayerInv'
<1>1. ObjectsOK /\ session[s].connected \in BOOLEAN /\ FALSE \in BOOLEAN
  BY ObjectFacts DEF Typed, ObjectsOK
<1>2. CASE ReceiveEnds(s) \/ AuthFails(s)
  <2>1. /\ UNCHANGED <<m_sessions, m_zombie_sessions, used, ldn>>
        /\ session[s].pc \in {"recv", "authWait"}
    BY <1>2 DEF ReceiveEnds, AuthFails, lists
  <2>2. PICK p \in SessionPc : /\ p = IF session[s].connected THEN "checked" ELSE "exiting"
                               /\ Goto(s, p)
    BY <1>2, Places DEF ReceiveEnds, AuthFails, Disconnecting
  <2>3. Moves(s, p, session[s].connected, session[s].stack)
    BY <1>1, <2>2, GotoMoves
  <2>4. Walks(s)
    BY <1>1, <2>1, <2>2, <2>3, MoveWalks
  <2>5. QED
    BY <2>4, WalkKeeps
<1>3. CASE TryRegisterUser(s)
  <2>1. /\ session[s].pc \in {"auth", "authWait"} /\ "authWait" \in SessionPc
        /\ UNCHANGED <<m_zombie_sessions, used, ldn>>
    BY <1>3, Places DEF TryRegisterUser
  <2>2. UNCHANGED m_sessions
    <3>1. session'[s].joined = session[s].joined
      BY <1>1, <1>3, <2>1, GotoMoves DEF Moves, Rest
    <3>2. ~Joins(s)
      BY <1>1, <3>1, ObjectFacts DEF Joins
    <3>3. QED
      BY <1>1, <1>3, <3>2, TryRegisterIs, JoinMoves DEF Typed
  <2>3. Moves(s, "authWait", session[s].connected, session[s].stack)
    BY <1>1, <1>3, <2>1, GotoMoves
  <2>4. Walks(s)
    BY <1>1, <2>1, <2>2, <2>3, MoveWalks
  <2>5. QED
    BY <2>4, WalkKeeps
<1>4. CASE Disconnect(s) \/ ThreadDone(s)
  <2>1. UNCHANGED <<m_sessions, m_zombie_sessions, used, ldn>>
    BY <1>4 DEF Disconnect, ThreadDone, lists
  <2>2. CASE Disconnect(s)
    <3>1. session[s].pc = "checked" /\ "telling" \in SessionPc
      BY <2>2, Places DEF Disconnect
    <3>2. Moves(s, "telling", FALSE, session[s].stack)
      BY <1>1, <2>2, ThreadMoves
    <3>3. Walks(s)
      BY <1>1, <2>1, <3>1, <3>2, MoveWalks
    <3>4. QED
      BY <3>3, WalkKeeps
  <2>3. CASE ThreadDone(s)
    <3>1. session[s].pc = "exiting" /\ "done" \in SessionPc
      BY <2>3, Places DEF ThreadDone
    <3>2. Moves(s, "done", session[s].connected, session[s].stack)
      BY <1>1, <2>3, ThreadMoves
    <3>3. Walks(s)
      BY <1>1, <2>1, <3>1, <3>2, MoveWalks
    <3>4. QED
      BY <3>3, WalkKeeps
  <2>4. QED
    BY <1>4, <2>2, <2>3
<1>5. CASE HandleExternalProxy(s)
  BY <1>5, ClaimWalks, WalkKeeps
<1>6. QED
  BY <1>2, <1>3, <1>4, <1>5 DEF SessionNext

\* A session that registers gets a slot.
LEMMA JoinKeeps ==
  ASSUME Typed, PlayerInv, NEW s \in Sessions, session[s].pc \in {"auth", "authWait"},
         NEW i \in DOMAIN m_waiting_tokens, Register(s, i),
         UNCHANGED <<m_zombie_sessions, used, ldn>>
  PROVE  PlayerInv'
<1>1. ObjectsOK /\ Course(s) /\ m_waiting_tokens \in Seq(Tokens)
      /\ m_sessions \in [Slots -> Sessions \cup {None}]
  BY DEF Typed, PlayerInv, Courses, ObjectsOK
<1>2. /\ session[s].joined = 0 /\ session[s].claims = 1 /\ session[s].told = 0
      /\ session[s].connected /\ session[s].stack # NoStack
  BY <1>1 DEF Course, Applying
<1>3. s \notin Registered
  BY <1>2, NewcomerIsOut DEF PlayerInv
<1>4. Joins(s)
  BY <1>1, JoinMoves
<1>5. /\ session'[s].pc = "recv" /\ session'[s].connected
      /\ session'[s].stack = session[s].stack /\ session'[s].authenticated
      /\ session'[s].claims = 1 /\ session'[s].joined = 1 /\ session'[s].told = 0
      /\ \A t \in Sessions : t # s => session'[t] = session[t]
  BY <1>2, <1>4 DEF Joins, Alone
<1>6. PICK j \in Slots : Sits(s, j)
  <2>1. FreeSlots # {}
    BY <1>2, <1>3, SlotIsFree DEF PlayerInv
  <2>2. Store(s)
    BY DEF Register
  <2>3. QED
    BY <2>1, <2>2, StoreIs
<1>7. /\ m_sessions[j] = None /\ m_sessions'[j] = s
      /\ \A h \in Slots : h # j => m_sessions'[h] = m_sessions[h]
  BY <1>1, <1>6 DEF Sits, FreeSlots
<1>8. Registered' = Registered \cup {s}
  BY <1>7 DEF Registered, SlotsOf
<1>9. Courses'
  BY <1>5 DEF PlayerInv, Courses, Course, Applying
<1>10. Seated'
  BY <1>1, <1>2, <1>5, <1>7 DEF PlayerInv, Seated
<1>11. OneSeat'
  <2>1. \A h \in Slots : m_sessions[h] # s
    BY <1>3, RegisteredIs
  <2>2. QED
    BY <1>7, <2>1 DEF PlayerInv, OneSeat
<1>12. OwnStack'
  BY <1>5 DEF PlayerInv, OwnStack
<1>13. ZombiesPast'
  <2>1. \A z \in Zombies : z \in Sessions
    BY ElementOfSeq, LenProperties DEF Typed, Zombies
  <2>2. s \notin Zombies
    <3>1. ~Past(s)
      BY <1>2 DEF Past
    <3>2. QED
      BY <3>1 DEF PlayerInv, ZombiesPast
  <2>3. Zombies' = Zombies
    BY DEF Zombies
  <2>4. QED
    BY <1>5, <1>8, <2>1, <2>2, <2>3 DEF PlayerInv, ZombiesPast, Past
<1>14. VictimsPast' /\ VictimCutOff'
  <2>1. ldn.victims \in Seq(Sessions)
    BY LdnEdit DEF Typed
  <2>2. \A h \in DOMAIN ldn.victims : ldn.victims[h] \in Sessions
    BY <2>1, ElementOfSeq, LenProperties
  <2>3. ldn.pc = "telling" => Head(ldn.victims) \in Sessions
    BY <2>1, HeadTailProperties DEF Typed
  <2>4. QED
    BY <1>2, <1>5, <2>2, <2>3 DEF PlayerInv, VictimsPast, VictimCutOff
<1>15. AllAccounted'
  <2>1. AllAccounted
    BY AccountedIs DEF PlayerInv
  <2>2. ASSUME NEW t \in Sessions, t # s PROVE TellerOf(t)' = TellerOf(t)
    BY <1>5, <2>2 DEF TellerOf
  <2>3. ASSUME NEW t \in Sessions, t # s, session'[t].joined = 1 PROVE Accounted(t)'
    BY <1>5, <1>8, <2>1, <2>2, <2>3 DEF AllAccounted, Accounted
  <2>4. Accounted(s)'
    BY <1>5, <1>8 DEF Accounted
  <2>5. QED
    BY <2>3, <2>4 DEF AllAccounted
<1>16. PlayerAccounted'
  BY <1>15, AccountedIs, PTL
<1>17. QED
  BY <1>9, <1>10, <1>11, <1>12, <1>13, <1>14, <1>16 DEF PlayerInv

\* The entries of a tail are entries of the sequence.
LEMMA TailEntries ==
  ASSUME NEW q \in Seq(Sessions), q # <<>>
  PROVE  \A h \in DOMAIN Tail(q) : \E g \in DOMAIN q : Tail(q)[h] = q[g]
<1>1. Len(q) \in Nat /\ DOMAIN q = 1..Len(q) /\ Len(q) # 0
  BY LenProperties, EmptySeq
<1>2. PICK u \in Seq(Sessions) : u = Tail(q)
  BY HeadTailProperties
<1>3. Len(u) = Len(q) - 1 /\ \A h \in 1..Len(u) : u[h] = q[h + 1]
  BY <1>2, HeadTailProperties
<1>4. DOMAIN u = 1..Len(u)
  BY LenProperties
<1>5. \A h \in DOMAIN u : h + 1 \in DOMAIN q /\ u[h] = q[h + 1]
  BY <1>1, <1>3, <1>4
<1>6. QED
  BY <1>2, <1>5

(***************************************************************************)
(* OnSessionDisconnected(s, p), called by the session's own thread or by   *)
(* the LDN receive thread.                                                 *)
(***************************************************************************)
LEMMA TellKeeps ==
  ASSUME MaxClaims = 1, Typed, PlayerInv, NEW s \in Sessions, NEW p \in SessionPc,
         OnSessionDisconnected(s, p), UNCHANGED used,
         ~session[s].connected,
         \/ p = "exiting" /\ session[s].pc = "telling"
         \/ session[s].joined = 1 /\ p = session[s].pc,
         \/ UNCHANGED ldn
         \/ /\ ldn.pc = "telling" /\ Head(ldn.victims) = s
            /\ \/ LdnIdle
               \/ LdnAt("victims", ldn.token, Tail(ldn.victims))
  PROVE  PlayerInv'
<1>1. ObjectsOK /\ Course(s) /\ ListsOK
      /\ m_sessions \in [Slots -> Sessions \cup {None}]
  BY DEF Typed, PlayerInv, Courses, ObjectsOK, ListsOK
<1>2. Tells(s, p)
  BY <1>1, TellMoves DEF OnSessionDisconnected
<1>3. /\ session'[s].pc = p /\ session'[s].connected = session[s].connected
      /\ session'[s].stack = session[s].stack
      /\ session'[s].authenticated = session[s].authenticated
      /\ session'[s].claims = session[s].claims /\ session'[s].joined = session[s].joined
      /\ session'[s].told = NotifyMasterDisconnect(s) /\ session'[s].swept = session[s].swept
      /\ \A t \in Sessions : t # s => session'[t] = session[t]
  BY <1>2 DEF Tells, Alone
<1>4. Registered' = Registered \ {s}
      /\ \A i \in Slots : m_sessions'[i] # None => m_sessions'[i] = m_sessions[i]
  <2>1. CASE s \notin Registered /\ SlotsStand
    BY <2>1 DEF SlotsStand, Registered, SlotsOf
  <2>2. ASSUME NEW i \in Slots, Leaves(s, i)
        PROVE  Registered' = Registered \ {s}
               /\ \A j \in Slots : m_sessions'[j] # None => m_sessions'[j] = m_sessions[j]
    <3>1. m_sessions[i] = s /\ m_sessions'[i] = None /\ s # None
          /\ \A j \in Slots : j # i => m_sessions'[j] = m_sessions[j]
      BY <1>1, <2>2 DEF Leaves, SlotsOf
    <3>2. \A j \in Slots : m_sessions[j] = s => j = i
      BY <3>1 DEF PlayerInv, OneSeat
    <3>3. \A t \in Sessions : t # None
      OBVIOUS
    <3>4. QED
      BY <3>1, <3>2, <3>3 DEF Registered, SlotsOf
  <2>3. Remove(s)
    BY DEF OnSessionDisconnected
  <2>4. QED
    BY <2>1, <2>2, <2>3, RemoveIs
<1>5. s \in Registered => /\ session[s].joined = 1 /\ session[s].authenticated
                          /\ session[s].told = 0 /\ session'[s].told = 1
  <2>1. SUFFICES ASSUME s \in Registered
                 PROVE  /\ session[s].joined = 1 /\ session[s].authenticated
                        /\ session[s].told = 0 /\ session'[s].told = 1
    OBVIOUS
  <2>2. session[s].joined = 1 /\ session[s].authenticated
    BY <2>1, RegisteredIs DEF PlayerInv, Seated
  <2>3. session[s].told = 0
    BY <2>1, <2>2, AccountedIs DEF PlayerInv, AllAccounted, Accounted
  <2>4. NotifyMasterDisconnect(s) = 1
    BY <2>1, <2>2, <2>3 DEF NotifyMasterDisconnect
  <2>5. QED
    BY <1>3, <2>2, <2>3, <2>4
<1>6. s \notin Registered => session'[s].told = session[s].told
  BY <1>3 DEF NotifyMasterDisconnect
<1>7. Courses'
  BY <1>1, <1>3, <1>5, <1>6 DEF PlayerInv, Courses, Course, Applying
<1>8. Seated' /\ OneSeat'
  BY <1>1, <1>3, <1>4 DEF PlayerInv, Seated, OneSeat
<1>9. OwnStack'
  BY <1>3 DEF PlayerInv, OwnStack
<1>10. ZombiesPast'
  <2>1. Zombies' \subseteq Zombies \cup {s}
    BY <1>1, QueuedIs DEF OnSessionDisconnected
  <2>2. \A z \in Zombies : z \in Sessions
    BY ElementOfSeq, LenProperties DEF Typed, Zombies
  <2>3. Past(s)'
    BY <1>3 DEF Past
  <2>4. QED
    BY <1>3, <1>4, <2>1, <2>2, <2>3 DEF PlayerInv, ZombiesPast, Past
<1>11. VictimsPast' /\ VictimCutOff'
  <2>1. ldn.victims \in Seq(Sessions)
    BY LdnEdit DEF Typed
  <2>2. \A h \in DOMAIN ldn.victims : ldn.victims[h] \in Sessions
    BY <2>1, ElementOfSeq, LenProperties
  <2>3. ldn.pc = "telling" => Head(ldn.victims) \in Sessions
    BY <2>1, HeadTailProperties DEF Typed
  <2>4. CASE UNCHANGED ldn
    BY <1>3, <2>2, <2>3, <2>4 DEF PlayerInv, VictimsPast, VictimCutOff
  <2>5. CASE LdnIdle
    BY <2>5 DEF LdnIdle, LdnAt, VictimsPast, VictimCutOff
  <2>6. CASE ldn.pc = "telling" /\ LdnAt("victims", ldn.token, Tail(ldn.victims))
    <3>1. \A h \in DOMAIN Tail(ldn.victims) : \E g \in DOMAIN ldn.victims :
            Tail(ldn.victims)[h] = ldn.victims[g]
      BY <2>1, <2>6, TailEntries DEF Typed
    <3>2. \A g \in DOMAIN ldn.victims : session'[ldn.victims[g]].joined = 1
      BY <1>3, <2>2, <2>6 DEF PlayerInv, VictimsPast
    <3>3. QED
      BY <2>6, <3>1, <3>2 DEF LdnAt, VictimsPast, VictimCutOff
  <2>7. QED
    BY <2>4, <2>5, <2>6
<1>12. AllAccounted'
  <2>1. AllAccounted
    BY AccountedIs DEF PlayerInv
  <2>2. ASSUME NEW t \in Sessions, t # s PROVE TellerOf(t) => TellerOf(t)'
    BY <1>3, <2>2 DEF TellerOf
  <2>3. ASSUME NEW t \in Sessions, t # s, session'[t].joined = 1 PROVE Accounted(t)'
    BY <1>3, <1>4, <2>1, <2>2, <2>3 DEF AllAccounted, Accounted
  <2>4. session'[s].joined = 1 => Accounted(s)'
    BY <1>3, <1>4, <1>5, <1>6, <2>1 DEF AllAccounted, Accounted
  <2>5. QED
    BY <2>3, <2>4 DEF AllAccounted
<1>13. PlayerAccounted'
  BY <1>12, AccountedIs, PTL
<1>14. QED
  BY <1>7, <1>8, <1>9, <1>10, <1>11, <1>13 DEF PlayerInv

\* The sessions on the zombie list and those to be sent away are sessions.
LEMMA NamedSessions ==
  ASSUME Typed
  PROVE  /\ Zombies \subseteq Sessions /\ ldn.victims \in Seq(Sessions)
         /\ \A h \in DOMAIN ldn.victims : ldn.victims[h] \in Sessions
         /\ ldn.pc \in {"victims", "checked", "telling"} =>
              /\ 1 \in DOMAIN ldn.victims /\ Head(ldn.victims) = ldn.victims[1]
              /\ Head(ldn.victims) \in Sessions
<1>1. \A z \in Zombies : z \in Sessions
  BY ElementOfSeq, LenProperties DEF Typed, Zombies
<1>2. ldn.victims \in Seq(Sessions)
  BY LdnEdit DEF Typed
<1>3. \A h \in DOMAIN ldn.victims : ldn.victims[h] \in Sessions
  BY <1>2, ElementOfSeq, LenProperties
<1>4. ASSUME ldn.pc \in {"victims", "checked", "telling"}
      PROVE  1 \in DOMAIN ldn.victims /\ Head(ldn.victims) = ldn.victims[1]
  <2>1. PICK q \in Seq(Sessions) : q = ldn.victims /\ q # <<>>
    BY <1>2, <1>4 DEF Typed
  <2>2. Len(q) \in Nat /\ DOMAIN q = 1..Len(q) /\ Len(q) # 0 /\ Head(q) = q[1]
    BY <2>1, LenProperties, EmptySeq, HeadTailProperties
  <2>3. QED
    BY <2>1, <2>2
<1>5. QED
  BY <1>1, <1>2, <1>3, <1>4

\* A session that is to be sent away has registered.
LEMMA VictimHasJoined ==
  ASSUME Typed, PlayerInv, ldn.pc \in {"victims", "checked", "telling"}
  PROVE  session[Head(ldn.victims)].joined = 1 /\ Head(ldn.victims) \in Sessions
<1>1. 1 \in DOMAIN ldn.victims /\ Head(ldn.victims) = ldn.victims[1]
      /\ Head(ldn.victims) \in Sessions
  BY NamedSessions
<1>2. session[ldn.victims[1]].joined = 1
  BY <1>1 DEF PlayerInv, VictimsPast
<1>3. QED
  BY <1>1, <1>2

\* HandleExternalProxyStateChange cuts a session off, and is about to tell the server.
LEMMA CutKeeps ==
  ASSUME Typed, PlayerInv, VictimCut, LdnAt("telling", ldn.token, ldn.victims)
  PROVE  PlayerInv'
<1>1. ldn.pc = "checked" /\ UNCHANGED <<m_sessions, m_zombie_sessions, used>>
  BY DEF VictimCut, lists
<1>2. PICK s \in Sessions : s = Head(ldn.victims) /\ session[s].joined = 1
  BY <1>1, VictimHasJoined
<1>3. Moves(s, session[s].pc, FALSE, session[s].stack)
  BY <1>2, CutMoves DEF VictimCut, Typed, ObjectsOK
<1>4. /\ session'[s].pc = session[s].pc /\ ~session'[s].connected
      /\ session'[s].stack = session[s].stack
      /\ session'[s].authenticated = session[s].authenticated
      /\ session'[s].claims = session[s].claims /\ session'[s].joined = session[s].joined
      /\ session'[s].told = session[s].told /\ session'[s].swept = session[s].swept
      /\ \A t \in Sessions : t # s => session'[t] = session[t]
  BY <1>3 DEF Moves, Rest, Alone
<1>5. Registered' = Registered /\ Zombies' = Zombies
  BY <1>1 DEF Registered, SlotsOf, Zombies
<1>6. Courses'
  BY <1>2, <1>4 DEF PlayerInv, Courses, Course, Applying
<1>7. Seated' /\ OneSeat'
  BY <1>1, <1>4, SMTT(30) DEF PlayerInv, Seated, OneSeat, Typed
<1>8. OwnStack'
  BY <1>1, <1>4 DEF PlayerInv, OwnStack
<1>9. ZombiesPast'
  BY <1>4, <1>5, NamedSessions DEF PlayerInv, ZombiesPast, Past
<1>10. VictimsPast' /\ VictimCutOff'
  <2>1. ldn'.pc = "telling" /\ ldn'.victims = ldn.victims
    BY DEF LdnAt
  <2>2. \A h \in DOMAIN ldn.victims : session'[ldn.victims[h]].joined = 1
    BY <1>1, <1>4, NamedSessions DEF PlayerInv, VictimsPast
  <2>3. QED
    BY <1>2, <1>4, <2>1, <2>2 DEF VictimsPast, VictimCutOff
<1>11. AllAccounted'
  <2>1. AllAccounted
    BY AccountedIs DEF PlayerInv
  <2>2. TellerOf(s)'
    BY <1>2 DEF LdnAt, TellerOf
  <2>3. ASSUME NEW t \in Sessions, t # s PROVE TellerOf(t) => TellerOf(t)'
    BY <1>2, <1>4, <2>3 DEF LdnAt, TellerOf
  <2>4. ASSUME NEW t \in Sessions, t # s, session'[t].joined = 1 PROVE Accounted(t)'
    BY <1>4, <1>5, <2>1, <2>3, <2>4 DEF AllAccounted, Accounted
  <2>5. Accounted(s)'
    BY <1>2, <1>4, <1>5, <2>1, <2>2 DEF AllAccounted, Accounted
  <2>6. QED
    BY <2>4, <2>5 DEF AllAccounted
<1>12. PlayerAccounted'
  BY <1>11, AccountedIs, PTL
<1>13. QED
  BY <1>6, <1>7, <1>8, <1>9, <1>10, <1>12 DEF PlayerInv

\* A new session has a stack nobody has, or no thread.
LEMMA BeginKeeps ==
  ASSUME Typed, PlayerInv, NEW s \in Unmade, SessionStart(s),
         UNCHANGED <<m_sessions, m_zombie_sessions, ldn>>
  PROVE  PlayerInv'
<1>1. s \in Sessions /\ session[s].pc = "unborn" /\ ObjectsOK
  BY DEF Unmade, Typed, ObjectsOK
<1>2. session[s].joined = 0 /\ session[s].told = 0 /\ Course(s)
  BY <1>1 DEF PlayerInv, Courses, Course
<1>3. Begins(s)
  BY <1>1, BeginMoves
<1>4. /\ session'[s].joined = 0 /\ session'[s].told = 0
      /\ session'[s].claims = session[s].claims
      /\ session'[s].pc \in {"recv", "leaked"}
      /\ session'[s].pc = "recv" => session'[s].connected /\ session'[s].stack # NoStack
      /\ \A t \in Sessions : t # s => session'[t] = session[t]
  <2>1. ASSUME NEW p, NEW c, NEW k, Moves(s, p, c, k)
        PROVE  /\ session'[s].joined = 0 /\ session'[s].told = 0
               /\ session'[s].claims = session[s].claims /\ session'[s].pc = p
               /\ session'[s].connected = c /\ session'[s].stack = k
               /\ \A t \in Sessions : t # s => session'[t] = session[t]
    BY <1>2, <2>1 DEF Moves, Rest, Alone
  <2>2. CASE Moves(s, "leaked", session[s].connected, session[s].stack)
    <3>1. session'[s].pc = "leaked"
      BY <2>1, <2>2
    <3>2. session'[s].pc # "recv"
      BY <3>1
    <3>3. QED
      BY <2>1, <2>2, <3>1, <3>2, Zenon
  <2>3. ASSUME NEW k \in Stacks, NEW p \in {"recv", "leaked"}, Moves(s, p, TRUE, k)
        PROVE  session'[s].pc \in {"recv", "leaked"} /\ session'[s].connected
               /\ session'[s].stack # NoStack
    <3>1. session'[s].pc = p /\ session'[s].connected = TRUE /\ session'[s].stack = k
      BY <2>1, <2>3, Zenon
    <3>2. k # NoStack
      BY Places
    <3>3. QED
      BY <3>1, <3>2, Zenon
  <2>4. ASSUME NEW k \in Stacks, NEW p \in {"recv", "leaked"}, Moves(s, p, TRUE, k)
        PROVE  /\ session'[s].joined = 0 /\ session'[s].told = 0
               /\ session'[s].claims = session[s].claims
               /\ \A t \in Sessions : t # s => session'[t] = session[t]
    BY <2>1, <2>4, Zenon
  <2>5. QED
    BY <1>3, <2>2, <2>3, <2>4 DEF Begins
<1>5. /\ used \subseteq used'
      /\ session'[s].stack = session[s].stack
           \/ session'[s].stack \in used' \ used
  BY <1>3 DEF Begins, Moves
<1>6. Registered' = Registered /\ Zombies' = Zombies /\ s \notin Registered
  BY <1>1, <1>2, NewcomerIsOut DEF PlayerInv, Registered, SlotsOf, Zombies
<1>7. Courses'
  <2>1. Course(s)'
    BY <1>2, <1>4 DEF Course, Applying
  <2>2. QED
    BY <1>4, <2>1 DEF PlayerInv, Courses, Course, Applying
<1>8. Seated' /\ OneSeat'
  BY <1>2, <1>4 DEF PlayerInv, Seated, OneSeat, Typed
<1>9. OwnStack'
  BY <1>1, <1>4, <1>5 DEF PlayerInv, OwnStack
<1>10. ZombiesPast'
  <2>1. s \notin Zombies
    BY <1>1, <1>2 DEF PlayerInv, ZombiesPast, Past
  <2>2. QED
    BY <1>4, <1>6, <2>1, NamedSessions DEF PlayerInv, ZombiesPast, Past
<1>11. VictimsPast' /\ VictimCutOff'
  <2>1. VictimsPast'
    BY <1>2, <1>4, NamedSessions DEF PlayerInv, VictimsPast
  <2>2. ldn.pc = "telling" => session'[Head(ldn.victims)] = session[Head(ldn.victims)]
    BY <1>2, <1>4, VictimHasJoined
  <2>3. QED
    BY <2>1, <2>2 DEF PlayerInv, VictimCutOff
<1>12. AllAccounted'
  <2>1. AllAccounted
    BY AccountedIs DEF PlayerInv
  <2>2. ASSUME NEW t \in Sessions, t # s PROVE TellerOf(t) => TellerOf(t)'
    BY <1>4, <2>2 DEF TellerOf
  <2>3. ASSUME NEW t \in Sessions, t # s, session'[t].joined = 1 PROVE Accounted(t)'
    BY <1>4, <1>6, <2>1, <2>2, <2>3 DEF AllAccounted, Accounted
  <2>4. QED
    BY <1>4, <2>3 DEF AllAccounted
<1>13. PlayerAccounted'
  BY <1>12, AccountedIs, PTL
<1>14. QED
  BY <1>7, <1>8, <1>9, <1>10, <1>11, <1>13 DEF PlayerInv

\* ReapZombieSessions gives the stacks of the zombies back, and theirs alone.
LEMMA ReapKeeps ==
  ASSUME Typed, PlayerInv, ReapZombieSessions, UNCHANGED <<m_sessions, ldn>>
  PROVE  PlayerInv'
<1>1. Reaps /\ Zombies' \subseteq Zombies
  BY ReapMoves, ReapedIs DEF Typed, ObjectsOK, ListsOK
<1>2. /\ \A t \in Sessions : t \notin Zombies => session'[t] = session[t]
      /\ \A t \in Sessions :
           /\ session'[t].pc = session[t].pc /\ session'[t].connected = session[t].connected
           /\ session'[t].authenticated = session[t].authenticated
           /\ session'[t].claims = session[t].claims /\ session'[t].joined = session[t].joined
           /\ session'[t].told = session[t].told /\ session'[t].swept = session[t].swept
           /\ session'[t].stack = IF t \in Zombies THEN NoStack ELSE session[t].stack
  BY <1>1 DEF Reaps, Rest
<1>3. Registered' = Registered
  BY DEF Registered, SlotsOf
<1>4. Zombies \subseteq Sessions /\ \A z \in Zombies : Past(z) /\ z \notin Registered
  BY NamedSessions DEF PlayerInv, ZombiesPast
<1>5. Courses'
  <2>1. \A z \in Zombies : ~Applying(z)
    BY <1>4 DEF Past, Applying
  <2>2. QED
    BY <1>2, <2>1 DEF PlayerInv, Courses, Course, Applying
<1>6. Seated' /\ OneSeat'
  <2>1. \A i \in Slots : m_sessions[i] # None =>
          m_sessions[i] \in Sessions /\ m_sessions[i] \notin Zombies
    BY <1>4, RegisteredIs DEF Typed
  <2>2. QED
    BY <1>2, <2>1 DEF PlayerInv, Seated, OneSeat
<1>7. OwnStack'
  <2>1. used' = used \ {session[z].stack : z \in Zombies}
    BY DEF ReapZombieSessions, ReleaseSessionStackSlot
  <2>2. QED
    BY <1>2, <1>4, <2>1 DEF PlayerInv, OwnStack
<1>8. ZombiesPast'
  BY <1>1, <1>2, <1>3, <1>4 DEF ZombiesPast, Past
<1>9. VictimsPast' /\ VictimCutOff'
  <2>1. VictimsPast'
    BY <1>2, NamedSessions DEF PlayerInv, VictimsPast
  <2>2. VictimCutOff'
    BY <1>2, NamedSessions DEF PlayerInv, VictimCutOff
  <2>3. QED
    BY <2>1, <2>2
<1>10. AllAccounted'
  <2>1. AllAccounted
    BY AccountedIs DEF PlayerInv
  <2>2. \A t \in Sessions : TellerOf(t) => TellerOf(t)'
    BY <1>2 DEF TellerOf
  <2>3. QED
    BY <1>2, <1>3, <2>1, <2>2 DEF AllAccounted, Accounted
<1>11. PlayerAccounted'
  BY <1>10, AccountedIs, PTL
<1>12. QED
  BY <1>5, <1>6, <1>7, <1>8, <1>9, <1>11 DEF PlayerInv

\* Stop sweeps the players away, and gives back the stacks of those it frees at once.
LEMMA StopKeeps ==
  ASSUME Typed, PlayerInv, Stop
  PROVE  PlayerInv'
<1>1. /\ Sweeps /\ Zombies' \subseteq Zombies \cup Registered /\ Overflow \subseteq Registered
      /\ UNCHANGED ldn
  BY StopMoves, SweptIs DEF Stop, Typed, ObjectsOK, ListsOK
<1>2. /\ \A t \in Sessions : t \notin Registered => session'[t] = session[t]
      /\ \A t \in Sessions :
           /\ session'[t].pc = session[t].pc /\ (session[t].connected \/ ~session'[t].connected)
           /\ session'[t].authenticated = session[t].authenticated
           /\ session'[t].claims = session[t].claims /\ session'[t].joined = session[t].joined
           /\ session'[t].told = session[t].told
           /\ session'[t].stack = IF t \in Overflow THEN NoStack ELSE session[t].stack
      /\ \A t \in Registered : ~session'[t].connected /\ session'[t].swept
  <2>1. Registered \subseteq Sessions
    BY DEF Registered
  <2>2. QED
    BY <1>1, <2>1 DEF Sweeps
<1>3. m_sessions' = [i \in Slots |-> None] /\ Registered' = {}
  <2>1. m_sessions' = [i \in Slots |-> None]
    BY DEF Stop
  <2>2. \A t \in Sessions : t # None
    OBVIOUS
  <2>3. QED
    BY <2>1, <2>2 DEF Registered, SlotsOf
<1>4. \A t \in Registered : t \in Sessions /\ session[t].joined = 1
  <2>1. ASSUME NEW t \in Registered PROVE t \in Sessions /\ session[t].joined = 1
    <3>1. t \in Sessions /\ t # None
      BY DEF Registered
    <3>2. QED
      BY <3>1, RegisteredIs DEF PlayerInv, Seated
  <2>2. QED
    BY <2>1
<1>5. Courses'
  <2>1. \A t \in Registered : ~Applying(t)
    BY <1>4 DEF Applying
  <2>2. ASSUME NEW t \in Sessions PROVE Course(t)'
    <3>1. CASE t \in Registered
      BY <1>2, <1>4, <3>1 DEF PlayerInv, Courses, Course, Applying
    <3>2. CASE t \notin Registered
      BY <1>2, <3>2 DEF PlayerInv, Courses, Course, Applying
    <3>3. QED
      BY <3>1, <3>2
  <2>3. QED
    BY <2>2 DEF Courses
<1>6. Seated' /\ OneSeat'
  BY <1>3 DEF Seated, OneSeat
<1>7. OwnStack'
  <2>1. used' = used \ {session[z].stack : z \in Overflow} /\ Overflow \subseteq Sessions
    BY <1>1 DEF Stop, ReleaseSessionStackSlot, Registered
  <2>2. QED
    BY <1>2, <2>1 DEF PlayerInv, OwnStack
<1>8. ZombiesPast'
  BY <1>1, <1>2, <1>3, <1>4, NamedSessions DEF PlayerInv, ZombiesPast, Past
<1>9. VictimsPast' /\ VictimCutOff'
  <2>1. VictimsPast'
    BY <1>1, <1>2, NamedSessions DEF PlayerInv, VictimsPast
  <2>2. VictimCutOff'
    BY <1>1, <1>2, NamedSessions DEF PlayerInv, VictimCutOff
  <2>3. QED
    BY <2>1, <2>2
<1>10. AllAccounted'
  <2>1. AllAccounted
    BY AccountedIs DEF PlayerInv
  <2>2. QED
    BY <1>2, <1>3, <2>1 DEF AllAccounted, Accounted
<1>11. PlayerAccounted'
  BY <1>10, AccountedIs, PTL
<1>12. QED
  BY <1>5, <1>6, <1>7, <1>8, <1>9, <1>11 DEF PlayerInv

\* Steps that leave the sessions, the lists and the stacks alone.
LEMMA StillKeeps ==
  ASSUME Typed, PlayerInv, [Next]_vars, ~VictimCut, ~VictimTold,
         UNCHANGED <<session, m_sessions, m_zombie_sessions, used>>
  PROVE  PlayerInv'
<1>1. LdnOK /\ m_sessions \in [Slots -> Sessions \cup {None}]
  BY DEF Typed, LdnOK
<1>2. Registered' = Registered /\ Zombies' = Zombies
  BY DEF Registered, SlotsOf, Zombies
<1>3. Courses' /\ Seated' /\ OneSeat' /\ OwnStack'
  BY DEF PlayerInv, Courses, Course, Applying, Seated, OneSeat, OwnStack
<1>4. ZombiesPast'
  BY <1>2 DEF PlayerInv, ZombiesPast, Past
<1>5. ASSUME NEW P \in SUBSET {i \in Slots : m_sessions[i] # None},
             ldn.pc = "idle", LdnAt("victims", ldn.token, InOrder(P))
      PROVE  VictimsPast' /\ VictimCutOff' /\ (ldn.pc \notin {"checked", "telling"})
  <2>1. \A j \in DOMAIN InOrder(P) : \E i \in P : InOrder(P)[j] = m_sessions[i]
    BY <1>1, InOrderIs
  <2>2. \A i \in P : session[m_sessions[i]].joined = 1
    BY DEF PlayerInv, Seated
  <2>3. QED
    BY <1>5, <2>1, <2>2 DEF LdnAt, VictimsPast, VictimCutOff
<1>6. ASSUME UNCHANGED ldn
      PROVE  VictimsPast' /\ VictimCutOff'
  BY <1>6 DEF PlayerInv, VictimsPast, VictimCutOff
<1>7. ASSUME ldn.pc = "victims", LdnAt("checked", ldn.token, ldn.victims)
      PROVE  VictimsPast' /\ VictimCutOff'
  BY <1>7 DEF LdnAt, PlayerInv, VictimsPast, VictimCutOff
<1>8. ASSUME ldn.pc = "victims", LdnAt("victims", ldn.token, Tail(ldn.victims))
      PROVE  VictimsPast' /\ VictimCutOff'
  <2>1. \A h \in DOMAIN Tail(ldn.victims) : \E g \in DOMAIN ldn.victims :
          Tail(ldn.victims)[h] = ldn.victims[g]
    BY <1>1, <1>8, NamedSessions, TailEntries DEF LdnOK
  <2>2. QED
    BY <1>8, <2>1 DEF LdnAt, PlayerInv, VictimsPast, VictimCutOff
<1>9. ASSUME LdnIdle \/ \E k \in Tokens : LdnAt("token", k, ldn.victims)
      PROVE  VictimsPast' /\ VictimCutOff'
  BY <1>9 DEF LdnIdle, LdnAt, VictimsPast, VictimCutOff
<1>10. \/ UNCHANGED ldn
       \/ /\ ldn.pc \in {"idle", "token"}
          /\ LdnIdle \/ \E k \in Tokens : LdnAt("token", k, ldn.victims)
       \/ /\ ldn.pc = "idle"
          /\ \E P \in SUBSET {i \in Slots : m_sessions[i] # None} :
               LdnAt("victims", ldn.token, InOrder(P))
       \/ /\ ldn.pc = "victims"
          /\ \/ LdnAt("checked", ldn.token, ldn.victims) \/ LdnIdle
             \/ LdnAt("victims", ldn.token, Tail(ldn.victims))
  BY <1>1, LdnStep DEF HandleExternalProxyToken, AddWaitingToken,
     HandleExternalProxyStateChange, VictimChecked
<1>11. VictimsPast' /\ VictimCutOff'
  BY <1>5, <1>6, <1>7, <1>8, <1>9, <1>10
<1>12. AllAccounted'
  <2>1. AllAccounted
    BY AccountedIs DEF PlayerInv
  <2>2. UNCHANGED ldn \/ ldn.pc \notin {"checked", "telling"}
    BY <1>10
  <2>3. \A t \in Sessions : TellerOf(t) => TellerOf(t)'
    BY <2>2 DEF TellerOf
  <2>4. QED
    BY <1>2, <2>1, <2>3 DEF AllAccounted, Accounted
<1>13. PlayerAccounted'
  BY <1>12, AccountedIs, PTL
<1>14. QED
  BY <1>3, <1>4, <1>11, <1>13 DEF PlayerInv

\* The steps of the receive threads.
LEMMA SessionKeeps ==
  ASSUME MaxClaims = 1, Typed, PlayerInv, NEW s \in Sessions, SessionNext(s),
         [Next]_vars, ~VictimCut, ~VictimTold
  PROVE  PlayerInv'
<1>1. CASE SessionTells(s)
  <2>1. /\ session[s].pc = "telling" /\ OnSessionDisconnected(s, "exiting")
        /\ UNCHANGED <<used, ldn>> /\ "exiting" \in SessionPc
    BY <1>1, Places DEF SessionTells
  <2>2. ~session[s].connected
    BY <2>1 DEF PlayerInv, Courses, Course
  <2>3. QED
    BY <2>1, <2>2, TellKeeps
<1>2. CASE HandleProxyData(s)
  BY <1>2, StillKeeps DEF HandleProxyData, lists
<1>3. CASE TryRegisterUser(s) /\ ~Goto(s, "authWait")
  <2>1. /\ session[s].pc \in {"auth", "authWait"} /\ UNCHANGED <<m_zombie_sessions, used, ldn>>
        /\ ObjectsOK /\ m_waiting_tokens \in Seq(Tokens)
    BY <1>3 DEF TryRegisterUser, Typed, ObjectsOK
  <2>2. PICK i \in DOMAIN m_waiting_tokens : Register(s, i)
    BY <1>3, <2>1, TryRegisterIs
  <2>3. QED
    BY <2>1, <2>2, JoinKeeps
<1>4. QED
  BY <1>1, <1>2, <1>3, ThreadKeeps

\* Every step keeps what is known of the players.
LEMMA PlayerStep ==
  ASSUME MaxClaims = 1, Typed, PlayerInv, [Next]_vars
  PROVE  PlayerInv'
<1>1. ObjectsOK /\ LdnOK
  BY DEF Typed, ObjectsOK, LdnOK
<1>2. CASE VictimCut
  <2>1. LdnAt("telling", ldn.token, ldn.victims)
    BY <1>1, <1>2, LdnEdit DEF VictimCut, LdnOK
  <2>2. QED
    BY <1>2, <2>1, CutKeeps
<1>3. CASE VictimTold
  <2>1. ldn.pc = "telling" /\ ldn' = NextVictim /\ UNCHANGED used
    BY <1>3 DEF VictimTold
  <2>2. PICK s \in Sessions : s = Head(ldn.victims) /\ session[s].joined = 1
    BY <2>1, VictimHasJoined
  <2>3. PICK p \in SessionPc : p = session[s].pc
    BY <1>1, ObjectFacts
  <2>4. OnSessionDisconnected(s, p)
    BY <1>3, <2>2, <2>3 DEF VictimTold
  <2>5. ~session[s].connected
    BY <2>1, <2>2 DEF PlayerInv, VictimCutOff
  <2>6. LdnIdle \/ LdnAt("victims", ldn.token, Tail(ldn.victims))
    BY <1>1, <2>1, NextVictimIs
  <2>7. QED
    BY <2>1, <2>2, <2>3, <2>4, <2>5, <2>6, TellKeeps
<1>4. CASE ~VictimCut /\ ~VictimTold
  <2>1. CASE AcceptReap \/ StopReap
    <3>1. UNCHANGED <<m_sessions, ldn>>
      BY <2>1 DEF AcceptReap, StopReap
    <3>2. CASE ReapZombieSessions
      BY <3>1, <3>2, ReapKeeps
    <3>3. CASE UNCHANGED <<m_zombie_sessions, session, used>>
      BY <1>4, <3>1, <3>3, StillKeeps
    <3>4. QED
      BY <2>1, <3>2, <3>3 DEF AcceptReap, StopReap
  <2>2. CASE AcceptSession
    <3>1. UNCHANGED <<m_sessions, m_zombie_sessions, ldn>>
      BY <2>2 DEF AcceptSession, lists
    <3>2. CASE UNCHANGED <<session, used>>
      BY <1>4, <3>1, <3>2, StillKeeps
    <3>3. ASSUME NEW s \in Unmade, SessionStart(s) PROVE PlayerInv'
      BY <3>1, <3>3, BeginKeeps
    <3>4. QED
      BY <2>2, <3>2, <3>3 DEF AcceptSession
  <2>3. CASE Stop
    BY <2>3, StopKeeps
  <2>4. CASE Start \/ StopAcceptEnded \/ BroadcastFromHost \/ UNCHANGED vars
    <3>1. UNCHANGED <<session, m_sessions, m_zombie_sessions, used>>
      BY <2>4, SMTT(30) DEF Start, StopAcceptEnded, BroadcastFromHost, vars, lists
    <3>2. QED
      BY <1>4, <3>1, StillKeeps
  <2>5. CASE HandleExternalProxyToken \/ AddWaitingToken \/ HandleExternalProxyStateChange
             \/ VictimChecked
    <3>1. UNCHANGED <<session, m_sessions, m_zombie_sessions, used>>
      BY <2>5 DEF HandleExternalProxyToken, AddWaitingToken, HandleExternalProxyStateChange,
         VictimChecked, lists
    <3>2. QED
      BY <1>4, <3>1, StillKeeps
  <2>6. ASSUME NEW s \in Sessions, SessionNext(s) PROVE PlayerInv'
    BY <1>4, <2>6, SessionKeeps
  <2>7. QED
    BY <1>4, <2>1, <2>2, <2>3, <2>4, <2>5, <2>6 DEF Next
<1>5. QED
  BY <1>2, <1>3, <1>4

\* Nobody has come yet.
LEMMA InitPlayers == Init => PlayerInv
<1> SUFFICES ASSUME Init PROVE PlayerInv
  OBVIOUS
<1>1. \A s \in Sessions :
        /\ session[s].pc = "unborn" /\ ~session[s].connected /\ session[s].stack = NoStack
        /\ session[s].claims = 0 /\ session[s].joined = 0 /\ session[s].told = 0
  BY DEF Init, Unborn
<1>2. \A i \in Slots : m_sessions[i] = None
  BY DEF Init
<1>3. Zombies = {}
  BY EmptySeq DEF Init, Zombies
<1>4. ldn.pc = "idle"
  BY DEF Init, IdleLdn
<1>5. Courses /\ OwnStack /\ PlayerAccounted
  BY <1>1 DEF Courses, Course, Applying, OwnStack, PlayerAccounted
<1>6. Seated /\ OneSeat
  BY <1>2 DEF Seated, OneSeat
<1>7. ZombiesPast /\ VictimsPast /\ VictimCutOff
  BY <1>3, <1>4 DEF ZombiesPast, VictimsPast, VictimCutOff
<1>8. QED
  BY <1>5, <1>6, <1>7 DEF PlayerInv

(***************************************************************************)
(* A player is in the list until he has left and the master server has     *)
(* been told of it once, whichever of his own thread, the LDN receive      *)
(* thread and Stop comes first, as long as a client sends ExternalProxy    *)
(* once in a connection, as this program's PerformAuth does.  None is      *)
(* admitted without a slot: a session that may register and those in the   *)
(* slots have stacks of their own, and there are as many of these as       *)
(* slots.  With two registrations in a connection this fails: the session  *)
(* then has two slots, and another one none.                               *)
(***************************************************************************)
THEOREM PlayersAreAccounted ==
  ASSUME MaxClaims = 1
  PROVE  Spec => []PlayerAccounted
<1>1. Init => Typed /\ TokenInv /\ PlayerInv
  BY InitTyped, InitPlayers
<1>2. Typed /\ TokenInv /\ PlayerInv /\ [Next]_vars => (Typed /\ TokenInv /\ PlayerInv)'
  BY TypedStep, TokenStep, PlayerStep
<1>3. Typed /\ TokenInv /\ PlayerInv => PlayerAccounted
  BY DEF PlayerInv
<1>4. QED
  BY <1>1, <1>2, <1>3, PTL DEF Spec

-----------------------------------------------------------------------------
(***************************************************************************)
(* The server's port in the router (module PortLease): that a host keeps   *)
(* it, gives it back, and unmaps nobody else's, for any range of ports and *)
(* any lease that is longer than the interval of its renewal.              *)
(***************************************************************************)
(***************************************************************************)
(* The inductive invariant.  A server that has no port yet, or has given   *)
(* it back, has no lease thread; whoever joins the thread has told it to   *)
(* end; the thread renews the port that the server has.                    *)
(***************************************************************************)
NoServerYet == {"none", "discover", "add", "stop"}
PortKnown ==
  /\ main \in NoServerYet => m_public_port = 0
  /\ main = "lease" => m_public_port # 0
  /\ destroying => m_public_port = 0
  /\ destroying => main \in {"none", "release", "delete"}
ThreadKnown ==
  /\ lease = "none" => ~m_lease_thread_running
  /\ lease # "none" => main \in {"hosting", "release", "join"} /\ m_public_port # 0
  /\ main = "join" => ~m_lease_thread_running /\ lease # "none"
  /\ main # "join" /\ lease # "none" => m_lease_thread_running /\ lease # "exited"
  /\ lease = "refresh" => renewing = m_public_port

(***************************************************************************)
(* What was mapped and not lost track of is the server's port; and that    *)
(* one is mapped as long as all renewals have reached the router: the time *)
(* left of it and the sleep of the lease thread make up the whole lease.   *)
(***************************************************************************)
PortTracked == \A p \in Ports : owner[p] = "us" => p \in leaked \/ p = m_public_port
PortHeld ==
  m_public_port # 0 /\ missed = 0 /\ known =>
    /\ owner[m_public_port] = "us"
    /\ main = "lease" => left[m_public_port] = LeaseLength
    /\ main = "hosting" => /\ lease # "none"
                           /\ left[m_public_port] + waited >= LeaseLength
PortInv == LeaseTypeOK /\ PortKnown /\ ThreadKnown /\ PortTracked /\ PortHeld

(***************************************************************************)
(* The ports that NatPunch tries, and that 0 is none of them.              *)
(***************************************************************************)
LEMMA PortFacts ==
  /\ 0 \notin Ports /\ 1 \in Ports
  /\ \A p \in Ports : p < NPorts => p + 1 \in Ports
BY PortLeaseAssumption DEF Ports

USE PortFacts, PortLeaseAssumption DEF router, mapper, flags

(***************************************************************************)
(* Before the first CreateNetwork nothing is mapped by us.                 *)
(***************************************************************************)
LEMMA PortInit == LeaseInit => PortInv
<1> SUFFICES ASSUME LeaseInit PROVE PortInv
  OBVIOUS
<1>1. LeaseTypeOK
  <2>1. owner \in [Ports -> {"none", "us", "other"}] /\ left \in [Ports -> 0..LeaseLength]
    BY DEF LeaseInit
  <2>2. missed \in 0..2 /\ waited \in 0..LeaseRenew /\ trying \in Ports
    BY DEF LeaseInit
  <2>3. QED
    BY <2>1, <2>2, Zenon DEF LeaseInit, LeaseTypeOK
<1>2. PortKnown /\ ThreadKnown
  BY DEF LeaseInit, PortKnown, ThreadKnown
<1>3. PortTracked /\ PortHeld
  BY DEF LeaseInit, PortTracked, PortHeld
<1>4. QED
  BY <1>1, <1>2, <1>3 DEF PortInv

(***************************************************************************)
(* CreateNetwork and the beginning of StopP2pProxyServer.                  *)
(***************************************************************************)
LEMMA HostStep ==
  ASSUME PortInv,
         \/ StartP2pProxyServer \/ Discover \/ AddPortMapping
         \/ StartLeaseRenewal \/ StopP2pProxyServer
  PROVE  PortInv'
<1> USE DEF PortInv, LeaseTypeOK, PortKnown, NoServerYet, ThreadKnown, PortTracked, PortHeld
<1>1. CASE StartP2pProxyServer
  BY <1>1 DEF StartP2pProxyServer
<1>2. CASE Discover
  <2>1. m_available' \in BOOLEAN /\ known' \in BOOLEAN
    BY <1>2, Zenon DEF Discover
  <2>2. main' \in {"add", "hosting"} /\ m_public_port = 0 /\ lease = "none" /\ ~destroying
    BY <1>2 DEF Discover
  <2>3. QED
    BY <1>2, <2>1, <2>2 DEF Discover
<1>3. CASE AddPortMapping
  <2>1. m_public_port = 0 /\ lease = "none" /\ ~destroying /\ ~m_lease_thread_running
    BY <1>3 DEF AddPortMapping
  <2>2. CASE Mapped(trying) /\ m_public_port' = trying /\ missed' = 0
              /\ leaked' = leaked \ {trying} /\ main' = "lease" /\ trying' = trying
    BY <1>3, <2>1, <2>2 DEF AddPortMapping, Mapped
  <2>3. CASE Mapped(trying) /\ leaked' = leaked \cup {trying} /\ TryNext
              /\ UNCHANGED <<m_public_port, missed>>
    BY <1>3, <2>1, <2>3 DEF AddPortMapping, Mapped, TryNext
  <2>4. CASE UNCHANGED <<router, m_public_port, missed, leaked>> /\ TryNext
    BY <1>3, <2>1, <2>4 DEF AddPortMapping, TryNext
  <2>5. QED
    BY <1>3, <2>2, <2>3, <2>4 DEF AddPortMapping
<1>4. CASE StartLeaseRenewal
  <2>1. CASE m_lease_thread_running' = TRUE /\ lease' = "sleep" /\ waited' = 0
             /\ missed' = missed
    BY <1>4, <2>1 DEF StartLeaseRenewal
  <2>2. CASE m_lease_thread_running' = FALSE /\ missed' = 2 /\ UNCHANGED <<lease, waited>>
    <3>1. missed' \in 0..2 /\ missed' # 0
      BY <2>2
    <3>2. QED
      BY <1>4, <2>2, <3>1 DEF StartLeaseRenewal
  <2>3. QED
    BY <1>4, <2>1, <2>2 DEF StartLeaseRenewal
<1>5. CASE StopP2pProxyServer
  BY <1>5 DEF StopP2pProxyServer
<1>6. QED
  BY <1>1, <1>2, <1>3, <1>4, <1>5

(***************************************************************************)
(* Releasing the port, on the thread that stops the server.                *)
(***************************************************************************)
LEMMA ReleaseStep ==
  ASSUME PortInv,
         \/ ReleaseNatPunch \/ JoinLeaseThread \/ DeletePortMapping
         \/ NothingToDelete \/ StopAndDelete
  PROVE  PortInv'
<1> USE DEF PortInv, LeaseTypeOK, PortKnown, NoServerYet, ThreadKnown, PortTracked, PortHeld
<1>1. CASE ReleaseNatPunch
  BY <1>1 DEF ReleaseNatPunch
<1>2. CASE JoinLeaseThread
  BY <1>2 DEF JoinLeaseThread
<1>3. CASE DeletePortMapping
  BY <1>3 DEF DeletePortMapping, Released
<1>4. CASE NothingToDelete
  BY <1>4 DEF NothingToDelete, Released
<1>5. CASE StopAndDelete
  BY <1>5 DEF StopAndDelete
<1>6. QED
  BY <1>1, <1>2, <1>3, <1>4, <1>5

(***************************************************************************)
(* The lease thread.                                                       *)
(***************************************************************************)
LEMMA LeaseStep ==
  ASSUME PortInv, LeaseExits \/ Woken \/ RefreshPortMapping
  PROVE  PortInv'
<1> USE DEF PortInv, LeaseTypeOK, PortKnown, NoServerYet, ThreadKnown, PortTracked, PortHeld,
            Wanted
<1>1. CASE LeaseExits
  BY <1>1 DEF LeaseExits
<1>2. CASE Woken
  BY <1>2 DEF Woken
<1>3. CASE RefreshPortMapping
  BY <1>3 DEF RefreshPortMapping, Mapped
<1>4. QED
  BY <1>1, <1>2, <1>3

(***************************************************************************)
(* Time, other hosts and another network.  A tick takes one from the lease *)
(* and adds one to the sleep, and the sleep is shorter than the lease.     *)
(***************************************************************************)
LEMMA OutsideStep ==
  ASSUME PortInv,
         \/ Tick \/ TickUnmapped \/ NetworkChanges
         \/ \E p \in Ports : OtherMaps(p) \/ OtherUnmaps(p)
  PROVE  PortInv'
<1> USE DEF PortInv, LeaseTypeOK, PortKnown, NoServerYet, ThreadKnown, PortTracked, PortHeld
<1>1. CASE Tick
  BY <1>1 DEF Tick, Wanted, RenewInterval
<1>2. CASE TickUnmapped
  BY <1>2 DEF TickUnmapped, Wanted, RenewInterval
<1>3. CASE NetworkChanges
  <2>1. owner' \in [Ports -> {"none", "us", "other"}] /\ left' \in [Ports -> 0..LeaseLength]
    BY <1>3 DEF NetworkChanges
  <2>2. LeaseTypeOK'
    BY <1>3, <2>1, Zenon DEF NetworkChanges
  <2>3. PortTracked' /\ PortHeld'
    BY <1>3 DEF NetworkChanges
  <2>4. PortKnown' /\ ThreadKnown'
    BY <1>3 DEF NetworkChanges
  <2>5. QED
    BY <2>2, <2>3, <2>4
<1>4. CASE \E p \in Ports : OtherMaps(p) \/ OtherUnmaps(p)
  BY <1>4 DEF OtherMaps, OtherUnmaps
<1>5. QED
  BY <1>1, <1>2, <1>3, <1>4

\* Every step keeps the invariant.
LEMMA PortStep == PortInv /\ [LeaseNext]_leaseVars => PortInv'
<1> SUFFICES ASSUME PortInv, [LeaseNext]_leaseVars PROVE PortInv'
  OBVIOUS
<1>1. CASE LeaseNext
  BY <1>1, HostStep, ReleaseStep, LeaseStep, OutsideStep DEF LeaseNext
<1>2. CASE UNCHANGED leaseVars
  BY <1>2 DEF leaseVars, PortInv, LeaseTypeOK, PortKnown, NoServerYet, ThreadKnown, PortTracked,
     PortHeld
<1>3. QED
  BY <1>1, <1>2

(***************************************************************************)
(* While every renewal reaches the router, the port of a host is mapped to *)
(* it (LeaseRenewalLoop with PORT_LEASE_RENEW and PORT_LEASE_LENGTH).      *)
(***************************************************************************)
THEOREM PortIsHeld == LeaseSpec => []LeaseHeld
<1>1. PortInv => LeaseHeld
  BY DEF PortInv, PortHeld, LeaseHeld
<1>2. (LeaseInit => PortInv) /\ (PortInv /\ [LeaseNext]_leaseVars => PortInv')
  BY PortInit, PortStep
<1>3. QED
  BY <1>1, <1>2, PTL DEF LeaseSpec

(***************************************************************************)
(* A server that is gone has left no mapping in the router, but for those  *)
(* where an answer was lost (the order of ReleaseNatPunch).                *)
(***************************************************************************)
THEOREM PortIsGivenBack == LeaseSpec => []NothingLeftBehind
<1>1. PortInv => NothingLeftBehind
  BY DEF PortInv, PortKnown, NoServerYet, PortTracked, NothingLeftBehind
<1>2. (LeaseInit => PortInv) /\ (PortInv /\ [LeaseNext]_leaseVars => PortInv')
  BY PortInit, PortStep
<1>3. QED
  BY <1>1, <1>2, PTL DEF LeaseSpec

(***************************************************************************)
(* The deletion, though it is made twice, never hits another host's        *)
(* mapping while all renewals arrived (m_public_port in ReleaseNatPunch).  *)
(***************************************************************************)
THEOREM OnlyOursIsDeleted == LeaseSpec => []OthersSpared
<1>1. PortInv => OthersSpared
  BY DEF PortInv, LeaseTypeOK, PortHeld, OthersSpared
<1>2. (LeaseInit => PortInv) /\ (PortInv /\ [LeaseNext]_leaseVars => PortInv')
  BY PortInit, PortStep
<1>3. QED
  BY <1>1, <1>2, PTL DEF LeaseSpec
=============================================================================
