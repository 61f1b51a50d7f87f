--------------------------- MODULE P2pProxyServer ---------------------------
(***************************************************************************)
(* The host's side of a P2P network: p2p/p2p_proxy_server.cpp.  The accept *)
(* thread makes a session for every connection, a receive thread serves    *)
(* each session, the LDN receive thread brings tokens and departures from  *)
(* the master server, and an IPC thread starts and stops the server.  A    *)
(* critical section of m_mutex is one step; P2pProxySession::Disconnect,   *)
(* which tests and sets m_connected without it, is several.                *)
(*                                                                         *)
(* The session objects are freed by their owners, the unique_ptrs of       *)
(* m_sessions and m_zombie_sessions.  Freed memory keeps its contents      *)
(* here, and what uses it goes on: the other outcomes of a use after free  *)
(* or a double free (a crash, a heap that reuses the block) end the        *)
(* behaviour or are left out.  Behaviours also end for a session whose     *)
(* server has been deleted.  Times are free.                               *)
(***************************************************************************)
EXTENDS Integers, Sequences, FiniteSets, Subsequences

CONSTANTS
  Sessions,            \* the session objects of a behaviour
  Tokens,              \* the joiners the master server announces
  MaxPlayers,          \* MAX_PLAYERS, also the number of thread stacks
  MaxZombieSessions,
  MaxWaitingTokens,
  MaxClaims            \* bound on the ExternalProxy packets of a session

Stacks == 1..MaxPlayers
Slots == 1..MaxPlayers
NoStack == 0
None == "none"
Broadcast == "broadcast"      \* m_broadcast_address, and what means it
Host == "host"                \* the host's own virtual address
Unset == "unset"              \* address zero
\* The address the master server gave with a token.
VirtualIp(token) == token
Addresses == {VirtualIp(k) : k \in Tokens}

ASSUME P2pProxyServerAssumption ==
  /\ MaxPlayers \in Nat \ {0} /\ MaxZombieSessions \in Nat \ {0}
  /\ MaxWaitingTokens \in Nat \ {0} /\ MaxClaims \in Nat
  /\ None \notin Sessions
  /\ {None, Broadcast, Host, Unset} \cap Tokens = {}

VARIABLES
  m_running, m_sessions, m_session_count, m_zombie_sessions, m_waiting_tokens,
  session,             \* the session objects, and where their threads are
  used,                \* g_p2p_session_stack_used
  accept,              \* where the accept thread is
  server,              \* the life of the server, as its owner drives it
  ldn,                 \* what the LDN receive thread is doing
  issued,              \* tokens the master server has announced
  tokenUses,           \* history: sessions a token has admitted
  misrouted            \* history: a player got a packet he should not have

lists == <<m_sessions, m_session_count, m_zombie_sessions, m_waiting_tokens>>
vars == <<m_running, lists, session, used, accept, server, ldn,
          issued, tokenUses, misrouted>>

\* joined counts registrations, told the notices to the master server of its
\* end; swept: Stop took the session out of m_sessions.
Unborn == [pc |-> "unborn", connected |-> FALSE, authenticated |-> FALSE,
           virtual_ip |-> Unset, claim |-> None, stack |-> NoStack, on |-> NoStack,
           freed |-> FALSE, claims |-> 0, joined |-> 0, told |-> 0, swept |-> FALSE]

SessionPc == {"unborn", "recv", "auth", "authWait", "checked", "telling", "exiting",
              "done", "leaked"}
SessionObject ==
  [pc : SessionPc, connected : BOOLEAN, authenticated : BOOLEAN,
   virtual_ip : Addresses \cup {Unset}, claim : Tokens \cup {None},
   stack : Stacks \cup {NoStack}, on : Stacks \cup {NoStack}, freed : BOOLEAN,
   claims : 0..MaxClaims, joined : 0..MaxClaims, told : 0..MaxClaims, swept : BOOLEAN]
LdnState == [pc : {"idle", "token", "victims", "checked", "telling"},
             token : Tokens \cup {None}, victims : Seq(Sessions)]
IdleLdn == [pc |-> "idle", token |-> None, victims |-> <<>>]

TypeOK ==
  /\ m_running \in BOOLEAN
  /\ m_sessions \in [Slots -> Sessions \cup {None}]
  /\ m_session_count \in 0..MaxPlayers
  /\ m_zombie_sessions \in Seq(Sessions) /\ Len(m_zombie_sessions) <= MaxZombieSessions
  /\ m_waiting_tokens \in Seq(Tokens) /\ Len(m_waiting_tokens) <= MaxWaitingTokens
  /\ session \in [Sessions -> SessionObject]
  /\ used \in SUBSET Stacks
  /\ accept \in {"off", "reap", "admit", "ended"}
  /\ server \in {"off", "up", "wait", "reap", "down"}
  /\ ldn \in LdnState /\ Len(ldn.victims) <= MaxPlayers
  /\ issued \subseteq Tokens
  /\ tokenUses \in [Tokens -> Nat]
  /\ misrouted \in BOOLEAN

Init ==
  /\ m_running = FALSE
  /\ m_sessions = [i \in Slots |-> None] /\ m_session_count = 0
  /\ m_zombie_sessions = <<>> /\ m_waiting_tokens = <<>>
  /\ session = [s \in Sessions |-> Unborn] /\ used = {}
  /\ accept = "off" /\ server = "off" /\ ldn = IdleLdn
  /\ issued = {} /\ tokenUses = [k \in Tokens |-> 0] /\ misrouted = FALSE

-----------------------------------------------------------------------------
Alive == server # "down"               \* m_server may still be used
Goto(s, place) == session' = [session EXCEPT ![s].pc = place]
SlotsOf(s) == {i \in Slots : m_sessions[i] = s}
FreeSlots == {i \in Slots : m_sessions[i] = None}
Registered == {s \in Sessions : SlotsOf(s) # {}}
First(indices) == CHOOSE i \in indices : \A j \in indices : i <= j
\* The sessions in these slots, in the order of the slots.
InOrder(slots) == Subsequence(m_sessions, slots)

\* The zombie list is an array: what does not fit is leaked.
Queued(zombies, s) ==
  IF Len(zombies) < MaxZombieSessions THEN Append(zombies, s) ELSE zombies

-----------------------------------------------------------------------------
(***************************************************************************)
(* Start, and the host's address that StartP2pProxyServer then sets.  When *)
(* the port, the socket or the thread is refused, the server is deleted.   *)
(***************************************************************************)
Start ==
  /\ server = "off"
  /\ server' = "up" /\ m_running' = TRUE /\ accept' = "reap"
  /\ UNCHANGED <<lists, session, used, ldn, issued, tokenUses,
                 misrouted>>

(***************************************************************************)
(* ReapZombieSessions.  The list's unique_ptrs stay the owners of what is  *)
(* taken out of it: an entry whose thread is done is freed when its place  *)
(* is reused or reset (and again by the delete that was meant), one whose  *)
(* thread is not done is freed by the reset that puts it back.  The        *)
(* destructor gives the stack back.                                        *)
(***************************************************************************)
Zombies == {m_zombie_sessions[i] : i \in DOMAIN m_zombie_sessions}
ReleaseSessionStackSlot(ss) == used \ {session[s].stack : s \in ss}

\* Mutation: the list is never shortened.
ReapNothing ==
  UNCHANGED <<m_zombie_sessions, session, used>>

ReapZombieSessions ==
  /\ m_zombie_sessions' =
       Subsequence(m_zombie_sessions, {i \in DOMAIN m_zombie_sessions :
                                         session[m_zombie_sessions[i]].pc # "done"})
  /\ session' = [s \in Sessions |->
       IF s \in Zombies THEN [session[s] EXCEPT !.freed = TRUE, !.stack = NoStack]
                        ELSE session[s]]
  /\ used' = ReleaseSessionStackSlot(Zombies)

(***************************************************************************)
(* AcceptLoop: the test of m_running, the reaping, and what poll returns   *)
(* (a timeout, an error or a closed socket, or a connection) are one step, *)
(* the admission of the connection another.                                *)
(***************************************************************************)
\* The connections still to come: a bound.
Unmade == {s \in Sessions : session[s].pc = "unborn"}

AcceptReap ==
  /\ accept = "reap"
  /\ IF m_running
     THEN /\ ReapZombieSessions
          /\ accept' \in {"reap"} \cup {"admit" : s \in Unmade}
     ELSE accept' = "ended" /\ UNCHANGED <<m_zombie_sessions, session, used>>
  /\ UNCHANGED <<m_running, m_sessions, m_session_count, m_waiting_tokens,
                 server, ldn, issued, tokenUses, misrouted>>

(***************************************************************************)
(* P2pProxySession::Start takes a stack and runs the thread on it.  If     *)
(* there is none, or the thread is refused, nobody looks after the object. *)
(***************************************************************************)
FreeStacks == Stacks \ used

SessionStart(s) ==
  IF FreeStacks = {}
  THEN Goto(s, "leaked") /\ UNCHANGED used
  ELSE LET slot == First(FreeStacks)
       IN /\ used' = used \cup {slot}
          /\ \E ran \in BOOLEAN :
               session' = [session EXCEPT ![s].pc = IF ran THEN "recv" ELSE "leaked",
                 ![s].connected = TRUE, ![s].stack = slot,
                 ![s].on = IF ran THEN slot ELSE NoStack]

AcceptSession ==
  /\ accept = "admit" /\ accept' = "reap"
  /\ \/ m_session_count >= MaxPlayers /\ UNCHANGED <<session, used>>
     \/ /\ m_session_count < MaxPlayers
        /\ \E s \in Unmade : SessionStart(s)
  /\ UNCHANGED <<m_running, lists, server, ldn, issued, tokenUses,
                 misrouted>>

-----------------------------------------------------------------------------
(***************************************************************************)
(* Tokens: the LDN receive thread asks IsRunning before it adds one.       *)
(***************************************************************************)
HandleExternalProxyToken ==
  /\ ldn.pc = "idle" /\ Alive /\ m_running
  /\ \E k \in Tokens \ issued :
       /\ ldn' = [ldn EXCEPT !.pc = "token", !.token = k]
       /\ issued' = issued \cup {k}
  /\ UNCHANGED <<m_running, lists, session, used, accept, server,
                 tokenUses, misrouted>>

AddWaitingToken ==
  /\ ldn.pc = "token" /\ Alive
  /\ m_waiting_tokens' =
       Append(IF Len(m_waiting_tokens) >= MaxWaitingTokens THEN Tail(m_waiting_tokens)
                                                           ELSE m_waiting_tokens,
              ldn.token)
  /\ ldn' = IdleLdn
  /\ UNCHANGED <<m_running, m_sessions, m_session_count, m_zombie_sessions,
                 session, used, accept, server, issued, tokenUses,
                 misrouted>>

(***************************************************************************)
(* TryRegisterUser.  The address is read through a reference to the place  *)
(* the token was found at, after those behind it have moved up: the last   *)
(* one's is its own, any other's is the next one's.  A session that finds  *)
(* no slot is admitted all the same.                                       *)
(***************************************************************************)
Positions(token) == {i \in DOMAIN m_waiting_tokens : m_waiting_tokens[i] = token}

Without(i) == Subsequence(m_waiting_tokens, DOMAIN m_waiting_tokens \ {i})

\* Mutation: the token stays in the list.
RemainingAll(i) == m_waiting_tokens

Remaining(i) == Without(i)

AssignedIp(i) ==
  VirtualIp(m_waiting_tokens[IF i < Len(m_waiting_tokens) THEN i + 1 ELSE i])

Store(s) ==
  IF FreeSlots = {} THEN UNCHANGED <<m_sessions, m_session_count>>
  ELSE /\ m_sessions' = [m_sessions EXCEPT ![First(FreeSlots)] = s]
       /\ m_session_count' = m_session_count + 1

Register(s, i) ==
  /\ m_waiting_tokens' = Remaining(i)
  /\ Store(s)
  /\ session' = [session EXCEPT ![s].pc = "recv", ![s].authenticated = TRUE,
                   ![s].virtual_ip = AssignedIp(i), ![s].joined = @ + 1]
  /\ tokenUses' = [tokenUses EXCEPT ![session[s].claim] = @ + 1]

TryRegisterUser(s) ==
  /\ session[s].pc \in {"auth", "authWait"} /\ Alive
  /\ LET at == Positions(session[s].claim)
     IN IF at # {} THEN Register(s, First(at))
        ELSE /\ Goto(s, "authWait")
             /\ UNCHANGED <<m_waiting_tokens, m_sessions, m_session_count, tokenUses>>
  /\ UNCHANGED <<m_running, m_zombie_sessions, used, accept, server,
                 ldn, issued, misrouted>>

-----------------------------------------------------------------------------
(***************************************************************************)
(* A session's receive thread.  Disconnect(FALSE) tests m_connected, sets  *)
(* it, and tells the server.                                               *)
(***************************************************************************)
\* ExternalProxy arrives.
HandleExternalProxy(s) ==
  /\ session[s].pc = "recv" /\ session[s].connected /\ session[s].claims < MaxClaims
  /\ \E k \in Tokens :
       session' = [session EXCEPT ![s].pc = "auth", ![s].claim = k, ![s].claims = @ + 1]
  /\ UNCHANGED <<m_running, lists, used, accept, server, ldn, issued,
                 tokenUses, misrouted>>

\* Disconnect's test, reached from place p of the receive thread.
Disconnecting(s) == IF session[s].connected THEN "checked" ELSE "exiting"

\* recv fails or returns 0, a packet is invalid, the buffer is full.
ReceiveEnds(s) ==
  /\ session[s].pc = "recv"
  /\ Goto(s, Disconnecting(s))
  /\ UNCHANGED <<m_running, lists, used, accept, server, ldn, issued,
                 tokenUses, misrouted>>

AuthFails(s) ==
  /\ session[s].pc = "authWait"
  /\ Goto(s, Disconnecting(s))
  /\ UNCHANGED <<m_running, lists, used, accept, server, ldn, issued,
                 tokenUses, misrouted>>

Disconnect(s) ==
  /\ session[s].pc = "checked"
  /\ session' = [session EXCEPT ![s].pc = "telling", ![s].connected = FALSE]
  /\ UNCHANGED <<m_running, lists, used, accept, server, ldn, issued,
                 tokenUses, misrouted>>

(***************************************************************************)
(* OnSessionDisconnected: out of its slot, the master server told through  *)
(* NotifyMasterDisconnect, and into the zombie list in any case.           *)
(***************************************************************************)
\* Mutation: the session is told of, but its slot is kept.
RemoveKept(s) == UNCHANGED <<m_sessions, m_session_count>>

Remove(s) ==
  IF s \in Registered
  THEN /\ m_sessions' = [m_sessions EXCEPT ![First(SlotsOf(s))] = None]
       /\ m_session_count' = m_session_count - 1
  ELSE UNCHANGED <<m_sessions, m_session_count>>

NotifyMasterDisconnect(s) ==
  IF s \in Registered /\ session[s].authenticated /\ session[s].told < MaxClaims
  THEN session[s].told + 1 ELSE session[s].told

OnSessionDisconnected(s, pc) ==
  /\ Remove(s)
  /\ session' = [session EXCEPT ![s].told = NotifyMasterDisconnect(s), ![s].pc = pc]
  /\ m_zombie_sessions' = Queued(m_zombie_sessions, s)

SessionTells(s) ==
  /\ session[s].pc = "telling" /\ Alive
  /\ OnSessionDisconnected(s, "exiting")
  /\ UNCHANGED <<m_running, m_waiting_tokens, used, accept, server,
                 ldn, issued, tokenUses, misrouted>>

\* SessionRecvThreadEntry: m_thread_done.
ThreadDone(s) ==
  /\ session[s].pc = "exiting"
  /\ session' = [session EXCEPT ![s].pc = "done", ![s].on = NoStack]
  /\ UNCHANGED <<m_running, lists, used, accept, server, ldn, issued,
                 tokenUses, misrouted>>

-----------------------------------------------------------------------------
(***************************************************************************)
(* HandleExternalProxyStateChange: the address's tokens go, and the        *)
(* sessions that have it, found under m_mutex, are disconnected after it.  *)
(***************************************************************************)
HandleExternalProxyStateChange ==
  /\ ldn.pc = "idle" /\ Alive
  /\ \E ip \in Addresses :
       LET has == {i \in Slots : /\ m_sessions[i] # None
                                 /\ session[m_sessions[i]].virtual_ip = ip}
       IN /\ m_waiting_tokens' =
               Subsequence(m_waiting_tokens, {i \in DOMAIN m_waiting_tokens :
                                                VirtualIp(m_waiting_tokens[i]) # ip})
          /\ ldn' = IF has = {} THEN ldn
                    ELSE [ldn EXCEPT !.pc = "victims", !.victims = InOrder(has)]
          /\ \/ has # {} \/ m_waiting_tokens' # m_waiting_tokens
  /\ UNCHANGED <<m_running, m_sessions, m_session_count, m_zombie_sessions,
                 session, used, accept, server, issued, tokenUses,
                 misrouted>>

NextVictim == IF Len(ldn.victims) = 1 THEN IdleLdn
              ELSE [ldn EXCEPT !.pc = "victims", !.victims = Tail(@)]

VictimChecked ==
  /\ ldn.pc = "victims"
  /\ ldn' = IF session[Head(ldn.victims)].connected THEN [ldn EXCEPT !.pc = "checked"]
                                                    ELSE NextVictim
  /\ UNCHANGED <<m_running, lists, session, used, accept, server,
                 issued, tokenUses, misrouted>>

VictimCut ==
  /\ ldn.pc = "checked"
  /\ session' = [session EXCEPT ![Head(ldn.victims)].connected = FALSE]
  /\ ldn' = [ldn EXCEPT !.pc = "telling"]
  /\ UNCHANGED <<m_running, lists, used, accept, server, issued,
                 tokenUses, misrouted>>

VictimTold ==
  /\ ldn.pc = "telling" /\ Alive
  /\ LET s == Head(ldn.victims) IN OnSessionDisconnected(s, session[s].pc)
  /\ ldn' = NextVictim
  /\ UNCHANGED <<m_running, m_waiting_tokens, used, accept, server,
                 issued, tokenUses, misrouted>>

-----------------------------------------------------------------------------
(***************************************************************************)
(* Stop, from StopP2pProxyServer: under m_mutex the flag, the listening    *)
(* socket, the sessions of m_sessions and the tokens; then it waits for    *)
(* the accept thread, and until no zombie is left.                         *)
(***************************************************************************)

Players == InOrder({i \in Slots : m_sessions[i] # None})
Room == MaxZombieSessions - Len(m_zombie_sessions)
Kept == IF Len(Players) <= Room THEN Len(Players) ELSE Room
\* Those the zombie list has no room for are freed at once.
Overflow == {Players[i] : i \in Kept + 1..Len(Players)}

Swept == [s \in Sessions |->
  IF s \in Registered
  THEN [session[s] EXCEPT !.connected = FALSE, !.swept = TRUE,
          !.freed = @ \/ s \in Overflow,
          !.stack = IF s \in Overflow THEN NoStack ELSE @]
  ELSE session[s]]

Stop ==
  /\ server = "up" /\ server' = "wait" /\ m_running' = FALSE
  /\ m_zombie_sessions' = m_zombie_sessions \o SubSeq(Players, 1, Kept)
  /\ session' = Swept /\ used' = ReleaseSessionStackSlot(Overflow)
  /\ m_sessions' = [i \in Slots |-> None] /\ m_session_count' = 0
  /\ m_waiting_tokens' = <<>>
  /\ UNCHANGED <<accept, ldn, issued, tokenUses, misrouted>>

StopAcceptEnded ==
  /\ server = "wait" /\ accept = "ended"
  /\ server' = "reap"
  /\ UNCHANGED <<m_running, lists, session, used, accept, ldn, issued,
                 tokenUses, misrouted>>

\* The owner deletes the server when Stop has returned.
StopReap ==
  /\ server = "reap"
  /\ ReapZombieSessions
  /\ server' = IF m_zombie_sessions' = <<>> THEN "down" ELSE "reap"
  /\ UNCHANGED <<m_running, m_sessions, m_session_count, m_waiting_tokens,
                 accept, ldn, issued, tokenUses, misrouted>>

-----------------------------------------------------------------------------
(***************************************************************************)
(* Routing.  Source zero becomes the sender's address; any other source    *)
(* than that is refused.                                                   *)
(***************************************************************************)
\* Mutation: the source is not looked at.
SourceUnchecked(sender, source) == {IF source = Unset THEN sender ELSE source}

\* The source the packet leaves with, if it does.
Source(sender, source) == IF source \in {Unset, sender} THEN {sender} ELSE {}

\* Everybody, the sender too, or the first player with the address.
Targets(dest) ==
  LET authenticated == {i \in Slots : /\ m_sessions[i] # None
                                      /\ session[m_sessions[i]].authenticated}
      named == {i \in authenticated : session[m_sessions[i]].virtual_ip = dest}
  IN {m_sessions[i] : i \in IF dest = Broadcast THEN authenticated
                            ELSE IF named = {} THEN {} ELSE {First(named)}}

RouteMessage(sender, source, dest) ==
  misrouted' = (misrouted \/ \E src \in Source(sender, source) : \E s \in Targets(dest) :
                  \/ src # sender \/ ~session[s].authenticated
                  \/ dest # Broadcast /\ session[s].virtual_ip # dest)

\* ProxyData, and what ProxyConnect, ProxyConnectReply and ProxyDisconnect
\* have in common with it.  Packets of a session that is not authenticated
\* are dropped.
HandleProxyData(s) ==
  /\ session[s].pc = "recv" /\ session[s].connected /\ session[s].authenticated /\ Alive
  /\ \E source \in Addresses \cup {Unset}, dest \in Addresses \cup {Broadcast, Host} :
       RouteMessage(session[s].virtual_ip, source, dest)
  /\ UNCHANGED <<m_running, lists, session, used, accept, server, ldn,
                 issued, tokenUses>>

BroadcastFromHost ==
  /\ server \in {"up", "wait", "reap"}
  /\ \E dest \in Addresses \cup {Broadcast} : RouteMessage(Host, Unset, dest)
  /\ UNCHANGED <<m_running, lists, session, used, accept, server, ldn,
                 issued, tokenUses>>

-----------------------------------------------------------------------------
SessionNext(s) ==
  \/ TryRegisterUser(s) \/ HandleExternalProxy(s) \/ ReceiveEnds(s) \/ AuthFails(s)
  \/ Disconnect(s) \/ SessionTells(s) \/ ThreadDone(s) \/ HandleProxyData(s)

Next ==
  \/ Start \/ AcceptReap \/ AcceptSession
  \/ HandleExternalProxyToken \/ AddWaitingToken
  \/ HandleExternalProxyStateChange \/ VictimChecked \/ VictimCut \/ VictimTold
  \/ Stop \/ StopAcceptEnded \/ StopReap \/ BroadcastFromHost
  \/ \E s \in Sessions : SessionNext(s)

\* The threads run; a socket that has been closed ends its receive loop, and
\* the wait for a token ends.  Nobody has to send anything.
Fairness ==
  /\ WF_vars(AcceptReap) /\ WF_vars(AcceptSession)
  /\ WF_vars(AddWaitingToken)
  /\ WF_vars(VictimChecked) /\ WF_vars(VictimCut) /\ WF_vars(VictimTold)
  /\ WF_vars(StopAcceptEnded) /\ WF_vars(StopReap)
  /\ \A s \in Sessions :
       /\ WF_vars(TryRegisterUser(s)) /\ WF_vars(AuthFails(s))
       /\ WF_vars(~session[s].connected /\ ReceiveEnds(s))
       /\ WF_vars(Disconnect(s)) /\ WF_vars(SessionTells(s)) /\ WF_vars(ThreadDone(s))

Spec == Init /\ [][Next]_vars /\ Fairness

-----------------------------------------------------------------------------
(* m_session_count, which the accept thread admits by and Configure is     *)
(* decided by, is the number of slots that are taken, whatever registers,  *)
(* leaves, is sent away and stopped on four kinds of threads.              *)
SessionsCounted == m_session_count = Cardinality({i \in Slots : m_sessions[i] # None})

TellerOf(s) ==
  \/ session[s].pc \in {"checked", "telling"}
  \/ /\ ldn.pc \in {"checked", "telling"} /\ Head(ldn.victims) = s

(* A player is in the list until he has left, and then the master server   *)
(* has been told, once (or Stop has swept him away): none is admitted      *)
(* without a slot, since a session with a thread has a stack and there are *)
(* as many stacks as slots, and no slot is left with a session nobody will *)
(* remove.  It holds where a session registers once (MaxClaims = 1), as    *)
(* this program's clients do: one that registers twice takes two slots,    *)
(* and another may then be admitted without one.                           *)
PlayerAccounted ==
  \A s \in Sessions : session[s].joined = 1 =>
    \/ /\ s \in Registered /\ session[s].told = 0
       /\ session[s].connected \/ TellerOf(s)
    \/ /\ s \notin Registered /\ ~session[s].connected
       /\ session[s].told = 1 \/ session[s].swept

(* A token admits one session, however many threads present it.            *)
TokenAdmitsOnce == \A k \in Tokens : tokenUses[k] <= 1

(* A player only gets packets that carry their sender's address, and only  *)
(* those for all or for him, once he is authenticated.                     *)
RoutedHonestly == ~misrouted

(* Stop comes to its end: the accept thread sees the flag, and every       *)
(* session it waits for is done.                                           *)
StopReturns == server = "wait" ~> server = "down"

(* "We match tokens to validate the connection and assign the virtual IP": *)
(* no two players have the same address.                                   *)
VirtualIpsUnique ==
  \A s, t \in Registered :
    s # t => session[s].virtual_ip # session[t].virtual_ip

(* "joins the recv thread and frees the object once m_thread_done flips":  *)
(* no two receive threads run on one stack.                                *)
StacksExclusive ==
  \A s, t \in Sessions :
    s # t /\ session[s].on # NoStack => session[s].on # session[t].on
=============================================================================
