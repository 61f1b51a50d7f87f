-------------------------- MODULE LdnServiceProofs --------------------------
(***************************************************************************)
(* The properties of LdnService, for any set of commands and packets and   *)
(* any number of packets under way: each has an inductive invariant of its *)
(* own, and the second and third share what is known of the call under     *)
(* way.  First TimerSparesCreate: the callback is entered only with the    *)
(* timer active, so the invariant to carry is that a creating command past *)
(* its first transition has found the timer's mutex free and left the      *)
(* timer inactive.  Commands that arm the timer run on the same IPC        *)
(* thread: they cannot be under way at the same time, which is what the    *)
(* second conjunct says.                                                   *)
(***************************************************************************)
EXTENDS LdnService, SequenceTheorems, TLAPS

Creating == call \in CreateCall /\ pc # "enter"

IInv ==
  /\ Creating => ~timer /\ ~TimerHeld
  /\ pc = "idle" => call = "none"

(***************************************************************************)
(* The second invariant, for what is left of a session after Finalize.  A  *)
(* Connected can reach the handler only through a connection that the      *)
(* service still counts as its own: whenever m_server_connected is FALSE   *)
(* no answer is owed and none is under way.  Requests are sent only over   *)
(* such a connection, because a receive thread that is recording a loss    *)
(* cannot bring a new connection to Ready at the same time.                *)
(***************************************************************************)
OpenPc == {"dial", "dialed", "handshake", "opened"}
AskPc == {"send", "check", "clearing", "wait", "last", "joined"}
LossPc == {"loss1", "loss2", "loss3", "loss4"}

Joinless(q) == \A i \in DOMAIN q : q[i].kind # "Connected"
NoAnswerDue == asked = {} /\ (sock # "down" => Joinless(inbox))

Unanswered ==
  /\ inbox \in Seq(Message) /\ asked \subseteq {"latest", "older"}
  /\ sock # "up" => asked = {}
  /\ ~m_server_connected => NoAnswerDue
  /\ client \notin {"Ready", "Disconnecting"} => NoAnswerDue
LossHolds ==
  recvPc \in LossPc => \/ client \in {"Backoff", "Disconnected"}
                       \/ client = "Connected" /\ pc \in {"dialed", "handshake"}
AskOverOwn ==
  pc \in AskPc \cup {"enter"} /\ ~m_server_connected =>
    \/ client = "Disconnected"
    \/ client = "Backoff" /\ recvPc # "update"
CutIsCut == pc = "cut" => ~registered /\ ~m_server_connected
CommandHasSession == pc \notin {"idle", "cut"} => ldn # "None"

LinkInv == Unanswered /\ LossHolds /\ AskOverOwn
SessionInv == CutIsCut /\ CommandHasSession /\ FinalizeIsFinal

(***************************************************************************)
(* The third, for the overlay: where each command is, as long as the       *)
(* receive thread has not interfered, in the two states.                   *)
(***************************************************************************)
CallAt ==
  /\ pc = "cut" => call \in {"Finalize", "CloseAccessPoint"}
  /\ pc \in OpenPc => call \in OpenCall
  /\ pc \in AskPc \cup {"enter"} => call \in CreateCall \cup ConnectCall
Shows ==
  /\ pc \in OpenPc => (ldn = LdnTarget(call) /\ shown = "Initialized")
  /\ pc \in AskPc => (ldn = LdnTarget(Op(call)) /\ shown \in LdnSources(Op(call)))
  /\ pc \notin OpenPc \cup AskPc => shown = ldn
OverlayInv ==
  /\ ldn \in CommState
  /\ recvPc \notin LossPc /\ ~raced => Shows

(***************************************************************************)
(* The fourth, for the wait: an answer to the request under way leaves its *)
(* trace in m_network_connected until the command looks at it.             *)
(***************************************************************************)
AnswerInv ==
  /\ retried => pc \in AskPc
  /\ answered /\ pc \in AskPc /\ (pc = "send" => retried) => m_network_connected

(***************************************************************************)
(* A step that leaves the timer, its mutex and the IPC thread alone.       *)
(***************************************************************************)
Aside == UNCHANGED <<timer, recvPc, call, pc>>

(***************************************************************************)
(* A step of a command that has left "enter" behind or is no creating one, *)
(* or that returns; the timer and the receive thread stay as they are.     *)
(***************************************************************************)
Onward ==
  /\ UNCHANGED <<timer, recvPc>>
  /\ \/ call' = call /\ pc # "enter" /\ pc # "idle" /\ pc' # "idle"
     \/ call' = "none"
     \/ call' \notin CreateCall /\ pc' # "idle"

(***************************************************************************)
(* Neither kind of step can break the invariant: what it forbids takes an  *)
(* arming of the timer or an entry into a creating command.                *)
(***************************************************************************)
LEMMA AsideKeeps == IInv /\ Aside => IInv'
  BY DEF IInv, Aside, Creating, TimerHeld, CreateCall

\* Nor can a step of the second kind.
LEMMA OnwardKeeps == IInv /\ Onward => IInv'
  BY DEF IInv, Onward, Creating, TimerHeld, CreateCall

(***************************************************************************)
(* The commands as they begin: those of one step run with no other command *)
(* under way, and a creating one stops at "enter".                         *)
(***************************************************************************)
LEMMA BeginsKeep == IInv /\ Begins => IInv'
<1> SUFFICES ASSUME IInv, Begins PROVE IInv'
  OBVIOUS
<1>1. CASE Initialize
  <2>1. Aside BY <1>1 DEF Initialize, ipcVars, recvVars, Aside
  <2> QED BY <2>1, AsideKeeps
<1>2. CASE CutServer
  <2>1. Onward
    BY <1>2 DEF CutServer, Begin, recvVars, Onward, CreateCall
  <2> QED BY <2>1, OnwardKeeps
<1>3. CASE DestroyNetwork
  BY <1>3 DEF DestroyNetwork, Idle, ipcVars, recvVars, IInv, Creating,
              TimerHeld, CreateCall
<1>4. CASE CloseStation
  <2>1. Aside BY <1>4 DEF CloseStation, ipcVars, recvVars, Aside
  <2> QED BY <2>1, AsideKeeps
<1>5. CASE Disconnect
  BY <1>5 DEF Disconnect, Idle, ipcVars, recvVars, IInv, Creating,
              TimerHeld, CreateCall
<1>6. CASE SendSetting
  <2>1. Aside BY <1>6 DEF SendSetting, ipcVars, recvVars, Aside
  <2> QED BY <2>1, AsideKeeps
<1>7. CASE OpenBegin
  <2>1. Onward
    BY <1>7 DEF OpenBegin, OpenCall, Begin, recvVars, Onward, CreateCall
  <2> QED BY <2>1, OnwardKeeps
<1>8. CASE JoinBegin
  BY <1>8 DEF JoinBegin, Begin, recvVars, IInv, Creating, TimerHeld
<1>9. CASE ScanBegin
  <2>1. Aside \/ Onward
    BY <1>9 DEF ScanBegin, Begin, ipcVars, recvVars, Aside, Onward, CreateCall
  <2> QED BY <2>1, AsideKeeps, OnwardKeeps
<1>10. CASE RejectBegin
  <2>1. Aside \/ Onward
    BY <1>10 DEF RejectBegin, Begin, ipcVars, recvVars, Aside, Onward,
                 CreateCall
  <2> QED BY <2>1, AsideKeeps, OnwardKeeps
<1> QED
  BY <1>1, <1>2, <1>3, <1>4, <1>5, <1>6, <1>7, <1>8, <1>9, <1>10 DEF Begins

(***************************************************************************)
(* The further steps of the commands.  JoinEnter is where the timer is     *)
(* stopped; the others go on or return.                                    *)
(***************************************************************************)
LEMMA ContinuesKeep == IInv /\ Continues => IInv'
<1> SUFFICES ASSUME IInv, Continues PROVE IInv'
  OBVIOUS
<1>1. CASE Finalize \/ CloseAccessPoint
  <2>1. Onward
    BY <1>1 DEF Finalize, CloseAccessPoint, Return, recvVars, Onward
  <2> QED BY <2>1, OnwardKeeps
<1>2. CASE OpenAlreadyConnected \/ OpenDropsDead \/ OpenDone
  <2>1. Aside \/ Onward
    BY <1>2 DEF OpenAlreadyConnected, OpenDropsDead, OpenDone, Return, ipcVars,
                recvVars, Aside, Onward
  <2> QED BY <2>1, AsideKeeps, OnwardKeeps
<1>3. CASE OpenDials \/ OpenChecksSocket \/ OpenWaits
  <2>1. Onward
    BY <1>3 DEF OpenDials, OpenChecksSocket, OpenWaits, OpenFails, At, Goto,
                Return, recvVars, Onward
  <2> QED BY <2>1, OnwardKeeps
<1>4. CASE JoinEnter
  <2>1. CASE call \in CreateCall /\ DisableTimeout
    BY <1>4, <2>1 DEF JoinEnter, DisableTimeout, TimerHeld, Goto, Return,
                      recvVars, IInv, Creating, CreateCall
  <2>2. CASE call \in ConnectCall /\ UNCHANGED timer
    BY <1>4, <2>2 DEF JoinEnter, TimerHeld, Goto, Return, recvVars, IInv,
                      Creating, CreateCall, ConnectCall
  <2> QED BY <1>4, <2>1, <2>2 DEF JoinEnter
<1>5. CASE JoinSend
  <2>1. Onward
    BY <1>5 DEF JoinSend, JoinFails, At, Goto, Return, recvVars, Onward
  <2> QED BY <2>1, OnwardKeeps
<1>6. CASE WaitCheck \/ WaitClear
  <2>1. Onward
    BY <1>6 DEF WaitCheck, WaitClear, At, Goto, recvVars, Onward
  <2> QED BY <2>1, OnwardKeeps
<1>7. CASE WaitWakes
  <2>1. Onward
    BY <1>7 DEF WaitWakes, At, Goto, recvVars, Onward
  <2> QED BY <2>1, OnwardKeeps
<1>8. CASE WaitLast
  <2>1. Onward
    BY <1>8 DEF WaitLast, JoinFails, At, Goto, Return, recvVars, Onward
  <2> QED BY <2>1, OnwardKeeps
<1>9. CASE JoinDone
  BY <1>9 DEF JoinDone, At, Return, DisableTimeout, TimerHeld, recvVars, IInv,
              Creating, CreateCall
<1>10. CASE ScanEnds
  BY <1>10 DEF ScanEnds, Return, RefreshTimeout, TimerHeld, recvVars, IInv,
               Creating, CreateCall
<1>11. CASE RejectEnds
  <2>1. Onward BY <1>11 DEF RejectEnds, Return, recvVars, Onward
  <2> QED BY <2>1, OnwardKeeps
<1> QED
  BY <1>1, <1>2, <1>3, <1>4, <1>5, <1>6, <1>7, <1>8, <1>9, <1>10, <1>11
     DEF Continues

(***************************************************************************)
(* The receive thread enters the callback only from CheckTimeout with the  *)
(* timer active, and then switches it off.                                 *)
(***************************************************************************)
LEMMA ReceiveKeeps == IInv /\ ReceiveThread => IInv'
<1> SUFFICES ASSUME IInv, ReceiveThread PROVE IInv'
  OBVIOUS
<1> DEFINE NoCallback == /\ UNCHANGED <<timer, call, pc>>
                         /\ recvPc' # "callback"
<1>1. ASSUME NoCallback PROVE IInv'
  BY <1>1 DEF IInv, Creating, TimerHeld
<1>2. CASE RecvSample
  BY <1>1, <1>2 DEF RecvSample, ipcVars
<1>3. CASE LossFlagged \/ LossRecorded \/ LossTransition \/ LossShown
  BY <1>1, <1>3 DEF LossFlagged, LossRecorded, LossTransition, LossShown,
                    RecvGoto, ipcVars
<1>4. CASE RecvUpdate
  <2>1. UNCHANGED <<timer, call, pc>> BY <1>4 DEF RecvUpdate, ipcVars
  <2>2. recvPc' # "callback" BY <1>4 DEF RecvUpdate, RecvGoto
  <2> QED BY <1>1, <2>1, <2>2
<1>5. CASE RecvPacket
  <2>1. Aside BY <1>5 DEF RecvPacket, ipcVars, recvVars, Aside
  <2> QED BY <2>1, AsideKeeps
<1>6. CASE RecvDrained
  BY <1>1, <1>6 DEF RecvDrained, RecvGoto, ipcVars
<1>7. CASE RecvCheckTimeout
  <2>1. UNCHANGED <<call, pc>> BY <1>7 DEF RecvCheckTimeout, ipcVars
  <2>2. CASE RecvGoto("top") /\ UNCHANGED timer
    BY <1>1, <2>1, <2>2 DEF RecvGoto
  <2>3. CASE timer /\ timer' = FALSE
    BY <2>1, <2>3 DEF IInv, Creating
  <2> QED BY <1>7, <2>2, <2>3 DEF RecvCheckTimeout
<1>8. CASE OnInactivityTimeout
  BY <1>1, <1>8 DEF OnInactivityTimeout, RecvGoto, ipcVars
<1> QED
  BY <1>2, <1>3, <1>4, <1>5, <1>6, <1>7, <1>8 DEF ReceiveThread

(***************************************************************************)
(* The P2P dial, the server and the network touch none of it.              *)
(***************************************************************************)
LEMMA EnvironmentKeeps == IInv /\ (P2pDialFails \/ Server \/ LinkLost) => IInv'
<1>1. P2pDialFails \/ Server \/ LinkLost => Aside
  BY DEF P2pDialFails, Server, LinkLost, ipcVars, recvVars, Aside
<1> QED BY <1>1, AsideKeeps

(***************************************************************************)
(* The inactivity timer never tears the master link down in the middle of  *)
(* CreateNetwork or CreateNetworkPrivate (OnInactivityTimeout,             *)
(* ldn_network_timeout.cpp), for every set of commands and packets.        *)
(***************************************************************************)
THEOREM HostIsSpared == Spec => []TimerSparesCreate
<1>1. Init => IInv
  BY DEF Init, IInv, Creating, CreateCall
<1>2. IInv /\ [Next]_vars => IInv'
  <2> SUFFICES ASSUME IInv, [Next]_vars PROVE IInv'
    OBVIOUS
  <2>1. CASE Next
    BY <2>1, BeginsKeep, ContinuesKeep, ReceiveKeeps, EnvironmentKeeps DEF Next
  <2>2. CASE UNCHANGED vars
    <3>1. Aside BY <2>2 DEF vars, ipcVars, recvVars, Aside
    <3> QED BY <3>1, AsideKeeps
  <2> QED BY <2>1, <2>2
<1>3. IInv => TimerSparesCreate
  BY DEF IInv, Creating, TimerSparesCreate
<1> QED BY <1>1, <1>2, <1>3, PTL DEF Spec

-----------------------------------------------------------------------------
\* What the two tables say, entry by entry, where the steps below use them.
LEMMA ClientTable ==
  \A s : /\ IsConnected(s) => /\ ClientAfter(s, "ConnectionLost") = "Backoff"
                              /\ ClientAfter(s, "Disconnect") = "Disconnecting"
         /\ s = "Disconnecting" => /\ ClientAfter(s, "ConnectionLost") = "Disconnected"
                                   /\ ClientAfter(s, "Disconnect") = s
         /\ s \in {"Backoff", "Disconnected", "Error"} =>
              /\ ClientAfter(s, "ConnectionLost") = s
              /\ ClientAfter(s, "Disconnect") = "Disconnected"
BY DEF ClientAfter, IsValidTransition, Target, IsConnected

\* The same for the table the game sees.
LEMMA LdnTable ==
  /\ LdnTarget("Initialize") = "Initialized" /\ LdnSources("Initialize") = {"None"}
  /\ LdnTarget("Finalize") = "None" /\ LdnSources("Finalize") = CommState \ {"None"}
  /\ LdnTarget("OpenAccessPoint") = "AccessPoint" /\ LdnTarget("OpenStation") = "Station"
  /\ LdnSources("OpenAccessPoint") = {"Initialized"}
  /\ LdnSources("OpenStation") = {"Initialized"}
  /\ LdnTarget("CloseAccessPoint") = "Initialized"
  /\ LdnTarget("CloseStation") = "Initialized"
  /\ LdnSources("CloseAccessPoint") = {"AccessPoint", "AccessPointCreated"}
  /\ LdnSources("CloseStation") = {"Station", "StationConnected"}
  /\ LdnTarget("CreateNetwork") = "AccessPointCreated"
  /\ LdnTarget("Connect") = "StationConnected"
  /\ LdnSources("CreateNetwork") = {"AccessPoint"} /\ LdnSources("Connect") = {"Station"}
  /\ LdnTarget("DestroyNetwork") = "AccessPoint" /\ LdnTarget("Disconnect") = "Station"
  /\ LdnSources("DestroyNetwork") = {"AccessPointCreated"}
  /\ LdnSources("Disconnect") = {"StationConnected"}
BY DEF LdnTarget, LdnSources

\* What Deliver, the client and the handler do to the packets under way.
LEMMA JoinlessFacts ==
  /\ Joinless(<<>>) /\ <<>> \in Seq(Message)
  /\ \A q \in Seq(Message) : q # <<>> =>
       /\ Tail(q) \in Seq(Message) /\ Head(q) \in Message
       /\ Joinless(q) => Joinless(Tail(q)) /\ Head(q).kind # "Connected"
  /\ \A q \in Seq(Message), p \in Message :
       /\ Append(q, p) \in Seq(Message)
       /\ Joinless(q) /\ p.kind # "Connected" => Joinless(Append(q, p))
<1>1. Joinless(<<>>) /\ <<>> \in Seq(Message)
  BY DEF Joinless
<1>2. ASSUME NEW q \in Seq(Message), q # <<>>
      PROVE  /\ Tail(q) \in Seq(Message) /\ Head(q) \in Message
             /\ Joinless(q) => Joinless(Tail(q)) /\ Head(q).kind # "Connected"
  <2>1. /\ Tail(q) \in Seq(Message) /\ Head(q) \in Message /\ Head(q) = q[1]
        /\ 1 \in DOMAIN q
        /\ \A i \in DOMAIN Tail(q) : i + 1 \in DOMAIN q /\ Tail(q)[i] = q[i + 1]
    BY <1>2, HeadTailProperties
  <2>2. QED
    BY <2>1 DEF Joinless
<1>3. ASSUME NEW q \in Seq(Message), NEW p \in Message
      PROVE  /\ Append(q, p) \in Seq(Message)
             /\ Joinless(q) /\ p.kind # "Connected" => Joinless(Append(q, p))
  <2>1. /\ Append(q, p) \in Seq(Message)
        /\ \A i \in DOMAIN Append(q, p) :
             \/ i \in DOMAIN q /\ Append(q, p)[i] = q[i]
             \/ Append(q, p)[i] = p
    BY AppendProperties
  <2>2. QED
    BY <2>1 DEF Joinless
<1>4. QED
  BY <1>1, <1>2, <1>3

\* The request marks what is under way as older and changes no kind.
LEMMA Remarked ==
  ASSUME inbox \in Seq(Message)
  PROVE  [i \in DOMAIN inbox |-> [inbox[i] EXCEPT !.for = "older"]] \in Seq(Message)
<1>1. \A p \in Message : [p EXCEPT !.for = "older"] \in Message
  BY DEF Message
<1>2. /\ DOMAIN inbox = 1..Len(inbox) /\ Len(inbox) \in Nat
      /\ \A i \in DOMAIN inbox : inbox[i] \in Message
  OBVIOUS
<1>3. QED
  BY <1>1, <1>2

(***************************************************************************)
(* A step that leaves the connection alone, takes no command into a join   *)
(* or out of a dial, and does not move the receive thread to where the     *)
(* invariant asks more of it.                                              *)
(***************************************************************************)
LinkAside ==
  /\ UNCHANGED <<client, sock, inbox, asked, m_server_connected>>
  /\ pc' \in AskPc \cup {"enter"} => pc \in AskPc \cup {"enter"}
  /\ pc \in {"dialed", "handshake"} => pc' \in {"dialed", "handshake"}
  /\ recvPc' = recvPc \/ recvPc' \notin LossPc \cup {"update"}
     \/ (recvPc \in LossPc /\ recvPc' # "update")

\* Such a step keeps the invariant.
LEMMA LinkAsideKeeps == LinkInv /\ LinkAside => LinkInv'
BY DEF LinkInv, LinkAside, Unanswered, NoAnswerDue, LossHolds, AskOverOwn

(***************************************************************************)
(* A step that closes the client's connection.                             *)
(***************************************************************************)
LinkCut ==
  /\ ClientDisconnect
  /\ recvPc' = recvPc \/ recvPc' \notin LossPc \cup {"update"}

\* So does one that closes the connection: nothing is under way after it.
LEMMA LinkCutKeeps == LinkInv /\ LinkCut => LinkInv'
BY JoinlessFacts
DEF LinkInv, LinkCut, ClientDisconnect, Unanswered, NoAnswerDue, LossHolds, AskOverOwn

\* A send that fails, the rest as above.
LinkFail ==
  /\ SendFails /\ UNCHANGED <<inbox, asked, m_server_connected, recvPc>>
  /\ pc' \in AskPc \cup {"enter"} => pc \in AskPc \cup {"enter"}
  /\ pc \in {"dialed", "handshake"} => pc' \in {"dialed", "handshake"}

\* And one whose send fails: a loss that shows leaves nothing owed.
LEMMA LinkFailKeeps == LinkInv /\ LinkFail => LinkInv'
<1>1. SUFFICES ASSUME LinkInv, LinkFail PROVE LinkInv'
  OBVIOUS
<1>2. CASE UNCHANGED <<client, sock>>
  <2>1. LinkAside
    BY <1>1, <1>2 DEF LinkFail, LinkAside
  <2>2. QED
    BY <1>1, <2>1, LinkAsideKeeps
<1>3. CASE client = "Ready" /\ sock = "lost" /\ sock' = "down"
           /\ client' \in {"Backoff", "Ready"}
  BY <1>1, <1>3
  DEF LinkInv, LinkFail, Unanswered, NoAnswerDue, LossHolds, AskOverOwn
<1>4. ClientAfter("Ready", "ConnectionLost") = "Backoff"
  BY ClientTable DEF IsConnected
<1>5. QED
  BY <1>1, <1>2, <1>3, <1>4 DEF LinkFail, SendFails

\* DisconnectFromServer, by the game or by the inactivity timer.
LEMMA LinkDropKeeps ==
  ASSUME LinkInv, DisconnectFromServer,
         pc' \in AskPc \cup {"enter"} => pc \in AskPc \cup {"enter"},
         pc \in {"dialed", "handshake"} => pc' \in {"dialed", "handshake"},
         recvPc' = recvPc \/ recvPc' \notin LossPc \cup {"update"}
  PROVE  LinkInv'
<1>1. CASE m_server_connected
  <2>1. LinkCut
    BY <1>1 DEF LinkCut, DisconnectFromServer
  <2>2. QED
    BY <2>1, LinkCutKeeps
<1>2. CASE ~m_server_connected
  <2>1. UNCHANGED <<client, sock, inbox, asked>> /\ m_server_connected' = FALSE
    BY <1>2 DEF DisconnectFromServer, clientVars
  <2>2. QED
    BY <1>2, <2>1 DEF LinkInv, Unanswered, NoAnswerDue, LossHolds, AskOverOwn
<1>3. QED
  BY <1>1, <1>2

(***************************************************************************)
(* The commands as they begin.                                             *)
(***************************************************************************)
LEMMA BeginsLink == LinkInv /\ Begins => LinkInv'
<1>0. SUFFICES ASSUME LinkInv, Begins PROVE LinkInv'
  OBVIOUS
<1>1. CASE Initialize \/ DestroyNetwork \/ CloseStation \/ OpenBegin
  <2>1. LinkAside
    BY <1>1 DEF Initialize, DestroyNetwork, CloseStation, OpenBegin, Begin, Idle, AskPc,
       linkVars, clientVars, ipcVars, recvVars, LinkAside
  <2>2. QED
    BY <1>0, <2>1, LinkAsideKeeps
<1>2. CASE CutServer
  <2>1. /\ DisconnectFromServer /\ pc = "idle" /\ pc' = "cut" /\ UNCHANGED recvPc
    BY <1>2 DEF CutServer, Begin, Idle, recvVars
  <2>2. QED
    BY <1>0, <2>1, LinkDropKeeps DEF AskPc
<1>3. CASE Disconnect \/ SendSetting
  <2>1. LinkAside \/ LinkFail
    BY <1>3 DEF Disconnect, SendSetting, linkVars, ipcVars, recvVars, LinkAside, LinkFail
  <2>2. QED
    BY <1>0, <2>1, LinkAsideKeeps, LinkFailKeeps
<1>4. CASE JoinBegin
  BY <1>0, <1>4 DEF JoinBegin, Begin, Idle, IsServerConnected, linkVars, clientVars,
     recvVars, LinkInv, Unanswered, NoAnswerDue, LossHolds, AskOverOwn
<1>5. CASE ScanBegin \/ RejectBegin
  <2>1. LinkAside \/ LinkFail
    BY <1>5 DEF ScanBegin, RejectBegin, Begin, Idle, SendSucceeds, AskPc, linkVars,
       ipcVars, recvVars, LinkAside, LinkFail
  <2>2. QED
    BY <1>0, <2>1, LinkAsideKeeps, LinkFailKeeps
<1>6. QED
  BY <1>0, <1>1, <1>2, <1>3, <1>4, <1>5 DEF Begins

(***************************************************************************)
(* The further steps of the commands.                                      *)
(***************************************************************************)
LEMMA DialsLink == LinkInv /\ (OpenDials \/ OpenWaits) => LinkInv'
<1>0. SUFFICES ASSUME LinkInv, OpenDials \/ OpenWaits PROVE LinkInv'
  OBVIOUS
<1>1. UNCHANGED <<m_server_connected, recvPc>>
  BY <1>0 DEF OpenDials, OpenWaits, linkVars, recvVars
<1>2. CASE ClientDials /\ Goto("dialed")
  <2>1. NoAnswerDue /\ Joinless(inbox') /\ inbox' \in Seq(Message)
    BY <1>0, <1>2, JoinlessFacts DEF ClientDials, LinkInv, Unanswered
  <2>2. /\ asked' = {} /\ pc' = "dialed"
        /\ \/ client' = "Connected" /\ sock' = "up"
           \/ client' = "Backoff" /\ sock' = "down"
    BY <1>2, <2>1 DEF ClientDials, Goto, NoAnswerDue
  <2>3. QED
    BY <1>1, <2>1, <2>2
    DEF LinkInv, Unanswered, NoAnswerDue, LossHolds, AskOverOwn, AskPc
<1>3. CASE At("dial") /\ ClientRefuses /\ OpenFails
  <2>1. LinkAside
    BY <1>1, <1>3 DEF At, ClientRefuses, OpenFails, Return, LinkAside, AskPc
  <2>2. QED
    BY <1>0, <2>1, LinkAsideKeeps
<1>4. CASE At("handshake") /\ client = "Ready" /\ Goto("opened") /\ UNCHANGED clientVars
  BY <1>0, <1>1, <1>4
  DEF At, Goto, clientVars, LinkInv, Unanswered, NoAnswerDue, LossHolds, AskOverOwn, AskPc
<1>5. CASE ClientDisconnect
  <2>1. LinkCut
    BY <1>1, <1>5 DEF LinkCut
  <2>2. QED
    BY <1>0, <2>1, LinkCutKeeps
<1>6. QED
  BY <1>0, <1>2, <1>3, <1>4, <1>5 DEF OpenDials, OpenWaits

\* The request goes out over a connection the service counts as its own.
LEMMA JoinSendLink == LinkInv /\ JoinSend => LinkInv'
<1>0. SUFFICES ASSUME LinkInv, JoinSend PROVE LinkInv'
  OBVIOUS
<1>1. /\ pc = "send" /\ pc' \in {"check", "idle"}
      /\ UNCHANGED <<m_server_connected, recvPc>>
  BY <1>0 DEF JoinSend, At, Goto, JoinFails, Return, linkVars, recvVars
<1>2. CASE /\ SendSucceeds
           /\ \/ retried /\ asked' = asked \cup Asks /\ UNCHANGED inbox
              \/ /\ asked' = {IF r = "latest" THEN "older" ELSE r : r \in asked} \cup Asks
                 /\ inbox' = [i \in DOMAIN inbox |-> [inbox[i] EXCEPT !.for = "older"]]
  <2>1. client = "Ready" /\ UNCHANGED <<client, sock>>
    BY <1>2 DEF SendSucceeds
  <2>2. m_server_connected
    BY <1>0, <1>1, <2>1 DEF LinkInv, AskOverOwn, AskPc
  <2>3. inbox' \in Seq(Message) /\ asked' \subseteq {"latest", "older"}
    BY <1>0, <1>2, Remarked DEF LinkInv, Unanswered, Asks
  <2>4. sock # "up" => asked' = {}
    BY <1>0, <1>2 DEF Asks, LinkInv, Unanswered
  <2>5. QED
    BY <1>0, <1>1, <2>1, <2>2, <2>3, <2>4
    DEF LinkInv, Unanswered, LossHolds, AskOverOwn, AskPc
<1>3. CASE SendFails /\ UNCHANGED <<asked, inbox>>
  <2>1. LinkFail
    BY <1>1, <1>3 DEF LinkFail, AskPc
  <2>2. QED
    BY <1>0, <2>1, LinkFailKeeps
<1>4. QED
  BY <1>0, <1>2, <1>3 DEF JoinSend

\* All further steps.
LEMMA ContinuesLink == LinkInv /\ Continues => LinkInv'
<1>0. SUFFICES ASSUME LinkInv, Continues PROVE LinkInv'
  OBVIOUS
<1>1. CASE Finalize \/ CloseAccessPoint \/ OpenAlreadyConnected \/ JoinDone \/ ScanEnds
           \/ RejectEnds
  <2>1. LinkAside
    BY <1>1 DEF Finalize, CloseAccessPoint, OpenAlreadyConnected, JoinDone, ScanEnds,
       RejectEnds, At, Return, AskPc, linkVars, clientVars, recvVars, LinkAside
  <2>2. QED
    BY <1>0, <2>1, LinkAsideKeeps
<1>2. CASE JoinEnter \/ WaitCheck \/ WaitClear \/ WaitLast
  <2>1. LinkAside
    BY <1>2 DEF JoinEnter, WaitCheck, WaitClear, WaitLast, JoinFails, At, Goto, Return,
       AskPc, linkVars, clientVars, recvVars, LinkAside
  <2>2. QED
    BY <1>0, <2>1, LinkAsideKeeps
<1>3. CASE WaitWakes
  <2>1. pc = "wait" /\ UNCHANGED <<client, sock, inbox, asked, m_server_connected, recvPc>>
    BY <1>3 DEF WaitWakes, At, linkVars, clientVars, recvVars
  <2>2. LinkAside
    BY <2>1 DEF LinkAside, AskPc
  <2>3. QED
    BY <1>0, <2>2, LinkAsideKeeps
<1>4. CASE OpenDropsDead
  <2>1. LinkCut
    BY <1>4 DEF OpenDropsDead, recvVars, LinkCut
  <2>2. QED
    BY <1>0, <2>1, LinkCutKeeps
<1>5. CASE OpenDials \/ OpenWaits
  BY <1>0, <1>5, DialsLink
<1>6. CASE OpenChecksSocket
  <2>1. /\ pc = "dialed" /\ UNCHANGED <<client, sock, inbox, asked, m_server_connected, recvPc>>
        /\ \/ pc' = "handshake"
           \/ pc' = "idle" /\ client # "Connected"
    BY <1>6 DEF OpenChecksSocket, OpenFails, At, Goto, Return, IsConnected, linkVars,
       clientVars, recvVars
  <2>2. QED
    BY <1>0, <2>1 DEF LinkInv, Unanswered, NoAnswerDue, LossHolds, AskOverOwn, AskPc
<1>7. CASE OpenDone
  <2>1. /\ pc = "opened" /\ pc' = "idle" /\ m_server_connected' = TRUE
        /\ UNCHANGED <<client, sock, inbox, asked, recvPc>>
    BY <1>7 DEF OpenDone, At, Return, clientVars, recvVars
  <2>2. QED
    BY <1>0, <2>1 DEF LinkInv, Unanswered, NoAnswerDue, LossHolds, AskOverOwn, AskPc
<1>8. CASE JoinSend
  BY <1>0, <1>8, JoinSendLink
<1>9. QED
  BY <1>0, <1>1, <1>2, <1>3, <1>4, <1>5, <1>6, <1>7, <1>8 DEF Continues

(***************************************************************************)
(* The receive thread, the server and the network.                         *)
(***************************************************************************)
LEMMA UpdateLink == LinkInv /\ RecvUpdate => LinkInv'
<1>0. SUFFICES ASSUME LinkInv, RecvUpdate PROVE LinkInv'
  OBVIOUS
<1>1. /\ recvPc = "update" /\ recvPc' \in {"drain", "timeout"}
      /\ UNCHANGED <<m_server_connected, asked, pc>>
  BY <1>0 DEF RecvUpdate, RecvAt, RecvGoto, linkVars, ipcVars
<1>2. CASE UNCHANGED <<client, sock, inbox>>
  BY <1>0, <1>1, <1>2
  DEF LinkInv, Unanswered, NoAnswerDue, LossHolds, AskOverOwn, LossPc
<1>3. CASE /\ client \in {"Connected", "Handshaking"} /\ sock' \in {sock, "down"}
           /\ client' \notin {"Disconnected", "Disconnecting"} /\ UNCHANGED inbox
  <2>1. NoAnswerDue
    BY <1>0, <1>3 DEF LinkInv, Unanswered
  <2>2. NoAnswerDue'
    BY <1>1, <1>3, <2>1 DEF NoAnswerDue
  <2>3. LossHolds' /\ AskOverOwn'
    BY <1>0, <1>1, <1>3 DEF LinkInv, LossHolds, AskOverOwn, LossPc
  <2>4. QED
    BY <1>0, <1>3, <2>2, <2>3 DEF LinkInv, Unanswered, NoAnswerDue
<1>4. CASE client = "Backoff" /\ client' = "Connected" /\ sock' = "up" /\ inbox' = <<>>
  <2>1. NoAnswerDue' /\ inbox' \in Seq(Message)
    BY <1>0, <1>1, <1>4, JoinlessFacts DEF LinkInv, Unanswered, NoAnswerDue
  <2>2. LossHolds' /\ AskOverOwn'
    BY <1>0, <1>1, <1>4 DEF LinkInv, LossHolds, AskOverOwn, LossPc
  <2>3. QED
    BY <2>1, <2>2 DEF LinkInv, Unanswered, NoAnswerDue
<1>5. QED
  BY <1>0, <1>2, <1>3, <1>4 DEF RecvUpdate

\* Packets are taken from the front; the end of the drain may record a loss.
LEMMA PacketLink == LinkInv /\ (RecvPacket \/ RecvDrained) => LinkInv'
<1>0. SUFFICES ASSUME LinkInv, RecvPacket \/ RecvDrained PROVE LinkInv'
  OBVIOUS
<1>1. /\ recvPc = "drain" /\ recvPc' \in {"drain", "timeout"}
      /\ UNCHANGED <<m_server_connected, asked, pc>>
  BY <1>0 DEF RecvPacket, RecvDrained, RecvAt, RecvGoto, linkVars, ipcVars, recvVars
<1>2. CASE RecvPacket
  <2>1. /\ inbox # <<>> /\ inbox' = Tail(inbox) /\ UNCHANGED sock
        /\ client' \in {client, ClientAfter(client, "Disconnect")}
    BY <1>2 DEF RecvPacket
  <2>2. inbox' \in Seq(Message) /\ (NoAnswerDue => NoAnswerDue')
    BY <1>0, <1>1, <2>1, JoinlessFacts DEF LinkInv, Unanswered, NoAnswerDue
  <2>3. QED
    BY <1>0, <1>1, <2>1, <2>2, ClientTable
    DEF LinkInv, Unanswered, LossHolds, AskOverOwn, LossPc, IsConnected
<1>3. CASE RecvDrained
  <2>1. CASE /\ UNCHANGED <<client, inbox>> /\ sock' \in {sock, "down"}
             /\ sock' = "down" => sock = "lost" \/ sock = "down"
    BY <1>0, <1>1, <2>1 DEF LinkInv, Unanswered, NoAnswerDue, LossHolds, AskOverOwn, LossPc
  <2>2. CASE /\ sock # "up" /\ client' = ClientAfter(client, "ConnectionLost")
             /\ sock' = "down" /\ inbox' = <<>>
    <3>1. NoAnswerDue' /\ inbox' \in Seq(Message)
      BY <1>0, <1>1, <2>2, JoinlessFacts DEF LinkInv, Unanswered, NoAnswerDue
    <3>2. LossHolds' /\ AskOverOwn'
      BY <1>0, <1>1, <2>2, ClientTable DEF LinkInv, LossHolds, AskOverOwn, LossPc
    <3>3. QED
      BY <3>1, <3>2 DEF LinkInv, Unanswered, NoAnswerDue
  <2>3. QED
    BY <1>3, <2>1, <2>2 DEF RecvDrained
<1>4. QED
  BY <1>0, <1>2, <1>3

\* All steps of the receive thread.
LEMMA ReceiveLink == LinkInv /\ ReceiveThread => LinkInv'
<1>0. SUFFICES ASSUME LinkInv, ReceiveThread PROVE LinkInv'
  OBVIOUS
<1>1. CASE RecvSample
  <2>1. /\ UNCHANGED <<client, sock, inbox, asked, m_server_connected, pc>>
        /\ \/ recvPc' = "loss1" /\ client \in {"Backoff", "Disconnected"}
           \/ recvPc' = "update" /\ IsConnected(client)
           \/ recvPc' = "top"
    BY <1>1 DEF RecvSample, linkVars, clientVars, ipcVars
  <2>2. QED
    BY <1>0, <2>1
    DEF LinkInv, Unanswered, NoAnswerDue, LossHolds, AskOverOwn, LossPc, IsConnected
<1>2. CASE LossFlagged
  <2>1. /\ recvPc = "loss1" /\ recvPc' = "loss2" /\ m_server_connected' = FALSE
        /\ UNCHANGED <<client, sock, inbox, asked, pc>>
    BY <1>2 DEF LossFlagged, RecvAt, RecvGoto, clientVars, ipcVars
  <2>2. NoAnswerDue
    BY <1>0, <2>1 DEF LinkInv, Unanswered, LossHolds, LossPc
  <2>3. QED
    BY <1>0, <2>1, <2>2
    DEF LinkInv, Unanswered, NoAnswerDue, LossHolds, AskOverOwn, LossPc, AskPc
<1>3. CASE LossRecorded \/ LossTransition \/ LossShown \/ RecvCheckTimeout
  <2>1. LinkAside
    BY <1>3 DEF LossRecorded, LossTransition, LossShown, RecvCheckTimeout, RecvAt,
       RecvGoto, LossPc, linkVars, clientVars, ipcVars, LinkAside
  <2>2. QED
    BY <1>0, <2>1, LinkAsideKeeps
<1>4. CASE OnInactivityTimeout
  <2>1. DisconnectFromServer /\ UNCHANGED pc /\ recvPc' = "top"
    BY <1>4 DEF OnInactivityTimeout, RecvGoto, ipcVars
  <2>2. QED
    BY <1>0, <2>1, LinkDropKeeps DEF LossPc
<1>5. QED
  BY <1>0, <1>1, <1>2, <1>3, <1>4, UpdateLink, PacketLink DEF ReceiveThread

\* The server adds a Connected only while an answer is owed.
LEMMA EnvironmentLink == LinkInv /\ (P2pDialFails \/ Server \/ LinkLost) => LinkInv'
<1>0. SUFFICES ASSUME LinkInv, P2pDialFails \/ Server \/ LinkLost PROVE LinkInv'
  OBVIOUS
<1>1. UNCHANGED <<client, m_server_connected, pc, recvPc>>
  BY <1>0 DEF P2pDialFails, Server, LinkLost, linkVars, clientVars, ipcVars, recvVars
<1>2. LossHolds' /\ AskOverOwn'
  BY <1>0, <1>1 DEF LinkInv, LossHolds, AskOverOwn
<1>3. CASE P2pDialFails
  BY <1>0, <1>1, <1>2, <1>3 DEF P2pDialFails, clientVars, LinkInv, Unanswered, NoAnswerDue
<1>4. CASE LinkLost
  BY <1>0, <1>1, <1>2, <1>4 DEF LinkLost, LinkInv, Unanswered, NoAnswerDue
<1>5. CASE Server
  <2>1. PICK p \in Message : /\ inbox' = Append(inbox, p) /\ sock = "up" /\ UNCHANGED sock
                             /\ asked' \subseteq asked
                             /\ p.kind = "Connected" => asked # {}
    <3>1. \A k \in PacketKind, r \in {"latest", "older"} :
            [kind |-> k, for |-> r] \in Message /\ [kind |-> k, for |-> r].kind = k
      BY DEF Message
    <3>2. CASE ServerAnswers
      <4>1. PICK r \in asked : /\ Deliver("Connected", r) \/ Deliver("NetworkError", "older")
                               /\ asked' = asked \ {r}
        BY <3>2 DEF ServerAnswers
      <4>2. r \in {"latest", "older"} /\ "Connected" \in PacketKind /\ "NetworkError" \in PacketKind
        BY <1>0, <4>1 DEF LinkInv, Unanswered, PacketKind
      <4>3. QED
        BY <1>5, <3>1, <4>1, <4>2 DEF Server, Deliver
    <3>3. CASE ServerPushes
      BY <1>5, <3>1, <3>3 DEF Server, ServerPushes, Deliver
    <3>4. QED
      BY <1>5, <3>2, <3>3 DEF Server
  <2>2. inbox' \in Seq(Message) /\ (NoAnswerDue => NoAnswerDue')
    BY <1>0, <2>1, JoinlessFacts DEF LinkInv, Unanswered, NoAnswerDue
  <2>3. QED
    BY <1>0, <1>1, <1>2, <2>1, <2>2 DEF LinkInv, Unanswered
<1>6. QED
  BY <1>0, <1>3, <1>4, <1>5

\* Every step keeps the connection's invariant.
LEMMA LinkStep == LinkInv /\ [Next]_vars => LinkInv'
<1>1. LinkInv /\ UNCHANGED vars => LinkInv'
  <2>1. UNCHANGED vars => LinkAside
    BY DEF vars, linkVars, clientVars, ipcVars, recvVars, LinkAside
  <2>2. QED
    BY <2>1, LinkAsideKeeps
<1>2. QED
  BY <1>1, BeginsLink, ContinuesLink, ReceiveLink, EnvironmentLink DEF Next

\* It holds at first.
LEMMA InitLink == Init => LinkInv
BY JoinlessFacts
DEF Init, LinkInv, Unanswered, NoAnswerDue, LossHolds, AskOverOwn, AskPc, LossPc

-----------------------------------------------------------------------------
(***************************************************************************)
(* A step that takes nothing up: it sets none of the three flags, leaves   *)
(* the LDN state or moves it between states of a session, and begins no    *)
(* command.                                                                *)
(***************************************************************************)
Waning ==
  /\ registered' => registered
  /\ m_server_connected' => m_server_connected
  /\ m_network_connected' => m_network_connected
  /\ ldn' = ldn \/ (ldn # "None" /\ ldn' # "None")
  /\ pc' = pc \/ pc' = "idle" \/ (pc \notin {"idle", "cut"} /\ pc' # "cut")

\* Such a step keeps what is left of a session.
LEMMA WaningKeeps == SessionInv /\ Waning => SessionInv'
BY DEF SessionInv, Waning, CutIsCut, CommandHasSession, FinalizeIsFinal

(***************************************************************************)
(* No transition but Finalize leads to "None".                             *)
(***************************************************************************)
LEMMA OnlyFinalizeEnds ==
  \A s : \A op \in {"CloseAccessPoint", "CloseStation", "DestroyNetwork", "Disconnect"} :
    LdnAfter(s, op) = s \/ (s # "None" /\ LdnAfter(s, op) # "None")
BY LdnTable DEF LdnAfter

\* Commands that need a session are refused without one.
LEMMA BeginsSession == SessionInv /\ Begins => SessionInv'
<1>0. SUFFICES ASSUME SessionInv, Begins PROVE SessionInv'
  OBVIOUS
<1>1. CASE Initialize
  BY <1>0, <1>1, LdnTable DEF Initialize, Idle, linkVars, ipcVars, SessionInv, CutIsCut,
     CommandHasSession, FinalizeIsFinal
<1>2. CASE CutServer
  BY <1>0, <1>2 DEF CutServer, Begin, DisconnectFromServer, netVars, SessionInv, CutIsCut,
     CommandHasSession, FinalizeIsFinal
<1>3. CASE DestroyNetwork \/ CloseStation \/ Disconnect \/ SendSetting
  <2>1. Waning
    BY <1>3, LdnTable DEF DestroyNetwork, CloseStation, Disconnect, SendSetting, netVars,
       linkVars, ipcVars, Waning
  <2>2. QED
    BY <1>0, <2>1, WaningKeeps
<1>4. CASE OpenBegin
  BY <1>0, <1>4, LdnTable DEF OpenBegin, OpenCall, Begin, linkVars, SessionInv, CutIsCut,
     CommandHasSession, FinalizeIsFinal
<1>5. CASE JoinBegin \/ ScanBegin \/ RejectBegin
  <2>1. /\ UNCHANGED <<ldn, registered, m_server_connected, m_network_connected>>
        /\ m_server_connected \/ m_network_connected
        /\ pc' = pc \/ pc' \in {"enter", "scanning", "rejecting"}
    BY <1>5 DEF JoinBegin, ScanBegin, RejectBegin, IsServerConnected, Begin, netVars,
       linkVars, ipcVars
  <2>2. QED
    BY <1>0, <2>1 DEF SessionInv, CutIsCut, CommandHasSession, FinalizeIsFinal
<1>6. QED
  BY <1>0, <1>1, <1>2, <1>3, <1>4, <1>5 DEF Begins

\* OpenDone and JoinDone set flags, but only within a session.
LEMMA ContinuesSession == SessionInv /\ CallAt /\ Continues => SessionInv'
<1>0. SUFFICES ASSUME SessionInv, CallAt, Continues PROVE SessionInv'
  OBVIOUS
<1>1. CASE Finalize
  BY <1>0, <1>1 DEF Finalize, At, Return, linkVars, SessionInv, CutIsCut,
     CommandHasSession, FinalizeIsFinal
<1>2. CASE CloseAccessPoint
  <2>1. Waning
    BY <1>2, LdnTable DEF CloseAccessPoint, Return, netVars, linkVars, Waning
  <2>2. QED
    BY <1>0, <2>1, WaningKeeps
<1>3. CASE OpenAlreadyConnected \/ OpenDropsDead \/ WaitCheck \/ WaitClear \/ WaitWakes
           \/ ScanEnds \/ RejectEnds
  <2>1. UNCHANGED <<ldn, m_network_connected, registered>>
        /\ (m_server_connected' => m_server_connected)
    BY <1>3 DEF OpenAlreadyConnected, OpenDropsDead, WaitCheck, WaitClear, WaitWakes,
       ScanEnds, RejectEnds, netVars, linkVars
  <2>2. pc' = pc \/ pc' = "idle" \/ (pc \notin {"idle", "cut"} /\ pc' # "cut")
    BY <1>3 DEF OpenAlreadyConnected, OpenDropsDead, WaitCheck, WaitClear, WaitWakes,
       ScanEnds, RejectEnds, At, Goto, Return, ipcVars
  <2>3. QED
    BY <1>0, <2>1, <2>2, WaningKeeps DEF Waning
<1>4. CASE OpenDials \/ OpenChecksSocket \/ OpenWaits \/ JoinSend \/ WaitLast
  <2>1. UNCHANGED <<m_network_connected, registered, m_server_connected>>
    BY <1>4 DEF OpenDials, OpenChecksSocket, OpenWaits, JoinSend, WaitLast, linkVars
  <2>2. pc' = "idle" \/ (pc \notin {"idle", "cut"} /\ pc' # "cut")
    BY <1>4 DEF OpenDials, OpenChecksSocket, OpenWaits, JoinSend, WaitLast, OpenFails,
       JoinFails, At, Goto, Return
  <2>3. ldn' = ldn \/ ldn' = LdnAfter(ldn, UndoOpen) \/ ldn' = LdnAfter(ldn, UndoOp(call))
    BY <1>4 DEF OpenDials, OpenChecksSocket, OpenWaits, JoinSend, WaitLast, OpenFails,
       JoinFails
  <2>4. ldn' = ldn \/ (ldn # "None" /\ ldn' # "None")
    BY <2>3, OnlyFinalizeEnds DEF UndoOpen, UndoOp
  <2>5. QED
    BY <1>0, <2>1, <2>2, <2>4, WaningKeeps DEF Waning
<1>5. CASE OpenDone
  BY <1>0, <1>5 DEF OpenDone, At, Return, SessionInv, CutIsCut, CommandHasSession,
     FinalizeIsFinal
<1>6. CASE JoinEnter
  <2>1. call \in CreateCall \cup ConnectCall
    BY <1>0, <1>6 DEF JoinEnter, At, CallAt
  <2>2. LdnTarget(Op(call)) # "None"
    BY <2>1, LdnTable DEF Op
  <2>3. /\ pc = "enter" /\ pc' \in {"send", "idle"} /\ ldn' \in {ldn, LdnTarget(Op(call))}
        /\ UNCHANGED <<m_network_connected, registered, m_server_connected>>
    BY <1>6 DEF JoinEnter, At, Goto, Return, linkVars
  <2>4. QED
    BY <1>0, <2>2, <2>3 DEF SessionInv, CutIsCut, CommandHasSession, FinalizeIsFinal
<1>7. CASE JoinDone
  BY <1>0, <1>7 DEF JoinDone, At, Return, linkVars, SessionInv, CutIsCut,
     CommandHasSession, FinalizeIsFinal
<1>8. QED
  BY <1>0, <1>1, <1>2, <1>3, <1>4, <1>5, <1>6, <1>7 DEF Continues

(***************************************************************************)
(* The receive thread: only a Connected sets a flag, and none arrives when *)
(* there is no session.                                                    *)
(***************************************************************************)
LEMMA ReceiveSession == LinkInv /\ SessionInv /\ ReceiveThread => SessionInv'
<1>0. SUFFICES ASSUME LinkInv, SessionInv, ReceiveThread PROVE SessionInv'
  OBVIOUS
<1>1. CASE RecvPacket
  <2>1. /\ UNCHANGED <<ldn, pc, registered, m_server_connected>>
        /\ sock # "down" /\ inbox # <<>>
    BY <1>1 DEF RecvPacket, linkVars, ipcVars
  <2>2. m_network_connected' =>
          (m_network_connected \/ Head(inbox).kind = "Connected")
    BY <1>1, Zenon DEF RecvPacket, HandleServerPacket, JoinedAfter
  <2>3. Head(inbox).kind = "Connected" => m_server_connected
    BY <1>0, <2>1, JoinlessFacts DEF LinkInv, Unanswered, NoAnswerDue
  <2>4. QED
    BY <1>0, <2>1, <2>2, <2>3
    DEF SessionInv, CutIsCut, CommandHasSession, FinalizeIsFinal
<1>2. CASE LossTransition
  <2>1. /\ \E op \in {"Disconnect", "DestroyNetwork"} : ldn' = LdnAfter(ldn, op)
        /\ UNCHANGED <<pc, registered, m_server_connected, m_network_connected>>
    BY <1>2 DEF LossTransition, linkVars, ipcVars
  <2>2. Waning
    BY <2>1, OnlyFinalizeEnds DEF Waning
  <2>3. QED
    BY <1>0, <2>2, WaningKeeps
<1>3. CASE ~RecvPacket /\ ~LossTransition
  <2>1. Waning
    BY <1>0, <1>3 DEF ReceiveThread, RecvSample, LossFlagged, LossRecorded, LossShown,
       RecvUpdate, RecvDrained, RecvCheckTimeout, OnInactivityTimeout,
       DisconnectFromServer, netVars, linkVars, ipcVars, Waning
  <2>2. QED
    BY <1>0, <2>1, WaningKeeps
<1>4. QED
  BY <1>1, <1>2, <1>3

\* The rest of the system takes nothing up.
LEMMA OthersSession == SessionInv /\ (P2pDialFails \/ Server \/ LinkLost \/ UNCHANGED vars)
                         => SessionInv'
<1>1. P2pDialFails \/ Server \/ LinkLost \/ UNCHANGED vars => Waning
  BY DEF P2pDialFails, Server, LinkLost, vars, netVars, linkVars, ipcVars, Waning
<1>2. QED
  BY <1>1, WaningKeeps

-----------------------------------------------------------------------------
(***************************************************************************)
(* Which command is where: a step that leaves the IPC thread alone, one    *)
(* that goes on with the command, and one that returns.                    *)
(***************************************************************************)
Phase(p) ==
  CASE p = "cut" -> "cut"
    [] p \in OpenPc -> "open"
    [] p \in AskPc \cup {"enter"} -> "join"
    [] OTHER -> "none"

\* A step within a phase, or back to idle, keeps the knowledge of the call.
LEMMA CallAtKept ==
  ASSUME CallAt,
         \/ UNCHANGED call /\ Phase(pc') = Phase(pc)
         \/ pc' \in {"idle", "scanning", "rejecting"}
  PROVE  CallAt'
BY DEF CallAt, Phase, OpenPc, AskPc

\* And every step is one of these or begins a phase.
LEMMA CallAtStep == CallAt /\ [Next]_vars => CallAt'
<1>0. SUFFICES ASSUME CallAt, [Next]_vars PROVE CallAt'
  OBVIOUS
<1>1. CASE Begins
  <2>1. CASE CutServer
    BY <1>0, <2>1 DEF CutServer, Begin, CallAt, OpenPc, AskPc
  <2>2. CASE OpenBegin
    BY <1>0, <2>2 DEF OpenBegin, Begin, CallAt, OpenPc, AskPc
  <2>3. CASE JoinBegin
    BY <1>0, <2>3 DEF JoinBegin, Begin, CallAt, OpenPc, AskPc
  <2>4. CASE ~CutServer /\ ~OpenBegin /\ ~JoinBegin
    <3>1. UNCHANGED <<call, pc>> \/ pc' \in {"scanning", "rejecting"}
      BY <1>1, <2>4 DEF Begins, Initialize, DestroyNetwork, CloseStation, Disconnect,
         SendSetting, ScanBegin, RejectBegin, Begin, ipcVars
    <3>2. QED
      BY <1>0, <3>1, CallAtKept
  <2>5. QED
    BY <2>1, <2>2, <2>3, <2>4
<1>2. CASE Continues
  <2>1. CASE \/ Finalize \/ CloseAccessPoint \/ OpenAlreadyConnected \/ OpenDone \/ JoinDone
             \/ ScanEnds \/ RejectEnds
    <3>1. pc' = "idle"
      BY <2>1 DEF Finalize, CloseAccessPoint, OpenAlreadyConnected, OpenDone, JoinDone,
         ScanEnds, RejectEnds, Return
    <3>2. QED
      BY <1>0, <3>1, CallAtKept
  <2>2. CASE OpenDropsDead
    BY <1>0, <2>2, CallAtKept DEF OpenDropsDead, ipcVars
  <2>3. CASE OpenDials \/ OpenChecksSocket \/ OpenWaits
    <3>1. \/ pc' = "idle"
          \/ UNCHANGED call /\ pc \in OpenPc /\ pc' \in OpenPc
      BY <2>3 DEF OpenDials, OpenChecksSocket, OpenWaits, OpenFails, At, Goto, Return, OpenPc
    <3>2. QED
      BY <1>0, <3>1, CallAtKept DEF Phase, OpenPc, AskPc
  <2>4. CASE JoinEnter \/ JoinSend \/ WaitCheck \/ WaitClear \/ WaitLast
    <3>1. \/ pc' = "idle"
          \/ UNCHANGED call /\ pc \in AskPc \cup {"enter"} /\ pc' \in AskPc
      BY <2>4 DEF JoinEnter, JoinSend, WaitCheck, WaitClear, WaitLast, JoinFails, At,
         Goto, Return, AskPc
    <3>2. QED
      BY <1>0, <3>1, CallAtKept DEF Phase, OpenPc, AskPc
  <2>5. CASE WaitWakes
    <3>1. UNCHANGED call /\ pc = "wait" /\ pc' \in {"joined", "wait", "last"}
      BY <2>5 DEF WaitWakes, At, Goto
    <3>2. QED
      BY <1>0, <3>1, CallAtKept DEF Phase, OpenPc, AskPc
  <2>6. QED
    BY <1>2, <2>1, <2>2, <2>3, <2>4, <2>5 DEF Continues
<1>3. CASE ReceiveThread \/ P2pDialFails \/ Server \/ LinkLost \/ UNCHANGED vars
  <2>1. UNCHANGED <<call, pc>>
    BY <1>3 DEF ReceiveThread, RecvSample, LossFlagged, LossRecorded, LossTransition,
       LossShown, RecvUpdate, RecvPacket, RecvDrained, RecvCheckTimeout,
       OnInactivityTimeout, P2pDialFails, Server, LinkLost, vars, ipcVars
  <2>2. QED
    BY <1>0, <2>1, CallAtKept
<1>4. QED
  BY <1>0, <1>1, <1>2, <1>3 DEF Next

(***************************************************************************)
(* After Finalize (CleanupSessionResources, ldn_icommunication.cpp)        *)
(* nothing of the session comes back, for every set of commands and        *)
(* packets and any number of packets under way: however late an answer, a  *)
(* loss or the inactivity timer is, none of the three flags is set again.  *)
(***************************************************************************)
THEOREM NothingOutlivesFinalize == Spec => []FinalizeIsFinal
<1>1. Init => SessionInv /\ CallAt
  BY DEF Init, SessionInv, CutIsCut, CommandHasSession, FinalizeIsFinal, CallAt, OpenPc, AskPc
<1>2. LinkInv /\ SessionInv /\ CallAt /\ [Next]_vars => SessionInv'
  BY BeginsSession, ContinuesSession, ReceiveSession, OthersSession DEF Next
<1>3. SessionInv => FinalizeIsFinal
  BY DEF SessionInv
<1>4. QED
  BY <1>1, <1>2, <1>3, InitLink, LinkStep, CallAtStep, PTL DEF Spec

-----------------------------------------------------------------------------
(***************************************************************************)
(* What the commands do to the game's state and the overlay's: nothing of  *)
(* it concerns a command, of which there is one at a time, and the history *)
(* of races stays.                                                         *)
(***************************************************************************)
LEMMA ShowsIdle ==
  ASSUME UNCHANGED <<recvPc, raced>>, OverlayInv, ldn' \in CommState,
         (~raced /\ recvPc \notin LossPc /\ Shows) => Shows'
  PROVE  OverlayInv'
BY DEF OverlayInv

\* A command that begins has the two states agree, or enters its phase.
LEMMA BeginsOverlay == OverlayInv /\ Begins => OverlayInv'
<1>0. SUFFICES ASSUME OverlayInv, Begins PROVE OverlayInv'
  OBVIOUS
<1>1. UNCHANGED <<recvPc, raced>>
  BY <1>0 DEF Begins, Initialize, CutServer, DestroyNetwork, CloseStation, Disconnect,
     SendSetting, OpenBegin, JoinBegin, ScanBegin, RejectBegin, recvVars, historyVars
<1>2. ldn \in CommState /\ pc = "idle"
  BY <1>0 DEF OverlayInv, Begins, Initialize, CutServer, DestroyNetwork, CloseStation,
     Disconnect, SendSetting, OpenBegin, JoinBegin, ScanBegin, RejectBegin, Begin, Idle
<1>3. CASE Initialize \/ DestroyNetwork \/ CloseStation \/ Disconnect \/ SendSetting
  <2>1. /\ UNCHANGED pc /\ ldn' \in CommState
        /\ UNCHANGED <<ldn, shown>> \/ shown' = ldn'
    BY <1>2, <1>3, LdnTable DEF Initialize, DestroyNetwork, CloseStation, Disconnect,
       SendSetting, netVars, ipcVars, CommState
  <2>2. QED
    BY <1>0, <1>1, <1>2, <2>1, ShowsIdle DEF Shows, OpenPc, AskPc
<1>4. CASE CutServer \/ JoinBegin \/ ScanBegin \/ RejectBegin
  <2>1. /\ pc' \in {"idle", "cut", "enter", "scanning", "rejecting"}
        /\ UNCHANGED <<ldn, shown>>
    BY <1>2, <1>4 DEF CutServer, JoinBegin, ScanBegin, RejectBegin, Begin, Idle, netVars,
       ipcVars
  <2>2. QED
    BY <1>0, <1>1, <1>2, <2>1, ShowsIdle DEF Shows, OpenPc, AskPc
<1>5. CASE OpenBegin
  <2>1. PICK c \in OpenCall : /\ call' = c /\ pc' = "dial" /\ ldn \in LdnSources(c)
                              /\ ldn' = LdnTarget(c) /\ UNCHANGED shown
    BY <1>5 DEF OpenBegin, Begin
  <2>2. ldn = "Initialized" /\ ldn' \in CommState
    BY <2>1, LdnTable DEF OpenCall, CommState
  <2>3. QED
    BY <1>0, <1>1, <1>2, <2>1, <2>2, ShowsIdle DEF Shows, OpenPc, AskPc
<1>6. QED
  BY <1>0, <1>3, <1>4, <1>5 DEF Begins

\* What the rollback of each command makes of the state it had entered.
LEMMA Rollback ==
  /\ call \in OpenCall => /\ LdnAfter(LdnTarget(call), UndoOpen) = "Initialized"
                          /\ \A s \in CommState : LdnAfter(s, UndoOpen) \in CommState
  /\ call \in CreateCall \cup ConnectCall =>
       /\ \A s \in LdnSources(Op(call)) : LdnAfter(LdnTarget(Op(call)), UndoOp(call)) = s
       /\ \A s \in CommState : LdnAfter(s, UndoOp(call)) \in CommState
       /\ LdnTarget(Op(call)) \in CommState
<1>1. "Initialized" \in CommState /\ "AccessPoint" \in CommState /\ "Station" \in CommState
      /\ "AccessPointCreated" \in CommState /\ "StationConnected" \in CommState
  BY DEF CommState
<1>2. CASE call \in OpenCall
  BY <1>1, <1>2, LdnTable
  DEF OpenCall, CreateCall, ConnectCall, UndoOpen, LdnAfter
<1>3. CASE call \in CreateCall \cup ConnectCall
  BY <1>1, <1>3, LdnTable
  DEF OpenCall, CreateCall, ConnectCall, Op, UndoOp, LdnAfter
<1>4. QED
  BY <1>2, <1>3

\* A command that ends well shows its target; one that fails rolls back.
LEMMA ContinuesOverlay == OverlayInv /\ CallAt /\ Continues => OverlayInv'
<1>0. SUFFICES ASSUME OverlayInv, CallAt, Continues PROVE OverlayInv'
  OBVIOUS
<1>1. CASE Finalize
  <2>1. ldn \in CommState /\ pc' = "idle" /\ shown' = "None" /\ ldn' = LdnAfter(ldn, "Finalize")
    BY <1>0, <1>1 DEF OverlayInv, Finalize, Return
  <2>2. ldn' = "None" /\ ldn' \in CommState
    BY <2>1, LdnTable DEF LdnAfter, CommState
  <2>3. QED
    BY <2>1, <2>2 DEF OverlayInv, Shows, OpenPc, AskPc
<1>2. CASE CloseAccessPoint
  <2>1. /\ pc = "cut" /\ pc' = "idle" /\ UNCHANGED <<recvPc, raced>>
        /\ UNCHANGED <<ldn, shown>> \/ (ldn' = "Initialized" /\ shown' = ldn')
    BY <1>2, LdnTable DEF CloseAccessPoint, At, Return, netVars, recvVars, historyVars
  <2>2. QED
    BY <1>0, <2>1, ShowsIdle DEF OverlayInv, Shows, OpenPc, AskPc, CommState
<1>3. CASE OpenAlreadyConnected \/ OpenDone
  <2>1. /\ pc \in OpenPc /\ pc' = "idle" /\ shown' = LdnTarget(call)
        /\ UNCHANGED <<ldn, recvPc, raced>>
    BY <1>3 DEF OpenAlreadyConnected, OpenDone, At, Return, OpenPc, recvVars, historyVars
  <2>2. QED
    BY <1>0, <2>1, ShowsIdle DEF OverlayInv, Shows, OpenPc, AskPc
<1>4. CASE OpenDropsDead \/ ScanEnds \/ RejectEnds
  <2>1. /\ UNCHANGED <<ldn, shown, recvPc, raced>>
        /\ \/ UNCHANGED <<pc, call>>
           \/ pc \in {"scanning", "rejecting"} /\ pc' = "idle"
    BY <1>4 DEF OpenDropsDead, ScanEnds, RejectEnds, At, Return, netVars, ipcVars,
       recvVars, historyVars
  <2>2. QED
    BY <1>0, <2>1, ShowsIdle DEF OverlayInv, Shows, OpenPc, AskPc
<1>5. CASE OpenDials \/ OpenChecksSocket \/ OpenWaits
  <2>1. /\ UNCHANGED <<shown, recvPc, raced>> /\ pc \in OpenPc
        /\ \/ pc' \in OpenPc /\ UNCHANGED <<ldn, call>>
           \/ pc' = "idle" /\ ldn' = LdnAfter(ldn, UndoOpen)
    BY <1>5 DEF OpenDials, OpenChecksSocket, OpenWaits, OpenFails, At, Goto, Return,
       OpenPc, recvVars, historyVars
  <2>2. call \in OpenCall
    BY <1>0, <2>1 DEF CallAt
  <2>3. QED
    BY <1>0, <2>1, <2>2, Rollback, ShowsIdle DEF OverlayInv, Shows, OpenPc, AskPc
<1>6. CASE JoinEnter
  <2>1. /\ UNCHANGED <<shown, recvPc, raced>> /\ pc = "enter"
        /\ \/ pc' = "send" /\ UNCHANGED call /\ ldn \in LdnSources(Op(call))
              /\ ldn' = LdnTarget(Op(call))
           \/ pc' = "idle" /\ UNCHANGED ldn
    BY <1>6 DEF JoinEnter, At, Goto, Return, recvVars, historyVars
  <2>2. call \in CreateCall \cup ConnectCall
    BY <1>0, <2>1 DEF CallAt
  <2>3. QED
    BY <1>0, <2>1, <2>2, Rollback, ShowsIdle DEF OverlayInv, Shows, OpenPc, AskPc
<1>7. CASE JoinSend \/ WaitCheck \/ WaitClear \/ WaitWakes \/ WaitLast
  <2>1. UNCHANGED <<shown, recvPc, raced>> /\ pc \in AskPc
    BY <1>7 DEF JoinSend, WaitCheck, WaitClear, WaitWakes, WaitLast, At, AskPc, netVars,
       recvVars, historyVars
  <2>2. \/ pc' \in AskPc /\ UNCHANGED <<ldn, call>>
        \/ pc' = "idle" /\ ldn' = LdnAfter(ldn, UndoOp(call))
    <3>1. CASE WaitWakes
      BY <3>1 DEF WaitWakes, Goto, AskPc, netVars
    <3>2. QED
      BY <1>7, <3>1 DEF JoinSend, WaitCheck, WaitClear, WaitLast, JoinFails, Goto, Return,
         AskPc, netVars
  <2>3. call \in CreateCall \cup ConnectCall
    BY <1>0, <2>1 DEF CallAt
  <2>4. QED
    BY <1>0, <2>1, <2>2, <2>3, Rollback, ShowsIdle DEF OverlayInv, Shows, OpenPc, AskPc
<1>8. CASE JoinDone
  <2>1. /\ pc \in AskPc /\ pc' = "idle" /\ shown' = LdnTarget(Op(call))
        /\ UNCHANGED <<ldn, recvPc, raced>>
    BY <1>8 DEF JoinDone, At, Return, AskPc, recvVars, historyVars
  <2>2. QED
    BY <1>0, <2>1, ShowsIdle DEF OverlayInv, Shows, OpenPc, AskPc
<1>9. QED
  BY <1>0, <1>1, <1>2, <1>3, <1>4, <1>5, <1>6, <1>7, <1>8 DEF Continues

(***************************************************************************)
(* The receive thread writes the two states only while it records a loss,  *)
(* and ends that by showing what it finds; if a command is under way then, *)
(* the race is on record.                                                  *)
(***************************************************************************)
LEMMA ReceiveOverlay ==
  OverlayInv /\ (ReceiveThread \/ P2pDialFails \/ Server \/ LinkLost \/ UNCHANGED vars)
    => OverlayInv'
<1>0. SUFFICES ASSUME OverlayInv, ReceiveThread \/ P2pDialFails \/ Server \/ LinkLost
                                  \/ UNCHANGED vars
               PROVE  OverlayInv'
  OBVIOUS
<1>1. CASE LossTransition
  <2>1. /\ recvPc' = "loss4"
        /\ \E op \in {"Disconnect", "DestroyNetwork"} : ldn' = LdnAfter(ldn, op)
    BY <1>1 DEF LossTransition, RecvGoto
  <2>2. ldn' \in CommState
    BY <1>0, <2>1, LdnTable DEF OverlayInv, LdnAfter, CommState
  <2>3. QED
    BY <2>1, <2>2 DEF OverlayInv, LossPc
<1>2. CASE LossShown
  <2>1. shown' = ldn /\ UNCHANGED <<ldn, pc>>
    BY <1>2 DEF LossShown, ipcVars
  <2>2. ~raced' => pc = "idle"
    BY <1>2, Zenon DEF LossShown
  <2>3. QED
    BY <1>0, <2>1, <2>2 DEF OverlayInv, Shows, OpenPc, AskPc
<1>3. CASE ~LossTransition /\ ~LossShown
  <2>1. UNCHANGED <<ldn, shown, pc, call, raced>>
    BY <1>0, <1>3 DEF ReceiveThread, RecvSample, LossFlagged, LossRecorded, RecvUpdate,
       RecvPacket, RecvDrained, RecvCheckTimeout, OnInactivityTimeout, P2pDialFails,
       Server, LinkLost, vars, netVars, ipcVars, historyVars
  <2>2. recvPc' \notin LossPc => recvPc \notin LossPc
    BY <1>0, <1>3 DEF ReceiveThread, RecvSample, LossFlagged, LossRecorded, RecvUpdate,
       RecvPacket, RecvDrained, RecvCheckTimeout, OnInactivityTimeout, P2pDialFails,
       Server, LinkLost, RecvAt, RecvGoto, LossPc, vars, recvVars
  <2>3. QED
    BY <1>0, <2>1, <2>2 DEF OverlayInv, Shows
<1>4. QED
  BY <1>1, <1>2, <1>3

(***************************************************************************)
(* No early return of a command forgets its rollback or the overlay        *)
(* (OpenStation, CreateNetwork and the others, ldn_icommunication.cpp):    *)
(* with no command and no loss under way the two states agree, unless a    *)
(* loss has been recorded in the middle of a command.                      *)
(***************************************************************************)
THEOREM OverlayIsRight == Spec => []OverlayFollows
<1>1. Init => OverlayInv /\ CallAt
  BY DEF Init, OverlayInv, Shows, CallAt, OpenPc, AskPc, CommState
<1>2. OverlayInv /\ CallAt /\ [Next]_vars => OverlayInv'
  BY BeginsOverlay, ContinuesOverlay, ReceiveOverlay DEF Next
<1>3. OverlayInv => OverlayFollows
  BY DEF OverlayInv, OverlayFollows, AtRest, Shows, OpenPc, AskPc, LossPc
<1>4. QED
  BY <1>1, <1>2, <1>3, CallAtStep, PTL DEF Spec

-----------------------------------------------------------------------------
(***************************************************************************)
(* WaitForResponse: the handler of a Connected sets m_network_connected    *)
(* with its answer, and only the recording of a loss takes it back while   *)
(* the command waits.                                                      *)
(***************************************************************************)
LEMMA AnswerStep == AnswerInv /\ [Next]_vars => AnswerInv'
<1>0. SUFFICES ASSUME AnswerInv, [Next]_vars PROVE AnswerInv'
  OBVIOUS
<1>1. CASE Begins
  <2>1. pc = "idle" /\ pc' \notin AskPc /\ UNCHANGED retried
    BY <1>1 DEF Begins, Initialize, CutServer, DestroyNetwork, CloseStation, Disconnect,
       SendSetting, OpenBegin, JoinBegin, ScanBegin, RejectBegin, Begin, Idle, ipcVars, AskPc
  <2>2. QED
    BY <1>0, <2>1 DEF AnswerInv, AskPc
<1>2. CASE Continues
  <2>1. CASE \/ Finalize \/ CloseAccessPoint \/ OpenAlreadyConnected \/ OpenDone \/ JoinDone
             \/ ScanEnds \/ RejectEnds
    <3>1. pc' = "idle" /\ retried' = FALSE
      BY <2>1 DEF Finalize, CloseAccessPoint, OpenAlreadyConnected, OpenDone, JoinDone,
         ScanEnds, RejectEnds, Return
    <3>2. QED
      BY <3>1 DEF AnswerInv, AskPc
  <2>2. CASE OpenDropsDead \/ OpenDials \/ OpenChecksSocket \/ OpenWaits
    <3>1. \/ pc' = "idle" /\ retried' = FALSE
          \/ UNCHANGED retried /\ pc \in OpenPc /\ pc' \in OpenPc
      BY <2>2 DEF OpenDropsDead, OpenDials, OpenChecksSocket, OpenWaits, OpenFails, At,
         Goto, Return, OpenPc, ipcVars
    <3>2. QED
      BY <1>0, <3>1 DEF AnswerInv, AskPc, OpenPc
  <2>3. CASE JoinEnter
    <3>1. /\ pc = "enter"
          /\ \/ pc' = "idle" /\ retried' = FALSE
             \/ pc' = "send" /\ UNCHANGED retried
      BY <2>3 DEF JoinEnter, At, Goto, Return
    <3>2. QED
      BY <1>0, <3>1 DEF AnswerInv, AskPc
  <2>4. CASE JoinSend
    <3>1. /\ pc = "send" /\ UNCHANGED m_network_connected
          /\ \/ pc' = "idle" /\ retried' = FALSE
             \/ pc' = "check" /\ UNCHANGED retried /\ (retried => UNCHANGED answered)
                /\ (~retried => answered' = FALSE)
      BY <2>4 DEF JoinSend, JoinFails, At, Goto, Return
    <3>2. QED
      BY <1>0, <3>1 DEF AnswerInv, AskPc
  <2>5. CASE WaitCheck \/ WaitClear \/ WaitLast
    <3>1. /\ pc \in AskPc \ {"send"} /\ UNCHANGED <<m_network_connected, answered>>
          /\ \/ pc' = "idle" /\ retried' = FALSE
             \/ pc' \in AskPc
      BY <2>5 DEF WaitCheck, WaitClear, WaitLast, JoinFails, At, Goto, Return, AskPc,
         netVars, historyVars
    <3>2. QED
      BY <1>0, <3>1 DEF AnswerInv, AskPc
  <2>6. CASE WaitWakes
    <3>1. /\ pc = "wait" /\ pc' \in {"joined", "wait", "last"}
          /\ UNCHANGED <<retried, m_network_connected, answered>>
      BY <2>6 DEF WaitWakes, At, Goto, netVars, historyVars
    <3>2. QED
      BY <1>0, <3>1 DEF AnswerInv, AskPc
  <2>7. QED
    BY <1>2, <2>1, <2>2, <2>3, <2>4, <2>5, <2>6 DEF Continues
<1>3. CASE RecvPacket
  <2>1. UNCHANGED <<pc, retried>>
    BY <1>3 DEF RecvPacket, ipcVars
  <2>2. m_network_connected => m_network_connected'
    BY <1>3, Zenon DEF RecvPacket, HandleServerPacket, JoinedAfter
  <2>3. answered' => answered \/ m_network_connected'
    BY <1>3, Zenon DEF RecvPacket, HandleServerPacket, JoinedAfter
  <2>4. QED
    BY <1>0, <2>1, <2>2, <2>3 DEF AnswerInv
<1>4. CASE /\ ReceiveThread \/ P2pDialFails \/ Server \/ LinkLost \/ UNCHANGED vars
           /\ ~RecvPacket
  <2>1. /\ UNCHANGED <<pc, retried>>
        /\ UNCHANGED <<m_network_connected, answered>> \/ answered' = FALSE
    BY <1>4 DEF ReceiveThread, RecvSample, LossFlagged, LossRecorded, LossTransition,
       LossShown, RecvUpdate, RecvDrained, RecvCheckTimeout, OnInactivityTimeout,
       P2pDialFails, Server, LinkLost, vars, netVars, ipcVars, historyVars
  <2>2. QED
    BY <1>0, <2>1 DEF AnswerInv
<1>5. QED
  BY <1>0, <1>1, <1>2, <1>3, <1>4 DEF Next

(***************************************************************************)
(* A create or a connect gives up only if the server's answer to it has    *)
(* not been handled (WaitForResponse, ldn_icommunication.cpp): the look    *)
(* before, the event and the last look leave no gap for it to fall into.   *)
(***************************************************************************)
THEOREM NoAnswerIsMissed == Spec => AnswerIsTaken
<1>1. Init => AnswerInv
  BY DEF Init, AnswerInv
<1>2. AnswerInv /\ [Next]_vars => [pc = "last" /\ pc' = "idle" => ~answered]_vars
  <2>1. SUFFICES ASSUME AnswerInv, Next, pc = "last", pc' = "idle" PROVE ~answered
    OBVIOUS
  <2>2. WaitLast
    <3>1. ~Begins
      BY <2>1 DEF Begins, Initialize, CutServer, DestroyNetwork, CloseStation, Disconnect,
         SendSetting, OpenBegin, JoinBegin, ScanBegin, RejectBegin, Begin, Idle
    <3>2. ~ReceiveThread /\ ~P2pDialFails /\ ~Server /\ ~LinkLost
      BY <2>1 DEF ReceiveThread, RecvSample, LossFlagged, LossRecorded, LossTransition,
         LossShown, RecvUpdate, RecvPacket, RecvDrained, RecvCheckTimeout,
         OnInactivityTimeout, P2pDialFails, Server, LinkLost, ipcVars
    <3>3. Continues
      BY <2>1, <3>1, <3>2 DEF Next
    <3>4. QED
      BY <2>1, <3>3 DEF Continues, Finalize, CloseAccessPoint, OpenAlreadyConnected,
         OpenDropsDead, OpenDials, OpenChecksSocket, OpenWaits, OpenDone, JoinEnter,
         JoinSend, WaitCheck, WaitClear, WaitWakes, JoinDone, ScanEnds, RejectEnds, At
  <2>3. ~m_network_connected
    BY <2>1, <2>2 DEF WaitLast, Goto
  <2>4. QED
    BY <2>1, <2>3 DEF AnswerInv, AskPc
<1>3. QED
  BY <1>1, <1>2, AnswerStep, PTL DEF Spec, AnswerIsTaken
=============================================================================
