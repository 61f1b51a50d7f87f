----------------------------- MODULE LdnService -----------------------------
(***************************************************************************)
(* ICommunicationService (ldn/ldn_icommunication.{hpp,cpp}): the object    *)
(* behind a game's ldn:u session.  Two threads share it: the game's IPC    *)
(* thread, which runs one command at a time, and the receive thread, which *)
(* drives the master-server client, handles the server's packets, notices  *)
(* a lost connection and runs the inactivity timer.                        *)
(*                                                                         *)
(* A command is cut into steps where the receive thread may come between   *)
(* two accesses of shared state; a packet handler, which runs under        *)
(* m_shared_mutex, is one step.  The master-server client is seen from     *)
(* outside: its connection state moves by the table of                     *)
(* ConnectionStateMachine, each of its calls is one step, and what its     *)
(* timers decide (RyuLdnClient has them) may happen at any call.  There is *)
(* no clock: a wait with a time-out may end at any time, so the events     *)
(* that only end such a wait early (all but the response event) are not    *)
(* kept.  Of P2P only the switch m_use_p2p_proxy is here.                  *)
(***************************************************************************)
EXTENDS ConnectionStateMachine, LdnStateMachine, Sequences

CONSTANTS
  Calls,         \* the IPC commands the game uses
  Packets,       \* the kinds of packets the server may send
  MaxInbox       \* bound on the packets under way to the client

OpenCall  == {"OpenAccessPoint", "OpenStation"}
CreateCall == {"CreateNetwork", "CreateNetworkPrivate"}
ConnectCall == {"Connect", "ConnectPrivate"}
SettingCall == {"SetAdvertiseData", "SetStationAcceptPolicy"}
Call == {"Initialize", "Finalize", "CloseAccessPoint", "DestroyNetwork",
         "CloseStation", "Disconnect", "Scan", "Reject"}
        \cup OpenCall \cup CreateCall \cup ConnectCall \cup SettingCall

PacketKind == {"Connected", "NetworkError", "PortUnreachable", "ScanReplyEnd",
               "RejectReply", "Disconnect"}

\* A Connected answers the latest create or connect request, or an older one.
Message == [kind : PacketKind, for : {"latest", "older"}]

\* The packets HandleServerPacket takes for an answer to a request, and the
\* ids WaitForResponse tells apart: the last one is any other.
ResponseKind == {"Connected", "NetworkError", "ScanReplyEnd", "RejectReply"}

ResponseId == {"Connected", "ScanReplyEnd", "other"}

ASSUME ServiceAssumption ==
  /\ Calls \subseteq Call /\ Packets \subseteq PacketKind
  /\ MaxInbox \in Nat

VARIABLES
  ldn,                  \* m_state_machine
  shown,                \* the LDN state in SharedState, which the overlay shows
  m_server_connected,
  registered,           \* g_active_ldn_service is this service
  m_network_connected,
  m_network_info,       \* "zero" (memset) or "set" by the server
  m_last_response_id,
  m_response_event,     \* signalled
  m_use_p2p_proxy,
  timer,                \* m_inactivity_timeout is active
  client,               \* get_state() of m_server_client
  m_handshake_sent,     \* of the client
  sock,                 \* its socket: "down", "up", or "lost" and not noticed
  inbox,                \* packets under way from the server
  asked,                \* the join requests the server has yet to answer
  call, pc,             \* the IPC thread: its command and where it is
  retried,              \* Connect has sent its request a second time
  recvPc,               \* the receive thread
  recvLdn,              \*   the LDN state it found when it noticed a loss
  wasReady,             \*   prev_tcp_state was Ready
  answered,             \* history: Connected was handled for the latest request
                        \*   and no loss recorded since
  raced                 \* history: a loss wrote ldn or shown during a command

netVars     == <<ldn, shown, m_network_connected, m_network_info>>
linkVars    == <<m_server_connected, registered>>
responseVars == <<m_last_response_id, m_response_event>>
clientVars  == <<client, m_handshake_sent, sock, inbox, asked>>
ipcVars     == <<call, pc, retried>>
recvVars    == <<recvPc, recvLdn, wasReady>>
historyVars == <<answered, raced>>
vars == <<netVars, linkVars, responseVars, m_use_p2p_proxy, timer,
          clientVars, ipcVars, recvVars, historyVars>>

TypeOK ==
  /\ ldn \in CommState \ {"Error"} /\ shown \in CommState \ {"Error"}
  /\ m_server_connected \in BOOLEAN /\ registered \in BOOLEAN
  /\ m_network_connected \in BOOLEAN /\ m_network_info \in {"zero", "set"}
  /\ m_last_response_id \in ResponseId /\ m_response_event \in BOOLEAN
  /\ m_use_p2p_proxy \in BOOLEAN
  /\ timer \in BOOLEAN
  /\ client \in ConnectionState \ {"Connecting", "Retrying"}
  /\ m_handshake_sent \in BOOLEAN /\ sock \in {"down", "up", "lost"}
  /\ inbox \in Seq(Message)
  /\ asked \subseteq {"latest", "older"}
  /\ call \in Calls \cup {"none"}
  /\ pc \in {"idle", "cut", "dial", "dialed", "handshake", "opened",
             "enter", "send", "check", "clearing", "wait", "last", "joined",
             "scanning", "rejecting"}
  /\ retried \in BOOLEAN
  /\ recvPc \in {"top", "loss1", "loss2", "loss3", "loss4", "update", "drain",
                 "timeout", "callback"}
  /\ recvLdn \in CommState /\ wasReady \in BOOLEAN
  /\ answered \in BOOLEAN /\ raced \in BOOLEAN

Init ==
  /\ ldn = "None" /\ shown = "None"
  /\ m_server_connected = FALSE /\ registered = FALSE
  /\ m_network_connected = FALSE /\ m_network_info = "zero"
  /\ m_last_response_id = "other" /\ m_response_event = FALSE
  /\ m_use_p2p_proxy \in BOOLEAN
  /\ timer = FALSE
  /\ client = "Disconnected" /\ m_handshake_sent = FALSE /\ sock = "down"
  /\ inbox = <<>> /\ asked = {}
  /\ call = "none" /\ pc = "idle" /\ retried = FALSE
  /\ recvPc = "top" /\ recvLdn = "None" /\ wasReady = FALSE
  /\ answered = FALSE /\ raced = FALSE

-----------------------------------------------------------------------------
(***************************************************************************)
(* The master-server client, as the service sees it.                       *)
(***************************************************************************)
ClientAfter(s, e) == IF IsValidTransition(s, e) THEN Target(s, e) ELSE s

ClientDisconnect ==
  /\ client' = "Disconnected" /\ m_handshake_sent' = FALSE /\ sock' = "down"
  /\ inbox' = <<>> /\ asked' = {}

(***************************************************************************)
(* connect(): dials in Disconnected only; in Backoff and Error it resets   *)
(* m_handshake_sent and fails, elsewhere it fails.  Success only says that *)
(* the attempt was made.                                                   *)
(***************************************************************************)
ClientDials ==
  /\ client = "Disconnected"
  /\ m_handshake_sent' = FALSE /\ inbox' = <<>>
  /\ \/ client' = "Connected" /\ sock' = "up"
     \/ client' = "Backoff" /\ sock' = "down"
  /\ UNCHANGED asked

ClientRefuses ==
  /\ client # "Disconnected"
  /\ m_handshake_sent' = IF client \in {"Backoff", "Error"} THEN FALSE
                                                            ELSE m_handshake_sent
  /\ UNCHANGED <<client, sock, inbox, asked>>

(***************************************************************************)
(* A send_*() call that succeeds, and one that fails: because the client   *)
(* is not Ready, because it times out, because the loss of the connection  *)
(* shows, or by an error that only marks the socket down.                  *)
(***************************************************************************)
SendSucceeds == client = "Ready" /\ sock # "down" /\ UNCHANGED <<client, sock>>
SendFails ==
  \/ UNCHANGED <<client, sock>>
  \/ /\ client = "Ready" /\ sock = "lost" /\ sock' = "down"
     /\ client' \in {ClientAfter(client, "ConnectionLost"), client}

IsServerConnected == m_server_connected /\ client = "Ready"

\* DisconnectFromServer, and the first half of CleanupSessionResources.
DisconnectFromServer ==
  /\ IF m_server_connected THEN ClientDisconnect ELSE UNCHANGED clientVars
  /\ m_server_connected' = FALSE /\ registered' = FALSE
  /\ m_response_event' = FALSE

\* The mutex of the inactivity timer, which CheckTimeout holds over its callback.
TimerHeld == recvPc = "callback"

RefreshTimeout == ~TimerHeld /\ timer' = TRUE
DisableTimeout == ~TimerHeld /\ timer' = FALSE

-----------------------------------------------------------------------------
(***************************************************************************)
(* The IPC thread.  A command that is refused at once changes nothing and  *)
(* is left out.                                                            *)
(***************************************************************************)
Idle(c) == pc = "idle" /\ c \in Calls
Begin(c, label) == Idle(c) /\ call' = c /\ pc' = label /\ UNCHANGED retried
At(label) == pc = label
Goto(label) == pc' = label /\ UNCHANGED <<call, retried>>
Return == pc' = "idle" /\ call' = "none" /\ retried' = FALSE

Initialize ==
  /\ Idle("Initialize") /\ ldn \in LdnSources("Initialize")
  /\ ldn' = LdnTarget("Initialize") /\ shown' = ldn'
  /\ UNCHANGED <<m_network_connected, m_network_info, linkVars, responseVars,
                 m_use_p2p_proxy, timer, clientVars, ipcVars, recvVars,
                 historyVars>>

\* Finalize and CloseAccessPoint cut the server off first.
CutServer ==
  /\ \E c \in {"Finalize", "CloseAccessPoint"} : Begin(c, "cut")
  /\ DisconnectFromServer
  /\ UNCHANGED <<netVars, m_last_response_id, m_use_p2p_proxy, timer,
                 recvVars, historyVars>>

\* Mutation: the network flag survives the session.
FinalizeKeepsNetwork ==
  /\ At("cut") /\ call = "Finalize" /\ Return
  /\ m_network_info' = "zero" /\ UNCHANGED m_network_connected
  /\ shown' = "None" /\ ldn' = LdnAfter(ldn, "Finalize")
  /\ raced' = FALSE
  /\ UNCHANGED <<linkVars, responseVars, m_use_p2p_proxy, timer, clientVars,
                 recvVars, answered>>

\* The rest of CleanupSessionResources, and the transition.
Finalize ==
  /\ At("cut") /\ call = "Finalize" /\ Return
  /\ m_network_info' = "zero" /\ m_network_connected' = FALSE
  /\ shown' = "None" /\ ldn' = LdnAfter(ldn, "Finalize")
  /\ raced' = FALSE
  /\ UNCHANGED <<linkVars, responseVars, m_use_p2p_proxy, timer, clientVars,
                 recvVars, answered>>

\* The server is cut off even when the state machine then refuses.
CloseAccessPoint ==
  /\ At("cut") /\ call = "CloseAccessPoint" /\ Return
  /\ IF ldn \in LdnSources("CloseAccessPoint")
     THEN /\ ldn' = LdnTarget("CloseAccessPoint") /\ shown' = ldn'
          /\ m_network_info' = "zero" /\ m_network_connected' = FALSE
     ELSE UNCHANGED netVars
  /\ UNCHANGED <<linkVars, responseVars, m_use_p2p_proxy, timer, clientVars,
                 recvVars, historyVars>>

\* Mutation: the overlay is not told.
DestroyNetworkUnshown ==
  /\ Idle("DestroyNetwork") /\ ldn \in LdnSources("DestroyNetwork")
  /\ ldn' = LdnTarget("DestroyNetwork") /\ UNCHANGED shown
  /\ m_network_info' = "zero" /\ m_network_connected' = FALSE
  /\ RefreshTimeout
  /\ UNCHANGED <<linkVars, responseVars, m_use_p2p_proxy, clientVars, ipcVars,
                 recvVars, historyVars>>

\* The server is not told.
DestroyNetwork ==
  /\ Idle("DestroyNetwork") /\ ldn \in LdnSources("DestroyNetwork")
  /\ ldn' = LdnTarget("DestroyNetwork") /\ shown' = ldn'
  /\ m_network_info' = "zero" /\ m_network_connected' = FALSE
  /\ RefreshTimeout
  /\ UNCHANGED <<linkVars, responseVars, m_use_p2p_proxy, clientVars, ipcVars,
                 recvVars, historyVars>>

\* The link is kept for the next scan, and so is m_network_connected.
CloseStation ==
  /\ Idle("CloseStation") /\ ldn \in LdnSources("CloseStation")
  /\ ldn' = LdnTarget("CloseStation") /\ shown' = ldn'
  /\ m_network_info' = "zero"
  /\ UNCHANGED <<m_network_connected, linkVars, responseVars, m_use_p2p_proxy,
                 timer, clientVars, ipcVars, recvVars, historyVars>>

Disconnect ==
  /\ Idle("Disconnect")
  /\ \/ /\ ldn \in LdnSources("Disconnect")
        /\ ldn' = LdnTarget("Disconnect") /\ shown' = ldn'
        /\ \/ IsServerConnected /\ m_network_connected /\ SendFails
           \/ UNCHANGED <<client, sock>>
        /\ m_network_connected' = FALSE /\ m_network_info' = "zero"
        /\ RefreshTimeout
     \/ /\ ldn \notin LdnSources("Disconnect")
        /\ UNCHANGED <<netVars, client, sock, timer>>
  /\ UNCHANGED <<linkVars, responseVars, m_use_p2p_proxy, m_handshake_sent,
                 inbox, asked, ipcVars, recvVars, historyVars>>

\* SetAdvertiseData and SetStationAcceptPolicy: a send that succeeds changes
\* nothing here.
SendSetting ==
  /\ \E c \in SettingCall : Idle(c)
  /\ m_network_connected
  /\ SendFails
  /\ UNCHANGED <<netVars, linkVars, responseVars, m_use_p2p_proxy, timer,
                 m_handshake_sent, inbox, asked, ipcVars, recvVars,
                 historyVars>>

-----------------------------------------------------------------------------
(***************************************************************************)
(* OpenAccessPoint and OpenStation: the transition, ConnectToServer, and   *)
(* the way back if it fails.                                               *)
(***************************************************************************)
UndoOpen == IF call = "OpenStation" THEN "CloseStation" ELSE "CloseAccessPoint"

OpenBegin ==
  /\ \E c \in OpenCall : /\ Begin(c, "dial")
                         /\ ldn \in LdnSources(c) /\ ldn' = LdnTarget(c)
  /\ UNCHANGED <<shown, m_network_connected, m_network_info, linkVars,
                 responseVars, m_use_p2p_proxy, timer, clientVars, recvVars,
                 historyVars>>

OpenFails == Return /\ ldn' = LdnAfter(ldn, UndoOpen)

OpenAlreadyConnected ==
  /\ At("dial") /\ m_server_connected /\ client = "Ready"
  /\ shown' = LdnTarget(call) /\ Return
  /\ UNCHANGED <<ldn, m_network_connected, m_network_info, linkVars,
                 responseVars, m_use_p2p_proxy, timer, clientVars, recvVars,
                 historyVars>>

OpenDropsDead ==
  /\ At("dial") /\ m_server_connected /\ client # "Ready"
  /\ ClientDisconnect /\ m_server_connected' = FALSE
  /\ UNCHANGED <<netVars, registered, responseVars, m_use_p2p_proxy, timer,
                 ipcVars, recvVars, historyVars>>

OpenDials ==
  /\ At("dial") /\ ~m_server_connected
  /\ \/ ClientDials /\ Goto("dialed") /\ UNCHANGED ldn
     \/ ClientRefuses /\ OpenFails
  /\ UNCHANGED <<shown, m_network_connected, m_network_info, linkVars,
                 responseVars, m_use_p2p_proxy, timer, recvVars, historyVars>>

\* A dial that failed has left the socket down; the wait is for nothing else.
OpenChecksSocket ==
  /\ At("dialed")
  /\ \/ IsConnected(client) /\ Goto("handshake") /\ UNCHANGED ldn
     \/ ~IsConnected(client) /\ OpenFails
  /\ UNCHANGED <<shown, m_network_connected, m_network_info, linkVars,
                 responseVars, m_use_p2p_proxy, timer, clientVars, recvVars,
                 historyVars>>

\* An event or the time-out ends the wait; what counts is is_ready() after it.
OpenWaits ==
  /\ At("handshake")
  /\ \/ client = "Ready" /\ Goto("opened") /\ UNCHANGED <<ldn, clientVars>>
     \/ client # "Ready" /\ ClientDisconnect /\ OpenFails
  /\ UNCHANGED <<shown, m_network_connected, m_network_info, linkVars,
                 responseVars, m_use_p2p_proxy, timer, recvVars, historyVars>>

OpenDone ==
  /\ At("opened") /\ Return
  /\ m_server_connected' = TRUE /\ registered' = TRUE
  /\ shown' = LdnTarget(call)
  /\ UNCHANGED <<ldn, m_network_connected, m_network_info, responseVars,
                 m_use_p2p_proxy, timer, clientVars, recvVars, historyVars>>

-----------------------------------------------------------------------------
(***************************************************************************)
(* CreateNetwork, Connect and their private forms.                         *)
(***************************************************************************)
Op(c) == IF c \in CreateCall THEN "CreateNetwork" ELSE "Connect"
UndoOp(c) == IF c \in CreateCall THEN "DestroyNetwork" ELSE "Disconnect"

JoinBegin ==
  /\ \E c \in CreateCall \cup ConnectCall : Begin(c, "enter")
  /\ IsServerConnected
  /\ UNCHANGED <<netVars, linkVars, responseVars, m_use_p2p_proxy, timer,
                 clientVars, recvVars, historyVars>>

\* Mutation: the timer is left running until the answer has come.
JoinEnterKeepsTimer ==
  /\ At("enter") /\ UNCHANGED timer
  /\ \/ /\ ldn \in LdnSources(Op(call)) /\ Goto("send")
        /\ ldn' = LdnTarget(Op(call))
     \/ /\ ldn \notin LdnSources(Op(call)) /\ Return
        /\ UNCHANGED ldn
  /\ UNCHANGED <<shown, m_network_connected, m_network_info, linkVars,
                 responseVars, m_use_p2p_proxy, clientVars, recvVars,
                 historyVars>>

\* Only the creating commands stop the timer here.
JoinEnter ==
  /\ At("enter")
  /\ \/ call \in CreateCall /\ DisableTimeout
     \/ call \in ConnectCall /\ UNCHANGED timer
  /\ \/ /\ ldn \in LdnSources(Op(call)) /\ Goto("send")
        /\ ldn' = LdnTarget(Op(call))
     \/ /\ ldn \notin LdnSources(Op(call)) /\ Return
        /\ UNCHANGED ldn
  /\ UNCHANGED <<shown, m_network_connected, m_network_info, linkVars,
                 responseVars, m_use_p2p_proxy, clientVars, recvVars,
                 historyVars>>

JoinFails == Return /\ ldn' = LdnAfter(ldn, UndoOp(call))

(***************************************************************************)
(* The request goes out; whatever is still under way for an earlier one is *)
(* an older answer now.  The second request of Connect is the first again. *)
(***************************************************************************)
Asks == IF sock = "up" THEN {"latest"} ELSE {}

JoinSend ==
  /\ At("send")
  /\ \/ /\ SendSucceeds /\ Goto("check") /\ UNCHANGED ldn
        /\ \/ /\ retried
              /\ asked' = asked \cup Asks
              /\ UNCHANGED <<inbox, answered>>
           \/ /\ ~retried
              /\ asked' = {IF r = "latest" THEN "older" ELSE r : r \in asked}
                          \cup Asks
              /\ inbox' = [i \in DOMAIN inbox |-> [inbox[i] EXCEPT !.for = "older"]]
              /\ answered' = FALSE
     \/ SendFails /\ JoinFails /\ UNCHANGED <<asked, inbox, answered>>
  /\ UNCHANGED <<shown, m_network_connected, m_network_info, linkVars,
                 responseVars, m_use_p2p_proxy, timer, m_handshake_sent,
                 recvVars, raced>>

(***************************************************************************)
(* WaitForResponse(Connected): a look at what is already there, the events *)
(* cleared, the wait, and one last look.                                   *)
(***************************************************************************)
WaitCheck ==
  /\ At("check")
  /\ IF m_network_connected \/ m_last_response_id = "Connected"
     THEN Goto("joined") ELSE Goto("clearing")
  /\ UNCHANGED <<netVars, linkVars, responseVars, m_use_p2p_proxy, timer,
                 clientVars, recvVars, historyVars>>

WaitClear ==
  /\ At("clearing") /\ Goto("wait") /\ m_response_event' = FALSE
  /\ UNCHANGED <<netVars, linkVars, m_last_response_id, m_use_p2p_proxy,
                 timer, clientVars, recvVars, historyVars>>

\* A response (taken), or else the error event or the time-out.
WaitWakes ==
  /\ At("wait")
  /\ \/ /\ m_response_event /\ m_response_event' = FALSE
        /\ Goto(CASE m_last_response_id = "Connected"    -> "joined"
                  [] m_last_response_id = "ScanReplyEnd" -> "wait"
                  [] OTHER                               -> "last")
     \/ Goto("last") /\ UNCHANGED m_response_event
  /\ UNCHANGED <<netVars, linkVars, m_last_response_id, m_use_p2p_proxy,
                 timer, clientVars, recvVars, historyVars>>

\* Mutation: the wait gives up without the last look.
WaitLastUnchecked ==
  /\ At("last") /\ JoinFails
  /\ UNCHANGED <<shown, m_network_connected, m_network_info, linkVars,
                 responseVars, m_use_p2p_proxy, timer, clientVars, recvVars,
                 historyVars>>

\* After the last look Connect asks again, once, if P2P has been given up.
WaitLast ==
  /\ At("last")
  /\ \/ /\ m_network_connected /\ Goto("joined")
        /\ UNCHANGED ldn
     \/ /\ ~m_network_connected
        /\ call \in ConnectCall /\ ~m_use_p2p_proxy /\ ~retried
        /\ retried' = TRUE /\ pc' = "send" /\ UNCHANGED <<call, ldn>>
     \/ /\ ~m_network_connected
        /\ ~(call \in ConnectCall /\ ~m_use_p2p_proxy /\ ~retried)
        /\ JoinFails
  /\ UNCHANGED <<shown, m_network_connected, m_network_info, linkVars,
                 responseVars, m_use_p2p_proxy, timer, clientVars, recvVars,
                 historyVars>>

\* The private forms leave the network flag to the Connected handler.
JoinDone ==
  /\ At("joined") /\ Return
  /\ \/ /\ call \in {"CreateNetwork", "Connect"}
        /\ m_network_connected' = TRUE /\ DisableTimeout
     \/ /\ call \in {"CreateNetworkPrivate", "ConnectPrivate"}
        /\ UNCHANGED <<m_network_connected, timer>>
  /\ shown' = LdnTarget(Op(call))
  /\ UNCHANGED <<ldn, m_network_info, linkVars, responseVars, m_use_p2p_proxy,
                 clientVars, recvVars, historyVars>>

-----------------------------------------------------------------------------
(***************************************************************************)
(* Scan and Reject: an answer, an error or the time-out ends the wait.     *)
(***************************************************************************)
ScanBegin ==
  /\ IsServerConnected
  /\ \/ Begin("Scan", "scanning") /\ SendSucceeds
     \/ Idle("Scan") /\ SendFails /\ UNCHANGED ipcVars
  /\ UNCHANGED <<netVars, linkVars, responseVars, m_use_p2p_proxy, timer,
                 m_handshake_sent, inbox, asked, recvVars, historyVars>>

\* A scan without an answer ends well, with what has arrived; only an error
\* leaves the timer alone.
ScanEnds ==
  /\ At("scanning") /\ Return
  /\ RefreshTimeout \/ UNCHANGED timer
  /\ UNCHANGED <<netVars, linkVars, responseVars, m_use_p2p_proxy, clientVars,
                 recvVars, historyVars>>

RejectBegin ==
  /\ m_network_connected
  /\ \/ Begin("Reject", "rejecting") /\ SendSucceeds
     \/ Idle("Reject") /\ SendFails /\ UNCHANGED ipcVars
  /\ UNCHANGED <<netVars, linkVars, responseVars, m_use_p2p_proxy, timer,
                 m_handshake_sent, inbox, asked, recvVars, historyVars>>

RejectEnds ==
  /\ At("rejecting") /\ Return
  /\ UNCHANGED <<netVars, linkVars, responseVars, m_use_p2p_proxy, timer,
                 clientVars, recvVars, historyVars>>

-----------------------------------------------------------------------------
(***************************************************************************)
(* The receive thread: one pass of ReceiveThreadFunc's loop.               *)
(***************************************************************************)
RecvAt(label) == recvPc = label
RecvGoto(label) == recvPc' = label /\ UNCHANGED <<recvLdn, wasReady>>

\* The client's state and, on a loss, the LDN state are read.
RecvSample ==
  /\ RecvAt("top")
  /\ wasReady' = (client = "Ready")
  /\ \/ /\ wasReady
        /\ client \in {"Backoff", "Disconnected"} /\ NetworkActive(ldn)
        /\ recvPc' = "loss1" /\ recvLdn' = ldn
     \/ /\ ~(/\ wasReady
             /\ client \in {"Backoff", "Disconnected"} /\ NetworkActive(ldn))
        /\ recvPc' = IF IsConnected(client) THEN "update" ELSE "top"
        /\ UNCHANGED recvLdn
  /\ UNCHANGED <<netVars, linkVars, responseVars, m_use_p2p_proxy, timer,
                 clientVars, ipcVars, historyVars>>

LossFlagged ==
  /\ RecvAt("loss1") /\ RecvGoto("loss2")
  /\ m_server_connected' = FALSE
  /\ UNCHANGED <<netVars, registered, responseVars, m_use_p2p_proxy, timer,
                 clientVars, ipcVars, historyVars>>

LossRecorded ==
  /\ RecvAt("loss2") /\ RecvGoto("loss3")
  /\ m_network_connected' = FALSE /\ answered' = FALSE
  /\ UNCHANGED <<ldn, shown, m_network_info, linkVars, responseVars,
                 m_use_p2p_proxy, timer, clientVars, ipcVars, raced>>

LossTransition ==
  /\ RecvAt("loss3") /\ RecvGoto("loss4")
  /\ ldn' = LdnAfter(ldn, IF recvLdn = "StationConnected" THEN "Disconnect"
                                                          ELSE "DestroyNetwork")
  /\ raced' = (raced \/ pc # "idle")
  /\ UNCHANGED <<shown, m_network_connected, m_network_info, linkVars,
                 responseVars, m_use_p2p_proxy, timer, clientVars, ipcVars,
                 answered>>

LossShown ==
  /\ RecvAt("loss4")
  /\ recvPc' = "top" /\ recvLdn' = "None" /\ UNCHANGED wasReady
  /\ shown' = ldn /\ raced' = (raced \/ pc # "idle")
  /\ UNCHANGED <<ldn, m_network_connected, m_network_info, linkVars,
                 responseVars, m_use_p2p_proxy, timer, clientVars, ipcVars,
                 answered>>

(***************************************************************************)
(* update() of the client acts on its state now, which the IPC thread may  *)
(* have changed since the loop read it.  It never finds Disconnecting:     *)
(* only this thread's own update() moves there, and the loop then calls    *)
(* update() no more.  (Pings are off in the sysmodule.)                    *)
(***************************************************************************)
RecvUpdate ==
  /\ RecvAt("update")
  /\ \/ /\ client = "Connected" /\ ~m_handshake_sent
        /\ \/ client' = "Handshaking" /\ m_handshake_sent' = TRUE /\ UNCHANGED sock
           \/ /\ client' = "Backoff" /\ UNCHANGED m_handshake_sent
              /\ sock' = IF sock = "lost" THEN "down" ELSE sock
        /\ UNCHANGED inbox
     \/ /\ client = "Handshaking" /\ sock = "up"
        /\ client' \in {"Ready", "Backoff", "Error", "Handshaking"}
        /\ UNCHANGED <<m_handshake_sent, sock, inbox>>
     \/ /\ client = "Handshaking" /\ sock # "up"
        /\ client' \in {"Backoff", "Handshaking"} /\ sock' = "down"
        /\ UNCHANGED <<m_handshake_sent, inbox>>
     \/ /\ client = "Backoff" /\ sock = "down"
        /\ \/ client' = "Connected" /\ sock' = "up" /\ inbox' = <<>>
           \/ UNCHANGED <<client, sock, inbox>>
        /\ UNCHANGED m_handshake_sent
     \/ /\ \/ client = "Connected" /\ m_handshake_sent
           \/ client = "Backoff" /\ sock # "down"
           \/ client \in {"Disconnected", "Error", "Ready"}
        /\ UNCHANGED <<client, m_handshake_sent, sock, inbox>>
  /\ RecvGoto(IF client = "Ready" /\ sock # "down" THEN "drain" ELSE "timeout")
  /\ UNCHANGED <<netVars, linkVars, responseVars, m_use_p2p_proxy, timer,
                 asked, ipcVars, historyVars>>

(***************************************************************************)
(* What HandleServerPacket makes of a packet: PortUnreachable only turns   *)
(* P2P off.  SyncNetwork refreshes the info, ScanReply adds a scan result, *)
(* ExternalProxy starts the connect thread: none of them changes what is   *)
(* modelled here.                                                          *)
(***************************************************************************)
JoinedAfter(p) == m_network_connected \/ p.kind = "Connected"

UseP2pAfter(p) == m_use_p2p_proxy /\ p.kind # "PortUnreachable"

ResponseIdOf(p) == IF p.kind \in ResponseId THEN p.kind ELSE "other"

HandleServerPacket(p) ==
  /\ m_network_info' = IF p.kind = "Connected" THEN "set" ELSE m_network_info
  /\ m_network_connected' = JoinedAfter(p)
  /\ m_use_p2p_proxy' = UseP2pAfter(p)
  /\ IF p.kind \in ResponseKind
     THEN m_last_response_id' = ResponseIdOf(p) /\ m_response_event' = TRUE
     ELSE UNCHANGED responseVars
  /\ answered' = (answered \/ (p.kind = "Connected" /\ p.for = "latest"))

(***************************************************************************)
(* The receive loop of the client.  A Disconnect is the client's own       *)
(* affair; every other packet goes to HandleServerPacket.                  *)
(***************************************************************************)
RecvPacket ==
  /\ RecvAt("drain") /\ sock # "down" /\ inbox # <<>>
  /\ inbox' = Tail(inbox)
  /\ LET p == Head(inbox)
     IN \/ /\ p.kind = "Disconnect"
           /\ client' = ClientAfter(client, "Disconnect")
           /\ UNCHANGED <<m_network_info, m_network_connected, m_use_p2p_proxy,
                          responseVars, answered>>
        \/ /\ p.kind # "Disconnect" /\ HandleServerPacket(p)
           /\ UNCHANGED client
  /\ UNCHANGED <<ldn, shown, linkVars, timer, m_handshake_sent, sock, asked,
                 ipcVars, recvVars, raced>>

\* The loop ends: nothing left, a loss, or an error that is only logged.
RecvDrained ==
  /\ RecvAt("drain") /\ RecvGoto("timeout")
  /\ \/ sock = "up" /\ inbox = <<>> /\ UNCHANGED <<client, sock, inbox>>
     \/ /\ sock # "up" /\ client' = ClientAfter(client, "ConnectionLost")
        /\ sock' = "down" /\ inbox' = <<>>
     \/ sock = "lost" /\ sock' = "down" /\ UNCHANGED <<client, inbox>>
  /\ UNCHANGED <<netVars, linkVars, responseVars, m_use_p2p_proxy, timer,
                 m_handshake_sent, asked, ipcVars, historyVars>>

\* OnInactivityTimeout asks this before it cuts.
MayCut == registered /\ ~m_network_connected

(***************************************************************************)
(* CheckTimeout, and its callback with the timer's mutex held.             *)
(***************************************************************************)
RecvCheckTimeout ==
  /\ RecvAt("timeout")
  /\ \/ RecvGoto("top") /\ UNCHANGED timer
     \/ /\ timer /\ timer' = FALSE
        /\ RecvGoto(IF MayCut THEN "callback" ELSE "top")
  /\ UNCHANGED <<netVars, linkVars, responseVars, m_use_p2p_proxy, clientVars,
                 ipcVars, historyVars>>

OnInactivityTimeout ==
  /\ RecvAt("callback") /\ RecvGoto("top")
  /\ DisconnectFromServer
  /\ UNCHANGED <<netVars, m_last_response_id, m_use_p2p_proxy, timer, ipcVars,
                 historyVars>>

-----------------------------------------------------------------------------
(***************************************************************************)
(* HandleExternalProxyConnect, on the connect thread, which may outlive    *)
(* the command that asked: a dial that fails turns P2P off for good.       *)
(***************************************************************************)
P2pDialFails ==
  /\ m_use_p2p_proxy /\ m_use_p2p_proxy' = FALSE
  /\ UNCHANGED <<netVars, linkVars, responseVars, timer, clientVars, ipcVars,
                 recvVars, historyVars>>

(***************************************************************************)
(* The server and the network to it.                                       *)
(***************************************************************************)
Deliver(kind, for) ==
  /\ kind \in Packets /\ sock = "up" /\ Len(inbox) < MaxInbox
  /\ inbox' = Append(inbox, [kind |-> kind, for |-> for])

ServerAnswers ==
  \E r \in asked : /\ Deliver("Connected", r) \/ Deliver("NetworkError", "older")
                  /\ asked' = asked \ {r}

\* The other packets may come, late answers among them, at any time.
ServerPushes ==
  /\ client = "Ready" /\ UNCHANGED asked
  /\ \E kind \in PacketKind \ {"Connected", "NetworkError"} :
       Deliver(kind, "older")

Server ==
  /\ ServerAnswers \/ ServerPushes
  /\ UNCHANGED <<netVars, linkVars, responseVars, m_use_p2p_proxy, timer,
                 client, m_handshake_sent, sock, ipcVars, recvVars,
                 historyVars>>

LinkLost ==
  /\ sock = "up" /\ sock' = "lost" /\ asked' = {}
  /\ UNCHANGED <<netVars, linkVars, responseVars, m_use_p2p_proxy, timer,
                 client, m_handshake_sent, inbox, ipcVars, recvVars,
                 historyVars>>

-----------------------------------------------------------------------------
Begins ==
  \/ Initialize \/ CutServer \/ DestroyNetwork \/ CloseStation
  \/ Disconnect \/ SendSetting \/ OpenBegin \/ JoinBegin
  \/ ScanBegin \/ RejectBegin

Continues ==
  \/ Finalize \/ CloseAccessPoint
  \/ OpenAlreadyConnected \/ OpenDropsDead \/ OpenDials \/ OpenChecksSocket
  \/ OpenWaits \/ OpenDone
  \/ JoinEnter \/ JoinSend \/ WaitCheck \/ WaitClear \/ WaitWakes \/ WaitLast
  \/ JoinDone
  \/ ScanEnds \/ RejectEnds

ReceiveThread ==
  \/ RecvSample \/ LossFlagged \/ LossRecorded \/ LossTransition \/ LossShown
  \/ RecvUpdate \/ RecvPacket \/ RecvDrained
  \/ RecvCheckTimeout \/ OnInactivityTimeout

Next ==
  \/ Begins \/ Continues \/ ReceiveThread \/ P2pDialFails
  \/ Server \/ LinkLost

Spec == Init /\ [][Next]_vars

(***************************************************************************)
(* Every thread that can run does, and a wait that is not answered times   *)
(* out; the game and the server need not do anything.                      *)
(***************************************************************************)
FairSpec ==
  /\ Spec
  /\ WF_vars(Continues) /\ WF_vars(ReceiveThread)

\* A game that, whenever it can, opens a station again.
RetryingSpec == FairSpec /\ WF_vars(OpenBegin)

-----------------------------------------------------------------------------
(***************************************************************************)
(* Properties.                                                             *)
(***************************************************************************)
AtRest == pc = "idle" /\ recvPc \notin {"loss1", "loss2", "loss3", "loss4"}

(***************************************************************************)
(* WaitForResponse gives up, and the command rolls back, only if the       *)
(* Connected for its request was not handled: between the sending of the   *)
(* request, the clearing of the event, and the last look under the mutex   *)
(* no answer is lost, unless the receive thread has recorded a loss of the *)
(* connection meanwhile.                                                   *)
(***************************************************************************)
AnswerIsTaken == [][pc = "last" /\ pc' = "idle" => ~answered]_vars

(***************************************************************************)
(* No early return of OpenStation, CreateNetwork and the others forgets    *)
(* its rollback, whatever the receive thread's own transitions do in       *)
(* between: with no command under way the overlay's state is the game's.   *)
(* Not so once the receive thread has written either during a command:     *)
(* JoinDone shows a constant, and an OpenStation that fails shows nothing. *)
(***************************************************************************)
OverlayFollows == AtRest /\ ~raced => shown = ldn

(***************************************************************************)
(* After Finalize nothing of the session comes back, although the receive  *)
(* thread goes on: no registration with the BSD side, no network flag, and *)
(* the server connection is not counted as open.                           *)
(***************************************************************************)
FinalizeIsFinal ==
  ldn = "None" => ~registered /\ ~m_network_connected /\ ~m_server_connected

(***************************************************************************)
(* OnInactivityTimeout never "fires mid-CreateNetwork" (CreateNetwork):    *)
(* from its first transition to its return, eight seconds of waiting       *)
(* included, the timer does not tear the master link down.                 *)
(***************************************************************************)
TimerSparesCreate == TimerHeld => ~(call \in CreateCall /\ pc # "enter")

-----------------------------------------------------------------------------
(***************************************************************************)
(* What comments in the code say and the code does not keep.               *)
(***************************************************************************)

(***************************************************************************)
(* "m_network_info is already set by the Connected packet handler"         *)
(* (Connect): a game in a network is given that network's info.            *)
(***************************************************************************)
JoinedHasInfo == AtRest /\ NetworkActive(ldn) => m_network_info # "zero"

(***************************************************************************)
(* Connecting is "the exclusive responsibility of the IPC thread via       *)
(* ConnectToServer()" (ReceiveThreadFunc), and the "game will call         *)
(* OpenStation": a game that does gets the client out of Backoff.          *)
(***************************************************************************)
ReopenLeavesBackoff == client = "Backoff" ~> client # "Backoff"
=============================================================================
