---------------------------- MODULE RyuLdnClient ----------------------------
(***************************************************************************)
(* The master-server client (network/client.{hpp,cpp}): it owns the        *)
(* connection state machine, the reconnect manager and the TCP client, and *)
(* is driven by calls of connect(), disconnect(), send_*() and update().   *)
(* As client.hpp demands, the calls come from one thread; the socket, the  *)
(* background sender and the server move between them.                     *)
(*                                                                         *)
(* Time is kept as ages: the code compares current_time_ms minus a stored  *)
(* time stamp with a delay, so the model stores the difference, in ticks,  *)
(* saturated at AgeMax (beyond every delay).  A stamp of 0, which the code *)
(* reads as "never set", is NoTime.                                        *)
(***************************************************************************)
EXTENDS ConnectionStateMachine, Integers, Sequences, FiniteSets

CONSTANTS
  AutoReconnect,      \* m_config.auto_reconnect
  DelayOf,            \* DelayOf[n]: what get_next_delay_ms_with_jitter may
                      \*   return after n recorded failures, in ticks
  HandshakeTimeout,   \* m_handshake_timeout_ms, in ticks
  PingInterval,       \* m_config.ping_interval_ms (0 in production), in ticks
  PingTimeout,        \* m_ping_timeout_ms, in ticks
  AgeMax,             \* ages saturate here
  Reachable,          \* TRUE: a TCP connect of a closed socket never fails
  Packets,            \* the packets the server may send
  MaxInbox            \* bound on the packets under way to the client

Packet == {"Initialize", "SyncNetwork", "VersionMismatch", "InvalidSessionId",
           "NetworkError", "Ping", "Pong", "Disconnect", "Data", "TooLarge"}

ErrorCode == {"None", "HandshakeTimeout", "VersionMismatch",
              "InvalidSessionId", "Other", "ConnectionRejected"}

ASSUME ClientAssumption ==
  /\ AutoReconnect \in BOOLEAN /\ Reachable \in BOOLEAN
  /\ HandshakeTimeout \in Nat /\ PingInterval \in Nat /\ PingTimeout \in Nat
  /\ MaxInbox \in Nat
  /\ AgeMax \in Nat \ {0} /\ HandshakeTimeout <= AgeMax
  /\ PingInterval <= AgeMax /\ PingTimeout <= AgeMax
  /\ DelayOf \in [0..RetryMax -> (SUBSET (0..AgeMax)) \ {{}}]
  /\ Packets \subseteq Packet

VARIABLES
  machine,            \* m_state_machine
  reported,           \* the state m_state_callback was last told
  m_retry_count,      \* of m_reconnect_manager
  m_connected,        \* of the TCP client's socket
  peer,               \* the other end of the socket: "none", "up" or "gone"
  inbox,              \* packets under way from the server
  queued,             \* proxy data waits in the TCP client's send queue
  m_handshake_sent,
  handshakeAge,       \* age of m_handshake_start_time_ms
  backoffAge,         \* age of m_backoff_start_time_ms
  backoffDelay,       \* m_current_backoff_delay_ms
  updateAge,          \* age of m_last_update_time_ms
  pingAge,            \* age of m_last_ping_time_ms
  pingPending,        \* m_pending_ping_count > 0
  m_last_error_code,
  pc                  \* "idle", or "draining" inside process_packets

socketVars  == <<m_connected, peer, inbox, queued>>
backoffVars == <<backoffAge, backoffDelay>>
pingVars    == <<pingAge, pingPending>>
vars == <<machine, reported, m_retry_count, socketVars, m_handshake_sent,
          handshakeAge, backoffVars, updateAge, pingVars, m_last_error_code, pc>>

NoTime == -1
Age == 0..AgeMax
Stamp == Age \cup {NoTime}
Older(a) == IF a = NoTime THEN NoTime ELSE IF a < AgeMax THEN a + 1 ELSE a

State == machine.state

TypeOK ==
  /\ machine \in Machine
  /\ reported \in ConnectionState
  /\ m_retry_count \in 0..RetryMax
  /\ m_connected \in BOOLEAN
  /\ peer \in {"none", "up", "gone"}
  /\ inbox \in Seq(Packets)
  /\ queued \in BOOLEAN
  /\ m_handshake_sent \in BOOLEAN
  /\ handshakeAge \in Stamp
  /\ backoffAge \in Stamp
  /\ backoffDelay \in 0..AgeMax
  /\ updateAge \in Stamp
  /\ pingAge \in Age
  /\ pingPending \in BOOLEAN
  /\ m_last_error_code \in ErrorCode
  /\ pc \in {"idle", "draining"}

Init ==
  /\ machine = InitialMachine
  /\ reported = "Disconnected"
  /\ m_retry_count = 0
  /\ m_connected = FALSE /\ peer = "none" /\ inbox = <<>> /\ queued = FALSE
  /\ m_handshake_sent = FALSE
  /\ handshakeAge = NoTime /\ backoffAge = NoTime /\ updateAge = NoTime
  /\ backoffDelay = 0
  /\ pingAge = AgeMax /\ pingPending = FALSE
  /\ m_last_error_code = "None"
  /\ pc = "idle"

-----------------------------------------------------------------------------
(***************************************************************************)
(* The socket, the background sender and the server.                       *)
(***************************************************************************)
Tick ==
  /\ pc = "idle"
  /\ handshakeAge' = Older(handshakeAge)
  /\ backoffAge' = Older(backoffAge)
  /\ updateAge' = Older(updateAge)
  /\ pingAge' = Older(pingAge)
  /\ UNCHANGED <<machine, reported, m_retry_count, socketVars, pingPending,
                 m_handshake_sent, backoffDelay, m_last_error_code, pc>>

ServerSends(p) ==
  /\ peer = "up" /\ Len(inbox) < MaxInbox
  /\ inbox' = Append(inbox, p)
  /\ UNCHANGED <<machine, reported, m_retry_count, m_connected, peer, queued,
                 m_handshake_sent, handshakeAge, backoffVars, updateAge,
                 pingVars, m_last_error_code, pc>>

PeerGoes ==
  /\ peer = "up"
  /\ peer' = "gone"
  /\ UNCHANGED <<machine, reported, m_retry_count, m_connected, inbox, queued,
                 m_handshake_sent, handshakeAge, backoffVars, updateAge,
                 pingVars, m_last_error_code, pc>>

(***************************************************************************)
(* TcpClient::SendThreadLoop empties the queue, or meets an error: the     *)
(* socket is marked down, the loop ends, and nobody is told.               *)
(***************************************************************************)
SendThread ==
  /\ queued /\ m_connected
  /\ \/ queued' = FALSE /\ UNCHANGED m_connected
     \/ peer = "gone" /\ m_connected' = FALSE /\ UNCHANGED queued
  /\ UNCHANGED <<machine, reported, m_retry_count, peer, inbox,
                 m_handshake_sent, handshakeAge, backoffVars, updateAge,
                 pingVars, m_last_error_code, pc>>

(***************************************************************************)
(* Results of TcpClient::send_* (Socket::send_all) for a socket whose      *)
(* m_connected is up.  A full kernel buffer times out; of the other errors *)
(* only a reset or a close is reported as ConnectionLost.                  *)
(***************************************************************************)
SendOutcomes(up) ==
  IF ~up THEN {"NotConnected"}
  ELSE {"Success", "Timeout"}
       \cup (IF peer = "gone" THEN {"ConnectionLost", "InternalError"} ELSE {})

(***************************************************************************)
(* Results of TcpClient::receive_packet.  A packet that does not fit the   *)
(* 2048-byte buffer is left where it is.  Once the peer is gone a pending  *)
(* hang-up may be seen before the packets still queued in the kernel.      *)
(***************************************************************************)
ReceiveOutcomes ==
  IF ~m_connected THEN {"NotConnected"}
  ELSE (IF peer = "gone" THEN {"ConnectionLost", "InternalError"} ELSE {})
       \cup (IF inbox = <<>> THEN (IF peer = "up" THEN {"Timeout"} ELSE {})
             ELSE IF Head(inbox) = "TooLarge" THEN {"BufferTooSmall"}
             ELSE {"Success"})

(***************************************************************************)
(* m_connected after such a result: every socket error clears it.          *)
(***************************************************************************)
SocketUp(result) == result \in {"Success", "Timeout", "BufferTooSmall"}

(***************************************************************************)
(* ReconnectManager, as far as the client uses it.                         *)
(***************************************************************************)
RecordFailure == m_retry_count' = IF m_retry_count < RetryMax
                                  THEN m_retry_count + 1 ELSE m_retry_count
ResetRetries == m_retry_count' = 0

\* Mutation: the state callback is not called.
ReportNothing == UNCHANGED reported

(***************************************************************************)
(* The state callback is told of every change, in the function making it.  *)
(***************************************************************************)
Report == reported' = IF machine'.state # State THEN machine'.state ELSE reported

(***************************************************************************)
(* start_backoff, called when auto_reconnect is set: the timer starts at   *)
(* the last update, whose age now is updAge, and runs for one of the       *)
(* jittered delays after n failures.                                       *)
(***************************************************************************)
StartBackoff(updAge, n) ==
  IF AutoReconnect THEN backoffAge' = updAge /\ backoffDelay' \in DelayOf[n]
                   ELSE UNCHANGED backoffVars

(***************************************************************************)
(* TcpClient::connect refuses a socket that still counts as connected;     *)
(* otherwise it drops the queue and the receive buffer and dials.          *)
(***************************************************************************)
TcpConnect(ok) ==
  \/ /\ ok /\ ~m_connected
     /\ m_connected' = TRUE /\ peer' = "up" /\ inbox' = <<>> /\ queued' = FALSE
  \/ /\ ~ok /\ ~m_connected /\ ~Reachable
     /\ m_connected' = FALSE /\ peer' = "none" /\ inbox' = <<>> /\ queued' = FALSE
  \/ /\ ~ok /\ m_connected
     /\ UNCHANGED socketVars

(***************************************************************************)
(* try_connect, called with the machine in m (Connecting or Retrying).     *)
(***************************************************************************)
TryConnect(m, updAge) ==
  \/ /\ TcpConnect(TRUE)
     /\ machine' = ProcessEvent(m, "ConnectSuccess")
     /\ ResetRetries
     /\ UNCHANGED backoffVars
  \/ /\ TcpConnect(FALSE)
     /\ machine' = ProcessEvent(m, "ConnectFailed")
     /\ RecordFailure
     /\ StartBackoff(updAge, m_retry_count')

-----------------------------------------------------------------------------
(***************************************************************************)
(* connect(): refused in a connected or a transitional state other than    *)
(* Backoff (nothing changes); in Backoff and Error it resets               *)
(* m_handshake_sent and then finds Connect invalid.                        *)
(***************************************************************************)
Connect ==
  /\ pc = "idle"
  /\ ~IsConnected(State)
  /\ ~IsTransitioning(State) \/ State = "Backoff"
  /\ m_handshake_sent' = FALSE
  /\ \/ /\ IsValidTransition(State, "Connect")
        /\ TryConnect(ProcessEvent(machine, "Connect"), updateAge)
        /\ reported' = machine'.state
     \/ /\ ~IsValidTransition(State, "Connect")
        /\ UNCHANGED <<machine, reported, m_retry_count, socketVars, backoffVars>>
  /\ UNCHANGED <<handshakeAge, updateAge, pingVars, m_last_error_code, pc>>

\* Mutation: only a connected machine has its socket closed.
DisconnectIfConnected ==
  /\ pc = "idle"
  /\ IF IsConnected(State)
     THEN m_connected' = FALSE /\ peer' = "none" /\ inbox' = <<>> /\ queued' = FALSE
     ELSE UNCHANGED socketVars
  /\ LET m == ProcessEvent(machine, "Disconnect")
     IN machine' = IF m.state = "Disconnecting"
                   THEN ProcessEvent(m, "ConnectionLost") ELSE m
  /\ reported' = machine'.state
  /\ ResetRetries
  /\ m_handshake_sent' = FALSE
  /\ UNCHANGED <<handshakeAge, backoffVars, updateAge, pingVars,
                 m_last_error_code, pc>>

(***************************************************************************)
(* disconnect(): the Disconnect message (its result is ignored), the       *)
(* socket, the machine (through Disconnecting if need be), the counters.   *)
(***************************************************************************)
Disconnect ==
  /\ pc = "idle"
  /\ m_connected' = FALSE /\ peer' = "none" /\ inbox' = <<>> /\ queued' = FALSE
  /\ LET m == ProcessEvent(machine, "Disconnect")
     IN machine' = IF m.state = "Disconnecting"
                   THEN ProcessEvent(m, "ConnectionLost") ELSE m
  /\ reported' = machine'.state
  /\ ResetRetries
  /\ m_handshake_sent' = FALSE
  /\ UNCHANGED <<handshakeAge, backoffVars, updateAge, pingVars,
                 m_last_error_code, pc>>

(***************************************************************************)
(* Every send_*() except send_proxy_data: a lost connection is put to the  *)
(* machine, without start_backoff; other errors only fail the call.        *)
(***************************************************************************)
SendControl ==
  /\ pc = "idle" /\ State = "Ready"
  /\ \E o \in SendOutcomes(m_connected) :
       /\ m_connected' = SocketUp(o)
       /\ machine' = IF o = "ConnectionLost"
                     THEN ProcessEvent(machine, "ConnectionLost") ELSE machine
  /\ Report
  /\ UNCHANGED <<m_retry_count, peer, inbox, queued, m_handshake_sent,
                 handshakeAge, backoffVars, updateAge, pingVars,
                 m_last_error_code, pc>>

(***************************************************************************)
(* send_proxy_data only queues; a socket already marked down is a loss.    *)
(***************************************************************************)
SendProxyData ==
  /\ pc = "idle" /\ State = "Ready"
  /\ \/ m_connected /\ queued' = TRUE /\ UNCHANGED machine
     \/ /\ ~m_connected /\ UNCHANGED queued
        /\ machine' = ProcessEvent(machine, "ConnectionLost")
  /\ Report
  /\ UNCHANGED <<m_retry_count, m_connected, peer, inbox, m_handshake_sent,
                 handshakeAge, backoffVars, updateAge, pingVars,
                 m_last_error_code, pc>>

-----------------------------------------------------------------------------
(***************************************************************************)
(* update(current_time_ms), one action per case of its switch.             *)
(***************************************************************************)
BeginUpdate(s) == pc = "idle" /\ State = s /\ updateAge' = 0

\* Disconnected, Error, and (never found at rest) Connecting and Retrying.
UpdateNothing ==
  /\ pc = "idle" /\ updateAge' = 0
  /\ State \in {"Disconnected", "Connecting", "Retrying", "Error"}
  /\ UNCHANGED <<machine, reported, m_retry_count, socketVars, m_handshake_sent,
                 handshakeAge, backoffVars, pingVars, m_last_error_code, pc>>

\* Mutation: the mark is forgotten.
MarkHandshakeForgotten == UNCHANGED m_handshake_sent /\ handshakeAge' = 0

MarkHandshakeSent == m_handshake_sent' = TRUE /\ handshakeAge' = 0

(***************************************************************************)
(* Connected: send the passphrase and the Initialize message, once.  A     *)
(* lost connection is put to the machine by send_initialize and once more  *)
(* (invalidly) by update; any other error is a failed handshake.           *)
(***************************************************************************)
UpdateConnected ==
  /\ BeginUpdate("Connected")
  /\ \/ /\ m_handshake_sent
        /\ UNCHANGED <<machine, reported, m_connected, m_handshake_sent,
                       handshakeAge, backoffVars>>
     \/ /\ ~m_handshake_sent
        /\ \E o \in SendOutcomes(m_connected) :
             /\ m_connected' = SocketUp(o)
             /\ \/ /\ o = "Success"
                   /\ MarkHandshakeSent
                   /\ machine' = ProcessEvent(machine, "HandshakeStarted")
                   /\ UNCHANGED backoffVars
                \/ /\ o # "Success"
                   /\ machine' = ProcessEvent(
                        IF o = "ConnectionLost"
                        THEN ProcessEvent(machine, "ConnectionLost") ELSE machine,
                        "HandshakeFailed")
                   /\ StartBackoff(0, m_retry_count)
                   /\ UNCHANGED <<m_handshake_sent, handshakeAge>>
        /\ Report
  /\ UNCHANGED <<m_retry_count, peer, inbox, queued, pingVars,
                 m_last_error_code, pc>>

(***************************************************************************)
(* process_handshake_response: the event and the error code each answer    *)
(* stands for; Ping, Pong and data go to the packet callback alone.        *)
(***************************************************************************)
\* Mutation: any data counts as the server's answer.
HandshakeEventAcceptsData(p) ==
  CASE p \in {"Initialize", "SyncNetwork", "Data"} -> "HandshakeSuccess"
    [] p = "VersionMismatch" -> "FatalError"
    [] p \in {"InvalidSessionId", "NetworkError", "Disconnect"} -> "HandshakeFailed"
    [] OTHER -> "none"

HandshakeEvent(p) ==
  CASE p \in {"Initialize", "SyncNetwork"} -> "HandshakeSuccess"
    [] p = "VersionMismatch" -> "FatalError"
    [] p \in {"InvalidSessionId", "NetworkError", "Disconnect"} -> "HandshakeFailed"
    [] OTHER -> "none"

HandshakeError(p) ==
  CASE p \in {"VersionMismatch", "InvalidSessionId"} -> p
    [] p = "NetworkError" -> "Other"
    [] p = "Disconnect" -> "ConnectionRejected"
    [] OTHER -> "None"

HandshakeResponse(p) ==
  IF HandshakeEvent(p) = "none"
  THEN UNCHANGED <<machine, m_last_error_code, backoffVars>>
  ELSE /\ machine' = ProcessEvent(machine, HandshakeEvent(p))
       /\ m_last_error_code' = HandshakeError(p)
       /\ IF HandshakeEvent(p) = "HandshakeFailed"
          THEN StartBackoff(0, m_retry_count) ELSE UNCHANGED backoffVars

\* Mutation: the age is compared before the handshake has a start time.
IsHandshakeTimeoutUnstarted == handshakeAge = NoTime

IsHandshakeTimeout == handshakeAge # NoTime /\ handshakeAge >= HandshakeTimeout

(***************************************************************************)
(* Handshaking: the timeout first, then at most one packet.                *)
(***************************************************************************)
UpdateHandshaking ==
  /\ BeginUpdate("Handshaking")
  /\ \/ /\ IsHandshakeTimeout
        /\ machine' = ProcessEvent(machine, "HandshakeFailed")
        /\ m_last_error_code' = "HandshakeTimeout"
        /\ StartBackoff(0, m_retry_count)
        /\ UNCHANGED <<m_connected, inbox>>
     \/ /\ ~IsHandshakeTimeout
        /\ \E o \in ReceiveOutcomes :
             /\ m_connected' = SocketUp(o)
             /\ \/ /\ o = "Success"
                   /\ inbox' = Tail(inbox)
                   /\ HandshakeResponse(Head(inbox))
                \/ /\ o = "ConnectionLost"
                   /\ inbox' = <<>>
                   /\ machine' = ProcessEvent(machine, "ConnectionLost")
                   /\ StartBackoff(0, m_retry_count)
                   /\ UNCHANGED m_last_error_code
                \/ /\ o \notin {"Success", "ConnectionLost"}
                   /\ UNCHANGED <<inbox, machine, m_last_error_code, backoffVars>>
  /\ Report
  /\ UNCHANGED <<m_retry_count, peer, queued, m_handshake_sent, handshakeAge,
                 pingVars, pc>>

(***************************************************************************)
(* Ready: process_packets is entered when the socket is up; its loop is    *)
(* the action DrainPacket, and the ping checks follow it.                  *)
(***************************************************************************)
PingChecks(up) ==
  \/ /\ pingPending /\ PingTimeout > 0 /\ pingAge >= PingTimeout
     /\ machine' = ProcessEvent(machine, "ConnectionLost")
     /\ Report
     /\ StartBackoff(0, m_retry_count)
     /\ m_connected' = up
     /\ UNCHANGED pingVars
  \/ /\ ~(pingPending /\ PingTimeout > 0 /\ pingAge >= PingTimeout)
     /\ PingInterval > 0 /\ pingAge >= PingInterval /\ State = "Ready"
     /\ \E o \in SendOutcomes(up) :
          /\ m_connected' = SocketUp(o)
          /\ machine' = IF o = "ConnectionLost"
                        THEN ProcessEvent(machine, "ConnectionLost") ELSE machine
          /\ IF o = "Success" THEN pingAge' = 0 /\ pingPending' = TRUE
                                 ELSE UNCHANGED pingVars
     /\ Report
     /\ UNCHANGED backoffVars
  \/ /\ ~(pingPending /\ PingTimeout > 0 /\ pingAge >= PingTimeout)
     /\ ~(PingInterval > 0 /\ pingAge >= PingInterval /\ State = "Ready")
     /\ m_connected' = up
     /\ UNCHANGED <<machine, reported, backoffVars, pingVars>>

UpdateReady ==
  /\ BeginUpdate("Ready")
  /\ \/ /\ m_connected
        /\ pc' = "draining"
        /\ UNCHANGED <<machine, reported, m_connected, backoffVars, pingVars>>
     \/ /\ ~m_connected
        /\ PingChecks(FALSE)
        /\ UNCHANGED pc
  /\ UNCHANGED <<m_retry_count, peer, inbox, queued, m_handshake_sent,
                 handshakeAge, m_last_error_code>>

(***************************************************************************)
(* handle_packet.  The echo of a ping is a send whose result is ignored; a *)
(* Disconnect is put to the machine and not to the state callback.         *)
(***************************************************************************)
HandlePacket(p) ==
  \/ /\ p = "Ping"
     /\ \E o \in SendOutcomes(m_connected) : m_connected' = SocketUp(o)
     /\ UNCHANGED <<machine, pingVars>>
  \/ /\ p = "Pong"
     /\ pingPending' = FALSE
     /\ UNCHANGED <<machine, m_connected, pingAge>>
  \/ /\ p = "Disconnect"
     /\ machine' = ProcessEvent(machine, "Disconnect")
     /\ UNCHANGED <<m_connected, pingVars>>
  \/ /\ p \notin {"Ping", "Pong", "Disconnect"}
     /\ UNCHANGED <<machine, m_connected, pingVars>>

DrainPacket ==
  /\ pc = "draining"
  /\ "Success" \in ReceiveOutcomes
  /\ inbox' = Tail(inbox)
  /\ HandlePacket(Head(inbox))
  /\ UNCHANGED <<reported, m_retry_count, peer, queued, m_handshake_sent,
                 handshakeAge, backoffVars, updateAge, m_last_error_code, pc>>

\* The loop ends by a loss; the ping checks change nothing outside Ready.
DrainLost ==
  /\ pc = "draining" /\ pc' = "idle"
  /\ \E o \in ReceiveOutcomes :
       o \in {"ConnectionLost", "NotConnected"} /\ m_connected' = SocketUp(o)
  /\ machine' = ProcessEvent(machine, "ConnectionLost")
  /\ Report
  /\ StartBackoff(0, m_retry_count)
  /\ inbox' = <<>>
  /\ UNCHANGED <<m_retry_count, peer, queued, m_handshake_sent, handshakeAge,
                 updateAge, pingVars, m_last_error_code>>

\* The loop ends by a timeout, or by an error that is only logged.
DrainEnds ==
  /\ pc = "draining" /\ pc' = "idle"
  /\ \E o \in ReceiveOutcomes :
       /\ o \in {"Timeout", "BufferTooSmall", "InternalError"}
       /\ PingChecks(SocketUp(o))
  /\ UNCHANGED <<m_retry_count, peer, inbox, queued, m_handshake_sent,
                 handshakeAge, updateAge, m_last_error_code>>

\* Mutation: a timer that was never started is left alone.
UpdateBackoffNeverStarts ==
  /\ BeginUpdate("Backoff")
  /\ \/ /\ backoffAge = NoTime \/ backoffAge < backoffDelay
        /\ UNCHANGED <<machine, reported, m_retry_count, socketVars, backoffVars>>
     \/ /\ backoffAge # NoTime /\ backoffAge >= backoffDelay
        /\ TryConnect(ProcessEvent(machine, "BackoffExpired"), 0)
        /\ reported' = machine'.state
  /\ UNCHANGED <<m_handshake_sent, handshakeAge, pingVars, m_last_error_code, pc>>

(***************************************************************************)
(* Backoff: a timer that was never started starts now; an expired one      *)
(* makes the machine Retrying and dials.                                   *)
(***************************************************************************)
UpdateBackoff ==
  /\ BeginUpdate("Backoff")
  /\ \/ /\ backoffAge = NoTime
        /\ backoffAge' = 0
        /\ UNCHANGED <<machine, reported, m_retry_count, socketVars, backoffDelay>>
     \/ /\ backoffAge # NoTime /\ backoffAge < backoffDelay
        /\ UNCHANGED <<machine, reported, m_retry_count, socketVars, backoffVars>>
     \/ /\ backoffAge # NoTime /\ backoffAge >= backoffDelay
        /\ TryConnect(ProcessEvent(machine, "BackoffExpired"), 0)
        /\ reported' = machine'.state
  /\ UNCHANGED <<m_handshake_sent, handshakeAge, pingVars, m_last_error_code, pc>>

UpdateDisconnecting ==
  /\ BeginUpdate("Disconnecting")
  /\ machine' = ProcessEvent(machine, "ConnectionLost")
  /\ reported' = machine'.state
  /\ UNCHANGED <<m_retry_count, socketVars, m_handshake_sent, handshakeAge,
                 backoffVars, pingVars, m_last_error_code, pc>>

-----------------------------------------------------------------------------
Update ==
  \/ UpdateNothing \/ UpdateConnected \/ UpdateHandshaking \/ UpdateReady
  \/ DrainPacket \/ DrainLost \/ DrainEnds
  \/ UpdateBackoff \/ UpdateDisconnecting

Environment ==
  \/ Tick \/ PeerGoes \/ SendThread
  \/ \E p \in Packets : ServerSends(p)

Next ==
  \/ Connect \/ Disconnect \/ SendControl \/ SendProxyData
  \/ Update
  \/ Environment

Spec == Init /\ [][Next]_vars

(***************************************************************************)
(* Time passes, and the owner keeps calling update(), as the usage loop in *)
(* client.hpp does.                                                        *)
(***************************************************************************)
FairSpec == Spec /\ WF_vars(Tick) /\ WF_vars(Update)

-----------------------------------------------------------------------------
(***************************************************************************)
(* Properties.                                                             *)
(***************************************************************************)

(***************************************************************************)
(* update() does nothing in Connecting and Retrying, on the ground that    *)
(* try_connect is synchronous: no call, whatever the socket does, may      *)
(* leave the machine in one of them.                                       *)
(***************************************************************************)
NoTransientAtRest == State \notin {"Connecting", "Retrying"}

(***************************************************************************)
(* The client is Handshaking or Ready only after its own Initialize        *)
(* message went out since the last connect() or disconnect().              *)
(***************************************************************************)
HandshakeWasSent == State \in {"Handshaking", "Ready"} => m_handshake_sent

(***************************************************************************)
(* The owner's picture of the connection: between calls the state callback *)
(* has been told the current state, except that a Disconnect received from *)
(* the server (handle_packet) is made known one update late.               *)
(***************************************************************************)
CallbackKnowsState == reported = State \/ (State = "Disconnecting" /\ reported = "Ready")

(***************************************************************************)
(* Only a version mismatch is fatal, and get_last_error_code still says so *)
(* for as long as the machine is in Error.                                 *)
(***************************************************************************)
ErrorIsVersionMismatch == State = "Error" => m_last_error_code = "VersionMismatch"

(***************************************************************************)
(* A fatal error is never retried by itself: only disconnect() leaves it.  *)
(***************************************************************************)
ErrorOnlyLeftByDisconnect ==
  [][State = "Error" /\ machine'.state # "Error"
       => machine'.state = "Disconnected" /\ ~m_connected' /\ m_retry_count' = 0]_vars

(***************************************************************************)
(* The client becomes Ready on the server's answer and on nothing else,    *)
(* and the answer is one to a handshake on the connection that is up.      *)
(***************************************************************************)
ReadyOnlyByAnswer ==
  [][State # "Ready" /\ machine'.state = "Ready"
       => /\ State = "Handshaking" /\ m_connected /\ m_handshake_sent
          /\ Head(inbox) \in {"Initialize", "SyncNetwork"}]_vars

(***************************************************************************)
(* A handshake always ends: an answer, a loss or the timeout leaves        *)
(* Handshaking, even with a silent server or a stream of other packets.    *)
(***************************************************************************)
HandshakeTerminates == State = "Handshaking" ~> State # "Handshaking"

(***************************************************************************)
(* A disconnect the server asked for is carried through.                   *)
(***************************************************************************)
DisconnectingTerminates ==
  (State = "Disconnecting" /\ pc = "idle") ~> State = "Disconnected"

(***************************************************************************)
(* Once the socket is down, a client in Backoff gets out of it as soon as  *)
(* the server can be reached: the timer, even one that was never started,  *)
(* expires, and the attempt is made.                                       *)
(***************************************************************************)
BackoffEndsWhenSocketDown ==
  Reachable => (State = "Backoff" /\ ~m_connected ~> State # "Backoff")

-----------------------------------------------------------------------------
(***************************************************************************)
(* What the documentation says of the client and the code does not keep.   *)
(***************************************************************************)

(***************************************************************************)
(* update() "handle[s] reconnection" (client.hpp): a client whose TCP      *)
(* connection is up again goes on to the handshake.                        *)
(***************************************************************************)
ConnectedMovesOn == State = "Connected" ~> State # "Connected"

(***************************************************************************)
(* "ryu_ldn_nx will attempt automatic reconnection" (troubleshooting.mdx): *)
(* with a server that accepts every TCP connection, Backoff ends.          *)
(***************************************************************************)
BackoffEnds == Reachable => (State = "Backoff" ~> State # "Backoff")

(***************************************************************************)
(* A socket marked down by the sender leaves the machine "still in Ready   *)
(* for this tick" (send_proxy_data in client.cpp), not for good.           *)
(***************************************************************************)
LossIsNoticed == State = "Ready" /\ ~m_connected ~> State # "Ready"
=============================================================================
