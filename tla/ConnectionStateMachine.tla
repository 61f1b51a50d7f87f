----------------------- MODULE ConnectionStateMachine -----------------------
(***************************************************************************)
(* The transition table of the TCP client's connection state machine       *)
(* (network/connection_state.{hpp,cpp}).  The machine is a passive object: *)
(* its owner, RyuLdnClient, feeds it events; so this module has no         *)
(* variables, only the value of a machine and what process_event makes of  *)
(* it.                                                                     *)
(***************************************************************************)
EXTENDS Naturals

CONSTANT RetryMax   \* the largest value of the uint32_t retry counters

ASSUME RetryMaxAssumption == RetryMax \in Nat \ {0}

ConnectionState ==
  {"Disconnected", "Connecting", "Connected", "Handshaking", "Ready",
   "Backoff", "Retrying", "Disconnecting", "Error"}

ConnectionEvent ==
  {"Connect", "ConnectSuccess", "ConnectFailed", "HandshakeStarted",
   "HandshakeSuccess", "HandshakeFailed", "Disconnect", "ConnectionLost",
   "BackoffExpired", "RetryRequested", "FatalError"}

(***************************************************************************)
(* A machine is its m_state and its m_retry_count.                         *)
(***************************************************************************)
Machine == [state : ConnectionState, retries : 0..RetryMax]

InitialMachine == [state |-> "Disconnected", retries |-> 0]

IsConnected(s) == s \in {"Connected", "Handshaking", "Ready"}

IsTransitioning(s) ==
  s \in {"Connecting", "Handshaking", "Retrying", "Disconnecting", "Backoff"}

(***************************************************************************)
(* The valid entries of the 9 x 11 table, grouped by the target they name. *)
(***************************************************************************)
Target(s, e) ==
  CASE s \in {"Disconnected", "Error"} /\ e = "RetryRequested" -> "Connecting"
    [] s = "Disconnected" /\ e = "Connect" -> "Connecting"
    [] s \in {"Connecting", "Retrying"} /\ e = "ConnectSuccess" -> "Connected"
    [] s \in {"Connecting", "Retrying"} /\ e = "ConnectFailed" -> "Backoff"
    [] s = "Connected" /\ e = "HandshakeStarted" -> "Handshaking"
    [] s \in {"Connected", "Handshaking"} /\ e = "HandshakeSuccess" -> "Ready"
    [] s \in {"Connected", "Handshaking"} /\ e = "HandshakeFailed" -> "Backoff"
    [] IsConnected(s) /\ e = "ConnectionLost" -> "Backoff"
    [] IsConnected(s) /\ e = "Disconnect" -> "Disconnecting"
    [] s = "Backoff" /\ e \in {"BackoffExpired", "RetryRequested"} -> "Retrying"
    [] s \in {"Connecting", "Backoff", "Retrying", "Error"} /\ e = "Disconnect"
         -> "Disconnected"
    [] s = "Disconnecting"
       /\ e \in {"ConnectSuccess", "ConnectFailed", "ConnectionLost", "FatalError"}
         -> "Disconnected"
    [] s \notin {"Disconnected", "Disconnecting", "Error"} /\ e = "FatalError"
         -> "Error"
    [] OTHER -> "none"

IsValidTransition(s, e) == Target(s, e) # "none"

(***************************************************************************)
(* transition_to: the retry counter is a plain uint32_t, so it wraps.      *)
(***************************************************************************)
TransitionTo(m, s) ==
  [state   |-> s,
   retries |-> IF s = "Ready" THEN 0
               ELSE IF s \in {"Retrying", "Connecting"}
                       /\ m.state \in {"Backoff", "Retrying"}
               THEN (m.retries + 1) % (RetryMax + 1)
               ELSE m.retries]

(***************************************************************************)
(* process_event: the no-op cases (AlreadyInState) and the invalid ones    *)
(* both leave the machine as it is.                                        *)
(***************************************************************************)
ProcessEvent(m, e) ==
  IF IsValidTransition(m.state, e) THEN TransitionTo(m, Target(m.state, e))
                                   ELSE m
=============================================================================
