------------------------- MODULE RyuLdnClientProofs -------------------------
(***************************************************************************)
(* The safety of RyuLdnClient, for every schedule of delays, every set of  *)
(* packets and every bound; and, at the end, of the settings that the      *)
(* program is configured by (ConfigStore).                                 *)
(***************************************************************************)
EXTENDS RyuLdnClient, ConfigStore, TLAPS

(***************************************************************************)
(* What each event the client feeds to its machine does to the state; the  *)
(* one place where the transition table is expanded.                       *)
(***************************************************************************)
LEMMA EventEffects ==
  ASSUME NEW m \in Machine
  PROVE  /\ \A e \in ConnectionEvent : ProcessEvent(m, e) \in Machine
         /\ ProcessEvent(m, "Connect").state =
              IF m.state = "Disconnected" THEN "Connecting" ELSE m.state
         /\ ProcessEvent(m, "ConnectSuccess").state =
              IF m.state \in {"Connecting", "Retrying"} THEN "Connected"
              ELSE IF m.state = "Disconnecting" THEN "Disconnected" ELSE m.state
         /\ ProcessEvent(m, "ConnectFailed").state =
              IF m.state \in {"Connecting", "Retrying"} THEN "Backoff"
              ELSE IF m.state = "Disconnecting" THEN "Disconnected" ELSE m.state
         /\ ProcessEvent(m, "HandshakeStarted").state =
              IF m.state = "Connected" THEN "Handshaking" ELSE m.state
         /\ ProcessEvent(m, "HandshakeSuccess").state =
              IF m.state \in {"Connected", "Handshaking"} THEN "Ready" ELSE m.state
         /\ ProcessEvent(m, "HandshakeFailed").state =
              IF m.state \in {"Connected", "Handshaking"} THEN "Backoff" ELSE m.state
         /\ ProcessEvent(m, "ConnectionLost").state =
              IF m.state \in {"Connected", "Handshaking", "Ready"} THEN "Backoff"
              ELSE IF m.state = "Disconnecting" THEN "Disconnected" ELSE m.state
         /\ ProcessEvent(m, "Disconnect").state =
              IF m.state \in {"Connected", "Handshaking", "Ready"} THEN "Disconnecting"
              ELSE IF m.state = "Disconnecting" THEN "Disconnecting"
              ELSE "Disconnected"
         /\ ProcessEvent(m, "BackoffExpired").state =
              IF m.state = "Backoff" THEN "Retrying" ELSE m.state
         /\ ProcessEvent(m, "FatalError").state =
              IF m.state = "Disconnecting" THEN "Disconnected"
              ELSE IF m.state \in {"Disconnected", "Error"} THEN m.state ELSE "Error"
<1>1. m.state \in ConnectionState /\ m.retries \in 0..RetryMax
  BY DEF Machine
<1>2. \A s \in ConnectionState : TransitionTo(m, s) \in Machine
                                 /\ TransitionTo(m, s).state = s
  BY <1>1, RetryMaxAssumption DEF TransitionTo, Machine
<1>3. \A e \in ConnectionEvent : Target(m.state, e) \in ConnectionState \cup {"none"}
  BY <1>1 DEF Target, ConnectionState, IsConnected
<1>4. "none" \notin ConnectionState
  BY DEF ConnectionState
<1>5. \A e \in ConnectionEvent :
        /\ ProcessEvent(m, e) \in Machine
        /\ ProcessEvent(m, e).state = IF Target(m.state, e) = "none" THEN m.state
                                      ELSE Target(m.state, e)
  BY <1>2, <1>3 DEF ProcessEvent, IsValidTransition
<1>6. QED
  BY <1>1, <1>5 DEF Target, ConnectionState, ConnectionEvent, IsConnected

-----------------------------------------------------------------------------
(***************************************************************************)
(* The inductive invariant.  The named properties are inductive together   *)
(* once it is known in which states process_packets can be running: a      *)
(* Disconnect handled in mid-drain leaves the loop going.                  *)
(***************************************************************************)
DrainingStates == pc = "draining" => State \in {"Ready", "Disconnecting"}

StateInv ==
  /\ NoTransientAtRest
  /\ HandshakeWasSent
  /\ CallbackKnowsState
  /\ ErrorIsVersionMismatch
  /\ DrainingStates

Inv == TypeOK /\ StateInv

(***************************************************************************)
(* start_backoff keeps the types of the backoff timer.                     *)
(***************************************************************************)
LEMMA StartBackoffType ==
  ASSUME TypeOK, NEW a \in Stamp, NEW n \in 0..RetryMax, StartBackoff(a, n)
  PROVE  backoffAge' \in Stamp /\ backoffDelay' \in 0..AgeMax
<1>1. DelayOf[n] \in SUBSET (0..AgeMax)
  BY ClientAssumption
<1>2. CASE AutoReconnect
  BY <1>1, <1>2 DEF StartBackoff
<1>3. CASE ~AutoReconnect
  BY <1>3 DEF StartBackoff, TypeOK, backoffVars
<1>4. QED
  BY <1>2, <1>3

(***************************************************************************)
(* receive_packet succeeds only with a packet in hand.                     *)
(***************************************************************************)
LEMMA SuccessMeansPacket ==
  "Success" \in ReceiveOutcomes => m_connected /\ inbox # <<>>
BY DEF ReceiveOutcomes

(***************************************************************************)
(* Whether the socket stays up is a Boolean for every result.              *)
(***************************************************************************)
LEMMA SocketUpType == \A o : SocketUp(o) \in BOOLEAN
BY DEF SocketUp

(***************************************************************************)
(* The packets left after the first are packets.                           *)
(***************************************************************************)
LEMMA TailType ==
  ASSUME NEW s \in Seq(Packets), s # <<>>
  PROVE  Tail(s) \in Seq(Packets)
OBVIOUS

(***************************************************************************)
(* try_connect ends in Connected or Backoff and tells no lies about types. *)
(***************************************************************************)
LEMMA TryConnectEffect ==
  ASSUME TypeOK, NEW m \in Machine, m.state \in {"Connecting", "Retrying"},
         NEW a \in Stamp, TryConnect(m, a)
  PROVE  /\ machine' \in Machine /\ machine'.state \in {"Connected", "Backoff"}
         /\ m_retry_count' \in 0..RetryMax
         /\ m_connected' \in BOOLEAN /\ peer' \in {"none", "up", "gone"}
         /\ inbox' \in Seq(Packets) /\ queued' \in BOOLEAN
         /\ backoffAge' \in Stamp /\ backoffDelay' \in 0..AgeMax
<1>1. m_retry_count \in 0..RetryMax /\ RetryMax \in Nat
  BY RetryMaxAssumption DEF TypeOK
<1>2. \A ok \in BOOLEAN : TcpConnect(ok) =>
        /\ m_connected' \in BOOLEAN /\ peer' \in {"none", "up", "gone"}
        /\ inbox' \in Seq(Packets) /\ queued' \in BOOLEAN
  <2>1. \A ok \in BOOLEAN : TcpConnect(ok) => inbox' = <<>> \/ inbox' = inbox
    BY DEF TcpConnect, socketVars
  <2>2. inbox \in Seq(Packets) /\ <<>> \in Seq(Packets)
    BY DEF TypeOK
  <2>3. \A ok \in BOOLEAN : TcpConnect(ok) =>
          /\ m_connected' \in BOOLEAN /\ peer' \in {"none", "up", "gone"}
          /\ queued' \in BOOLEAN
    BY Zenon DEF TcpConnect, TypeOK, socketVars
  <2>4. QED
    BY <2>1, <2>2, <2>3
<1>3. CASE TcpConnect(TRUE) /\ machine' = ProcessEvent(m, "ConnectSuccess")
           /\ ResetRetries /\ UNCHANGED backoffVars
  <2>1. machine' \in Machine /\ machine'.state = "Connected"
    BY <1>3, EventEffects DEF ConnectionEvent
  <2>2. m_retry_count' \in 0..RetryMax
    BY <1>1, <1>3 DEF ResetRetries
  <2>3. backoffAge' \in Stamp /\ backoffDelay' \in 0..AgeMax
    BY <1>3 DEF backoffVars, TypeOK
  <2>4. QED
    BY <1>2, <1>3, <2>1, <2>2, <2>3
<1>4. CASE TcpConnect(FALSE) /\ machine' = ProcessEvent(m, "ConnectFailed")
           /\ RecordFailure /\ StartBackoff(a, m_retry_count')
  <2>1. machine' \in Machine /\ machine'.state = "Backoff"
    BY <1>4, EventEffects DEF ConnectionEvent
  <2>2. m_retry_count' \in 0..RetryMax
    BY <1>1, <1>4 DEF RecordFailure
  <2>3. backoffAge' \in Stamp /\ backoffDelay' \in 0..AgeMax
    BY <1>4, <2>2, StartBackoffType
  <2>4. QED
    BY <1>2, <1>4, <2>1, <2>2, <2>3
<1>5. QED
  BY <1>3, <1>4 DEF TryConnect

-----------------------------------------------------------------------------
(***************************************************************************)
(* The inductive invariant holds of a client just constructed.             *)
(***************************************************************************)
LEMMA InitInv == Init => Inv
<1>1. Init => TypeOK
  <2>1. Init => /\ m_connected \in BOOLEAN /\ queued \in BOOLEAN
                /\ m_handshake_sent \in BOOLEAN /\ pingPending \in BOOLEAN
    BY Zenon DEF Init
  <2>2. Init => /\ machine \in Machine /\ reported \in ConnectionState
                /\ m_retry_count \in 0..RetryMax
    BY RetryMaxAssumption DEF Init, InitialMachine, Machine, ConnectionState
  <2>3. Init => /\ handshakeAge \in Stamp /\ backoffAge \in Stamp
                /\ backoffDelay \in 0..AgeMax /\ updateAge \in Stamp /\ pingAge \in Age
    BY ClientAssumption DEF Init, Stamp, Age, NoTime
  <2>4. Init => /\ peer \in {"none", "up", "gone"} /\ inbox \in Seq(Packets)
                /\ m_last_error_code \in ErrorCode /\ pc \in {"idle", "draining"}
    BY DEF Init, ErrorCode
  <2>5. QED
    BY <2>1, <2>2, <2>3, <2>4 DEF TypeOK
<1>2. Init => StateInv
  BY DEF Init, InitialMachine, State, StateInv, NoTransientAtRest,
         HandshakeWasSent, CallbackKnowsState, ErrorIsVersionMismatch,
         DrainingStates
<1>3. QED
  BY <1>1, <1>2 DEF Inv

(***************************************************************************)
(* Steps of the environment leave the machine alone.                       *)
(***************************************************************************)
LEMMA EnvironmentStep ==
  ASSUME Inv, Environment
  PROVE  Inv'
<1>0. TypeOK /\ StateInv
  BY DEF Inv
<1>1. /\ UNCHANGED <<machine, reported, m_handshake_sent, m_last_error_code, pc>>
      /\ UNCHANGED <<m_retry_count, backoffDelay, pingPending>>
  BY DEF Environment, Tick, PeerGoes, SendThread, ServerSends, backoffVars, pingVars
<1>2. StateInv'
  BY <1>0, <1>1 DEF State, StateInv, NoTransientAtRest, HandshakeWasSent,
     CallbackKnowsState, ErrorIsVersionMismatch, DrainingStates
<1>3. /\ m_connected' \in BOOLEAN /\ peer' \in {"none", "up", "gone"}
      /\ queued' \in BOOLEAN
  BY <1>0 DEF TypeOK, Environment, Tick, PeerGoes, SendThread, ServerSends, socketVars
<1>4. inbox' \in Seq(Packets)
  BY <1>0 DEF TypeOK, Environment, Tick, PeerGoes, SendThread, ServerSends, socketVars
<1>5. /\ handshakeAge' \in Stamp /\ backoffAge' \in Stamp
      /\ updateAge' \in Stamp /\ pingAge' \in Age
  <2>1. CASE Tick
    BY <1>0, <2>1, ClientAssumption DEF TypeOK, Tick, Older, Stamp, Age, NoTime
  <2>2. CASE PeerGoes \/ SendThread \/ \E p \in Packets : ServerSends(p)
    BY <1>0, <2>2 DEF TypeOK, PeerGoes, SendThread, ServerSends, backoffVars, pingVars
  <2>3. QED
    BY <2>1, <2>2 DEF Environment
<1>6. QED
  BY <1>0, <1>1, <1>2, <1>3, <1>4, <1>5 DEF Inv, TypeOK

(***************************************************************************)
(* The calls of the owner: connect(), disconnect(), send_*().              *)
(***************************************************************************)
LEMMA ConnectStep ==
  ASSUME Inv, Connect
  PROVE  Inv'
<1>0. TypeOK /\ StateInv
  BY DEF Inv
<1>1. CASE /\ IsValidTransition(State, "Connect")
           /\ TryConnect(ProcessEvent(machine, "Connect"), updateAge)
           /\ reported' = machine'.state
  <2>0. machine \in Machine /\ updateAge \in Stamp
    BY <1>0 DEF TypeOK
  <2>1. State = "Disconnected"
    BY <1>1, <2>0 DEF IsValidTransition, Target, State, Machine, ConnectionState,
       IsConnected
  <2>2. /\ ProcessEvent(machine, "Connect") \in Machine
        /\ ProcessEvent(machine, "Connect").state = "Connecting"
    BY <2>0, <2>1, EventEffects DEF ConnectionEvent, State
  <2>3. /\ machine' \in Machine /\ machine'.state \in {"Connected", "Backoff"}
        /\ m_retry_count' \in 0..RetryMax
        /\ m_connected' \in BOOLEAN /\ peer' \in {"none", "up", "gone"}
        /\ inbox' \in Seq(Packets) /\ queued' \in BOOLEAN
        /\ backoffAge' \in Stamp /\ backoffDelay' \in 0..AgeMax
    BY <1>0, <1>1, <2>0, <2>2, TryConnectEffect
  <2>4. UNCHANGED <<handshakeAge, updateAge, pingAge, pingPending,
                    m_last_error_code, pc>> /\ m_handshake_sent' = FALSE
        /\ pc = "idle"
    BY DEF Connect, pingVars
  <2>5. TypeOK'
    BY <1>0, <1>1, <2>3, <2>4 DEF TypeOK, Machine, ConnectionState
  <2>6. StateInv'
    BY <1>1, <2>3, <2>4 DEF State, StateInv, NoTransientAtRest, HandshakeWasSent,
       CallbackKnowsState, ErrorIsVersionMismatch, DrainingStates
  <2>7. QED
    BY <2>5, <2>6 DEF Inv
<1>2. CASE /\ ~IsValidTransition(State, "Connect")
           /\ UNCHANGED <<machine, reported, m_retry_count, socketVars, backoffVars>>
  <2>1. TypeOK'
    BY <1>0, <1>2 DEF Connect, TypeOK, socketVars, backoffVars, pingVars
  <2>2. StateInv'
    BY <1>0, <1>2 DEF Connect, State, StateInv, NoTransientAtRest, HandshakeWasSent,
       CallbackKnowsState, ErrorIsVersionMismatch, DrainingStates, IsConnected
  <2>3. QED
    BY <2>1, <2>2 DEF Inv
<1>3. QED
  BY <1>1, <1>2 DEF Connect

(***************************************************************************)
(* disconnect() keeps the invariant and ends in Disconnected.              *)
(***************************************************************************)
LEMMA DisconnectStep ==
  ASSUME Inv, Disconnect
  PROVE  Inv' /\ machine'.state = "Disconnected"
<1>0. TypeOK /\ StateInv /\ machine \in Machine
  BY DEF Inv, TypeOK
<1>1. machine' \in Machine /\ machine'.state = "Disconnected"
  BY <1>0, EventEffects DEF Disconnect, ConnectionEvent
<1>2. TypeOK'
  <2>1. m_connected' \in BOOLEAN /\ queued' \in BOOLEAN /\ m_handshake_sent' \in BOOLEAN
    BY Zenon DEF Disconnect
  <2>2. /\ peer' = "none" /\ inbox' = <<>> /\ m_retry_count' = 0
        /\ reported' = machine'.state
        /\ UNCHANGED <<handshakeAge, backoffAge, backoffDelay, updateAge, pingAge,
                       pingPending, m_last_error_code, pc>>
    BY DEF Disconnect, ResetRetries, backoffVars, pingVars
  <2>3. QED
    BY <1>0, <1>1, <2>1, <2>2, RetryMaxAssumption DEF TypeOK, ConnectionState
<1>3. StateInv'
  BY <1>0, <1>1 DEF Disconnect, State, StateInv, NoTransientAtRest, HandshakeWasSent,
     CallbackKnowsState, ErrorIsVersionMismatch, DrainingStates
<1>4. QED
  BY <1>1, <1>2, <1>3 DEF Inv

(***************************************************************************)
(* send_*() keeps the invariant.                                           *)
(***************************************************************************)
LEMMA SendStep ==
  ASSUME Inv, SendControl \/ SendProxyData
  PROVE  Inv'
<1>0. TypeOK /\ StateInv /\ machine \in Machine
  BY DEF Inv, TypeOK
<1>1. /\ machine' \in Machine
      /\ machine' = machine \/ (State = "Ready" /\ machine'.state = "Backoff")
  BY <1>0, EventEffects DEF SendControl, SendProxyData, ConnectionEvent, State
<1>2. /\ UNCHANGED <<m_retry_count, peer, inbox, m_handshake_sent, handshakeAge,
                     backoffAge, backoffDelay, updateAge, pingAge, pingPending,
                     m_last_error_code, pc>>
      /\ pc = "idle" /\ State = "Ready" /\ Report
  BY DEF SendControl, SendProxyData, backoffVars, pingVars
<1>3. m_connected' \in BOOLEAN /\ queued' \in BOOLEAN
  <2>1. CASE SendControl
    BY <1>0, <2>1 DEF TypeOK, SendControl, SocketUp
  <2>2. CASE SendProxyData
    BY <1>0, <2>2, Zenon DEF TypeOK, SendProxyData
  <2>3. QED
    BY <2>1, <2>2
<1>4. TypeOK'
  BY <1>0, <1>1, <1>2, <1>3 DEF TypeOK, Report, Machine
<1>5. StateInv'
  BY <1>0, <1>1, <1>2 DEF Report, State, StateInv, NoTransientAtRest,
     HandshakeWasSent, CallbackKnowsState, ErrorIsVersionMismatch, DrainingStates
<1>6. QED
  BY <1>4, <1>5 DEF Inv

-----------------------------------------------------------------------------
(***************************************************************************)
(* The cases of update().                                                  *)
(***************************************************************************)
LEMMA UpdateNothingStep ==
  ASSUME Inv, UpdateNothing
  PROVE  Inv'
<1>0. TypeOK /\ StateInv
  BY DEF Inv
<1>1. TypeOK'
  BY <1>0, ClientAssumption DEF TypeOK, UpdateNothing, socketVars, backoffVars,
     pingVars, Stamp, Age
<1>2. StateInv'
  BY <1>0 DEF UpdateNothing, State, StateInv, NoTransientAtRest, HandshakeWasSent,
     CallbackKnowsState, ErrorIsVersionMismatch, DrainingStates
<1>3. QED
  BY <1>1, <1>2 DEF Inv

(***************************************************************************)
(* The Connected case of update() keeps the invariant.                     *)
(***************************************************************************)
LEMMA UpdateConnectedStep ==
  ASSUME Inv, UpdateConnected
  PROVE  Inv'
<1>0. /\ TypeOK /\ StateInv /\ machine \in Machine
      /\ m_retry_count \in 0..RetryMax /\ 0 \in Stamp
  BY ClientAssumption DEF Inv, TypeOK, Stamp, Age
<1>1. /\ State = "Connected" /\ updateAge' = 0 /\ pc = "idle"
      /\ UNCHANGED <<m_retry_count, peer, inbox, queued, pingAge, pingPending,
                     m_last_error_code, pc>>
  BY DEF UpdateConnected, BeginUpdate, pingVars
<1>2. /\ machine' \in Machine
      /\ \/ machine' = machine /\ reported' = reported
         \/ machine'.state = "Handshaking" /\ m_handshake_sent' /\ Report
         \/ machine'.state = "Backoff" /\ Report
  <2>1. CASE m_handshake_sent
    BY <1>0, <2>1 DEF UpdateConnected
  <2>2. CASE ~m_handshake_sent
    BY <1>0, <1>1, <2>2, EventEffects
    DEF UpdateConnected, MarkHandshakeSent, ConnectionEvent, State
  <2>3. QED
    BY <2>1, <2>2
<1>3. m_connected' \in BOOLEAN
  <2>1. m_connected' = m_connected \/ \E o : m_connected' = SocketUp(o)
    BY Zenon DEF UpdateConnected
  <2>2. QED
    BY <1>0, <2>1, SocketUpType, Zenon DEF TypeOK
<1>4. m_handshake_sent' \in BOOLEAN /\ handshakeAge' \in Stamp
  <2>1. m_handshake_sent' \in BOOLEAN
    BY <1>0, Zenon DEF TypeOK, UpdateConnected, MarkHandshakeSent
  <2>2. handshakeAge' = handshakeAge \/ handshakeAge' = 0
    BY Zenon DEF UpdateConnected, MarkHandshakeSent
  <2>3. QED
    BY <1>0, <2>1, <2>2 DEF TypeOK
<1>5. backoffAge' \in Stamp /\ backoffDelay' \in 0..AgeMax
  <2>1. UNCHANGED backoffVars \/ StartBackoff(0, m_retry_count)
    BY DEF UpdateConnected
  <2>2. QED
    BY <1>0, <2>1, StartBackoffType DEF TypeOK, backoffVars
<1>6. TypeOK'
  BY <1>0, <1>1, <1>2, <1>3, <1>4, <1>5 DEF TypeOK, Report, Machine, State
<1>7. StateInv'
  BY <1>0, <1>1, <1>2 DEF Report, State, StateInv, NoTransientAtRest,
     HandshakeWasSent, CallbackKnowsState, ErrorIsVersionMismatch, DrainingStates
<1>8. QED
  BY <1>6, <1>7 DEF Inv

(***************************************************************************)
(* The Handshaking case keeps the invariant, and makes the client Ready    *)
(* only on the server's answer.                                            *)
(***************************************************************************)
LEMMA UpdateHandshakingStep ==
  ASSUME Inv, UpdateHandshaking
  PROVE  /\ Inv'
         /\ machine'.state = "Ready" => /\ m_connected /\ inbox # <<>>
                                        /\ Head(inbox) \in {"Initialize", "SyncNetwork"}
<1>0. /\ TypeOK /\ StateInv /\ machine \in Machine
      /\ m_retry_count \in 0..RetryMax /\ 0 \in Stamp
  BY ClientAssumption DEF Inv, TypeOK, Stamp, Age
<1>1. /\ State = "Handshaking" /\ updateAge' = 0 /\ pc = "idle" /\ Report
      /\ UNCHANGED <<m_retry_count, peer, queued, m_handshake_sent, handshakeAge,
                     pingAge, pingPending, pc>>
  BY DEF UpdateHandshaking, BeginUpdate, pingVars
<1>2. machine.state = "Handshaking"
  BY <1>1 DEF State
<1>3. \A p : HandshakeResponse(p) =>
        /\ machine' \in Machine /\ m_last_error_code' \in ErrorCode
        /\ UNCHANGED backoffVars \/ StartBackoff(0, m_retry_count)
        /\ \/ machine' = machine /\ m_last_error_code' = m_last_error_code
           \/ machine'.state = "Ready" /\ p \in {"Initialize", "SyncNetwork"}
           \/ machine'.state = "Error" /\ m_last_error_code' = "VersionMismatch"
           \/ machine'.state = "Backoff"
  <2>1. m_last_error_code \in ErrorCode
    BY <1>0 DEF TypeOK
  <2>2. \A p : HandshakeError(p) \in ErrorCode
    BY DEF HandshakeError, ErrorCode
  <2>3. \A p : /\ HandshakeEvent(p) = "HandshakeSuccess" =>
                   p \in {"Initialize", "SyncNetwork"}
               /\ HandshakeEvent(p) = "FatalError" =>
                   HandshakeError(p) = "VersionMismatch"
               /\ HandshakeEvent(p) \in {"HandshakeSuccess", "FatalError",
                                        "HandshakeFailed", "none"}
    BY DEF HandshakeError, HandshakeEvent
  <2>4. SUFFICES ASSUME NEW p, HandshakeResponse(p)
                 PROVE  /\ machine' \in Machine /\ m_last_error_code' \in ErrorCode
                        /\ UNCHANGED backoffVars \/ StartBackoff(0, m_retry_count)
                        /\ \/ /\ machine' = machine
                              /\ m_last_error_code' = m_last_error_code
                           \/ /\ machine'.state = "Ready"
                              /\ p \in {"Initialize", "SyncNetwork"}
                           \/ /\ machine'.state = "Error"
                              /\ m_last_error_code' = "VersionMismatch"
                           \/ machine'.state = "Backoff"
    OBVIOUS
  <2>5. CASE HandshakeEvent(p) = "none"
    BY <1>0, <2>1, <2>4, <2>5 DEF HandshakeResponse
  <2>6. CASE HandshakeEvent(p) # "none"
    <3>1. /\ machine' = ProcessEvent(machine, HandshakeEvent(p))
          /\ m_last_error_code' = HandshakeError(p)
          /\ UNCHANGED backoffVars \/ StartBackoff(0, m_retry_count)
      BY <2>4, <2>6 DEF HandshakeResponse
    <3>2. /\ ProcessEvent(machine, "HandshakeSuccess") \in Machine
          /\ ProcessEvent(machine, "HandshakeSuccess").state = "Ready"
          /\ ProcessEvent(machine, "FatalError") \in Machine
          /\ ProcessEvent(machine, "FatalError").state = "Error"
          /\ ProcessEvent(machine, "HandshakeFailed") \in Machine
          /\ ProcessEvent(machine, "HandshakeFailed").state = "Backoff"
      BY <1>0, <1>2, EventEffects DEF ConnectionEvent
    <3>3. m_last_error_code' \in ErrorCode
      BY <2>2, <3>1
    <3>4. CASE HandshakeEvent(p) = "HandshakeSuccess"
      BY <2>3, <3>1, <3>2, <3>3, <3>4, Zenon
    <3>5. CASE HandshakeEvent(p) = "FatalError"
      BY <2>3, <3>1, <3>2, <3>3, <3>5, Zenon
    <3>6. CASE HandshakeEvent(p) = "HandshakeFailed"
      BY <3>1, <3>2, <3>3, <3>6, Zenon
    <3>7. QED
      BY <2>3, <2>6, <3>4, <3>5, <3>6, Zenon
  <2>7. QED
    BY <2>5, <2>6
<1>4. /\ machine' \in Machine /\ m_last_error_code' \in ErrorCode
      /\ UNCHANGED backoffVars \/ StartBackoff(0, m_retry_count)
      /\ \/ machine' = machine /\ m_last_error_code' = m_last_error_code
         \/ /\ machine'.state = "Ready" /\ "Success" \in ReceiveOutcomes
            /\ Head(inbox) \in {"Initialize", "SyncNetwork"}
         \/ machine'.state = "Error" /\ m_last_error_code' = "VersionMismatch"
         \/ machine'.state = "Backoff"
  <2>1. m_last_error_code \in ErrorCode
    BY <1>0 DEF TypeOK
  <2>2. CASE /\ machine' = ProcessEvent(machine, "HandshakeFailed")
             /\ m_last_error_code' = "HandshakeTimeout"
             /\ StartBackoff(0, m_retry_count)
    BY <1>0, <1>2, <2>2, EventEffects DEF ConnectionEvent, ErrorCode
  <2>3. ASSUME NEW o \in ReceiveOutcomes, o = "Success", HandshakeResponse(Head(inbox))
        PROVE  <1>4
    BY <1>3, <2>3
  <2>4. ASSUME machine' = ProcessEvent(machine, "ConnectionLost"),
               StartBackoff(0, m_retry_count), UNCHANGED m_last_error_code
        PROVE  <1>4
    BY <1>0, <1>2, <2>1, <2>4, EventEffects DEF ConnectionEvent
  <2>5. CASE UNCHANGED <<machine, m_last_error_code, backoffVars>>
    BY <1>0, <2>1, <2>5
  <2>6. QED
    BY <2>2, <2>3, <2>4, <2>5 DEF UpdateHandshaking
<1>5. m_connected' \in BOOLEAN
  <2>1. m_connected' = m_connected \/ \E o : m_connected' = SocketUp(o)
    BY Zenon DEF UpdateHandshaking
  <2>2. QED
    BY <1>0, <2>1, SocketUpType, Zenon DEF TypeOK
<1>6. inbox' \in Seq(Packets)
  <2>1. inbox \in Seq(Packets)
    BY <1>0 DEF TypeOK
  <2>2. inbox' = inbox \/ inbox' = <<>>
        \/ ("Success" \in ReceiveOutcomes /\ inbox' = Tail(inbox))
    BY Zenon DEF UpdateHandshaking
  <2>3. CASE "Success" \in ReceiveOutcomes /\ inbox' = Tail(inbox)
    BY <2>1, <2>3, SuccessMeansPacket, TailType
  <2>4. CASE inbox' = <<>>
    BY <2>4
  <2>5. QED
    BY <2>1, <2>2, <2>3, <2>4
<1>7. backoffAge' \in Stamp /\ backoffDelay' \in 0..AgeMax
  BY <1>0, <1>4, StartBackoffType DEF TypeOK, backoffVars
<1>8. TypeOK'
  BY <1>0, <1>1, <1>4, <1>5, <1>6, <1>7 DEF TypeOK, Report, Machine, State
<1>9. StateInv'
  BY <1>0, <1>1, <1>4 DEF Report, State, StateInv, NoTransientAtRest,
     HandshakeWasSent, CallbackKnowsState, ErrorIsVersionMismatch, DrainingStates
<1>10. QED
  BY <1>2, <1>4, <1>8, <1>9, SuccessMeansPacket DEF Inv

(***************************************************************************)
(* The checks after the drain, made in Ready or (after a Disconnect in the *)
(* drain) in Disconnecting.                                                *)
(***************************************************************************)
LEMMA PingChecksEffect ==
  ASSUME Inv, State \in {"Ready", "Disconnecting"}, NEW up \in BOOLEAN,
         PingChecks(up)
  PROVE  /\ machine' \in Machine
         /\ machine' = machine \/ machine'.state \in {"Backoff", "Disconnected"}
         /\ (reported' = reported /\ machine' = machine) \/ Report
         /\ m_connected' \in BOOLEAN
         /\ pingAge' \in Age /\ pingPending' \in BOOLEAN
         /\ backoffAge' \in Stamp /\ backoffDelay' \in 0..AgeMax
<1>0. /\ TypeOK /\ machine \in Machine /\ m_retry_count \in 0..RetryMax
      /\ 0 \in Stamp /\ 0 \in Age
  BY ClientAssumption DEF Inv, TypeOK, Stamp, Age
<1>1. /\ machine' \in Machine
      /\ machine' = machine \/ machine'.state \in {"Backoff", "Disconnected"}
  <2>1. \/ machine' = machine
        \/ machine' = ProcessEvent(machine, "ConnectionLost")
    BY Zenon DEF PingChecks
  <2>2. QED
    BY <1>0, <2>1, EventEffects DEF ConnectionEvent, State
<1>2. (reported' = reported /\ machine' = machine) \/ Report
  BY Zenon DEF PingChecks
<1>3. m_connected' \in BOOLEAN
  <2>1. m_connected' = up \/ \E o : m_connected' = SocketUp(o)
    BY Zenon DEF PingChecks
  <2>2. QED
    BY <2>1, SocketUpType, Zenon
<1>4. pingPending' \in BOOLEAN
  <2>1. pingPending' = pingPending \/ pingPending' = TRUE
    BY Zenon DEF PingChecks, pingVars
  <2>2. QED
    BY <1>0, <2>1, Zenon DEF TypeOK
<1>5. pingAge' \in Age
  <2>1. pingAge' = pingAge \/ pingAge' = 0
    BY Zenon DEF PingChecks, pingVars
  <2>2. QED
    BY <1>0, <2>1 DEF TypeOK
<1>6. backoffAge' \in Stamp /\ backoffDelay' \in 0..AgeMax
  <2>1. UNCHANGED backoffVars \/ StartBackoff(0, m_retry_count)
    BY Zenon DEF PingChecks
  <2>2. QED
    BY <1>0, <2>1, StartBackoffType DEF TypeOK, backoffVars
<1>7. QED
  BY <1>1, <1>2, <1>3, <1>4, <1>5, <1>6

(***************************************************************************)
(* Entering the Ready case keeps the invariant.                            *)
(***************************************************************************)
LEMMA UpdateReadyStep ==
  ASSUME Inv, UpdateReady
  PROVE  Inv'
<1>0. TypeOK /\ StateInv /\ machine \in Machine /\ 0 \in Stamp
  BY ClientAssumption DEF Inv, TypeOK, Stamp, Age
<1>1. /\ State = "Ready" /\ updateAge' = 0
      /\ UNCHANGED <<m_retry_count, peer, inbox, queued, m_handshake_sent,
                     handshakeAge, m_last_error_code>>
  BY DEF UpdateReady, BeginUpdate
<1>2. CASE /\ pc' = "draining"
           /\ UNCHANGED <<machine, reported, m_connected, backoffVars, pingVars>>
  <2>1. TypeOK'
    BY <1>0, <1>1, <1>2 DEF TypeOK, backoffVars, pingVars
  <2>2. StateInv'
    BY <1>0, <1>1, <1>2 DEF State, StateInv, NoTransientAtRest, HandshakeWasSent,
       CallbackKnowsState, ErrorIsVersionMismatch, DrainingStates
  <2>3. QED
    BY <2>1, <2>2 DEF Inv
<1>3. CASE PingChecks(FALSE) /\ UNCHANGED pc
  <2>0. pc = "idle"
    BY DEF UpdateReady, BeginUpdate
  <2>1. /\ machine' \in Machine
        /\ machine' = machine \/ machine'.state \in {"Backoff", "Disconnected"}
        /\ (reported' = reported /\ machine' = machine) \/ Report
        /\ m_connected' \in BOOLEAN
        /\ pingAge' \in Age /\ pingPending' \in BOOLEAN
        /\ backoffAge' \in Stamp /\ backoffDelay' \in 0..AgeMax
    BY <1>1, <1>3, PingChecksEffect
  <2>2. TypeOK'
    BY <1>0, <1>1, <1>3, <2>1 DEF TypeOK, Report, Machine, State
  <2>3. StateInv'
    BY <1>0, <1>1, <1>3, <2>0, <2>1 DEF Report, State, StateInv, NoTransientAtRest,
       HandshakeWasSent, CallbackKnowsState, ErrorIsVersionMismatch, DrainingStates
  <2>4. QED
    BY <2>2, <2>3 DEF Inv
<1>4. QED
  BY <1>2, <1>3 DEF UpdateReady

(***************************************************************************)
(* A packet handled inside process_packets keeps the invariant.            *)
(***************************************************************************)
LEMMA DrainPacketStep ==
  ASSUME Inv, DrainPacket
  PROVE  Inv'
<1>0. TypeOK /\ StateInv /\ machine \in Machine
  BY DEF Inv, TypeOK
<1>1. /\ pc = "draining" /\ "Success" \in ReceiveOutcomes /\ inbox' = Tail(inbox)
      /\ UNCHANGED <<reported, m_retry_count, peer, queued, m_handshake_sent,
                     handshakeAge, backoffAge, backoffDelay, updateAge,
                     m_last_error_code, pc>>
  BY DEF DrainPacket, backoffVars
<1>2. /\ machine' \in Machine
      /\ machine' = machine \/ machine'.state = "Disconnecting"
  <2>1. machine' = machine \/ machine' = ProcessEvent(machine, "Disconnect")
    BY Zenon DEF DrainPacket, HandlePacket
  <2>2. State \in {"Ready", "Disconnecting"}
    BY <1>0, <1>1 DEF StateInv, DrainingStates
  <2>3. QED
    BY <1>0, <2>1, <2>2, EventEffects DEF ConnectionEvent, State
<1>3. m_connected' \in BOOLEAN /\ pingPending' \in BOOLEAN /\ pingAge' = pingAge
  <2>1. m_connected' = m_connected \/ \E o : m_connected' = SocketUp(o)
    BY Zenon DEF DrainPacket, HandlePacket
  <2>2. (pingPending' = pingPending \/ pingPending' = FALSE) /\ pingAge' = pingAge
    BY Zenon DEF DrainPacket, HandlePacket, pingVars
  <2>3. QED
    BY <1>0, <2>1, <2>2, SocketUpType, Zenon DEF TypeOK
<1>4. inbox' \in Seq(Packets)
  BY <1>0, <1>1, SuccessMeansPacket, TailType DEF TypeOK
<1>5. TypeOK'
  BY <1>0, <1>1, <1>2, <1>3, <1>4 DEF TypeOK
<1>6. StateInv'
  BY <1>0, <1>1, <1>2 DEF State, StateInv, NoTransientAtRest, HandshakeWasSent,
     CallbackKnowsState, ErrorIsVersionMismatch, DrainingStates
<1>7. QED
  BY <1>5, <1>6 DEF Inv

(***************************************************************************)
(* So does a drain that ends by a loss.                                    *)
(***************************************************************************)
LEMMA DrainLostStep ==
  ASSUME Inv, DrainLost
  PROVE  Inv'
<1>0. /\ TypeOK /\ StateInv /\ machine \in Machine
      /\ m_retry_count \in 0..RetryMax /\ 0 \in Stamp
  BY ClientAssumption DEF Inv, TypeOK, Stamp, Age
<1>1. /\ pc = "draining" /\ pc' = "idle" /\ Report /\ inbox' = <<>>
      /\ machine' = ProcessEvent(machine, "ConnectionLost")
      /\ StartBackoff(0, m_retry_count)
      /\ UNCHANGED <<m_retry_count, peer, queued, m_handshake_sent, handshakeAge,
                     updateAge, pingAge, pingPending, m_last_error_code>>
  BY DEF DrainLost, pingVars
<1>2. machine' \in Machine /\ machine'.state \in {"Backoff", "Disconnected"}
  <2>1. State \in {"Ready", "Disconnecting"}
    BY <1>0, <1>1 DEF StateInv, DrainingStates
  <2>2. QED
    BY <1>0, <1>1, <2>1, EventEffects DEF ConnectionEvent, State
<1>3. m_connected' \in BOOLEAN
  <2>1. \E o : m_connected' = SocketUp(o)
    BY Zenon DEF DrainLost
  <2>2. QED
    BY <2>1, SocketUpType, Zenon
<1>4. backoffAge' \in Stamp /\ backoffDelay' \in 0..AgeMax
  BY <1>0, <1>1, StartBackoffType
<1>5. inbox' \in Seq(Packets)
  BY <1>1
<1>6. TypeOK'
  BY <1>0, <1>1, <1>2, <1>3, <1>4, <1>5 DEF TypeOK, Report, Machine, State
<1>7. StateInv'
  BY <1>0, <1>1, <1>2 DEF Report, State, StateInv, NoTransientAtRest,
     HandshakeWasSent, CallbackKnowsState, ErrorIsVersionMismatch, DrainingStates
<1>8. QED
  BY <1>6, <1>7 DEF Inv

(***************************************************************************)
(* So does a drain that ends by a timeout or an unnamed error.             *)
(***************************************************************************)
LEMMA DrainEndsStep ==
  ASSUME Inv, DrainEnds
  PROVE  Inv'
<1>0. TypeOK /\ StateInv /\ machine \in Machine
  BY DEF Inv, TypeOK
<1>1. /\ pc = "draining" /\ pc' = "idle"
      /\ UNCHANGED <<m_retry_count, peer, inbox, queued, m_handshake_sent,
                     handshakeAge, updateAge, m_last_error_code>>
  BY DEF DrainEnds
<1>2. State \in {"Ready", "Disconnecting"}
  BY <1>0, <1>1 DEF StateInv, DrainingStates
<1>3. PICK up \in BOOLEAN : PingChecks(up)
  BY SocketUpType, Zenon DEF DrainEnds
<1>4. /\ machine' \in Machine
      /\ machine' = machine \/ machine'.state \in {"Backoff", "Disconnected"}
      /\ (reported' = reported /\ machine' = machine) \/ Report
      /\ m_connected' \in BOOLEAN
      /\ pingAge' \in Age /\ pingPending' \in BOOLEAN
      /\ backoffAge' \in Stamp /\ backoffDelay' \in 0..AgeMax
  BY <1>2, <1>3, PingChecksEffect
<1>5. TypeOK'
  BY <1>0, <1>1, <1>4 DEF TypeOK, Report, Machine, State
<1>6. StateInv'
  BY <1>0, <1>1, <1>4 DEF Report, State, StateInv, NoTransientAtRest,
     HandshakeWasSent, CallbackKnowsState, ErrorIsVersionMismatch, DrainingStates
<1>7. QED
  BY <1>5, <1>6 DEF Inv

(***************************************************************************)
(* The Backoff case of update() keeps the invariant.                       *)
(***************************************************************************)
LEMMA UpdateBackoffStep ==
  ASSUME Inv, UpdateBackoff
  PROVE  Inv'
<1>0. TypeOK /\ StateInv /\ machine \in Machine /\ 0 \in Stamp
  BY ClientAssumption DEF Inv, TypeOK, Stamp, Age
<1>1. /\ State = "Backoff" /\ updateAge' = 0 /\ pc = "idle"
      /\ UNCHANGED <<m_handshake_sent, handshakeAge, pingAge, pingPending,
                     m_last_error_code, pc>>
  BY DEF UpdateBackoff, BeginUpdate, pingVars
<1>2. CASE /\ UNCHANGED <<machine, reported, m_retry_count, socketVars, backoffDelay>>
           /\ backoffAge' = 0 \/ UNCHANGED backoffAge
  <2>1. TypeOK'
    BY <1>0, <1>1, <1>2 DEF TypeOK, socketVars
  <2>2. StateInv'
    BY <1>0, <1>1, <1>2 DEF State, StateInv, NoTransientAtRest, HandshakeWasSent,
       CallbackKnowsState, ErrorIsVersionMismatch, DrainingStates
  <2>3. QED
    BY <2>1, <2>2 DEF Inv
<1>3. CASE /\ TryConnect(ProcessEvent(machine, "BackoffExpired"), 0)
           /\ reported' = machine'.state
  <2>1. /\ ProcessEvent(machine, "BackoffExpired") \in Machine
        /\ ProcessEvent(machine, "BackoffExpired").state = "Retrying"
    BY <1>0, <1>1, EventEffects DEF ConnectionEvent, State
  <2>2. /\ machine' \in Machine /\ machine'.state \in {"Connected", "Backoff"}
        /\ m_retry_count' \in 0..RetryMax
        /\ m_connected' \in BOOLEAN /\ peer' \in {"none", "up", "gone"}
        /\ inbox' \in Seq(Packets) /\ queued' \in BOOLEAN
        /\ backoffAge' \in Stamp /\ backoffDelay' \in 0..AgeMax
    BY <1>0, <1>3, <2>1, TryConnectEffect
  <2>3. TypeOK'
    BY <1>0, <1>1, <1>3, <2>2 DEF TypeOK, Machine
  <2>4. StateInv'
    BY <1>1, <1>3, <2>2 DEF State, StateInv, NoTransientAtRest, HandshakeWasSent,
       CallbackKnowsState, ErrorIsVersionMismatch, DrainingStates
  <2>5. QED
    BY <2>3, <2>4 DEF Inv
<1>4. QED
  BY <1>2, <1>3 DEF UpdateBackoff, backoffVars

(***************************************************************************)
(* The Disconnecting case of update() keeps the invariant.                 *)
(***************************************************************************)
LEMMA UpdateDisconnectingStep ==
  ASSUME Inv, UpdateDisconnecting
  PROVE  Inv'
<1>0. TypeOK /\ StateInv /\ machine \in Machine /\ 0 \in Stamp
  BY ClientAssumption DEF Inv, TypeOK, Stamp, Age
<1>1. /\ State = "Disconnecting" /\ updateAge' = 0 /\ pc = "idle"
      /\ reported' = machine'.state
      /\ UNCHANGED <<m_retry_count, m_connected, peer, inbox, queued,
                     m_handshake_sent, handshakeAge, backoffAge, backoffDelay,
                     pingAge, pingPending, m_last_error_code, pc>>
  BY DEF UpdateDisconnecting, BeginUpdate, socketVars, backoffVars, pingVars
<1>2. machine' \in Machine /\ machine'.state = "Disconnected"
  BY <1>0, <1>1, EventEffects DEF UpdateDisconnecting, ConnectionEvent, State
<1>3. TypeOK'
  BY <1>0, <1>1, <1>2 DEF TypeOK, Machine
<1>4. StateInv'
  BY <1>0, <1>1, <1>2 DEF State, StateInv, NoTransientAtRest, HandshakeWasSent,
     CallbackKnowsState, ErrorIsVersionMismatch, DrainingStates
<1>5. QED
  BY <1>3, <1>4 DEF Inv

-----------------------------------------------------------------------------
(***************************************************************************)
(* Every step keeps the invariant.                                         *)
(***************************************************************************)
LEMMA InvStep == Inv /\ [Next]_vars => Inv'
<1> SUFFICES ASSUME Inv, [Next]_vars PROVE Inv'
  OBVIOUS
<1>1. CASE UNCHANGED vars
  BY <1>1 DEF vars, socketVars, backoffVars, pingVars, Inv, TypeOK, State, StateInv,
     NoTransientAtRest, HandshakeWasSent, CallbackKnowsState, ErrorIsVersionMismatch,
     DrainingStates
<1>2. CASE Update
  BY <1>2, UpdateNothingStep, UpdateConnectedStep, UpdateHandshakingStep,
     UpdateReadyStep, DrainPacketStep, DrainLostStep, DrainEndsStep,
     UpdateBackoffStep, UpdateDisconnectingStep DEF Update
<1>3. QED
  BY <1>1, <1>2, ConnectStep, DisconnectStep, SendStep, EnvironmentStep DEF Next

(***************************************************************************)
(* Type correctness of the client, and that update() and the calls never   *)
(* leave the machine in a state that update() ignores, that Handshaking    *)
(* and Ready imply a handshake sent, that the state callback lags in one   *)
(* case only, and that Error means a version mismatch.                     *)
(***************************************************************************)
THEOREM ClientSafety ==
  Spec => [](/\ TypeOK /\ NoTransientAtRest /\ HandshakeWasSent
             /\ CallbackKnowsState /\ ErrorIsVersionMismatch)
<1>1. Inv => /\ TypeOK /\ NoTransientAtRest /\ HandshakeWasSent
             /\ CallbackKnowsState /\ ErrorIsVersionMismatch
  BY DEF Inv, StateInv
<1>2. QED
  BY <1>1, InitInv, InvStep, PTL DEF Spec

(***************************************************************************)
(* Whoever is told of state changes is never behind by more than the one   *)
(* step that handle_packet takes on the server's Disconnect: otherwise the *)
(* state last given to m_state_callback is the machine's.                  *)
(***************************************************************************)
THEOREM CallbackIsUpToDate == Spec => []CallbackKnowsState
BY ClientSafety, PTL

(***************************************************************************)
(* From Error only disconnect() leads away, to a closed client whose       *)
(* counters are reset.                                                     *)
(***************************************************************************)
THEOREM ErrorIsFinal == Spec => ErrorOnlyLeftByDisconnect
<1>1. Inv /\ [Next]_vars =>
        [State = "Error" /\ machine'.state # "Error"
           => machine'.state = "Disconnected" /\ ~m_connected' /\ m_retry_count' = 0]_vars
  <2> SUFFICES ASSUME Inv, Next, State = "Error", machine'.state # "Error"
               PROVE  machine'.state = "Disconnected" /\ ~m_connected'
                      /\ m_retry_count' = 0
    BY DEF vars
  <2>0. machine.state = "Error"
    BY DEF State
  <2>1. CASE Disconnect
    BY <2>1, DisconnectStep DEF Disconnect, ResetRetries
  <2>2. CASE Connect
    BY <2>0, <2>2 DEF Connect, IsValidTransition, Target, IsConnected, State
  <2>3. CASE SendControl \/ SendProxyData
    BY <2>3 DEF SendControl, SendProxyData
  <2>4. CASE Environment
    BY <2>0, <2>4 DEF Environment, Tick, PeerGoes, SendThread, ServerSends
  <2>5. CASE Update
    <3>1. pc = "idle"
      BY DEF Inv, StateInv, TypeOK, DrainingStates
    <3>2. UpdateNothing
      BY <2>5, <3>1 DEF Update, UpdateConnected, UpdateHandshaking, UpdateReady,
         UpdateBackoff, UpdateDisconnecting, DrainPacket, DrainLost, DrainEnds,
         BeginUpdate
    <3>3. QED
      BY <2>0, <3>2 DEF UpdateNothing
  <2>6. QED
    BY <2>1, <2>2, <2>3, <2>4, <2>5 DEF Next
<1>2. QED
  BY <1>1, InitInv, InvStep, PTL DEF Spec, ErrorOnlyLeftByDisconnect

(***************************************************************************)
(* Ready is entered on the server's answer to a handshake this client      *)
(* sent, taken from the connection that is up, and in no other way.        *)
(***************************************************************************)
THEOREM ReadyIsAnswered == Spec => ReadyOnlyByAnswer
<1>1. Inv /\ [Next]_vars =>
        [State # "Ready" /\ machine'.state = "Ready"
           => /\ State = "Handshaking" /\ m_connected /\ m_handshake_sent
              /\ Head(inbox) \in {"Initialize", "SyncNetwork"}]_vars
  <2> SUFFICES ASSUME Inv, Next, State # "Ready", machine'.state = "Ready"
               PROVE  /\ State = "Handshaking" /\ m_connected /\ m_handshake_sent
                      /\ Head(inbox) \in {"Initialize", "SyncNetwork"}
    BY DEF vars
  <2>0. /\ TypeOK /\ StateInv /\ machine \in Machine /\ machine.state # "Ready"
        /\ updateAge \in Stamp /\ 0 \in Stamp
    BY ClientAssumption DEF Inv, State, TypeOK, Stamp, Age
  <2>1. CASE UpdateHandshaking
    BY <2>0, <2>1, UpdateHandshakingStep DEF UpdateHandshaking, BeginUpdate,
       StateInv, HandshakeWasSent
  <2>2. CASE Connect
    <3>1. machine' # machine
      BY <2>0
    <3>2. /\ IsValidTransition(State, "Connect")
          /\ TryConnect(ProcessEvent(machine, "Connect"), updateAge)
      BY <2>2, <3>1 DEF Connect
    <3>3. State = "Disconnected"
      BY <2>0, <3>2 DEF IsValidTransition, Target, State, Machine, ConnectionState,
         IsConnected
    <3>4. /\ ProcessEvent(machine, "Connect") \in Machine
          /\ ProcessEvent(machine, "Connect").state = "Connecting"
      BY <2>0, <3>3, EventEffects DEF ConnectionEvent, State
    <3>5. QED
      BY <2>0, <3>2, <3>4, TryConnectEffect
  <2>3. CASE Disconnect
    BY <2>3, DisconnectStep
  <2>4. CASE SendControl \/ SendProxyData
    BY <2>4 DEF SendControl, SendProxyData
  <2>5. CASE Environment \/ UpdateNothing
    BY <2>0, <2>5 DEF Environment, Tick, PeerGoes, SendThread, ServerSends, UpdateNothing
  <2>6. CASE UpdateConnected
    <3>1. \/ machine' = machine
          \/ machine' = ProcessEvent(machine, "HandshakeStarted")
          \/ machine' = ProcessEvent(machine, "HandshakeFailed")
          \/ machine' = ProcessEvent(ProcessEvent(machine, "ConnectionLost"),
                                     "HandshakeFailed")
      BY <2>6 DEF UpdateConnected
    <3>2. machine.state = "Connected"
      BY <2>6 DEF UpdateConnected, BeginUpdate, State
    <3>3. QED
      BY <2>0, <3>1, <3>2, EventEffects DEF ConnectionEvent
  <2>7. CASE UpdateReady
    BY <2>7 DEF UpdateReady, BeginUpdate
  <2>8. CASE DrainPacket \/ DrainLost \/ DrainEnds \/ UpdateDisconnecting
    <3>1. machine.state = "Disconnecting"
      BY <2>0, <2>8 DEF DrainPacket, DrainLost, DrainEnds, UpdateDisconnecting,
         BeginUpdate, State, StateInv, DrainingStates
    <3>2. \/ machine' = machine
          \/ machine' = ProcessEvent(machine, "Disconnect")
          \/ machine' = ProcessEvent(machine, "ConnectionLost")
      BY <2>8, Zenon DEF DrainPacket, HandlePacket, DrainLost, DrainEnds, PingChecks,
         UpdateDisconnecting
    <3>3. QED
      BY <2>0, <3>1, <3>2, EventEffects DEF ConnectionEvent
  <2>9. CASE UpdateBackoff
    <3>1. TryConnect(ProcessEvent(machine, "BackoffExpired"), 0)
      BY <2>0, <2>9, Zenon DEF UpdateBackoff
    <3>2. /\ ProcessEvent(machine, "BackoffExpired") \in Machine
          /\ ProcessEvent(machine, "BackoffExpired").state = "Retrying"
      BY <2>0, <2>9, EventEffects DEF ConnectionEvent, State, UpdateBackoff, BeginUpdate
    <3>3. QED
      BY <2>0, <3>1, <3>2, TryConnectEffect
  <2>10. QED
    BY <2>1, <2>2, <2>3, <2>4, <2>5, <2>6, <2>7, <2>8, <2>9 DEF Next, Update
<1>2. QED
  BY <1>1, InitInv, InvStep, PTL DEF Spec, ReadyOnlyByAnswer

-----------------------------------------------------------------------------
(***************************************************************************)
(* The settings that the program is configured by (ConfigStore), for any   *)
(* settings and any order of them in the file.                             *)
(***************************************************************************)

(***************************************************************************)
(* The inductive invariant.  Types, as far as the proof needs them; who    *)
(* saves or reloads holds the mutex, but for the boot, which is alone;     *)
(* what is about to be written is g_config, which nobody changes           *)
(* meanwhile.                                                              *)
(***************************************************************************)
StoreTyped ==
  /\ phase \in {"off", "boot", "run"} /\ g_config \in Config
  /\ file \in Content \cup {None}
  /\ step \in [Threads -> {"idle", "delete", "create", "write", "load", "lock"}]
  /\ buffer \in [Threads -> Config]
  /\ told \in Config \cup {None} /\ lost \in BOOLEAN /\ relay \in BOOLEAN
Saves(t) == step[t] \in {"delete", "create", "write"}
Turns ==
  /\ g_config_mutex = "cfg" <=> step["cfg"] # "idle"
  /\ g_config_mutex = "persist" <=> Saves("persist")
  /\ g_config_mutex # "boot"
  /\ step["cfg"] # "lock" /\ step["persist"] # "load" /\ (step["boot"] = "idle" \/ Saves("boot"))
  /\ phase # "run" => step["cfg"] = "idle" /\ step["persist"] = "idle"
  /\ phase # "boot" => step["boot"] = "idle"
Copies ==
  /\ Saves("cfg") => buffer["cfg"] = g_config
  /\ Saves("persist") => buffer["persist"] = g_config /\ g_config[P2p]
  /\ buffer["boot"] = Default
  /\ step["cfg"] = "load" => g_config = Default

(***************************************************************************)
(* What was saved is in the file whenever nobody is rewriting it.          *)
(***************************************************************************)
NoneSaves == ~Saves("boot") /\ ~Saves("cfg") /\ ~Saves("persist")
Stored ==
  /\ told # None /\ ~lost => step["boot"] = "idle"
  /\ told # None /\ ~lost /\ NoneSaves =>
       /\ file # None
       /\ \A s \in Settings \ changed : Parsed(file)[s] = told[s]
StoreInv == StoreTyped /\ Turns /\ Copies /\ Stored /\ SavedSurvives

\* The three threads.
LEMMA ThreadsAre == Threads = {"boot", "cfg", "persist"}
BY DEF Threads

\* Somebody is saving.
LEMMA SavingIs == Saving <=> ~NoneSaves
BY ThreadsAre DEF Saving, NoneSaves, Saves

\* What the constants are.
LEMMA StoreFacts ==
  /\ Default \in Config /\ P2p \in Settings /\ Passphrase \in Settings
  /\ None \notin Threads /\ None \notin Content /\ None \notin BOOLEAN
  /\ None # "boot" /\ None # "cfg" /\ None # "persist"
<1>1. None \notin Threads
  BY ConfigStoreAssumption
<1>2. None # "boot" /\ None # "cfg" /\ None # "persist"
  BY <1>1, ThreadsAre
<1>3. QED
  BY <1>1, <1>2, ConfigStoreAssumption

\* A whole content is a configuration, and read as what it is.
LEMMA ContentIs ==
  /\ \A c \in Config : /\ c \in Content /\ c # None
                       /\ \A s \in Settings : Parsed(c)[s] = c[s]
  /\ \A c \in Content : Parsed(c) \in Config
<1>1. ASSUME NEW c \in Config
      PROVE  c \in Content
  BY DEF Config, Content
<1>2. ASSUME NEW c \in Config
      PROVE  c # None
  BY <1>1, StoreFacts
<1>3. ASSUME NEW c \in Config, NEW s \in Settings
      PROVE  Parsed(c)[s] = c[s]
  <2>1. c[s] # None
    BY StoreFacts DEF Config
  <2>2. QED
    BY <2>1 DEF Parsed
<1>4. ASSUME NEW c \in Content
      PROVE  Parsed(c) \in Config
  <2>1. \A s \in Settings : (IF c[s] = None THEN Default[s] ELSE c[s]) \in BOOLEAN
    BY StoreFacts, Zenon DEF Config, Content
  <2>2. QED
    BY <2>1, Zenon DEF Parsed, Config
<1>5. QED
  BY <1>1, <1>2, <1>3, <1>4

\* A file that was written in part is a content too.
LEMMA WrittenIs ==
  /\ Blank \in Content
  /\ \A c \in Config : \A n, cut : Written(c, n, cut) \in Content
<1>1. Blank \in Content
  BY Zenon DEF Blank, Content
<1>2. ASSUME NEW c \in Config, NEW n, NEW cut
      PROVE  Written(c, n, cut) \in Content
  <2>1. \A s \in Settings : c[s] \in BOOLEAN
    BY DEF Config
  <2>2. \A s \in Settings : (s # Passphrase) \in BOOLEAN
    BY Zenon
  <2>3. QED
    BY <2>1, <2>2, Zenon DEF Written, Content
<1>3. QED
  BY <1>1, <1>2, Zenon

\* What is loaded.
LEMMA LoadIs ==
  ASSUME StoreTyped
  PROVE  /\ \A ok \in BOOLEAN : Load(ok) \in Config
         /\ file # None => Load(TRUE) = Parsed(file)
         /\ file = None => Load(TRUE) = Default
<1>1. file # None => Parsed(file) \in Config
  BY ContentIs DEF StoreTyped
<1>2. QED
  BY <1>1, StoreFacts, Zenon DEF Load

(***************************************************************************)
(* Steps of the overlay that change no setting.                            *)
(***************************************************************************)
LEMMA StillStep ==
  ASSUME StoreInv,
         UNCHANGED <<phase, g_config, g_config_mutex, file, step, buffer, told, changed, lost, relay>>
  PROVE  StoreInv'
BY ZenonT(40) DEF StoreInv, StoreTyped, Turns, Copies, Stored, NoneSaves, Saves, SavedSurvives,
   Parsed

\* A Set command.
LEMMA SetStep ==
  ASSUME StoreInv, CfgFree, NEW s \in Settings,
         NEW value \in BOOLEAN, Set(s, value)
  PROVE  StoreInv'
<1>1. /\ g_config' = [g_config EXCEPT ![s] = value] /\ changed' = changed \cup {s}
      /\ UNCHANGED <<phase, g_config_mutex, file, step, buffer, told, lost>>
      /\ relay' = (relay /\ g_config'[P2p])
  BY DEF Set
<1>2. phase = "run" /\ g_config_mutex = None /\ step["cfg"] = "idle"
  BY DEF CfgFree
<1>3. StoreTyped /\ Turns /\ Copies /\ Stored /\ SavedSurvives
  BY DEF StoreInv
<1>4. ~Saves("cfg") /\ ~Saves("persist")
  BY <1>2, <1>3, StoreFacts DEF Turns, Saves
<1>5. g_config \in Config /\ g_config' \in Config
  BY <1>1, <1>3 DEF StoreTyped, Config
<1>6. StoreTyped'
  <2>1. relay' \in BOOLEAN
    BY <1>1, Zenon
  <2>2. QED
    BY <1>1, <1>3, <1>5, <2>1, Zenon DEF StoreTyped
<1>7. Turns'
  BY <1>1, <1>3, Zenon DEF Turns, Saves
<1>8. Copies'
  BY <1>1, <1>2, <1>3, <1>4, Zenon DEF Copies, Saves
<1>9. Stored'
  BY <1>1, <1>3, Zenon DEF Stored, NoneSaves, Saves, Parsed
<1>10. SavedSurvives'
  <2> SUFFICES ASSUME told # None, ~lost, NEW r \in Settings \ changed'
               PROVE  g_config'[r] = told[r]
    BY <1>1, Zenon DEF SavedSurvives
  <2>1. r \in Settings \ changed /\ r # s
    BY <1>1
  <2>2. g_config[r] = told[r]
    BY <1>2, <1>3, <2>1 DEF SavedSurvives
  <2>3. QED
    BY <1>1, <1>5, <2>1, <2>2 DEF Config
<1>11. QED
  BY <1>6, <1>7, <1>8, <1>9, <1>10 DEF StoreInv

\* The overlay.
LEMMA OverlayStep ==
  ASSUME StoreInv,
         \/ OpenOverlay \/ CloseOverlay \/ GoBack
         \/ ServerSettingsGui \/ LdnSettingsGui \/ DebugSettingsGui
         \/ \E s \in Settings : Toggle(s)
         \/ \E value \in BOOLEAN : SetPassphrase(value)
         \/ HexKeyboardGui \/ HandleInput \/ SavePassphrase
         \/ LeaveKeyboard
  PROVE  StoreInv'
<1>1. CASE \/ OpenOverlay \/ CloseOverlay \/ GoBack
           \/ ServerSettingsGui \/ LdnSettingsGui \/ DebugSettingsGui
           \/ HexKeyboardGui \/ HandleInput \/ LeaveKeyboard
  <2>1. UNCHANGED <<phase, g_config, g_config_mutex, file, step, buffer, told, changed, lost, relay>>
    BY <1>1, Zenon DEF OpenOverlay, CloseOverlay, GoBack,
       ServerSettingsGui, LdnSettingsGui, DebugSettingsGui,
       OpenSettings, HexKeyboardGui, HandleInput, LeaveKeyboard,
       memory, history
  <2>2. QED
    BY <2>1, StillStep
<1>2. CASE \E s \in Settings : Toggle(s)
  <2>1. PICK s \in Settings : CfgFree /\ Set(s, ~shown[s])
    BY <1>2, Zenon DEF Toggle
  <2>2. (~shown[s]) \in BOOLEAN
    BY Zenon
  <2>3. QED
    BY <2>1, <2>2, SetStep
<1>3. CASE \E value \in BOOLEAN : SetPassphrase(value)
  BY <1>3, StoreFacts, SetStep, Zenon DEF SetPassphrase
<1>4. CASE SavePassphrase
  <2>1. CASE input = "partial"
    <3>1. UNCHANGED <<phase, g_config, g_config_mutex, file, step, buffer, told, changed, lost, relay>>
      BY <1>4, <2>1, Zenon DEF SavePassphrase, memory, history
    <3>2. QED
      BY <3>1, StillStep
  <2>2. CASE input # "partial"
    <3>1. CfgFree /\ Set(Passphrase, input = "full")
      BY <1>4, <2>2, Zenon DEF SavePassphrase
    <3>2. (input = "full") \in BOOLEAN
      BY Zenon
    <3>3. QED
      BY <3>1, <3>2, StoreFacts, SetStep
  <2>3. QED
    BY <2>1, <2>2
<1>5. QED
  BY <1>1, <1>2, <1>3, <1>4

(***************************************************************************)
(* save_config: one thread saves at a time, and what it writes is g_config *)
(* or, at the boot, the defaults.                                          *)
(***************************************************************************)
LEMMA OneSaves ==
  ASSUME StoreInv, NEW t \in Threads, Saves(t)
  PROVE  /\ \A r \in Threads : r # t => ~Saves(r)
         /\ t # "boot" => buffer[t] = g_config /\ step["cfg"] # "load" /\ phase = "run"
         /\ t = "boot" => (told = None \/ lost) /\ phase = "boot" /\ buffer[t] = Default
         /\ t = "cfg" \/ step["cfg"] = "idle"
         /\ t # "boot" => g_config_mutex = t
<1> USE DEF StoreInv, Turns, Copies, Stored, Saves
<1>1. CASE t = "boot"
  BY <1>1, ThreadsAre
<1>2. CASE t = "cfg"
  BY <1>2, ThreadsAre
<1>3. CASE t = "persist"
  BY <1>3, ThreadsAre
<1>4. QED
  BY <1>1, <1>2, <1>3, ThreadsAre

\* Giving the mutex back leaves the turns in order.
LEMMA EndsTurn ==
  ASSUME StoreInv, NEW t \in Threads, Saves(t), SaveEnds(t),
         UNCHANGED <<phase, g_config>>
  PROVE  Turns' /\ Copies' /\ NoneSaves' /\ buffer' \in [Threads -> Config]
         /\ step' \in [Threads -> {"idle", "delete", "create", "write", "load", "lock"}]
         /\ step'["cfg"] = "idle" /\ step'["boot"] = "idle"
<1>1. /\ step' = [step EXCEPT ![t] = "idle"] /\ buffer' = [buffer EXCEPT ![t] = Default]
      /\ g_config_mutex' = IF g_config_mutex = t THEN None ELSE g_config_mutex
  BY DEF SaveEnds
<1>2. /\ step \in [Threads -> {"idle", "delete", "create", "write", "load", "lock"}]
      /\ buffer \in [Threads -> Config] /\ Turns /\ Copies
  BY DEF StoreInv, StoreTyped
<1>3. /\ buffer' \in [Threads -> Config]
      /\ step' \in [Threads -> {"idle", "delete", "create", "write", "load", "lock"}]
  BY <1>1, <1>2, StoreFacts
<1>4. \A r \in Threads : ~Saves(r)'
  BY <1>1, <1>2, OneSaves DEF Saves
<1>5. NoneSaves'
  BY <1>4, ThreadsAre DEF NoneSaves
<1>6. /\ step'[t] = "idle"
      /\ \A r \in Threads : r # t => step'[r] = step[r] /\ buffer'[r] = buffer[r]
  BY <1>1, <1>2
<1>7. buffer'["boot"] = Default
  BY <1>1, <1>2, ThreadsAre DEF Copies
<1>8. step'["cfg"] = "idle" /\ step'["boot"] = "idle"
  <2>1. step["boot"] = "idle" \/ Saves("boot")
    BY <1>2 DEF Turns
  <2>2. QED
    BY <1>6, <2>1, OneSaves, ThreadsAre
<1>9. Turns'
  <2>1. g_config_mutex' # "cfg" /\ g_config_mutex' # "persist" /\ g_config_mutex' # "boot"
    <3>1. CASE t = "boot"
      BY <1>1, <1>2, <3>1, OneSaves, ThreadsAre DEF Turns
    <3>2. CASE t # "boot"
      <4>1. g_config_mutex' = None
        BY <1>1, <3>2, OneSaves
      <4>2. QED
        BY <4>1, StoreFacts
    <3>3. QED
      BY <3>1, <3>2
  <2>2. ~Saves("persist")' /\ step'["persist"] # "load"
    BY <1>2, <1>4, <1>6, ThreadsAre DEF Turns
  <2>3. phase # "run" => step'["persist"] = "idle"
    BY <1>2, <1>6, ThreadsAre DEF Turns
  <2>4. QED
    BY <1>8, <2>1, <2>2, <2>3 DEF Turns
<1>10. Copies'
  BY <1>4, <1>7, <1>8, ThreadsAre DEF Copies
<1>11. QED
  BY <1>3, <1>5, <1>8, <1>9, <1>10

\* A step of a save.
LEMMA SaveStep ==
  ASSUME StoreInv, NEW t \in Threads,
         SaveDelete(t) \/ SaveCreate(t) \/ SaveWrite(t) \/ SaveWriteFails(t)
  PROVE  StoreInv'
<1>1. Saves(t)
  BY Zenon DEF Saves, SaveDelete, SaveCreate, SaveWrite, SaveWriteFails
<1>2. StoreTyped /\ Turns /\ Copies /\ Stored /\ SavedSurvives
  BY DEF StoreInv
<1>3. CASE /\ Saves(t)' /\ \E p \in {"create", "write"} : step' = [step EXCEPT ![t] = p]
           /\ file' \in Content \cup {None}
           /\ UNCHANGED <<phase, g_config, g_config_mutex, buffer, told, changed, lost, relay>>
  <2>1. PICK p \in {"create", "write"} : step' = [step EXCEPT ![t] = p]
    BY <1>3
  <2>2. /\ step' \in [Threads -> {"idle", "delete", "create", "write", "load", "lock"}]
        /\ step'[t] = p /\ \A r \in Threads : r # t => step'[r] = step[r]
    BY <1>2, <2>1 DEF StoreTyped
  <2>3. \A r \in Threads : Saves(r)' <=> Saves(r)
    BY <1>1, <1>3, <2>2, Zenon DEF Saves
  <2>4. ~NoneSaves' /\ ~NoneSaves
    BY <1>1, <1>3, ThreadsAre DEF NoneSaves
  <2>5. StoreTyped'
    BY <1>2, <1>3, <2>2, Zenon DEF StoreTyped
  <2>6. \A r \in Threads : /\ (step'[r] = "idle" <=> step[r] = "idle")
                           /\ (step'[r] = "load" <=> step[r] = "load")
                           /\ (step'[r] = "lock" => step[r] = "lock")
    BY <1>1, <2>2 DEF Saves
  <2>7. Turns'
    BY <1>2, <1>3, <2>3, <2>6, ThreadsAre DEF Turns
  <2>8. Copies'
    BY <1>2, <1>3, <2>3, <2>6, ThreadsAre DEF Copies
  <2>9. Stored'
    BY <1>2, <1>3, <2>4, <2>6, ThreadsAre DEF Stored
  <2>10. SavedSurvives'
    BY <1>2, <1>3, <2>6, ThreadsAre DEF SavedSurvives
  <2>11. QED
    BY <2>5, <2>7, <2>8, <2>9, <2>10 DEF StoreInv
<1>4. CASE SaveFails(t) /\ file' \in Content \cup {None}
  <2>1. /\ lost' = TRUE /\ relay' = FALSE /\ SaveEnds(t)
        /\ UNCHANGED <<phase, g_config, told, changed>>
    BY <1>4 DEF SaveFails
  <2>2. Turns' /\ Copies' /\ buffer' \in [Threads -> Config]
        /\ step' \in [Threads -> {"idle", "delete", "create", "write", "load", "lock"}]
    BY <1>1, <2>1, EndsTurn
  <2>3. StoreTyped'
    BY <1>2, <1>4, <2>1, <2>2 DEF StoreTyped
  <2>4. Stored' /\ SavedSurvives'
    BY <2>1 DEF Stored, SavedSurvives
  <2>5. QED
    BY <2>2, <2>3, <2>4 DEF StoreInv
<1>5. CASE SaveWrite(t)
  <2>1. /\ file' = buffer[t] /\ SaveEnds(t) /\ UNCHANGED <<phase, g_config>>
        /\ IF t = "cfg"
           THEN told' = buffer[t] /\ changed' = {} /\ lost' = FALSE /\ UNCHANGED relay
           ELSE UNCHANGED <<told, changed, lost>> /\ relay' = (relay \/ t = "persist")
    BY <1>5, Zenon DEF SaveWrite
  <2>2. Turns' /\ Copies' /\ buffer' \in [Threads -> Config]
        /\ step' \in [Threads -> {"idle", "delete", "create", "write", "load", "lock"}]
        /\ step'["boot"] = "idle"
    BY <1>1, <2>1, EndsTurn
  <2>3. file' \in Config
    BY <1>2, <2>1 DEF StoreTyped
  <2>4. /\ file' \in Content /\ file' # None
        /\ \A s \in Settings : Parsed(file')[s] = file'[s]
    BY <2>3, ContentIs
  <2>5. StoreTyped'
    <3>1. told' \in Config \cup {None} /\ lost' \in BOOLEAN /\ relay' \in BOOLEAN
      <4>1. CASE t = "cfg"
        BY <1>2, <2>1, <2>3, <4>1 DEF StoreTyped
      <4>2. CASE t # "cfg"
        BY <1>2, <2>1, <4>2, Zenon DEF StoreTyped
      <4>3. QED
        BY <4>1, <4>2
    <3>2. QED
      BY <1>2, <2>1, <2>2, <2>4, <3>1, Zenon DEF StoreTyped
  <2>6. ASSUME told' # None, ~lost', NEW s \in Settings \ changed'
        PROVE  file'[s] = told'[s] /\ (phase = "run" => g_config[s] = file'[s])
    <3>1. CASE t = "cfg"
      BY <1>1, <2>1, <3>1, OneSaves
    <3>2. CASE t = "persist"
      <4>1. buffer[t] = g_config /\ step["cfg"] # "load" /\ phase = "run"
        BY <1>1, <3>2, OneSaves
      <4>2. g_config[s] = told[s]
        BY <1>2, <2>1, <2>6, <3>2, <4>1 DEF SavedSurvives
      <4>3. QED
        BY <2>1, <3>2, <4>1, <4>2
    <3>3. CASE t = "boot"
      BY <1>1, <2>1, <2>6, <3>3, OneSaves
    <3>4. QED
      BY <3>1, <3>2, <3>3, ThreadsAre
  <2>7. Stored'
    <3> SUFFICES ASSUME told' # None, ~lost'
                 PROVE  \A s \in Settings \ changed' : Parsed(file')[s] = told'[s]
      BY <2>2, <2>4, Zenon DEF Stored
    <3>1. QED
      BY <2>4, <2>6
  <2>8. SavedSurvives'
    BY <2>1, <2>6 DEF SavedSurvives
  <2>9. QED
    BY <2>2, <2>5, <2>7, <2>8 DEF StoreInv
<1>6. CASE SaveDelete(t)
  <2>1. /\ file' \in Content \cup {None} /\ step' = [step EXCEPT ![t] = "create"]
        /\ UNCHANGED <<phase, g_config, g_config_mutex, buffer, told, changed, lost, relay>>
    BY <1>2, <1>6 DEF SaveDelete, StoreTyped, memory, history
  <2>2. Saves(t)'
    BY <1>2, <2>1 DEF Saves, StoreTyped
  <2>3. QED
    BY <1>3, <2>1, <2>2
<1>7. CASE SaveCreate(t)
  <2>1. CASE SaveFails(t) /\ file' = file
    BY <1>2, <1>4, <2>1 DEF StoreTyped
  <2>2. CASE /\ file' = Blank /\ step' = [step EXCEPT ![t] = "write"]
             /\ UNCHANGED <<phase, g_config, g_config_mutex, buffer, told, changed, lost, relay>>
    <3>1. Saves(t)'
      BY <1>2, <2>2 DEF Saves, StoreTyped
    <3>2. QED
      BY <1>3, <2>2, <3>1, WrittenIs
  <2>3. QED
    BY <1>7, <2>1, <2>2, Zenon DEF SaveCreate, memory, history
<1>8. CASE SaveWriteFails(t)
  <2>1. Cut(t) /\ SaveFails(t) /\ buffer[t] \in Config
    BY <1>2, <1>8 DEF SaveWriteFails, StoreTyped
  <2>2. file' \in Content
    BY <2>1, WrittenIs, Zenon DEF Cut
  <2>3. QED
    BY <1>4, <2>1, <2>2
<1>9. QED
  BY <1>5, <1>6, <1>7, <1>8

(***************************************************************************)
(* The console is switched on and off.                                     *)
(***************************************************************************)
LEMMA PowerStep ==
  ASSUME StoreInv,
         Boot \/ InitializeConfig \/ PowerOff
  PROVE  StoreInv'
<1>1. StoreTyped /\ Turns /\ Copies /\ Stored /\ SavedSurvives
  BY DEF StoreInv
<1>2. CASE Boot
  <2>1. /\ phase = "off" /\ phase' = "boot"
        /\ UNCHANGED <<g_config, g_config_mutex, file, told, changed, lost, relay>>
        /\ \/ /\ file = None /\ step' = [step EXCEPT !["boot"] = "delete"]
              /\ buffer' = [buffer EXCEPT !["boot"] = Default]
           \/ file # None /\ UNCHANGED <<step, buffer>>
    BY <1>2, Zenon DEF Boot, memory, history
  <2>2. step["boot"] = "idle" /\ step["cfg"] = "idle" /\ step["persist"] = "idle" /\ NoneSaves
    BY <1>1, <2>1 DEF Turns, NoneSaves, Saves
  <2>3. /\ step'["cfg"] = "idle" /\ step'["persist"] = "idle" /\ buffer'["boot"] = Default
        /\ step'["boot"] = IF file = None THEN "delete" ELSE "idle"
        /\ step' \in [Threads -> {"idle", "delete", "create", "write", "load", "lock"}]
        /\ buffer' \in [Threads -> Config]
    <3>1. CASE file = None
      BY <1>1, <2>1, <2>2, <3>1, StoreFacts, ThreadsAre DEF StoreTyped
    <3>2. CASE file # None
      BY <1>1, <2>1, <2>2, <3>2 DEF StoreTyped, Copies
    <3>3. QED
      BY <3>1, <3>2
  <2>4. StoreTyped'
    BY <1>1, <2>1, <2>3 DEF StoreTyped
  <2>5. Turns' /\ Copies'
    BY <1>1, <2>1, <2>2, <2>3 DEF Turns, Copies, Saves
  <2>6. Stored'
    <3> SUFFICES ASSUME told # None, ~lost
                 PROVE  /\ step'["boot"] = "idle" /\ file # None
                        /\ \A s \in Settings \ changed : Parsed(file)[s] = told[s]
      BY <2>1, Zenon DEF Stored, Parsed
    <3>1. QED
      BY <1>1, <2>2, <2>3 DEF Stored
  <2>7. SavedSurvives'
    BY <2>1 DEF SavedSurvives
  <2>8. QED
    BY <2>4, <2>5, <2>6, <2>7 DEF StoreInv
<1>3. CASE InitializeConfig
  <2>1. PICK ok \in BOOLEAN :
          /\ phase = "boot" /\ step["boot"] = "idle" /\ phase' = "run"
          /\ g_config' = Load(ok) /\ lost' = (lost \/ ~ok) /\ relay' = (relay /\ ok)
          /\ UNCHANGED <<g_config_mutex, file, step, buffer, told, changed>>
    BY <1>3, Zenon DEF InitializeConfig
  <2>2. step["cfg"] = "idle" /\ step["persist"] = "idle" /\ NoneSaves
    BY <1>1, <2>1 DEF Turns, NoneSaves, Saves
  <2>3. StoreTyped'
    <3>1. g_config' \in Config
      BY <1>1, <2>1, LoadIs
    <3>2. lost' \in BOOLEAN /\ relay' \in BOOLEAN
      BY <2>1, Zenon
    <3>3. QED
      BY <1>1, <2>1, <3>1, <3>2, Zenon DEF StoreTyped
  <2>4. Turns' /\ Copies'
    BY <1>1, <2>1, <2>2 DEF Turns, Copies, Saves
  <2>5. ASSUME told # None, ~lost'
        PROVE  /\ file # None
               /\ \A s \in Settings \ changed : /\ Parsed(file)[s] = told[s]
                                                /\ g_config'[s] = told[s]
    <3>1. ~lost /\ ok = TRUE
      BY <1>1, <2>1, <2>5, Zenon DEF StoreTyped
    <3>2. file # None /\ \A s \in Settings \ changed : Parsed(file)[s] = told[s]
      BY <1>1, <2>2, <2>5, <3>1 DEF Stored
    <3>3. g_config' = Parsed(file)
      BY <1>1, <2>1, <3>1, <3>2, LoadIs
    <3>4. QED
      BY <3>2, <3>3
  <2>6. Stored'
    BY <2>1, <2>2, <2>5, Zenon DEF Stored, Parsed
  <2>7. SavedSurvives'
    BY <2>1, <2>5, Zenon DEF SavedSurvives
  <2>8. QED
    BY <2>3, <2>4, <2>6, <2>7 DEF StoreInv
<1>4. CASE PowerOff
  <2>1. /\ phase' = "off" /\ g_config' = Default /\ g_config_mutex' = None
        /\ step' = [t \in Threads |-> "idle"] /\ buffer' = [t \in Threads |-> Default]
        /\ lost' = (lost \/ Saving) /\ relay' = (relay /\ ~Saving)
        /\ UNCHANGED <<told, changed>>
    BY <1>4, Zenon DEF PowerOff
  <2>2. \/ \E t \in Threads : step[t] = "write" /\ Cut(t)
        \/ file' = file
    BY <1>4, Zenon DEF PowerOff
  <2>3. file' \in Content \cup {None} /\ (NoneSaves => file' = file)
    <3>1. CASE file' = file
      BY <1>1, <3>1 DEF StoreTyped
    <3>2. CASE \E t \in Threads : step[t] = "write" /\ Cut(t)
      <4>1. PICK t \in Threads : step[t] = "write" /\ Cut(t)
        BY <3>2
      <4>2. buffer[t] \in Config
        BY <1>1 DEF StoreTyped
      <4>3. file' \in Content
        BY <4>1, <4>2, WrittenIs, Zenon DEF Cut
      <4>4. ~NoneSaves
        BY <4>1, ThreadsAre DEF NoneSaves, Saves
      <4>5. QED
        BY <4>3, <4>4
    <3>3. QED
      BY <2>2, <3>1, <3>2
  <2>4. /\ \A t \in Threads : step'[t] = "idle" /\ buffer'[t] = Default
        /\ step' \in [Threads -> {"idle", "delete", "create", "write", "load", "lock"}]
        /\ buffer' \in [Threads -> Config]
    BY <2>1, StoreFacts
  <2>5. StoreTyped'
    <3>1. lost' \in BOOLEAN /\ relay' \in BOOLEAN
      BY <2>1, Zenon
    <3>2. QED
      BY <1>1, <2>1, <2>3, <2>4, <3>1, StoreFacts DEF StoreTyped
  <2>6. step'["boot"] = "idle" /\ step'["cfg"] = "idle" /\ step'["persist"] = "idle"
        /\ buffer'["boot"] = Default
    BY <2>4, ThreadsAre
  <2>7. Turns' /\ Copies'
    BY <2>1, <2>6, StoreFacts DEF Turns, Copies, Saves
  <2>8. Stored'
    <3> SUFFICES ASSUME told # None, ~lost'
                 PROVE  /\ file' # None
                        /\ \A s \in Settings \ changed : Parsed(file')[s] = told[s]
      BY <2>1, <2>6, Zenon DEF Stored
    <3>1. ~lost /\ ~Saving
      BY <1>1, <2>1, Zenon DEF StoreTyped
    <3>2. NoneSaves
      BY <3>1, SavingIs
    <3>3. QED
      BY <1>1, <2>3, <3>1, <3>2 DEF Stored
  <2>9. SavedSurvives'
    BY <2>1 DEF SavedSurvives
  <2>10. QED
    BY <2>5, <2>7, <2>8, <2>9 DEF StoreInv
<1>5. QED
  BY <1>2, <1>3, <1>4

(***************************************************************************)
(* The main menu's two buttons.                                            *)
(***************************************************************************)
LEMMA ButtonStep ==
  ASSUME StoreInv,
         SaveConfig \/ ReloadConfig \/ ReloadFromFile
  PROVE  StoreInv'
<1>1. StoreTyped /\ Turns /\ Copies /\ Stored /\ SavedSurvives
  BY DEF StoreInv
<1>2. CASE SaveConfig \/ ReloadConfig
  <2>1. /\ phase = "run" /\ g_config_mutex = None /\ step["cfg"] = "idle"
        /\ g_config_mutex' = "cfg" /\ UNCHANGED <<phase, file, told, changed, lost, relay>>
    BY <1>2, Zenon DEF SaveConfig, ReloadConfig, CfgFree, history
  <2>2. PICK p \in {"delete", "load"} :
          /\ step' = [step EXCEPT !["cfg"] = p]
          /\ p = "delete" => g_config' = g_config /\ buffer' = [buffer EXCEPT !["cfg"] = g_config]
          /\ p = "load" => g_config' = Default /\ buffer' = buffer
    BY <1>2 DEF SaveConfig, ReloadConfig
  <2>3. /\ step'["cfg"] = p /\ step'["boot"] = step["boot"] /\ step'["persist"] = step["persist"]
        /\ step' \in [Threads -> {"idle", "delete", "create", "write", "load", "lock"}]
        /\ buffer' \in [Threads -> Config] /\ g_config' \in Config
        /\ buffer'["boot"] = buffer["boot"]
        /\ p = "delete" => buffer'["cfg"] = g_config'
    BY <1>1, <2>2, StoreFacts, ThreadsAre DEF StoreTyped
  <2>4. ~Saves("persist") /\ ~Saves("boot") /\ ~Saves("cfg")
    BY <1>1, <2>1, StoreFacts DEF Turns, Saves
  <2>5. StoreTyped'
    BY <1>1, <2>1, <2>3, Zenon DEF StoreTyped
  <2>6. Turns'
    BY <1>1, <2>1, <2>3, <2>4 DEF Turns, Saves
  <2>7. Copies'
    BY <1>1, <2>2, <2>3, <2>4 DEF Copies, Saves
  <2>8. Stored'
    <3>1. NoneSaves
      BY <2>4 DEF NoneSaves
    <3>2. QED
      BY <1>1, <2>1, <2>3, <3>1, Zenon DEF Stored, Parsed
  <2>9. SavedSurvives'
    <3> SUFFICES ASSUME p # "load", told # None, ~lost
                 PROVE  \A s \in Settings \ changed : g_config'[s] = told[s]
      BY <2>1, <2>3, Zenon DEF SavedSurvives
    <3>1. g_config' = g_config
      BY <2>2
    <3>2. step["cfg"] # "load"
      BY <2>1
    <3>3. QED
      BY <1>1, <2>1, <3>1, <3>2, Zenon DEF SavedSurvives
  <2>10. QED
    BY <2>5, <2>6, <2>7, <2>8, <2>9 DEF StoreInv
<1>3. CASE ReloadFromFile
  <2>1. PICK ok \in BOOLEAN :
          /\ step["cfg"] = "load" /\ g_config' = Load(ok)
          /\ lost' = (lost \/ ~ok) /\ relay' = (relay /\ ok)
          /\ step' = [step EXCEPT !["cfg"] = "idle"] /\ buffer' = [buffer EXCEPT !["cfg"] = Default]
          /\ g_config_mutex' = IF g_config_mutex = "cfg" THEN None ELSE g_config_mutex
          /\ UNCHANGED <<phase, file, told, changed>>
    BY <1>3, Zenon DEF ReloadFromFile, SaveEnds
  <2>2. /\ g_config_mutex = "cfg" /\ ~Saves("persist") /\ phase = "run" /\ step["boot"] = "idle"
        /\ NoneSaves
    BY <1>1, <2>1 DEF Turns, NoneSaves, Saves
  <2>3. /\ step'["cfg"] = "idle" /\ step'["boot"] = "idle" /\ step'["persist"] = step["persist"]
        /\ step' \in [Threads -> {"idle", "delete", "create", "write", "load", "lock"}]
        /\ buffer' \in [Threads -> Config] /\ buffer'["boot"] = Default
    BY <1>1, <2>1, <2>2, StoreFacts, ThreadsAre DEF StoreTyped, Copies
  <2>4. StoreTyped'
    <3>1. g_config' \in Config
      BY <1>1, <2>1, LoadIs
    <3>2. lost' \in BOOLEAN /\ relay' \in BOOLEAN
      BY <2>1, Zenon
    <3>3. QED
      BY <1>1, <2>1, <2>3, <3>1, <3>2, Zenon DEF StoreTyped
  <2>5. g_config_mutex' = None
    BY <2>1, <2>2
  <2>6. Turns' /\ Copies'
    BY <1>1, <2>2, <2>3, <2>5, <2>1, StoreFacts DEF Turns, Copies, Saves
  <2>7. ASSUME told # None, ~lost'
        PROVE  /\ file # None
               /\ \A s \in Settings \ changed : /\ Parsed(file)[s] = told[s]
                                                /\ g_config'[s] = told[s]
    <3>1. ~lost /\ ok = TRUE
      BY <1>1, <2>1, <2>7, Zenon DEF StoreTyped
    <3>2. file # None /\ \A s \in Settings \ changed : Parsed(file)[s] = told[s]
      BY <1>1, <2>2, <2>7, <3>1 DEF Stored
    <3>3. g_config' = Parsed(file)
      BY <1>1, <2>1, <3>1, <3>2, LoadIs
    <3>4. QED
      BY <3>2, <3>3
  <2>8. Stored'
    BY <2>1, <2>3, <2>7, Zenon DEF Stored, Parsed
  <2>9. SavedSurvives'
    BY <2>1, <2>7, Zenon DEF SavedSurvives
  <2>10. QED
    BY <2>4, <2>6, <2>8, <2>9 DEF StoreInv
<1>4. QED
  BY <1>2, <1>3

(***************************************************************************)
(* The LDN service.  P2P is on only while the service is there, and the    *)
(* service only while the console runs.                                    *)
(***************************************************************************)
ProxyInSession == m_use_p2p_proxy => phase = "run" /\ session

\* A failure of P2P.
LEMMA FailsStep ==
  ASSUME StoreInv, ProxyInSession,
         P2pFails \/ AlreadyDisabled
  PROVE  StoreInv'
<1>1. StoreTyped /\ Turns /\ Copies /\ Stored /\ SavedSurvives
  BY DEF StoreInv
<1>2. PICK p \in {"idle", "lock"} :
        /\ step' = [step EXCEPT !["persist"] = p] /\ step["persist"] \in {"idle", "lock"}
        /\ phase = "run"
        /\ UNCHANGED <<phase, g_config, g_config_mutex, file, buffer, told, changed, lost, relay>>
  <2>1. CASE P2pFails
    BY <2>1 DEF P2pFails, memory, history, ProxyInSession
  <2>2. CASE AlreadyDisabled
    <3>1. phase = "run"
      BY <1>1, <2>2 DEF AlreadyDisabled, Turns
    <3>2. QED
      BY <2>2, <3>1 DEF AlreadyDisabled, memory, history
  <2>3. QED
    BY <2>1, <2>2
<1>3. /\ step' \in [Threads -> {"idle", "delete", "create", "write", "load", "lock"}]
      /\ step'["cfg"] = step["cfg"] /\ step'["boot"] = step["boot"] /\ step'["persist"] = p
  BY <1>1, <1>2, ThreadsAre DEF StoreTyped
<1>4. /\ ~Saves("persist") /\ ~Saves("persist")' /\ (Saves("cfg")' <=> Saves("cfg"))
      /\ Saves("boot")' <=> Saves("boot")
  BY <1>2, <1>3 DEF Saves
<1>5. NoneSaves' <=> NoneSaves
  BY <1>4 DEF NoneSaves
<1>6. StoreTyped'
  BY <1>1, <1>2, <1>3, Zenon DEF StoreTyped
<1>7. Turns'
  BY <1>1, <1>2, <1>3, <1>4 DEF Turns
<1>8. Copies'
  BY <1>1, <1>2, <1>3, <1>4, Zenon DEF Copies
<1>9. Stored'
  BY <1>1, <1>2, <1>3, <1>5, Zenon DEF Stored, Parsed
<1>10. SavedSurvives'
  BY <1>1, <1>2, <1>3, Zenon DEF SavedSurvives
<1>11. QED
  BY <1>6, <1>7, <1>8, <1>9, <1>10 DEF StoreInv

\* It is saved.
LEMMA PersistStep ==
  ASSUME StoreInv, PersistDisableP2p
  PROVE  StoreInv'
<1>1. StoreTyped /\ Turns /\ Copies /\ Stored /\ SavedSurvives
  BY DEF StoreInv
<1>2. /\ step["persist"] = "lock" /\ g_config_mutex = None
      /\ g_config' = [g_config EXCEPT ![P2p] = TRUE] /\ g_config_mutex' = "persist"
      /\ step' = [step EXCEPT !["persist"] = "delete"]
      /\ buffer' = [buffer EXCEPT !["persist"] = g_config']
      /\ changed' = changed \cup {P2p}
      /\ UNCHANGED <<phase, file, told, lost, relay>>
  BY DEF PersistDisableP2p
<1>3. /\ g_config' \in Config /\ g_config'[P2p] = TRUE
      /\ \A s \in Settings : s # P2p => g_config'[s] = g_config[s]
  BY <1>1, <1>2, StoreFacts DEF StoreTyped, Config
<1>4. /\ step' \in [Threads -> {"idle", "delete", "create", "write", "load", "lock"}]
      /\ step'["cfg"] = step["cfg"] /\ step'["boot"] = step["boot"] /\ step'["persist"] = "delete"
      /\ buffer' \in [Threads -> Config] /\ buffer'["persist"] = g_config'
      /\ buffer'["boot"] = buffer["boot"]
  BY <1>1, <1>2, <1>3, ThreadsAre DEF StoreTyped
<1>5. step["cfg"] = "idle" /\ phase = "run" /\ step["boot"] = "idle"
  BY <1>1, <1>2, StoreFacts DEF Turns
<1>6. ~Saves("cfg")' /\ ~Saves("boot")' /\ Saves("persist")' /\ ~NoneSaves'
  BY <1>4, <1>5 DEF Saves, NoneSaves
<1>7. StoreTyped'
  BY <1>1, <1>2, <1>3, <1>4, Zenon DEF StoreTyped
<1>8. Turns'
  BY <1>2, <1>4, <1>5, <1>6 DEF Turns
<1>9. Copies'
  BY <1>1, <1>3, <1>4, <1>5, <1>6 DEF Copies
<1>10. Stored'
  BY <1>4, <1>5, <1>6 DEF Stored
<1>11. SavedSurvives'
  <2> SUFFICES ASSUME told # None, ~lost, NEW s \in Settings \ changed'
               PROVE  g_config'[s] = told[s]
    BY <1>2, Zenon DEF SavedSurvives
  <2>1. s \in Settings \ changed /\ s # P2p
    BY <1>2
  <2>2. g_config[s] = told[s]
    BY <1>1, <1>5, <2>1 DEF SavedSurvives
  <2>3. QED
    BY <1>3, <2>1, <2>2
<1>12. QED
  BY <1>7, <1>8, <1>9, <1>10, <1>11 DEF StoreInv

\* What every step does to P2P: only the service's constructor turns it on.
LEMMA ProxyIs ==
  ASSUME [StoreNext]_storeVars
  PROVE  \/ /\ ConstructService /\ phase = "run" /\ ~session /\ phase' = phase
            /\ session' /\ m_use_p2p_proxy' = ~g_config[P2p]
            /\ UNCHANGED <<g_config, g_config_mutex, file, step, buffer, told, changed, lost, relay>>
         \/ ~m_use_p2p_proxy'
         \/ UNCHANGED <<phase, session, m_use_p2p_proxy>>
         \/ UNCHANGED <<session, m_use_p2p_proxy>> /\ phase # "run"
<1>1. CASE ConstructService
  BY <1>1, Zenon DEF ConstructService, memory, history
<1>2. CASE \/ Boot \/ InitializeConfig
  BY <1>2, Zenon DEF Boot, InitializeConfig, ldn
<1>3. CASE PowerOff \/ DestroyService \/ P2pFails
  BY <1>3, Zenon DEF PowerOff, DestroyService, P2pFails
<1>4. CASE \E t \in Threads :
             SaveDelete(t) \/ SaveCreate(t) \/ SaveWrite(t) \/ SaveWriteFails(t)
  BY <1>4, Zenon DEF SaveDelete, SaveCreate, SaveWrite, SaveWriteFails,
     SaveFails, ldn
<1>5. CASE \/ OpenOverlay \/ CloseOverlay \/ GoBack
           \/ ServerSettingsGui \/ LdnSettingsGui \/ DebugSettingsGui
           \/ \E s \in Settings : Toggle(s)
           \/ \E value \in BOOLEAN : SetPassphrase(value)
           \/ HexKeyboardGui \/ HandleInput \/ SavePassphrase
           \/ LeaveKeyboard
  BY <1>5, Zenon DEF OpenOverlay, CloseOverlay, GoBack,
     ServerSettingsGui, LdnSettingsGui, DebugSettingsGui, OpenSettings,
     Toggle, SetPassphrase, Set, HexKeyboardGui, HandleInput,
     SavePassphrase, LeaveKeyboard, ldn
<1>6. CASE \/ SaveConfig \/ ReloadConfig \/ ReloadFromFile
           \/ \E active \in BOOLEAN : SetGameActive(active)
           \/ PersistDisableP2p \/ AlreadyDisabled
  BY <1>6, Zenon DEF SaveConfig, ReloadConfig, ReloadFromFile,
     SetGameActive, PersistDisableP2p, AlreadyDisabled, ldn
<1>7. CASE UNCHANGED storeVars
  BY <1>7, Zenon DEF storeVars, ldn
<1>8. QED
  BY <1>1, <1>2, <1>3, <1>4, <1>5, <1>6, <1>7, Zenon DEF StoreNext

\* P2P stays within the session.
LEMMA ProxyStep ==
  ASSUME ProxyInSession, [StoreNext]_storeVars
  PROVE  ProxyInSession'
BY ProxyIs, Zenon DEF ProxyInSession

\* Every step.
LEMMA StoreStep ==
  ASSUME StoreInv, ProxyInSession, [StoreNext]_storeVars
  PROVE  StoreInv'
<1>1. CASE \/ ConstructService \/ DestroyService \/ UNCHANGED storeVars
           \/ \E active \in BOOLEAN : SetGameActive(active)
  <2>1. UNCHANGED <<phase, g_config, g_config_mutex, file, step, buffer, told, changed, lost, relay>>
    BY <1>1, Zenon DEF ConstructService, DestroyService, SetGameActive,
       storeVars, memory, history
  <2>2. QED
    BY <2>1, StillStep
<1>2. CASE \E t \in Threads :
             SaveDelete(t) \/ SaveCreate(t) \/ SaveWrite(t) \/ SaveWriteFails(t)
  BY <1>2, SaveStep, Zenon
<1>3. QED
  BY <1>1, <1>2, FailsStep, PersistStep, OverlayStep, PowerStep, ButtonStep, Zenon DEF StoreNext

\* The console has never been switched on.
LEMMA InitStore ==
  ASSUME StoreInit
  PROVE  StoreInv /\ ProxyInSession
<1>1. /\ phase = "off" /\ g_config = Default /\ g_config_mutex = None /\ file = None
      /\ step = [t \in Threads |-> "idle"] /\ buffer = [t \in Threads |-> Default]
      /\ told = None /\ changed = {} /\ lost = FALSE /\ relay = FALSE
      /\ session = FALSE /\ m_use_p2p_proxy = FALSE
  BY DEF StoreInit
<1>2. /\ step["boot"] = "idle" /\ step["cfg"] = "idle" /\ step["persist"] = "idle"
      /\ buffer["boot"] = Default
  BY <1>1, ThreadsAre
<1>3. StoreTyped
  BY <1>1, StoreFacts DEF StoreTyped
<1>4. Turns /\ Copies
  BY <1>1, <1>2, StoreFacts DEF Turns, Copies, Saves
<1>5. Stored /\ SavedSurvives /\ ProxyInSession
  BY <1>1 DEF Stored, SavedSurvives, ProxyInSession
<1>6. QED
  BY <1>3, <1>4, <1>5 DEF StoreInv

(***************************************************************************)
(* A setting that was saved, and not changed since, keeps its value over   *)
(* reloads, restarts and the saves of others, unless a save or a read of   *)
(* the file fails (config.cpp, config_ipc_service.cpp, main.cpp).          *)
(***************************************************************************)
THEOREM SavedSettingsSurvive == StoreSpec => []SavedSurvives
<1> DEFINE Safe == StoreInv /\ ProxyInSession
<1>1. (StoreInit => Safe) /\ (Safe /\ [StoreNext]_storeVars => Safe')
  BY InitStore, StoreStep, ProxyStep
<1>2. Safe => SavedSurvives
  BY DEF StoreInv
<1>3. QED
  BY <1>1, <1>2, PTL DEF StoreSpec

(***************************************************************************)
(* A failure of P2P that has been saved: it is in g_config, and in the     *)
(* file whenever nobody is rewriting it.                                   *)
(***************************************************************************)
Relayed ==
  /\ relay /\ phase = "run" => g_config[P2p]
  /\ relay /\ NoneSaves /\ file # None => Parsed(file)[P2p]

\* What is loaded has P2P disabled.
LEMMA LoadRelays ==
  ASSUME Default[P2p], StoreInv, Relayed, relay, NoneSaves
  PROVE  Load(TRUE)[P2p]
BY LoadIs, Zenon DEF StoreInv, Relayed

\* A step that leaves the settings as they are.
LEMMA RelayStill ==
  ASSUME Relayed, UNCHANGED <<phase, g_config, file, relay>>, NoneSaves' => NoneSaves
  PROVE  Relayed'
BY Zenon DEF Relayed, Parsed

\* A Set command: turning P2P on again ends it.
LEMMA RelaySet ==
  ASSUME Relayed, NEW s, NEW value, Set(s, value)
  PROVE  Relayed'
<1>1. /\ relay' = (relay /\ g_config'[P2p]) /\ UNCHANGED <<phase, file, step>>
  BY DEF Set
<1>2. NoneSaves' <=> NoneSaves
  BY <1>1, Zenon DEF NoneSaves, Saves
<1>3. QED
  BY <1>1, <1>2, Zenon DEF Relayed, Parsed

\* The overlay.
LEMMA RelayOverlay ==
  ASSUME Relayed,
         \/ OpenOverlay \/ CloseOverlay \/ GoBack
         \/ ServerSettingsGui \/ LdnSettingsGui \/ DebugSettingsGui
         \/ \E s \in Settings : Toggle(s)
         \/ \E value \in BOOLEAN : SetPassphrase(value)
         \/ HexKeyboardGui \/ HandleInput \/ SavePassphrase
         \/ LeaveKeyboard
  PROVE  Relayed'
<1>1. CASE UNCHANGED <<phase, g_config, file, step, relay>>
  <2>1. NoneSaves' => NoneSaves
    BY <1>1, Zenon DEF NoneSaves, Saves
  <2>2. QED
    BY <1>1, <2>1, RelayStill
<1>2. CASE \E s, value : Set(s, value)
  BY <1>2, RelaySet
<1>3. QED
  BY <1>1, <1>2, Zenon DEF OpenOverlay, CloseOverlay, GoBack,
     ServerSettingsGui, LdnSettingsGui, DebugSettingsGui, OpenSettings,
     Toggle, SetPassphrase, HexKeyboardGui, HandleInput,
     SavePassphrase, LeaveKeyboard, memory, history

\* A step of a save: what is written is g_config, or the defaults of the first boot.
LEMMA RelaySave ==
  ASSUME Default[P2p], StoreInv, Relayed, NEW t \in Threads,
         SaveDelete(t) \/ SaveCreate(t) \/ SaveWrite(t) \/ SaveWriteFails(t)
  PROVE  Relayed'
<1>1. Saves(t)
  BY Zenon DEF Saves, SaveDelete, SaveCreate, SaveWrite, SaveWriteFails
<1>2. StoreTyped /\ Turns /\ Copies
  BY DEF StoreInv
<1>3. CASE SaveWriteFails(t) \/ SaveFails(t)
  <2>1. relay' = FALSE
    BY <1>3 DEF SaveWriteFails, SaveFails
  <2>2. QED
    BY <2>1 DEF Relayed
<1>4. CASE /\ \E p \in {"create", "write"} : step' = [step EXCEPT ![t] = p]
           /\ UNCHANGED <<phase, g_config, relay>>
  <2>1. step'[t] \in {"create", "write"}
    BY <1>2, <1>4 DEF StoreTyped
  <2>2. ~NoneSaves'
    BY <2>1, ThreadsAre DEF NoneSaves, Saves
  <2>3. QED
    BY <1>4, <2>2 DEF Relayed
<1>5. CASE SaveWrite(t)
  <2>1. /\ file' = buffer[t] /\ UNCHANGED <<phase, g_config>>
        /\ t = "persist" \/ (relay' => relay)
    BY <1>5, Zenon DEF SaveWrite
  <2>2. file' \in Config
    BY <1>2, <2>1 DEF StoreTyped
  <2>3. Parsed(file')[P2p] = file'[P2p]
    BY <2>2, ContentIs, StoreFacts
  <2>4. relay' => file'[P2p]
    <3>1. CASE t = "boot"
      BY <1>2, <2>1, <3>1 DEF Copies
    <3>2. CASE t = "cfg"
      <4>1. buffer[t] = g_config /\ phase = "run" /\ (relay' => relay)
        BY <1>1, <2>1, <3>2, OneSaves
      <4>2. QED
        BY <2>1, <4>1 DEF Relayed
    <3>3. CASE t = "persist"
      BY <1>1, <1>2, <2>1, <3>3 DEF Copies
    <3>4. QED
      BY <3>1, <3>2, <3>3, ThreadsAre
  <2>5. relay' /\ phase = "run" => g_config[P2p]
    <3>1. t # "boot" => buffer[t] = g_config
      BY <1>1, OneSaves
    <3>2. t = "boot" => (relay' => relay)
      BY <2>1
    <3>3. QED
      BY <2>1, <2>4, <3>1, <3>2 DEF Relayed
  <2>6. QED
    BY <2>1, <2>3, <2>4, <2>5, Zenon DEF Relayed
<1>6. CASE SaveDelete(t)
  BY <1>4, <1>6 DEF SaveDelete, memory, history
<1>7. CASE SaveCreate(t)
  BY <1>3, <1>4, <1>7 DEF SaveCreate, memory, history
<1>8. QED
  BY <1>3, <1>5, <1>6, <1>7

\* The console is switched on and off.
LEMMA RelayPower ==
  ASSUME Default[P2p], StoreInv, Relayed,
         Boot \/ InitializeConfig \/ PowerOff
  PROVE  Relayed'
<1>1. StoreTyped /\ Turns /\ Copies
  BY DEF StoreInv
<1>2. CASE Boot
  <2>1. phase = "off" /\ phase' = "boot" /\ UNCHANGED <<file, relay>>
    BY <1>2 DEF Boot, history
  <2>2. NoneSaves
    BY <1>1, <2>1 DEF Turns, NoneSaves, Saves
  <2>3. QED
    BY <2>1, <2>2, Zenon DEF Relayed, Parsed
<1>3. CASE InitializeConfig
  <2>1. PICK ok \in BOOLEAN :
          /\ phase = "boot" /\ step["boot"] = "idle"
          /\ g_config' = Load(ok) /\ relay' = (relay /\ ok) /\ file' = file
    BY <1>3, Zenon DEF InitializeConfig
  <2>2. NoneSaves
    BY <1>1, <2>1 DEF Turns, NoneSaves, Saves
  <2>3. relay' => relay /\ g_config'[P2p]
    <3>1. relay' => relay /\ ok = TRUE
      BY <2>1, Zenon
    <3>2. QED
      BY <2>1, <2>2, <3>1, LoadRelays
  <2>4. QED
    BY <2>1, <2>2, <2>3, Zenon DEF Relayed, Parsed
<1>4. CASE PowerOff
  <2>1. /\ phase' = "off" /\ relay' = (relay /\ ~Saving)
        /\ (\E t \in Threads : step[t] = "write") \/ file' = file
    BY <1>4, Zenon DEF PowerOff
  <2>2. relay' => relay /\ NoneSaves
    BY <2>1, SavingIs, Zenon
  <2>3. relay' => file' = file
    BY <2>1, <2>2, ThreadsAre DEF NoneSaves, Saves
  <2>4. QED
    BY <2>1, <2>2, <2>3, Zenon DEF Relayed, Parsed
<1>5. QED
  BY <1>2, <1>3, <1>4

\* The main menu's two buttons.
LEMMA RelayButton ==
  ASSUME Default[P2p], StoreInv, Relayed,
         SaveConfig \/ ReloadConfig \/ ReloadFromFile
  PROVE  Relayed'
<1>1. StoreTyped /\ Turns /\ Copies
  BY DEF StoreInv
<1>2. CASE SaveConfig \/ ReloadConfig
  <2>1. /\ step["cfg"] = "idle" /\ g_config_mutex = None /\ phase = "run"
        /\ UNCHANGED <<phase, file, relay>>
    BY <1>2, Zenon DEF SaveConfig, ReloadConfig, CfgFree, history
  <2>2. g_config' = g_config \/ g_config' = Default
    BY <1>2 DEF SaveConfig, ReloadConfig
  <2>3. NoneSaves
    BY <1>1, <2>1, StoreFacts DEF Turns, NoneSaves, Saves
  <2>4. relay' /\ phase' = "run" => g_config'[P2p]
    BY <2>1, <2>2 DEF Relayed
  <2>5. QED
    BY <2>1, <2>3, <2>4, Zenon DEF Relayed, Parsed
<1>3. CASE ReloadFromFile
  <2>1. PICK ok \in BOOLEAN :
          /\ step["cfg"] = "load"
          /\ g_config' = Load(ok) /\ relay' = (relay /\ ok) /\ UNCHANGED <<phase, file>>
    BY <1>3, Zenon DEF ReloadFromFile
  <2>2. NoneSaves
    BY <1>1, <2>1 DEF Turns, NoneSaves, Saves
  <2>3. relay' => relay /\ g_config'[P2p]
    <3>1. relay' => relay /\ ok = TRUE
      BY <2>1, Zenon
    <3>2. QED
      BY <2>1, <2>2, <3>1, LoadRelays
  <2>4. QED
    BY <2>1, <2>2, <2>3, Zenon DEF Relayed, Parsed
<1>4. QED
  BY <1>2, <1>3

\* Every step.
LEMMA RelayStep ==
  ASSUME Default[P2p], StoreInv, Relayed, [StoreNext]_storeVars
  PROVE  Relayed'
<1>1. CASE \/ ConstructService \/ DestroyService \/ UNCHANGED storeVars
           \/ \E active \in BOOLEAN : SetGameActive(active)
  <2>1. UNCHANGED <<phase, g_config, file, step, relay>>
    BY <1>1, Zenon DEF ConstructService, DestroyService, SetGameActive,
       storeVars, memory, history
  <2>2. NoneSaves' => NoneSaves
    BY <2>1, Zenon DEF NoneSaves, Saves
  <2>3. QED
    BY <2>1, <2>2, RelayStill
<1>2. CASE P2pFails \/ AlreadyDisabled
  <2>1. /\ UNCHANGED <<phase, g_config, file, relay>> /\ step["persist"] \in {"idle", "lock"}
        /\ \E p : step' = [step EXCEPT !["persist"] = p]
    BY <1>2, Zenon DEF P2pFails, AlreadyDisabled, memory, history
  <2>2. NoneSaves' => NoneSaves
    BY <2>1, ThreadsAre DEF NoneSaves, Saves, StoreInv, StoreTyped
  <2>3. QED
    BY <2>1, <2>2, RelayStill
<1>3. CASE PersistDisableP2p
  <2>1. /\ g_config' = [g_config EXCEPT ![P2p] = TRUE]
        /\ step' = [step EXCEPT !["persist"] = "delete"]
    BY <1>3 DEF PersistDisableP2p
  <2>2. g_config'[P2p] /\ step'["persist"] = "delete"
    BY <2>1, StoreFacts, ThreadsAre DEF StoreInv, StoreTyped, Config
  <2>3. QED
    BY <2>2 DEF Relayed, NoneSaves, Saves
<1>4. CASE \E t \in Threads :
             SaveDelete(t) \/ SaveCreate(t) \/ SaveWrite(t) \/ SaveWriteFails(t)
  BY <1>4, RelaySave, Zenon
<1>5. QED
  BY <1>1, <1>2, <1>3, <1>4, RelayOverlay, RelayPower, RelayButton, Zenon DEF StoreNext

(***************************************************************************)
(* Once a failure of P2P has been saved, every session made later starts   *)
(* in relay mode, after a restart too, until the user turns P2P on again.  *)
(* The default configuration has P2P disabled (config.hpp): without that   *)
(* a file that is missing would turn it on.                                *)
(***************************************************************************)
THEOREM RelayIsKept ==
  ASSUME Default[P2p]
  PROVE  StoreSpec => RelayKept
<1> DEFINE Safe == StoreInv /\ ProxyInSession /\ Relayed
           Kept == relay /\ ~session => ~m_use_p2p_proxy'
<1>1. (StoreInit => Safe) /\ (Safe /\ [StoreNext]_storeVars => Safe')
  <2>1. StoreInit => Relayed
    BY DEF StoreInit, Relayed
  <2>2. QED
    BY <2>1, InitStore, StoreStep, ProxyStep, RelayStep
<1>2. Safe /\ [StoreNext]_storeVars => [Kept]_storeVars
  BY ProxyIs, Zenon DEF Relayed, ProxyInSession
<1>3. QED
  BY <1>1, <1>2, PTL DEF StoreSpec, RelayKept
=============================================================================
