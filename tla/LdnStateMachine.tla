-------------------------- MODULE LdnStateMachine --------------------------
(***************************************************************************)
(* The state machine a game sees through ldn:u                             *)
(* (ldn/ldn_state_machine.{hpp,cpp}).  Like the connection state machine   *)
(* it is a passive object: one method per operation, each with the states  *)
(* it may be called in and the one state it leads to.                      *)
(***************************************************************************)

CommState == {"None", "Initialized", "AccessPoint", "AccessPointCreated",
              "Station", "StationConnected", "Error"}

(***************************************************************************)
(* m_state after a successful call of the method.                          *)
(***************************************************************************)
LdnTarget(op) ==
  CASE op \in {"Initialize", "CloseAccessPoint", "CloseStation"} -> "Initialized"
    [] op = "Finalize"                          -> "None"
    [] op \in {"OpenAccessPoint", "DestroyNetwork"} -> "AccessPoint"
    [] op = "CreateNetwork"                     -> "AccessPointCreated"
    [] op \in {"OpenStation", "Disconnect"}     -> "Station"
    [] op = "Connect"                           -> "StationConnected"

(***************************************************************************)
(* The states in which the method returns Success.  In the target state it *)
(* returns AlreadyInState, in any other InvalidTransition: both leave      *)
(* m_state as it is and both are an error to the caller.                   *)
(***************************************************************************)
LdnSources(op) ==
  CASE op = "Initialize"                         -> {"None"}
    [] op = "Finalize"                           -> CommState \ {"None"}
    [] op \in {"OpenAccessPoint", "OpenStation"} -> {"Initialized"}
    [] op = "CloseAccessPoint"                   -> {"AccessPoint", "AccessPointCreated"}
    [] op = "CreateNetwork"                      -> {"AccessPoint"}
    [] op = "DestroyNetwork"                     -> {"AccessPointCreated"}
    [] op = "CloseStation"                       -> {"Station", "StationConnected"}
    [] op = "Connect"                            -> {"Station"}
    [] op = "Disconnect"                         -> {"StationConnected"}

LdnAfter(s, op) == IF s \in LdnSources(op) THEN LdnTarget(op) ELSE s

(***************************************************************************)
(* IsNetworkActive.                                                        *)
(***************************************************************************)
NetworkActive(s) == s \in {"AccessPointCreated", "StationConnected"}
=============================================================================
