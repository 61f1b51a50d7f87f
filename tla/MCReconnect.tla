---------------------------- MODULE MCReconnect ----------------------------
(***************************************************************************)
(* Instances of Reconnect for TLC.  SmallConfigs ranges over the shapes a  *)
(* configuration can have (no, one or two fast retries; an initial delay   *)
(* of zero, below, at and above the maximum; 0.5x to 3x per failure), with *)
(* 100 * max_delay_ms below Limit; WideConfigs has a maximum for which     *)
(* that product wraps.                                                     *)
(***************************************************************************)
EXTENDS Reconnect

Config(initial, max, mult, fast) ==
  [initial_delay_ms |-> initial, max_delay_ms |-> max,
   multiplier_percent |-> mult, jitter_percent |-> 10, max_retries |-> 0,
   fast_retries |-> fast, fast_delay_ms |-> 2]

SmallConfigs ==
  {Config(initial, max, mult, fast) :
     initial \in {0, 1, 3, 7}, max \in {3, 7, 20},
     mult \in {50, 100, 150, 200, 300}, fast \in 0..2}

WideConfigs ==
  {Config(initial, max, 200, fast) :
     initial \in {3, 30}, max \in {21, 30, 41}, fast \in 0..1}

AllConfigs == SmallConfigs \cup WideConfigs
=============================================================================
