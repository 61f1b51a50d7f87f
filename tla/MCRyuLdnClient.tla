-------------------------- MODULE MCRyuLdnClient --------------------------
(***************************************************************************)
(* Instances of RyuLdnClient for TLC.  One tick stands for the time after  *)
(* which the code's delays differ: the fast retry takes one tick, the      *)
(* exponential delays two, then the cap of three, each a tick more or less *)
(* by the jitter.                                                          *)
(***************************************************************************)
EXTENDS RyuLdnClient

R == INSTANCE Reconnect WITH
       Limit <- 1024, CountMax <- RetryMax, Configs <- {},
       m_config <- [max_retries |-> 0], m_current_delay_ms <- 0, iteration <- 0, loopPc <- "idle"

MCConfig ==
  [initial_delay_ms |-> 2, max_delay_ms |-> 3, multiplier_percent |-> 200,
   jitter_percent |-> 50, max_retries |-> 0, fast_retries |-> 1,
   fast_delay_ms |-> 1]

MCDelayOf ==
  [n \in 0..RetryMax |-> R!JitteredDelays(MCConfig, R!ReferenceDelay(MCConfig, n))]

LivePackets == {"Initialize", "NetworkError", "Disconnect"}
=============================================================================
