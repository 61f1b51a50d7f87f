------------------------------ MODULE Reconnect ------------------------------
(***************************************************************************)
(* ReconnectManager (network/reconnect.{hpp,cpp}): how long to wait before *)
(* the next connection attempt.  The loop of calculate_delay is modelled   *)
(* one iteration per step, with its two early returns, in the unsigned     *)
(* arithmetic of the code; callers see the manager between calls only,     *)
(* that is while pc = "idle".                                              *)
(***************************************************************************)
EXTENDS Integers

CONSTANTS
  Limit,     \* 2^32 in the code: unsigned arithmetic is modulo Limit
  CountMax,  \* UINT32_MAX in the code: the retry count stops there
  Configs    \* the ReconnectConfig values the manager may be given

ReconnectConfig ==
  [initial_delay_ms : 0..(Limit - 1), max_delay_ms : 1..(Limit - 1),
   multiplier_percent : 1..(Limit - 1), jitter_percent : 0..255,
   max_retries : 0..(Limit - 1), fast_retries : 0..(Limit - 1),
   fast_delay_ms : 0..(Limit - 1)]

ASSUME ReconnectAssumption ==
  /\ Limit \in Nat \ {0}
  /\ CountMax \in Nat
  /\ Configs \subseteq ReconnectConfig

VARIABLES
  m_config,
  m_retry_count,
  m_current_delay_ms,
  iteration,           \* the loop counter of calculate_delay
  loopPc               \* "idle", or "loop" inside calculate_delay

delayVars == <<m_config, m_retry_count, m_current_delay_ms, iteration, loopPc>>

DelayTypeOK ==
  /\ m_config \in Configs
  /\ m_retry_count \in 0..CountMax
  /\ m_current_delay_ms \in 0..(Limit - 1)
  /\ iteration \in 0..CountMax
  /\ loopPc \in {"idle", "loop"}

UInt(n) == n % Limit

\* Mutation: one fast retry too many.
CalculateDelayOneMoreFast(c, n) ==
  /\ iteration' = 0
  /\ IF n <= c.fast_retries
     THEN m_current_delay_ms' = c.fast_delay_ms /\ loopPc' = "idle"
     ELSE m_current_delay_ms' = c.initial_delay_ms /\ loopPc' = "loop"

(***************************************************************************)
(* calculate_delay as it is entered, for configuration c and count n.      *)
(***************************************************************************)
CalculateDelay(c, n) ==
  /\ iteration' = 0
  /\ IF n < c.fast_retries
     THEN m_current_delay_ms' = c.fast_delay_ms /\ loopPc' = "idle"
     ELSE m_current_delay_ms' = c.initial_delay_ms /\ loopPc' = "loop"

\* Mutation: the threshold is the maximum itself, not divided by the growth.
SafeThresholdUnscaled(c) == UInt(c.max_delay_ms * 100)

SafeThreshold(c) == UInt(c.max_delay_ms * 100) \div c.multiplier_percent

Scaled(c, d) == UInt(d * c.multiplier_percent) \div 100

DelayInit ==
  /\ m_config \in Configs
  /\ m_retry_count = 0
  /\ iteration = 0 /\ loopPc = "idle"
  /\ m_current_delay_ms = IF 0 < m_config.fast_retries
                          THEN m_config.fast_delay_ms
                          ELSE m_config.initial_delay_ms

-----------------------------------------------------------------------------

RecordFailure ==
  /\ loopPc = "idle"
  /\ m_retry_count' = IF m_retry_count < CountMax THEN m_retry_count + 1
                                                  ELSE m_retry_count
  /\ CalculateDelay(m_config, m_retry_count')
  /\ UNCHANGED m_config

Reset ==
  /\ loopPc = "idle"
  /\ m_retry_count' = 0
  /\ CalculateDelay(m_config, 0)
  /\ UNCHANGED m_config

SetConfig(c) ==
  /\ loopPc = "idle"
  /\ m_config' = c
  /\ CalculateDelay(c, m_retry_count)
  /\ UNCHANGED m_retry_count

LoopDone ==
  /\ loopPc = "loop" /\ iteration >= m_retry_count - m_config.fast_retries
  /\ loopPc' = "idle"
  /\ UNCHANGED <<m_config, m_retry_count, m_current_delay_ms, iteration>>

InLoop == loopPc = "loop" /\ iteration < m_retry_count - m_config.fast_retries

LoopSaturates ==
  /\ InLoop /\ m_current_delay_ms >= SafeThreshold(m_config)
  /\ m_current_delay_ms' = m_config.max_delay_ms
  /\ loopPc' = "idle"
  /\ UNCHANGED <<m_config, m_retry_count, iteration>>

LoopMultiplies ==
  /\ InLoop /\ m_current_delay_ms < SafeThreshold(m_config)
  /\ IF Scaled(m_config, m_current_delay_ms) > m_config.max_delay_ms
     THEN m_current_delay_ms' = m_config.max_delay_ms /\ loopPc' = "idle" /\ iteration' = iteration
     ELSE /\ m_current_delay_ms' = Scaled(m_config, m_current_delay_ms)
          /\ iteration' = iteration + 1 /\ loopPc' = loopPc
  /\ UNCHANGED <<m_config, m_retry_count>>

DelayNext ==
  \/ RecordFailure \/ Reset
  \/ \E c \in Configs : SetConfig(c)
  \/ LoopDone \/ LoopSaturates \/ LoopMultiplies

DelaySpec == DelayInit /\ [][DelayNext]_delayVars

-----------------------------------------------------------------------------
(***************************************************************************)
(* get_next_delay_ms_with_jitter for an offset the hash can choose, and    *)
(* should_retry.                                                           *)
(***************************************************************************)
Jittered(c, d, offset) ==
  LET adjusted == (d * (100 + offset)) \div 100
  IN  IF c.jitter_percent = 0 THEN d
      ELSE IF adjusted < 1 THEN 1
      ELSE IF adjusted > c.max_delay_ms THEN c.max_delay_ms
      ELSE adjusted

JitteredDelays(c, d) ==
  {Jittered(c, d, offset) : offset \in (-c.jitter_percent)..c.jitter_percent}

ShouldRetry(c, n) == c.max_retries = 0 \/ n < c.max_retries

(***************************************************************************)
(* The delay after n failures in exact arithmetic, as the comment of       *)
(* calculate_delay describes it: the initial delay, scaled once per        *)
(* failure after the fast ones, and cut at the maximum.                    *)
(***************************************************************************)
ReferenceDelay(c, n) ==
  LET grow[k \in Nat] ==
        IF k = 0 THEN c.initial_delay_ms
        ELSE LET next == (grow[k - 1] * c.multiplier_percent) \div 100
             IN  IF next > c.max_delay_ms THEN c.max_delay_ms ELSE next
  IN  IF n < c.fast_retries THEN c.fast_delay_ms
      ELSE grow[n - c.fast_retries]

-----------------------------------------------------------------------------
(***************************************************************************)
(* "The delay will never exceed this value" (reconnect.hpp on              *)
(* max_delay_ms): true of every delay a caller can see once neither the    *)
(* initial nor the fast delay is above the maximum to begin with.          *)
(***************************************************************************)
DelayWithinMax ==
  /\ loopPc = "idle"
  /\ m_config.initial_delay_ms <= m_config.max_delay_ms
  /\ m_config.fast_delay_ms <= m_config.max_delay_ms
  => m_current_delay_ms <= m_config.max_delay_ms

(***************************************************************************)
(* The guard in front of the multiplication does what it is there for: the *)
(* product of calculate_delay never leaves the range of uint32_t, even for *)
(* a maximum so large that computing the guard's own threshold wraps.      *)
(***************************************************************************)
ProductNeverWraps ==
  InLoop /\ m_current_delay_ms < SafeThreshold(m_config)
  => m_current_delay_ms * m_config.multiplier_percent < Limit

(***************************************************************************)
(* The cap is only reached when the formula is about to reach it, within   *)
(* one further failure (for growth of at least 2x).                        *)
(***************************************************************************)
CapNotReachedEarly ==
  /\ loopPc = "idle"
  /\ m_config.multiplier_percent >= 200
  /\ m_current_delay_ms = m_config.max_delay_ms
  /\ m_retry_count >= m_config.fast_retries
  => ReferenceDelay(m_config, m_retry_count + 1) = m_config.max_delay_ms

(***************************************************************************)
(* The delay is the one the exponential formula gives, or the maximum: the *)
(* integer threshold can only make calculate_delay jump to the cap, and,   *)
(* as long as max_delay_ms * 100 does not wrap, by no more than one step.  *)
(***************************************************************************)
DelayFollowsFormula ==
  /\ loopPc = "idle" => m_current_delay_ms \in {ReferenceDelay(m_config, m_retry_count),
                                            m_config.max_delay_ms}
  /\ m_config.max_delay_ms * 100 < Limit => CapNotReachedEarly
=============================================================================
