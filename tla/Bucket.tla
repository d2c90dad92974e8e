------------------------------- MODULE Bucket -------------------------------
(***************************************************************************)
(* The arithmetic of a token bucket of the policer: the part of            *)
(* policer_check_tb (policer_main.c) that adds tokens for the time since   *)
(* the bucket was last used.                                               *)
(***************************************************************************)
EXTENDS Integers

CONSTANTS
  rate, burst,    \* config.rate and config.burst
  SECONDS         \* VIGOR_TIME_SECONDS_MULTIPLIER: ticks per second

\* policer_config_init refuses a rate and a burst of 0.
BucketAssumption ==
  rate \in Nat \ {0} /\ burst \in Nat \ {0} /\ SECONDS \in Nat \ {0}

AtMost(x, y) == IF x > y THEN y ELSE x

\* After this time even an empty bucket is full.
fill_time == (burst * SECONDS) \div rate

\* Mutant of Refill: a missing division by the ticks per second.
RefillPerTick(tokens, diff) ==
  IF diff < fill_time THEN AtMost(tokens + diff * rate, burst) ELSE burst

\* Mutant of Refill: rounds to whole seconds before multiplying.
RefillWholeSeconds(tokens, diff) ==
  IF diff < fill_time
  THEN AtMost(tokens + (diff \div SECONDS) * rate, burst) ELSE burst

\* What a bucket of so many tokens holds diff ticks later.
Refill(tokens, diff) ==
  IF diff < fill_time
  THEN AtMost(tokens + (diff * rate) \div SECONDS, burst)
  ELSE burst
=============================================================================
