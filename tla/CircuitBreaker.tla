--------------------------- MODULE CircuitBreaker ---------------------------
(***************************************************************************)
(* The circuit breaker of transports/retry.py: its state and what its      *)
(* methods do to it.  RetryingCallers has callers share one breaker.       *)
(*                                                                         *)
(* Two numbers are kept only as far as the code looks at them: failures    *)
(* stops at the threshold, and of _opened_at only the age is kept, in      *)
(* ticks of the clock and up to the reset timeout.                         *)
(*                                                                         *)
(* Operators whose names end in _ and a word are the same-named operators  *)
(* with a mistake in them, for the mutant runs; no definition uses them.   *)
(***************************************************************************)
EXTENDS Integers

CONSTANTS
  Threshold,     \* failure_threshold
  ResetTimeout   \* reset_timeout, in ticks

ASSUME BreakerAssumption ==
  /\ Threshold \in Nat \ {0}
  /\ ResetTimeout \in Nat

VARIABLES
  state,      \* _state
  failures,   \* _failures, up to Threshold
  openFor     \* ticks since _opened_at, up to ResetTimeout

breakerVars == <<state, failures, openFor>>

BreakerTypeOK ==
  /\ state \in {"closed", "open", "half_open"}
  /\ failures \in 0..Threshold
  /\ openFor \in 0..ResetTimeout

BreakerInit ==
  /\ state = "closed"
  /\ failures = 0
  /\ openFor = 0

CooledDown_Never == FALSE

\* The cool-down window is over.
CooledDown == openFor >= ResetTimeout

\* _maybe_half_open: an open breaker that has cooled down becomes half open.
StateNow == IF state = "open" /\ CooledDown THEN "half_open" ELSE state

\* allow lets the call through, or short-circuits it.
Allow == StateNow # "open" /\ state' = StateNow /\ UNCHANGED <<failures, openFor>>

Refuse == StateNow = "open" /\ UNCHANGED breakerVars

RecordSuccess_KeepsCount == state' = "closed" /\ UNCHANGED <<failures, openFor>>

RecordSuccess ==
  /\ state' = "closed"
  /\ failures' = 0
  /\ openFor' = 0

\* _failures after one failure more, as far as it is kept.
OneMore == IF failures < Threshold THEN failures + 1 ELSE Threshold

\* A failure opens the breaker: the trial of a half-open one failed, or the
\* threshold is reached (by a late answer, a second time).
Trips == state = "half_open" \/ OneMore >= Threshold

RecordFailure_OpensOnce ==
  /\ failures' = OneMore
  /\ IF Trips /\ state # "open" THEN state' = "open" /\ openFor' = 0
                                ELSE UNCHANGED <<state, openFor>>

RecordFailure ==
  /\ failures' = OneMore
  /\ IF Trips THEN state' = "open" /\ openFor' = 0
              ELSE UNCHANGED <<state, openFor>>

\* The clock goes on for the breaker.
Age ==
  /\ openFor' = IF state = "open" /\ openFor < ResetTimeout THEN openFor + 1 ELSE openFor
  /\ UNCHANGED <<state, failures>>
=============================================================================
