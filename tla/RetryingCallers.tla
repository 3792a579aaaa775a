-------------------------- MODULE RetryingCallers --------------------------
(***************************************************************************)
(* Callers of call_with_retry and call_with_retry_async (transports/       *)
(* retry.py, transports/async_retry.py) that share one circuit breaker.    *)
(*                                                                         *)
(* A caller gives way in two places: while its attempt is under way and    *)
(* while it sleeps before the next one.  Asking the breaker and starting   *)
(* the attempt is one step, and so is the end of an attempt with all that  *)
(* follows up to the sleep or the end of the call.                         *)
(***************************************************************************)
EXTENDS CircuitBreaker, FiniteSets

CONSTANTS
  Callers,      \* the callers that share the breaker
  MaxAttempts,  \* max_attempts of the retry policy
  BaseDelay,    \* base_delay, in ticks
  Factor,       \* factor
  MaxDelay,     \* max_delay, in ticks
  Jitter,       \* the largest jitter, in ticks
  Foreign       \* may an attempt end in an exception that is no UtcpError?

ASSUME RetryAssumption ==
  /\ MaxAttempts \in Nat \ {0}
  /\ BaseDelay \in Nat /\ MaxDelay \in Nat /\ Jitter \in Nat
  /\ Factor \in Nat \ {0}
  /\ Foreign \in BOOLEAN

VARIABLES
  pc,        \* pc[c]: "idle", "running", "sleeping"
  attempt,   \* attempt[c]: the 0-based attempt of c's call
  delay,     \* delay[c]: ticks that are left of c's sleep
  last,      \* last[c]: how c's last attempt or call ended
  streak,    \* attempts that ended in a UtcpError since the last success, up to
             \* Threshold and in the order in which they ended (history)
  fruitless, \* the same with attempts that ended in any exception (history)
  calm,      \* when streak is Threshold: ticks since an attempt last ended in a
             \* UtcpError, up to ResetTimeout (history)
  sick       \* may the provider fail?  Once well it stays well.

history == <<streak, fruitless, calm>>
callerVars == <<pc, attempt, delay, last, history>>
vars == <<state, failures, openFor, pc, attempt, delay, last, streak,
          fruitless, calm, sick>>

Outcomes == {"success", "transport", "library", "foreign"}

\* delay_for: the geometric delay, capped, and then the jitter.
CappedDelay(n) ==
  LET grown == BaseDelay * Factor ^ n IN IF grown < MaxDelay THEN grown ELSE MaxDelay

DelaysFor(n) ==
  {d \in 0..MaxDelay + Jitter :
     CappedDelay(n) - Jitter <= d /\ d <= CappedDelay(n) + Jitter}

TypeOK ==
  /\ BreakerTypeOK
  /\ pc \in [Callers -> {"idle", "running", "sleeping"}]
  /\ attempt \in [Callers -> 0..MaxAttempts - 1]
  /\ delay \in [Callers -> Nat]
  /\ last \in [Callers -> Outcomes \cup {"none", "refused"}]
  /\ streak \in 0..Threshold
  /\ fruitless \in 0..Threshold
  /\ calm \in 0..ResetTimeout
  /\ sick \in BOOLEAN

Init ==
  /\ BreakerInit
  /\ pc = [c \in Callers |-> "idle"]
  /\ attempt = [c \in Callers |-> 0]
  /\ delay = [c \in Callers |-> 0]
  /\ last = [c \in Callers |-> "none"]
  /\ streak = 0
  /\ fruitless = 0
  /\ calm = 0
  /\ sick = TRUE
-----------------------------------------------------------------------------
\* The head of the loop: the breaker lets attempt n of c through, or not.
Try(c, n) ==
  \/ /\ Allow
     /\ pc' = [pc EXCEPT ![c] = "running"]
     /\ attempt' = [attempt EXCEPT ![c] = n]
     /\ UNCHANGED last
  \/ /\ Refuse
     /\ pc' = [pc EXCEPT ![c] = "idle"]
     /\ attempt' = [attempt EXCEPT ![c] = 0]
     /\ last' = [last EXCEPT ![c] = "refused"]

Call(c) ==
  /\ pc[c] = "idle"
  /\ Try(c, 0)
  /\ UNCHANGED <<delay, history, sick>>

WakeUp_WithoutAsking(c) ==
  /\ pc[c] = "sleeping" /\ delay[c] = 0
  /\ pc' = [pc EXCEPT ![c] = "running"]
  /\ attempt' = [attempt EXCEPT ![c] = @ + 1]
  /\ UNCHANGED <<breakerVars, delay, last, history, sick>>

WakeUp_SameAttempt(c) ==
  /\ pc[c] = "sleeping" /\ delay[c] = 0
  /\ Try(c, attempt[c])
  /\ UNCHANGED <<delay, history, sick>>

\* The sleep is over and the loop begins again.
WakeUp(c) ==
  /\ pc[c] = "sleeping"
  /\ delay[c] = 0
  /\ Try(c, attempt[c] + 1)
  /\ UNCHANGED <<delay, history, sick>>

ShouldRetry_OneMore(n) == n < MaxAttempts

ShouldRetry(n) == n + 1 < MaxAttempts

UpToThreshold(n) == IF n < Threshold THEN n ELSE Threshold

\* What the provider's side remembers of an attempt with the outcome o.
Remember(o) ==
  CASE o = "success" -> streak' = 0 /\ fruitless' = 0 /\ calm' = 0
    [] o = "foreign" ->
         fruitless' = UpToThreshold(fruitless + 1) /\ UNCHANGED <<streak, calm>>
    [] o \in {"transport", "library"} ->
         /\ streak' = UpToThreshold(streak + 1)
         /\ fruitless' = UpToThreshold(fruitless + 1)
         /\ calm' = 0

\* An attempt of c ends with the outcome o.
Ended(c, o) ==
  /\ pc[c] = "running"
  /\ last' = [last EXCEPT ![c] = o]
  /\ Remember(o)
  /\ UNCHANGED sick

\* The call of c is over.
Leave(c) ==
  /\ pc' = [pc EXCEPT ![c] = "idle"]
  /\ attempt' = [attempt EXCEPT ![c] = 0]
  /\ UNCHANGED delay

Succeed(c) ==
  /\ Ended(c, "success")
  /\ RecordSuccess
  /\ Leave(c)

\* A TransportError is recorded, and the attempt tried again or given up.
FailAndRetry(c) ==
  /\ sick
  /\ Ended(c, "transport")
  /\ RecordFailure
  /\ ShouldRetry(attempt[c])
  /\ pc' = [pc EXCEPT ![c] = "sleeping"]
  /\ \E d \in DelaysFor(attempt[c] + 1) : delay' = [delay EXCEPT ![c] = d]
  /\ UNCHANGED attempt

Exhaust(c) ==
  /\ sick
  /\ Ended(c, "transport")
  /\ RecordFailure
  /\ ~ShouldRetry(attempt[c])
  /\ Leave(c)

FailForGood_Unrecorded(c) ==
  /\ sick
  /\ Ended(c, "library")
  /\ Leave(c)
  /\ UNCHANGED breakerVars

\* Any other UtcpError is recorded and ends the call.
FailForGood(c) ==
  /\ sick
  /\ Ended(c, "library")
  /\ RecordFailure
  /\ Leave(c)

\* Any other exception ends the call and is not recorded.
FailForeign(c) ==
  /\ Foreign
  /\ sick
  /\ Ended(c, "foreign")
  /\ Leave(c)
  /\ UNCHANGED breakerVars

\* A tick of the clock: sleeps get shorter and the breaker cools down.
Tick ==
  /\ Age
  /\ delay' = [c \in Callers |-> IF delay[c] > 0 THEN delay[c] - 1 ELSE 0]
  /\ calm' = IF streak = Threshold /\ calm < ResetTimeout THEN calm + 1 ELSE calm
  /\ UNCHANGED <<pc, attempt, last, streak, fruitless, sick>>

GetWell ==
  /\ sick' = FALSE
  /\ UNCHANGED <<breakerVars, callerVars>>

End(c) == Succeed(c) \/ FailAndRetry(c) \/ Exhaust(c) \/ FailForGood(c) \/ FailForeign(c)

Next ==
  \/ \E c \in Callers :
       \/ Call(c)
       \/ WakeUp(c)
       \/ Succeed(c)
       \/ FailAndRetry(c)
       \/ Exhaust(c)
       \/ FailForGood(c)
       \/ FailForeign(c)
  \/ Tick
  \/ GetWell

Spec == Init /\ [][Next]_vars

\* Time passes, attempts end, sleepers wake, and callers keep calling.
Fairness ==
  /\ WF_vars(Tick)
  /\ \A c \in Callers : WF_vars(Call(c)) /\ WF_vars(WakeUp(c)) /\ WF_vars(End(c))

FairSpec == Spec /\ Fairness
-----------------------------------------------------------------------------
(* Properties *)

\* However the answers of concurrent callers interleave, the breaker is away
\* from closed whenever Threshold attempts since the last success have ended in
\* a UtcpError, and only if as many have ended in an exception.  In between lie
\* the runs that exceptions of other classes are part of, of which nothing is
\* said: retry.py:158-160 counts every attempt that runs, the code does not
\* count those.
OpensForARun ==
  /\ streak = Threshold => state # "closed"
  /\ state # "closed" => fruitless = Threshold

\* While the attempts since the last success have been Threshold failures or
\* more, no attempt begins within ResetTimeout of the last of them, not even the
\* retry of a caller that slept when the others failed, and a late failure puts
\* the next attempt off again.  A late success ends the window whenever it comes
\* and is no business of this property (retry.py:130-133).
LeftAlone ==
  [][\A c \in Callers :
       /\ pc[c] # "running" /\ pc'[c] = "running"
       /\ streak = Threshold
       => calm = ResetTimeout]_vars

\* A call comes to an end, whatever the provider answers.
CallsEnd == \A c \in Callers : pc[c] # "idle" ~> pc[c] = "idle"

\* A provider that stays well gets its breaker closed for good.
Recovers == (<>[]~sick) => <>[](state = "closed")
=============================================================================
