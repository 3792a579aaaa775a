----------------------- MODULE RetryingCallers_proofs -----------------------
(***************************************************************************)
(* Proofs about RetryingCallers: its type invariant, when the breaker is   *)
(* away from closed, and when attempts begin during a run of failures.     *)
(***************************************************************************)
EXTENDS RetryingCallers, TLAPS

-----------------------------------------------------------------------------
(* The type invariant *)

\* What allow leaves behind, whether it lets the call through or not.
LEMMA AllowTypes ==
  ASSUME BreakerTypeOK, Allow \/ Refuse
  PROVE  BreakerTypeOK'
  BY DEF BreakerTypeOK, Allow, Refuse, StateNow, breakerVars

LEMMA RecordFailureTypes ==
  ASSUME BreakerTypeOK, RecordFailure
  PROVE  BreakerTypeOK'
  BY BreakerAssumption DEF BreakerTypeOK, RecordFailure, OneMore, Trips

LEMMA RecordSuccessTypes ==
  ASSUME BreakerTypeOK, RecordSuccess
  PROVE  BreakerTypeOK'
  BY BreakerAssumption DEF BreakerTypeOK, RecordSuccess

\* delay_for never returns a negative delay.
LEMMA DelaysAreNaturals ==
  ASSUME NEW n, NEW d \in DelaysFor(n)
  PROVE  d \in Nat
  BY RetryAssumption DEF DelaysFor

LEMMA TryTypes ==
  ASSUME TypeOK, NEW c \in Callers, NEW n \in 0..MaxAttempts - 1, Try(c, n)
  PROVE  /\ BreakerTypeOK'
         /\ pc' \in [Callers -> {"idle", "running", "sleeping"}]
         /\ attempt' \in [Callers -> 0..MaxAttempts - 1]
         /\ last' \in [Callers -> Outcomes \cup {"none", "refused"}]
<1> USE RetryAssumption DEF TypeOK
<1>1. CASE Refuse
           /\ pc' = [pc EXCEPT ![c] = "idle"]
           /\ attempt' = [attempt EXCEPT ![c] = 0]
           /\ last' = [last EXCEPT ![c] = "refused"]
  BY <1>1, AllowTypes
<1>2. CASE Allow /\ UNCHANGED last
           /\ pc' = [pc EXCEPT ![c] = "running"]
           /\ attempt' = [attempt EXCEPT ![c] = n]
  BY <1>2, AllowTypes
<1> QED
  BY <1>1, <1>2 DEF Try

LEMMA RetryTypeInit == Init => TypeOK
  BY BreakerAssumption, RetryAssumption DEF Init, TypeOK, BreakerInit, BreakerTypeOK, Outcomes

\* A caller sleeps only if it has an attempt left to wake up for.
SleepersMayRetry == \A c \in Callers : pc[c] = "sleeping" => ShouldRetry(attempt[c])

LEMMA SleepersStep == TypeOK /\ SleepersMayRetry /\ [Next]_vars => SleepersMayRetry'
<1> SUFFICES ASSUME TypeOK, SleepersMayRetry, [Next]_vars PROVE SleepersMayRetry'
  OBVIOUS
<1>t. pc \in [Callers -> {"idle", "running", "sleeping"}]
      /\ attempt \in [Callers -> 0..MaxAttempts - 1]
  BY DEF TypeOK
<1> USE <1>t DEF SleepersMayRetry, ShouldRetry
<1>1. ASSUME NEW c \in Callers, Call(c) \/ WakeUp(c) PROVE SleepersMayRetry'
  BY <1>1 DEF Call, WakeUp, Try
<1>2. ASSUME NEW c \in Callers, Succeed(c) \/ Exhaust(c) \/ FailForGood(c) \/ FailForeign(c)
      PROVE  SleepersMayRetry'
  BY <1>2 DEF Succeed, Exhaust, FailForGood, FailForeign, Leave
<1>3. ASSUME NEW c \in Callers, FailAndRetry(c) PROVE SleepersMayRetry'
  BY <1>3 DEF FailAndRetry
<1>4. ASSUME Tick \/ GetWell \/ UNCHANGED vars PROVE SleepersMayRetry'
  BY <1>4 DEF Tick, GetWell, callerVars, vars
<1> QED
  BY <1>1, <1>2, <1>3, <1>4 DEF Next

LEMMA RetryTypeStep == TypeOK /\ SleepersMayRetry /\ [Next]_vars => TypeOK'
<1> SUFFICES ASSUME TypeOK, SleepersMayRetry, [Next]_vars PROVE TypeOK'
  OBVIOUS
<1> USE BreakerAssumption, RetryAssumption
<1>1. ASSUME NEW c \in Callers, Call(c) PROVE TypeOK'
  <2>1. 0 \in 0..MaxAttempts - 1
    OBVIOUS
  <2> QED
    BY <1>1, <2>1, TryTypes DEF Call, TypeOK, history
<1>2. ASSUME NEW c \in Callers, WakeUp(c) PROVE TypeOK'
  <2>1. attempt[c] + 1 \in 0..MaxAttempts - 1
    BY <1>2 DEF WakeUp, TypeOK, SleepersMayRetry, ShouldRetry
  <2> QED
    BY <1>2, <2>1, TryTypes DEF WakeUp, TypeOK, history
<1>3. ASSUME NEW c \in Callers, NEW o \in Outcomes, Ended(c, o)
      PROVE  /\ last' \in [Callers -> Outcomes \cup {"none", "refused"}]
             /\ streak' \in 0..Threshold
             /\ fruitless' \in 0..Threshold
             /\ calm' \in 0..ResetTimeout
             /\ sick' \in BOOLEAN
  <2>1. /\ streak' \in 0..Threshold
        /\ fruitless' \in 0..Threshold
        /\ calm' \in 0..ResetTimeout
    <3>1. CASE o \in {"transport", "library"}
      <4>1. /\ streak' = UpToThreshold(streak + 1)
            /\ fruitless' = UpToThreshold(fruitless + 1)
            /\ calm' = 0
        BY <1>3, <3>1 DEF Ended, Remember
      <4> QED
        BY <4>1 DEF UpToThreshold, TypeOK
    <3>2. CASE o = "success"
      BY <1>3, <3>2 DEF Ended, Remember, TypeOK
    <3>3. CASE o = "foreign"
      BY <1>3, <3>3 DEF Ended, Remember, UpToThreshold, TypeOK
    <3> QED
      BY <3>1, <3>2, <3>3 DEF Outcomes
  <2> QED
    BY <1>3, <2>1 DEF Ended, Outcomes, TypeOK
<1>4. ASSUME NEW c \in Callers, Leave(c)
      PROVE  /\ pc' \in [Callers -> {"idle", "running", "sleeping"}]
             /\ attempt' \in [Callers -> 0..MaxAttempts - 1]
             /\ delay' \in [Callers -> Nat]
  BY <1>4 DEF Leave, TypeOK
<1>5. {"success", "transport", "library", "foreign"} = Outcomes
  BY DEF Outcomes
<1>6. ASSUME NEW c \in Callers, Succeed(c) PROVE TypeOK'
  BY <1>3, <1>4, <1>5, <1>6, RecordSuccessTypes DEF Succeed, TypeOK
<1>7. ASSUME NEW c \in Callers, FailAndRetry(c) PROVE TypeOK'
  <2>1. delay' \in [Callers -> Nat]
    BY <1>7, DelaysAreNaturals DEF FailAndRetry, TypeOK
  <2>2. pc' \in [Callers -> {"idle", "running", "sleeping"}]
    BY <1>7 DEF FailAndRetry, TypeOK
  <2> QED
    BY <1>3, <1>5, <1>7, <2>1, <2>2, RecordFailureTypes DEF FailAndRetry, TypeOK
<1>8. ASSUME NEW c \in Callers, Exhaust(c) PROVE TypeOK'
  BY <1>3, <1>4, <1>5, <1>8, RecordFailureTypes DEF Exhaust, TypeOK
<1>9. ASSUME NEW c \in Callers, FailForGood(c) PROVE TypeOK'
  BY <1>3, <1>4, <1>5, <1>9, RecordFailureTypes DEF FailForGood, TypeOK
<1>10. ASSUME NEW c \in Callers, FailForeign(c) PROVE TypeOK'
  BY <1>3, <1>4, <1>5, <1>10 DEF FailForeign, TypeOK, BreakerTypeOK, breakerVars
<1>11. ASSUME Tick PROVE TypeOK'
  BY <1>11 DEF Tick, Age, TypeOK, BreakerTypeOK
<1>12. ASSUME GetWell \/ UNCHANGED vars PROVE TypeOK'
  BY <1>12 DEF GetWell, TypeOK, BreakerTypeOK, breakerVars, callerVars, history, vars
<1> QED
  BY <1>1, <1>2, <1>6, <1>7, <1>8, <1>9, <1>10, <1>11, <1>12 DEF Next

LEMMA SleepersInit == Init => SleepersMayRetry
  BY DEF Init, SleepersMayRetry

\* Every variable of the shared breaker and of its callers keeps its type; in
\* particular no call ever gets to an attempt that the policy does not allow.
THEOREM RetryTypeCorrect == Spec => []TypeOK
<1>1. TypeOK /\ SleepersMayRetry /\ [Next]_vars => (TypeOK /\ SleepersMayRetry)'
  BY RetryTypeStep, SleepersStep
<1> QED
  BY <1>1, RetryTypeInit, SleepersInit, PTL DEF Spec
-----------------------------------------------------------------------------
(* The breaker and the runs of failures *)

\* The breaker's own numbers are those of the history: what it has counted is
\* what came back, and its window began with the last of the failures.
CountsTheRun ==
  /\ failures = streak
  /\ streak <= fruitless
  /\ state = "closed" <=> streak < Threshold
  /\ streak = Threshold => calm = IF state = "open" THEN openFor ELSE ResetTimeout

LEMMA CountsInit == Init => CountsTheRun
  BY BreakerAssumption DEF Init, BreakerInit, CountsTheRun

\* A recorded failure makes the run longer by one, opens the breaker when the
\* run has become long enough, and begins the window again.
LEMMA FailureCounts ==
  ASSUME TypeOK, CountsTheRun, RecordFailure,
         Remember("transport") \/ Remember("library")
  PROVE  CountsTheRun'
<1>1. /\ streak' = UpToThreshold(streak + 1)
      /\ fruitless' = UpToThreshold(fruitless + 1)
      /\ calm' = 0
  BY DEF Remember
<1> QED
  BY <1>1, BreakerAssumption
  DEF TypeOK, BreakerTypeOK, CountsTheRun, RecordFailure, OneMore, Trips, UpToThreshold

LEMMA AllowCounts ==
  ASSUME BreakerTypeOK, CountsTheRun, Allow \/ Refuse, UNCHANGED history
  PROVE  CountsTheRun'
  BY BreakerAssumption
  DEF BreakerTypeOK, CountsTheRun, Allow, Refuse, StateNow, CooledDown, breakerVars, history

LEMMA CountsStep == TypeOK /\ CountsTheRun /\ [Next]_vars => CountsTheRun'
<1> SUFFICES ASSUME TypeOK, CountsTheRun, [Next]_vars PROVE CountsTheRun'
  OBVIOUS
<1>t. BreakerTypeOK
  BY DEF TypeOK
<1>1. ASSUME NEW c \in Callers, Call(c) \/ WakeUp(c) PROVE CountsTheRun'
  BY <1>1, <1>t, AllowCounts DEF Call, WakeUp, Try
<1>2. ASSUME NEW c \in Callers, Succeed(c) PROVE CountsTheRun'
  BY <1>2, BreakerAssumption DEF Succeed, Ended, Remember, RecordSuccess, CountsTheRun
<1>3. ASSUME NEW c \in Callers, FailAndRetry(c) \/ Exhaust(c) \/ FailForGood(c)
      PROVE  CountsTheRun'
  BY <1>3, FailureCounts DEF FailAndRetry, Exhaust, FailForGood, Ended
<1>4. ASSUME NEW c \in Callers, FailForeign(c) PROVE CountsTheRun'
  <2>1. /\ fruitless' = UpToThreshold(fruitless + 1)
        /\ UNCHANGED <<streak, calm, state, failures, openFor>>
    BY <1>4 DEF FailForeign, Ended, Remember, breakerVars
  <2> QED
    BY <2>1, BreakerAssumption DEF TypeOK, CountsTheRun, UpToThreshold
<1>5. ASSUME Tick PROVE CountsTheRun'
  BY <1>5, <1>t, BreakerAssumption DEF Tick, Age, BreakerTypeOK, CountsTheRun, TypeOK
<1>6. ASSUME GetWell \/ UNCHANGED vars PROVE CountsTheRun'
  BY <1>6 DEF GetWell, breakerVars, callerVars, history, vars, CountsTheRun
<1> QED
  BY <1>1, <1>2, <1>3, <1>4, <1>5, <1>6 DEF Next

\* The inductive invariant.
Sound == TypeOK /\ SleepersMayRetry /\ CountsTheRun

LEMMA RetryInductive == Spec => []Sound
<1>1. Init => Sound
  BY RetryTypeInit, SleepersInit, CountsInit DEF Sound
<1>2. Sound /\ [Next]_vars => Sound'
  BY RetryTypeStep, SleepersStep, CountsStep DEF Sound
<1> QED
  BY <1>1, <1>2, PTL DEF Spec

\* For any number of callers and any retry policy: Threshold failures that are
\* UtcpErrors since the last success keep the breaker away from closed, and it is
\* never away from closed without as many attempts that raised since then.
THEOREM OpensOnlyForARun == Spec => []OpensForARun
<1>1. Sound => OpensForARun
  BY BreakerAssumption DEF Sound, CountsTheRun, OpensForARun, TypeOK
<1> QED
  BY <1>1, RetryInductive, PTL
-----------------------------------------------------------------------------
(* The cool-down *)

\* While a run of failures lasts, each attempt begins at least ResetTimeout after
\* the last failure of the run, whoever was asleep or at work when it came.
THEOREM ProviderLeftAlone == Spec => LeftAlone
<1>1. Sound /\ [Next]_vars =>
        \A c \in Callers :
          /\ pc[c] # "running" /\ pc'[c] = "running"
          /\ streak = Threshold
          => calm = ResetTimeout
  <2> SUFFICES ASSUME Sound, [Next]_vars, NEW c \in Callers,
                      pc[c] # "running", pc'[c] = "running", streak = Threshold
               PROVE  calm = ResetTimeout
    OBVIOUS
  <2>t. /\ pc \in [Callers -> {"idle", "running", "sleeping"}]
        /\ openFor \in 0..ResetTimeout
    BY DEF Sound, TypeOK, BreakerTypeOK
  <2>1. ASSUME NEW d \in Callers, Call(d) \/ WakeUp(d) PROVE calm = ResetTimeout
    <3>1. state # "open" \/ openFor >= ResetTimeout
      BY <2>1, <2>t DEF Call, WakeUp, Try, Allow, StateNow, CooledDown
    <3> QED
      BY <2>t, <3>1, BreakerAssumption DEF Sound, CountsTheRun
  <2>2. ASSUME NEW d \in Callers,
               Succeed(d) \/ FailAndRetry(d) \/ Exhaust(d) \/ FailForGood(d) \/ FailForeign(d)
        PROVE  FALSE
    BY <2>2, <2>t
    DEF Succeed, FailAndRetry, Exhaust, FailForGood, FailForeign, Leave
  <2>3. ASSUME Tick \/ GetWell \/ UNCHANGED vars PROVE FALSE
    BY <2>3 DEF Tick, GetWell, callerVars, vars
  <2> QED
    BY <2>1, <2>2, <2>3 DEF Next
<1> QED
  BY <1>1, RetryInductive, PTL DEF Spec, LeftAlone
=============================================================================
