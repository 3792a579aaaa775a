------------------------- MODULE Orchestrator_proofs -------------------------
(***************************************************************************)
(* Proofs about Orchestrator, the composition of the client and the agent: *)
(* nothing stale stays in the indices of the repository, and the steps of  *)
(* a run are done in order and lost by no other thing than an exception.   *)
(***************************************************************************)
EXTENDS Orchestrator, Lists_proofs, FiniteSetTheorems, TLAPS

-----------------------------------------------------------------------------
(* The repository *)

\* NothingStale with what it rests on: the types of the three dictionaries,
\* and that a provider is registered with a manual of its own.
NoStaleEntry ==
  /\ RepositoryTypeOK
  /\ \A p \in Providers : registered[p] # None => registered[p].provider = p
  /\ NothingStale

LEMMA EmptyIsNotStale == RepositoryInit => NoStaleEntry
  BY DEF RepositoryInit, NoStaleEntry, RepositoryTypeOK, NothingStale

\* register: the new manual takes its tools over, from whoever had them, and
\* what the old manual of the provider still owned is gone.
LEMMA RegisterLeavesNothingStale ==
  ASSUME NoStaleEntry, NEW m \in Manuals, NEW replace \in BOOLEAN, Register(m, replace)
  PROVE  NoStaleEntry'
<1>m. m \in [provider : Providers, tools : SUBSET Tools] /\ m # None
  BY RepositoryAssumption
<1>1. RepositoryTypeOK'
  BY <1>m DEF NoStaleEntry, RepositoryTypeOK, Register, Owned
<1>2. ASSUME NEW p \in Providers, registered'[p] # None PROVE registered'[p].provider = p
  BY <1>2, <1>m DEF NoStaleEntry, RepositoryTypeOK, Register
<1>3. ASSUME NEW t \in Tools
      PROVE  /\ owner'[t] = None <=> definition'[t] = None
             /\ owner'[t] # None =>
                  definition'[t] = registered'[owner'[t]] /\ t \in definition'[t].tools
  <2>1. CASE t \in m.tools
    BY <2>1, <1>m, RepositoryAssumption DEF NoStaleEntry, RepositoryTypeOK, Register
  <2>2. CASE t \in Owned(m.provider) \ m.tools
    BY <2>2, <1>m, RepositoryAssumption DEF NoStaleEntry, RepositoryTypeOK, Register
  <2>3. CASE t \notin m.tools /\ owner[t] # m.provider
    BY <2>3, <1>m, RepositoryAssumption
    DEF NoStaleEntry, RepositoryTypeOK, NothingStale, Register, Owned
  <2> QED
    BY <2>1, <2>2, <2>3 DEF Owned
<1> QED
  BY <1>1, <1>2, <1>3 DEF NoStaleEntry, NothingStale

LEMMA DeregisterLeavesNothingStale ==
  ASSUME NoStaleEntry, NEW p \in Providers, Deregister(p)
  PROVE  NoStaleEntry'
<1>1. RepositoryTypeOK'
  BY DEF NoStaleEntry, RepositoryTypeOK, Deregister, Owned
<1> QED
  BY <1>1, RepositoryAssumption
  DEF NoStaleEntry, RepositoryTypeOK, NothingStale, Deregister, Owned

LEMMA NoStaleFrame ==
  ASSUME NoStaleEntry, UNCHANGED repositoryVars
  PROVE  NoStaleEntry'
  BY DEF NoStaleEntry, RepositoryTypeOK, NothingStale, repositoryVars

LEMMA NoStaleStep == NoStaleEntry /\ [Next]_vars => NoStaleEntry'
<1> SUFFICES ASSUME NoStaleEntry, [Next]_vars PROVE NoStaleEntry'
  OBVIOUS
<1>1. ASSUME Manage PROVE NoStaleEntry'
  <2>1. ASSUME NEW m \in Manuals, NEW replace \in BOOLEAN, Register(m, replace)
        PROVE  NoStaleEntry'
    BY <2>1, RegisterLeavesNothingStale
  <2>2. ASSUME NEW p \in Providers, Deregister(p) PROVE NoStaleEntry'
    BY <2>2, DeregisterLeavesNothingStale
  <2>3. ASSUME UNCHANGED repositoryVars PROVE NoStaleEntry'
    BY <2>3, NoStaleFrame
  <2> QED
    BY <1>1, <2>1, <2>2, <2>3 DEF Manage
<1>2. ASSUME Crash PROVE NoStaleEntry'
  <2>1. /\ registered' = [p \in Providers |-> None]
        /\ owner' = [t \in Tools |-> None]
        /\ definition' = [t \in Tools |-> None]
    BY <1>2 DEF Crash, Forget
  <2> QED
    BY <2>1 DEF NoStaleEntry, RepositoryTypeOK, NothingStale
<1>3. ASSUME \/ LoadPlan \/ Checkpoint \/ Restore \/ Failed \/ Tick \/ UNCHANGED vars
      PROVE  NoStaleEntry'
  BY <1>3, NoStaleFrame
  DEF LoadPlan, Checkpoint, Restore, Failed, Fail, Tick, vars, clientVars, repositoryVars
<1>4. ASSUME NEW k, Serve(k) \/ Raise(k) \/ Ask(k) PROVE NoStaleEntry'
  BY <1>4, NoStaleFrame DEF Serve, Raise, Ask
<1>5. ASSUME NEW v \in Results, Answered(v) PROVE NoStaleEntry'
  BY <1>5, NoStaleFrame DEF Answered, Answer
<1>6. ASSUME Step PROVE NoStaleEntry'
  BY <1>6, <1>4 DEF Step
<1>7. ASSUME NEW k \in Calls, Call(k) PROVE NoStaleEntry'
  BY <1>7, <1>4 DEF Call
<1> QED
  BY <1>1, <1>2, <1>3, <1>5, <1>6, <1>7 DEF Next

\* Nothing stale is ever in the tool indices, whichever manuals providers
\* register, replace and give up, whatever tools these have in common.
THEOREM NothingStaleEver == Spec => []NothingStale
<1>1. Init => NoStaleEntry
  BY EmptyIsNotStale DEF Init, ClientInit
<1>2. NoStaleEntry => NothingStale
  BY DEF NoStaleEntry
<1> QED
  BY <1>1, <1>2, NoStaleStep, PTL DEF Spec
-----------------------------------------------------------------------------
(* The run *)

\* What the order of the steps rests on: the types of the run, and that the
\* client is busy while a step is running.
RunTypeOK ==
  /\ completed \in Seq(Steps)
  /\ pending \in Seq(Steps)
  /\ running \in Steps \cup {0}
  /\ failed \in SUBSET Steps
  /\ saved \in Run \cup {None}
  /\ running # 0 => inFlight # None

\* Moving the first step of the rest to the end of what is done, and naming
\* it as the running one in between, leaves the history of a run as it is.
LEMMA HistoryMoved ==
  ASSUME NEW S, NEW c \in Seq(S), NEW p \in Seq(S), p # <<>>
  PROVE  /\ Append(c, Head(p)) \o Tail(p) = c \o p
         /\ (c \o <<Head(p)>>) \o Tail(p) = c \o p
         /\ Head(p) \in S
         /\ Tail(p) \in Seq(S)
  OBVIOUS

\* Taking a step out leaves the others in order, and takes nothing else out.
LEMMA HistoryWithout ==
  ASSUME NEW S, NEW c \in Seq(S), NEW p \in Seq(S), NEW r \in S
  PROVE  /\ Increasing((c \o <<r>>) \o p) => Increasing(c \o p)
         /\ Places((c \o <<r>>) \o p) = Places(c \o p) \cup {r}
<1> DEFINE h == (c \o <<r>>) \o p
           g == c \o p
           at(i) == IF i <= Len(c) THEN i ELSE i + 1
<1>1. /\ h \in Seq(S) /\ g \in Seq(S)
      /\ Len(h) = Len(c) + Len(p) + 1 /\ Len(g) = Len(c) + Len(p)
      /\ h[Len(c) + 1] = r
  OBVIOUS
<1>2. ASSUME NEW i \in DOMAIN g PROVE at(i) \in DOMAIN h /\ h[at(i)] = g[i]
  OBVIOUS
<1>3. ASSUME Increasing(h), NEW i \in DOMAIN g, NEW j \in DOMAIN g, i < j PROVE g[i] < g[j]
  <2>1. at(i) \in DOMAIN h /\ at(j) \in DOMAIN h /\ at(i) < at(j)
    BY <1>1, <1>3
  <2> QED
    BY <2>1, <1>2, <1>3 DEF Increasing
<1>4. ASSUME NEW k \in DOMAIN h, k # Len(c) + 1 PROVE \E i \in DOMAIN g : at(i) = k
  <2>1. CASE k <= Len(c)
    BY <2>1, <1>1
  <2>2. CASE k > Len(c) + 1
    <3>1. k - 1 \in DOMAIN g /\ at(k - 1) = k
      BY <2>2, <1>1
    <3> QED
      BY <3>1
  <2> QED
    BY <2>1, <2>2, <1>1, <1>4
<1>5. Places(h) = Places(g) \cup {r}
  <2>1. Places(g) \cup {r} \subseteq Places(h)
    <3>1. ASSUME NEW i \in DOMAIN g PROVE g[i] \in Places(h)
      BY <1>2 DEF Places
    <3>2. r \in Places(h)
      <4>1. Len(c) + 1 \in DOMAIN h
        BY <1>1
      <4> QED
        BY <4>1, <1>1 DEF Places
    <3> QED
      BY <3>1, <3>2 DEF Places
  <2>2. ASSUME NEW k \in DOMAIN h PROVE h[k] \in Places(g) \cup {r}
    <3>1. CASE k = Len(c) + 1
      BY <3>1, <1>1
    <3>2. CASE k # Len(c) + 1
      BY <3>2, <1>2, <1>4 DEF Places
    <3> QED
      BY <3>1, <3>2
  <2> QED
    BY <2>1, <2>2 DEF Places
<1> QED
  BY <1>3, <1>5 DEF Increasing

\* The run r, with the step now running, has its steps in order and has lost
\* none but those that have failed.
Sound(r, now) ==
  /\ Increasing(History(r, now))
  /\ Places(History(r, now)) \cup r.failed \in {{}, Steps}

RunInv ==
  /\ RunTypeOK
  /\ Sound(Snapshot, running)
  /\ saved # None => Sound(saved, 0)

LEMMA StepsAreNumbers == Steps \in SUBSET Nat /\ 0 \notin Steps
  BY PlanAssumption DEF Steps

LEMMA SnapshotIsRun == RunTypeOK => Snapshot \in Run
  BY DEF RunTypeOK, Snapshot, Run

\* Only the history of a run and its failures matter.
LEMMA SoundFrame ==
  ASSUME NEW r, NEW now, NEW s, NEW later, Sound(r, now),
         History(s, later) = History(r, now), s.failed = r.failed
  PROVE  Sound(s, later)
  BY DEF Sound

\* A step that has raised is missing from the history, and is among the
\* failures.
LEMMA SoundWithout ==
  ASSUME NEW c \in Seq(Steps), NEW p \in Seq(Steps), NEW n \in Steps, NEW r, NEW now,
         Sound(r, now), History(r, now) = (c \o <<n>>) \o p,
         NEW s, s = [completed |-> c, pending |-> p, failed |-> r.failed \cup {n}]
  PROVE  Sound(s, 0)
<1> DEFINE h == History(r, now)
<1>0. /\ Increasing((c \o <<n>>) \o p) => Increasing(c \o p)
      /\ Places((c \o <<n>>) \o p) = Places(c \o p) \cup {n}
  BY HistoryWithout
<1>1. /\ Increasing(h) => Increasing(c \o p)
      /\ Places(h) = Places(c \o p) \cup {n}
  BY <1>0
<1>2. History(s, 0) = c \o p
  BY DEF History
<1>3. Places(History(s, 0)) \cup s.failed = Places(h) \cup r.failed
  BY <1>1, <1>2
<1> QED
  BY <1>1, <1>2, <1>3 DEF Sound

\* A new process has no run.
LEMMA NoRunIsSound ==
  ASSUME NEW r, r = [completed |-> <<>>, pending |-> <<>>, failed |-> {}]
  PROVE  Sound(r, 0)
<1>1. History(r, 0) = <<>>
  BY DEF History
<1> QED
  BY <1>1 DEF Sound, Increasing, Places

LEMMA NewPlanIsSound ==
  ASSUME NEW r, r = [completed |-> <<>>, pending |-> [i \in Steps |-> i], failed |-> {}]
  PROVE  Sound(r, 0) /\ r \in Run
<1> DEFINE all == [i \in Steps |-> i]
<1>1. all \in Seq(Steps)
  BY PlanAssumption DEF Steps
<1>2. History(r, 0) = all
  BY <1>1 DEF History
<1>3. Increasing(all) /\ Places(all) = Steps
  BY PlanAssumption DEF Steps, Increasing, Places
<1> QED
  BY <1>1, <1>2, <1>3 DEF Sound, Run

\* While the checkpoint stays, only the run in the process has to be looked at.
LEMMA SavedFrame ==
  ASSUME RunInv, RunTypeOK', saved' = saved, Sound(Snapshot', running')
  PROVE  RunInv'
<1>1. saved' # None => Sound(saved', 0)
  BY DEF RunInv
<1> QED
  BY <1>1 DEF RunInv, Sound

\* Whatever else a step of the client does, these keep the run as it is.
LEMMA RunFrame ==
  ASSUME RunInv, UNCHANGED <<runVars, saved>>, running = 0 \/ inFlight' = inFlight
  PROVE  RunInv'
<1>1. Snapshot' = Snapshot /\ running' = running /\ saved' = saved
  BY DEF Snapshot, runVars
<1>2. RunTypeOK'
  BY DEF RunInv, RunTypeOK, runVars
<1>3. Sound(Snapshot', running')
  BY <1>1 DEF RunInv
<1> QED
  BY <1>1, <1>2, <1>3, SavedFrame

LEMMA StepKeepsRun == RunInv /\ Step => RunInv'
<1> SUFFICES ASSUME RunInv, Step PROVE RunInv'
  OBVIOUS
<1> DEFINE n == Head(pending)
<1>t. RunTypeOK /\ saved' = saved
  BY DEF RunInv, Step
<1>1. /\ pending # <<>>
      /\ pending' = Tail(pending)
  BY DEF Step, Rest
<1>2. /\ Append(completed, n) \o Tail(pending) = completed \o pending
      /\ (completed \o <<n>>) \o Tail(pending) = completed \o pending
      /\ n \in Steps
      /\ Tail(pending) \in Seq(Steps)
  BY <1>1, <1>t, HistoryMoved DEF RunTypeOK
<1>3. inFlight = None /\ running = 0
  BY <1>t DEF Step, Serve, Raise, Ask, Miss, RunTypeOK
<1>4. History(Snapshot, running) = completed \o pending
  BY <1>3, <1>t DEF History, Snapshot, RunTypeOK
<1>5. CASE Serve(Plan[n]) /\ completed' = Append(completed, n) /\ UNCHANGED <<running, failed>>
  <2>1. RunTypeOK'
    BY <1>5, <1>1, <1>2, <1>3, <1>t DEF RunTypeOK
  <2>2. History(Snapshot', running') = History(Snapshot, running)
    BY <1>5, <1>1, <1>2, <1>3, <1>4, <1>t DEF History, Snapshot, RunTypeOK
  <2>3. Snapshot'.failed = Snapshot.failed
    BY <1>5 DEF Snapshot
  <2> QED
    <3>1. Sound(Snapshot', running')
      BY <2>2, <2>3, SoundFrame DEF RunInv
    <3> QED
      BY <3>1, <2>1, <1>t, SavedFrame
<1>6. CASE Raise(Plan[n]) /\ failed' = failed \cup {n} /\ UNCHANGED <<completed, running>>
  <2>1. RunTypeOK'
    BY <1>6, <1>1, <1>2, <1>3, <1>t DEF RunTypeOK
  <2>2. Snapshot' = [completed |-> completed, pending |-> Tail(pending), failed |-> Snapshot.failed \cup {n}]
    BY <1>6, <1>1 DEF Snapshot
  <2>3. Sound(Snapshot', 0)
    BY <2>2, <1>2, <1>3, <1>4, <1>t, SoundWithout DEF RunInv, RunTypeOK
  <2> QED
    BY <2>1, <2>3, <1>3, <1>6, <1>t, SavedFrame
<1>7. CASE Ask(Plan[n]) /\ running' = n /\ UNCHANGED <<completed, failed>>
  <2>1. inFlight' # None
    BY <1>7, <1>2, PlanAssumption, ClientAssumption DEF Ask, Steps
  <2>2. RunTypeOK'
    BY <2>1, <1>7, <1>1, <1>2, <1>t DEF RunTypeOK
  <2>3. History(Snapshot', running') = History(Snapshot, running)
    BY <1>7, <1>1, <1>2, <1>4, <1>t, StepsAreNumbers DEF History, Snapshot, RunTypeOK
  <2>4. Snapshot'.failed = Snapshot.failed
    BY <1>7 DEF Snapshot
  <2> QED
    <3>1. Sound(Snapshot', running')
      BY <2>3, <2>4, SoundFrame DEF RunInv
    <3> QED
      BY <3>1, <2>2, <1>t, SavedFrame
<1> QED
  BY <1>5, <1>6, <1>7 DEF Step

\* The transport answers: a running step is done.
LEMMA AnsweredKeepsRun == ASSUME RunInv, NEW v \in Results, Answered(v) PROVE RunInv'
<1>t. RunTypeOK /\ saved' = saved /\ UNCHANGED <<pending, failed>> /\ running' = 0
  BY DEF RunInv, Answered
<1>1. CASE running = 0
  <2>1. Snapshot' = Snapshot /\ RunTypeOK'
    BY <1>1, <1>t DEF Answered, Snapshot, RunTypeOK
  <2> QED
    BY <2>1, <1>1, <1>t, SavedFrame DEF RunInv
<1>2. CASE running # 0
  <2>1. running \in Steps /\ completed' = Append(completed, running)
    BY <1>2, <1>t DEF Answered, RunTypeOK
  <2>2. History(Snapshot', 0) = History(Snapshot, running) /\ Snapshot'.failed = Snapshot.failed
    BY <2>1, <1>2, <1>t DEF History, Snapshot, RunTypeOK
  <2>3. Sound(Snapshot', running')
    BY <2>2, <1>t, SoundFrame DEF RunInv
  <2>4. RunTypeOK'
    BY <2>1, <1>t DEF RunTypeOK
  <2> QED
    BY <2>3, <2>4, <1>t, SavedFrame
<1> QED
  BY <1>1, <1>2

\* It raises: a running step is among the failures.
LEMMA FailedKeepsRun == RunInv /\ Failed => RunInv'
<1> SUFFICES ASSUME RunInv, Failed PROVE RunInv'
  OBVIOUS
<1>t. RunTypeOK /\ saved' = saved /\ UNCHANGED <<completed, pending>> /\ running' = 0
  BY DEF RunInv, Failed
<1>1. RunTypeOK'
  BY <1>t DEF Failed, RunTypeOK
<1>2. CASE running = 0
  <2>1. Snapshot' = Snapshot
    BY <1>2, <1>t DEF Failed, Snapshot
  <2> QED
    BY <2>1, <1>1, <1>2, <1>t, SavedFrame DEF RunInv
<1>3. CASE running # 0
  <2>1. running \in Steps
    BY <1>3, <1>t DEF RunTypeOK
  <2>2. /\ Snapshot' = [completed |-> completed, pending |-> pending,
                        failed |-> Snapshot.failed \cup {running}]
        /\ History(Snapshot, running) = (completed \o <<running>>) \o pending
    BY <1>3, <1>t, <2>1 DEF Failed, Snapshot, History
  <2>3. Sound(Snapshot', 0)
    BY <2>1, <2>2, <1>t, SoundWithout DEF RunInv, RunTypeOK
  <2> QED
    BY <2>3, <1>1, <1>t, SavedFrame
<1> QED
  BY <1>2, <1>3

LEMMA RunInvStep == RunInv /\ [Next]_vars => RunInv'
<1> SUFFICES ASSUME RunInv, [Next]_vars PROVE RunInv'
  OBVIOUS
<1>t. RunTypeOK
  BY DEF RunInv
<1>1. ASSUME LoadPlan PROVE RunInv'
  <2>1. running = 0 /\ running' = 0 /\ saved' = saved
    BY <1>1, <1>t DEF LoadPlan, RunTypeOK
  <2>2. Snapshot' = [completed |-> <<>>, pending |-> [j \in Steps |-> j], failed |-> {}]
    BY <1>1 DEF LoadPlan, Snapshot
  <2>3. Sound(Snapshot', running') /\ Snapshot' \in Run
    BY <2>1, <2>2, NewPlanIsSound
  <2>4. RunTypeOK'
    BY <2>1, <2>3, <1>t DEF RunTypeOK, Run, Snapshot
  <2> QED
    BY <2>1, <2>3, <2>4, SavedFrame
<1>2. ASSUME Step PROVE RunInv'
  BY <1>2, StepKeepsRun
<1>3. ASSUME NEW k \in Calls, Call(k) PROVE RunInv'
  <2>1. running = 0 /\ UNCHANGED <<runVars, saved>>
    BY <1>3, <1>t DEF Call, Serve, Raise, Ask, Miss, RunTypeOK
  <2> QED
    BY <2>1, RunFrame
<1>4. ASSUME NEW v \in Results, Answered(v) PROVE RunInv'
  BY <1>4, AnsweredKeepsRun
<1>5. ASSUME Failed PROVE RunInv'
  BY <1>5, FailedKeepsRun
<1>6. ASSUME Checkpoint PROVE RunInv'
  <2>1. /\ running = 0 /\ running' = 0
        /\ Snapshot' = Snapshot /\ saved' = Snapshot
        /\ inFlight' = inFlight /\ UNCHANGED runVars
    BY <1>6, <1>t DEF Checkpoint, RunTypeOK, clientVars, runVars, Snapshot
  <2>2. RunTypeOK'
    BY <2>1, <1>t, SnapshotIsRun DEF RunTypeOK, runVars
  <2>3. Sound(Snapshot', running') /\ Sound(saved', 0)
    BY <2>1 DEF RunInv
  <2> QED
    BY <2>2, <2>3 DEF RunInv, Sound
<1>7. ASSUME Restore PROVE RunInv'
  <2>1. /\ running = 0 /\ running' = 0 /\ saved' = saved
        /\ saved # None /\ saved \in Run
    BY <1>7, <1>t DEF Restore, RunTypeOK
  <2>2. Snapshot' = saved
    BY <1>7, <2>1 DEF Restore, Restored, Snapshot, Run
  <2>3. Sound(Snapshot', running')
    BY <2>1, <2>2 DEF RunInv
  <2>4. RunTypeOK'
    BY <1>7, <2>1, <1>t DEF Restore, Restored, RunTypeOK, Run
  <2> QED
    BY <2>1, <2>3, <2>4, SavedFrame
<1>8. ASSUME Crash PROVE RunInv'
  <2>1. Snapshot' = [completed |-> <<>>, pending |-> <<>>, failed |-> {}]
    BY <1>8 DEF Crash, Snapshot
  <2>2. running' = 0 /\ saved' = saved
    BY <1>8 DEF Crash
  <2>3. Sound(Snapshot', running')
    BY <2>1, <2>2, NoRunIsSound
  <2>4. RunTypeOK'
    BY <1>8, <1>t DEF Crash, RunTypeOK
  <2> QED
    BY <2>2, <2>3, <2>4, SavedFrame
<1>9. ASSUME Manage \/ (Tick /\ UNCHANGED <<runVars, saved>>) \/ UNCHANGED vars PROVE RunInv'
  <2>1. inFlight' = inFlight /\ UNCHANGED <<runVars, saved>>
    BY <1>9 DEF Manage, Tick, vars, clientVars
  <2> QED
    BY <2>1, RunFrame
<1> QED
  BY <1>1, <1>2, <1>3, <1>4, <1>5, <1>6, <1>7, <1>8, <1>9 DEF Next

LEMMA RunInvInit == Init => RunInv
<1> SUFFICES ASSUME Init PROVE RunInv
  OBVIOUS
<1>1. Snapshot = [completed |-> <<>>, pending |-> <<>>, failed |-> {}]
  BY DEF Init, Snapshot
<1>2. RunTypeOK /\ running = 0 /\ saved = None
  BY DEF Init, ClientInit, RunTypeOK
<1> QED
  BY <1>1, <1>2, NoRunIsSound DEF RunInv

\* The steps of a run are done in the order of the plan and none twice, for
\* every plan, through raising calls, checkpoints, crashes and resumptions.
THEOREM StepsInOrder == Spec => []InOrder
<1>1. RunInv => InOrder
  BY DEF RunInv, Sound, InOrder
<1> QED
  BY <1>1, RunInvInit, RunInvStep, PTL DEF Spec

\* No step is lost but by an exception from its own call, neither by a crash
\* nor by a resumption from any checkpoint.
THEOREM LostByFailureOnly == Spec => []OnlyFailuresLost
<1>1. RunInv => OnlyFailuresLost
  BY DEF RunInv, Sound, OnlyFailuresLost
<1> QED
  BY <1>1, RunInvInit, RunInvStep, PTL DEF Spec
-----------------------------------------------------------------------------
(* The cache *)

Distinct(s) == \A i, j \in DOMAIN s : s[i].key = s[j].key => i = j

\* The fresh entries of s are in a, and were used in the order of a.
InStep(s, a) ==
  /\ \A i \in DOMAIN s : IsFresh(s[i]) => \E m \in DOMAIN a : a[m] = s[i]
  /\ \A i, j \in DOMAIN s, m, n \in DOMAIN a :
       /\ IsFresh(s[i]) /\ IsFresh(s[j])
       /\ a[m].key = s[i].key /\ a[n].key = s[j].key
       /\ i < j
       => m < n

\* What the two properties of the cache rest on: what it could serve is what
\* a cache without a bound would have, in the same order of use.
CacheSound ==
  /\ CacheTypeOK
  /\ answers \in Seq([key : Calls, value : Results, age : 0..TTL - 1])
  /\ Distinct(answers)
  /\ InStep(entries, answers)

LEMMA AgesAreNumbers ==
  /\ TTL \in Nat \ {0} /\ MaxEntries \in Nat \ {0}
  /\ \A e \in Entry : e.age \in 0..TTL /\ e.key \in Calls /\ e.value \in Results
  /\ [key : Calls, value : Results, age : 0..TTL - 1] \subseteq Entry
<1>1. TTL \in Nat \ {0} /\ MaxEntries \in Nat \ {0}
  BY CacheAssumption
<1>2. 0..TTL - 1 \subseteq 0..TTL
  BY <1>1
<1> QED
  BY <1>1, <1>2 DEF Entry

LEMMA CacheSoundTypes ==
  ASSUME CacheSound
  PROVE  /\ entries \in Seq(Entry) /\ Distinct(entries)
         /\ answers \in Seq(Entry) /\ Distinct(answers)
         /\ Len(entries) <= MaxEntries
         /\ \A m \in DOMAIN answers : answers[m] \in Entry /\ answers[m].age < TTL
<1>1. answers \in Seq([key : Calls, value : Results, age : 0..TTL - 1])
  BY DEF CacheSound
<1>2. \A m \in DOMAIN answers : answers[m] \in [key : Calls, value : Results, age : 0..TTL - 1]
  <2>1. PICK T : T = [key : Calls, value : Results, age : 0..TTL - 1]
    OBVIOUS
  <2>2. \A a \in Seq(T) : \A m \in DOMAIN a : a[m] \in T
    OBVIOUS
  <2>3. \A m \in DOMAIN answers : answers[m] \in T
    BY <1>1, <2>1, <2>2
  <2> QED
    BY <2>1, <2>3
<1>3. \A m \in DOMAIN answers : answers[m].age \in 0..TTL - 1 /\ answers[m] \in Entry
  BY <1>2, AgesAreNumbers
<1>4. \A m \in DOMAIN answers : answers[m].age < TTL
  BY <1>3, AgesAreNumbers
<1>5. answers \in Seq(Entry)
  BY <1>1, <1>3
<1> QED
  BY <1>3, <1>4, <1>5 DEF CacheSound, CacheTypeOK, Distinct

\* t is what is left of the list s, which has distinct keys, when only members
\* of T stay.
Remains(t, s, T) ==
  /\ t \in Seq(Entry) /\ Distinct(t) /\ Len(t) <= Len(s)
  /\ \A i \in DOMAIN t : t[i] \in T /\ \E m \in DOMAIN s : s[m] = t[i]
  /\ \A m \in DOMAIN s : s[m] \in T => \E i \in DOMAIN t : t[i] = s[m]
  /\ \A i, j \in DOMAIN t, m, n \in DOMAIN s :
       s[m].key = t[i].key /\ s[n].key = t[j].key => (i < j <=> m < n)

LEMMA OnlyOfDistinct ==
  ASSUME NEW s \in Seq(Entry), Distinct(s), NEW T
  PROVE  Remains(Only(s, T), s, T)
<1>0. PICK t : t = Only(s, T)
  OBVIOUS
<1>1. t \in Seq(Entry) /\ \E at : Selects(at, s, T, t, Len(s))
  BY <1>0, OnlySelects
<1>2. PICK at : Selects(at, s, T, t, Len(s))
  BY <1>1
<1>3. PICK l \in Nat, N \in Nat : l = Len(t) /\ N = Len(s) /\ DOMAIN t = 1..l /\ DOMAIN s = 1..N
  BY <1>1
<1>4. /\ \A i \in 1..l : at[i] \in 1..N /\ t[i] = s[at[i]] /\ t[i] \in T
      /\ \A i, j \in 1..l : i < j => at[i] < at[j]
      /\ \A m \in 1..N : s[m] \in T => \E i \in 1..l : at[i] = m
      /\ l <= N
  BY <1>2, <1>3 DEF Selects
<1>5. \A i \in 1..l, m \in 1..N : s[m].key = t[i].key => m = at[i]
  BY <1>3, <1>4 DEF Distinct
<1>6. \A i, j \in 1..l : at[i] < at[j] => i < j
  <2> SUFFICES ASSUME NEW i \in 1..l, NEW j \in 1..l, at[i] < at[j] PROVE i < j
    OBVIOUS
  <2>1. at[i] \in Int /\ at[j] \in Int /\ i \in Int /\ j \in Int
    BY <1>4
  <2>2. CASE i = j
    BY <2>1, <2>2
  <2>3. CASE j < i
    <3>1. at[j] < at[i]
      BY <1>4, <2>3
    <3> QED
      BY <2>1, <3>1
  <2> QED
    BY <2>1, <2>2, <2>3
<1>7. Distinct(t)
  <2> SUFFICES ASSUME NEW i \in 1..l, NEW j \in 1..l, t[i].key = t[j].key PROVE i = j
    BY <1>3 DEF Distinct
  <2>1. at[i] = at[j] /\ at[i] \in Int
    BY <1>4, <1>5
  <2>2. ~(i < j) /\ ~(j < i)
    BY <1>4, <2>1
  <2> QED
    BY <2>2
<1>8. ASSUME NEW i \in 1..l, NEW j \in 1..l, NEW m \in 1..N, NEW n \in 1..N,
             s[m].key = t[i].key, s[n].key = t[j].key
      PROVE  i < j <=> m < n
  BY <1>4, <1>5, <1>6, <1>8
<1>9. \A i \in 1..l : t[i] \in T /\ \E m \in 1..N : s[m] = t[i]
  BY <1>4
<1>10. \A m \in 1..N : s[m] \in T => \E i \in 1..l : t[i] = s[m]
  BY <1>4
<1>11. Remains(t, s, T)
  BY <1>1, <1>3, <1>4, <1>7, <1>8, <1>9, <1>10 DEF Remains
<1> QED
  BY <1>0, <1>11

\* Fewer entries are still in step.
LEMMA FewerInStep ==
  ASSUME NEW s \in Seq(Entry), Distinct(s), NEW a, InStep(s, a), NEW T
  PROVE  InStep(Only(s, T), a)
<1>1. PICK t : t = Only(s, T)
  OBVIOUS
<1>2. Remains(t, s, T)
  BY <1>1, OnlyOfDistinct
<1>3. ASSUME NEW i \in DOMAIN t, IsFresh(t[i]) PROVE \E m \in DOMAIN a : a[m] = t[i]
  BY <1>2, <1>3 DEF InStep, Remains
<1>4. ASSUME NEW i \in DOMAIN t, NEW j \in DOMAIN t, NEW m \in DOMAIN a, NEW n \in DOMAIN a,
             IsFresh(t[i]), IsFresh(t[j]), a[m].key = t[i].key, a[n].key = t[j].key, i < j
      PROVE  m < n
  <2>1. PICK v \in DOMAIN s, w \in DOMAIN s : s[v] = t[i] /\ s[w] = t[j]
    BY <1>2 DEF Remains
  <2>2. v < w
    BY <1>2, <1>4, <2>1 DEF Remains
  <2> QED
    BY <1>4, <2>1, <2>2 DEF InStep
<1>5. InStep(t, a)
  BY <1>3, <1>4 DEF InStep
<1> QED
  BY <1>1, <1>5

\* And so are all of them with fewer answers, if those that they came from
\* are there.
LEMMA FewerAnswersInStep ==
  ASSUME NEW s, NEW a \in Seq(Entry), Distinct(a), InStep(s, a), NEW T,
         \A i \in DOMAIN s : IsFresh(s[i]) => s[i] \in T
  PROVE  InStep(s, Only(a, T))
<1>1. PICK b : b = Only(a, T)
  OBVIOUS
<1>2. Remains(b, a, T)
  BY <1>1, OnlyOfDistinct
<1>3. ASSUME NEW i \in DOMAIN s, IsFresh(s[i]) PROVE \E m \in DOMAIN b : b[m] = s[i]
  BY <1>2, <1>3 DEF InStep, Remains
<1>4. ASSUME NEW i \in DOMAIN s, NEW j \in DOMAIN s, NEW m \in DOMAIN b, NEW n \in DOMAIN b,
             IsFresh(s[i]), IsFresh(s[j]), b[m].key = s[i].key, b[n].key = s[j].key, i < j
      PROVE  m < n
  <2>1. PICK v \in DOMAIN a, w \in DOMAIN a : a[v] = b[m] /\ a[w] = b[n]
    BY <1>2 DEF Remains
  <2>2. v < w
    BY <1>4, <2>1 DEF InStep
  <2> QED
    BY <1>2, <2>1, <2>2 DEF Remains
<1>5. InStep(s, b)
  BY <1>3, <1>4 DEF InStep
<1> QED
  BY <1>1, <1>5

\* The one with the key k taken out of both.
LEMMA WithoutProperties ==
  ASSUME NEW s \in Seq(Entry), Distinct(s), NEW k
  PROVE  /\ Without(s, k) \in Seq(Entry) /\ Distinct(Without(s, k))
         /\ Len(Without(s, k)) <= Len(s)
         /\ (\E i \in DOMAIN s : s[i].key = k) => Len(Without(s, k)) < Len(s)
         /\ \A i \in DOMAIN Without(s, k) :
              Without(s, k)[i].key # k /\ \E m \in DOMAIN s : s[m] = Without(s, k)[i]
         /\ \A m \in DOMAIN s :
              s[m].key # k => \E i \in DOMAIN Without(s, k) : Without(s, k)[i] = s[m]
<1> DEFINE T == {e \in Entry : e.key # k}
<1>1. PICK t : t = Only(s, T) /\ t = Without(s, k)
  BY DEF Without
<1>2. \A m \in DOMAIN s : s[m] \in Entry /\ (s[m] \in T <=> s[m].key # k)
  OBVIOUS
<1> HIDE DEF T
<1>3. /\ t \in Seq(Entry) /\ Distinct(t) /\ Len(t) <= Len(s)
      /\ \A i \in DOMAIN t : t[i] \in T /\ \E m \in DOMAIN s : s[m] = t[i]
      /\ \A m \in DOMAIN s : s[m] \in T => \E i \in DOMAIN t : t[i] = s[m]
  <2>1. Remains(t, s, T)
    BY <1>1, OnlyOfDistinct
  <2> QED
    BY <2>1 DEF Remains
<1>4. \E at : Selects(at, s, T, t, Len(s))
  BY <1>1, OnlySelects
<1>5. (\E i \in DOMAIN s : s[i].key = k) => Len(t) < Len(s)
  <2>1. DOMAIN s = 1..Len(s)
    OBVIOUS
  <2> QED
    BY <1>2, <1>4, <2>1 DEF Selects
<1> QED
  BY <1>1, <1>2, <1>3, <1>5

LEMMA WithoutInStep ==
  ASSUME NEW s \in Seq(Entry), Distinct(s), NEW a \in Seq(Entry), Distinct(a),
         InStep(s, a), NEW k
  PROVE  InStep(Without(s, k), a) /\ InStep(Without(s, k), Without(a, k))
<1>1. PICK t : t = Without(s, k)
  OBVIOUS
<1>2. InStep(t, a)
  BY <1>1, FewerInStep DEF Without
<1>3. \A i \in DOMAIN t : t[i] \in {e \in Entry : e.key # k}
  <2>1. t \in Seq(Entry) /\ \A i \in DOMAIN t : t[i].key # k
    BY <1>1, WithoutProperties
  <2> QED
    BY <2>1
<1>4. InStep(t, Without(a, k))
  BY <1>2, <1>3, FewerAnswersInStep DEF Without
<1> QED
  BY <1>1, <1>2, <1>4

\* The entry e comes after those with other keys, in the cache and in the
\* order of use.
LEMMA AppendProperly ==
  ASSUME NEW s \in Seq(Entry), NEW e \in Entry, Distinct(s),
         \A i \in DOMAIN s : s[i].key # e.key
  PROVE  /\ Append(s, e) \in Seq(Entry) /\ Distinct(Append(s, e))
         /\ Len(Append(s, e)) = Len(s) + 1
<1>1. PICK t \in Seq(Entry) : t = Append(s, e)
  BY AppendProperties
<1>2. Len(t) = Len(s) + 1 /\ t[Len(s) + 1] = e /\ \A i \in 1..Len(s) : t[i] = s[i]
  BY <1>1, AppendProperties
<1>3. PICK l \in Nat : l = Len(s) /\ DOMAIN s = 1..l /\ DOMAIN t = 1..(l + 1)
  BY <1>2
<1>4. \A i \in 1..(l + 1) : i \in 1..l \/ i = l + 1
  OBVIOUS
<1>5. Distinct(t)
  BY <1>2, <1>3, <1>4 DEF Distinct
<1> QED
  BY <1>1, <1>2, <1>5

LEMMA AppendInStep ==
  ASSUME NEW s \in Seq(Entry), NEW a \in Seq(Entry), NEW e \in Entry, InStep(s, a),
         \A i \in DOMAIN s : s[i].key # e.key,
         \A m \in DOMAIN a : a[m].key # e.key
  PROVE  InStep(Append(s, e), Append(a, e))
<1>1. PICK k \in Nat, l \in Nat : k = Len(s) /\ l = Len(a) /\ DOMAIN s = 1..k /\ DOMAIN a = 1..l
  OBVIOUS
<1>2. PICK t \in Seq(Entry) : t = Append(s, e)
  BY AppendProperties
<1>3. DOMAIN t = 1..(k + 1) /\ t[k + 1] = e /\ \A i \in 1..k : t[i] = s[i]
  BY <1>1, <1>2, AppendProperties
<1>4. PICK b \in Seq(Entry) : b = Append(a, e)
  BY AppendProperties
<1>5. DOMAIN b = 1..(l + 1) /\ b[l + 1] = e /\ \A i \in 1..l : b[i] = a[i]
  BY <1>1, <1>4, AppendProperties
<1>6. /\ \A i \in 1..(k + 1) : i \in 1..k \/ i = k + 1
      /\ \A i \in 1..(l + 1) : i \in 1..l \/ i = l + 1
      /\ \A i \in 1..l : i \in 1..(l + 1) /\ i < l + 1
      /\ l + 1 \in 1..(l + 1)
      /\ \A i \in 1..(k + 1) : ~(k + 1 < i)
  OBVIOUS
<1>7. ASSUME NEW i \in 1..(k + 1), IsFresh(t[i]) PROVE \E m \in 1..(l + 1) : b[m] = t[i]
  <2>1. CASE i = k + 1
    BY <1>3, <1>5, <1>6, <2>1
  <2>2. CASE i \in 1..k
    <3>1. PICK m \in 1..l : a[m] = s[i]
      BY <1>1, <1>3, <1>7, <2>2 DEF InStep
    <3> QED
      BY <1>3, <1>5, <1>6, <2>2, <3>1
  <2> QED
    BY <1>6, <2>1, <2>2
<1>8. ASSUME NEW i \in 1..(k + 1), NEW j \in 1..(k + 1), NEW m \in 1..(l + 1), NEW n \in 1..(l + 1),
             IsFresh(t[i]), IsFresh(t[j]), b[m].key = t[i].key, b[n].key = t[j].key, i < j
      PROVE  m < n
  <2>1. i \in 1..k /\ t[i] = s[i]
    BY <1>3, <1>6, <1>8
  <2>2. m \in 1..l /\ b[m] = a[m]
    BY <1>1, <1>5, <1>6, <1>8, <2>1
  <2>3. CASE j = k + 1
    <3>1. n = l + 1
      BY <1>1, <1>3, <1>5, <1>6, <1>8, <2>3
    <3> QED
      BY <1>6, <2>2, <3>1
  <2>4. CASE j \in 1..k
    <3>1. n \in 1..l
      BY <1>1, <1>3, <1>5, <1>6, <1>8, <2>4
    <3>2. t[j] = s[j] /\ b[n] = a[n]
      BY <1>3, <1>5, <2>4, <3>1
    <3>3. /\ IsFresh(s[i]) /\ IsFresh(s[j]) /\ a[m].key = s[i].key /\ a[n].key = s[j].key
          /\ i \in DOMAIN s /\ j \in DOMAIN s /\ m \in DOMAIN a /\ n \in DOMAIN a
      BY <1>1, <1>8, <2>1, <2>2, <2>4, <3>1, <3>2
    <3> QED
      BY <1>8, <3>3 DEF InStep
  <2> QED
    BY <1>6, <2>3, <2>4
<1>9. InStep(t, b)
  BY <1>3, <1>5, <1>7, <1>8 DEF InStep
<1> QED
  BY <1>2, <1>4, <1>9

\* In a list with distinct keys, the entry that has a key can be named.
LEMMA EntryOfKey ==
  ASSUME CacheSound, NEW k \in Keys
  PROVE  \E i \in DOMAIN entries :
            /\ entries[i] = EntryOf(k) /\ entries[i].key = k
            /\ \A j \in DOMAIN entries : entries[j].key = k => j = i
<1>1. PICK i \in DOMAIN entries : entries[i].key = k
  BY DEF Keys
<1>2. \A j \in DOMAIN entries : entries[j].key = k => j = i
  BY <1>1, CacheSoundTypes DEF Distinct
<1>3. (CHOOSE j \in DOMAIN entries : entries[j].key = k) = i
  BY <1>1, <1>2
<1> QED
  BY <1>1, <1>2, <1>3 DEF EntryOf

\* The answers to k are the entry that a hit finds, and no other.
LEMMA HitIsAnswered ==
  ASSUME CacheSound, NEW k, IsHit(k)
  PROVE  /\ EntryOf(k) \in Entry /\ EntryOf(k).key = k
         /\ \E m \in DOMAIN answers : answers[m] = EntryOf(k)
         /\ Only(answers, {e \in Entry : e.key = k}) = <<EntryOf(k)>>
<1> DEFINE T == {e \in Entry : e.key = k}
<1>1. PICK i \in DOMAIN entries : entries[i] = EntryOf(k) /\ entries[i].key = k
  BY EntryOfKey DEF IsHit
<1>2. entries[i] \in Entry /\ IsFresh(entries[i])
  BY <1>1, CacheSoundTypes DEF IsHit
<1>3. PICK m \in DOMAIN answers : answers[m] = EntryOf(k)
  BY <1>1, <1>2 DEF CacheSound, InStep
<1>4. answers \in Seq(Entry) /\ Distinct(answers)
  BY CacheSoundTypes
<1>5. PICK t : t = Only(answers, T)
  OBVIOUS
<1>6. EntryOf(k) \in T /\ \A e \in T : e.key = k
  BY <1>1, <1>2
<1> HIDE DEF T
<1>7. /\ t \in Seq(Entry) /\ Distinct(t)
      /\ \A j \in DOMAIN t : t[j] \in T
      /\ \A n \in DOMAIN answers : answers[n] \in T => \E j \in DOMAIN t : t[j] = answers[n]
  <2>1. Remains(t, answers, T)
    BY <1>4, <1>5, OnlyOfDistinct
  <2> QED
    BY <2>1 DEF Remains
<1>8. PICK j \in DOMAIN t : t[j] = EntryOf(k)
  BY <1>3, <1>6, <1>7
<1>9. \A n \in DOMAIN t : n = j
  BY <1>6, <1>7 DEF Distinct
<1>10. Len(t) = 1 /\ j = 1
  <2>1. Len(t) \in Nat /\ DOMAIN t = 1..Len(t) /\ j \in 1..Len(t)
    BY <1>7
  <2>2. 1 \in DOMAIN t /\ Len(t) \in DOMAIN t
    BY <2>1
  <2> QED
    BY <1>9, <2>2
<1>11. t = <<EntryOf(k)>>
  BY <1>7, <1>8, <1>10
<1> QED
  BY <1>1, <1>2, <1>3, <1>5, <1>11 DEF T

Young == [key : Calls, value : Results, age : 0..TTL - 1]

\* What has to be known of a step of the client.
LEMMA CacheSoundAfter ==
  ASSUME NEW s \in Seq(Entry), NEW a \in Seq(Entry), Distinct(s), Distinct(a),
         Len(s) <= MaxEntries, \A m \in DOMAIN a : a[m].age < TTL, InStep(s, a),
         entries' = s, answers' = a
  PROVE  CacheSound'
<1>1. \A m \in DOMAIN a : a[m] \in Young
  <2> SUFFICES ASSUME NEW m \in DOMAIN a PROVE a[m] \in Young
    OBVIOUS
  <2>1. a[m] \in Entry /\ a[m].age \in 0..TTL /\ a[m].age < TTL
    BY AgesAreNumbers
  <2>2. a[m].age \in 0..TTL - 1
    BY <2>1, AgesAreNumbers
  <2> QED
    BY <2>1, <2>2 DEF Entry, Young
<1>2. a \in Seq(Young)
  BY <1>1
<1>3. CacheTypeOK'
  BY DEF CacheTypeOK, Distinct
<1>4. answers' \in Seq([key : Calls, value : Results, age : 0..TTL - 1])
  BY <1>2 DEF Young
<1>5. Distinct(answers') /\ InStep(entries', answers')
  OBVIOUS
<1> QED
  BY <1>3, <1>4, <1>5 DEF CacheSound, Distinct, InStep, IsFresh

\* The key k is used: in the cache and among the answers, its entry e is now
\* the last one.
LEMMA UsedLast ==
  ASSUME CacheSound, NEW e \in Entry, e.age < TTL,
         NEW s \in Seq(Entry), Distinct(s), InStep(s, Without(answers, e.key)),
         \A i \in DOMAIN s : s[i].key # e.key,
         Len(s) < MaxEntries,
         entries' = Append(s, e), answers' = Append(Without(answers, e.key), e)
  PROVE  CacheSound'
<1>1. PICK a \in Seq(Entry) : a = Without(answers, e.key) /\ Distinct(a)
  BY CacheSoundTypes, WithoutProperties
<1>2. /\ \A m \in DOMAIN a : a[m].key # e.key
      /\ \A m \in DOMAIN a : a[m].age < TTL
  <2>1. \A m \in DOMAIN a : a[m].key # e.key /\ \E n \in DOMAIN answers : answers[n] = a[m]
    BY <1>1, CacheSoundTypes, WithoutProperties
  <2> QED
    BY <2>1, CacheSoundTypes
<1>3. Append(s, e) \in Seq(Entry) /\ Distinct(Append(s, e)) /\ Len(Append(s, e)) = Len(s) + 1
  BY AppendProperly
<1>4. Append(a, e) \in Seq(Entry) /\ Distinct(Append(a, e))
  BY <1>1, <1>2, AppendProperly
<1>5. \A m \in DOMAIN Append(a, e) : Append(a, e)[m].age < TTL
  <2>1. PICK b \in Seq(Entry) : b = Append(a, e)
    BY <1>4
  <2>2. DOMAIN b = 1..(Len(a) + 1) /\ b[Len(a) + 1] = e /\ \A m \in 1..Len(a) : b[m] = a[m]
    BY <1>1, <2>1, AppendProperties
  <2>3. PICK l \in Nat : l = Len(a) /\ DOMAIN a = 1..l
    BY <1>1
  <2>4. \A m \in 1..(l + 1) : m \in 1..l \/ m = l + 1
    OBVIOUS
  <2> QED
    BY <1>2, <2>1, <2>2, <2>3, <2>4
<1>6. InStep(Append(s, e), Append(a, e))
  BY <1>1, <1>2, AppendInStep
<1>7. Len(Append(s, e)) <= MaxEntries
  BY <1>3, AgesAreNumbers
<1> QED
  BY <1>1, <1>3, <1>4, <1>5, <1>6, <1>7, CacheSoundAfter

\* get, with what a hit does to the order of the answers.
LEMMA GetKeepsCache ==
  ASSUME CacheSound, NEW k \in Calls, Get(k),
         IF IsHit(k) THEN Use(k) ELSE UNCHANGED answers
  PROVE  CacheSound'
<1>1. PICK s \in Seq(Entry) : s = Without(entries, k) /\ Distinct(s)
  BY CacheSoundTypes, WithoutProperties
<1>2. /\ Len(s) <= Len(entries)
      /\ (\E i \in DOMAIN entries : entries[i].key = k) => Len(s) < Len(entries)
      /\ \A i \in DOMAIN s : s[i].key # k
  BY <1>1, CacheSoundTypes, WithoutProperties
<1>3. InStep(s, answers) /\ InStep(s, Without(answers, k))
  BY <1>1, CacheSoundTypes, WithoutInStep DEF CacheSound
<1>4. /\ Len(s) \in Nat /\ Len(entries) \in Nat /\ Len(entries) <= MaxEntries
      /\ MaxEntries \in Nat
  BY CacheSoundTypes, AgesAreNumbers
<1>5. CASE IsHit(k)
  <2>1. PICK e \in Entry : e = EntryOf(k) /\ e.key = k /\ IsFresh(e)
    BY <1>5, HitIsAnswered DEF IsHit
  <2>2. entries' = Append(s, e)
    BY <1>1, <1>5, <2>1 DEF Get, Touched
  <2>3. answers' = Append(Without(answers, k), e)
    <3>1. answers' = Without(answers, k) \o <<e>>
      BY <1>5, <2>1, HitIsAnswered DEF Use
    <3>2. Without(answers, k) \in Seq(Entry)
      BY CacheSoundTypes, WithoutProperties
    <3> QED
      BY <2>1, <3>1, <3>2, AppendIsConcat
  <2>4. Len(s) < MaxEntries
    <3>1. \E i \in DOMAIN entries : entries[i].key = k
      BY <1>5 DEF IsHit, Keys
    <3> QED
      BY <1>2, <1>4, <3>1
  <2>5. e.age < TTL
    BY <2>1 DEF IsFresh
  <2>6. /\ InStep(s, Without(answers, e.key)) /\ \A i \in DOMAIN s : s[i].key # e.key
        /\ answers' = Append(Without(answers, e.key), e)
    BY <1>2, <1>3, <2>1, <2>3
  <2> QED
    BY <1>1, <2>1, <2>2, <2>4, <2>5, <2>6, UsedLast
<1>6. CASE ~IsHit(k)
  <2>1. entries' = s /\ answers' = answers
    BY <1>1, <1>6 DEF Get
  <2>2. Len(s) <= MaxEntries
    BY <1>2, <1>4
  <2> QED
    BY <1>1, <1>3, <2>1, <2>2, CacheSoundTypes, CacheSoundAfter
<1> QED
  BY <1>5, <1>6

\* _evict_expired leaves the fresh entries and no other.
LEMMA EvictExpiredProperties ==
  ASSUME CacheSound, NEW s, s = EvictExpired
  PROVE  /\ s \in Seq(Entry) /\ Distinct(s) /\ InStep(s, answers)
         /\ Len(s) <= MaxEntries
         /\ \A i \in DOMAIN s : IsFresh(s[i]) /\ \E m \in DOMAIN entries : entries[m] = s[i]
         /\ \A m \in DOMAIN entries : IsFresh(entries[m]) => \E i \in DOMAIN s : s[i] = entries[m]
<1> DEFINE T == {e \in Entry : IsFresh(e)}
<1>1. s = Only(entries, T)
  BY DEF EvictExpired
<1>2. entries \in Seq(Entry) /\ Distinct(entries) /\ Len(entries) <= MaxEntries
  BY CacheSoundTypes
<1>3. \A m \in DOMAIN entries : entries[m] \in T <=> IsFresh(entries[m])
  BY <1>2
<1>4. \A e \in T : IsFresh(e)
  OBVIOUS
<1> HIDE DEF T
<1>5. Remains(s, entries, T)
  BY <1>1, <1>2, OnlyOfDistinct
<1>6. InStep(s, answers)
  BY <1>1, <1>2, FewerInStep DEF CacheSound
<1>7. Len(s) <= MaxEntries
  <2>1. Len(s) \in Nat /\ Len(s) <= Len(entries) /\ Len(entries) \in Nat /\ MaxEntries \in Nat
    BY <1>2, <1>5, AgesAreNumbers DEF Remains
  <2> QED
    BY <1>2, <2>1
<1> QED
  BY <1>3, <1>4, <1>5, <1>6, <1>7 DEF Remains

LEMMA TailInStep ==
  ASSUME NEW s \in Seq(Entry), s # <<>>, Distinct(s), NEW a, InStep(s, a)
  PROVE  /\ Tail(s) \in Seq(Entry) /\ Distinct(Tail(s)) /\ InStep(Tail(s), a)
         /\ Len(Tail(s)) = Len(s) - 1
         /\ \A i \in DOMAIN Tail(s) : i + 1 \in DOMAIN s /\ Tail(s)[i] = s[i + 1]
<1>1. PICK t \in Seq(Entry) : t = Tail(s)
  BY HeadTailProperties
<1>2. Len(t) = Len(s) - 1 /\ \A i \in 1..Len(t) : t[i] = s[i + 1]
  BY <1>1, HeadTailProperties
<1>3. PICK l \in Nat : l = Len(t) /\ DOMAIN t = 1..l /\ DOMAIN s = 1..(l + 1)
  BY <1>2
<1>4. \A i \in 1..l : i + 1 \in 1..(l + 1) /\ t[i] = s[i + 1]
  BY <1>2, <1>3
<1>5. Distinct(t)
  <2> SUFFICES ASSUME NEW i \in 1..l, NEW j \in 1..l, t[i].key = t[j].key PROVE i = j
    BY <1>3 DEF Distinct
  <2>1. i + 1 = j + 1
    BY <1>3, <1>4 DEF Distinct
  <2> QED
    BY <2>1
<1>6. InStep(t, a)
  <2>1. ASSUME NEW i \in 1..l, NEW j \in 1..l, NEW m \in DOMAIN a, NEW n \in DOMAIN a,
               IsFresh(t[i]), IsFresh(t[j]), a[m].key = t[i].key, a[n].key = t[j].key, i < j
        PROVE  m < n
    <3>1. i + 1 < j + 1
      BY <2>1
    <3>2. i + 1 \in DOMAIN s /\ j + 1 \in DOMAIN s /\ t[i] = s[i + 1] /\ t[j] = s[j + 1]
      BY <1>3, <1>4
    <3>3. PICK v \in DOMAIN s, w \in DOMAIN s : v = i + 1 /\ w = j + 1 /\ v < w
      BY <3>1, <3>2
    <3>4. /\ IsFresh(s[v]) /\ IsFresh(s[w])
          /\ a[m].key = s[v].key /\ a[n].key = s[w].key
      BY <2>1, <3>2, <3>3
    <3> QED
      BY <3>3, <3>4 DEF InStep
  <2>2. ASSUME NEW i \in 1..l, IsFresh(t[i]) PROVE \E m \in DOMAIN a : a[m] = t[i]
    BY <1>3, <1>4, <2>2 DEF InStep
  <2> QED
    BY <1>3, <2>1, <2>2 DEF InStep
<1> QED
  BY <1>1, <1>2, <1>3, <1>4, <1>5, <1>6

\* set: whether an entry has to go or not.
LEMMA SetKeepsCache ==
  ASSUME CacheSound, NEW k \in Calls, NEW v \in Results, Set(k, v),
         answers' = Append(Without(answers, k), [key |-> k, value |-> v, age |-> 0])
  PROVE  CacheSound'
<1>1. PICK s : s = EvictExpired
  OBVIOUS
<1>2. /\ s \in Seq(Entry) /\ Distinct(s) /\ InStep(s, answers) /\ Len(s) <= MaxEntries
      /\ Len(s) \in Nat /\ MaxEntries \in Nat \ {0} /\ 0 < TTL
  BY <1>1, EvictExpiredProperties, AgesAreNumbers
<1>3. PICK e \in Entry : e = [key |-> k, value |-> v, age |-> 0]
  <2>1. 0 \in 0..TTL
    BY AgesAreNumbers
  <2> QED
    BY <2>1 DEF Entry
<1>4. e.key = k /\ e.age < TTL /\ answers' = Append(Without(answers, e.key), e)
  BY <1>2, <1>3
<1>5. CASE (\A i \in DOMAIN s : s[i].key # k) /\ IsFull(s)
  <2>1. entries' = Append(Tail(s), e)
    BY <1>1, <1>3, <1>5 DEF Set
  <2>2. s # <<>>
    <3>1. Len(s) >= MaxEntries
      BY <1>5 DEF IsFull
    <3> QED
      BY <1>2, <3>1
  <2>3. PICK t \in Seq(Entry) : t = Tail(s) /\ Distinct(t) /\ InStep(t, answers)
    BY <1>2, <2>2, TailInStep
  <2>4. Len(t) = Len(s) - 1 /\ \A i \in DOMAIN t : t[i].key # k
    BY <1>2, <1>5, <2>2, <2>3, TailInStep
  <2>5. InStep(t, Without(answers, k))
    <3>1. \A i \in DOMAIN t : t[i] \in {f \in Entry : f.key # k}
      BY <2>3, <2>4
    <3> QED
      BY <2>3, <3>1, CacheSoundTypes, FewerAnswersInStep DEF Without
  <2>6. Len(t) < MaxEntries
    BY <1>2, <2>4
  <2> QED
    BY <1>4, <2>1, <2>3, <2>4, <2>5, <2>6, UsedLast
<1>6. CASE ~((\A i \in DOMAIN s : s[i].key # k) /\ IsFull(s))
  <2>1. entries' = Append(Without(s, k), e)
    BY <1>1, <1>3, <1>6 DEF Set
  <2>2. PICK t \in Seq(Entry) : t = Without(s, k) /\ Distinct(t)
    BY <1>2, WithoutProperties
  <2>3. /\ Len(t) <= Len(s) /\ Len(t) \in Nat /\ \A i \in DOMAIN t : t[i].key # k
        /\ (\E i \in DOMAIN s : s[i].key = k) => Len(t) < Len(s)
    BY <1>2, <2>2, WithoutProperties
  <2>4. InStep(t, Without(answers, k))
    BY <1>2, <2>2, CacheSoundTypes, WithoutInStep
  <2>5. Len(t) < MaxEntries
    <3>1. CASE \E i \in DOMAIN s : s[i].key = k
      BY <1>2, <2>3, <3>1
    <3>2. CASE ~IsFull(s)
      <4>1. ~(Len(s) >= MaxEntries)
        BY <3>2 DEF IsFull
      <4> QED
        BY <1>2, <2>3, <4>1
    <3> QED
      BY <1>6, <3>1, <3>2
  <2> QED
    BY <1>4, <2>1, <2>2, <2>3, <2>4, <2>5, UsedLast
<1> QED
  BY <1>5, <1>6

LEMMA TickKeepsCache ==
  ASSUME CacheSound, Tick
  PROVE  CacheSound'
<1> DEFINE T == {e \in Entry : e.age + 1 < TTL}
           old(e) == [e EXCEPT !.age = IF @ < TTL THEN @ + 1 ELSE TTL]
<1>1. PICK y : y = Only(answers, T)
  OBVIOUS
<1>2. PICK N \in Nat : N = TTL /\ N > 0
  BY AgesAreNumbers
<1>3. /\ entries' = [i \in DOMAIN entries |-> old(entries[i])]
      /\ answers' = [i \in DOMAIN y |-> [y[i] EXCEPT !.age = @ + 1]]
  BY <1>1 DEF Tick, Age
<1>4. \A e \in T : e \in Entry /\ e.age + 1 < N
  BY <1>2
<1>5. \A e \in Entry : e \in T <=> e.age + 1 < N
  BY <1>2
<1>6. /\ entries \in Seq(Entry) /\ answers \in Seq(Entry)
      /\ Distinct(entries) /\ Distinct(answers) /\ Len(entries) <= MaxEntries
  BY CacheSoundTypes
<1> HIDE DEF T
<1>7. Remains(y, answers, T)
  BY <1>1, <1>6, OnlyOfDistinct
<1>8. ASSUME NEW e \in Entry
      PROVE  /\ old(e) \in Entry /\ old(e).key = e.key /\ old(e).value = e.value
             /\ IsFresh(old(e)) => e.age + 1 < N /\ IsFresh(e) /\ old(e) = [e EXCEPT !.age = @ + 1]
  <2>1. PICK n \in 0..N : n = e.age
    BY <1>2, AgesAreNumbers
  <2>2. n + 1 \in 0..N \/ n = N
    BY <1>2, <2>1
  <2>3. e.key \in Calls /\ e.value \in Results /\ N \in 0..N
    BY <1>2, AgesAreNumbers
  <2>4. CASE n < N
    <3>1. n + 1 \in 0..N
      BY <2>2, <2>4
    <3>2. old(e) = [e EXCEPT !.age = n + 1] /\ IsFresh(e)
      BY <1>2, <2>1, <2>4 DEF IsFresh
    <3>3. [e EXCEPT !.age = n + 1] \in Entry
      BY <1>2, <3>1 DEF Entry
    <3>4. [e EXCEPT !.age = n + 1] = [e EXCEPT !.age = @ + 1]
      BY <2>1
    <3>5. [e EXCEPT !.age = n + 1].age = n + 1
      BY DEF Entry
    <3>6. [e EXCEPT !.age = n + 1].key = e.key /\ [e EXCEPT !.age = n + 1].value = e.value
      BY DEF Entry
    <3> QED
      BY <1>2, <2>1, <3>2, <3>3, <3>4, <3>5, <3>6 DEF IsFresh
  <2>5. CASE n = N
    <3>1. old(e) = [e EXCEPT !.age = N]
      BY <1>2, <2>1, <2>5
    <3>2. [e EXCEPT !.age = N] \in Entry /\ [e EXCEPT !.age = N].age = N
      BY <1>2, <2>3 DEF Entry
    <3>3. [e EXCEPT !.age = N].key = e.key /\ [e EXCEPT !.age = N].value = e.value
      BY DEF Entry
    <3> QED
      BY <1>2, <3>1, <3>2, <3>3 DEF IsFresh
  <2> QED
    BY <2>2, <2>4, <2>5
<1>9. PICK s : s = entries'
  OBVIOUS
<1>10. PICK a : a = answers'
  OBVIOUS
<1>11. DOMAIN s = DOMAIN entries /\ \A i \in DOMAIN s : s[i] = old(entries[i])
  BY <1>3, <1>9
<1>12. DOMAIN a = DOMAIN y /\ \A i \in DOMAIN a : a[i] = [y[i] EXCEPT !.age = @ + 1]
  BY <1>3, <1>10
<1> HIDE DEF old
<1>13. s \in Seq(Entry) /\ Len(s) = Len(entries)
  <2>1. \A i \in DOMAIN entries : old(entries[i]) \in Entry
    BY <1>6, <1>8
  <2> QED
    BY <1>3, <1>6, <1>9, <2>1
<1>14. ASSUME NEW e \in T
       PROVE  LET f == [e EXCEPT !.age = @ + 1] IN
              f \in Entry /\ f.key = e.key /\ f.age < TTL
  <2>1. PICK n \in 0..N : n = e.age /\ n + 1 < N
    BY <1>2, <1>4, AgesAreNumbers
  <2>2. n + 1 \in 0..N
    BY <2>1
  <2>3. e \in Entry /\ [e EXCEPT !.age = @ + 1] = [e EXCEPT !.age = n + 1]
    BY <1>4, <2>1
  <2>4. [e EXCEPT !.age = n + 1] \in Entry /\ [e EXCEPT !.age = n + 1].age = n + 1
    BY <1>2, <2>2, <2>3 DEF Entry
  <2>5. [e EXCEPT !.age = n + 1].key = e.key
    BY <2>3 DEF Entry
  <2> QED
    BY <1>2, <2>1, <2>3, <2>4, <2>5
<1>15. \A i \in DOMAIN a : y[i] \in T /\ a[i] \in Entry /\ a[i].key = y[i].key /\ a[i].age < TTL
  <2> SUFFICES ASSUME NEW i \in DOMAIN a
               PROVE  y[i] \in T /\ a[i] \in Entry /\ a[i].key = y[i].key /\ a[i].age < TTL
    OBVIOUS
  <2>1. y[i] \in T /\ a[i] = [y[i] EXCEPT !.age = @ + 1]
    BY <1>7, <1>12 DEF Remains
  <2> QED
    BY <1>14, <2>1
<1>16. a \in Seq(Entry)
  <2>1. y \in Seq(Entry)
    BY <1>7 DEF Remains
  <2>2. \A i \in DOMAIN y : [y[i] EXCEPT !.age = @ + 1] \in Entry
    BY <1>7, <1>14 DEF Remains
  <2> QED
    BY <1>3, <1>10, <2>1, <2>2
<1>17. \A i \in DOMAIN s : /\ entries[i] \in Entry /\ s[i].key = entries[i].key
                           /\ IsFresh(s[i]) => /\ IsFresh(entries[i]) /\ entries[i] \in T
                                               /\ s[i] = [entries[i] EXCEPT !.age = @ + 1]
  BY <1>5, <1>6, <1>8, <1>11
<1>18. Distinct(s) /\ Distinct(a)
  BY <1>6, <1>7, <1>11, <1>12, <1>15, <1>17 DEF Distinct, Remains
<1>19. InStep(s, a)
  <2>1. ASSUME NEW i \in DOMAIN s, IsFresh(s[i]) PROVE \E m \in DOMAIN a : a[m] = s[i]
    <3>1. PICK n \in DOMAIN answers : answers[n] = entries[i]
      BY <1>11, <1>17, <2>1 DEF CacheSound, InStep
    <3>2. PICK m \in DOMAIN y : y[m] = entries[i]
      BY <1>7, <1>17, <2>1, <3>1 DEF Remains
    <3> QED
      BY <1>12, <1>17, <2>1, <3>2
  <2>2. ASSUME NEW i \in DOMAIN s, NEW j \in DOMAIN s, NEW m \in DOMAIN a, NEW n \in DOMAIN a,
               IsFresh(s[i]), IsFresh(s[j]), a[m].key = s[i].key, a[n].key = s[j].key, i < j
        PROVE  m < n
    <3>1. PICK v \in DOMAIN answers, w \in DOMAIN answers : answers[v] = y[m] /\ answers[w] = y[n]
      BY <1>7, <1>12 DEF Remains
    <3>2. answers[v].key = entries[i].key /\ answers[w].key = entries[j].key
      BY <1>15, <1>17, <2>2, <3>1
    <3>3. v < w
      BY <1>11, <1>17, <2>2, <3>2 DEF CacheSound, InStep
    <3> QED
      BY <1>7, <1>12, <3>1, <3>3 DEF Remains
  <2> QED
    BY <2>1, <2>2 DEF InStep
<1> QED
  BY <1>6, <1>9, <1>10, <1>13, <1>15, <1>16, <1>18, <1>19, CacheSoundAfter

\* What the whole client needs, with the call that a running step is for.
ClientSound ==
  /\ CacheSound
  /\ inFlight \in Calls \cup {None}
  /\ running # 0 => inFlight = Plan[running]

LEMMA CacheFrame ==
  ASSUME CacheSound, UNCHANGED <<entries, answers>>
  PROVE  CacheSound'
  BY DEF CacheSound, CacheTypeOK, Distinct, InStep, IsFresh

\* A cache without entries, and without answers or with those it had.
LEMMA EmptyCacheSound ==
  ASSUME entries' = <<>>, answers' = <<>> \/ (CacheSound /\ answers' = answers)
  PROVE  CacheSound'
<1>0. <<>> \in Seq(Entry) /\ Len(<<>>) = 0 /\ DOMAIN <<>> = {}
  OBVIOUS
<1>1. PICK s \in Seq(Entry) : s = <<>> /\ Len(s) = 0 /\ DOMAIN s = {}
  BY <1>0
<1>2. Distinct(s) /\ (\A a : InStep(s, a)) /\ Len(s) <= MaxEntries
  BY <1>1, AgesAreNumbers DEF Distinct, InStep
<1>3. CASE answers' = <<>>
  BY <1>1, <1>2, <1>3, CacheSoundAfter
<1>4. CASE CacheSound /\ answers' = answers
  BY <1>1, <1>2, <1>4, CacheSoundTypes, CacheSoundAfter
<1> QED
  BY <1>3, <1>4

LEMMA InvalidateKeepsCache ==
  ASSUME CacheSound, NEW k, Invalidate(k), UNCHANGED answers
  PROVE  CacheSound'
<1>1. PICK s \in Seq(Entry) : s = Without(entries, k) /\ Distinct(s) /\ Len(s) <= Len(entries)
  BY CacheSoundTypes, WithoutProperties
<1>2. InStep(s, answers)
  BY <1>1, CacheSoundTypes, WithoutInStep DEF CacheSound
<1>3. Len(s) <= MaxEntries
  BY <1>1, CacheSoundTypes, AgesAreNumbers
<1>4. entries' = s /\ answers' = answers
  BY <1>1 DEF Invalidate
<1> QED
  BY <1>1, <1>2, <1>3, <1>4, CacheSoundTypes, CacheSoundAfter

\* What a call does before it gets to a transport.
LEMMA CallKeepsCache ==
  ASSUME CacheSound, NEW k \in Calls, Serve(k) \/ Raise(k) \/ Ask(k)
  PROVE  CacheSound' /\ inFlight = None
<1>1. CASE Serve(k)
  BY <1>1, GetKeepsCache DEF Serve, IsServed
<1>2. CASE Miss(k)
  BY <1>2, GetKeepsCache DEF Miss
<1>3. CASE Raise(k)
  BY <1>2, <1>3, CacheFrame DEF Raise, Miss
<1>4. CASE Ask(k)
  BY <1>2, <1>4 DEF Ask, Miss
<1> QED
  BY <1>1, <1>3, <1>4

LEMMA ClientSoundInit == Init => ClientSound
<1> SUFFICES ASSUME Init PROVE ClientSound
  OBVIOUS
<1>1. entries = <<>> /\ answers = <<>> /\ inFlight = None /\ running = 0
  BY DEF Init, ClientInit
<1>2. CacheSound
  BY <1>1, AgesAreNumbers DEF CacheSound, CacheTypeOK, Distinct, InStep
<1> QED
  BY <1>1, <1>2 DEF ClientSound

LEMMA ClientSoundStep == RunInv /\ ClientSound /\ [Next]_vars => ClientSound'
<1> SUFFICES ASSUME RunInv, ClientSound, [Next]_vars PROVE ClientSound'
  OBVIOUS
<1>t. /\ CacheSound /\ inFlight \in Calls \cup {None}
      /\ running # 0 => inFlight = Plan[running] /\ inFlight # None
  BY DEF ClientSound, RunInv, RunTypeOK
<1>1. ASSUME NEW k \in Calls, Serve(k) \/ Raise(k) \/ Ask(k)
      PROVE  /\ CacheSound' /\ inFlight' \in Calls \cup {None} /\ running = 0
             /\ Ask(k) => inFlight' = k
  BY <1>t, <1>1, CallKeepsCache DEF Serve, Raise, Ask
<1>2. ASSUME Step PROVE ClientSound'
  <2>1. PICK n \in Steps : n = Head(pending)
    <3>1. pending \in Seq(Steps) /\ pending # <<>>
      BY <1>2 DEF Step, RunInv, RunTypeOK
    <3> QED
      BY <3>1
  <2>2. PICK k \in Calls : k = Plan[n]
    BY PlanAssumption DEF Steps
  <2>3. /\ Serve(k) \/ Raise(k) \/ Ask(k)
        /\ running' = running \/ (Ask(k) /\ running' = n)
    BY <1>2, <2>1, <2>2 DEF Step
  <2> QED
    BY <1>1, <2>2, <2>3 DEF ClientSound
<1>3. ASSUME NEW k \in Calls, Call(k) PROVE ClientSound'
  <2>1. (Serve(k) \/ Raise(k) \/ Ask(k)) /\ running' = running
    BY <1>3 DEF Call, runVars
  <2> QED
    BY <1>1, <2>1 DEF ClientSound
<1>4. ASSUME NEW v \in Results, Answered(v) PROVE ClientSound'
  <2>1. inFlight \in Calls /\ inFlight' = None /\ running' = 0
    BY <1>t, <1>4 DEF Answered, Answer
  <2>2. CacheSound'
    BY <1>t, <1>4, <2>1, SetKeepsCache DEF Answered, Answer
  <2> QED
    BY <2>1, <2>2 DEF ClientSound
<1>5. ASSUME Failed PROVE ClientSound'
  BY <1>t, <1>5, CacheFrame DEF Failed, Fail, ClientSound
<1>6. ASSUME Crash PROVE ClientSound'
  BY <1>6, EmptyCacheSound DEF Crash, Forget, ClientSound
<1>7. ASSUME Tick /\ UNCHANGED <<runVars, saved>> PROVE ClientSound'
  <2>1. CacheSound'
    BY <1>t, <1>7, TickKeepsCache
  <2>2. inFlight' = inFlight /\ running' = running
    BY <1>7 DEF Tick, runVars
  <2> QED
    BY <1>t, <2>1, <2>2 DEF ClientSound
<1>8. ASSUME Manage PROVE ClientSound'
  <2>1. inFlight' = inFlight /\ running' = running /\ answers' = answers
    BY <1>8 DEF Manage, runVars
  <2>2. \/ entries' = entries
        \/ \E k \in Calls : Invalidate(k)
        \/ Clear
    BY <1>8 DEF Manage
  <2>3. CacheSound'
    BY <1>t, <2>1, <2>2, CacheFrame, InvalidateKeepsCache, EmptyCacheSound DEF Clear
  <2> QED
    BY <1>t, <2>1, <2>3 DEF ClientSound
<1>9. ASSUME LoadPlan \/ Checkpoint \/ Restore \/ UNCHANGED vars PROVE ClientSound'
  <2>1. UNCHANGED <<entries, answers, inFlight, running>>
    BY <1>9 DEF LoadPlan, Checkpoint, Restore, vars, clientVars, runVars
  <2> QED
    BY <1>t, <2>1, CacheFrame DEF ClientSound
<1> QED
  BY <1>2, <1>3, <1>4, <1>5, <1>6, <1>7, <1>8, <1>9 DEF Next

\* The cache never holds more entries than it may have nor two for one key,
\* a step that runs is the call in flight, and everything else has its type.
THEOREM AgentRunTypes == Spec => []TypeOK
<1>1. NoStaleEntry /\ RunInv /\ ClientSound => TypeOK
  BY DEF NoStaleEntry, RunInv, RunTypeOK, ClientSound, CacheSound, TypeOK, ClientTypeOK
<1>2. Init => NoStaleEntry
  BY EmptyIsNotStale DEF Init, ClientInit
<1> QED
  BY <1>1, <1>2, NoStaleStep, RunInvInit, RunInvStep, ClientSoundInit, ClientSoundStep, PTL
  DEF Spec

\* Whatever is evicted, invalidated, cleared or expires, and in whatever
\* order calls were made, a call is served with the last answer to it.
THEOREM ServedTheLastAnswer == Spec => ServesTheLastAnswer
<1>1. ClientSound => [\A k \in Calls : Serve(k) =>
                        \E i \in DOMAIN answers :
                          answers[i].key = k /\ answers[i].value = EntryOf(k).value]_clientVars
  <2> SUFFICES ASSUME ClientSound, NEW k \in Calls, Serve(k)
               PROVE  \E i \in DOMAIN answers :
                        answers[i].key = k /\ answers[i].value = EntryOf(k).value
    OBVIOUS
  <2>1. CacheSound /\ IsHit(k)
    BY DEF ClientSound, Serve, IsServed
  <2> QED
    BY <2>1, HitIsAnswered
<1> QED
  BY <1>1, RunInvInit, RunInvStep, ClientSoundInit, ClientSoundStep, PTL
  DEF Spec, ServesTheLastAnswer

\* The keys that can be served are those of the fresh entries, and the cache
\* is full of these if it holds no other.
LEMMA FreshKeysOf ==
  ASSUME CacheSound, NEW s, s = EvictExpired
  PROVE  /\ \A k \in FreshKeys : \E i \in DOMAIN s : s[i].key = k
         /\ \A i \in DOMAIN s : s[i].key \in FreshKeys
         /\ Cardinality(FreshKeys) = Len(s)
<1>1. /\ s \in Seq(Entry) /\ Distinct(s)
      /\ \A i \in DOMAIN s : IsFresh(s[i]) /\ \E m \in DOMAIN entries : entries[m] = s[i]
      /\ \A m \in DOMAIN entries : IsFresh(entries[m]) => \E i \in DOMAIN s : s[i] = entries[m]
  BY EvictExpiredProperties
<1>2. ASSUME NEW k \in FreshKeys PROVE \E i \in DOMAIN s : s[i].key = k
  <2>1. k \in Keys /\ IsFresh(EntryOf(k))
    BY <1>2 DEF FreshKeys
  <2>2. PICK m \in DOMAIN entries : entries[m] = EntryOf(k) /\ entries[m].key = k
    BY <2>1, EntryOfKey
  <2> QED
    BY <1>1, <2>1, <2>2
<1>3. ASSUME NEW i \in DOMAIN s PROVE s[i].key \in FreshKeys
  <2>1. PICK m \in DOMAIN entries : entries[m] = s[i]
    BY <1>1, <1>3
  <2>2. s[i].key \in Keys
    BY <2>1 DEF Keys
  <2>3. PICK n \in DOMAIN entries :
          /\ entries[n] = EntryOf(s[i].key)
          /\ \A j \in DOMAIN entries : entries[j].key = s[i].key => j = n
    BY <2>2, EntryOfKey
  <2>4. EntryOf(s[i].key) = s[i]
    BY <2>1, <2>3
  <2> QED
    BY <1>1, <1>3, <2>2, <2>4 DEF FreshKeys
<1>4. PICK l \in Nat : l = Len(s) /\ DOMAIN s = 1..l
  BY <1>1
<1> DEFINE f == [i \in 1..l |-> s[i].key]
<1>5. f \in Bijection(1..l, FreshKeys)
  <2>1. f \in [1..l -> FreshKeys]
    BY <1>3, <1>4
  <2>2. \A i, j \in 1..l : f[i] = f[j] => i = j
    BY <1>1, <1>4 DEF Distinct
  <2>3. \A k \in FreshKeys : \E i \in 1..l : f[i] = k
    BY <1>2, <1>4
  <2> HIDE DEF f
  <2>4. f \in Injection(1..l, FreshKeys)
    BY <2>1, <2>2 DEF Injection, IsInjective
  <2>5. f \in Surjection(1..l, FreshKeys)
    BY <2>1, <2>3 DEF Surjection
  <2> QED
    BY <2>4, <2>5 DEF Bijection
<1>6. Cardinality(FreshKeys) = l
  BY <1>5, FS_CountingElements DEF ExistsBijection
<1> QED
  BY <1>2, <1>3, <1>4, <1>6

\* An answer that pushes something fresh out of the cache has found it full,
\* and pushes its first fresh entry out.
LEMMA AnswerEvictsColdest ==
  ASSUME CacheSound, inFlight \in Calls \cup {None}, NEW v \in Results, Answer(v),
         NEW k \in FreshKeys \ {entries'[i].key : i \in DOMAIN entries'}
  PROVE  /\ inFlight \notin FreshKeys
         /\ Cardinality(FreshKeys) = MaxEntries
         /\ \A j \in FreshKeys \ {k} : UsedBefore(k, j)
<1>1. PICK s : s = EvictExpired
  OBVIOUS
<1>2. /\ s \in Seq(Entry) /\ Distinct(s) /\ InStep(s, answers) /\ Len(s) <= MaxEntries
      /\ \A i \in DOMAIN s : IsFresh(s[i])
      /\ MaxEntries \in Nat \ {0} /\ 0 < TTL
  BY <1>1, EvictExpiredProperties, AgesAreNumbers
<1>3. PICK c \in Calls : c = inFlight
  BY DEF Answer
<1>4. PICK l \in Nat : l = Len(s) /\ DOMAIN s = 1..l
  BY <1>2
<1>5. PICK e \in Entry : e = [key |-> c, value |-> v, age |-> 0]
  <2>1. 0 \in 0..TTL
    BY AgesAreNumbers
  <2> QED
    BY <2>1 DEF Entry
<1>6. /\ \A j \in FreshKeys : \E i \in 1..l : s[i].key = j
      /\ \A i \in 1..l : s[i].key \in FreshKeys
      /\ Cardinality(FreshKeys) = l
  BY <1>1, <1>4, FreshKeysOf
<1>7. PICK at \in 1..l : s[at].key = k
  BY <1>6
<1>8. ASSUME NEW r \in Seq(Entry), entries' = Append(r, e)
      PROVE  c # k /\ \A i \in DOMAIN r : r[i].key # k
  <2>1. PICK u : u = entries'
    OBVIOUS
  <2>2. PICK n \in Nat : n = Len(r) /\ DOMAIN r = 1..n
    OBVIOUS
  <2>3. DOMAIN u = 1..(n + 1) /\ u[n + 1] = e /\ \A i \in 1..n : u[i] = r[i]
    BY <1>8, <2>1, <2>2, AppendProperties
  <2>4. \A i \in 1..(n + 1) : u[i].key # k
    BY <2>1, <2>3
  <2>5. n + 1 \in 1..(n + 1) /\ \A i \in 1..n : i \in 1..(n + 1)
    OBVIOUS
  <2>6. e.key = c
    BY <1>5
  <2> QED
    BY <2>2, <2>3, <2>4, <2>5, <2>6
<1>9. ~((\E i \in DOMAIN s : s[i].key = c) \/ ~IsFull(s))
  <2> SUFFICES ASSUME (\E i \in DOMAIN s : s[i].key = c) \/ ~IsFull(s) PROVE FALSE
    OBVIOUS
  <2>1. entries' = Append(Without(s, c), e)
    BY <1>1, <1>3, <1>5 DEF Answer, Set
  <2>2. Without(s, c) \in Seq(Entry)
    BY <1>2, WithoutProperties
  <2>3. c # k /\ \A i \in DOMAIN Without(s, c) : Without(s, c)[i].key # k
    BY <1>8, <2>1, <2>2
  <2>4. \A i \in DOMAIN s : s[i].key # c => \E m \in DOMAIN Without(s, c) : Without(s, c)[m] = s[i]
    BY <1>2, WithoutProperties
  <2> QED
    BY <1>4, <1>7, <2>3, <2>4
<1>10. l = MaxEntries
  <2>1. Len(s) >= MaxEntries
    BY <1>9 DEF IsFull
  <2> QED
    BY <1>2, <1>4, <2>1
<1>11. at = 1
  <2>1. entries' = Append(Tail(s), e)
    BY <1>1, <1>3, <1>5, <1>9 DEF Answer, Set
  <2>2. s # <<>>
    BY <1>2, <1>4, <1>10
  <2>3. PICK t \in Seq(Entry) : t = Tail(s) /\ Len(t) = l - 1
    BY <1>2, <1>4, <2>2, TailInStep
  <2>4. \A i \in DOMAIN t : t[i] = s[i + 1] /\ t[i].key # k
    BY <1>2, <1>8, <2>1, <2>2, <2>3, TailInStep
  <2>5. PICK n \in Nat : n = l - 1 /\ DOMAIN t = 1..n
    BY <1>2, <1>10, <2>3
  <2> SUFFICES ASSUME at # 1 PROVE FALSE
    OBVIOUS
  <2>6. PICK i \in 1..n : i + 1 = at
    <3>1. at - 1 \in 1..n /\ at - 1 + 1 = at
      BY <2>5
    <3> QED
      BY <3>1
  <2> QED
    BY <1>7, <2>4, <2>5, <2>6
<1>12. c \notin FreshKeys
  BY <1>4, <1>6, <1>9
<1>13. ASSUME NEW j \in FreshKeys \ {k} PROVE UsedBefore(k, j)
  <2>1. PICK i \in 1..l : s[i].key = j
    BY <1>6, <1>13
  <2>2. at < i
    BY <1>7, <1>11, <2>1
  <2>3. PICK m \in DOMAIN answers, n \in DOMAIN answers : answers[m] = s[at] /\ answers[n] = s[i]
    BY <1>2, <1>4, <1>7, <2>1 DEF InStep
  <2>4. m < n
    BY <1>2, <1>4, <1>7, <2>1, <2>2, <2>3 DEF InStep
  <2> QED
    BY <1>7, <2>1, <2>3, <2>4 DEF UsedBefore
<1> QED
  BY <1>3, <1>6, <1>10, <1>12, <1>13

\* An answer pushes a result that could still be served out of the cache only
\* when the cache is full of such results, and then the coldest one.
THEOREM ColdestEvicted == Spec => EvictsColdest
<1>1. ClientSound => [(\E v \in Results : Answer(v)) =>
                        \A k \in FreshKeys \ {entries'[i].key : i \in DOMAIN entries'} :
                          /\ inFlight \notin FreshKeys
                          /\ Cardinality(FreshKeys) = MaxEntries
                          /\ \A j \in FreshKeys \ {k} : UsedBefore(k, j)]_clientVars
  BY AnswerEvictsColdest DEF ClientSound
<1> QED
  BY <1>1, RunInvInit, RunInvStep, ClientSoundInit, ClientSoundStep, PTL
  DEF Spec, EvictsColdest
=============================================================================
