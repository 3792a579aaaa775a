---------------------------- MODULE Orchestrator ----------------------------
(***************************************************************************)
(* Resumable runs of a plan (agent/orchestrator.py, agent/checkpoint.py)   *)
(* through the client, in a process that may crash and be started again    *)
(* from a saved checkpoint.                                                *)
(*                                                                         *)
(* A step is known by its place in the plan.  The same process registers   *)
(* providers and makes calls of its own in between.                        *)
(***************************************************************************)
EXTENDS UtcpClient

CONSTANT
  Plan   \* the plan: a sequence of calls

ASSUME PlanAssumption == Plan \in Seq(Calls)

Steps == DOMAIN Plan

VARIABLES
  completed,   \* _completed: the steps done, in order
  pending,     \* _pending: the steps to do, in order
  running,     \* the step that the client is called for, 0 if there is none
  failed,      \* the steps whose call has raised in this run (history)
  saved        \* the checkpoint on disk, None before the first

runVars == <<completed, pending, running, failed>>
vars == <<clientVars, runVars, saved>>

Run == [completed : Seq(Steps), pending : Seq(Steps), failed : SUBSET Steps]

TypeOK ==
  /\ ClientTypeOK
  /\ completed \in Seq(Steps)
  /\ pending \in Seq(Steps)
  /\ running \in Steps \cup {0}
  /\ failed \in SUBSET Steps
  /\ saved \in Run \cup {None}
  /\ running # 0 => inFlight = Plan[running]

Init ==
  /\ ClientInit
  /\ completed = <<>>
  /\ pending = <<>>
  /\ running = 0
  /\ failed = {}
  /\ saved = None
-----------------------------------------------------------------------------
(* The run *)

LoadPlan ==
  /\ inFlight = None
  /\ completed' = <<>>
  /\ pending' = [i \in Steps |-> i]
  /\ failed' = {}
  /\ UNCHANGED <<clientVars, running, saved>>

Rest_Unpopped == pending

\* pop(0): the first pending step is taken off before its call is made.
Rest == Tail(pending)

\* step: the call is served by the cache, raises, or goes to a transport.
\* run_remaining is a row of steps, up to one that raises.
Step ==
  /\ pending # <<>>
  /\ pending' = Rest
  /\ LET s == Head(pending) IN
       \/ /\ Serve(Plan[s])
          /\ completed' = Append(completed, s)
          /\ UNCHANGED <<running, failed>>
       \/ /\ Raise(Plan[s])
          /\ failed' = failed \cup {s}
          /\ UNCHANGED <<completed, running>>
       \/ /\ Ask(Plan[s])
          /\ running' = s
          /\ UNCHANGED <<completed, failed>>
  /\ UNCHANGED saved

\* A call that is not a step of the plan, alone or in call_chain.
Call(k) ==
  /\ Serve(k) \/ Raise(k) \/ Ask(k)
  /\ UNCHANGED <<runVars, saved>>

Answered(v) ==
  /\ Answer(v)
  /\ completed' = IF running = 0 THEN completed ELSE Append(completed, running)
  /\ running' = 0
  /\ UNCHANGED <<pending, failed, saved>>

\* The exception goes through step, which has taken the step off already.
Failed ==
  /\ Fail
  /\ failed' = failed \cup ({running} \ {0})
  /\ running' = 0
  /\ UNCHANGED <<completed, pending, saved>>
-----------------------------------------------------------------------------
(* Checkpoints and crashes *)

Snapshot_WithoutPending == [completed |-> completed, pending |-> <<>>, failed |-> failed]

\* checkpoint and to_dict, with what history goes along with the run.
Snapshot == [completed |-> completed, pending |-> pending, failed |-> failed]

Checkpoint ==
  /\ inFlight = None
  /\ saved' = Snapshot
  /\ UNCHANGED <<clientVars, runVars>>

Restored_OnTop == completed \o saved.completed

\* from_dict and restore replace what the orchestrator has.
Restored == saved.completed

Restore ==
  /\ inFlight = None
  /\ saved # None
  /\ completed' = Restored
  /\ pending' = saved.pending
  /\ failed' = saved.failed
  /\ UNCHANGED <<clientVars, running, saved>>

\* The process ends, at any time; the next one begins with nothing.
Crash ==
  /\ Forget
  /\ completed' = <<>>
  /\ pending' = <<>>
  /\ running' = 0
  /\ failed' = {}
  /\ UNCHANGED saved
-----------------------------------------------------------------------------
\* What the program does with the client's repository and cache.
Manage ==
  /\ inFlight = None
  /\ \/ /\ \E m \in Manuals, replace \in BOOLEAN : Register(m, replace)
        /\ UNCHANGED entries
     \/ \E p \in Providers : Deregister(p) /\ UNCHANGED entries
     \/ \E k \in Calls : Invalidate(k) /\ UNCHANGED repositoryVars
     \/ Clear /\ UNCHANGED repositoryVars
  /\ UNCHANGED <<inFlight, answers, runVars, saved>>

Next ==
  \/ LoadPlan
  \/ Step
  \/ \E k \in Calls : Call(k)
  \/ \E v \in Results : Answered(v)
  \/ Failed
  \/ Checkpoint
  \/ Restore
  \/ Crash
  \/ Manage
  \/ Tick /\ UNCHANGED <<runVars, saved>>

Spec == Init /\ [][Next]_vars
-----------------------------------------------------------------------------
(* Properties *)

Places(s) == {s[i] : i \in DOMAIN s}

\* What the run r has done and what it has still to do, in that order.
History(r, now) == r.completed \o (IF now = 0 THEN <<>> ELSE <<now>>) \o r.pending

Increasing(s) == \A i, j \in DOMAIN s : i < j => s[i] < s[j]

\* The steps of a run are done in the order of the plan and none of them
\* twice, through failing calls, checkpoints, crashes and resumptions; so a
\* step that a checkpoint has as completed is not run again from it.
InOrder ==
  /\ Increasing(History(Snapshot, running))
  /\ saved # None => Increasing(History(saved, 0))

\* A step of the plan can be lost by no other thing than an exception from
\* its own call: a run that was interrupted between any two steps and resumed
\* from its checkpoint has every other step either done or still to do.
OnlyFailuresLost ==
  LET all(r, now) == Places(History(r, now)) \cup r.failed IN
    /\ all(Snapshot, running) \in {{}, Steps}
    /\ saved # None => all(saved, 0) \in {{}, Steps}
-----------------------------------------------------------------------------
(* Claims of the source that the code does not keep *)

\* orchestrator.py:4-6 and checkpoint.py:10-12: the run tracks "which steps
\* have completed and which remain", "so remaining work is not lost".  A step
\* of the plan is completed, running or pending.
NothingLost == Places(History(Snapshot, running)) \in {{}, Steps}
=============================================================================
