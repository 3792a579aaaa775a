------------------------ MODULE AsyncConnectionPool ------------------------
(***************************************************************************)
(* The asynchronous connection pool (transports/async_pool.py) and the     *)
(* asyncio lock and condition it is built on.                              *)
(*                                                                         *)
(* A task runs until it awaits something that is not ready.  Inside the    *)
(* pool that is the lock, the condition, or the connection factory, which  *)
(* is awaited with the lock held: every action below is one such run.      *)
(*   - asyncio.Lock is first come first served: a task takes it at once if *)
(*     it is free and nobody queues for it, and queues for it otherwise.   *)
(*   - Condition.wait releases the lock and queues in condQ; notify wakes  *)
(*     the first of condQ, which then has to reach the lock like any other *)
(*     task, and goes on inside acquire where it left off.                 *)
(*   - asyncio.wait_for runs acquire in a task of its own and cancels it   *)
(*     when the time is up.  A task cancelled in Condition.wait takes the  *)
(*     lock again before the cancellation goes on.                         *)
(*                                                                         *)
(* A connection is its host and an id; ids of closed connections are used  *)
(* again, as nothing remembers them.  idle_seq is only ever compared: it   *)
(* is kept as the order "released earlier than" on the idle connections.   *)
(* Tasks release or discard only what they hold, once.                     *)
(*                                                                         *)
(* Operators whose names end in _ and a word are the same-named operators  *)
(* with a mistake in them, for the mutant runs; no definition uses them.   *)
(***************************************************************************)
EXTENDS Integers, Sequences, FiniteSets

CONSTANTS
  Tasks,            \* the tasks that use the pool
  Hosts,            \* host names
  PerHost,          \* per_host: ceiling on the connections to one host
  MaxTotal,         \* max_total: ceiling on the connections of the pool
  Nothing,          \* neither a host nor a connection
  Timed,            \* the tasks that pass a timeout to acquire
  MayCancel,        \* the tasks that others may cancel in release and discard
  FactoryMayFail,   \* may the connection factory raise?
  Repeats           \* do the tasks acquire again, for ever?

ASSUME AsyncPoolAssumption ==
  /\ PerHost \in Nat \ {0}
  /\ MaxTotal \in Nat /\ MaxTotal >= PerHost
  /\ Timed \subseteq Tasks
  /\ MayCancel \subseteq Tasks
  /\ FactoryMayFail \in BOOLEAN
  /\ Repeats \in BOOLEAN

\* One id more than connections that may be open: one is always free.
Connection == [host : Hosts, conn_id : 1..MaxTotal + 1]

ASSUME NothingAssumption == Nothing \notin Hosts \cup Connection

VARIABLES
  live,        \* live[h]: the counter _HostState.live
  totalLive,   \* the counter _total_live
  idle,        \* the idle connections of all hosts
  earlier,     \* pairs of idle connections, the first released earlier
  lockQ,       \* the tasks queueing for the lock
  condQ,       \* the tasks in Condition.wait that were not notified
  pc,          \* where each task is
  want,        \* want[t]: the host t last asked for
  conn,        \* conn[t]: the connection t holds, or Nothing
  cancelled    \* the tasks to be cancelled once they have the lock again

poolVars == <<live, totalLive, idle, earlier>>
vars == <<live, totalLive, idle, earlier, lockQ, condQ, pc, want, conn, cancelled>>

\* idle: outside the pool, without a connection    holding: with one
\* starting: the task of wait_for has not run      queued: for the lock
\* waiting: in condQ   woken: notified or cancelled there, not yet run
\* requeued: for the lock, to leave Condition.wait
\* opening: awaits the factory and has the lock
\* returning, closing: queued for the lock in release, in discard
\* done: used a connection or failed to get one, and asks for no other
\* gone: cancelled in release or discard, which has done nothing
Places == {"idle", "starting", "queued", "waiting", "woken", "requeued",
           "opening", "holding", "returning", "closing", "done", "gone"}

TypeOK ==
  /\ live \in [Hosts -> 0..PerHost]
  /\ totalLive \in 0..MaxTotal
  /\ idle \in SUBSET Connection
  /\ earlier \in SUBSET (idle \X idle)
  /\ lockQ \in Seq(Tasks)
  /\ condQ \in Seq(Tasks)
  /\ pc \in [Tasks -> Places]
  /\ want \in [Tasks -> Hosts \cup {Nothing}]
  /\ conn \in [Tasks -> Connection \cup {Nothing}]
  /\ cancelled \in SUBSET Tasks

Init ==
  /\ live = [h \in Hosts |-> 0]
  /\ totalLive = 0
  /\ idle = {}
  /\ earlier = {}
  /\ lockQ = <<>>
  /\ condQ = <<>>
  /\ pc = [t \in Tasks |-> "idle"]
  /\ want = [t \in Tasks |-> Nothing]
  /\ conn = [t \in Tasks |-> Nothing]
  /\ cancelled = {}

Lent == {conn[t] : t \in Tasks} \ {Nothing}

OpenConns == idle \cup Lent

OpenTo(h) == {k \in OpenConns : k.host = h}
-----------------------------------------------------------------------------
(* The lock, the condition and the queues *)

Locked_NotByOpening == FALSE

Locked == \E t \in Tasks : pc[t] = "opening"

\* The lock can be taken without waiting for it.
LockFree == ~Locked /\ lockQ = <<>>

Without_Forgotten(q, t) == q

\* The queue q without t, if t is in it.
Without(q, t) ==
  IF \E i \in DOMAIN q : q[i] = t
  THEN LET k == CHOOSE i \in DOMAIN q : q[i] = t
       IN SubSeq(q, 1, k - 1) \o SubSeq(q, k + 1, Len(q))
  ELSE q

\* What a task becomes when its call is over and it has no connection.
Over == IF Repeats THEN "idle" ELSE "done"

\* The places of all tasks after t has gone to p and, if the condition is
\* notified, the first task in it has been woken.
AfterNotify(t, p) ==
  [u \in Tasks |-> IF u = t THEN p
                   ELSE IF condQ # <<>> /\ u = Head(condQ) THEN "woken" ELSE pc[u]]

\* t goes to p and notifies nobody.
Goto(t, p) == pc' = [pc EXCEPT ![t] = p] /\ UNCHANGED condQ

Notify_Nobody(t, p) == Goto(t, p)

\* Condition.notify by t, which goes on to p.
Notify(t, p) ==
  /\ condQ' = IF condQ = <<>> THEN <<>> ELSE Tail(condQ)
  /\ pc' = AfterNotify(t, p)
-----------------------------------------------------------------------------
(* The runs of a task that has the lock *)

\* The connections with the extreme stamps: idle.pop() takes the last one
\* released to the host, _evict_one_idle the first one released of all.
LastIdleTo(h) ==
  {k \in idle : k.host = h /\ ~ \E j \in idle : j.host = h /\ <<k, j>> \in earlier}

OldestIdle == {k \in idle : ~ \E j \in idle : <<j, k>> \in earlier}

TakeOffIdle_Forgotten(K) == UNCHANGED <<idle, earlier>>

\* The connections K leave the idle lists.
TakeOffIdle(K) ==
  /\ idle' = idle \ K
  /\ earlier' = {p \in earlier : p[1] \notin K /\ p[2] \notin K}

AtPerHost_OffByOne(h) == live[h] > PerHost

AtPerHost(h) == live[h] >= PerHost

AtMaxTotal_OffByOne == totalLive > MaxTotal

AtMaxTotal == totalLive >= MaxTotal

\* _try_acquire_locked finds an idle connection to the host.
Reuse(t, h) ==
  \E k \in LastIdleTo(h) :
    /\ TakeOffIdle({k})
    /\ conn' = [conn EXCEPT ![t] = k]
    /\ Goto(t, "holding")
    /\ UNCHANGED <<live, totalLive>>

\* It finds no capacity: the task waits on the condition.
Wait(t, h) ==
  /\ LastIdleTo(h) = {}
  /\ AtPerHost(h) \/ (AtMaxTotal /\ idle = {})
  /\ condQ' = Append(condQ, t)
  /\ pc' = [pc EXCEPT ![t] = "waiting"]
  /\ UNCHANGED <<poolVars, conn>>

\* It finds room, evicting an idle connection at the global ceiling (counted
\* out of _total_live only), and the task awaits the factory.
BeginOpen(t, h) ==
  /\ LastIdleTo(h) = {}
  /\ ~AtPerHost(h)
  /\ \/ /\ ~AtMaxTotal
        /\ UNCHANGED poolVars
     \/ /\ AtMaxTotal
        /\ \E k \in OldestIdle : TakeOffIdle({k})
        /\ totalLive' = totalLive - 1
        /\ UNCHANGED live
  /\ Goto(t, "opening")
  /\ UNCHANGED conn

\* The cancellation that Condition.wait held back ends the call.
GiveUp(t) ==
  /\ Goto(t, Over)
  /\ cancelled' = cancelled \ {t}
  /\ UNCHANGED <<poolVars, conn>>

Try_IgnoresCancellation(t, h) ==
  (Reuse(t, h) \/ Wait(t, h) \/ BeginOpen(t, h)) /\ UNCHANGED cancelled

\* What acquire does with the lock, on the first try and on every later one.
Try(t, h) ==
  \/ t \in cancelled /\ GiveUp(t)
  \/ /\ t \notin cancelled
     /\ Reuse(t, h) \/ Wait(t, h) \/ BeginOpen(t, h)
     /\ UNCHANGED cancelled

\* release puts the connection on its idle list and wakes one waiter.
GiveBack(t) ==
  /\ idle' = idle \cup {conn[t]}
  /\ earlier' = earlier \cup {<<k, conn[t]>> : k \in idle}
  /\ conn' = [conn EXCEPT ![t] = Nothing]
  /\ Notify(t, Over)
  /\ UNCHANGED <<live, totalLive, cancelled>>

\* A closed connection to h is counted out.
CountOut(h) ==
  /\ live' = [live EXCEPT ![h] = @ - 1]
  /\ totalLive' = totalLive - 1

\* discard counts the connection out and wakes one waiter.
CloseConn(t) ==
  /\ CountOut(conn[t].host)
  /\ conn' = [conn EXCEPT ![t] = Nothing]
  /\ Notify(t, Over)
  /\ UNCHANGED <<idle, earlier, cancelled>>
-----------------------------------------------------------------------------
(* The runs of a task that needs the lock *)

\* t cannot have the lock yet and queues for it, as p says for what.
Queue(t, p) ==
  /\ ~LockFree
  /\ lockQ' = Append(lockQ, t)
  /\ Goto(t, p)
  /\ UNCHANGED <<poolVars, conn, cancelled>>

\* acquire(h): with a timeout it begins in a task of its own, later.
Acquire(t, h) ==
  /\ pc[t] = "idle"
  /\ want' = [want EXCEPT ![t] = h]
  /\ \/ /\ t \in Timed
        /\ Goto(t, "starting")
        /\ UNCHANGED <<poolVars, lockQ, conn, cancelled>>
     \/ t \notin Timed /\ LockFree /\ Try(t, h) /\ UNCHANGED lockQ
     \/ t \notin Timed /\ Queue(t, "queued")

\* The task made by wait_for runs for the first time.
Start(t) ==
  /\ pc[t] = "starting"
  /\ \/ LockFree /\ Try(t, want[t]) /\ UNCHANGED lockQ
     \/ Queue(t, "queued")
  /\ UNCHANGED want

\* A task woken in Condition.wait runs, and needs the lock to leave it.
Resume(t) ==
  /\ pc[t] = "woken"
  /\ \/ LockFree /\ Try(t, want[t]) /\ UNCHANGED lockQ
     \/ Queue(t, "requeued")
  /\ UNCHANGED want

Release(t) ==
  /\ pc[t] = "holding"
  /\ \/ LockFree /\ GiveBack(t) /\ UNCHANGED lockQ
     \/ Queue(t, "returning")
  /\ UNCHANGED want

Discard(t) ==
  /\ pc[t] = "holding"
  /\ \/ LockFree /\ CloseConn(t) /\ UNCHANGED lockQ
     \/ Queue(t, "closing")
  /\ UNCHANGED want

\* The first task in the queue gets the lock and does what it came for.
Grant(t) ==
  /\ ~Locked
  /\ lockQ # <<>> /\ t = Head(lockQ)
  /\ lockQ' = Tail(lockQ)
  /\ \/ pc[t] \in {"queued", "requeued"} /\ Try(t, want[t])
     \/ pc[t] = "returning" /\ GiveBack(t)
     \/ pc[t] = "closing" /\ CloseConn(t)
  /\ UNCHANGED want
-----------------------------------------------------------------------------
(* The factory and the timeouts *)

\* The factory answers: the connection is counted and handed out.
Opened(t) ==
  /\ pc[t] = "opening"
  /\ \E n \in 1..MaxTotal + 1 :
       LET k == [host |-> want[t], conn_id |-> n] IN
         /\ k \notin OpenConns
         /\ \A m \in 1..n - 1 : [host |-> want[t], conn_id |-> m] \in OpenConns
         /\ conn' = [conn EXCEPT ![t] = k]
  /\ live' = [live EXCEPT ![want[t]] = @ + 1]
  /\ totalLive' = totalLive + 1
  /\ Goto(t, "holding")
  /\ UNCHANGED <<idle, earlier, lockQ, want, cancelled>>

\* The factory raises: the lock is released and nobody is notified.
OpenFails(t) ==
  /\ FactoryMayFail
  /\ pc[t] = "opening"
  /\ Goto(t, Over)
  /\ UNCHANGED <<poolVars, lockQ, want, conn, cancelled>>

\* The time of an acquire is up and wait_for cancels its task.
Timeout(t) ==
  /\ t \in Timed \ cancelled
  /\ \/ /\ pc[t] \in {"starting", "queued", "opening"}
        /\ Goto(t, Over)
        /\ lockQ' = Without(lockQ, t)
        /\ UNCHANGED cancelled
     \/ /\ pc[t] = "waiting"
        /\ pc' = [pc EXCEPT ![t] = "woken"]
        /\ condQ' = Without(condQ, t)
        /\ cancelled' = cancelled \cup {t}
        /\ UNCHANGED lockQ
     \/ /\ pc[t] = "woken"
        /\ cancelled' = cancelled \cup {t}
        /\ UNCHANGED <<pc, condQ, lockQ>>
     \/ /\ pc[t] = "requeued"
        /\ lockQ' = Append(Without(lockQ, t), t)
        /\ cancelled' = cancelled \cup {t}
        /\ UNCHANGED <<pc, condQ>>
  /\ UNCHANGED <<poolVars, want, conn>>

Cancelled_ButQueued(t) == lockQ' = lockQ

\* The lock forgets a task that is cancelled in its queue.
Cancelled(t) == lockQ' = Without(lockQ, t)

\* A task is cancelled while release or discard waits for the lock: neither
\* has begun, and nobody will give the connection back.
CancelReturn(t) ==
  /\ t \in MayCancel
  /\ pc[t] \in {"returning", "closing"}
  /\ Cancelled(t)
  /\ Goto(t, "gone")
  /\ UNCHANGED <<poolVars, want, conn, cancelled>>
-----------------------------------------------------------------------------
\* What the event loop does for t once t is ready.
Run(t) == Start(t) \/ Resume(t) \/ Grant(t)

Next ==
  \E t \in Tasks :
    \/ \E h \in Hosts : Acquire(t, h)
    \/ Start(t)
    \/ Resume(t)
    \/ Grant(t)
    \/ Opened(t)
    \/ OpenFails(t)
    \/ Release(t)
    \/ Discard(t)
    \/ Timeout(t)
    \/ CancelReturn(t)

Spec == Init /\ [][Next]_vars

\* The event loop runs every task that is ready, and a task that holds a
\* connection gives it back or closes it.
LoopFairness ==
  \A t \in Tasks : WF_vars(Run(t)) /\ WF_vars(Release(t) \/ Discard(t))

\* The connection factory answers.
FactoryFairness == \A t \in Tasks : WF_vars(Opened(t))

FairSpec == Spec /\ LoopFairness /\ FactoryFairness
-----------------------------------------------------------------------------
(* Properties *)

\* The counters never fall below what is open, the ceilings are kept, and
\* the room that an opening task has found is still there when the factory
\* answers, however many tasks came and went while it was awaited.
Ceilings ==
  LET opening(H) == {t \in Tasks : pc[t] = "opening" /\ want[t] \in H} IN
    /\ totalLive = Cardinality(OpenConns)
    /\ totalLive + Cardinality(opening(Hosts)) <= MaxTotal
    /\ \A h \in Hosts :
         /\ Cardinality(OpenTo(h)) <= live[h]
         /\ live[h] + Cardinality(opening({h})) <= PerHost

\* A task is in a queue exactly when it stands where that queue is awaited,
\* and only once.
QueuesMatchPlaces ==
  /\ \A t \in Tasks :
       /\ Cardinality({i \in DOMAIN lockQ : lockQ[i] = t}) =
            IF pc[t] \in {"queued", "requeued", "returning", "closing"} THEN 1 ELSE 0
       /\ Cardinality({i \in DOMAIN condQ : condQ[i] = t}) =
            IF pc[t] = "waiting" THEN 1 ELSE 0
  /\ cancelled \subseteq {t \in Tasks : pc[t] \in {"woken", "requeued"}}

\* A connection is held by the one task that has it, which is using it, on the
\* way to give it back, or was cancelled on that way.
HoldersHold ==
  /\ \A t \in Tasks :
       conn[t] # Nothing <=> pc[t] \in {"holding", "returning", "closing", "gone"}
  /\ \A t, u \in Tasks : t # u /\ conn[t] # Nothing => conn[t] # conn[u]
  /\ Lent \cap idle = {}

\* The lock and the condition lose nobody, and no connection is lost with a
\* call that ended in a timeout, an error or a cancellation, but for the one
\* of a task cancelled in release or discard.
NobodyLost == QueuesMatchPlaces /\ HoldersHold

\* The pool could hand out a connection to h, going by what is open.
CouldServe(h) ==
  \/ \E k \in idle : k.host = h
  \/ /\ Cardinality(OpenTo(h)) < PerHost
     /\ idle # {} \/ Cardinality(OpenConns) < MaxTotal

\* Nothing is under way in the pool: no task is woken, queued or opening.
Quiet == ~Locked /\ lockQ = <<>> /\ \A t \in Tasks : pc[t] # "woken"

\* When nothing is under way, no task waits for a host that could be served:
\* each wakeup went to a task that could use it, or was passed on.
NobodyForgotten ==
  Quiet => \A t \in Tasks : pc[t] = "waiting" => ~CouldServe(want[t])

\* Every acquire is served if every holder is done with its connection some
\* day and no task asks for ever, although the notifications go to the first
\* waiter whatever host it waits for.
EveryoneServed ==
  \A t \in Tasks : pc[t] \in {"starting", "queued", "waiting"} ~> pc[t] = "holding"

\* A timed acquire ends once its time is up, although a task cancelled in
\* Condition.wait has to take the lock again first (async_pool.py:132: "A
\* timeout bounds the total wait").
TimeoutEnds ==
  \A t \in Tasks : t \in cancelled ~> pc[t] \in {"idle", "done"}

\* The pool implements the contract of PoolContract.
Contract == INSTANCE PoolContract WITH
  Callers <- Tasks,
  leased  <- [t \in Tasks |-> {conn[t]} \ {Nothing}],
  spare   <- idle

ContractSpec == Contract!Spec
=============================================================================
