--------------------- MODULE AsyncConnectionPool_proofs ---------------------
(***************************************************************************)
(* Proofs about AsyncConnectionPool: its type invariant, that the lock and *)
(* the condition lose no task and the pool no connection, its counters and *)
(* ceilings, and that it implements PoolContract, for any number of tasks, *)
(* hosts and connections.                                                  *)
(***************************************************************************)
EXTENDS AsyncConnectionPool, FiniteSetTheorems, SequenceTheorems, TLAPS

-----------------------------------------------------------------------------
(* Queues *)

Members(q) == {q[i] : i \in DOMAIN q}

\* The queue q holds each of the tasks W once, and nobody else.
LineUp(q, W) ==
  /\ q \in Seq(Tasks)
  /\ Members(q) = W
  /\ \A i, j \in DOMAIN q : q[i] = q[j] => i = j

LEMMA EmptyLineUp == LineUp(<<>>, {})
<1>1. DOMAIN <<>> = {}
  OBVIOUS
<1> QED
  BY <1>1 DEF LineUp, Members

LEMMA AppendToLineUp ==
  ASSUME NEW q, NEW W, LineUp(q, W), NEW t \in Tasks, t \notin W
  PROVE  LineUp(Append(q, t), W \cup {t})
<1> DEFINE r == Append(q, t)
<1>1. q \in Seq(Tasks) /\ Members(q) = W
  BY DEF LineUp
<1>2. /\ r \in Seq(Tasks)
      /\ Len(r) = Len(q) + 1
      /\ r[Len(q) + 1] = t
      /\ \A i \in DOMAIN q : r[i] = q[i]
  BY <1>1
<1>3. DOMAIN r = DOMAIN q \cup {Len(q) + 1} /\ Len(q) + 1 \notin DOMAIN q
  BY <1>1
<1>4. \A i \in DOMAIN q : q[i] # t
  BY <1>1 DEF Members
<1> HIDE DEF r
<1>5. Members(r) = W \cup {t}
  <2>1. Members(r) \subseteq W \cup {t}
    BY <1>1, <1>2, <1>3 DEF Members
  <2>2. W \subseteq Members(r)
    BY <1>1, <1>2, <1>3 DEF Members
  <2>3. t \in Members(r)
    BY <1>2, <1>3 DEF Members
  <2> QED
    BY <2>1, <2>2, <2>3
<1>6. ASSUME NEW i \in DOMAIN r, NEW j \in DOMAIN r, r[i] = r[j] PROVE i = j
  <2>1. CASE i \in DOMAIN q /\ j \in DOMAIN q
    BY <1>2, <1>6, <2>1 DEF LineUp
  <2>2. CASE i \in DOMAIN q /\ j = Len(q) + 1
    BY <1>2, <1>4, <1>6, <2>2
  <2>3. CASE i = Len(q) + 1 /\ j \in DOMAIN q
    BY <1>2, <1>4, <1>6, <2>3
  <2>4. CASE i = Len(q) + 1 /\ j = Len(q) + 1
    BY <2>4
  <2> QED
    BY <1>3, <2>1, <2>2, <2>3, <2>4
<1>7. LineUp(r, W \cup {t})
  BY <1>2, <1>5, <1>6 DEF LineUp
<1> QED
  BY <1>7 DEF r

\* A queue without the place k, whoever stood there, holds all the others.
LEMMA CutLineUp ==
  ASSUME NEW q, NEW W, LineUp(q, W), NEW k \in DOMAIN q, NEW r \in Seq(Tasks),
         Len(r) = Len(q) - 1,
         \A i \in 1..Len(r) : r[i] = q[IF i < k THEN i ELSE i + 1]
  PROVE  LineUp(r, W \ {q[k]})
<1> DEFINE at(i) == IF i < k THEN i ELSE i + 1
<1>1. q \in Seq(Tasks) /\ Members(q) = W /\ Len(q) \in Nat /\ k \in 1..Len(q)
  BY DEF LineUp
<1>2. DOMAIN q = 1..Len(q) /\ DOMAIN r = 1..Len(r) /\ Len(r) = Len(q) - 1
  BY <1>1
<1>3. \A i \in DOMAIN r : at(i) \in DOMAIN q /\ at(i) # k /\ r[i] = q[at(i)]
  BY <1>1, <1>2
<1>4. \A i, j \in DOMAIN r : at(i) = at(j) => i = j
  BY <1>1, <1>2
<1>5. ASSUME NEW n \in DOMAIN q, n # k PROVE \E i \in DOMAIN r : n = at(i)
  <2>1. CASE n < k
    <3>1. n \in DOMAIN r /\ n = at(n)
      BY <1>1, <1>2, <1>5, <2>1
    <3> QED
      BY <3>1
  <2>2. CASE n > k
    <3>1. n - 1 \in DOMAIN r /\ n = at(n - 1)
      BY <1>1, <1>2, <1>5, <2>2
    <3> QED
      BY <3>1
  <2> QED
    BY <1>1, <1>2, <1>5, <2>1, <2>2
<1> HIDE DEF at
<1>6. \A i, j \in DOMAIN q : q[i] = q[j] => i = j
  BY DEF LineUp
<1>7. Members(r) \subseteq W \ {q[k]}
  BY <1>1, <1>3, <1>6 DEF Members
<1>8. W \ {q[k]} \subseteq Members(r)
  BY <1>1, <1>3, <1>5 DEF Members
<1>9. \A i, j \in DOMAIN r : r[i] = r[j] => i = j
  BY <1>3, <1>4, <1>6
<1> QED
  BY <1>7, <1>8, <1>9 DEF LineUp

LEMMA TailOfLineUp ==
  ASSUME NEW q, NEW W, LineUp(q, W), q # <<>>
  PROVE  Head(q) \in W /\ LineUp(Tail(q), W \ {Head(q)})
<1>1. q \in Seq(Tasks)
  BY DEF LineUp
<1>2. /\ Tail(q) \in Seq(Tasks)
      /\ Len(Tail(q)) = Len(q) - 1
      /\ \A i \in 1..Len(Tail(q)) : Tail(q)[i] = q[i + 1]
  BY <1>1, HeadTailProperties
<1>3. 1 \in DOMAIN q /\ Head(q) = q[1]
  BY <1>1
<1>4. \A i \in 1..Len(Tail(q)) : Tail(q)[i] = q[IF i < 1 THEN i ELSE i + 1]
  BY <1>1, <1>2
<1>5. LineUp(Tail(q), W \ {q[1]})
  BY <1>2, <1>3, <1>4, CutLineUp
<1> QED
  BY <1>3, <1>5 DEF LineUp, Members

\* The lock and the condition forget exactly the task they are told to.
LEMMA WithoutLeavesOthers ==
  ASSUME NEW q, NEW W, LineUp(q, W), NEW t
  PROVE  LineUp(Without(q, t), W \ {t})
<1>1. CASE \E i \in DOMAIN q : q[i] = t
  <2> DEFINE k == CHOOSE i \in DOMAIN q : q[i] = t
             r == SubSeq(q, 1, k - 1) \o SubSeq(q, k + 1, Len(q))
  <2>1. k \in DOMAIN q /\ q[k] = t
    BY <1>1
  <2>2. q \in Seq(Tasks) /\ k \in 1..Len(q) /\ Len(q) \in Nat
    BY <2>1 DEF LineUp
  <2>3. Without(q, t) = r
    BY <1>1 DEF Without
  <2> HIDE DEF k
  <2> DEFINE front == SubSeq(q, 1, k - 1)
             back  == SubSeq(q, k + 1, Len(q))
  <2>4. /\ front \in Seq(Tasks) /\ Len(front) = k - 1
        /\ \A i \in 1..k - 1 : front[i] = q[i]
    BY <2>2, SubSeqProperties
  <2>5. /\ back \in Seq(Tasks) /\ Len(back) = Len(q) - k
        /\ \A i \in 1..Len(q) - k : back[i] = q[k + i]
    BY <2>2, SubSeqProperties
  <2>6. r = front \o back
    OBVIOUS
  <2> HIDE DEF front, back, r
  <2>7. /\ r \in Seq(Tasks)
        /\ Len(r) = Len(q) - 1
        /\ \A i \in 1..Len(r) : r[i] = IF i <= Len(front) THEN front[i]
                                       ELSE back[i - Len(front)]
    <3>1. /\ r \in Seq(Tasks)
          /\ Len(r) = Len(front) + Len(back)
          /\ \A i \in 1..Len(front) + Len(back) :
               r[i] = IF i <= Len(front) THEN front[i] ELSE back[i - Len(front)]
      BY <2>4, <2>5, <2>6, ConcatProperties
    <3>2. Len(front) + Len(back) = Len(q) - 1
      BY <2>2, <2>4, <2>5
    <3> QED
      BY <3>1, <3>2
  <2>8. ASSUME NEW i \in 1..Len(r) PROVE r[i] = q[IF i < k THEN i ELSE i + 1]
    <3>1. CASE i < k
      BY <2>2, <2>4, <2>7, <3>1
    <3>2. CASE ~(i < k)
      <4>1. i - (k - 1) \in 1..Len(q) - k /\ k + (i - (k - 1)) = i + 1
        BY <2>2, <2>7, <3>2
      <4>2. r[i] = back[i - (k - 1)]
        BY <2>2, <2>4, <2>7, <3>2
      <4> QED
        BY <2>5, <3>2, <4>1, <4>2
    <3> QED
      BY <3>1, <3>2
  <2> QED
    BY <2>1, <2>3, <2>7, <2>8, CutLineUp
<1>2. CASE ~ \E i \in DOMAIN q : q[i] = t
  <2>1. Without(q, t) = q
    BY <1>2 DEF Without
  <2>2. W \ {t} = W
    BY <1>2 DEF LineUp, Members
  <2> QED
    BY <2>1, <2>2
<1> QED
  BY <1>1, <1>2

LEMMA OnceInLineUp ==
  ASSUME NEW q, NEW W, LineUp(q, W), NEW t
  PROVE  Cardinality({i \in DOMAIN q : q[i] = t}) = IF t \in W THEN 1 ELSE 0
<1>1. CASE t \in W
  <2>1. PICK k \in DOMAIN q : q[k] = t
    BY <1>1 DEF LineUp, Members
  <2>2. {i \in DOMAIN q : q[i] = t} = {k}
    BY <2>1 DEF LineUp
  <2> QED
    BY <1>1, <2>2, FS_Singleton
<1>2. CASE t \notin W
  <2>1. {i \in DOMAIN q : q[i] = t} = {}
    BY <1>2 DEF LineUp, Members
  <2> QED
    BY <1>2, <2>1, FS_EmptySet
<1> QED
  BY <1>1, <1>2
-----------------------------------------------------------------------------
(* Where the tasks are *)

ForLock == {"queued", "requeued", "returning", "closing"}

With == {"holding", "returning", "closing", "gone"}

At(S) == {t \in Tasks : pc[t] \in S}

\* The queues and the places agree.
Queues ==
  /\ LineUp(lockQ, At(ForLock))
  /\ LineUp(condQ, At({"waiting"}))
  /\ cancelled \subseteq At({"woken", "requeued"})

\* A task that has left its first place asked for a host.
Asked == \A t \in Tasks : pc[t] # "idle" => want[t] \in Hosts

\* The types without what the ceilings say of the counters.
Typed ==
  /\ live \in [Hosts -> Int]
  /\ totalLive \in Int
  /\ idle \in SUBSET Connection
  /\ earlier \in SUBSET (idle \X idle)
  /\ lockQ \in Seq(Tasks)
  /\ condQ \in Seq(Tasks)
  /\ pc \in [Tasks -> Places]
  /\ want \in [Tasks -> Hosts \cup {Nothing}]
  /\ conn \in [Tasks -> Connection \cup {Nothing}]
  /\ cancelled \in SUBSET Tasks

Placed == Typed /\ Queues /\ Asked

\* t has the lock, either at once or as the first in its queue.
Locks(t) ==
  /\ ~Locked
  /\ \/ lockQ = <<>> /\ UNCHANGED lockQ
     \/ lockQ # <<>> /\ t = Head(lockQ) /\ lockQ' = Tail(lockQ)

\* t goes to p; the others stay, but for a waiter that is woken.
Moves(t, p) ==
  /\ pc'[t] = p
  /\ \A u \in Tasks \ {t} : pc'[u] = pc[u] \/ (pc[u] = "waiting" /\ pc'[u] = "woken")

\* What a task with the lock leaves in its queue.
LEMMA LocksQueue ==
  ASSUME Queues, NEW t \in Tasks, Locks(t), pc[t] \notin ForLock => lockQ = <<>>
  PROVE  LineUp(lockQ', At(ForLock) \ {t})
<1>1. CASE lockQ = <<>> /\ UNCHANGED lockQ
  <2>1. Members(lockQ) = {}
    <3>1. DOMAIN <<>> = {}
      OBVIOUS
    <3> QED
      BY <1>1, <3>1 DEF Members
  <2>2. At(ForLock) \ {t} = At(ForLock)
    BY <2>1 DEF Queues, LineUp
  <2> QED
    BY <1>1, <2>2 DEF Queues
<1>2. CASE lockQ # <<>> /\ t = Head(lockQ) /\ lockQ' = Tail(lockQ)
  BY <1>2, TailOfLineUp DEF Queues
<1> QED
  BY <1>1, <1>2 DEF Locks

LEMMA GotoPlaces ==
  ASSUME pc \in [Tasks -> Places], NEW t \in Tasks, NEW p \in Places,
         pc' = [pc EXCEPT ![t] = p]
  PROVE  /\ pc' \in [Tasks -> Places]
         /\ Moves(t, p)
         /\ \A S : At(S)' = IF p \in S THEN At(S) \cup {t} ELSE At(S) \ {t}
  BY DEF Moves, At

LEMMA NotifyPlaces ==
  ASSUME Typed, Queues, NEW t \in Tasks, NEW p \in Places \ ({"waiting"} \cup ForLock),
         pc[t] # "waiting", Notify(t, p)
  PROVE  /\ pc' \in [Tasks -> Places]
         /\ Moves(t, p)
         /\ At(ForLock)' = At(ForLock) \ {t}
         /\ LineUp(condQ', At({"waiting"})')
<1>1. pc \in [Tasks -> Places] /\ "woken" \in Places /\ "woken" \notin ForLock
  BY DEF Typed, Places, ForLock
<1>2. CASE condQ = <<>>
  <2>1. pc' = [u \in Tasks |-> IF u = t THEN p ELSE pc[u]] /\ condQ' = condQ
    BY <1>2 DEF Notify, AfterNotify
  <2>2. At({"waiting"})' = At({"waiting"})
    BY <2>1 DEF At
  <2> QED
    BY <1>1, <2>1, <2>2 DEF Moves, At, Queues
<1>3. CASE condQ # <<>>
  <2> DEFINE w == Head(condQ)
  <2>1. w \in At({"waiting"}) /\ LineUp(Tail(condQ), At({"waiting"}) \ {w})
    BY <1>3, TailOfLineUp DEF Queues
  <2>2. pc' = [u \in Tasks |-> IF u = t THEN p ELSE IF u = w THEN "woken" ELSE pc[u]]
    BY <1>3 DEF Notify, AfterNotify
  <2>3. condQ' = Tail(condQ)
    BY <1>3 DEF Notify
  <2> HIDE DEF w
  <2>4. w \in Tasks /\ pc[w] = "waiting" /\ w # t
    BY <2>1 DEF At
  <2>5. At({"waiting"})' = At({"waiting"}) \ {w}
    BY <2>2, <2>4 DEF At
  <2>6. At(ForLock)' = At(ForLock) \ {t}
    BY <2>2, <2>4 DEF At, ForLock
  <2>7. pc' \in [Tasks -> Places] /\ Moves(t, p)
    BY <1>1, <2>2, <2>4 DEF Moves
  <2> QED
    BY <2>1, <2>3, <2>5, <2>6, <2>7
<1> QED
  BY <1>2, <1>3
-----------------------------------------------------------------------------
(* The forms of a step *)

\* t has the lock, at once or as the first in the queue.
Enters(t) == Locks(t) /\ (pc[t] \notin ForLock => lockQ = <<>>)

\* t goes on inside acquire.
Serves(t, h) ==
  /\ Enters(t)
  /\ pc[t] \in {"idle", "starting", "woken", "queued", "requeued"}
  /\ Try(t, h)
  /\ want' = [want EXCEPT ![t] = h]

\* t gives its connection back or closes it.
Returns(t) ==
  /\ Enters(t)
  /\ pc[t] \in {"holding", "returning", "closing"}
  /\ GiveBack(t) \/ CloseConn(t)
  /\ UNCHANGED want

\* t has to queue for the lock.
Delays(t, p) ==
  /\ <<pc[t], p>> \in {<<"idle", "queued">>, <<"starting", "queued">>, <<"woken", "requeued">>,
                       <<"holding", "returning">>, <<"holding", "closing">>}
  /\ Queue(t, p)
  /\ (\E h \in Hosts : want' = [want EXCEPT ![t] = h]) \/ (UNCHANGED want /\ pc[t] # "idle")

\* A timed acquire begins.
Begins(t, h) ==
  /\ pc[t] = "idle"
  /\ want' = [want EXCEPT ![t] = h]
  /\ Goto(t, "starting")
  /\ UNCHANGED <<poolVars, lockQ, conn, cancelled>>

LEMMA FormsOfStep ==
  ASSUME Typed, Asked, NEW t \in Tasks,
         \/ \E h \in Hosts : Acquire(t, h)
         \/ Start(t) \/ Resume(t) \/ Grant(t) \/ Release(t) \/ Discard(t)
  PROVE  \/ \E h \in Hosts : Serves(t, h) \/ Begins(t, h)
         \/ Returns(t)
         \/ \E p \in ForLock : Delays(t, p)
<1> USE DEF ForLock
<1>1. ASSUME LockFree, UNCHANGED lockQ, pc[t] \notin ForLock PROVE Enters(t)
  BY <1>1 DEF LockFree, Locks, Enters
<1>2. ASSUME want[t] \in Hosts, UNCHANGED want PROVE want' = [want EXCEPT ![t] = want[t]]
  BY <1>2 DEF Typed
<1>3. ASSUME NEW h \in Hosts, Acquire(t, h)
      PROVE  Serves(t, h) \/ Begins(t, h) \/ Delays(t, "queued")
  <2>1. CASE LockFree /\ Try(t, h) /\ UNCHANGED lockQ
    BY <1>1, <1>3, <2>1 DEF Acquire, Serves
  <2>2. CASE Queue(t, "queued")
    BY <1>3, <2>2 DEF Acquire, Delays
  <2>3. CASE Goto(t, "starting") /\ UNCHANGED <<poolVars, lockQ, conn, cancelled>>
    BY <1>3, <2>3 DEF Acquire, Begins
  <2> QED
    BY <1>3, <2>1, <2>2, <2>3 DEF Acquire
<1>4. CASE Start(t)
  <2>1. want[t] \in Hosts
    BY <1>4 DEF Start, Asked
  <2> QED
    BY <1>1, <1>2, <1>4, <2>1 DEF Start, Serves, Delays
<1>5. CASE Resume(t)
  <2>1. want[t] \in Hosts
    BY <1>5 DEF Resume, Asked
  <2> QED
    BY <1>1, <1>2, <1>5, <2>1 DEF Resume, Serves, Delays
<1>6. CASE Grant(t)
  <2>1. Enters(t)
    BY <1>6 DEF Grant, Locks, Enters
  <2>2. CASE pc[t] \in {"queued", "requeued"} /\ Try(t, want[t])
    <3>1. want[t] \in Hosts /\ want' = [want EXCEPT ![t] = want[t]]
      BY <1>2, <1>6, <2>2 DEF Asked, Grant
    <3> QED
      BY <2>1, <2>2, <3>1 DEF Serves
  <2>3. CASE pc[t] \in {"returning", "closing"} /\ (GiveBack(t) \/ CloseConn(t))
    BY <1>6, <2>1, <2>3 DEF Grant, Returns
  <2> QED
    BY <1>6, <2>2, <2>3 DEF Grant
<1>7. CASE Release(t)
  BY <1>1, <1>7 DEF Release, Returns, Delays
<1>8. CASE Discard(t)
  BY <1>1, <1>8 DEF Discard, Returns, Delays
<1> QED
  BY <1>3, <1>4, <1>5, <1>6, <1>7, <1>8

\* What a task can become inside acquire.
LEMMA TryMoves ==
  ASSUME Placed, NEW t \in Tasks, NEW h \in Hosts, Serves(t, h)
  PROVE  /\ pc' \in [Tasks -> Places]
         /\ \E p \in Places \ ForLock :
              /\ Moves(t, p)
              /\ \A S : At(S)' = IF p \in S THEN At(S) \cup {t} ELSE At(S) \ {t}
              /\ condQ' = IF p = "waiting" THEN Append(condQ, t) ELSE condQ
         /\ cancelled' = cancelled \ {t}
<1>1. Over \in Places \ ForLock /\ Over # "waiting"
  BY DEF Over, Places, ForLock
<1>2. PICK p \in Places \ ForLock :
        /\ pc' = [pc EXCEPT ![t] = p]
        /\ condQ' = IF p = "waiting" THEN Append(condQ, t) ELSE condQ
  <2>1. {"holding", "waiting", "opening"} \subseteq Places \ ForLock
    BY DEF Places, ForLock
  <2>2. CASE GiveUp(t)
    BY <1>1, <2>2 DEF GiveUp, Goto
  <2>3. CASE Reuse(t, h)
    <3>1. Goto(t, "holding")
      BY <2>3 DEF Reuse
    <3> QED
      BY <2>1, <3>1 DEF Goto
  <2>4. CASE Wait(t, h)
    BY <2>1, <2>4 DEF Wait
  <2>5. CASE BeginOpen(t, h)
    <3>1. Goto(t, "opening")
      BY <2>5 DEF BeginOpen
    <3> QED
      BY <2>1, <3>1 DEF Goto
  <2> QED
    BY <2>2, <2>3, <2>4, <2>5 DEF Serves, Try
<1>3. cancelled' = cancelled \ {t}
  BY DEF Serves, Try, GiveUp
<1> QED
  BY <1>2, <1>3, GotoPlaces DEF Placed, Typed
-----------------------------------------------------------------------------
(* Types, queues and places *)

\* The pool's own part of the type invariant.
StoreTypeOK ==
  /\ live \in [Hosts -> Int] /\ totalLive \in Int
  /\ idle \in SUBSET Connection
  /\ earlier \in SUBSET (idle \X idle)
  /\ conn \in [Tasks -> Connection \cup {Nothing}]

LEMMA TakeOffTypes ==
  ASSUME StoreTypeOK, NEW K, TakeOffIdle(K)
  PROVE  idle' \in SUBSET Connection /\ earlier' \in SUBSET (idle' \X idle')
<1>1. idle' = idle \ K /\ earlier' = {p \in earlier : p[1] \notin K /\ p[2] \notin K}
  BY DEF TakeOffIdle
<1>2. ASSUME NEW p \in earlier' PROVE p \in idle' \X idle'
  BY <1>1, <1>2 DEF StoreTypeOK
<1> QED
  BY <1>1, <1>2 DEF StoreTypeOK

LEMMA TryTypes ==
  ASSUME StoreTypeOK, NEW t \in Tasks, NEW h \in Hosts, Try(t, h)
  PROVE  StoreTypeOK'
<1>1. CASE Reuse(t, h)
  <2>1. PICK k \in LastIdleTo(h) :
          TakeOffIdle({k}) /\ conn' = [conn EXCEPT ![t] = k] /\ UNCHANGED <<live, totalLive>>
    BY <1>1 DEF Reuse
  <2>2. k \in Connection
    BY <2>1 DEF LastIdleTo, StoreTypeOK
  <2>3. conn' \in [Tasks -> Connection \cup {Nothing}]
    BY <2>1, <2>2 DEF StoreTypeOK
  <2> QED
    BY <2>1, <2>3, TakeOffTypes DEF StoreTypeOK
<1>2. CASE Wait(t, h)
  BY <1>2 DEF Wait, poolVars, StoreTypeOK
<1>3. CASE BeginOpen(t, h)
  <2>1. CASE UNCHANGED poolVars
    BY <1>3, <2>1 DEF BeginOpen, poolVars, StoreTypeOK
  <2>2. CASE (\E k \in OldestIdle : TakeOffIdle({k})) /\ totalLive' = totalLive - 1 /\ UNCHANGED live
    BY <1>3, <2>2, TakeOffTypes DEF BeginOpen, StoreTypeOK
  <2> QED
    BY <1>3, <2>1, <2>2 DEF BeginOpen
<1>4. CASE GiveUp(t)
  BY <1>4 DEF GiveUp, poolVars, StoreTypeOK
<1> QED
  BY <1>1, <1>2, <1>3, <1>4 DEF Try

\* A connection goes back or is closed only by a task that has one.
LEMMA ReturnTypes ==
  ASSUME StoreTypeOK, NEW t \in Tasks, conn[t] # Nothing, GiveBack(t) \/ CloseConn(t)
  PROVE  StoreTypeOK'
<1>1. conn[t] \in Connection /\ conn[t].host \in Hosts
  BY DEF StoreTypeOK, Connection
<1>2. conn' \in [Tasks -> Connection \cup {Nothing}]
  BY DEF GiveBack, CloseConn, StoreTypeOK
<1>3. CASE GiveBack(t)
  <2>1. idle' = idle \cup {conn[t]} /\ earlier' = earlier \cup {<<k, conn[t]>> : k \in idle}
    BY <1>3 DEF GiveBack
  <2>2. earlier' \in SUBSET (idle' \X idle')
    BY <2>1 DEF StoreTypeOK
  <2> QED
    BY <1>1, <1>2, <1>3, <2>1, <2>2 DEF GiveBack, StoreTypeOK
<1>4. CASE CloseConn(t)
  BY <1>1, <1>2, <1>4 DEF CloseConn, CountOut, StoreTypeOK
<1> QED
  BY <1>3, <1>4

LEMMA OpenedTypes ==
  ASSUME StoreTypeOK, NEW t \in Tasks, want[t] \in Hosts, Opened(t)
  PROVE  StoreTypeOK'
<1>1. PICK n \in 1..MaxTotal + 1 : conn' = [conn EXCEPT ![t] = [host |-> want[t], conn_id |-> n]]
  BY DEF Opened
<1>2. [host |-> want[t], conn_id |-> n] \in Connection
  BY DEF Connection
<1>3. conn' \in [Tasks -> Connection \cup {Nothing}]
  BY <1>1, <1>2 DEF StoreTypeOK
<1> QED
  BY <1>3 DEF Opened, StoreTypeOK

\* Every task that moved on asked for a host before.
LEMMA AskedAfter ==
  ASSUME Asked, NEW t \in Tasks, NEW p, Moves(t, p),
         p # "idle" => want'[t] \in Hosts,
         \A u \in Tasks \ {t} : want'[u] = want[u]
  PROVE  Asked'
  BY DEF Asked, Moves

LEMMA PlacedInit == Init => Placed
<1> SUFFICES ASSUME Init PROVE Placed
  OBVIOUS
<1>1. Typed
  BY DEF Init, Typed, Places
<1>2. At(ForLock) = {} /\ At({"waiting"}) = {}
  BY DEF Init, At, ForLock
<1> QED
  BY <1>1, <1>2, EmptyLineUp DEF Init, Placed, Queues, Asked

\* The parts of Placed that a step has to keep.
LEMMA PlacedParts ==
  ASSUME StoreTypeOK', pc' \in [Tasks -> Places],
         want' \in [Tasks -> Hosts \cup {Nothing}],
         LineUp(lockQ', At(ForLock)'), LineUp(condQ', At({"waiting"})'),
         cancelled' \subseteq At({"woken", "requeued"})', Asked'
  PROVE  Placed'
<1>1. lockQ' \in Seq(Tasks) /\ condQ' \in Seq(Tasks)
  BY DEF LineUp
<1>2. cancelled' \in SUBSET Tasks
  BY DEF At
<1> QED
  BY <1>1, <1>2 DEF Placed, Typed, StoreTypeOK, Queues

\* A task that has the lock keeps the queues in order inside acquire.
LEMMA ServesKeepsPlaces ==
  ASSUME Placed, NEW t \in Tasks, NEW h \in Hosts, Serves(t, h)
  PROVE  Placed'
<1>1. StoreTypeOK'
  BY TryTypes DEF Placed, Typed, StoreTypeOK, Serves
<1>2. PICK p \in Places \ ForLock :
        /\ Moves(t, p)
        /\ \A S : At(S)' = IF p \in S THEN At(S) \cup {t} ELSE At(S) \ {t}
        /\ condQ' = IF p = "waiting" THEN Append(condQ, t) ELSE condQ
  BY TryMoves
<1>3. pc' \in [Tasks -> Places] /\ cancelled' = cancelled \ {t}
  BY TryMoves
<1>4. /\ want' \in [Tasks -> Hosts \cup {Nothing}]
      /\ want'[t] \in Hosts
      /\ \A u \in Tasks \ {t} : want'[u] = want[u]
  BY DEF Serves, Placed, Typed
<1>5. LineUp(lockQ', At(ForLock)')
  <2>1. At(ForLock)' = At(ForLock) \ {t}
    BY <1>2
  <2>2. LineUp(lockQ', At(ForLock) \ {t})
    BY LocksQueue DEF Serves, Enters, Placed
  <2> QED
    BY <2>1, <2>2
<1>6. LineUp(condQ', At({"waiting"})')
  <2>1. t \notin At({"waiting"})
    BY DEF Serves, At
  <2>2. At({"waiting"})' = IF p = "waiting" THEN At({"waiting"}) \cup {t} ELSE At({"waiting"})
    BY <1>2, <2>1
  <2> QED
    BY <1>2, <2>1, <2>2, AppendToLineUp DEF Placed, Queues
<1>7. cancelled' \subseteq At({"woken", "requeued"})'
  <2>1. At({"woken", "requeued"}) \ {t} \subseteq At({"woken", "requeued"})'
    BY <1>2
  <2> QED
    BY <1>3, <2>1 DEF Placed, Queues
<1>8. Asked'
  BY <1>2, <1>4, AskedAfter DEF Placed
<1> QED
  BY <1>1, <1>3, <1>4, <1>5, <1>6, <1>7, <1>8, PlacedParts

\* So does one that gives a connection back, and wakes the right task.
LEMMA ReturnsKeepsPlaces ==
  ASSUME Placed, NEW t \in Tasks, conn[t] # Nothing, Returns(t)
  PROVE  Placed'
<1>1. StoreTypeOK'
  BY ReturnTypes DEF Placed, Typed, StoreTypeOK, Returns
<1>2. Notify(t, Over) /\ UNCHANGED cancelled
  BY DEF Returns, GiveBack, CloseConn
<1>3. Over \in Places \ ({"waiting"} \cup ForLock)
  BY DEF Over, Places, ForLock
<1>4. /\ pc' \in [Tasks -> Places]
      /\ Moves(t, Over)
      /\ At(ForLock)' = At(ForLock) \ {t}
      /\ LineUp(condQ', At({"waiting"})')
  BY <1>2, <1>3, NotifyPlaces DEF Placed, Returns
<1>5. LineUp(lockQ', At(ForLock)')
  BY <1>4, LocksQueue DEF Returns, Enters, Placed
<1>6. cancelled' \subseteq At({"woken", "requeued"})'
  <2>1. t \notin cancelled
    BY DEF Placed, Queues, At, Returns
  <2>2. \A u \in cancelled : u \in Tasks /\ pc'[u] = pc[u] /\ pc[u] \in {"woken", "requeued"}
    BY <1>4, <2>1 DEF Placed, Queues, At, Moves
  <2> QED
    BY <1>2, <2>2 DEF At
<1>7. Asked'
  <2>1. want' = want /\ want[t] \in Hosts
    BY DEF Returns, Placed, Asked
  <2> QED
    BY <1>4, <2>1, AskedAfter DEF Placed
<1> QED
  BY <1>1, <1>4, <1>5, <1>6, <1>7, PlacedParts DEF Returns, Placed, Typed

LEMMA DelaysKeepsPlaces ==
  ASSUME Placed, NEW t \in Tasks, NEW p \in ForLock, Delays(t, p)
  PROVE  Placed'
<1>1. StoreTypeOK'
  BY DEF Placed, Typed, StoreTypeOK, Delays, Queue, poolVars
<1>2. /\ lockQ' = Append(lockQ, t) /\ pc' = [pc EXCEPT ![t] = p] /\ condQ' = condQ
      /\ cancelled' = cancelled
  BY DEF Delays, Queue, Goto
<1>3. p \in Places /\ pc[t] \notin ForLock \cup {"waiting"}
  BY DEF Places, ForLock, Delays
<1>4. /\ pc' \in [Tasks -> Places] /\ Moves(t, p)
      /\ \A S : At(S)' = IF p \in S THEN At(S) \cup {t} ELSE At(S) \ {t}
  BY <1>2, <1>3, GotoPlaces DEF Placed, Typed
<1>5. LineUp(lockQ', At(ForLock)')
  <2>1. t \notin At(ForLock) /\ At(ForLock)' = At(ForLock) \cup {t}
    BY <1>3, <1>4 DEF At
  <2> QED
    BY <1>2, <2>1, AppendToLineUp DEF Placed, Queues
<1>6. LineUp(condQ', At({"waiting"})')
  <2>1. p \notin {"waiting"}
    BY DEF ForLock
  <2>2. At({"waiting"})' = At({"waiting"})
    <3>1. At({"waiting"})' = At({"waiting"}) \ {t}
      BY <1>4, <2>1
    <3>2. t \notin At({"waiting"})
      BY <1>3 DEF At
    <3> QED
      BY <3>1, <3>2
  <2> QED
    BY <1>2, <2>2 DEF Placed, Queues
<1>7. cancelled' \subseteq At({"woken", "requeued"})'
  <2>1. t \in cancelled => p = "requeued"
    BY DEF Placed, Queues, At, Delays
  <2>2. p = "requeued" => t \in At({"woken", "requeued"})'
    BY <1>4
  <2>3. At({"woken", "requeued"}) \ {t} \subseteq At({"woken", "requeued"})'
    BY <1>4
  <2> QED
    BY <1>2, <2>1, <2>2, <2>3 DEF Placed, Queues
<1>8. /\ want' \in [Tasks -> Hosts \cup {Nothing}]
      /\ want'[t] \in Hosts
      /\ \A u \in Tasks \ {t} : want'[u] = want[u]
  BY DEF Delays, Placed, Typed, Asked
<1>9. Asked'
  BY <1>4, <1>8, AskedAfter DEF Placed
<1> QED
  BY <1>1, <1>2, <1>4, <1>5, <1>6, <1>7, <1>8, <1>9, PlacedParts

\* A task that neither queues nor waits before or after its step.
LEMMA GotoKeepsPlaces ==
  ASSUME Placed, StoreTypeOK', NEW t \in Tasks, NEW p \in Places \ (ForLock \cup {"waiting"}),
         pc[t] \notin {"waiting", "woken", "requeued"}, Goto(t, p),
         LineUp(lockQ', At(ForLock) \ {t}), UNCHANGED cancelled,
         want' \in [Tasks -> Hosts \cup {Nothing}], want'[t] \in Hosts,
         \A u \in Tasks \ {t} : want'[u] = want[u]
  PROVE  Placed'
<1>1. /\ pc' \in [Tasks -> Places] /\ Moves(t, p)
      /\ \A S : At(S)' = IF p \in S THEN At(S) \cup {t} ELSE At(S) \ {t}
  BY GotoPlaces DEF Placed, Typed, Goto
<1>2. LineUp(lockQ', At(ForLock)')
  BY <1>1
<1>3. LineUp(condQ', At({"waiting"})')
  <2>1. At({"waiting"})' = At({"waiting"}) \ {t}
    BY <1>1
  <2>2. t \notin At({"waiting"})
    BY DEF At
  <2> QED
    BY <2>1, <2>2 DEF Placed, Queues, Goto
<1>4. cancelled' \subseteq At({"woken", "requeued"})'
  <2>1. t \notin cancelled
    BY DEF Placed, Queues, At
  <2>2. At({"woken", "requeued"}) \ {t} \subseteq At({"woken", "requeued"})'
    BY <1>1
  <2> QED
    BY <2>1, <2>2 DEF Placed, Queues
<1>5. Asked'
  BY <1>1, AskedAfter DEF Placed
<1> QED
  BY <1>1, <1>2, <1>3, <1>4, <1>5, PlacedParts

LEMMA TimeoutKeepsPlaces ==
  ASSUME Placed, NEW t \in Tasks, Timeout(t)
  PROVE  Placed'
<1>1. StoreTypeOK' /\ want' = want /\ conn' = conn
  BY DEF Timeout, Placed, Typed, StoreTypeOK, poolVars
<1>2. Asked /\ Typed /\ t \notin cancelled
  BY DEF Placed, Timeout
<1>3. CASE pc[t] \in {"starting", "queued", "opening"} /\ Goto(t, Over)
           /\ lockQ' = Without(lockQ, t) /\ UNCHANGED cancelled
  <2>1. Over \in Places \ (ForLock \cup {"waiting"})
    BY DEF Over, Places, ForLock
  <2>2. LineUp(lockQ', At(ForLock) \ {t})
    BY <1>3, WithoutLeavesOthers DEF Placed, Queues
  <2>3. want[t] \in Hosts /\ want \in [Tasks -> Hosts \cup {Nothing}]
    BY <1>2, <1>3 DEF Asked, Typed
  <2> QED
    BY <1>1, <1>3, <2>1, <2>2, <2>3, GotoKeepsPlaces
<1>4. CASE pc[t] = "waiting" /\ pc' = [pc EXCEPT ![t] = "woken"] /\ condQ' = Without(condQ, t)
           /\ cancelled' = cancelled \cup {t} /\ UNCHANGED lockQ
  <2>1. /\ pc' \in [Tasks -> Places] /\ Moves(t, "woken")
        /\ \A S : At(S)' = IF "woken" \in S THEN At(S) \cup {t} ELSE At(S) \ {t}
    BY <1>2, <1>4, GotoPlaces DEF Typed, Places
  <2>2. LineUp(lockQ', At(ForLock)')
    <3>1. At(ForLock)' = At(ForLock) \ {t}
      BY <2>1 DEF ForLock
    <3>2. t \notin At(ForLock)
      BY <1>4 DEF At, ForLock
    <3> QED
      BY <1>4, <3>1, <3>2 DEF Placed, Queues
  <2>3. LineUp(condQ', At({"waiting"})')
    BY <1>4, <2>1, WithoutLeavesOthers DEF Placed, Queues
  <2>4. cancelled' \subseteq At({"woken", "requeued"})'
    BY <1>4, <2>1 DEF Placed, Queues
  <2>5. Asked'
    BY <1>1, <1>2, <1>4, <2>1, AskedAfter DEF Asked
  <2> QED
    BY <1>1, <1>2, <2>1, <2>2, <2>3, <2>4, <2>5, PlacedParts DEF Typed
<1>5. CASE pc[t] = "woken" /\ cancelled' = cancelled \cup {t} /\ UNCHANGED <<pc, condQ, lockQ>>
  <2>1. \A S : At(S)' = At(S)
    BY <1>5 DEF At
  <2>2. t \in At({"woken", "requeued"})
    BY <1>5 DEF At
  <2>3. Asked'
    BY <1>1, <1>2, <1>5 DEF Asked
  <2> QED
    BY <1>1, <1>2, <1>5, <2>1, <2>2, <2>3, PlacedParts DEF Typed, Placed, Queues
<1>6. CASE pc[t] = "requeued" /\ lockQ' = Append(Without(lockQ, t), t)
           /\ cancelled' = cancelled \cup {t} /\ UNCHANGED <<pc, condQ>>
  <2>1. \A S : At(S)' = At(S)
    BY <1>6 DEF At
  <2>2. t \in At({"woken", "requeued"}) /\ t \in At(ForLock)
    BY <1>6 DEF At, ForLock
  <2>3. LineUp(lockQ', (At(ForLock) \ {t}) \cup {t})
    BY <1>6, WithoutLeavesOthers, AppendToLineUp DEF Placed, Queues
  <2>4. (At(ForLock) \ {t}) \cup {t} = At(ForLock)
    BY <2>2
  <2>5. Asked'
    BY <1>1, <1>2, <1>6 DEF Asked
  <2> QED
    BY <1>1, <1>2, <1>6, <2>1, <2>2, <2>3, <2>4, <2>5, PlacedParts DEF Typed, Placed, Queues
<1> QED
  BY <1>3, <1>4, <1>5, <1>6 DEF Timeout

\* Every step keeps the types, the queues and the places, if a task that is
\* to give back a connection has one.
LEMMA PlacedStep == Placed /\ HoldersHold /\ [Next]_vars => Placed'
<1> SUFFICES ASSUME Placed, HoldersHold, [Next]_vars PROVE Placed'
  OBVIOUS
<1>t. Typed /\ Asked /\ StoreTypeOK
  BY DEF Placed, Typed, StoreTypeOK
<1>1. ASSUME NEW t \in Tasks,
             \/ \E h \in Hosts : Acquire(t, h)
             \/ Start(t) \/ Resume(t) \/ Grant(t) \/ Release(t) \/ Discard(t)
      PROVE  Placed'
  <2>1. ASSUME NEW h \in Hosts, Begins(t, h) PROVE Placed'
    <3>1. LineUp(lockQ', At(ForLock) \ {t})
      <4>1. t \notin At(ForLock)
        BY <2>1 DEF Begins, At, ForLock
      <4>2. At(ForLock) \ {t} = At(ForLock)
        BY <4>1
      <4> QED
        BY <2>1, <4>2 DEF Begins, Placed, Queues
    <3>2. "starting" \in Places \ (ForLock \cup {"waiting"})
      BY DEF Places, ForLock
    <3>3. StoreTypeOK'
      BY <1>t, <2>1 DEF Begins, poolVars, StoreTypeOK
    <3>4. /\ want' \in [Tasks -> Hosts \cup {Nothing}] /\ want'[t] \in Hosts
          /\ \A u \in Tasks \ {t} : want'[u] = want[u]
      BY <1>t, <2>1 DEF Begins, Typed
    <3> QED
      BY <2>1, <3>1, <3>2, <3>3, <3>4, GotoKeepsPlaces DEF Begins
  <2>2. ASSUME Returns(t) PROVE Placed'
    <3>1. conn[t] # Nothing
      BY <2>2 DEF Returns, HoldersHold
    <3> QED
      BY <2>2, <3>1, ReturnsKeepsPlaces
  <2> QED
    BY <1>1, <1>t, <2>1, <2>2, FormsOfStep, ServesKeepsPlaces, DelaysKeepsPlaces
<1>2. ASSUME NEW t \in Tasks, Opened(t) \/ OpenFails(t) PROVE Placed'
  <2>1. pc[t] = "opening" /\ want[t] \in Hosts /\ UNCHANGED <<want, lockQ, cancelled>>
    BY <1>2, <1>t DEF Opened, OpenFails, Asked
  <2>2. LineUp(lockQ', At(ForLock) \ {t})
    <3>1. t \notin At(ForLock)
      BY <2>1 DEF At, ForLock
    <3>2. At(ForLock) \ {t} = At(ForLock)
      BY <3>1
    <3> QED
      BY <2>1, <3>2 DEF Placed, Queues
  <2>3. PICK p \in {"holding", Over} : Goto(t, p)
    BY <1>2 DEF Opened, OpenFails
  <2>4. p \in Places \ (ForLock \cup {"waiting"})
    BY <2>3 DEF Over, Places, ForLock
  <2>5. StoreTypeOK'
    <3>1. CASE Opened(t)
      BY <1>t, <2>1, <3>1, OpenedTypes
    <3>2. CASE OpenFails(t)
      BY <1>t, <3>2 DEF OpenFails, StoreTypeOK, poolVars
    <3> QED
      BY <1>2, <3>1, <3>2
  <2> QED
    BY <1>t, <2>1, <2>2, <2>3, <2>4, <2>5, GotoKeepsPlaces DEF Typed
<1>3. ASSUME NEW t \in Tasks, CancelReturn(t) PROVE Placed'
  <2>1. LineUp(lockQ', At(ForLock) \ {t})
    BY <1>3, WithoutLeavesOthers DEF CancelReturn, Cancelled, Placed, Queues
  <2>2. "gone" \in Places \ (ForLock \cup {"waiting"})
    BY DEF Places, ForLock
  <2>3. StoreTypeOK' /\ want[t] \in Hosts /\ want' = want
    BY <1>t, <1>3 DEF CancelReturn, StoreTypeOK, poolVars, Asked
  <2> QED
    BY <1>t, <1>3, <2>1, <2>2, <2>3, GotoKeepsPlaces DEF CancelReturn, Typed
<1>4. ASSUME NEW t \in Tasks, Timeout(t) PROVE Placed'
  BY <1>4, TimeoutKeepsPlaces
<1>5. CASE UNCHANGED vars
  <2>1. \A S : At(S)' = At(S)
    BY <1>5 DEF vars, At
  <2> QED
    BY <1>5, <2>1 DEF vars, Placed, Typed, Queues, Asked
<1> QED
  BY <1>1, <1>2, <1>3, <1>4, <1>5 DEF Next
-----------------------------------------------------------------------------
(* Who has a connection *)

\* t ends its step at p with c in hand, or Nothing.
LEMMA HeldAfter ==
  ASSUME Typed, HoldersHold, NEW t \in Tasks, NEW p, NEW c, Moves(t, p),
         conn' = [conn EXCEPT ![t] = c],
         c # Nothing <=> p \in With,
         c # Nothing => \A u \in Tasks \ {t} : conn[u] # c,
         \A u \in Tasks \ {t} : conn[u] # Nothing => conn[u] \notin idle',
         c # Nothing => c \notin idle'
  PROVE  HoldersHold'
<1>1. conn'[t] = c /\ \A u \in Tasks \ {t} : conn'[u] = conn[u]
  BY DEF Typed
<1>2. ASSUME NEW u \in Tasks PROVE conn'[u] # Nothing <=> pc'[u] \in With
  <2>1. CASE u = t
    BY <1>1, <2>1 DEF Moves
  <2>2. CASE u # t
    BY <1>1, <2>2 DEF Moves, HoldersHold, With
  <2> QED
    BY <2>1, <2>2
<1>3. ASSUME NEW u \in Tasks, NEW v \in Tasks, u # v, conn'[u] # Nothing
      PROVE  conn'[u] # conn'[v]
  BY <1>1, <1>3 DEF HoldersHold
<1>4. \A u \in Tasks : conn'[u] # Nothing => conn'[u] \notin idle'
  BY <1>1
<1>5. Lent' \cap idle' = {}
  BY <1>4 DEF Lent
<1> QED
  BY <1>2, <1>3, <1>5 DEF HoldersHold, With

\* No connection changes hands.
LEMMA HeldStill ==
  ASSUME Typed, HoldersHold, NEW t \in Tasks, NEW p, Moves(t, p),
         UNCHANGED conn, idle' \subseteq idle, pc[t] \in With <=> p \in With
  PROVE  HoldersHold'
<1>1. conn' = [conn EXCEPT ![t] = conn[t]]
  BY DEF Typed
<1>2. \A u \in Tasks : conn[u] # Nothing => conn[u] \notin idle'
  BY DEF HoldersHold, Lent
<1>3. \A u \in Tasks \ {t} : conn[t] # Nothing => conn[u] # conn[t]
  BY DEF HoldersHold
<1>4. conn[t] # Nothing <=> p \in With
  BY DEF HoldersHold, With
<1> QED
  BY <1>1, <1>2, <1>3, <1>4, HeldAfter

LEMMA HoldersInit == Init => HoldersHold
  BY DEF Init, HoldersHold, Lent

\* Where a task with the lock ends, and whom it wakes.
LEMMA ReturnsMoves ==
  ASSUME Placed, NEW t \in Tasks, Returns(t)
  PROVE  Moves(t, Over)
<1>1. Over \in Places \ ({"waiting"} \cup ForLock) /\ Notify(t, Over) /\ pc[t] # "waiting"
  BY DEF Over, Places, ForLock, Returns, GiveBack, CloseConn
<1> QED
  BY <1>1, NotifyPlaces DEF Placed

LEMMA GotoMoves ==
  ASSUME Typed, NEW t \in Tasks, NEW p, Goto(t, p)
  PROVE  Moves(t, p)
  BY DEF Typed, Goto, Moves

LEMMA TimeoutMoves ==
  ASSUME Typed, NEW t \in Tasks, Timeout(t)
  PROVE  /\ \E p \in {Over, "woken", "requeued"} : Moves(t, p)
         /\ pc[t] \in {"starting", "queued", "opening", "waiting", "woken", "requeued"}
<1>1. CASE Goto(t, Over) /\ pc[t] \in {"starting", "queued", "opening"}
  BY <1>1, GotoMoves
<1>2. CASE pc[t] = "waiting" /\ pc' = [pc EXCEPT ![t] = "woken"]
  BY <1>2 DEF Typed, Moves
<1>3. CASE pc[t] \in {"woken", "requeued"} /\ UNCHANGED pc
  <2>1. Moves(t, pc[t])
    BY <1>3 DEF Moves
  <2> QED
    BY <1>3, <2>1
<1> QED
  BY <1>1, <1>2, <1>3 DEF Timeout

LEMMA OverIsWithout == Over \notin With /\ Over # "opening"
  BY DEF Over, With

LEMMA HoldersStep == Placed /\ HoldersHold /\ [Next]_vars => HoldersHold'
<1> SUFFICES ASSUME Placed, HoldersHold, [Next]_vars PROVE HoldersHold'
  OBVIOUS
<1>t. Typed /\ Asked
  BY DEF Placed
<1>h. /\ \A u \in Tasks : conn[u] # Nothing => conn[u] \notin idle
      /\ \A u \in Tasks : conn[u] # Nothing <=> pc[u] \in With
      /\ \A u, v \in Tasks : u # v /\ conn[u] # Nothing => conn[u] # conn[v]
  BY DEF HoldersHold, Lent, With
<1>n. Nothing \notin idle
  BY <1>t, NothingAssumption DEF Typed
<1>1. ASSUME NEW t \in Tasks, NEW h \in Hosts, Serves(t, h) PROVE HoldersHold'
  <2>1. pc[t] \notin With
    BY <1>1 DEF Serves, With
  <2>2. CASE Reuse(t, h)
    <3>1. PICK k \in LastIdleTo(h) : TakeOffIdle({k}) /\ conn' = [conn EXCEPT ![t] = k]
      BY <2>2 DEF Reuse
    <3>2. k \in idle /\ idle' = idle \ {k} /\ k # Nothing
      BY <1>n, <3>1 DEF LastIdleTo, TakeOffIdle
    <3>3. Moves(t, "holding") /\ "holding" \in With
      BY <1>t, <2>2, GotoMoves DEF Reuse, With
    <3>4. \A u \in Tasks \ {t} : conn[u] # k /\ (conn[u] # Nothing => conn[u] \notin idle')
      BY <1>h, <3>2
    <3>5. k \notin idle'
      BY <3>2
    <3> HIDE DEF Moves, With
    <3> QED
      BY <1>t, <3>1, <3>2, <3>3, <3>4, <3>5, HeldAfter
  <2>3. ASSUME NEW p \in {"waiting", "opening", Over}, Moves(t, p), UNCHANGED conn, idle' \subseteq idle
        PROVE  HoldersHold'
    <3>1. p \notin With
      BY <2>3, OverIsWithout DEF With
    <3> QED
      BY <1>t, <2>1, <2>3, <3>1, HeldStill
  <2>4. CASE Wait(t, h)
    <3>1. Moves(t, "waiting")
      BY <1>t, <2>4 DEF Wait, Moves, Typed
    <3> QED
      BY <2>3, <2>4, <3>1 DEF Wait, poolVars
  <2>5. CASE BeginOpen(t, h)
    <3>1. idle' \subseteq idle
      BY <2>5 DEF BeginOpen, TakeOffIdle, poolVars
    <3> QED
      BY <1>t, <2>3, <2>5, <3>1, GotoMoves DEF BeginOpen
  <2>6. CASE GiveUp(t)
    BY <1>t, <2>3, <2>6, GotoMoves DEF GiveUp, poolVars
  <2> QED
    BY <1>1, <2>2, <2>4, <2>5, <2>6 DEF Serves, Try
<1>2. ASSUME NEW t \in Tasks, Returns(t) PROVE HoldersHold'
  <2>1. Moves(t, Over) /\ Over \notin With
    BY <1>2, ReturnsMoves, OverIsWithout
  <2>2. conn[t] # Nothing
    BY <1>2, <1>h DEF Returns, With
  <2>3. conn' = [conn EXCEPT ![t] = Nothing] /\ idle' \subseteq idle \cup {conn[t]}
    BY <1>2 DEF Returns, GiveBack, CloseConn
  <2>4. \A u \in Tasks \ {t} : conn[u] # Nothing => conn[u] \notin idle'
    BY <1>h, <2>2, <2>3
  <2> QED
    BY <1>t, <2>1, <2>3, <2>4, HeldAfter
<1>3. ASSUME NEW t \in Tasks, NEW p \in ForLock, Delays(t, p) PROVE HoldersHold'
  <2>1. Moves(t, p)
    BY <1>3, <1>t, GotoMoves DEF Delays, Queue
  <2>2. pc[t] \in With <=> p \in With
    BY <1>3 DEF Delays, With
  <2> QED
    BY <1>t, <1>3, <2>1, <2>2, HeldStill DEF Delays, Queue, poolVars
<1>4. ASSUME NEW t \in Tasks, NEW h \in Hosts, Begins(t, h) PROVE HoldersHold'
  <2>1. Moves(t, "starting") /\ "starting" \notin With /\ pc[t] \notin With
    BY <1>4, <1>t, GotoMoves DEF Begins, With
  <2> QED
    BY <1>t, <1>4, <2>1, HeldStill DEF Begins, poolVars
<1>5. ASSUME NEW t \in Tasks, Opened(t) PROVE HoldersHold'
  <2>1. PICK k : k \notin OpenConns /\ k \in Connection /\ conn' = [conn EXCEPT ![t] = k]
    <3>1. PICK n \in 1..MaxTotal + 1 :
            LET k == [host |-> want[t], conn_id |-> n]
            IN  k \notin OpenConns /\ conn' = [conn EXCEPT ![t] = k]
      BY <1>5 DEF Opened
    <3>2. want[t] \in Hosts
      BY <1>5, <1>t DEF Opened, Asked
    <3> QED
      BY <3>1, <3>2 DEF Connection
  <2>2. Moves(t, "holding") /\ "holding" \in With /\ idle' = idle
    BY <1>5, <1>t, GotoMoves DEF Opened, With
  <2>3. k # Nothing /\ k \notin idle'
    BY <2>1, <2>2, NothingAssumption DEF OpenConns
  <2>4. \A u \in Tasks \ {t} : conn[u] # k /\ (conn[u] # Nothing => conn[u] \notin idle')
    BY <1>h, <2>1, <2>2, <2>3 DEF OpenConns, Lent
  <2> QED
    BY <1>t, <2>1, <2>2, <2>3, <2>4, HeldAfter
<1>6. ASSUME NEW t \in Tasks, OpenFails(t) PROVE HoldersHold'
  <2>1. Moves(t, Over) /\ Over \notin With /\ pc[t] \notin With
    BY <1>6, <1>t, GotoMoves, OverIsWithout DEF OpenFails, With
  <2> QED
    BY <1>t, <1>6, <2>1, HeldStill DEF OpenFails, poolVars
<1>7. ASSUME NEW t \in Tasks, Timeout(t) PROVE HoldersHold'
  <2>1. PICK p \in {Over, "woken", "requeued"} : Moves(t, p)
    BY <1>7, <1>t, TimeoutMoves
  <2>2. p \notin With /\ pc[t] \notin With
    BY <1>7, <1>t, TimeoutMoves, OverIsWithout DEF With
  <2> QED
    BY <1>t, <1>7, <2>1, <2>2, HeldStill DEF Timeout, poolVars
<1>8. ASSUME NEW t \in Tasks, CancelReturn(t) PROVE HoldersHold'
  <2>1. Moves(t, "gone") /\ "gone" \in With /\ pc[t] \in With
    BY <1>8, <1>t, GotoMoves DEF CancelReturn, With
  <2> QED
    BY <1>t, <1>8, <2>1, HeldStill DEF CancelReturn, poolVars
<1>9. CASE UNCHANGED vars
  BY <1>9 DEF vars, HoldersHold, Lent
<1> QED
  BY <1>t, <1>1, <1>2, <1>3, <1>4, <1>5, <1>6, <1>7, <1>8, <1>9, FormsOfStep DEF Next

\* The lock and the condition of the pool never lose a task, and a connection
\* never leaves the pool with a call that timed out or failed, for any tasks
\* and whatever is cancelled where (async_pool.py:134-183).
THEOREM NoTaskOrConnectionLost == Spec => []NobodyLost
<1>1. Init => Placed /\ HoldersHold
  BY PlacedInit, HoldersInit
<1>2. Placed /\ HoldersHold /\ [Next]_vars => (Placed /\ HoldersHold)'
  BY PlacedStep, HoldersStep
<1>3. Placed /\ HoldersHold => NobodyLost
  <2> SUFFICES ASSUME Placed, HoldersHold PROVE QueuesMatchPlaces
    BY DEF NobodyLost, Placed
  <2>1. ASSUME NEW t \in Tasks
        PROVE  /\ Cardinality({i \in DOMAIN lockQ : lockQ[i] = t}) =
                    IF pc[t] \in ForLock THEN 1 ELSE 0
               /\ Cardinality({i \in DOMAIN condQ : condQ[i] = t}) =
                    IF pc[t] = "waiting" THEN 1 ELSE 0
    <3>1. t \in At(ForLock) <=> pc[t] \in ForLock
      BY DEF At
    <3>2. t \in At({"waiting"}) <=> pc[t] = "waiting"
      BY DEF At
    <3> QED
      BY <3>1, <3>2, OnceInLineUp DEF Placed, Queues
  <2>2. cancelled \subseteq {t \in Tasks : pc[t] \in {"woken", "requeued"}}
    BY DEF Placed, Queues, At
  <2> QED
    BY <2>1, <2>2 DEF QueuesMatchPlaces, ForLock
<1> QED
  BY <1>1, <1>2, <1>3, PTL DEF Spec
-----------------------------------------------------------------------------
(* The counters *)

\* What the counters say of the open connections.
Counts ==
  /\ IsFiniteSet(OpenConns)
  /\ totalLive = Cardinality(OpenConns) /\ totalLive <= MaxTotal
  /\ \A h \in Hosts : Cardinality(OpenTo(h)) <= live[h] /\ live[h] <= PerHost

\* At most one task awaits the factory, and the room it found is there.
RoomKept ==
  /\ \A t, u \in Tasks : pc[t] = "opening" /\ pc[u] = "opening" => t = u
  /\ \A t \in Tasks :
       pc[t] = "opening" => totalLive < MaxTotal /\ live[want[t]] < PerHost

Sound == Placed /\ HoldersHold /\ Counts /\ RoomKept

LEMMA LentAfter ==
  ASSUME Typed, HoldersHold, NEW t \in Tasks, NEW c, conn' = [conn EXCEPT ![t] = c]
  PROVE  Lent' = (Lent \ {conn[t]}) \cup ({c} \ {Nothing})
<1>1. conn'[t] = c /\ \A u \in Tasks \ {t} : conn'[u] = conn[u]
  BY DEF Typed
<1>2. \A u \in Tasks \ {t} : conn[u] # Nothing => conn[u] # conn[t]
  BY DEF HoldersHold
<1>3. Lent' = {conn'[u] : u \in Tasks} \ {Nothing}
  BY DEF Lent
<1>4. Lent' \subseteq (Lent \ {conn[t]}) \cup ({c} \ {Nothing})
  <2> SUFFICES ASSUME NEW u \in Tasks, conn'[u] # Nothing
               PROVE  conn'[u] \in (Lent \ {conn[t]}) \cup ({c} \ {Nothing})
    BY <1>3
  <2> QED
    BY <1>1, <1>2 DEF Lent
<1>5. (Lent \ {conn[t]}) \cup ({c} \ {Nothing}) \subseteq Lent'
  <2>1. ASSUME NEW u \in Tasks, conn[u] # Nothing, conn[u] # conn[t] PROVE conn[u] \in Lent'
    <3>1. conn'[u] = conn[u]
      BY <1>1, <2>1
    <3> QED
      BY <1>3, <2>1, <3>1
  <2>2. c # Nothing => c \in Lent'
    BY <1>1, <1>3
  <2> QED
    BY <2>1, <2>2 DEF Lent
<1> QED
  BY <1>4, <1>5

\* The ceilings and counters when one connection is closed.
LEMMA CountsWithoutOne ==
  ASSUME Counts, Typed, NEW k \in OpenConns, k.host \in Hosts,
         OpenConns' = OpenConns \ {k},
         totalLive' = totalLive - 1,
         live' = live \/ live' = [live EXCEPT ![k.host] = @ - 1]
  PROVE  Counts'
<1>1. IsFiniteSet(OpenConns') /\ Cardinality(OpenConns') = totalLive'
  BY FS_RemoveElement DEF Counts
<1>2. totalLive' <= MaxTotal
  BY AsyncPoolAssumption DEF Counts, Typed
<1>3. ASSUME NEW h \in Hosts
      PROVE  Cardinality(OpenTo(h)') <= live'[h] /\ live'[h] <= PerHost
  <2>1. OpenTo(h)' = IF h = k.host THEN OpenTo(h) \ {k} ELSE OpenTo(h)
    BY DEF OpenTo
  <2>2. IsFiniteSet(OpenTo(h))
    BY FS_Subset DEF OpenTo, Counts
  <2>3. /\ Cardinality(OpenTo(h)) <= live[h] /\ Cardinality(OpenTo(h)) \in Nat
        /\ live[h] <= PerHost /\ live[h] \in Int
    BY <2>2, FS_CardinalityType DEF Counts, Typed
  <2>4. CASE h = k.host
    <3>1. k \in OpenTo(h)
      BY <2>4 DEF OpenTo
    <3>2. Cardinality(OpenTo(h) \ {k}) = Cardinality(OpenTo(h)) - 1
      BY <2>2, <3>1, FS_RemoveElement
    <3>3. live'[h] = live[h] - 1 \/ live'[h] = live[h]
      BY <2>4 DEF Typed
    <3> QED
      BY <2>1, <2>3, <2>4, <3>2, <3>3, AsyncPoolAssumption
  <2>5. CASE h # k.host
    <3>1. live'[h] = live[h]
      BY <2>5 DEF Typed
    <3> QED
      BY <2>1, <2>3, <2>5, <3>1
  <2> QED
    BY <2>4, <2>5
<1> QED
  BY <1>1, <1>2, <1>3 DEF Counts

\* The ceilings and counters when one connection is opened, in the room that
\* was found for it.
LEMMA CountsWithOneMore ==
  ASSUME Counts, Typed, NEW k, k \notin OpenConns, k.host \in Hosts,
         OpenConns' = OpenConns \cup {k},
         totalLive' = totalLive + 1, totalLive < MaxTotal,
         live' = [live EXCEPT ![k.host] = @ + 1], live[k.host] < PerHost
  PROVE  Counts'
<1>1. IsFiniteSet(OpenConns') /\ Cardinality(OpenConns') = totalLive'
  BY FS_AddElement DEF Counts
<1>2. totalLive' <= MaxTotal
  BY AsyncPoolAssumption DEF Typed
<1>3. ASSUME NEW h \in Hosts
      PROVE  Cardinality(OpenTo(h)') <= live'[h] /\ live'[h] <= PerHost
  <2>1. OpenTo(h)' = IF h = k.host THEN OpenTo(h) \cup {k} ELSE OpenTo(h)
    BY DEF OpenTo
  <2>2. IsFiniteSet(OpenTo(h))
    BY FS_Subset DEF OpenTo, Counts
  <2>3. /\ Cardinality(OpenTo(h)) <= live[h] /\ Cardinality(OpenTo(h)) \in Nat
        /\ live[h] <= PerHost /\ live[h] \in Int
    BY <2>2, FS_CardinalityType DEF Counts, Typed
  <2>4. CASE h = k.host
    <3>1. k \notin OpenTo(h)
      BY DEF OpenTo
    <3>2. Cardinality(OpenTo(h) \cup {k}) = Cardinality(OpenTo(h)) + 1
      BY <2>2, <3>1, FS_AddElement
    <3>3. live'[h] = live[h] + 1 /\ live[h] < PerHost
      BY <2>4 DEF Typed
    <3> QED
      BY <2>1, <2>3, <2>4, <3>2, <3>3, AsyncPoolAssumption
  <2>5. CASE h # k.host
    <3>1. live'[h] = live[h]
      BY <2>5 DEF Typed
    <3> QED
      BY <2>1, <2>3, <2>5, <3>1
  <2> QED
    BY <2>4, <2>5
<1> QED
  BY <1>1, <1>2, <1>3 DEF Counts

\* A step that opens and closes nothing.
LEMMA CountsStill ==
  ASSUME Counts, OpenConns' = OpenConns, UNCHANGED <<live, totalLive>>
  PROVE  Counts'
<1>1. \A h \in Hosts : OpenTo(h)' = OpenTo(h)
  BY DEF OpenTo
<1> QED
  BY <1>1 DEF Counts

\* Room stays where nobody new opens a connection and the counters stay.
LEMMA RoomStill ==
  ASSUME RoomKept, Asked, NEW t \in Tasks, NEW p, Moves(t, p), p # "opening",
         UNCHANGED <<live, totalLive>>, \A u \in Tasks \ {t} : want'[u] = want[u]
  PROVE  RoomKept'
<1>1. ASSUME NEW u \in Tasks, pc'[u] = "opening" PROVE u # t /\ pc[u] = "opening" /\ want'[u] = want[u]
  BY <1>1 DEF Moves
<1> QED
  BY <1>1 DEF RoomKept

\* Room is free when the lock was free and nobody new opens a connection.
LEMMA RoomUnlocked ==
  ASSUME ~Locked, NEW t \in Tasks, NEW p, Moves(t, p), p # "opening"
  PROVE  RoomKept'
<1>1. ASSUME NEW u \in Tasks, pc'[u] = "opening" PROVE FALSE
  BY <1>1 DEF Moves, Locked
<1> QED
  BY <1>1 DEF RoomKept

LEMMA CountsInit == Init => Counts /\ RoomKept
<1> SUFFICES ASSUME Init PROVE Counts /\ RoomKept
  OBVIOUS
<1>1. OpenConns = {}
  BY DEF Init, OpenConns, Lent
<1>2. \A h \in Hosts : OpenTo(h) = {}
  BY <1>1 DEF OpenTo
<1>3. totalLive = 0 /\ totalLive <= MaxTotal /\ \A h \in Hosts : live[h] = 0 /\ live[h] <= PerHost
  BY AsyncPoolAssumption DEF Init
<1>4. IsFiniteSet({}) /\ Cardinality({}) = 0
  BY FS_EmptySet
<1>5. Counts
  BY <1>1, <1>2, <1>3, <1>4 DEF Counts
<1>6. RoomKept
  BY DEF Init, RoomKept
<1> QED
  BY <1>5, <1>6

LEMMA CountsStep == Sound /\ [Next]_vars => (Counts /\ RoomKept)'
<1> SUFFICES ASSUME Sound, [Next]_vars PROVE Counts' /\ RoomKept'
  OBVIOUS
<1>t. Typed /\ Asked /\ HoldersHold /\ Counts /\ RoomKept /\ Placed
  BY DEF Sound, Placed
<1>k. \A k \in OpenConns : k \in Connection /\ k.host \in Hosts
  BY <1>t DEF Typed, OpenConns, Lent, Connection
<1>0. ASSUME UNCHANGED <<idle, conn, live, totalLive>> PROVE Counts'
  BY <1>t, <1>0, CountsStill DEF OpenConns, Lent
<1>1. ASSUME NEW t \in Tasks, NEW h \in Hosts, Serves(t, h) PROVE Counts' /\ RoomKept'
  <2>1. ~Locked /\ conn[t] = Nothing
    BY <1>1, <1>t DEF Serves, Enters, Locks, HoldersHold
  <2>2. CASE Reuse(t, h)
    <3>1. PICK k \in LastIdleTo(h) : TakeOffIdle({k}) /\ conn' = [conn EXCEPT ![t] = k]
      BY <2>2 DEF Reuse
    <3>2. k \in idle /\ idle' = idle \ {k} /\ k # Nothing
      BY <1>t, <3>1, NothingAssumption DEF LastIdleTo, TakeOffIdle, Typed
    <3>3. Lent' = Lent \cup {k}
      <4>1. Lent' = (Lent \ {conn[t]}) \cup ({k} \ {Nothing})
        BY <1>t, <3>1, LentAfter
      <4> QED
        BY <2>1, <3>2, <4>1 DEF Lent
    <3>4. OpenConns' = OpenConns
      BY <3>2, <3>3 DEF OpenConns
    <3>5. Moves(t, "holding")
      BY <1>t, <2>2, GotoMoves DEF Reuse
    <3> QED
      BY <1>t, <2>1, <2>2, <3>4, <3>5, CountsStill, RoomUnlocked DEF Reuse
  <2>3. CASE Wait(t, h)
    <3>1. Moves(t, "waiting")
      BY <1>t, <2>3 DEF Wait, Moves, Typed
    <3> QED
      BY <1>0, <2>1, <2>3, <3>1, RoomUnlocked DEF Wait, poolVars
  <2>4. CASE GiveUp(t)
    <3>1. Moves(t, Over) /\ Over # "opening"
      BY <1>t, <2>4, GotoMoves, OverIsWithout DEF GiveUp
    <3> QED
      BY <1>0, <2>1, <2>4, <3>1, RoomUnlocked DEF GiveUp, poolVars
  <2>5. CASE BeginOpen(t, h)
    <3>1. Moves(t, "opening") /\ live' = live /\ ~(live[h] >= PerHost) /\ conn' = conn
      BY <1>t, <2>5, GotoMoves DEF BeginOpen, AtPerHost, poolVars
    <3>2. live[h] < PerHost /\ totalLive \in Int
      BY <1>t, <3>1, AsyncPoolAssumption DEF Typed
    <3>3. Counts' /\ totalLive' < MaxTotal
      <4>1. CASE ~AtMaxTotal /\ UNCHANGED poolVars
        <5>1. totalLive < MaxTotal
          BY <3>2, <4>1, AsyncPoolAssumption DEF AtMaxTotal
        <5> QED
          BY <1>0, <3>1, <4>1, <5>1 DEF poolVars
      <4>2. CASE \E k \in OldestIdle : TakeOffIdle({k}) /\ totalLive' = totalLive - 1
        <5>1. PICK k \in OldestIdle : TakeOffIdle({k}) /\ totalLive' = totalLive - 1
          BY <4>2
        <5>2. k \in idle /\ idle' = idle \ {k} /\ Lent' = Lent
          BY <3>1, <5>1 DEF OldestIdle, TakeOffIdle, Lent
        <5>3. k \in OpenConns /\ OpenConns' = OpenConns \ {k}
          BY <1>t, <5>2 DEF OpenConns, HoldersHold
        <5>4. Counts'
          BY <1>t, <1>k, <3>1, <5>1, <5>3, CountsWithoutOne
        <5>5. totalLive' < MaxTotal
          BY <1>t, <3>2, <5>1, AsyncPoolAssumption DEF Counts
        <5> QED
          BY <5>4, <5>5
      <4> QED
        BY <2>5, <4>1, <4>2 DEF BeginOpen
    <3>4. want'[t] = h
      BY <1>1, <1>t DEF Serves, Typed
    <3>5. ASSUME NEW u \in Tasks, pc'[u] = "opening" PROVE u = t
      BY <2>1, <3>1, <3>5 DEF Moves, Locked
    <3> QED
      BY <3>1, <3>2, <3>3, <3>4, <3>5 DEF RoomKept
  <2> QED
    BY <1>1, <2>2, <2>3, <2>4, <2>5 DEF Serves, Try
<1>2. ASSUME NEW t \in Tasks, Returns(t) PROVE Counts' /\ RoomKept'
  <2>1. Moves(t, Over) /\ Over # "opening" /\ ~Locked
    BY <1>2, <1>t, ReturnsMoves, OverIsWithout DEF Returns, Enters, Locks
  <2>2. conn[t] # Nothing /\ conn[t] \in Lent /\ conn[t] \in OpenConns
    BY <1>2, <1>t DEF Returns, HoldersHold, Lent, OpenConns
  <2>3. Lent' = Lent \ {conn[t]}
    <3>1. conn' = [conn EXCEPT ![t] = Nothing]
      BY <1>2 DEF Returns, GiveBack, CloseConn
    <3> QED
      BY <1>t, <3>1, LentAfter
  <2>4. CASE GiveBack(t)
    <3>1. OpenConns' = OpenConns
      BY <2>2, <2>3, <2>4 DEF GiveBack, OpenConns
    <3> QED
      BY <1>t, <2>1, <2>4, <3>1, CountsStill, RoomUnlocked DEF GiveBack
  <2>5. CASE CloseConn(t)
    <3>1. OpenConns' = OpenConns \ {conn[t]}
      BY <1>t, <2>2, <2>3, <2>5 DEF CloseConn, OpenConns, HoldersHold
    <3>2. totalLive' = totalLive - 1 /\ live' = [live EXCEPT ![conn[t].host] = @ - 1]
      BY <2>5 DEF CloseConn, CountOut
    <3>3. Counts'
      BY <1>t, <1>k, <2>2, <3>1, <3>2, CountsWithoutOne
    <3> QED
      BY <2>1, <3>3, RoomUnlocked
  <2> QED
    BY <1>2, <2>4, <2>5 DEF Returns
<1>3. ASSUME NEW t \in Tasks, NEW p \in ForLock, Delays(t, p) PROVE Counts' /\ RoomKept'
  <2>1. Moves(t, p) /\ p # "opening"
    BY <1>3, <1>t, GotoMoves DEF Delays, Queue, ForLock
  <2>2. \A u \in Tasks \ {t} : want'[u] = want[u]
    BY <1>3, <1>t DEF Delays, Typed
  <2>3. UNCHANGED <<idle, conn, live, totalLive>>
    BY <1>3 DEF Delays, Queue, poolVars
  <2> QED
    BY <1>0, <1>t, <2>1, <2>2, <2>3, RoomStill
<1>4. ASSUME NEW t \in Tasks, NEW h \in Hosts, Begins(t, h) PROVE Counts' /\ RoomKept'
  <2>1. Moves(t, "starting")
    BY <1>4, <1>t, GotoMoves DEF Begins
  <2>2. \A u \in Tasks \ {t} : want'[u] = want[u]
    BY <1>4, <1>t DEF Begins, Typed
  <2>3. UNCHANGED <<idle, conn, live, totalLive>>
    BY <1>4 DEF Begins, poolVars
  <2> QED
    BY <1>0, <1>t, <2>1, <2>2, <2>3, RoomStill
<1>5. ASSUME NEW t \in Tasks, Opened(t) PROVE Counts' /\ RoomKept'
  <2>1. /\ pc[t] = "opening" /\ want[t] \in Hosts /\ conn[t] = Nothing
        /\ totalLive < MaxTotal /\ live[want[t]] < PerHost
    BY <1>5, <1>t DEF Opened, Asked, HoldersHold, RoomKept
  <2>2. PICK k : k \notin OpenConns /\ k.host = want[t] /\ k # Nothing
                 /\ conn' = [conn EXCEPT ![t] = k]
    <3>1. PICK n \in 1..MaxTotal + 1 :
            LET k == [host |-> want[t], conn_id |-> n]
            IN  k \notin OpenConns /\ conn' = [conn EXCEPT ![t] = k]
      BY <1>5 DEF Opened
    <3>2. [host |-> want[t], conn_id |-> n] \in Connection
      BY <2>1 DEF Connection
    <3> QED
      BY <3>1, <3>2, NothingAssumption
  <2>3. OpenConns' = OpenConns \cup {k}
    <3>1. Lent' = Lent \cup {k}
      <4>1. Lent' = (Lent \ {conn[t]}) \cup ({k} \ {Nothing})
        BY <1>t, <2>2, LentAfter
      <4> QED
        BY <2>1, <2>2, <4>1 DEF Lent
    <3> QED
      BY <1>5, <3>1 DEF Opened, OpenConns
  <2>4. Counts'
    BY <1>5, <1>t, <2>1, <2>2, <2>3, CountsWithOneMore DEF Opened
  <2>5. ASSUME NEW u \in Tasks, pc'[u] = "opening" PROVE FALSE
    <3>1. Moves(t, "holding")
      BY <1>5, <1>t, GotoMoves DEF Opened
    <3>2. u # t /\ pc[u] = "opening"
      BY <2>5, <3>1 DEF Moves
    <3> QED
      BY <1>t, <2>1, <3>2 DEF RoomKept
  <2> QED
    BY <2>4, <2>5 DEF RoomKept
<1>6. ASSUME NEW t \in Tasks, OpenFails(t) PROVE Counts' /\ RoomKept'
  <2>1. Moves(t, Over) /\ Over # "opening"
    BY <1>6, <1>t, GotoMoves, OverIsWithout DEF OpenFails
  <2> QED
    BY <1>0, <1>6, <1>t, <2>1, RoomStill DEF OpenFails, poolVars
<1>7. ASSUME NEW t \in Tasks, Timeout(t) PROVE Counts' /\ RoomKept'
  <2>1. PICK p \in {Over, "woken", "requeued"} : Moves(t, p)
    BY <1>7, <1>t, TimeoutMoves
  <2>2. p # "opening"
    BY OverIsWithout
  <2> QED
    BY <1>0, <1>7, <1>t, <2>1, <2>2, RoomStill DEF Timeout, poolVars
<1>8. ASSUME NEW t \in Tasks, CancelReturn(t) PROVE Counts' /\ RoomKept'
  <2>1. Moves(t, "gone")
    BY <1>8, <1>t, GotoMoves DEF CancelReturn
  <2> QED
    BY <1>0, <1>8, <1>t, <2>1, RoomStill DEF CancelReturn, poolVars
<1>9. CASE UNCHANGED vars
  BY <1>0, <1>9, <1>t DEF vars, RoomKept
<1> QED
  BY <1>t, <1>1, <1>2, <1>3, <1>4, <1>5, <1>6, <1>7, <1>8, <1>9, FormsOfStep DEF Next

LEMMA Inductive == Spec => []Sound
<1>1. Init => Sound
  BY PlacedInit, HoldersInit, CountsInit DEF Sound
<1>2. Sound /\ [Next]_vars => Sound'
  BY PlacedStep, HoldersStep, CountsStep DEF Sound
<1> QED
  BY <1>1, <1>2, PTL DEF Spec

\* Whatever tasks do and wherever they are cancelled, the store and the queues
\* of the lock and the condition have their types, and the counters stay within
\* their ceilings and above zero, although an eviction counts out of only one
\* of them (async_pool.py).
THEOREM TaskTypes == Spec => []TypeOK
<1>1. Sound => TypeOK
  <2> SUFFICES ASSUME Sound PROVE TypeOK
    OBVIOUS
  <2>1. Typed /\ Counts
    BY DEF Sound, Placed
  <2>2. totalLive \in 0..MaxTotal
    BY <2>1, FS_CardinalityType, AsyncPoolAssumption DEF Counts
  <2>3. ASSUME NEW h \in Hosts PROVE live[h] \in 0..PerHost
    <3>1. IsFiniteSet(OpenTo(h))
      BY <2>1, FS_Subset DEF OpenTo, Counts
    <3>2. Cardinality(OpenTo(h)) \in Nat
      BY <3>1, FS_CardinalityType
    <3> QED
      BY <2>1, <3>2, AsyncPoolAssumption DEF Counts, Typed
  <2>4. live \in [Hosts -> 0..PerHost]
    BY <2>1, <2>3 DEF Typed
  <2> QED
    BY <2>1, <2>2, <2>4 DEF Typed, TypeOK
<1> QED
  BY <1>1, Inductive, PTL

\* The counters are never below what is open and no ceiling is passed, not
\* even by the connection a task is still waiting for: the lock is held over
\* the await of the factory (async_pool.py:135-150), so that the room it has
\* found cannot be taken meanwhile.
THEOREM CeilingsHold == Spec => []Ceilings
<1>1. Sound => Ceilings
  <2> SUFFICES ASSUME Sound PROVE Ceilings
    OBVIOUS
  <2> DEFINE opening(H) == {t \in Tasks : pc[t] = "opening" /\ want[t] \in H}
  <2>1. /\ totalLive = Cardinality(OpenConns) /\ totalLive <= MaxTotal /\ totalLive \in Int
        /\ \A h \in Hosts :
             /\ Cardinality(OpenTo(h)) <= live[h] /\ live[h] <= PerHost /\ live[h] \in Int
    BY DEF Sound, Counts, Placed, Typed
  <2>2. ASSUME NEW H
        PROVE  \/ opening(H) = {}
               \/ \E t \in Tasks : opening(H) = {t} /\ pc[t] = "opening" /\ want[t] \in H
    BY DEF Sound, RoomKept
  <2>3. totalLive + Cardinality(opening(Hosts)) <= MaxTotal
    <3>1. CASE opening(Hosts) = {}
      BY <2>1, <3>1, FS_EmptySet, AsyncPoolAssumption
    <3>2. CASE \E t \in Tasks : opening(Hosts) = {t} /\ pc[t] = "opening"
      <4>1. Cardinality(opening(Hosts)) = 1 /\ totalLive < MaxTotal
        BY <3>2, FS_Singleton DEF Sound, RoomKept
      <4> QED
        BY <2>1, <4>1, AsyncPoolAssumption
    <3> QED
      BY <2>2, <3>1, <3>2
  <2>4. ASSUME NEW h \in Hosts PROVE live[h] + Cardinality(opening({h})) <= PerHost
    <3>0. live[h] <= PerHost /\ live[h] \in Int
      BY <2>1, <2>4
    <3>1. CASE opening({h}) = {}
      <4>1. Cardinality(opening({h})) = 0
        BY <3>1, FS_EmptySet
      <4> QED
        BY <3>0, <4>1, AsyncPoolAssumption
    <3>2. CASE \E t \in Tasks : opening({h}) = {t} /\ pc[t] = "opening" /\ want[t] \in {h}
      <4>1. Cardinality(opening({h})) = 1 /\ live[h] < PerHost
        BY <3>2, FS_Singleton DEF Sound, RoomKept
      <4> QED
        BY <2>1, <4>1, AsyncPoolAssumption
    <3> QED
      BY <2>2, <3>1, <3>2
  <2> HIDE DEF opening
  <2>5. QED
    BY <2>1, <2>3, <2>4 DEF Ceilings, opening
<1> QED
  BY <1>1, Inductive, PTL
-----------------------------------------------------------------------------
(* The pool implements its contract *)

\* The contract counts as the pool does.
LEMMA SameCardinality == \A S : Contract!Cardinality(S) = Cardinality(S)
  BY DEF Cardinality, Contract!Cardinality, IsFiniteSet, Contract!IsFiniteSet

\* What the contract calls leased, and how it changes with conn.
Leased == [t \in Tasks |-> {conn[t]} \ {Nothing}]

LEMMA LeasedAfter ==
  ASSUME Typed, NEW t \in Tasks, NEW c, conn' = [conn EXCEPT ![t] = c]
  PROVE  Leased' = [Leased EXCEPT ![t] = {c} \ {Nothing}]
  BY DEF Leased, Typed

LEMMA ContractStep == Sound /\ [Next]_vars => [Contract!Next]_(Contract!vars)
<1> SUFFICES ASSUME Sound, [Next]_vars PROVE [Contract!Next]_(Contract!vars)
  OBVIOUS
<1>t. Typed /\ Asked /\ HoldersHold /\ Counts /\ RoomKept /\ Placed
  BY DEF Sound, Placed
<1>v. Contract!vars = <<Leased, idle>>
  BY DEF Contract!vars, Leased
<1>0. ASSUME UNCHANGED <<idle, conn>> PROVE UNCHANGED Contract!vars
  BY <1>0 DEF Contract!vars
<1>1. ASSUME NEW t \in Tasks, NEW h \in Hosts, Serves(t, h)
      PROVE  [Contract!Next]_(Contract!vars)
  <2>1. conn[t] = Nothing
    BY <1>1, <1>t DEF Serves, HoldersHold
  <2>2. CASE Reuse(t, h)
    <3>1. PICK k \in LastIdleTo(h) : TakeOffIdle({k}) /\ conn' = [conn EXCEPT ![t] = k]
      BY <2>2 DEF Reuse
    <3>2. k \in idle /\ k \in Connection /\ idle' = idle \ {k} /\ k # Nothing
      BY <1>t, <3>1, NothingAssumption DEF LastIdleTo, TakeOffIdle, Typed
    <3>3. Leased' = [Leased EXCEPT ![t] = @ \cup {k}]
      <4>1. Leased' = [Leased EXCEPT ![t] = {k} \ {Nothing}]
        BY <1>t, <3>1, LeasedAfter
      <4>2. Leased[t] = {} /\ {k} \ {Nothing} = {k}
        BY <2>1, <3>2 DEF Leased
      <4> QED
        BY <4>1, <4>2
    <3>4. Contract!Lend(t, k)
      BY <3>2, <3>3 DEF Contract!Lend, Leased
    <3> QED
      BY <3>2, <3>4 DEF Contract!Next
  <2>3. CASE BeginOpen(t, h)
    <3>1. conn' = conn
      BY <2>3 DEF BeginOpen
    <3>2. CASE UNCHANGED poolVars
      BY <1>0, <3>1, <3>2 DEF poolVars
    <3>3. CASE \E k \in OldestIdle : TakeOffIdle({k})
      <4>1. PICK k \in OldestIdle : TakeOffIdle({k})
        BY <3>3
      <4>2. k \in idle /\ k \in Connection /\ idle' = idle \ {k}
        BY <1>t, <4>1 DEF OldestIdle, TakeOffIdle, Typed
      <4>3. Contract!Retire(k)
        BY <3>1, <4>2 DEF Contract!Retire
      <4> QED
        BY <4>2, <4>3 DEF Contract!Next
    <3> QED
      BY <2>3, <3>2, <3>3 DEF BeginOpen
  <2>4. CASE Wait(t, h) \/ GiveUp(t)
    BY <1>0, <2>4 DEF Wait, GiveUp, poolVars
  <2> QED
    BY <1>1, <2>2, <2>3, <2>4 DEF Serves, Try
<1>2. ASSUME NEW t \in Tasks, Returns(t) PROVE Contract!Next
  <2>0. PICK k : k = conn[t]
    OBVIOUS
  <2>1. k # Nothing /\ k \in Connection /\ Leased[t] = {k}
    BY <1>2, <1>t, <2>0 DEF Returns, HoldersHold, Typed, Leased
  <2>2. conn' = [conn EXCEPT ![t] = Nothing]
    BY <1>2 DEF Returns, GiveBack, CloseConn
  <2>3. Leased' = [Leased EXCEPT ![t] = @ \ {k}]
    <3>1. Leased' = [Leased EXCEPT ![t] = {Nothing} \ {Nothing}]
      BY <1>t, <2>2, LeasedAfter
    <3>2. Leased[t] \ {k} = {Nothing} \ {Nothing}
      BY <2>1
    <3> QED
      BY <3>1, <3>2
  <2>4. GiveBack(t) => Contract!Return(t, k)
    BY <2>0, <2>1, <2>3 DEF GiveBack, Contract!Return, Leased
  <2>5. CloseConn(t) => Contract!Close(t, k)
    BY <2>0, <2>1, <2>3 DEF CloseConn, Contract!Close, Leased
  <2> QED
    BY <1>2, <2>1, <2>4, <2>5 DEF Returns, Contract!Next
<1>3. ASSUME NEW t \in Tasks, Opened(t) PROVE Contract!Next
  <2>1. /\ pc[t] = "opening" /\ want[t] \in Hosts /\ conn[t] = Nothing
        /\ totalLive < MaxTotal /\ live[want[t]] < PerHost
    BY <1>3, <1>t DEF Opened, Asked, HoldersHold, RoomKept
  <2>2. PICK k \in Connection : k \notin OpenConns /\ k.host = want[t]
                                /\ conn' = [conn EXCEPT ![t] = k]
    <3>1. PICK n \in 1..MaxTotal + 1 :
            LET k == [host |-> want[t], conn_id |-> n]
            IN  k \notin OpenConns /\ conn' = [conn EXCEPT ![t] = k]
      BY <1>3 DEF Opened
    <3>2. [host |-> want[t], conn_id |-> n] \in Connection
      BY <2>1 DEF Connection
    <3> QED
      BY <3>1, <3>2
  <2>3. Contract!AllOpen = OpenConns /\ Contract!AllOpenTo(k.host) = OpenTo(want[t])
    <3>1. UNION {{conn[u]} \ {Nothing} : u \in Tasks} = Lent
      BY DEF Lent
    <3>2. Contract!AllOpen = idle \cup UNION {{conn[u]} \ {Nothing} : u \in Tasks}
      BY DEF Contract!AllOpen
    <3>3. Contract!AllOpen = OpenConns
      BY <3>1, <3>2 DEF OpenConns
    <3> QED
      BY <2>2, <3>3 DEF Contract!AllOpenTo, OpenTo
  <2>4. Cardinality(OpenTo(want[t])) < PerHost
    <3>1. IsFiniteSet(OpenTo(want[t]))
      BY <1>t, FS_Subset DEF OpenTo, Counts
    <3>2. /\ Cardinality(OpenTo(want[t])) \in Nat
          /\ Cardinality(OpenTo(want[t])) <= live[want[t]] /\ live[want[t]] \in Int
      BY <1>t, <2>1, <3>1, FS_CardinalityType DEF Counts, Typed
    <3> QED
      BY <2>1, <3>2, AsyncPoolAssumption
  <2>5. Cardinality(OpenConns \ {}) < MaxTotal
    <3>1. OpenConns \ {} = OpenConns
      OBVIOUS
    <3> QED
      BY <1>t, <2>1, <3>1 DEF Counts
  <2>6. Leased' = [Leased EXCEPT ![t] = @ \cup {k}] /\ idle' = idle \ {}
    <3>1. Leased' = [Leased EXCEPT ![t] = {k} \ {Nothing}]
      BY <1>t, <2>2, LeasedAfter
    <3>2. Leased[t] \cup {k} = {k} \ {Nothing}
      BY <2>1, <2>2, NothingAssumption DEF Leased
    <3> QED
      BY <1>3, <3>1, <3>2 DEF Opened
  <2>7. Contract!OpenNew(t, k)
    <3> SUFFICES /\ k \notin Contract!AllOpen
                 /\ Contract!Cardinality(Contract!AllOpenTo(k.host)) < PerHost
                 /\ Contract!Cardinality(Contract!AllOpen \ {}) < MaxTotal
                 /\ idle' = idle \ {}
                 /\ Leased' = [Leased EXCEPT ![t] = @ \cup {k}]
      BY DEF Contract!OpenNew, Leased
    <3> QED
      BY <2>2, <2>3, <2>4, <2>5, <2>6, SameCardinality
  <2> QED
    BY <2>2, <2>7 DEF Contract!Next
<1>4. ASSUME NEW t \in Tasks, NEW p \in ForLock, Delays(t, p) PROVE UNCHANGED Contract!vars
  BY <1>0, <1>4 DEF Delays, Queue, poolVars
<1>5. ASSUME NEW t \in Tasks, NEW h \in Hosts, Begins(t, h) PROVE UNCHANGED Contract!vars
  BY <1>0, <1>5 DEF Begins, poolVars
<1>6. ASSUME NEW t \in Tasks, OpenFails(t) \/ Timeout(t) \/ CancelReturn(t)
      PROVE  UNCHANGED Contract!vars
  BY <1>0, <1>6 DEF OpenFails, Timeout, CancelReturn, poolVars
<1>7. CASE UNCHANGED vars
  BY <1>0, <1>7 DEF vars
<1> QED
  BY <1>t, <1>1, <1>2, <1>3, <1>4, <1>5, <1>6, <1>7, FormsOfStep DEF Next

\* The asynchronous pool implements PoolContract, as the synchronous one does:
\* the lock that is given up while a task waits, the cancellations and the
\* room kept over the await never show in what the callers hold.
THEOREM ImplementsContract == Spec => ContractSpec
<1>1. Init => Contract!Init
  BY DEF Init, Contract!Init
<1>2. Sound /\ [Next]_vars => [Contract!Next]_(Contract!vars)
  BY ContractStep
<1> QED
  BY <1>1, <1>2, Inductive, PTL DEF Spec, ContractSpec, Contract!Spec
=============================================================================
