------------------------ MODULE ConnectionPool_proofs ------------------------
(***************************************************************************)
(* Proofs about ConnectionPool: its type invariant, who holds a connection *)
(* (whatever callers release and discard), and, when no caller uses one    *)
(* that it has given back, the counters, the ceilings and the              *)
(* implementation of PoolContract.                                         *)
(***************************************************************************)
EXTENDS ConnectionPool, Lists_proofs, FiniteSetTheorems, TLAPS

-----------------------------------------------------------------------------
(* The connections that pop and _evict_one_idle choose *)

\* pop takes a connection that is idle for the host.
LEMMA LastIdleIsIdle ==
  ASSUME TypeOK, NEW h \in Hosts, idle[h] # {}
  PROVE  LastIdle(h) \in idle[h] /\ LastIdle(h).host = h
<1> DEFINE T == {MaxStamps - idleSeq[k] : k \in idle[h]}
<1>1. idle[h] \subseteq Connection /\ (\A k \in idle[h] : k.host = h)
  BY DEF TypeOK
<1>2. \A k \in idle[h] : idleSeq[k] \in 0..MaxStamps
  BY <1>1 DEF TypeOK
<1>3. T \subseteq Nat /\ T # {}
  BY <1>2, PoolAssumption
<1>4. PICK n \in T : \A m \in T : n <= m
  <2> HIDE DEF T
  <2> QED
    BY <1>3, SmallestOf
<1>5. PICK k \in idle[h] : n = MaxStamps - idleSeq[k]
  BY <1>4
<1>6. \A j \in idle[h] : idleSeq[j] <= idleSeq[k]
  <2> TAKE j \in idle[h]
  <2>1. MaxStamps - idleSeq[k] <= MaxStamps - idleSeq[j]
    BY <1>4, <1>5
  <2> QED
    BY <2>1, <1>2, PoolAssumption
<1>7. LastIdle(h) \in idle[h]
  BY <1>6 DEF LastIdle
<1> QED
  BY <1>7, <1>1

\* _evict_one_idle takes an idle connection that no other was idle before.
LEMMA OldestIsIdle ==
  ASSUME TypeOK, AllIdle # {}
  PROVE  /\ Oldest \in AllIdle
         /\ Oldest \in Connection
         /\ \A j \in AllIdle : idleSeq[Oldest] <= idleSeq[j]
<1> DEFINE T == {idleSeq[k] : k \in AllIdle}
<1>1. AllIdle \subseteq Connection
  BY DEF AllIdle, TypeOK
<1>2. \A k \in AllIdle : idleSeq[k] \in Nat
  BY <1>1, PoolAssumption DEF TypeOK
<1>3. T \subseteq Nat /\ T # {}
  BY <1>2
<1>4. PICK n \in T : \A m \in T : n <= m
  <2> HIDE DEF T
  <2> QED
    BY <1>3, SmallestOf
<1>5. PICK k \in AllIdle : n = idleSeq[k]
  BY <1>4
<1>6. \A j \in AllIdle : idleSeq[k] <= idleSeq[j]
  BY <1>4, <1>5
<1>7. Oldest \in AllIdle /\ \A j \in AllIdle : idleSeq[Oldest] <= idleSeq[j]
  BY <1>6 DEF Oldest
<1> QED
  BY <1>7, <1>1
-----------------------------------------------------------------------------
(* Type correctness *)

\* An eviction only takes connections off the idle lists.
LEMMA EvictionShrinksIdle ==
  ASSUME TypeOK
  PROVE  /\ IdleAfterEviction \in [Hosts -> SUBSET Connection]
         /\ \A h \in Hosts : IdleAfterEviction[h] \subseteq idle[h]
         /\ TotalAfterEviction \in Int
<1>1. idle \in [Hosts -> SUBSET Connection] /\ totalLive \in Int
  BY DEF TypeOK
<1>2. ASSUME NEW v
      PROVE  /\ [idle EXCEPT ![v.host] = @ \ {v}] \in [Hosts -> SUBSET Connection]
             /\ \A h \in Hosts : [idle EXCEPT ![v.host] = @ \ {v}][h] \subseteq idle[h]
  BY <1>1
<1> QED
  BY <1>1, <1>2 DEF IdleAfterEviction, TotalAfterEviction

LEMMA TypeInit == Init => TypeOK
  BY PoolAssumption DEF Init, TypeOK, Outcomes

LEMMA TypeStep == TypeOK /\ [Next]_vars => TypeOK'
<1> SUFFICES ASSUME TypeOK, [Next]_vars PROVE TypeOK'
  OBVIOUS
<1> USE PoolAssumption DEF TypeOK, Outcomes
<1>1. ASSUME NEW c \in Callers, NEW h \in Hosts, AcquireIdle(c, h) PROVE TypeOK'
  <2>1. LastIdle(h) \in idle[h] /\ LastIdle(h).host = h
    BY <1>1, LastIdleIsIdle DEF AcquireIdle
  <2>2. LastIdle(h) \in Connection
    BY <2>1
  <2> QED
    BY <1>1, <2>1, <2>2 DEF AcquireIdle, TakeOffIdle
<1>2. ASSUME NEW c \in Callers, NEW h \in Hosts, AcquireMiss(c, h) PROVE TypeOK'
  BY <1>2 DEF AcquireMiss, poolVars
<1>3. ASSUME NEW c \in Callers, RejectPerHost(c) \/ RejectGlobal(c) PROVE TypeOK'
  BY <1>3 DEF RejectPerHost, RejectGlobal, Leave, poolVars
<1>4. ASSUME NEW c \in Callers, Open(c) PROVE TypeOK'
  <2>1. opened + 1 \in 1..MaxConns /\ wanted[c] \in Hosts
    BY <1>4 DEF Open, Leave
  <2>2. [host |-> wanted[c], conn_id |-> opened + 1] \in Connection
    BY <2>1 DEF Connection
  <2>3. /\ idle' \in [Hosts -> SUBSET Connection]
        /\ \A h \in Hosts : idle'[h] \subseteq idle[h]
        /\ totalLive' \in Int
    BY <1>4, EvictionShrinksIdle DEF Open
  <2>4. /\ live' \in [Hosts -> Int]
        /\ wanted' \in [Callers -> Hosts \cup {NoHost}]
        /\ lent' \in [Callers -> SUBSET Connection]
        /\ inUse' \in SUBSET Connection
        /\ outcome' \in [Callers -> Outcomes]
    BY <1>4, <2>1, <2>2 DEF Open, Leave
  <2> QED
    BY <1>4, <2>1, <2>3, <2>4 DEF Open
<1>5. ASSUME NEW c \in Callers, OpenFails(c) PROVE TypeOK'
  <2>1. /\ idle' \in [Hosts -> SUBSET Connection]
        /\ \A h \in Hosts : idle'[h] \subseteq idle[h]
        /\ totalLive' \in Int
    BY <1>5, EvictionShrinksIdle DEF OpenFails
  <2> QED
    BY <1>5, <2>1 DEF OpenFails, Leave
<1>6. ASSUME NEW c \in Callers, NEW k \in lent[c] \cup kept[c], Release(c, k) PROVE TypeOK'
  <2>1. k \in Connection /\ k.host \in Hosts
    BY DEF Connection
  <2>2. stamps + 1 \in 0..MaxStamps
    BY <1>6 DEF Release
  <2>3. /\ idle' \in [Hosts -> SUBSET Connection]
        /\ \A h \in Hosts : \A j \in idle'[h] : j.host = h
    BY <1>6, <2>1 DEF Release, PutOnIdle
  <2> QED
    BY <1>6, <2>1, <2>2, <2>3 DEF Release, LowerFlag
<1>7. ASSUME NEW c \in Callers, NEW k \in lent[c] \cup kept[c], ReleaseRefused(c, k) PROVE TypeOK'
  BY <1>7 DEF ReleaseRefused, poolVars
<1>8. ASSUME NEW c \in Callers, NEW k \in lent[c] \cup kept[c], Discard(c, k) PROVE TypeOK'
  <2>1. k \in Connection /\ k.host \in Hosts
    BY DEF Connection
  <2> QED
    BY <1>8, <2>1 DEF Discard, LowerFlag, TakeOffIdle
<1>9. CASE UNCHANGED vars
  BY <1>9 DEF vars
<1> QED
  BY <1>1, <1>2, <1>3, <1>4, <1>5, <1>6, <1>7, <1>8, <1>9 DEF Next

\* Every variable of the pool keeps its type, and every idle connection is
\* on the list of its own host.
THEOREM TypeCorrect == Spec => []TypeOK
  BY TypeInit, TypeStep, PTL DEF Spec
-----------------------------------------------------------------------------
(* Who holds a connection, whatever callers release and discard *)

\* Unless it was misreleased, a connection has one place, an idle list or one
\* caller; and its id is not one that the pool will hand out again.
Ownership ==
  /\ NoSharing
  /\ IdleIsUnused
  /\ \A c \in Callers : lent[c] \cap AllIdle \subseteq misreleased
  /\ \A k \in OpenConns : k.conn_id <= opened
  /\ \A c \in Callers : \A k \in lent[c] : k.conn_id <= opened

\* What an acquire evicts was idle, and nothing else changes.
LEMMA EvictionOfIdle ==
  ASSUME TypeOK, MustEvict => AllIdle # {}
  PROVE  LET gone == IF MustEvict THEN {Oldest} ELSE {}
         IN  /\ gone \subseteq AllIdle
             /\ UNION {IdleAfterEviction[h] : h \in Hosts} = AllIdle \ gone
<1>1. idle \in [Hosts -> SUBSET Connection] /\ \A h \in Hosts : \A k \in idle[h] : k.host = h
  BY DEF TypeOK
<1>2. ASSUME NEW v \in AllIdle
      PROVE  UNION {[idle EXCEPT ![v.host] = @ \ {v}][h] : h \in Hosts} = AllIdle \ {v}
  BY <1>1 DEF AllIdle
<1>3. CASE MustEvict
  <2>1. Oldest \in AllIdle
    BY <1>3, OldestIsIdle
  <2> QED
    BY <1>3, <2>1, <1>2 DEF IdleAfterEviction
<1>4. CASE ~MustEvict
  BY <1>4 DEF IdleAfterEviction, AllIdle
<1> QED
  BY <1>3, <1>4

\* The idle connections after each way an idle list changes.
LEMMA IdleAfterTake ==
  ASSUME TypeOK, NEW k \in Connection, TakeOffIdle(k)
  PROVE  AllIdle' = AllIdle \ {k}
  BY DEF TypeOK, TakeOffIdle, AllIdle, Connection

LEMMA IdleAfterPut ==
  ASSUME TypeOK, NEW k \in Connection, PutOnIdle(k)
  PROVE  AllIdle' = AllIdle \cup {k}
  BY DEF TypeOK, PutOnIdle, AllIdle, Connection

LEMMA OwnershipInit == Init => Ownership
  BY PoolAssumption
  DEF Init, Ownership, NoSharing, IdleIsUnused, AllIdle, OpenConns

LEMMA OwnershipStep == TypeOK /\ Ownership /\ [Next]_vars => Ownership'
<1> SUFFICES ASSUME TypeOK, Ownership, [Next]_vars PROVE Ownership'
  OBVIOUS
<1>t. /\ lent \in [Callers -> SUBSET Connection] /\ inUse \subseteq Connection
      /\ kept \in [Callers -> SUBSET Connection] /\ opened \in Int
      /\ AllIdle \subseteq Connection
  BY DEF TypeOK, AllIdle
<1> USE <1>t DEF Ownership, NoSharing, IdleIsUnused, OpenConns
<1>1. ASSUME NEW c \in Callers, NEW h \in Hosts, AcquireIdle(c, h) PROVE Ownership'
  <2> DEFINE k == LastIdle(h)
  <2>1. k \in AllIdle /\ k \in Connection
    BY <1>1, LastIdleIsIdle DEF AcquireIdle, AllIdle
  <2>2. AllIdle' = AllIdle \ {k}
    BY <1>1, <2>1, IdleAfterTake DEF AcquireIdle
  <2>3. /\ lent' = [lent EXCEPT ![c] = @ \cup {k}]
        /\ inUse' = inUse \cup {k} /\ opened' = opened /\ misreleased' = misreleased
    BY <1>1 DEF AcquireIdle
  <2> HIDE DEF k
  <2> QED
    BY <2>1, <2>2, <2>3
<1>2. ASSUME NEW c \in Callers, Open(c) PROVE Ownership'
  <2> DEFINE k == [host |-> wanted[c], conn_id |-> opened + 1]
  <2>1. k.conn_id = opened + 1 /\ opened' = opened + 1
    BY <1>2 DEF Open
  <2>2. AllIdle' \subseteq AllIdle
    BY <1>2, EvictionOfIdle DEF Open, HasRoom, AllIdle
  <2>3. /\ lent' = [lent EXCEPT ![c] = @ \cup {k}] /\ inUse' = inUse \cup {k}
        /\ misreleased' = misreleased
    BY <1>2 DEF Open
  <2>4. ~ (k.conn_id <= opened)
    BY <2>1
  <2>5. k \notin AllIdle /\ \A d \in Callers : k \notin lent[d]
    BY <2>4
  <2> HIDE DEF k
  <2>6. /\ NoSharing' /\ IdleIsUnused'
        /\ \A d \in Callers : lent'[d] \cap AllIdle' \subseteq misreleased'
    BY <2>2, <2>3, <2>5
  <2>7. \A j \in Connection : j.conn_id <= opened => j.conn_id <= opened'
    BY <2>1 DEF Connection
  <2>8. /\ \A j \in OpenConns' : j.conn_id <= opened'
        /\ \A d \in Callers : \A j \in lent'[d] : j.conn_id <= opened'
    BY <2>1, <2>2, <2>3, <2>7
  <2> QED
    BY <2>6, <2>8
<1>3. ASSUME NEW c \in Callers, OpenFails(c) PROVE Ownership'
  <2>1. AllIdle' \subseteq AllIdle
    BY <1>3, EvictionOfIdle DEF OpenFails, HasRoom, AllIdle
  <2> QED
    BY <1>3, <2>1 DEF OpenFails
<1>4. ASSUME NEW c \in Callers, NEW k \in lent[c] \cup kept[c], Release(c, k) PROVE Ownership'
  <2>1. AllIdle' = AllIdle \cup {k}
    BY <1>4, IdleAfterPut DEF Release
  <2> QED
    BY <1>4, <2>1 DEF Release, LowerFlag
<1>5. ASSUME NEW c \in Callers, NEW k \in lent[c] \cup kept[c], Discard(c, k) PROVE Ownership'
  <2>1. AllIdle' = AllIdle \ {k}
    BY <1>5, IdleAfterTake DEF Discard
  <2> QED
    BY <1>5, <2>1 DEF Discard, LowerFlag
<1>6. ASSUME NEW c \in Callers, NEW k \in lent[c] \cup kept[c], ReleaseRefused(c, k) PROVE Ownership'
  BY <1>6 DEF ReleaseRefused, poolVars, AllIdle
<1>7. ASSUME NEW c \in Callers,
             RejectPerHost(c) \/ RejectGlobal(c) \/ \E h \in Hosts : AcquireMiss(c, h)
      PROVE  Ownership'
  BY <1>7 DEF RejectPerHost, RejectGlobal, AcquireMiss, Leave, poolVars, AllIdle
<1>8. CASE UNCHANGED vars
  BY <1>8 DEF vars, AllIdle
<1> QED
  BY <1>1, <1>2, <1>3, <1>4, <1>5, <1>6, <1>7, <1>8 DEF Next

\* Whoever releases and discards what and when, two callers share only a
\* connection that was released by one who had given it back, and no
\* connection is idle and in use.
THEOREM LoansStayApart == Spec => []LoansApart
<1>1. Ownership => LoansApart
  BY DEF Ownership, LoansApart
<1> QED
  BY <1>1, TypeInit, TypeStep, OwnershipInit, OwnershipStep, PTL DEF Spec
-----------------------------------------------------------------------------
(* The counters and the ceilings, when callers use only what they hold *)

\* No handle outlives its release, and the flags are the loans.
Discipline ==
  /\ FlagsMatchLoans
  /\ misreleased = {}
  /\ \A c \in Callers : kept[c] = {}

LEMMA DisciplineInit == Init => Discipline
  BY DEF Init, Discipline, FlagsMatchLoans, AllIdle

LEMMA DisciplineStep ==
  ASSUME LateUse = {}
  PROVE  TypeOK /\ Ownership /\ Discipline /\ [Next]_vars => Discipline'
<1> SUFFICES ASSUME TypeOK, Ownership, Discipline, [Next]_vars PROVE Discipline'
  OBVIOUS
<1>t. /\ lent \in [Callers -> SUBSET Connection] /\ inUse \subseteq Connection
      /\ kept \in [Callers -> SUBSET Connection]
  BY DEF TypeOK
<1>i. IdleIsUnused'
  BY OwnershipStep DEF Ownership
<1> SUFFICES /\ inUse' = UNION {lent'[c] : c \in Callers}
             /\ \A c \in Callers : kept'[c] = {}
             /\ misreleased' = {}
  BY <1>i DEF Discipline, FlagsMatchLoans, IdleIsUnused
<1>d. /\ inUse = UNION {lent[c] : c \in Callers} /\ \A c \in Callers : kept[c] = {}
      /\ misreleased = {}
  BY DEF Discipline, FlagsMatchLoans
<1>o. \A c, d \in Callers : c # d => lent[c] \cap lent[d] = {}
  BY <1>d DEF Ownership, NoSharing
<1> USE <1>t, <1>d
<1>1. ASSUME NEW c \in Callers, NEW h \in Hosts, AcquireIdle(c, h)
      PROVE  /\ inUse' = UNION {lent'[d] : d \in Callers}
             /\ \A d \in Callers : kept'[d] = {}
             /\ misreleased' = {}
  BY <1>1 DEF AcquireIdle
<1>2. ASSUME NEW c \in Callers, Open(c)
      PROVE  /\ inUse' = UNION {lent'[d] : d \in Callers}
             /\ \A d \in Callers : kept'[d] = {}
             /\ misreleased' = {}
  BY <1>2 DEF Open
<1>3. ASSUME NEW c \in Callers, NEW k \in lent[c] \cup kept[c], Release(c, k)
      PROVE  /\ inUse' = UNION {lent'[d] : d \in Callers}
             /\ \A d \in Callers : kept'[d] = {}
             /\ misreleased' = {}
  BY <1>3, <1>o DEF Release, LowerFlag, Handles
<1>4. ASSUME NEW c \in Callers, NEW k \in lent[c] \cup kept[c], Discard(c, k)
      PROVE  /\ inUse' = UNION {lent'[d] : d \in Callers}
             /\ \A d \in Callers : kept'[d] = {}
             /\ misreleased' = {}
  BY <1>4, <1>o DEF Discard, LowerFlag, Handles
<1>5. ASSUME NEW c \in Callers, NEW k \in lent[c] \cup kept[c] PROVE ~ReleaseRefused(c, k)
  BY DEF ReleaseRefused, Handles
<1>6. ASSUME NEW c \in Callers,
             \/ RejectPerHost(c) \/ RejectGlobal(c) \/ OpenFails(c)
             \/ \E h \in Hosts : AcquireMiss(c, h)
      PROVE  /\ inUse' = UNION {lent'[d] : d \in Callers}
             /\ \A d \in Callers : kept'[d] = {}
             /\ misreleased' = {}
  BY <1>6 DEF RejectPerHost, RejectGlobal, OpenFails, AcquireMiss, poolVars
<1>7. CASE UNCHANGED vars
  BY <1>7 DEF vars
<1> QED
  BY <1>1, <1>2, <1>3, <1>4, <1>5, <1>6, <1>7 DEF Next

\* The counters are right and within the ceilings.
Counting ==
  /\ IsFiniteSet(OpenConns)
  /\ GlobalCeiling
  /\ PerHostCeiling

LEMMA CountingInit == Init => Counting
<1> SUFFICES ASSUME Init PROVE Counting
  OBVIOUS
<1>1. OpenConns = {} /\ \A h \in Hosts : OpenTo(h) = {}
  BY DEF Init, OpenConns, OpenTo, AllIdle
<1>2. IsFiniteSet({}) /\ Cardinality({}) = 0
  BY FS_EmptySet
<1>3. totalLive = 0 /\ \A h \in Hosts : live[h] = 0
  BY DEF Init
<1> QED
  BY <1>1, <1>2, <1>3, PoolAssumption DEF Counting, GlobalCeiling, PerHostCeiling

\* A step that closes and opens nothing and leaves the counters alone.
LEMMA CountingFrame ==
  ASSUME Counting, OpenConns' = OpenConns, UNCHANGED <<live, totalLive>>
  PROVE  Counting'
<1>1. \A h : OpenTo(h)' = OpenTo(h)
  BY DEF OpenTo
<1> QED
  BY <1>1 DEF Counting, GlobalCeiling, PerHostCeiling

\* An eviction leaves room for one connection more, and makes the number of
\* connections to a host smaller than its counter, never larger.
LEMMA EvictionCounts ==
  ASSUME TypeOK, Ownership, Counting, MustEvict => AllIdle # {}
  PROVE  LET left == OpenConns \ (IF MustEvict THEN {Oldest} ELSE {})
         IN  /\ IsFiniteSet(left)
             /\ Cardinality(left) = TotalAfterEviction
             /\ TotalAfterEviction < MaxTotal
             /\ \A h \in Hosts : /\ IsFiniteSet({k \in left : k.host = h})
                                /\ Cardinality({k \in left : k.host = h}) <= live[h]
<1> DEFINE left == OpenConns \ (IF MustEvict THEN {Oldest} ELSE {})
<1>c. /\ IsFiniteSet(OpenConns) /\ Cardinality(OpenConns) = totalLive
      /\ Cardinality(OpenConns) \in Nat /\ totalLive <= MaxTotal
  BY FS_CardinalityType DEF Counting, GlobalCeiling
<1>1. /\ IsFiniteSet(left)
      /\ Cardinality(left) = TotalAfterEviction
      /\ TotalAfterEviction < MaxTotal
  <2>1. CASE MustEvict
    <3>1. Oldest \in OpenConns
      BY <2>1, OldestIsIdle DEF OpenConns
    <3>2. IsFiniteSet(left) /\ Cardinality(left) = totalLive - 1
      BY <2>1, <1>c, <3>1, FS_RemoveElement
    <3> HIDE DEF left
    <3> QED
      BY <2>1, <1>c, <3>2, PoolAssumption DEF TotalAfterEviction
  <2>2. CASE ~MustEvict
    <3>1. left = OpenConns
      BY <2>2
    <3> QED
      BY <2>2, <1>c, <3>1, PoolAssumption DEF TotalAfterEviction, MustEvict
  <2> QED
    BY <2>1, <2>2
<1>3. ASSUME NEW h \in Hosts
      PROVE  /\ IsFiniteSet({k \in left : k.host = h})
             /\ Cardinality({k \in left : k.host = h}) <= live[h]
  <2>1. {k \in left : k.host = h} \subseteq OpenTo(h)
    BY DEF OpenTo
  <2>2. IsFiniteSet(OpenTo(h))
    BY <1>c, FS_Subset DEF OpenTo
  <2>3. /\ IsFiniteSet({k \in left : k.host = h})
        /\ Cardinality({k \in left : k.host = h}) <= Cardinality(OpenTo(h))
    BY <2>1, <2>2, FS_Subset
  <2>4. Cardinality({k \in left : k.host = h}) \in Nat /\ Cardinality(OpenTo(h)) \in Nat
    BY <2>2, <2>3, FS_CardinalityType
  <2>5. Cardinality(OpenTo(h)) <= live[h] /\ live[h] \in Int
    BY DEF Counting, PerHostCeiling, TypeOK
  <2> QED
    BY <2>3, <2>4, <2>5
<1> QED
  BY <1>1, <1>3

\* The connections left after an eviction, as EvictionCounts counts them.
LEMMA OpenAfterOpen ==
  ASSUME TypeOK, Ownership, NEW c \in Callers, Open(c)
  PROVE  LET new  == [host |-> wanted[c], conn_id |-> opened + 1]
             left == OpenConns \ (IF MustEvict THEN {Oldest} ELSE {})
         IN  OpenConns' = left \cup {new} /\ new \notin OpenConns
<1> DEFINE new == [host |-> wanted[c], conn_id |-> opened + 1]
<1>1. /\ IF MustEvict THEN Oldest \in AllIdle ELSE TRUE
      /\ AllIdle' = AllIdle \ (IF MustEvict THEN {Oldest} ELSE {})
  BY EvictionOfIdle DEF Open, HasRoom, AllIdle
<1>2. inUse' = inUse \cup {new} /\ inUse \cap AllIdle = {}
  BY DEF Open, Ownership, IdleIsUnused
<1>3. new \notin OpenConns
  BY DEF Ownership, TypeOK
<1> HIDE DEF new
<1> QED
  BY <1>1, <1>2, <1>3 DEF OpenConns, new

LEMMA CountingStep ==
  ASSUME LateUse = {}
  PROVE  TypeOK /\ Ownership /\ Discipline /\ Counting /\ [Next]_vars => Counting'
<1> SUFFICES ASSUME TypeOK, Ownership, Discipline, Counting, [Next]_vars
             PROVE  Counting'
  OBVIOUS
<1>t. /\ lent \in [Callers -> SUBSET Connection] /\ inUse \subseteq Connection
      /\ live \in [Hosts -> Int] /\ totalLive \in Int
  BY DEF TypeOK
<1>d. inUse = UNION {lent[c] : c \in Callers} /\ \A c \in Callers : kept[c] = {}
  BY DEF Discipline, FlagsMatchLoans
<1>i. inUse \cap AllIdle = {}
  BY DEF Ownership, IdleIsUnused
<1>1. ASSUME NEW c \in Callers, NEW h \in Hosts, AcquireIdle(c, h) PROVE Counting'
  <2>1. LastIdle(h) \in AllIdle /\ LastIdle(h) \in Connection
    BY <1>1, LastIdleIsIdle DEF AcquireIdle, AllIdle, TypeOK
  <2>2. AllIdle' = AllIdle \ {LastIdle(h)} /\ inUse' = inUse \cup {LastIdle(h)}
    BY <1>1, <2>1, IdleAfterTake DEF AcquireIdle
  <2> QED
    BY <1>1, <2>1, <2>2, CountingFrame DEF AcquireIdle, OpenConns
<1>2. ASSUME NEW c \in Callers, Open(c) PROVE Counting'
  <2> DEFINE new  == [host |-> wanted[c], conn_id |-> opened + 1]
             left == OpenConns \ (IF MustEvict THEN {Oldest} ELSE {})
             leftTo(h) == {k \in left : k.host = h}
  <2>1. OpenConns' = left \cup {new} /\ new \notin left
    BY <1>2, OpenAfterOpen
  <2>2. /\ IsFiniteSet(left) /\ Cardinality(left) = TotalAfterEviction
        /\ TotalAfterEviction < MaxTotal
        /\ \A h \in Hosts : IsFiniteSet(leftTo(h)) /\ Cardinality(leftTo(h)) <= live[h]
    BY <1>2, EvictionCounts DEF Open, HasRoom
  <2>3. /\ wanted[c] \in Hosts /\ live[wanted[c]] < PerHost
        /\ live' = [live EXCEPT ![wanted[c]] = @ + 1]
        /\ totalLive' = TotalAfterEviction + 1
    BY <1>2 DEF Open, HasRoom, Leave
  <2>4. IsFiniteSet(OpenConns') /\ Cardinality(OpenConns') = totalLive'
    <3> HIDE DEF left, new
    <3> QED
      BY <2>1, <2>2, <2>3, FS_AddElement
  <2>5. totalLive' <= MaxTotal
    BY <2>2, <2>3, <1>t, PoolAssumption DEF TotalAfterEviction
  <2>6. ASSUME NEW h \in Hosts
        PROVE  Cardinality(OpenTo(h)') <= live'[h] /\ live'[h] <= PerHost
    <3>1. OpenTo(h)' = IF h = wanted[c] THEN leftTo(h) \cup {new} ELSE leftTo(h)
      BY <2>1 DEF OpenTo
    <3>2. /\ IsFiniteSet(leftTo(h)) /\ Cardinality(leftTo(h)) <= live[h]
          /\ live[h] <= PerHost /\ live[h] \in Int /\ Cardinality(leftTo(h)) \in Nat
          /\ new \notin leftTo(h)
      BY <2>1, <2>2, <1>t, FS_CardinalityType DEF Counting, PerHostCeiling
    <3> HIDE DEF leftTo, new
    <3>3. CASE h = wanted[c]
      <4>1. Cardinality(leftTo(h) \cup {new}) = Cardinality(leftTo(h)) + 1
        BY <3>2, FS_AddElement
      <4>2. live'[h] = live[h] + 1 /\ live[h] < PerHost
        BY <2>3, <3>3, <1>t
      <4> QED
        BY <3>1, <3>2, <3>3, <4>1, <4>2, PoolAssumption
    <3>4. CASE h # wanted[c]
      BY <2>3, <3>1, <3>2, <3>4, <1>t
    <3> QED
      BY <3>3, <3>4
  <2> QED
    BY <2>4, <2>5, <2>6 DEF Counting, GlobalCeiling, PerHostCeiling
<1>3. ASSUME NEW c \in Callers, OpenFails(c) PROVE Counting'
  <2> DEFINE left == OpenConns \ (IF MustEvict THEN {Oldest} ELSE {})
  <2>1. OpenConns' = left
    BY <1>3, <1>i, EvictionOfIdle DEF OpenFails, HasRoom, AllIdle, OpenConns
  <2>2. /\ IsFiniteSet(left) /\ Cardinality(left) = TotalAfterEviction
        /\ TotalAfterEviction < MaxTotal
        /\ \A h \in Hosts : Cardinality({k \in left : k.host = h}) <= live[h]
    BY <1>3, EvictionCounts DEF OpenFails, HasRoom
  <2>3. live' = live /\ totalLive' = TotalAfterEviction
    BY <1>3 DEF OpenFails
  <2>4. \A h \in Hosts : OpenTo(h)' = {k \in left : k.host = h}
    BY <2>1 DEF OpenTo
  <2>5. totalLive' <= MaxTotal
    BY <2>2, <2>3, <1>t, PoolAssumption DEF TotalAfterEviction
  <2> HIDE DEF left
  <2> QED
    BY <2>1, <2>2, <2>3, <2>4, <2>5 DEF Counting, GlobalCeiling, PerHostCeiling
<1>4. ASSUME NEW c \in Callers, NEW k \in lent[c] \cup kept[c], Release(c, k) PROVE Counting'
  <2>1. AllIdle' = AllIdle \cup {k} /\ inUse' = inUse \ {k} /\ k \in inUse
    BY <1>4, <1>t, IdleAfterPut DEF Release, LowerFlag
  <2> QED
    BY <1>4, <2>1, CountingFrame DEF Release, OpenConns
<1>5. ASSUME NEW c \in Callers, NEW k \in lent[c] \cup kept[c], Discard(c, k) PROVE Counting'
  <2>1. k \in inUse /\ k \in Connection /\ k.host \in Hosts
    BY <1>d, <1>t DEF Connection
  <2>2. AllIdle' = AllIdle \ {k} /\ inUse' = inUse \ {k}
    BY <1>5, <2>1, IdleAfterTake DEF Discard, LowerFlag
  <2>3. OpenConns' = OpenConns \ {k} /\ k \in OpenConns
    BY <2>1, <2>2 DEF OpenConns
  <2>4. live' = [live EXCEPT ![k.host] = @ - 1] /\ totalLive' = totalLive - 1
    BY <1>5 DEF Discard
  <2>5. IsFiniteSet(OpenConns') /\ Cardinality(OpenConns') = totalLive' /\ totalLive' <= MaxTotal
    BY <2>3, <2>4, <1>t, FS_RemoveElement, PoolAssumption DEF Counting, GlobalCeiling
  <2>6. ASSUME NEW h \in Hosts
        PROVE  Cardinality(OpenTo(h)') <= live'[h] /\ live'[h] <= PerHost
    <3>1. OpenTo(h)' = IF h = k.host THEN OpenTo(h) \ {k} ELSE OpenTo(h)
      BY <2>3 DEF OpenTo
    <3>2. IsFiniteSet(OpenTo(h))
      BY FS_Subset DEF OpenTo, Counting
    <3>3. /\ Cardinality(OpenTo(h)) <= live[h] /\ Cardinality(OpenTo(h)) \in Nat
          /\ live[h] <= PerHost /\ live[h] \in Int
      BY <1>t, <3>2, FS_CardinalityType DEF Counting, PerHostCeiling
    <3>4. CASE h = k.host
      <4>1. k \in OpenTo(h)
        BY <2>3, <3>4 DEF OpenTo
      <4>2. Cardinality(OpenTo(h) \ {k}) = Cardinality(OpenTo(h)) - 1
        BY <3>2, <4>1, FS_RemoveElement
      <4>3. live'[h] = live[h] - 1
        BY <1>t, <2>4, <3>4
      <4> QED
        BY <3>1, <3>3, <3>4, <4>2, <4>3, PoolAssumption
    <3>5. CASE h # k.host
      BY <1>t, <2>4, <3>1, <3>3, <3>5
    <3> QED
      BY <3>4, <3>5
  <2> QED
    BY <2>5, <2>6 DEF Counting, GlobalCeiling, PerHostCeiling
<1>6. ASSUME NEW c \in Callers, NEW k \in lent[c] \cup kept[c], ReleaseRefused(c, k) PROVE Counting'
  BY <1>6, <1>d DEF ReleaseRefused
<1>7. ASSUME NEW c \in Callers,
             RejectPerHost(c) \/ RejectGlobal(c) \/ \E h \in Hosts : AcquireMiss(c, h)
      PROVE  Counting'
  BY <1>7, CountingFrame
  DEF RejectPerHost, RejectGlobal, AcquireMiss, poolVars, OpenConns, AllIdle
<1>8. CASE UNCHANGED vars
  BY <1>8, CountingFrame DEF vars, OpenConns, AllIdle
<1> QED
  BY <1>1, <1>2, <1>3, <1>4, <1>5, <1>6, <1>7, <1>8 DEF Next

\* The inductive invariant of the disciplined pool.
IInv == TypeOK /\ Ownership /\ Discipline /\ Counting

LEMMA Inductive == ASSUME LateUse = {} PROVE Spec => []IInv
<1>1. Init => IInv
  BY TypeInit, OwnershipInit, DisciplineInit, CountingInit DEF IInv
<1>2. IInv /\ [Next]_vars => IInv'
  BY TypeStep, OwnershipStep, DisciplineStep, CountingStep DEF IInv
<1> QED
  BY <1>1, <1>2, PTL DEF Spec

\* If no caller uses a connection it has released, the counters are
\* right and no ceiling is passed, whatever happens at the hook.
THEOREM CeilingsHold ==
  ASSUME LateUse = {}
  PROVE  Spec => [](Ceilings /\ FlagsMatchLoans)
<1>1. IInv => Ceilings /\ FlagsMatchLoans
  BY DEF IInv, Counting, Discipline, Ceilings
<1> QED
  BY <1>1, Inductive, PTL

\* Only an acquire at the global ceiling closes an idle connection, and it
\* closes the one that was released the longest ago.
THEOREM OldestEvicted == ASSUME LateUse = {} PROVE Spec => EvictsOldest
<1> DEFINE Justified(k) == /\ Cardinality(OpenConns) = MaxTotal
                           /\ \A j \in AllIdle : idleSeq[k] <= idleSeq[j]
           Step == \A k \in AllIdle \ OpenConns' : Justified(k)
<1>1. ASSUME IInv, Next PROVE Step
  <2> SUFFICES ASSUME NEW v \in AllIdle, v \notin OpenConns' PROVE Justified(v)
    OBVIOUS
  <2> USE <1>1 DEF IInv
  <2>e. ASSUME MustEvict, v = Oldest PROVE Justified(v)
    <3>1. \A j \in AllIdle : idleSeq[v] <= idleSeq[j]
      BY <2>e, OldestIsIdle
    <3>2. Cardinality(OpenConns) = MaxTotal
      BY <2>e, PoolAssumption DEF Counting, GlobalCeiling, MustEvict, TypeOK
    <3> QED
      BY <3>1, <3>2
  <2> HIDE DEF Justified
  <2>s. inUse \cap AllIdle = {} /\ AllIdle \subseteq Connection
    BY DEF Ownership, IdleIsUnused, TypeOK, AllIdle
  <2>1. ASSUME NEW c \in Callers, NEW h \in Hosts, AcquireIdle(c, h) PROVE FALSE
    <3>1. LastIdle(h) \in Connection
      BY <2>1, LastIdleIsIdle DEF AcquireIdle, TypeOK
    <3>2. AllIdle' = AllIdle \ {LastIdle(h)} /\ inUse' = inUse \cup {LastIdle(h)}
      BY <2>1, <3>1, IdleAfterTake DEF AcquireIdle
    <3> QED
      BY <3>2 DEF OpenConns
  <2>2. ASSUME NEW c \in Callers, Open(c) \/ OpenFails(c) PROVE MustEvict /\ v = Oldest
    <3>1. AllIdle' = AllIdle \ (IF MustEvict THEN {Oldest} ELSE {})
      BY <2>2, EvictionOfIdle DEF Open, OpenFails, HasRoom, AllIdle
    <3> QED
      BY <3>1 DEF OpenConns
  <2>3. ASSUME NEW c \in Callers, NEW k \in lent[c] \cup kept[c], Release(c, k) PROVE FALSE
    <3>1. AllIdle' = AllIdle \cup {k}
      BY <2>3, IdleAfterPut DEF Release, TypeOK
    <3> QED
      BY <3>1 DEF OpenConns
  <2>4. ASSUME NEW c \in Callers, NEW k \in lent[c] \cup kept[c], Discard(c, k) PROVE FALSE
    <3>1. k \in Connection /\ k \in inUse
      BY DEF Discipline, FlagsMatchLoans, TypeOK
    <3>2. AllIdle' = AllIdle \ {k}
      BY <2>4, <3>1, IdleAfterTake DEF Discard
    <3> QED
      BY <2>s, <3>1, <3>2 DEF OpenConns
  <2>5. ASSUME NEW c \in Callers, UNCHANGED idle PROVE FALSE
    BY <2>5 DEF OpenConns, AllIdle
  <2> QED
    BY <2>e, <2>1, <2>2, <2>3, <2>4, <2>5
    DEF Next, RejectPerHost, RejectGlobal, AcquireMiss, ReleaseRefused, poolVars
<1>2. IInv /\ [Next]_vars => [Step]_vars
  BY <1>1
<1> QED
  BY <1>2, Inductive, PTL DEF EvictsOldest, Spec
-----------------------------------------------------------------------------
(* The pool implements its contract *)

\* The contract counts as the pool does.
LEMMA SameCardinality == \A S : Contract!Cardinality(S) = Cardinality(S)
  BY DEF Cardinality, Contract!Cardinality, IsFiniteSet, Contract!IsFiniteSet

LEMMA ContractStep ==
  ASSUME IInv, LateUse = {}, [Next]_vars
  PROVE  [Contract!Next]_(Contract!vars)
<1> USE DEF IInv
<1>t. /\ lent \in [Callers -> SUBSET Connection] /\ inUse \subseteq Connection
      /\ AllIdle \subseteq Connection
  BY DEF TypeOK, AllIdle
<1>d. inUse = UNION {lent[c] : c \in Callers} /\ \A c \in Callers : kept[c] = {}
  BY DEF Discipline, FlagsMatchLoans
<1>i. inUse \cap AllIdle = {}
  BY DEF Ownership, IdleIsUnused
<1>o. Contract!AllOpen = OpenConns /\ \A h : Contract!AllOpenTo(h) = OpenTo(h)
  BY <1>d DEF Contract!AllOpen, Contract!AllOpenTo, OpenConns, OpenTo
<1>1. ASSUME NEW c \in Callers, NEW h \in Hosts, AcquireIdle(c, h)
      PROVE  \E k \in Connection : Contract!Lend(c, k)
  <2>1. LastIdle(h) \in AllIdle /\ LastIdle(h) \in Connection
    BY <1>1, LastIdleIsIdle DEF AcquireIdle, AllIdle, TypeOK
  <2>2. AllIdle' = AllIdle \ {LastIdle(h)}
    BY <1>1, <2>1, IdleAfterTake DEF AcquireIdle
  <2> QED
    BY <1>1, <2>1, <2>2 DEF AcquireIdle, Contract!Lend
<1>2. ASSUME NEW c \in Callers, Open(c)
      PROVE  \E k \in Connection : Contract!OpenNew(c, k)
  <2> DEFINE new  == [host |-> wanted[c], conn_id |-> opened + 1]
             gone == IF MustEvict THEN {Oldest} ELSE {}
  <2>1. new \in Connection /\ new.host = wanted[c] /\ wanted[c] \in Hosts
    <3>1. opened + 1 \in 1..MaxConns /\ wanted[c] \in Hosts
      BY <1>2, PoolAssumption DEF Open, Leave, TypeOK
    <3> QED
      BY <3>1 DEF Connection
  <2>2. new \notin OpenConns
    BY <1>2, OpenAfterOpen
  <2>3. AllIdle' = AllIdle \ gone /\ gone \in {{}} \cup {{v} : v \in AllIdle}
    BY <1>2, EvictionOfIdle DEF Open, HasRoom, AllIdle
  <2>4. Cardinality(OpenTo(wanted[c])) < PerHost
    <3>1. IsFiniteSet(OpenTo(wanted[c]))
      BY FS_Subset DEF OpenTo, Counting
    <3> QED
      BY <1>2, <2>1, <3>1, FS_CardinalityType, PoolAssumption
      DEF Counting, PerHostCeiling, Open, HasRoom, TypeOK
  <2>5. Cardinality(OpenConns \ gone) < MaxTotal
    BY <1>2, EvictionCounts DEF Open, HasRoom
  <2>6. lent' = [lent EXCEPT ![c] = @ \cup {new}]
    BY <1>2 DEF Open
  <2> HIDE DEF new, gone
  <2> QED
    BY <1>o, <2>1, <2>2, <2>3, <2>4, <2>5, <2>6, SameCardinality DEF Contract!OpenNew
<1>3. ASSUME NEW c \in Callers, OpenFails(c)
      PROVE  \/ \E k \in Connection : Contract!Retire(k)
             \/ UNCHANGED Contract!vars
  <2>1. AllIdle' = AllIdle \ (IF MustEvict THEN {Oldest} ELSE {}) /\ lent' = lent
    BY <1>3, EvictionOfIdle DEF OpenFails, HasRoom, AllIdle
  <2>2. MustEvict => Oldest \in AllIdle /\ Oldest \in Connection
    BY <1>3, OldestIsIdle DEF OpenFails, HasRoom
  <2> QED
    BY <2>1, <2>2 DEF Contract!Retire, Contract!vars
<1>4. ASSUME NEW c \in Callers, NEW k \in lent[c] \cup kept[c], Release(c, k)
      PROVE  k \in Connection /\ Contract!Return(c, k)
  BY <1>4, <1>t, <1>d, IdleAfterPut DEF Release, Handles, Contract!Return
<1>5. ASSUME NEW c \in Callers, NEW k \in lent[c] \cup kept[c], Discard(c, k)
      PROVE  k \in Connection /\ Contract!Close(c, k)
  <2>1. k \in lent[c] /\ k \in Connection /\ k \notin AllIdle
    BY <1>d, <1>i, <1>t
  <2>2. AllIdle' = AllIdle \ {k}
    BY <1>5, <2>1, IdleAfterTake DEF Discard
  <2> QED
    BY <1>5, <2>1, <2>2 DEF Discard, Contract!Close
<1>6. ASSUME NEW c \in Callers, NEW k \in lent[c] \cup kept[c], ReleaseRefused(c, k) PROVE FALSE
  BY <1>6, <1>d DEF ReleaseRefused
<1>7. ASSUME UNCHANGED <<idle, lent>> PROVE UNCHANGED Contract!vars
  BY <1>7 DEF Contract!vars, AllIdle
<1> QED
  BY <1>1, <1>2, <1>3, <1>4, <1>5, <1>6, <1>7
  DEF Next, vars, RejectPerHost, RejectGlobal, AcquireMiss, poolVars, Contract!Next

\* A pool whose callers give back only what they hold implements PoolContract:
\* its counters, stamps and hook are not to be seen from outside.
THEOREM ImplementsContract == ASSUME LateUse = {} PROVE Spec => ContractSpec
<1>1. Init => Contract!Init
  BY DEF Init, Contract!Init, AllIdle
<1>2. IInv /\ [Next]_vars => [Contract!Next]_(Contract!vars)
  BY ContractStep
<1> QED
  BY <1>1, <1>2, Inductive, PTL DEF Spec, ContractSpec, Contract!Spec
=============================================================================
