--------------------------- MODULE ConnectionPool ---------------------------
(***************************************************************************)
(* The synchronous connection pool (transports/pool.py).                   *)
(*                                                                         *)
(* acquire has one yield point, the scheduler hook before the capacity     *)
(* check.  An acquire that finds an idle connection is one step; one that  *)
(* does not stops at the hook, where the other callers run, and decides in *)
(* a second step.  release and discard have no yield point.                *)
(*                                                                         *)
(* A connection is the record of its host and its id, ids being handed out *)
(* by the pool's own counter.  The flag in_use is membership in inUse.     *)
(* The idle list of a host is kept as a set: connections are appended in   *)
(* the order of their idle_seq stamps, so the end of the list (what pop    *)
(* takes) is the connection with the largest stamp of that host.           *)
(*                                                                         *)
(* An operator whose name ends in _ and a word is the same-named operator  *)
(* with a mistake in it: no definition uses it, and the mutant runs put it *)
(* in the place of the right one to see the properties fail.               *)
(***************************************************************************)
EXTENDS Integers, FiniteSets

CONSTANTS
  Hosts,         \* host names
  Callers,       \* logical callers of the pool
  PerHost,       \* per_host: ceiling on the connections to one host
  MaxTotal,      \* max_total: ceiling on the connections of the pool
  NoHost,        \* not a host: the caller is not inside acquire
  LateUse,       \* what callers still do with connections they have released:
                 \* "release", "discard", both or neither
  MaxConns,      \* bound on the number of connections opened
  MaxStamps      \* bound on the number of releases

\* What __init__ requires of its arguments, and that the bounds are numbers.
ASSUME PoolAssumption ==
  /\ PerHost \in Nat \ {0}
  /\ MaxTotal \in Nat /\ MaxTotal >= PerHost
  /\ NoHost \notin Hosts
  /\ LateUse \subseteq {"release", "discard"}
  /\ MaxConns \in Nat
  /\ MaxStamps \in Nat

Connection == [host : Hosts, conn_id : 1..MaxConns]

VARIABLES
  opened,      \* the last connection id handed out
  stamps,      \* the last idle stamp handed out
  live,        \* live[h]: the counter _HostState.live
  totalLive,   \* the counter _total_live
  idle,        \* idle[h]: the idle connections of h
  idleSeq,     \* idleSeq[k]: the stamp of k's last release, 0 before it
  inUse,       \* the connections whose flag in_use is set
  wanted,      \* wanted[c]: the host of an acquire stopped at the hook
  lent,        \* lent[c]: connections c acquired and still uses
  kept,        \* kept[c]: released connections c still has a handle on
  outcome,     \* outcome[c]: how the last acquire or release of c ended
  misreleased  \* connections once released by a caller that had given them
               \* back before (history)

poolVars == <<opened, stamps, live, totalLive, idle, idleSeq, inUse>>
vars == <<opened, stamps, live, totalLive, idle, idleSeq, inUse,
          wanted, lent, kept, outcome, misreleased>>

AllIdle == UNION {idle[h] : h \in Hosts}

\* The connections that really are open: an evicted or discarded connection
\* is neither idle nor in use.
OpenConns == inUse \cup AllIdle

OpenTo(h) == {k \in OpenConns : k.host = h}

Outcomes == {"none", "acquired", "per_host", "global", "factory", "refused"}

TypeOK ==
  /\ opened \in 0..MaxConns
  /\ stamps \in 0..MaxStamps
  /\ live \in [Hosts -> Int]
  /\ totalLive \in Int
  /\ idle \in [Hosts -> SUBSET Connection]
  /\ \A h \in Hosts : \A k \in idle[h] : k.host = h
  /\ idleSeq \in [Connection -> 0..MaxStamps]
  /\ inUse \in SUBSET Connection
  /\ wanted \in [Callers -> Hosts \cup {NoHost}]
  /\ lent \in [Callers -> SUBSET Connection]
  /\ kept \in [Callers -> SUBSET Connection]
  /\ outcome \in [Callers -> Outcomes]
  /\ misreleased \in SUBSET Connection

Init ==
  /\ opened = 0
  /\ stamps = 0
  /\ live = [h \in Hosts |-> 0]
  /\ totalLive = 0
  /\ idle = [h \in Hosts |-> {}]
  /\ idleSeq = [k \in Connection |-> 0]
  /\ inUse = {}
  /\ wanted = [c \in Callers |-> NoHost]
  /\ lent = [c \in Callers |-> {}]
  /\ kept = [c \in Callers |-> {}]
  /\ outcome = [c \in Callers |-> "none"]
  /\ misreleased = {}
-----------------------------------------------------------------------------
(* What several operations do to the idle lists and the flags *)

TakeOffIdle_Forgotten(k) == UNCHANGED idle

\* The connection leaves its host's idle list, by pop or by remove.
TakeOffIdle(k) == idle' = [idle EXCEPT ![k.host] = @ \ {k}]

PutOnIdle_EveryHost(k) == idle' = [h \in Hosts |-> idle[h] \cup {k}]

\* The connection is appended to its host's idle list.
PutOnIdle(k) == idle' = [idle EXCEPT ![k.host] = @ \cup {k}]

LowerFlag_Forgotten(k) == UNCHANGED inUse

\* in_use is set to False.
LowerFlag(k) == inUse' = inUse \ {k}
-----------------------------------------------------------------------------
(* acquire, up to the scheduler hook *)

\* The connection idle.pop() takes: the last one released to the host.
LastIdle(h) == CHOOSE k \in idle[h] : \A j \in idle[h] : idleSeq[j] <= idleSeq[k]

\* An idle connection to the host is handed out; the hook is not called.
AcquireIdle(c, h) ==
  /\ wanted[c] = NoHost
  /\ idle[h] # {}
  /\ LET k == LastIdle(h) IN
       /\ TakeOffIdle(k)
       /\ inUse' = inUse \cup {k}
       /\ lent' = [lent EXCEPT ![c] = @ \cup {k}]
       /\ kept' = [kept EXCEPT ![c] = @ \ {k}]
  /\ outcome' = [outcome EXCEPT ![c] = "acquired"]
  /\ UNCHANGED <<opened, stamps, live, totalLive, idleSeq, wanted, misreleased>>

\* Nothing is idle: the caller stops at the hook before the capacity check.
AcquireMiss(c, h) ==
  /\ wanted[c] = NoHost
  /\ idle[h] = {}
  /\ wanted' = [wanted EXCEPT ![c] = h]
  /\ outcome' = [outcome EXCEPT ![c] = "none"]
  /\ UNCHANGED <<poolVars, lent, kept, misreleased>>
-----------------------------------------------------------------------------
(* acquire, from the hook on: the ceilings, the eviction, the new connection *)

MustEvict_OffByOne == totalLive > MaxTotal

\* The global ceiling calls for an eviction before a connection is opened.
MustEvict == totalLive >= MaxTotal

Oldest_Newest == CHOOSE k \in AllIdle : \A j \in AllIdle : idleSeq[k] >= idleSeq[j]

\* The victim of _evict_one_idle: the idle connection with the smallest stamp.
Oldest == CHOOSE k \in AllIdle : \A j \in AllIdle : idleSeq[k] <= idleSeq[j]

\* _evict_one_idle removes the victim from its host's idle list and counts
\* it out of _total_live, and does not count it out of the host's live.
IdleAfterEviction ==
  IF MustEvict THEN [idle EXCEPT ![Oldest.host] = @ \ {Oldest}] ELSE idle

TotalAfterEviction == IF MustEvict THEN totalLive - 1 ELSE totalLive

\* The acquire stopped at the hook ends with the result r.
Leave(c, r) ==
  /\ wanted[c] \in Hosts
  /\ wanted' = [wanted EXCEPT ![c] = NoHost]
  /\ outcome' = [outcome EXCEPT ![c] = r]

RejectPerHost(c) ==
  /\ Leave(c, "per_host")
  /\ live[wanted[c]] >= PerHost
  /\ UNCHANGED <<poolVars, lent, kept, misreleased>>

RejectGlobal(c) ==
  /\ Leave(c, "global")
  /\ live[wanted[c]] < PerHost
  /\ MustEvict
  /\ AllIdle = {}
  /\ UNCHANGED <<poolVars, lent, kept, misreleased>>

HasRoom_OffByOne(h) ==
  /\ live[h] <= PerHost
  /\ MustEvict => AllIdle # {}

\* Both ceilings leave room, if need be after an eviction.
HasRoom(h) ==
  /\ live[h] < PerHost
  /\ MustEvict => AllIdle # {}

Open(c) ==
  /\ Leave(c, "acquired")
  /\ HasRoom(wanted[c])
  /\ opened < MaxConns
  /\ opened' = opened + 1
  /\ idle' = IdleAfterEviction
  /\ live' = [live EXCEPT ![wanted[c]] = @ + 1]
  /\ totalLive' = TotalAfterEviction + 1
  /\ LET k == [host |-> wanted[c], conn_id |-> opened + 1] IN
       /\ inUse' = inUse \cup {k}
       /\ lent' = [lent EXCEPT ![c] = @ \cup {k}]
  /\ UNCHANGED <<stamps, idleSeq, kept, misreleased>>

\* The connection factory raises: the eviction has been made, nothing else.
OpenFails(c) ==
  /\ Leave(c, "factory")
  /\ HasRoom(wanted[c])
  /\ idle' = IdleAfterEviction
  /\ totalLive' = TotalAfterEviction
  /\ UNCHANGED <<opened, stamps, live, idleSeq, inUse, lent, kept, misreleased>>
-----------------------------------------------------------------------------
(* release and discard *)

\* What c may call op for: what it holds and, if callers misuse op, what it has
\* given back.
Handles(c, op) == lent[c] \cup (IF op \in LateUse THEN kept[c] ELSE {})

\* release looks at nothing but the flag: it also accepts a connection that the
\* caller has given back and that was lent again since.
Release(c, k) ==
  /\ wanted[c] = NoHost
  /\ k \in Handles(c, "release")
  /\ k \in inUse
  /\ stamps < MaxStamps
  /\ stamps' = stamps + 1
  /\ LowerFlag(k)
  /\ idleSeq' = [idleSeq EXCEPT ![k] = stamps + 1]
  /\ PutOnIdle(k)
  /\ lent' = [lent EXCEPT ![c] = @ \ {k}]
  /\ kept' = IF LateUse # {} THEN [kept EXCEPT ![c] = @ \cup {k}] ELSE kept
  /\ misreleased' = IF k \in lent[c] THEN misreleased ELSE misreleased \cup {k}
  /\ UNCHANGED <<opened, live, totalLive, wanted, outcome>>

\* release of a connection whose flag is down raises and changes nothing in
\* the pool; the caller no longer takes it for its own.
ReleaseRefused(c, k) ==
  /\ wanted[c] = NoHost
  /\ k \in Handles(c, "release")
  /\ k \notin inUse
  /\ lent' = [lent EXCEPT ![c] = @ \ {k}]
  /\ outcome' = [outcome EXCEPT ![c] = "refused"]
  /\ UNCHANGED <<poolVars, wanted, kept, misreleased>>

\* discard asks nothing of the connection it is given.
Discard(c, k) ==
  /\ wanted[c] = NoHost
  /\ k \in Handles(c, "discard")
  /\ TakeOffIdle(k)
  /\ live' = [live EXCEPT ![k.host] = @ - 1]
  /\ totalLive' = totalLive - 1
  /\ LowerFlag(k)
  /\ lent' = [lent EXCEPT ![c] = @ \ {k}]
  /\ kept' = [kept EXCEPT ![c] = @ \ {k}]
  /\ UNCHANGED <<opened, stamps, idleSeq, wanted, outcome, misreleased>>
-----------------------------------------------------------------------------
Next ==
  \E c \in Callers :
    \/ \E h \in Hosts : AcquireIdle(c, h) \/ AcquireMiss(c, h)
    \/ RejectPerHost(c)
    \/ RejectGlobal(c)
    \/ Open(c)
    \/ OpenFails(c)
    \/ \E k \in lent[c] \cup kept[c] :
         Release(c, k) \/ ReleaseRefused(c, k) \/ Discard(c, k)

Spec == Init /\ [][Next]_vars
-----------------------------------------------------------------------------
(* Properties *)

\* The counter _total_live is the number of connections that are open, and
\* the pool never has more of them than max_total: every path that opens,
\* evicts or discards a connection has counted it exactly once, whatever
\* other callers did while an acquire stood at the hook.
GlobalCeiling ==
  /\ totalLive = Cardinality(OpenConns)
  /\ totalLive <= MaxTotal

\* No host ever has more than per_host open connections: the counter live
\* that acquire tests is never below their number, and never above per_host,
\* although the test comes after the yield point of the hook.
PerHostCeiling ==
  \A h \in Hosts :
    /\ Cardinality(OpenTo(h)) <= live[h]
    /\ live[h] <= PerHost

\* Both ceilings, that of the pool and that of each host, are kept.
Ceilings == GlobalCeiling /\ PerHostCeiling

\* Two callers have one connection at once only if it was released before by
\* somebody who had given it back: discards of connections that have been lent
\* again since, evictions and raising factories never lead to it.
NoSharing ==
  \A c, d \in Callers : c # d => lent[c] \cap lent[d] \subseteq misreleased

\* The flags in_use are exactly the connections out on loan, and none of
\* them is on an idle list, so none is evicted or lent under its user.
FlagsMatchLoans ==
  /\ inUse = UNION {lent[c] : c \in Callers}
  /\ inUse \cap AllIdle = {}

\* Nothing on an idle list has its flag in_use up, whoever releases or discards
\* what and when.
IdleIsUnused == inUse \cap AllIdle = {}

\* Callers that discard and release what they have given back upset the counts,
\* and yet the idle lists agree with the flags, and only a late release, which
\* pool.py:167 does not tell from a rightful one, makes two callers share.
LoansApart == NoSharing /\ IdleIsUnused

\* An idle connection is closed by the pool only when max_total connections
\* really are open, and then it is the one released the longest ago.
EvictsOldest ==
  [][\A k \in AllIdle \ OpenConns' :
       /\ Cardinality(OpenConns) = MaxTotal
       /\ \A j \in AllIdle : idleSeq[k] <= idleSeq[j]]_vars

\* Without late uses the pool implements the contract of PoolContract.
Contract == INSTANCE PoolContract WITH leased <- lent, spare <- AllIdle

ContractSpec == Contract!Spec
-----------------------------------------------------------------------------
(* Claims of the source that the code does not keep *)

\* pool.py:56 makes per_host the maximum number of simultaneously live
\* connections: an acquire is refused for it only when they are that many.
PerHostRefusalJustified ==
  [][\A c \in Callers : RejectPerHost(c) =>
       Cardinality(OpenTo(wanted[c])) = PerHost]_vars
=============================================================================
