---------------------------- MODULE PoolContract ----------------------------
(***************************************************************************)
(* What a connection pool of this library promises to its callers, with    *)
(* no counter, queue, lock or timing in sight: every open connection is    *)
(* either idle in the pool or lent to exactly one caller, no host has more *)
(* than PerHost open connections and the pool never has more than MaxTotal.*)
(* The pools of transports/pool.py and transports/async_pool.py are shown  *)
(* to implement this module.                                               *)
(***************************************************************************)
EXTENDS Naturals, FiniteSets

CONSTANTS
  Callers,      \* the callers of acquire, release and discard
  Connection,   \* connections: records with a field host
  PerHost,      \* ceiling on the open connections to one host
  MaxTotal      \* ceiling on the open connections of the pool

VARIABLES
  leased,   \* leased[c]: the connections lent to caller c
  spare     \* the connections that are open and idle

vars == <<leased, spare>>

AllOpen == spare \cup UNION {leased[c] : c \in Callers}

AllOpenTo(h) == {k \in AllOpen : k.host = h}

Init ==
  /\ leased = [c \in Callers |-> {}]
  /\ spare = {}

\* An idle connection is lent again.
Lend(c, k) ==
  /\ k \in spare
  /\ spare' = spare \ {k}
  /\ leased' = [leased EXCEPT ![c] = @ \cup {k}]

\* A connection that is not open is opened and lent; the pool may close one
\* idle connection in the same step to make room for it.
OpenNew(c, k) ==
  \E closed \in {{}} \cup {{v} : v \in spare} :
    /\ k \notin AllOpen
    /\ Cardinality(AllOpenTo(k.host)) < PerHost
    /\ Cardinality(AllOpen \ closed) < MaxTotal
    /\ spare' = spare \ closed
    /\ leased' = [leased EXCEPT ![c] = @ \cup {k}]

\* The caller gives a connection back.
Return(c, k) ==
  /\ k \in leased[c]
  /\ leased' = [leased EXCEPT ![c] = @ \ {k}]
  /\ spare' = spare \cup {k}

\* The caller closes a connection it holds.
Close(c, k) ==
  /\ k \in leased[c]
  /\ leased' = [leased EXCEPT ![c] = @ \ {k}]
  /\ UNCHANGED spare

\* The pool closes an idle connection.
Retire(k) ==
  /\ k \in spare
  /\ spare' = spare \ {k}
  /\ UNCHANGED leased

Next ==
  \E k \in Connection :
    \/ Retire(k)
    \/ \E c \in Callers : Lend(c, k) \/ OpenNew(c, k) \/ Return(c, k) \/ Close(c, k)

Spec == Init /\ [][Next]_vars
=============================================================================
