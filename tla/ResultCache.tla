---------------------------- MODULE ResultCache ----------------------------
(***************************************************************************)
(* The result cache (registry/cache.py): its ordered dictionary and what   *)
(* its methods do to it.  UtcpClient has the client use it.                *)
(*                                                                         *)
(* The dictionary is a sequence, the least recently used entry first.  Of  *)
(* stored_at only the age of the entry is kept, in ticks of the clock and  *)
(* up to the TTL.  The counters of hits and misses are left out.           *)
(*                                                                         *)
(* Operators whose names end in _ and a word are the same-named operators  *)
(* with a mistake in them, for the mutant runs; no definition uses them.   *)
(***************************************************************************)
EXTENDS Lists, FiniteSets

CONSTANTS
  Calls,        \* tool calls; cache_key makes one key of equal ones
  Results,      \* what a transport may answer
  MaxEntries,   \* max_entries
  TTL           \* ttl, in ticks

ASSUME CacheAssumption ==
  /\ MaxEntries \in Nat \ {0}
  /\ TTL \in Nat \ {0}

Entry == [key : Calls, value : Results, age : 0..TTL]

VARIABLE
  entries   \* _entries

\* One entry to a key, and no more of them than the cache may have.
CacheTypeOK ==
  /\ entries \in Seq(Entry)
  /\ Len(entries) <= MaxEntries
  /\ \A i, j \in DOMAIN entries : entries[i].key = entries[j].key => i = j

IsFresh_OffByOne(e) == e.age <= TTL

IsFresh(e) == e.age < TTL

Keys == {entries[i].key : i \in DOMAIN entries}

EntryOf(k) == entries[CHOOSE i \in DOMAIN entries : entries[i].key = k]

\* The entries s without the one of k.
Without(s, k) == Only(s, {e \in Entry : e.key # k})

\* get finds a fresh entry for k.
IsHit(k) == k \in Keys /\ IsFresh(EntryOf(k))

Touched_Forgotten(k) == entries

\* move_to_end: the entry of k becomes the most recently used one.
Touched(k) == Append(Without(entries, k), EntryOf(k))

\* get: a hit moves to the end, an expired entry is dropped.
Get(k) == entries' = IF IsHit(k) THEN Touched(k) ELSE Without(entries, k)

EvictExpired_Forgotten == entries

\* _evict_expired leaves the fresh entries.
EvictExpired == Only(entries, {e \in Entry : IsFresh(e)})

IsFull_OffByOne(s) == Len(s) > MaxEntries

IsFull(s) == Len(s) >= MaxEntries

\* set: expired entries go first, and the least recently used one only if
\* there is still no room for a new key.
Set(k, v) ==
  LET fresh == EvictExpired
      known == \E i \in DOMAIN fresh : fresh[i].key = k
      room  == IF ~known /\ IsFull(fresh) THEN Tail(fresh) ELSE Without(fresh, k)
  IN entries' = Append(room, [key |-> k, value |-> v, age |-> 0])

Invalidate(k) == k \in Keys /\ entries' = Without(entries, k)

Clear == entries # <<>> /\ entries' = <<>>

\* The clock goes on for the cache.
Age ==
  entries' = [i \in DOMAIN entries |->
                [entries[i] EXCEPT !.age = IF @ < TTL THEN @ + 1 ELSE TTL]]
=============================================================================
