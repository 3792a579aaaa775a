----------------------------- MODULE UtcpClient -----------------------------
(***************************************************************************)
(* The synchronous client (client/client.py): a call goes through the      *)
(* repository, the result cache and the transport of the tool's provider.  *)
(*                                                                         *)
(* Everything up to the transport is one step, and so is what follows its  *)
(* answer; while the transport works only the clock goes on.  A call with  *)
(* use_cache=False changes nothing that is modelled, and neither does the  *)
(* collection of metrics.                                                  *)
(***************************************************************************)
EXTENDS ToolRepository, ResultCache

CONSTANTS
  ToolOf,   \* ToolOf[k]: the tool that the call k names
  Misfits,  \* <<k, m>>: the arguments of k do not fit the tool's schema in m
  Null,     \* the result None
  MayGive   \* MayGive[k]: the results that a transport may answer to k

ASSUME ClientAssumption ==
  /\ ToolOf \in [Calls -> Tools]
  /\ Misfits \subseteq Calls \X Manuals
  /\ Null \in Results
  /\ MayGive \in [Calls -> SUBSET Results]
  /\ None \notin Calls

VARIABLES
  inFlight,   \* the call that the transport works on, or None
  answers     \* the last answer to each call that is younger than the TTL, the
              \* least recently used first: what a cache without a bound on its
              \* size would have if nothing were invalidated (history)

clientVars == <<registered, owner, definition, entries, inFlight, answers>>

ClientTypeOK ==
  /\ RepositoryTypeOK
  /\ CacheTypeOK
  /\ inFlight \in Calls \cup {None}
  /\ answers \in Seq([key : Calls, value : Results, age : 0..TTL - 1])

ClientInit ==
  /\ RepositoryInit
  /\ entries = <<>>
  /\ inFlight = None
  /\ answers = <<>>

\* The answer to k has been used.
Use(k) == answers' = Without(answers, k) \o Only(answers, {e \in Entry : e.key = k})

\* _check_arguments raises.
Rejected(k) ==
  /\ definition[ToolOf[k]] # None
  /\ <<k, definition[ToolOf[k]]>> \in Misfits

\* The cache has a result for k.  The result None is taken for no result.
IsServed(k) == IsHit(k) /\ EntryOf(k).value # Null

\* call ends with the cached result.
Serve(k) ==
  /\ inFlight = None
  /\ ~Rejected(k)
  /\ IsServed(k)
  /\ Get(k)
  /\ Use(k)
  /\ UNCHANGED <<repositoryVars, inFlight>>

\* The cache is asked in vain.
Miss(k) ==
  /\ inFlight = None
  /\ ~Rejected(k)
  /\ ~IsServed(k)
  /\ Get(k)
  /\ IF IsHit(k) THEN Use(k) ELSE UNCHANGED answers

\* call raises before it gets to a transport: the arguments are wrong, or no
\* provider has the tool.
Raise(k) ==
  /\ \/ inFlight = None /\ Rejected(k) /\ UNCHANGED <<entries, answers>>
     \/ Miss(k) /\ owner[ToolOf[k]] = None
  /\ UNCHANGED <<repositoryVars, inFlight>>

\* call hands over to the transport of the tool's owner.
Ask(k) ==
  /\ Miss(k)
  /\ owner[ToolOf[k]] # None
  /\ inFlight' = k
  /\ UNCHANGED repositoryVars

\* The transport answers v: the result is cached and returned.
Answer(v) ==
  /\ inFlight # None
  /\ v \in MayGive[inFlight]
  /\ Set(inFlight, v)
  /\ answers' = Append(Without(answers, inFlight), [key |-> inFlight, value |-> v, age |-> 0])
  /\ inFlight' = None
  /\ UNCHANGED repositoryVars

\* The transport raises, or none can be had for the owner.
Fail ==
  /\ inFlight # None
  /\ inFlight' = None
  /\ UNCHANGED <<repositoryVars, entries, answers>>

\* A new process begins with an empty repository and an empty cache.
Forget ==
  /\ registered' = [p \in Providers |-> None]
  /\ owner' = [t \in Tools |-> None]
  /\ definition' = [t \in Tools |-> None]
  /\ entries' = <<>>
  /\ inFlight' = None
  /\ answers' = <<>>

\* The clock goes on, before, between and during calls.
Tick ==
  /\ Age
  /\ LET young == Only(answers, {e \in Entry : e.age + 1 < TTL})
     IN answers' = [i \in DOMAIN young |-> [young[i] EXCEPT !.age = @ + 1]]
  /\ UNCHANGED <<repositoryVars, inFlight>>
-----------------------------------------------------------------------------
(* Properties *)

FreshKeys == {k \in Keys : IsFresh(EntryOf(k))}

\* The answer to k was used before that to j, and neither since.
UsedBefore(k, j) ==
  \E m, n \in DOMAIN answers : m < n /\ answers[m].key = k /\ answers[n].key = j

\* An answer pushes a result that could still be served out of the cache only
\* if the cache is full of such results, and then the one that calls have
\* used least recently: reads count as uses, expired results go first, and
\* the entry of the answered call itself makes room for its new one.
EvictsColdest ==
  [][(\E v \in Results : Answer(v)) =>
       \A k \in FreshKeys \ {entries'[i].key : i \in DOMAIN entries'} :
         /\ inFlight \notin FreshKeys
         /\ Cardinality(FreshKeys) = MaxEntries
         /\ \A j \in FreshKeys \ {k} : UsedBefore(k, j)]_clientVars

\* A call served from the cache gets the last answer that a transport gave to
\* it, and that answer is younger than the TTL: expired, evicted, invalidated
\* and overwritten results never come back.
ServesTheLastAnswer ==
  [][\A k \in Calls : Serve(k) =>
       \E i \in DOMAIN answers :
         answers[i].key = k /\ answers[i].value = EntryOf(k).value]_clientVars
=============================================================================
