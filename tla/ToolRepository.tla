--------------------------- MODULE ToolRepository ---------------------------
(***************************************************************************)
(* The repository of providers and their tools (registry/repository.py):   *)
(* its three dictionaries and the operations that change them.  UtcpClient *)
(* and Orchestrator compose it with the rest of the program.               *)
(*                                                                         *)
(* A manual is its provider and the names of its tools.  The Tool object   *)
(* kept for a name is known by the manual that it came with.               *)
(*                                                                         *)
(* Operators whose names end in _ and a word are the same-named operators  *)
(* with a mistake in them, for the mutant runs; no definition uses them.   *)
(***************************************************************************)
EXTENDS Integers, FiniteSets

CONSTANTS
  Providers,   \* provider names
  Tools,       \* fully qualified tool names
  Manuals,     \* the manuals that providers may be registered with
  None         \* what a dictionary has for a missing key

ASSUME RepositoryAssumption ==
  /\ Manuals \subseteq [provider : Providers, tools : SUBSET Tools]
  /\ None \notin Providers \cup Manuals

VARIABLES
  registered,   \* _providers: the manual in force of each provider
  owner,        \* _tool_owner: the provider of each tool
  definition    \* _tools: the manual each tool's definition came with

repositoryVars == <<registered, owner, definition>>

RepositoryTypeOK ==
  /\ registered \in [Providers -> Manuals \cup {None}]
  /\ owner \in [Tools -> Providers \cup {None}]
  /\ definition \in [Tools -> Manuals \cup {None}]

RepositoryInit ==
  /\ registered = [p \in Providers |-> None]
  /\ owner = [t \in Tools |-> None]
  /\ definition = [t \in Tools |-> None]

Owned_None(p) == {}

\* The tools that _purge_provider_tools(p) takes out of both tool indices.
Owned(p) == {t \in Tools : owner[t] = p}

\* register: refused if the provider is there already and is not to be
\* replaced.  The tools of the old manual go, and those of the new one come,
\* whoever had them before.
Register(m, replace) ==
  /\ registered[m.provider] = None \/ replace
  /\ registered' = [registered EXCEPT ![m.provider] = m]
  /\ owner' = [t \in Tools |-> CASE t \in m.tools -> m.provider
                                 [] t \in Owned(m.provider) \ m.tools -> None
                                 [] OTHER -> owner[t]]
  /\ definition' = [t \in Tools |-> CASE t \in m.tools -> m
                                      [] t \in Owned(m.provider) \ m.tools -> None
                                      [] OTHER -> definition[t]]

\* deregister: refused for a provider that is not there.
Deregister(p) ==
  /\ registered[p] # None
  /\ registered' = [registered EXCEPT ![p] = None]
  /\ owner' = [t \in Tools |-> IF t \in Owned(p) THEN None ELSE owner[t]]
  /\ definition' = [t \in Tools |-> IF t \in Owned(p) THEN None ELSE definition[t]]
-----------------------------------------------------------------------------
(* Properties *)

\* The tool indices hold nothing stale: a tool that can be looked up belongs
\* to a provider that is registered, and its definition is the one in the
\* manual that this provider is registered with now, however providers came,
\* changed, went and took over each other's tools.
NothingStale ==
  \A t \in Tools :
    /\ owner[t] = None <=> definition[t] = None
    /\ owner[t] # None =>
         /\ definition[t] = registered[owner[t]]
         /\ t \in definition[t].tools
=============================================================================
