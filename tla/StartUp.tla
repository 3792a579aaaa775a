------------------------------- MODULE StartUp -------------------------------
(***************************************************************************)
(* From a configuration file to a client or to the answer of a command     *)
(* (core/config.py, core/auth.py, client/bootstrap.py, __main__.py): the   *)
(* document is read, each entry is built with its strings resolved, and    *)
(* then client_from_config gives every provider its credentials and its    *)
(* transport and discovers it, or a command looks at what was loaded.      *)
(*                                                                         *)
(* An entry has one header, which stands for every string of the entry     *)
(* that is resolved; the header that its auth sets is the same one.        *)
(*                                                                         *)
(* Operators whose names end in _ and a word are the same-named operators  *)
(* with a mistake in them, for the mutant runs; no definition uses them.   *)
(***************************************************************************)
EXTENDS ToolRepository, VariableResolver

CONSTANTS
  Starts     \* what a program may be started with

\* A scheme with a token refuses an empty one, which basic does not.  A defect
\* is met before an entry's strings are resolved, after, or in its auth.
Auth == [scheme : {"none", "token", "basic"}, secret : Template]
Entry == [provider : Providers, header : Template, auth : Auth,
          defect : {"none", "before", "after", "auth"}]

\* "client" calls client_from_config, and "bare" does with discover=False;
\* their resolver is the one they pass on, or the default, which has no
\* sources.  "validate" is also list; "inspect" wants one provider.
Start == [program : {"client", "bare", "validate", "inspect"},
          readable : BOOLEAN, providers : Seq(Entry), inline : Layer,
          overrides : Layer, dotenv : Layer, environ : Layer,
          resolver : Seq(Layer), wanted : Providers]

ASSUME StartUpAssumption == Starts \subseteq Start

VARIABLES
  start,        \* what the program was started with
  phase,        \* what it is doing
  loaded,       \* Config.providers: the entries built so far
  transports,   \* client_from_config's dictionary of transports
  wired,        \* how many entries client_from_config has got a transport for
  discovered,   \* the entry whose transport gave a provider's manual (history)
  outcome       \* how it ended, None until then

startVars == <<start, phase, loaded, transports, wired, discovered, outcome>>

\* A provider's header comes from its entry or from its auth.
Header == [by : {"none", "token", "basic"}, value : Template]
Wiring == [header : Header, entry : Nat]
Outcome == {"ready", "exit 0", "exit 2", "raised"}

ASSUME NoneAssumption == None \notin Wiring \cup Outcome

StartUpTypeOK ==
  /\ ResolverTypeOK
  /\ RepositoryTypeOK
  /\ start \in Starts
  /\ phase \in {"reading", "loading", "wiring", "inspecting", "discovering", "ended"}
  /\ loaded \in Seq([provider : Providers, header : Template, auth : Auth])
  /\ Len(loaded) <= Len(start.providers)
  /\ transports \in [Providers -> Wiring \cup {None}]
  /\ wired \in 0..Len(loaded)
  /\ discovered \in [Providers -> 0..wired]
  /\ outcome \in Outcome \cup {None}
  /\ phase = "ended" <=> outcome # None

StartUpInit ==
  /\ ResolverInit
  /\ RepositoryInit
  /\ start \in Starts
  /\ phase = "reading"
  /\ loaded = <<>>
  /\ transports = [p \in Providers |-> None]
  /\ wired = 0
  /\ discovered = [p \in Providers |-> 0]
  /\ outcome = None
-----------------------------------------------------------------------------
(* Reading and loading *)

\* The call raises, or the command exits: main catches a ConfigError and
\* nothing else.
End(how) ==
  /\ phase' = "ended"
  /\ outcome' = how
  /\ UNCHANGED <<start, loaded, transports, wired, discovered>>

RefuseConfig ==
  End(IF start.program \in {"validate", "inspect"} THEN "exit 2" ELSE "raised")

Enter(p) ==
  /\ phase' = p
  /\ UNCHANGED <<start, loaded, transports, wired, discovered, outcome>>

\* load_config_file, as far as the list of entries.
Read ==
  /\ phase = "reading"
  /\ \/ /\ start.readable
        /\ Enter("loading")
     \/ /\ ~start.readable
        /\ RefuseConfig
  /\ UNCHANGED <<repositoryVars, resolverVars>>

LoadLayers_InlineFirst ==
  <<[n \in Names |-> IF start.inline[n] # Absent THEN start.inline[n] ELSE start.overrides[n]],
    start.dotenv, start.environ>>

\* The sources of the configuration's resolver.
LoadLayers ==
  <<[n \in Names |-> IF start.overrides[n] # Absent THEN start.overrides[n] ELSE start.inline[n]],
    start.dotenv, start.environ>>

Idle == stack = <<>> /\ answer = Absent
Forget == answer' = Absent /\ UNCHANGED <<layers, asked, stack>>

EntryToLoad == start.providers[Len(loaded) + 1]

\* _build_provider, as far as the first string.
BeginEntry ==
  /\ phase = "loading"
  /\ Idle
  /\ Len(loaded) < Len(start.providers)
  /\ \/ /\ EntryToLoad.defect = "before"
        /\ RefuseConfig
        /\ UNCHANGED resolverVars
     \/ /\ EntryToLoad.defect # "before"
        /\ Resolve(EntryToLoad.header, LoadLayers)
        /\ UNCHANGED startVars
  /\ UNCHANGED repositoryVars

FinishEntry_Lenient ==
  /\ phase = "loading"
  /\ answer # Absent
  /\ loaded' = Append(loaded, [provider |-> EntryToLoad.provider, auth |-> EntryToLoad.auth,
                               header |-> IF answer.kind = "text" THEN answer.value
                                          ELSE EntryToLoad.header])
  /\ UNCHANGED <<start, phase, transports, wired, discovered, outcome, repositoryVars>>
  /\ Forget

\* The rest of it.  An undefined variable, a cycle or a bad auth is not a
\* ConfigError.
FinishEntry ==
  /\ phase = "loading"
  /\ answer # Absent
  /\ \/ /\ answer.kind # "text" \/ EntryToLoad.defect = "auth"
        /\ End("raised")
     \/ /\ answer.kind = "text"
        /\ EntryToLoad.defect = "after"
        /\ RefuseConfig
     \/ /\ answer.kind = "text"
        /\ EntryToLoad.defect = "none"
        /\ loaded' = Append(loaded, [provider |-> EntryToLoad.provider,
                                     header |-> answer.value, auth |-> EntryToLoad.auth])
        /\ UNCHANGED <<start, phase, transports, wired, discovered, outcome>>
  /\ Forget
  /\ UNCHANGED repositoryVars

Wanted == {i \in DOMAIN loaded : loaded[i].provider = start.wanted}

Loaded ==
  /\ phase = "loading"
  /\ Idle
  /\ Len(loaded) = Len(start.providers)
  /\ CASE start.program = "validate" -> End("exit 0")
       [] start.program = "inspect" ->
            IF Wanted = {} THEN RefuseConfig ELSE Enter("inspecting")
       [] OTHER -> Enter("wiring")
  /\ UNCHANGED <<repositoryVars, resolverVars>>
-----------------------------------------------------------------------------
(* Credentials, transports and discovery *)

\* The entry whose headers are built: config.get finds the first of a name.
InHand == IF phase = "inspecting" THEN loaded[CHOOSE i \in Wanted : \A j \in Wanted : i <= j]
          ELSE loaded[wired + 1]

InHandExists == phase = "inspecting" \/ (phase = "wiring" /\ wired < Len(loaded))

\* inspect resolves credentials from the environment alone.
AskAuth ==
  /\ InHandExists
  /\ Idle
  /\ InHand.auth.scheme # "none"
  /\ Resolve(InHand.auth.secret,
             IF phase = "inspecting" THEN <<start.environ>> ELSE start.resolver)
  /\ UNCHANGED <<startVars, repositoryVars>>

Refused_EmptyPasses == answer # Absent /\ answer.kind # "text"

\* The credentials cannot be resolved, or are an empty token.
Refused ==
  /\ answer # Absent
  /\ answer.kind = "text" => InHand.auth.scheme = "token" /\ answer.value = <<>>

RefuseAuth ==
  /\ InHandExists
  /\ Refused
  /\ End("raised")
  /\ Forget
  /\ UNCHANGED repositoryVars

\* The headers of the entry in hand are there.
Authenticated ==
  /\ InHandExists
  /\ IF InHand.auth.scheme = "none" THEN Idle ELSE answer # Absent /\ ~Refused

PreparedHeader_ConfigWins == [by |-> "none", value |-> InHand.header]

\* _provider_with_auth: what the auth sets replaces what the entry set.
PreparedHeader ==
  IF InHand.auth.scheme = "none" THEN [by |-> "none", value |-> InHand.header]
  ELSE [by |-> InHand.auth.scheme, value |-> answer.value]

Inspected ==
  /\ phase = "inspecting"
  /\ Authenticated
  /\ End("exit 0")
  /\ Forget
  /\ UNCHANGED repositoryVars

Transports_FirstKept(p, t) == IF transports[p] = None THEN [transports EXCEPT ![p] = t]
                              ELSE transports

\* A later entry of the same name has its transport replace the earlier one's.
Transports(p, t) == [transports EXCEPT ![p] = t]

\* One round of client_from_config, as far as discovery: the transport
\* factory may raise.
Wire ==
  /\ phase = "wiring"
  /\ Authenticated
  /\ \/ End("raised")
     \/ /\ transports' = Transports(InHand.provider,
                                   [header |-> PreparedHeader, entry |-> wired + 1])
        /\ wired' = wired + 1
        /\ phase' = IF start.program = "client" THEN "discovering" ELSE "wiring"
        /\ UNCHANGED <<start, loaded, discovered, outcome>>
  /\ Forget
  /\ UNCHANGED repositoryVars

\* discover raises, and what earlier rounds registered stays; or it gives a
\* manual, which replaces the provider's earlier one.
Discover ==
  /\ phase = "discovering"
  /\ LET name == loaded[wired].provider IN
       \/ /\ End("raised")
          /\ UNCHANGED repositoryVars
       \/ /\ \E m \in Manuals : m.provider = name /\ Register(m, TRUE)
          /\ discovered' = [discovered EXCEPT ![name] = wired]
          /\ phase' = "wiring"
          /\ UNCHANGED <<start, loaded, transports, wired, outcome>>
  /\ UNCHANGED resolverVars

Serve ==
  /\ phase = "wiring"
  /\ wired = Len(loaded)
  /\ End("ready")
  /\ UNCHANGED <<repositoryVars, resolverVars>>

StartUpNext ==
  \/ Read \/ BeginEntry \/ FinishEntry \/ Loaded
  \/ AskAuth \/ RefuseAuth \/ Inspected \/ Wire \/ Discover \/ Serve
  \/ ResolverNext /\ UNCHANGED <<startVars, repositoryVars>>
-----------------------------------------------------------------------------
(* Properties *)

Sources == <<start.overrides, start.inline, start.dotenv, start.environ>>

\* The entries that can be built.
Sound(e) == e.defect = "none" /\ Meaningful(Sources, e.header)

\* A configuration is loaded as a whole before anything is done with it:
\* validate succeeds exactly for the ones whose entries can all be built, and
\* for any other no provider is given a transport or registered, no provider
\* is shown, and no client is made, wherever in the document the fault is.
LoadedAsAWhole ==
  LET sound == start.readable /\ \A i \in DOMAIN start.providers : Sound(start.providers[i])
  IN /\ start.program = "validate" /\ phase = "ended" => (outcome = "exit 0" <=> sound)
     /\ ~sound => /\ outcome \in {"exit 2", "raised", None}
                   /\ \A p \in Providers : transports[p] = None /\ registered[p] = None

EntriesOf(p) == {i \in DOMAIN start.providers : start.providers[i].provider = p}
LastOf(p) == CHOOSE i \in EntriesOf(p) : \A j \in EntriesOf(p) : i >= j

\* A client that start-up has made reaches every configured provider, and no
\* other, through the transport of the last entry of that name, and the
\* manual registered for a provider is the one which that very transport
\* gave; with discover=False no provider is registered.
LastEntryServes ==
  outcome = "ready" =>
    \A p \in Providers :
      IF EntriesOf(p) = {} THEN transports[p] = None /\ registered[p] = None
      ELSE /\ transports[p] # None
           /\ transports[p].entry = LastOf(p)
           /\ IF start.program = "bare" THEN registered[p] = None
              ELSE registered[p] # None /\ discovered[p] = LastOf(p)

\* It sends the header that the last entry means, or the one of that entry's
\* auth if it has one, whatever other entries say; a token is never empty.
CallsReachTheirProvider ==
  /\ LastEntryServes
  /\ outcome = "ready" =>
       \A p \in {p \in Providers : EntriesOf(p) # {}} :
         LET e == start.providers[LastOf(p)]
             sent == transports[p].header
         IN /\ sent.by = e.auth.scheme
            /\ sent.value = IF e.auth.scheme = "none" THEN Meaning(Sources, e.header)
                            ELSE Meaning(start.resolver, e.auth.secret)
            /\ sent.by = "token" => sent.value # <<>>
=============================================================================
