---------------------------- MODULE MCAgentProgram ----------------------------
(***************************************************************************)
(* Start-up with two providers and three variables; an index of two tools; *)
(* a conversation of five turns in a budget of three tokens.               *)
(***************************************************************************)
EXTENDS AgentProgram

CONSTANTS p, q, x, y, u, v, w, secret, find, read

MCManuals == {[provider |-> p, tools |-> {x}], [provider |-> p, tools |-> {x, y}],
              [provider |-> q, tools |-> {y}]}

Text == [kind |-> "text", of |-> secret]
Var(n) == [kind |-> "var", of |-> n]
Escaped(n) == [kind |-> "escaped", of |-> n]

Empty == [n \in Names |-> Absent]
Defining(n, t) == [Empty EXCEPT ![n] = t]

\* The values of u, v and w: plain, empty, chained, a diamond (u by v and by
\* w and by itself twice), escaped, a cycle of two, a cycle off the path.
Inline ==
  {[n \in Names |-> CASE n = u -> f[1] [] n = v -> f[2] [] OTHER -> f[3]] :
     f \in {<<<<Text>>, Absent, Absent>>,
            <<<<>>, Absent, <<Var(u), Escaped(u)>>>>,
            <<<<Var(v), Var(w), Var(v)>>, <<Var(w), Text>>, <<Text>>>>,
            <<<<Escaped(u), Var(v)>>, <<Escaped(v)>>, Absent>>,
            <<<<Text, Var(v)>>, <<Var(u)>>, Absent>>,
            <<<<Var(v)>>, <<Var(v)>>, <<Text>>>>}}

DotEnvs == {Empty, Defining(v, <<Var(w), Var(w)>>)}
Environs == {Empty, Defining(w, <<Text, Text>>), Defining(w, <<Var(u)>>)}
Explicit == {Empty, Defining(u, <<Var(w)>>)}

Auths == {[scheme |-> "none", secret |-> <<>>]}
           \cup [scheme : {"token", "basic"}, secret : {<<Var(u)>>}]

EntriesWith(names, headers, auths, defects) ==
  [provider : names, header : headers, auth : auths, defect : defects]

Plain == [provider |-> p, header |-> <<Text>>, auth |-> [scheme |-> "none", secret |-> <<>>],
          defect |-> "none"]

\* No entry, one of every kind, two of one name or of two names.
Providers1 == {<<>>} \cup {<<e>> : e \in EntriesWith({p}, {<<Var(u), Var(v)>>}, Auths, {"none"})}
Providers2 == {<<Plain, e>> : e \in EntriesWith({p, q}, {<<Var(u)>>},
                 {[scheme |-> "none", secret |-> <<>>], [scheme |-> "token", secret |-> <<Var(w)>>]},
                 {"none", "before", "after", "auth"})}

StartsWith(programs, providers, inlines, overrides, dotenvs, environs, resolvers) ==
  [program : programs, readable : {TRUE}, providers : providers, inline : inlines,
   overrides : overrides, dotenv : dotenvs, environ : environs, resolver : resolvers,
   wanted : {p, q}]

MCStarts ==
  \* what every source may define, for one provider and an entry of any auth
  {s \in StartsWith({"client", "validate", "inspect"}, Providers1, Inline, Explicit, DotEnvs,
                    Environs, {<<>>, <<Defining(u, <<Text>>)>>, <<Defining(u, <<>>)>>}) :
     /\ s.wanted = q => s.program = "inspect"
     /\ s.resolver # <<>> => s.program = "client"
     /\ s.overrides # Empty => s.program # "validate"
     /\ s.providers = <<>> => s.inline[u] = <<>> /\ s.resolver = <<>>}
  \cup
  \* two entries, with what may be wrong in the second
  {s \in StartsWith({"client", "bare", "validate", "inspect"}, Providers2, Inline, {Empty}, {Empty},
                    {Defining(w, <<Text, Text>>)}, {<<>>, <<Defining(w, <<Text>>)>>}) :
     /\ s.wanted = q => s.program = "inspect"
     /\ s.resolver # <<>> => s.program \in {"client", "bare"}}
  \cup
  {[program |-> g, readable |-> FALSE, providers |-> <<Plain>>, inline |-> Empty,
    overrides |-> Empty, dotenv |-> Empty, environ |-> Empty, resolver |-> <<>>, wanted |-> p] :
     g \in {"client", "validate"}}

\* find and read are words; the first tool is named by one of them.
MCDocuments ==
  {d \in [tool : {1, 2}, name : {{find}, {read}}, tags : {{}, {read}},
          description : {{}, {find, read}}] :
     d.name = IF d.tool = 1 THEN {find} ELSE {read}}
MCQueries == {<<find>>, <<read>>, <<find, read>>, <<find, find, read>>, <<>>}
=============================================================================
