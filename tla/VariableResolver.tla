-------------------------- MODULE VariableResolver --------------------------
(***************************************************************************)
(* Substitution of ${NAME} in configuration strings (core/variables.py).   *)
(* The recursion of _resolve is a stack of frames, one for each template   *)
(* under way: the variable it is the value of, the segments still to be    *)
(* matched, and the text put together so far.                              *)
(*                                                                         *)
(* A template is a sequence of segments: plain text, ${NAME} ("var") and   *)
(* $${NAME} ("escaped").  What resolve returns is a sequence of segments   *)
(* too: there "var" is the literal ${NAME} that an escape leaves behind.   *)
(*                                                                         *)
(* Operators whose names end in _ and a word are the same-named operators  *)
(* with a mistake in them, for the mutant runs; no definition uses them.   *)
(***************************************************************************)
EXTENDS Lists

CONSTANTS
  Names,    \* the variables
  Texts,    \* pieces of plain text
  Absent    \* a variable that a layer does not define; no answer yet

Segment == [kind : {"text"}, of : Texts] \cup [kind : {"var", "escaped"}, of : Names]
Template == Seq(Segment)

\* A source of values: a mapping, the .env file or the environment.
Layer == [Names -> Template \cup {Absent}]

VARIABLES
  layers,   \* _layers and, last, the environment: the first to define a name wins
  asked,    \* the template that resolve was called with last (history)
  stack,    \* the calls of _resolve that are under way, outermost first
  answer    \* what resolve has returned or raised, Absent until then

resolverVars == <<layers, asked, stack, answer>>

Frame == [name : Names \cup {Absent}, rest : Template, out : Template]

Answer == [kind : {"text"}, value : Template]
            \cup [kind : {"undefined"}, name : Names]
            \cup [kind : {"cyclic"}, chain : Seq(Names)]

ASSUME ResolverAssumption ==
  /\ IsFiniteSet(Names)
  /\ Absent \notin Names \cup Template \cup Answer

\* No variable is being resolved twice at once: the stack is never deeper
\* than there are variables, and the recursion ends.
ResolverTypeOK ==
  /\ layers \in Seq(Layer)
  /\ asked \in Template
  /\ stack \in Seq(Frame)
  /\ answer \in Answer \cup {Absent}
  /\ \A i \in DOMAIN stack :
       /\ stack[i].name = Absent <=> i = 1
       /\ \A j \in DOMAIN stack : stack[i].name = stack[j].name => i = j

ResolverInit ==
  /\ layers = <<>>
  /\ asked = <<>>
  /\ stack = <<>>
  /\ answer = Absent
-----------------------------------------------------------------------------
(* The calls of resolve *)

Lookup_LastWins(L, n) ==
  LET D == {i \in DOMAIN L : L[i][n] # Absent} IN
    IF D = {} THEN Absent ELSE L[CHOOSE i \in D : \A j \in D : i >= j][n]

\* _lookup: a value may be empty and still be one.
Lookup(L, n) ==
  LET D == {i \in DOMAIN L : L[i][n] # Absent} IN
    IF D = {} THEN Absent ELSE L[CHOOSE i \in D : \A j \in D : i <= j][n]

Top == stack[Len(stack)]
Below == SubSeq(stack, 1, Len(stack) - 1)
Next1 == Head(Top.rest)

\* The names in _resolving, outermost first.
Chain == [i \in 1..(Len(stack) - 1) |-> stack[i + 1].name]

Resolving_Caller == IF Len(stack) > 1 THEN {Top.name} ELSE {}
Resolving == {Chain[i] : i \in DOMAIN Chain}

\* resolve(t), on a resolver whose sources are L.
Resolve(t, L) ==
  /\ stack = <<>>
  /\ layers' = L
  /\ asked' = t
  /\ stack' = <<[name |-> Absent, rest |-> t, out |-> <<>>]>>
  /\ answer' = Absent

Answered(a) ==
  /\ stack' = <<>>
  /\ answer' = a
  /\ UNCHANGED <<layers, asked>>

Shown_Bare(s) == s

\* An escaped placeholder loses its escape, and is not matched again.
Shown(s) == IF s.kind = "escaped" THEN [s EXCEPT !.kind = "var"] ELSE s

Literal ==
  /\ stack # <<>>
  /\ Top.rest # <<>>
  /\ Next1.kind # "var"
  /\ stack' = Append(Below, [Top EXCEPT !.rest = Tail(@), !.out = Append(@, Shown(Next1))])
  /\ UNCHANGED <<layers, asked, answer>>

\* replace: a variable that is being resolved already, one that no source
\* defines, or the recursion into a value.
Substitute ==
  /\ stack # <<>>
  /\ Top.rest # <<>>
  /\ Next1.kind = "var"
  /\ LET n == Next1.of
         value == Lookup(layers, n)
     IN \/ /\ n \in Resolving
           /\ Answered([kind |-> "cyclic", chain |-> Append(Chain, n)])
        \/ /\ n \notin Resolving
           /\ value = Absent
           /\ Answered([kind |-> "undefined", name |-> n])
        \/ /\ n \notin Resolving
           /\ value # Absent
           /\ stack' = Append(Append(Below, [Top EXCEPT !.rest = Tail(@)]),
                              [name |-> n, rest |-> value, out |-> <<>>])
           /\ UNCHANGED <<layers, asked, answer>>

\* A value is put in place as it is: what it has become is not matched again.
Return ==
  /\ stack # <<>>
  /\ Top.rest = <<>>
  /\ \/ /\ Below = <<>>
        /\ Answered([kind |-> "text", value |-> Top.out])
     \/ /\ Below # <<>>
        /\ LET caller == Below[Len(Below)] IN
             stack' = [Below EXCEPT ![Len(Below)] =
                         [caller EXCEPT !.out = @ \o Top.out]]
        /\ UNCHANGED <<layers, asked, answer>>

ResolverNext == Literal \/ Substitute \/ Return
-----------------------------------------------------------------------------
(* Reference: what a template means, from the graph of the variables *)

Mentioned(t) == {t[i].of : i \in {j \in DOMAIN t : t[j].kind = "var"}}

\* The value of n: from a source that defines it and none before which does.
Values(L, n) ==
  {L[i][n] : i \in {i \in DOMAIN L : \A j \in 1..i : L[j][n] # Absent <=> j = i}}

Uses(L, n) == UNION {Mentioned(value) : value \in Values(L, n)}

WithUses(L) == [S \in SUBSET Names |-> S \cup UNION {Uses(L, n) : n \in S}]

\* The variables that t needs, by way of at most so many others.
Needed(L, t) == Iterated(WithUses(L), Mentioned(t), Cardinality(Names))

Undefined(L) == {n \in Names : Values(L, n) = {}}
OnCycle(L) == {n \in Names : \E value \in Values(L, n) : n \in Needed(L, value)}

Meaningful(L, t) == Needed(L, t) \cap (Undefined(L) \cup OnCycle(L)) = {}

\* A template with a text in the place of every variable.
Put(text, t) ==
  Folded([p \in Template \X Segment |->
            p[1] \o IF p[2].kind = "var" THEN text[p[2].of]
                    ELSE <<[p[2] EXCEPT !.kind = IF @ = "text" THEN @ ELSE "var"]>>],
         <<>>, t)

\* The values of the variables, with a text in the place of every variable.
WithValues(L) ==
  [text \in [Names -> Template] |->
     [n \in Names |-> IF Values(L, n) = {} THEN <<>>
                      ELSE Put(text, CHOOSE value \in Values(L, n) : TRUE)]]

\* The text of a meaningful template: every variable replaced by the text of
\* its value, which takes no more rounds than there are variables.
Meaning(L, t) ==
  Put(Iterated(WithValues(L), [n \in Names |-> <<>>], Cardinality(Names)), t)
-----------------------------------------------------------------------------
(* Properties *)

\* No error is made up: the variable named is one that no source defines, or
\* the chain named is one of variables each used by the one before, from the
\* template on, that closes on itself.
ErrorsHaveACause ==
  answer # Absent =>
    /\ answer.kind = "undefined" => answer.name \in Undefined(layers)
    /\ answer.kind = "cyclic" =>
         LET c == answer.chain IN
           /\ Len(c) > 1
           /\ c[1] \in Mentioned(asked)
           /\ \A i \in 1..(Len(c) - 1) : c[i + 1] \in Uses(layers, c[i])
           /\ \E i \in 1..(Len(c) - 1) : c[i] = c[Len(c)]

\* Every call is answered by what its template means.  A text is returned
\* exactly when no variable it needs is undefined or needs itself, however
\* often and by however many ways it needs it, and it is the meaning of the
\* template; an error has a cause, in a variable that is needed.
ResolvedByReference ==
  /\ ErrorsHaveACause
  /\ answer # Absent =>
       /\ answer.kind = "text" <=> Meaningful(layers, asked)
       /\ answer.kind = "text" => answer.value = Meaning(layers, asked)
       /\ answer.kind = "undefined" => answer.name \in Needed(layers, asked)
=============================================================================
