----------------------------- MODULE SearchIndex -----------------------------
(***************************************************************************)
(* The search index over tools (registry/index.py): an inverted index kept *)
(* in step with the documents of its tools, and the ranked search.         *)
(*                                                                         *)
(* A document is a tool's name and the words of its name, tags and         *)
(* description.  Tool names are numbers, in their order as strings.        *)
(*                                                                         *)
(* Operators whose names end in _ and a word are the same-named operators  *)
(* with a mistake in them, for the mutant runs; no definition uses them.   *)
(***************************************************************************)
EXTENDS Lists

CONSTANTS
  Words,       \* tokens
  IndexNames,  \* the names of the tools that are indexed
  Documents,   \* what tools may be added as
  Queries,     \* what is searched for
  Unindexed    \* no document

Document == [tool : IndexNames, name : SUBSET Words, tags : SUBSET Words,
             description : SUBSET Words]

ASSUME IndexAssumption ==
  /\ IndexNames \subseteq Nat
  /\ Documents \subseteq Document
  /\ Queries \subseteq Seq(Words)
  /\ Unindexed \notin Document

VARIABLES
  postings,     \* _postings: the tools of each word that the index has
  toolTokens,   \* _tool_tokens: the weight of each word of each indexed tool
  latest        \* what each tool was last added as, if it is there (history)

indexVars == <<postings, toolTokens, latest>>

Weights == {1, 2, 3}

IndexTypeOK ==
  /\ DOMAIN postings \subseteq Words
  /\ \A w \in DOMAIN postings : postings[w] \subseteq IndexNames
  /\ DOMAIN toolTokens \subseteq IndexNames
  /\ \A t \in DOMAIN toolTokens :
       /\ DOMAIN toolTokens[t] \subseteq Words
       /\ \A w \in DOMAIN toolTokens[t] : toolTokens[t][w] \in Weights
  /\ latest \in [IndexNames -> Documents \cup {Unindexed}]

IndexInit ==
  /\ postings = [w \in {} |-> {}]
  /\ toolTokens = [t \in {} |-> <<>>]
  /\ latest = [t \in IndexNames |-> Unindexed]
-----------------------------------------------------------------------------
(* Maintenance *)

WordsOf(d) == d.name \cup d.tags \cup d.description

DocumentTokens_LastField(d) ==
  [w \in WordsOf(d) |-> IF w \in d.description THEN 1 ELSE IF w \in d.tags THEN 2 ELSE 3]

\* _document_tokens: a word has the weight of the best field it is in.
DocumentTokens(d) ==
  [w \in WordsOf(d) |-> IF w \in d.name THEN 3 ELSE IF w \in d.tags THEN 2 ELSE 1]

Without_Unpruned(t) ==
  [w \in DOMAIN postings |-> IF w \in DOMAIN toolTokens[t] THEN postings[w] \ {t} ELSE postings[w]]

\* The postings once t is removed: those of its own words lose it, and the
\* ones that this leaves empty are dropped.
Without(t) ==
  LET own == DOMAIN toolTokens[t]
      left == {w \in DOMAIN postings : w \in own => postings[w] \ {t} # {}}
  IN [w \in left |-> IF w \in own THEN postings[w] \ {t} ELSE postings[w]]

BeforeAdding_Stale(t) == postings

\* The postings that add_tool adds to.
BeforeAdding(t) == IF t \in DOMAIN toolTokens THEN Without(t) ELSE postings

AddTool(d) ==
  LET tokens == DocumentTokens(d)
      old == BeforeAdding(d.tool)
  IN /\ toolTokens' = [t \in DOMAIN toolTokens \cup {d.tool} |->
                         IF t = d.tool THEN tokens ELSE toolTokens[t]]
     /\ postings' = [w \in DOMAIN old \cup DOMAIN tokens |->
                       (IF w \in DOMAIN old THEN old[w] ELSE {})
                         \cup (IF w \in DOMAIN tokens THEN {d.tool} ELSE {})]
     /\ latest' = [latest EXCEPT ![d.tool] = d]

\* A tool that is not indexed may be removed too.
RemoveTool(t) ==
  \/ /\ t \in DOMAIN toolTokens
     /\ toolTokens' = [u \in DOMAIN toolTokens \ {t} |-> toolTokens[u]]
     /\ postings' = Without(t)
     /\ latest' = [latest EXCEPT ![t] = Unindexed]
  \/ /\ t \notin DOMAIN toolTokens
     /\ UNCHANGED indexVars
-----------------------------------------------------------------------------
(* Search *)

\* A word counts as often as the query has it.
Score(t, q) == TotalOf([i \in DOMAIN q |->
  IF q[i] \in DOMAIN postings /\ t \in postings[q[i]] THEN toolTokens[t][q[i]] ELSE 0])

Hits(q) == UNION {postings[w] : w \in {q[i] : i \in DOMAIN q} \cap DOMAIN postings}

Search_ByScore(q, limit) ==
  LET before(s, t) == \/ Score(s, q) > Score(t, q)
                      \/ Score(s, q) = Score(t, q) /\ s > t
      ranked == Sorted(Hits(q), {p \in Hits(q) \X Hits(q) : before(p[1], p[2])})
  IN SubSeq(ranked, 1, IF limit < Len(ranked) THEN limit ELSE Len(ranked))

\* search: the names, best score first and then by name, as many as asked for.
Search(q, limit) ==
  LET before(s, t) == \/ Score(s, q) > Score(t, q)
                      \/ Score(s, q) = Score(t, q) /\ s < t
      ranked == Sorted(Hits(q), {p \in Hits(q) \X Hits(q) : before(p[1], p[2])})
  IN SubSeq(ranked, 1, IF limit < Len(ranked) THEN limit ELSE Len(ranked))
-----------------------------------------------------------------------------
(* Properties *)

\* The two dictionaries hold the same pairs of a tool and a word, those of
\* the tools as they were last added, and nothing more: no word is kept for a
\* tool that has gone or that has lost it, and no word without a tool, however
\* often tools were added again and removed.
IndexMatchesTools ==
  /\ \A t \in IndexNames : t \in DOMAIN toolTokens <=> latest[t] # Unindexed
  /\ \A t \in DOMAIN toolTokens : DOMAIN toolTokens[t] = WordsOf(latest[t])
  /\ \A w \in DOMAIN postings : postings[w] # {}
  /\ \A w \in Words, t \in IndexNames :
       (w \in DOMAIN postings /\ t \in postings[w])
         <=> (latest[t] # Unindexed /\ w \in WordsOf(latest[t]))

NoRepeats(q) == \A i, j \in DOMAIN q : q[i] = q[j] => i = j

\* What a document is worth to a query by index.py:5-7: the distinct words of
\* the query that it has, each by the best field it is in.
Relevance(d, q) == TotalOf([i \in DOMAIN q |->
  IF \E j \in 1..(i - 1) : q[j] = q[i] THEN 0
  ELSE CASE q[i] \in d.name -> 3
         [] q[i] \in d.tags \ d.name -> 2
         [] q[i] \in d.description \ (d.tags \cup d.name) -> 1
         [] OTHER -> 0])

\* A search finds the tools whose documents, as they were last added, have a
\* word of the query, each once, and no more of them than asked for.  For a
\* query that repeats no word they come the most relevant first, ties by name,
\* and of too many they are the best.  A word that is repeated counts again
\* each time (index.py:120-122), where index.py:5 counts distinct words: the
\* order that a query with repeats gives is not what that line says, and
\* nothing is claimed of it here.
FindsByReference ==
  \A q \in Queries, limit \in 0..Cardinality(DOMAIN toolTokens) + 1 :
    LET found == Search(q, limit)
        relevant == {t \in IndexNames : latest[t] # Unindexed
                                          /\ \E i \in DOMAIN q : q[i] \in WordsOf(latest[t])}
        worth(t) == Relevance(latest[t], q)
        better(s, t) == worth(s) > worth(t) \/ (worth(s) = worth(t) /\ s < t)
    IN /\ Len(found) = IF limit < Cardinality(relevant) THEN limit ELSE Cardinality(relevant)
       /\ \A i, j \in DOMAIN found : found[i] = found[j] => i = j
       /\ \A i \in DOMAIN found :
            /\ found[i] \in relevant
            /\ NoRepeats(q) =>
                 \A t \in relevant : (\E j \in 1..i : t = found[j]) \/ better(found[i], t)

\* The index answers for the tools as they are, in what it keeps and in what
\* it finds.
IndexAnswersForTools == IndexMatchesTools /\ FindsByReference
=============================================================================
