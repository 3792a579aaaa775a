------------------------- MODULE AgentProgram_proofs -------------------------
(***************************************************************************)
(* Proofs about AgentProgram: the search index keeps step with its tools   *)
(* and answers for them, the resolver returns what its templates mean, a   *)
(* configuration is used as a whole or not at all and a client made from   *)
(* it sends what it says, and the conversation keeps its newest turns.     *)
(***************************************************************************)
EXTENDS AgentProgram, Lists_proofs, SequenceTheorems, FiniteSetTheorems, TLAPS

-----------------------------------------------------------------------------
(* The search index *)

IndexSound == IndexTypeOK /\ IndexMatchesTools

LEMMA IndexSoundInit == IndexInit => IndexSound
  BY DEF IndexInit, IndexSound, IndexTypeOK, IndexMatchesTools

\* Removing a tool takes it out of every posting and leaves the other tools
\* where they were, without an empty posting.
LEMMA WithoutEntries ==
  ASSUME IndexSound, NEW t \in DOMAIN toolTokens
  PROVE  /\ DOMAIN Without(t) \subseteq Words
         /\ \A w \in DOMAIN Without(t) : Without(t)[w] \subseteq IndexNames /\ Without(t)[w] # {}
         /\ \A w \in Words, u \in IndexNames :
              (w \in DOMAIN Without(t) /\ u \in Without(t)[w])
                <=> (u # t /\ w \in DOMAIN postings /\ u \in postings[w])
<1> DEFINE own == DOMAIN toolTokens[t]
           left == {w \in DOMAIN postings : w \in own => postings[w] \ {t} # {}}
<1>1. Without(t) = [w \in left |-> IF w \in own THEN postings[w] \ {t} ELSE postings[w]]
  BY DEF Without
<1>2. /\ t \in IndexNames /\ DOMAIN postings \subseteq Words
      /\ \A w \in DOMAIN postings : postings[w] \subseteq IndexNames /\ postings[w] # {}
  BY DEF IndexSound, IndexTypeOK, IndexMatchesTools
<1>3. \A w \in DOMAIN postings : t \in postings[w] => w \in own
  BY <1>2 DEF IndexSound, IndexMatchesTools
<1> HIDE DEF own
<1>4. DOMAIN Without(t) = left
  BY <1>1
<1>5. \A w \in left : Without(t)[w] = postings[w] \ {t} /\ Without(t)[w] # {}
  BY <1>1, <1>2, <1>3
<1>6. \A w \in DOMAIN postings : \A u : u # t /\ u \in postings[w] => w \in left
  OBVIOUS
<1> QED
  BY <1>2, <1>4, <1>5, <1>6

LEMMA BeforeAddingEntries ==
  ASSUME IndexSound, NEW t \in IndexNames
  PROVE  /\ DOMAIN BeforeAdding(t) \subseteq Words
         /\ \A w \in DOMAIN BeforeAdding(t) :
              BeforeAdding(t)[w] \subseteq IndexNames /\ BeforeAdding(t)[w] # {}
         /\ \A w \in Words, u \in IndexNames :
              (w \in DOMAIN BeforeAdding(t) /\ u \in BeforeAdding(t)[w])
                <=> (u # t /\ w \in DOMAIN postings /\ u \in postings[w])
<1>1. CASE t \in DOMAIN toolTokens
  BY <1>1, WithoutEntries DEF BeforeAdding
<1>2. CASE t \notin DOMAIN toolTokens
  <2>1. BeforeAdding(t) = postings
    BY <1>2 DEF BeforeAdding
  <2>2. \A w \in DOMAIN postings : t \notin postings[w]
    BY <1>2 DEF IndexSound, IndexTypeOK, IndexMatchesTools
  <2> QED
    BY <2>1, <2>2 DEF IndexSound, IndexTypeOK, IndexMatchesTools
<1> QED
  BY <1>1, <1>2

LEMMA AddKeepsIndex ==
  ASSUME IndexSound, NEW d \in Documents, AddTool(d)
  PROVE  IndexSound'
<1> DEFINE n == d.tool
           tokens == DocumentTokens(d)
           old == BeforeAdding(d.tool)
<1>1. d \in Document /\ n \in IndexNames /\ WordsOf(d) \subseteq Words /\ d # Unindexed
  BY IndexAssumption DEF Document, WordsOf
<1>2. DOMAIN tokens = WordsOf(d) /\ \A w \in WordsOf(d) : tokens[w] \in Weights
  BY DEF DocumentTokens, Weights
<1>3. /\ DOMAIN old \subseteq Words
      /\ \A w \in DOMAIN old : old[w] \subseteq IndexNames /\ old[w] # {}
      /\ \A w \in Words, u \in IndexNames :
           (w \in DOMAIN old /\ u \in old[w])
             <=> (u # n /\ w \in DOMAIN postings /\ u \in postings[w])
  BY <1>1, BeforeAddingEntries
<1>4. /\ toolTokens' = [t \in DOMAIN toolTokens \cup {n} |->
                          IF t = n THEN tokens ELSE toolTokens[t]]
      /\ postings' = [w \in DOMAIN old \cup DOMAIN tokens |->
                        (IF w \in DOMAIN old THEN old[w] ELSE {})
                          \cup (IF w \in DOMAIN tokens THEN {n} ELSE {})]
      /\ latest' = [latest EXCEPT ![n] = d]
  BY DEF AddTool
<1> HIDE DEF n, tokens, old
<1>5. DOMAIN postings' = DOMAIN old \cup WordsOf(d)
  BY <1>2, <1>4
<1>6. \A w \in DOMAIN postings' : \A u : u \in postings'[w] <=>
         (w \in DOMAIN old /\ u \in old[w]) \/ (u = n /\ w \in WordsOf(d))
  BY <1>2, <1>4, <1>5
<1>7. /\ DOMAIN toolTokens' = DOMAIN toolTokens \cup {n}
      /\ toolTokens'[n] = tokens
      /\ \A t \in DOMAIN toolTokens \ {n} : toolTokens'[t] = toolTokens[t]
  BY <1>4
<1>8. /\ latest' \in [IndexNames -> Documents \cup {Unindexed}]
      /\ latest'[n] = d /\ \A t \in IndexNames \ {n} : latest'[t] = latest[t]
  BY <1>1, <1>4 DEF IndexSound, IndexTypeOK
<1>9. IndexTypeOK'
  <2>1. \A w \in DOMAIN postings' : w \in Words /\ postings'[w] \subseteq IndexNames
    BY <1>1, <1>3, <1>5, <1>6
  <2>2. \A t \in DOMAIN toolTokens' :
          /\ t \in IndexNames /\ DOMAIN toolTokens'[t] \subseteq Words
          /\ \A w \in DOMAIN toolTokens'[t] : toolTokens'[t][w] \in Weights
    BY <1>1, <1>2, <1>7 DEF IndexSound, IndexTypeOK
  <2> QED
    BY <1>8, <2>1, <2>2 DEF IndexTypeOK
<1>10. \A t \in IndexNames : t \in DOMAIN toolTokens' <=> latest'[t] # Unindexed
  BY <1>1, <1>7, <1>8 DEF IndexSound, IndexMatchesTools
<1>11. \A t \in DOMAIN toolTokens' : DOMAIN toolTokens'[t] = WordsOf(latest'[t])
  BY <1>1, <1>2, <1>7, <1>8 DEF IndexSound, IndexMatchesTools, IndexTypeOK
<1>12. \A w \in DOMAIN postings' : postings'[w] # {}
  BY <1>3, <1>5, <1>6
<1>13. ASSUME NEW w \in Words, NEW t \in IndexNames
       PROVE  (w \in DOMAIN postings' /\ t \in postings'[w])
                <=> (latest'[t] # Unindexed /\ w \in WordsOf(latest'[t]))
  <2>1. CASE t = n
    BY <1>1, <1>3, <1>5, <1>6, <1>8, <2>1
  <2>2. CASE t # n
    <3>1. (w \in DOMAIN postings' /\ t \in postings'[w]) <=> (w \in DOMAIN postings /\ t \in postings[w])
      BY <1>3, <1>5, <1>6, <2>2
    <3> QED
      BY <1>8, <2>2, <3>1 DEF IndexSound, IndexMatchesTools
  <2> QED
    BY <2>1, <2>2
<1> QED
  BY <1>9, <1>10, <1>11, <1>12, <1>13 DEF IndexSound, IndexMatchesTools

LEMMA RemoveKeepsIndex ==
  ASSUME IndexSound, NEW n \in IndexNames, RemoveTool(n)
  PROVE  IndexSound'
<1>1. CASE n \in DOMAIN toolTokens
  <2>1. /\ toolTokens' = [u \in DOMAIN toolTokens \ {n} |-> toolTokens[u]]
        /\ postings' = Without(n)
        /\ latest' = [latest EXCEPT ![n] = Unindexed]
    BY <1>1 DEF RemoveTool
  <2>2. /\ DOMAIN postings' \subseteq Words
        /\ \A w \in DOMAIN postings' : postings'[w] \subseteq IndexNames /\ postings'[w] # {}
        /\ \A w \in Words, u \in IndexNames :
             (w \in DOMAIN postings' /\ u \in postings'[w])
               <=> (u # n /\ w \in DOMAIN postings /\ u \in postings[w])
    BY <1>1, <2>1, WithoutEntries
  <2>3. /\ latest' \in [IndexNames -> Documents \cup {Unindexed}]
        /\ latest'[n] = Unindexed /\ \A t \in IndexNames \ {n} : latest'[t] = latest[t]
    BY <2>1 DEF IndexSound, IndexTypeOK
  <2>4. /\ DOMAIN toolTokens' = DOMAIN toolTokens \ {n}
        /\ \A t \in DOMAIN toolTokens \ {n} : toolTokens'[t] = toolTokens[t]
    BY <2>1
  <2>5. IndexTypeOK'
    BY <2>2, <2>3, <2>4 DEF IndexSound, IndexTypeOK
  <2>6. /\ \A t \in IndexNames : t \in DOMAIN toolTokens' <=> latest'[t] # Unindexed
        /\ \A t \in DOMAIN toolTokens' : DOMAIN toolTokens'[t] = WordsOf(latest'[t])
    BY <2>3, <2>4 DEF IndexSound, IndexMatchesTools, IndexTypeOK
  <2>7. \A w \in Words, t \in IndexNames :
          (w \in DOMAIN postings' /\ t \in postings'[w])
            <=> (latest'[t] # Unindexed /\ w \in WordsOf(latest'[t]))
    BY <2>2, <2>3 DEF IndexSound, IndexMatchesTools
  <2> QED
    BY <2>2, <2>5, <2>6, <2>7 DEF IndexSound, IndexMatchesTools
<1>2. CASE UNCHANGED indexVars
  BY <1>2 DEF indexVars, IndexSound, IndexTypeOK, IndexMatchesTools
<1> QED
  BY <1>1, <1>2 DEF RemoveTool

LEMMA IndexSoundStep == IndexSound /\ [Next]_vars => IndexSound'
<1> SUFFICES ASSUME IndexSound, [Next]_vars PROVE IndexSound'
  OBVIOUS
<1>1. CASE Indexing
  BY <1>1, AddKeepsIndex, RemoveKeepsIndex DEF Indexing
<1>2. CASE Starting \/ Talking \/ UNCHANGED vars
  <2>1. UNCHANGED indexVars
    BY <1>2 DEF Starting, Talking, vars
  <2> QED
    BY <2>1 DEF indexVars, IndexSound, IndexTypeOK, IndexMatchesTools
<1> QED
  BY <1>1, <1>2 DEF Next

\* The inverted index and the tools agree in every pair of a word and a tool,
\* whatever tools are added, added again with other words, and removed, in
\* whatever order (registry/index.py:68-93).
THEOREM IndexAlwaysMatches == Spec => []IndexMatchesTools
<1>1. Init => IndexSound
  BY IndexSoundInit DEF Init
<1>2. IndexSound => IndexMatchesTools
  BY DEF IndexSound
<1> QED
  BY <1>1, <1>2, IndexSoundStep, PTL DEF Spec
-----------------------------------------------------------------------------
(* The search *)

\* What the index has for a tool comes from its document, and the index is
\* finite.
TokensSound ==
  /\ IsFiniteSet(DOMAIN toolTokens)
  /\ \A t \in DOMAIN toolTokens : toolTokens[t] = DocumentTokens(latest[t])

LEMMA TokensSoundInit == Init => TokensSound
<1> SUFFICES ASSUME Init PROVE TokensSound
  OBVIOUS
<1>1. DOMAIN toolTokens = {}
  BY DEF Init, IndexInit
<1> QED
  BY <1>1, FS_EmptySet DEF TokensSound

LEMMA TokensSoundStep == IndexSound /\ TokensSound /\ [Next]_vars => TokensSound'
<1> SUFFICES ASSUME IndexSound, TokensSound, [Next]_vars PROVE TokensSound'
  OBVIOUS
<1>t. /\ latest \in [IndexNames -> Documents \cup {Unindexed}]
      /\ DOMAIN toolTokens \subseteq IndexNames
  BY DEF IndexSound, IndexTypeOK
<1>1. ASSUME NEW d \in Documents, AddTool(d) PROVE TokensSound'
  <2>1. d.tool \in IndexNames
    BY IndexAssumption DEF Document
  <2>2. /\ DOMAIN toolTokens' = DOMAIN toolTokens \cup {d.tool}
        /\ toolTokens'[d.tool] = DocumentTokens(d)
        /\ \A t \in DOMAIN toolTokens \ {d.tool} : toolTokens'[t] = toolTokens[t]
        /\ latest'[d.tool] = d /\ \A t \in IndexNames \ {d.tool} : latest'[t] = latest[t]
    BY <1>t, <1>1, <2>1 DEF AddTool
  <2>3. IsFiniteSet(DOMAIN toolTokens')
    BY <2>2, FS_AddElement DEF TokensSound
  <2>4. ASSUME NEW t \in DOMAIN toolTokens' PROVE toolTokens'[t] = DocumentTokens(latest'[t])
    BY <1>t, <2>2 DEF TokensSound
  <2> QED
    BY <2>3, <2>4 DEF TokensSound
<1>2. ASSUME NEW n \in IndexNames, RemoveTool(n) PROVE TokensSound'
  <2>1. CASE n \in DOMAIN toolTokens
    <3>1. /\ DOMAIN toolTokens' = DOMAIN toolTokens \ {n}
          /\ \A t \in DOMAIN toolTokens \ {n} : toolTokens'[t] = toolTokens[t]
          /\ \A t \in IndexNames \ {n} : latest'[t] = latest[t]
      BY <1>t, <1>2, <2>1 DEF RemoveTool
    <3>2. IsFiniteSet(DOMAIN toolTokens')
      BY <3>1, FS_RemoveElement DEF TokensSound
    <3>3. ASSUME NEW t \in DOMAIN toolTokens' PROVE toolTokens'[t] = DocumentTokens(latest'[t])
      BY <1>t, <3>1 DEF TokensSound
    <3> QED
      BY <3>2, <3>3 DEF TokensSound
  <2>2. CASE n \notin DOMAIN toolTokens
    <3>1. toolTokens' = toolTokens /\ latest' = latest
      BY <1>2, <2>2 DEF RemoveTool, indexVars
    <3> QED
      BY <3>1 DEF TokensSound
  <2> QED
    BY <2>1, <2>2
<1>3. ASSUME Indexing PROVE TokensSound'
  BY <1>1, <1>2, <1>3 DEF Indexing
<1>4. ASSUME Starting \/ Talking \/ UNCHANGED vars PROVE TokensSound'
  <2>1. toolTokens' = toolTokens /\ latest' = latest
    BY <1>4 DEF Starting, Talking, vars, indexVars
  <2> QED
    BY <2>1 DEF TokensSound
<1> QED
  BY <1>3, <1>4 DEF Next

\* The document of a tool has a word of the query.
Relevant(t, q) == latest[t] # Unindexed /\ \E i \in DOMAIN q : q[i] \in WordsOf(latest[t])

\* A search hits the relevant tools, and the score of one is what its document
\* is worth to a query without repeats.
LEMMA ScoreIsRelevance ==
  ASSUME IndexSound, TokensSound, NEW q \in Seq(Words), NEW t \in IndexNames
  PROVE  /\ Score(t, q) \in Nat
         /\ t \in Hits(q) <=> Relevant(t, q)
         /\ NoRepeats(q) /\ latest[t] # Unindexed => Score(t, q) = Relevance(latest[t], q)
<1> DEFINE found(w) == w \in DOMAIN postings /\ t \in postings[w]
           a == [i \in DOMAIN q |-> IF found(q[i]) THEN toolTokens[t][q[i]] ELSE 0]
<1>1. PICK N \in Nat : N = Len(q) /\ DOMAIN q = 1..N /\ \A i \in 1..N : q[i] \in Words
  OBVIOUS
<1>2. \A w \in Words : found(w) <=> latest[t] # Unindexed /\ w \in WordsOf(latest[t])
  BY DEF IndexSound, IndexMatchesTools
<1>3. ASSUME NEW w \in Words, found(w)
      PROVE  /\ latest[t] # Unindexed /\ w \in WordsOf(latest[t])
             /\ toolTokens[t][w] = DocumentTokens(latest[t])[w]
             /\ toolTokens[t][w] \in Weights
  BY <1>2, <1>3 DEF IndexSound, IndexMatchesTools, IndexTypeOK, TokensSound
<1>4. Score(t, q) = TotalOf(a)
  BY DEF Score
<1>5. a \in Seq(Nat) /\ DOMAIN a = 1..N /\ \A i \in 1..N : a[i] > 0 <=> found(q[i])
  <2>1. \A i \in 1..N : found(q[i]) => toolTokens[t][q[i]] \in Nat /\ toolTokens[t][q[i]] > 0
    BY <1>1, <1>3 DEF Weights
  <2> HIDE DEF found
  <2>2. \A i \in 1..N : a[i] \in Nat /\ (a[i] > 0 <=> found(q[i]))
    BY <1>1, <2>1
  <2>3. a \in [1..N -> Nat]
    BY <1>1, <2>2
  <2> QED
    BY <1>1, <2>2, <2>3
<1>6. TotalOf(a) \in Nat
  BY <1>5, TotalOfNaturals
<1>7. t \in Hits(q) <=> Relevant(t, q)
  <2>1. (\E i \in 1..N : found(q[i])) <=> t \in Hits(q)
    BY <1>1 DEF Hits
  <2> QED
    BY <1>1, <1>2, <2>1 DEF Relevant
<1>8. ASSUME NoRepeats(q), latest[t] # Unindexed PROVE Score(t, q) = Relevance(latest[t], q)
  <2> DEFINE d == latest[t]
             field(i) == CASE q[i] \in d.name -> 3
                           [] q[i] \in d.tags \ d.name -> 2
                           [] q[i] \in d.description \ (d.tags \cup d.name) -> 1
                           [] OTHER -> 0
             b == [i \in DOMAIN q |-> IF \E j \in 1..(i - 1) : q[j] = q[i] THEN 0 ELSE field(i)]
  <2>1. ASSUME NEW i \in 1..N PROVE b[i] = field(i)
    <3>1. ~(\E j \in 1..(i - 1) : q[j] = q[i])
      BY <1>1, <1>8 DEF NoRepeats
    <3>2. i \in DOMAIN q
      BY <1>1
    <3> HIDE DEF d, field
    <3> QED
      BY <3>1, <3>2
  <2>2. ASSUME NEW i \in 1..N PROVE a[i] = field(i)
    <3>1. CASE found(q[i])
      <4>1. q[i] \in d.name \cup d.tags \cup d.description /\ a[i] = DocumentTokens(d)[q[i]]
        BY <1>1, <1>3, <3>1 DEF WordsOf
      <4>2. a[i] = IF q[i] \in d.name THEN 3 ELSE IF q[i] \in d.tags THEN 2 ELSE 1
        BY <4>1 DEF DocumentTokens, WordsOf
      <4> HIDE DEF a, found, d
      <4> QED
        BY <1>1, <4>1, <4>2
    <3>2. CASE ~found(q[i])
      <4>1. q[i] \notin d.name \cup d.tags \cup d.description /\ a[i] = 0
        BY <1>1, <1>2, <1>8, <3>2 DEF WordsOf
      <4> HIDE DEF a, found, d
      <4> QED
        BY <1>1, <4>1
    <3> QED
      BY <3>1, <3>2
  <2>3. a = b
    <3>1. DOMAIN b = 1..N
      BY <1>1
    <3>2. \A i \in 1..N : a[i] = b[i]
      <4> HIDE DEF a, b, field
      <4> QED
        BY <2>1, <2>2
    <3> HIDE DEF field, d
    <3> QED
      BY <1>1, <3>1, <3>2
  <2>4. Relevance(latest[t], q) = TotalOf(b)
    BY DEF Relevance
  <2> QED
    BY <1>4, <2>3, <2>4
<1> QED
  BY <1>4, <1>6, <1>7, <1>8

LEMMA SearchFinds ==
  ASSUME IndexSound, TokensSound, NEW q \in Seq(Words), NEW limit \in Nat,
         NEW found, found = Search(q, limit)
  PROVE  /\ Len(found) = IF limit < Cardinality(Hits(q)) THEN limit ELSE Cardinality(Hits(q))
         /\ \A i, j \in DOMAIN found : found[i] = found[j] => i = j
         /\ \A i \in DOMAIN found :
              /\ found[i] \in Hits(q)
              /\ \A t \in Hits(q) :
                   \/ \E j \in 1..i : t = found[j]
                   \/ Score(found[i], q) > Score(t, q)
                   \/ Score(found[i], q) = Score(t, q) /\ found[i] < t
<1> DEFINE H == Hits(q)
           R == {p \in H \X H : \/ Score(p[1], q) > Score(p[2], q)
                                \/ Score(p[1], q) = Score(p[2], q) /\ p[1] < p[2]}
           better(s, t) == \/ Score(s, q) > Score(t, q)
                           \/ Score(s, q) = Score(t, q) /\ s < t
<1>1. H \subseteq DOMAIN toolTokens /\ H \subseteq IndexNames /\ IsFiniteSet(H)
  <2>1. H \subseteq DOMAIN toolTokens
    BY DEF Hits, IndexSound, IndexTypeOK, IndexMatchesTools
  <2> QED
    BY <2>1, FS_Subset DEF TokensSound, IndexSound, IndexTypeOK
<1>2. \A t \in H : Score(t, q) \in Nat /\ t \in Nat
  BY <1>1, ScoreIsRelevance, IndexAssumption
<1>3. \A s, t \in H : <<s, t>> \in R <=> better(s, t)
  BY <1>2
<1>4. PICK r : r = Sorted(H, R)
  OBVIOUS
<1>5. PICK n \in Nat : n = Cardinality(H)
  BY <1>1, FS_CardinalityType
<1>6. found = SubSeq(r, 1, IF limit < Len(r) THEN limit ELSE Len(r))
  BY <1>4 DEF Search
<1> HIDE DEF H, R
<1>7. Orders(R, H)
  <2>1. \A s \in H : ~better(s, s)
    BY <1>2
  <2>2. \A s, t \in H : s = t \/ better(s, t) \/ better(t, s)
    BY <1>2
  <2>3. \A s, t, u \in H : better(s, t) /\ better(t, u) => better(s, u)
    BY <1>2
  <2> HIDE DEF better
  <2> QED
    BY <1>3, <2>1, <2>2, <2>3 DEF Orders
<1>8. GoesThrough(r, H, R, n)
  BY <1>1, <1>4, <1>5, <1>7, SortedProperties
<1>9. r \in Seq(H) /\ Len(r) = n
  BY <1>8 DEF GoesThrough
<1>10. PICK m \in 0..n : m = IF limit < n THEN limit ELSE n
  OBVIOUS
<1>11. /\ found \in Seq(H) /\ Len(found) = m /\ DOMAIN found = 1..m
       /\ \A i \in 1..m : found[i] = r[i]
  <2>1. found = SubSeq(r, 1, m)
    BY <1>6, <1>9, <1>10
  <2> QED
    BY <1>9, <2>1
<1>12. ASSUME NEW i \in 1..m, NEW t \in H
       PROVE  (\E j \in 1..i : t = found[j]) \/ better(found[i], t)
  <2>1. PICK j \in 1..n : r[j] = t
    BY <1>8 DEF GoesThrough
  <2>2. CASE j <= i
    <3>1. j \in 1..i /\ j \in 1..m
      BY <2>2
    <3> QED
      BY <1>11, <2>1, <3>1
  <2>3. CASE i < j
    <3>1. i \in 1..n /\ r[i] \in H
      BY <1>8 DEF GoesThrough
    <3>2. <<r[i], r[j]>> \in R
      BY <1>8, <2>3, <3>1 DEF GoesThrough
    <3> QED
      BY <1>3, <1>11, <2>1, <3>1, <3>2
  <2> QED
    BY <2>2, <2>3
<1>13. ASSUME NEW i \in 1..m, NEW j \in 1..m, found[i] = found[j] PROVE i = j
  <2>1. i \in 1..n /\ j \in 1..n /\ r[i] = r[j] /\ r[i] \in H
    BY <1>8, <1>11, <1>13 DEF GoesThrough
  <2>2. <<r[i], r[i]>> \notin R
    BY <1>7, <2>1 DEF Orders
  <2> QED
    BY <1>8, <2>1, <2>2 DEF GoesThrough
<1> QED
  BY <1>5, <1>10, <1>11, <1>12, <1>13 DEF H

\* Whatever tools are added, added again with other words, and removed, and
\* in whatever order, a search finds the tools whose documents have a word of
\* the query, each once, and, for a query that repeats no word, the most
\* relevant first and of too many the best (registry/index.py:109-131).
THEOREM IndexAlwaysAnswers == Spec => []IndexAnswersForTools
<1>1. ASSUME IndexSound, TokensSound, NEW q \in Queries,
             NEW limit \in 0..Cardinality(DOMAIN toolTokens) + 1,
             NEW found, found = Search(q, limit),
             NEW relevant, relevant = {t \in IndexNames : latest[t] # Unindexed
                                         /\ \E i \in DOMAIN q : q[i] \in WordsOf(latest[t])}
      PROVE  /\ Len(found) = IF limit < Cardinality(relevant) THEN limit
                             ELSE Cardinality(relevant)
             /\ \A i, j \in DOMAIN found : found[i] = found[j] => i = j
             /\ \A i \in DOMAIN found :
                  /\ found[i] \in relevant
                  /\ NoRepeats(q) =>
                       \A t \in relevant :
                         \/ \E j \in 1..i : t = found[j]
                         \/ Relevance(latest[found[i]], q) > Relevance(latest[t], q)
                         \/ /\ Relevance(latest[found[i]], q) = Relevance(latest[t], q)
                            /\ found[i] < t
  <2>1. q \in Seq(Words) /\ limit \in Nat
    BY <1>1, IndexAssumption, FS_CardinalityType DEF TokensSound
  <2>2. Hits(q) \subseteq IndexNames
    BY <1>1 DEF Hits, IndexSound, IndexTypeOK
  <2>3. relevant = Hits(q)
    <3>1. \A t \in IndexNames : t \in Hits(q) <=> Relevant(t, q)
      BY <1>1, <2>1, ScoreIsRelevance
    <3> QED
      BY <1>1, <2>2, <3>1 DEF Relevant
  <2>4. /\ Len(found) = IF limit < Cardinality(relevant) THEN limit ELSE Cardinality(relevant)
        /\ \A i, j \in DOMAIN found : found[i] = found[j] => i = j
        /\ \A i \in DOMAIN found :
             /\ found[i] \in relevant
             /\ \A t \in relevant :
                  \/ \E j \in 1..i : t = found[j]
                  \/ Score(found[i], q) > Score(t, q)
                  \/ Score(found[i], q) = Score(t, q) /\ found[i] < t
    <3>1. PICK H : H = Hits(q)
      OBVIOUS
    <3>2. /\ Len(found) = IF limit < Cardinality(H) THEN limit ELSE Cardinality(H)
          /\ \A i, j \in DOMAIN found : found[i] = found[j] => i = j
          /\ \A i \in DOMAIN found :
               /\ found[i] \in H
               /\ \A t \in H :
                    \/ \E j \in 1..i : t = found[j]
                    \/ Score(found[i], q) > Score(t, q)
                    \/ Score(found[i], q) = Score(t, q) /\ found[i] < t
      BY <1>1, <2>1, <3>1, SearchFinds
    <3> QED
      BY <2>3, <3>1, <3>2
  <2>5. ASSUME NoRepeats(q), NEW i \in DOMAIN found, NEW t \in relevant
        PROVE  \/ \E j \in 1..i : t = found[j]
               \/ Relevance(latest[found[i]], q) > Relevance(latest[t], q)
               \/ Relevance(latest[found[i]], q) = Relevance(latest[t], q) /\ found[i] < t
    <3>1. ASSUME NEW u \in relevant PROVE Score(u, q) = Relevance(latest[u], q)
      <4>1. u \in IndexNames /\ latest[u] # Unindexed
        BY <1>1, <3>1
      <4> QED
        BY <1>1, <2>1, <2>5, <4>1, ScoreIsRelevance
    <3>2. found[i] \in relevant
      BY <2>4
    <3>3. /\ Score(found[i], q) = Relevance(latest[found[i]], q)
          /\ Score(t, q) = Relevance(latest[t], q)
      BY <3>1, <3>2
    <3>4. \/ \E j \in 1..i : t = found[j]
          \/ Score(found[i], q) > Score(t, q)
          \/ Score(found[i], q) = Score(t, q) /\ found[i] < t
      BY <2>4
    <3> QED
      BY <3>3, <3>4
  <2> QED
    BY <2>4, <2>5
<1>2. IndexSound /\ TokensSound => IndexAnswersForTools
  BY <1>1 DEF IndexAnswersForTools, FindsByReference, IndexSound
<1>3. Init => IndexSound
  BY IndexSoundInit DEF Init
<1> QED
  BY <1>2, <1>3, TokensSoundInit, IndexSoundStep, TokensSoundStep, PTL DEF Spec
-----------------------------------------------------------------------------
(* Sequences *)

LEMMA AllButLast ==
  ASSUME NEW S, NEW q \in Seq(S), q # <<>>
  PROVE  /\ Len(q) \in Nat \ {0} /\ q[Len(q)] \in S
         /\ SubSeq(q, 1, Len(q) - 1) \in Seq(S)
         /\ Len(SubSeq(q, 1, Len(q) - 1)) = Len(q) - 1
         /\ \A i \in 1..Len(q) - 1 : SubSeq(q, 1, Len(q) - 1)[i] = q[i]
<1>1. Len(q) \in Nat \ {0}
  BY EmptySeq
<1>2. \A i \in 1..Len(q) : q[i] \in S
  OBVIOUS
<1> DEFINE n == Len(q) - 1
<1>3. n \in Nat /\ Len(q) = n + 1 /\ \A i \in 1..n : q[i] \in S
  BY <1>1, <1>2
<1> HIDE DEF n
<1>4. /\ SubSeq(q, 1, n) \in Seq(S)
      /\ Len(SubSeq(q, 1, n)) = IF 1 <= n THEN n - 1 + 1 ELSE 0
      /\ \A i \in 1..n - 1 + 1 : SubSeq(q, 1, n)[i] = q[1 + i - 1]
  BY <1>3, SubSeqProperties
<1>5. Len(SubSeq(q, 1, n)) = n /\ \A i \in 1..n : SubSeq(q, 1, n)[i] = q[i]
  BY <1>3, <1>4
<1>6. q[Len(q)] \in S
  BY <1>1, <1>2
<1>7. /\ SubSeq(q, 1, n) \in Seq(S) /\ Len(SubSeq(q, 1, n)) = Len(q) - 1
      /\ \A i \in 1..Len(q) - 1 : SubSeq(q, 1, n)[i] = q[i]
  BY <1>3, <1>4, <1>5
<1> QED
  BY <1>1, <1>6, <1>7 DEF n

LEMMA LastReplaced ==
  ASSUME NEW S, NEW q \in Seq(S), q # <<>>, NEW e \in S
  PROVE  /\ Append(SubSeq(q, 1, Len(q) - 1), e) \in Seq(S)
         /\ Len(Append(SubSeq(q, 1, Len(q) - 1), e)) = Len(q)
         /\ Append(SubSeq(q, 1, Len(q) - 1), e)[Len(q)] = e
         /\ \A i \in 1..Len(q) - 1 : Append(SubSeq(q, 1, Len(q) - 1), e)[i] = q[i]
<1> DEFINE b == SubSeq(q, 1, Len(q) - 1)
<1>1. /\ Len(q) \in Nat \ {0} /\ b \in Seq(S) /\ Len(b) = Len(q) - 1
      /\ \A i \in 1..Len(q) - 1 : b[i] = q[i]
  BY AllButLast
<1> HIDE DEF b
<1>2. /\ Append(b, e) \in Seq(S) /\ Len(Append(b, e)) = Len(q) /\ Append(b, e)[Len(q)] = e
      /\ \A i \in 1..Len(q) - 1 : Append(b, e)[i] = q[i]
  BY <1>1, AppendProperties
<1> QED
  BY <1>2 DEF b
-----------------------------------------------------------------------------
(* The resolver *)

\* The variables that the frame i of the stack may name.
MayName(i) == IF i = 1 THEN Mentioned(asked) ELSE Uses(layers, stack[i].name)

\* What an answer of the resolver rests on: every frame is for a variable
\* that the frame below it names, and what is left of its template names only
\* what the whole of it does.
ResolverSound ==
  /\ ResolverTypeOK
  /\ ErrorsHaveACause
  /\ answer # Absent => stack = <<>>
  /\ \A i \in DOMAIN stack : Mentioned(stack[i].rest) \subseteq MayName(i)
  /\ \A i \in DOMAIN stack : i > 1 => stack[i].name \in MayName(i - 1)

LEMMA LookupGivesValue ==
  ASSUME NEW L \in Seq(Layer), NEW n \in Names
  PROVE  /\ Lookup(L, n) = Absent => Values(L, n) = {}
         /\ Lookup(L, n) # Absent => Lookup(L, n) \in Template /\ Lookup(L, n) \in Values(L, n)
<1> DEFINE D == {i \in DOMAIN L : L[i][n] # Absent}
<1>1. D \subseteq Nat /\ DOMAIN L = 1..Len(L) /\ Len(L) \in Nat
  OBVIOUS
<1>2. CASE D = {}
  <2>1. Values(L, n) = {}
    BY <1>1, <1>2 DEF Values
  <2>2. Lookup(L, n) = Absent
    BY <1>2 DEF Lookup
  <2> QED
    BY <2>1, <2>2
<1>3. CASE D # {}
  <2>1. \E i \in D : \A j \in D : i <= j
    BY <1>1, <1>3, SmallestOf
  <2> DEFINE i == CHOOSE i \in D : \A j \in D : i <= j
  <2>2. i \in D /\ \A j \in D : i <= j
    BY <2>1
  <2>3. Lookup(L, n) = L[i][n]
    BY <1>3 DEF Lookup
  <2> HIDE DEF i
  <2>4. L[i] \in Layer /\ L[i][n] # Absent /\ i \in DOMAIN L
    BY <2>2
  <2>5. \A j \in 1..i : L[j][n] # Absent <=> j = i
    BY <1>1, <2>2, <2>4
  <2> QED
    BY <2>3, <2>4, <2>5 DEF Layer, Values
<1> QED
  BY <1>2, <1>3

LEMMA MentionedParts ==
  ASSUME NEW t \in Template, t # <<>>
  PROVE  /\ Head(t) \in Segment /\ Tail(t) \in Template
         /\ Mentioned(Tail(t)) \subseteq Mentioned(t)
         /\ Head(t).kind = "var" => Head(t).of \in Names /\ Head(t).of \in Mentioned(t)
<1>1. t \in Seq(Segment)
  BY DEF Template
<1>2. /\ Head(t) \in Segment /\ Tail(t) \in Seq(Segment)
      /\ Len(Tail(t)) = Len(t) - 1 /\ Len(t) \in Nat
      /\ \A i \in 1..Len(Tail(t)) : Tail(t)[i] = t[i + 1]
      /\ 1 \in DOMAIN t /\ Head(t) = t[1]
  BY <1>1, HeadTailProperties, EmptySeq
<1>3. ASSUME NEW i \in DOMAIN Tail(t) PROVE i + 1 \in DOMAIN t /\ Tail(t)[i] = t[i + 1]
  BY <1>1, <1>2
<1>4. Mentioned(Tail(t)) \subseteq Mentioned(t)
  BY <1>3 DEF Mentioned
<1>5. Head(t).kind = "var" => Head(t).of \in Mentioned(t)
  BY <1>2 DEF Mentioned
<1>6. Head(t).kind = "var" => Head(t).of \in Names
  BY <1>2 DEF Segment
<1> QED
  BY <1>2, <1>4, <1>5, <1>6 DEF Template

LEMMA ResolverSoundInit == ResolverInit => ResolverSound
<1> SUFFICES ASSUME ResolverInit PROVE ResolverSound
  OBVIOUS
<1>1. DOMAIN <<>> = {}
  OBVIOUS
<1>2. ResolverTypeOK
  BY <1>1 DEF ResolverInit, ResolverTypeOK, Template
<1> QED
  BY <1>1, <1>2 DEF ResolverInit, ResolverSound, ErrorsHaveACause

\* The top of a stack that is not empty, and the frames below it.
LEMMA TopAndBelow ==
  ASSUME ResolverTypeOK, stack # <<>>
  PROVE  /\ Len(stack) \in Nat \ {0} /\ Top = stack[Len(stack)] /\ Top \in Frame
         /\ Below \in Seq(Frame) /\ Len(Below) = Len(stack) - 1
         /\ \A i \in 1..Len(stack) - 1 : Below[i] = stack[i]
  BY AllButLast DEF ResolverTypeOK, Top, Below

\* A call of resolve, with whatever sources, starts with one frame.
LEMMA ResolveKeepsSound ==
  ASSUME ResolverSound, NEW t \in Template, NEW L \in Seq(Layer), Resolve(t, L)
  PROVE  ResolverSound'
<1> DEFINE f == [name |-> Absent, rest |-> t, out |-> <<>>]
<1>1. f \in Frame /\ f.name = Absent /\ f.rest = t
  BY DEF Frame, Template
<1>2. stack' = <<f>> /\ layers' = L /\ asked' = t /\ answer' = Absent
  BY DEF Resolve
<1> HIDE DEF f
<1>3. stack' \in Seq(Frame) /\ DOMAIN stack' = {1} /\ stack'[1] = f
  BY <1>1, <1>2
<1>4. ResolverTypeOK'
  BY <1>1, <1>2, <1>3 DEF ResolverTypeOK
<1>5. MayName(1)' = Mentioned(t)
  BY <1>2 DEF MayName
<1>6. ErrorsHaveACause'
  BY <1>2 DEF ErrorsHaveACause
<1> QED
  BY <1>1, <1>2, <1>3, <1>4, <1>5, <1>6 DEF ResolverSound

\* The resolver is idle and its answer is used.
LEMMA ForgetKeepsSound ==
  ASSUME ResolverSound, Forget
  PROVE  ResolverSound'
<1>1. answer' = Absent /\ layers' = layers /\ asked' = asked /\ stack' = stack
  BY DEF Forget
<1>2. \A i \in DOMAIN stack : MayName(i)' = MayName(i) /\ MayName(i - 1)' = MayName(i - 1)
  BY <1>1 DEF MayName
<1>3. ResolverTypeOK' /\ ErrorsHaveACause'
  BY <1>1 DEF ResolverSound, ResolverTypeOK, ErrorsHaveACause
<1> QED
  BY <1>1, <1>2, <1>3 DEF ResolverSound

LEMMA ResolverFrame ==
  ASSUME ResolverSound, UNCHANGED resolverVars
  PROVE  ResolverSound'
<1>1. answer' = answer /\ layers' = layers /\ asked' = asked /\ stack' = stack
  BY DEF resolverVars
<1>2. \A i \in DOMAIN stack : MayName(i)' = MayName(i) /\ MayName(i - 1)' = MayName(i - 1)
  BY <1>1 DEF MayName
<1>3. ResolverTypeOK' /\ ErrorsHaveACause'
  BY <1>1 DEF ResolverSound, ResolverTypeOK, ErrorsHaveACause
<1> QED
  BY <1>1, <1>2, <1>3 DEF ResolverSound

\* The frames keep their names and sources, and no frame has more left of its
\* template than before: what a stack of as many frames or fewer has to keep.
LEMMA StackShrinks ==
  ASSUME ResolverSound, UNCHANGED <<layers, asked, answer>>,
         stack' \in Seq(Frame), Len(stack') <= Len(stack),
         \A i \in DOMAIN stack' :
           /\ stack'[i].name = stack[i].name
           /\ Mentioned(stack'[i].rest) \subseteq Mentioned(stack[i].rest)
  PROVE  ResolverSound'
<1>1. stack \in Seq(Frame)
  BY DEF ResolverSound, ResolverTypeOK
<1>2. DOMAIN stack' \subseteq DOMAIN stack /\ DOMAIN stack' = 1..Len(stack') /\ Len(stack') \in Nat
  BY <1>1
<1>3. ResolverTypeOK'
  BY <1>2 DEF ResolverSound, ResolverTypeOK
<1>4. \A i \in DOMAIN stack' : MayName(i)' = MayName(i)
  BY DEF MayName
<1>5. \A i \in DOMAIN stack' : i > 1 => i - 1 \in DOMAIN stack'
  BY <1>2
<1>6. \A i \in DOMAIN stack' : Mentioned(stack'[i].rest) \subseteq MayName(i)'
  BY <1>2, <1>4 DEF ResolverSound
<1>7. \A i \in DOMAIN stack' : i > 1 => stack'[i].name \in MayName(i - 1)'
  BY <1>2, <1>4, <1>5 DEF ResolverSound
<1>8. ErrorsHaveACause'
  BY DEF ResolverSound, ErrorsHaveACause
<1> QED
  BY <1>3, <1>6, <1>7, <1>8 DEF ResolverSound

\* The stack after a segment that is no variable.
LEMMA LiteralMoves ==
  ASSUME ResolverSound, Literal
  PROVE  LET n == Len(stack) IN
         /\ n \in Nat \ {0} /\ stack \in Seq(Frame) /\ Top = stack[n]
         /\ stack' \in Seq(Frame) /\ Len(stack') = n
         /\ stack'[n].name = Top.name /\ stack'[n].rest = Tail(Top.rest)
         /\ stack'[n].out = Append(Top.out, Shown(Next1))
         /\ \A i \in 1..n - 1 : stack'[i] = stack[i]
         /\ Next1 \in Segment
         /\ Mentioned(Tail(Top.rest)) \subseteq Mentioned(Top.rest)
<1> DEFINE n == Len(stack)
           f == [Top EXCEPT !.rest = Tail(@), !.out = Append(@, Shown(Next1))]
<1>1. /\ stack # <<>> /\ Top.rest # <<>>
      /\ stack' = Append(Below, f) /\ UNCHANGED <<layers, asked, answer>>
  BY DEF Literal
<1>2. stack \in Seq(Frame) /\ n \in Nat \ {0} /\ Top = stack[n] /\ Top \in Frame
  BY <1>1, TopAndBelow DEF ResolverSound, ResolverTypeOK
<1>3. Top.rest \in Template /\ Top.out \in Seq(Segment)
  BY <1>2 DEF Frame, Template
<1>4. /\ Next1 \in Segment /\ Tail(Top.rest) \in Template
      /\ Mentioned(Tail(Top.rest)) \subseteq Mentioned(Top.rest)
  BY <1>1, <1>3, MentionedParts DEF Next1
<1>5. Shown(Next1) \in Segment
  BY <1>4 DEF Shown, Segment
<1>6. /\ f \in Frame /\ f.name = Top.name /\ f.rest = Tail(Top.rest)
      /\ f.out = Append(Top.out, Shown(Next1))
  <2>1. Append(Top.out, Shown(Next1)) \in Template
    BY <1>3, <1>5 DEF Template
  <2> QED
    BY <1>2, <1>4, <2>1 DEF Frame
<1> HIDE DEF f
<1>7. /\ stack' \in Seq(Frame) /\ Len(stack') = n /\ stack'[n] = f
      /\ \A i \in 1..n - 1 : stack'[i] = stack[i]
  <2>1. stack \in Seq(Frame) /\ stack # <<>> /\ f \in Frame
    BY <1>1, <1>2, <1>6
  <2>2. stack' = Append(SubSeq(stack, 1, Len(stack) - 1), f)
    BY <1>1 DEF Below
  <2> QED
    BY <2>1, <2>2, LastReplaced
<1> QED
  BY <1>2, <1>4, <1>6, <1>7

LEMMA LiteralKeepsSound ==
  ASSUME ResolverSound, Literal
  PROVE  ResolverSound'
<1>1. PICK n \in Nat \ {0} : n = Len(stack)
  BY LiteralMoves
<1>2. /\ Top = stack[n] /\ stack' \in Seq(Frame) /\ Len(stack') = n
      /\ stack'[n].name = Top.name /\ stack'[n].rest = Tail(Top.rest)
      /\ \A i \in 1..n - 1 : stack'[i] = stack[i]
      /\ Mentioned(Tail(Top.rest)) \subseteq Mentioned(Top.rest)
  BY <1>1, LiteralMoves
<1>3. ASSUME NEW i \in DOMAIN stack'
      PROVE  /\ stack'[i].name = stack[i].name
             /\ Mentioned(stack'[i].rest) \subseteq Mentioned(stack[i].rest)
  <2>1. i \in 1..n
    BY <1>2
  <2>2. CASE i = n
    BY <1>2, <2>2
  <2>3. CASE i # n
    BY <1>1, <1>2, <2>1, <2>3
  <2> QED
    BY <2>2, <2>3
<1>4. Len(stack') <= Len(stack) /\ UNCHANGED <<layers, asked, answer>>
  BY <1>1, <1>2 DEF Literal
<1> QED
  BY <1>2, <1>3, <1>4, StackShrinks

LEMMA AnsweredKeepsSound ==
  ASSUME ResolverSound, NEW a \in Answer, Answered(a), ErrorsHaveACause'
  PROVE  ResolverSound'
<1>1. stack' = <<>> /\ answer' = a /\ layers' = layers /\ asked' = asked
  BY DEF Answered
<1>2. DOMAIN stack' = {} /\ stack' \in Seq(Frame)
  BY <1>1
<1>3. ResolverTypeOK'
  BY <1>1, <1>2 DEF ResolverSound, ResolverTypeOK
<1> QED
  BY <1>2, <1>3 DEF ResolverSound

\* The stack after a value has been put in place.
LEMMA ReturnMoves ==
  ASSUME ResolverSound, Return, Below # <<>>
  PROVE  LET m == Len(stack) - 1 IN
         /\ m \in Nat \ {0} /\ stack \in Seq(Frame) /\ Len(stack) = m + 1
         /\ stack' \in Seq(Frame) /\ Len(stack') = m
         /\ stack'[m].name = stack[m].name /\ stack'[m].rest = stack[m].rest
         /\ stack'[m].out = stack[m].out \o stack[m + 1].out
         /\ stack[m + 1].rest = <<>>
         /\ \A i \in 1..m - 1 : stack'[i] = stack[i]
         /\ UNCHANGED <<layers, asked, answer>>
<1> DEFINE n == Len(stack)
           m == Len(Below)
           f == [Below[m] EXCEPT !.out = @ \o Top.out]
<1>1. /\ stack # <<>> /\ stack \in Seq(Frame) /\ n \in Nat \ {0}
      /\ Top = stack[n] /\ Top \in Frame
      /\ Below \in Seq(Frame) /\ Len(Below) = n - 1
      /\ \A i \in 1..n - 1 : Below[i] = stack[i]
  BY TopAndBelow DEF Return, ResolverSound, ResolverTypeOK
<1>2. m \in Nat \ {0} /\ m = n - 1 /\ n = m + 1 /\ Below[m] \in Frame /\ Below[m] = stack[m]
  BY <1>1
<1>3. stack' = [Below EXCEPT ![m] = f] /\ Top.rest = <<>> /\ UNCHANGED <<layers, asked, answer>>
  BY DEF Return
<1>4. /\ f \in Frame /\ f.name = Below[m].name /\ f.rest = Below[m].rest
      /\ f.out = Below[m].out \o Top.out
  <2>1. Below[m].out \in Seq(Segment) /\ Top.out \in Seq(Segment)
    BY <1>1, <1>2 DEF Frame, Template
  <2>2. Below[m].out \o Top.out \in Template
    BY <2>1, ConcatProperties DEF Template
  <2> QED
    BY <1>2, <2>2 DEF Frame
<1> HIDE DEF f, m
<1>5. /\ stack' \in Seq(Frame) /\ Len(stack') = m /\ stack'[m] = f
      /\ \A i \in 1..m : i # m => stack'[i] = Below[i]
  BY <1>1, <1>2, <1>3, <1>4 DEF m
<1>6. \A i \in 1..m - 1 : stack'[i] = stack[i]
  BY <1>1, <1>2, <1>5
<1> QED
  BY <1>1, <1>2, <1>3, <1>4, <1>5, <1>6

LEMMA ReturnKeepsSound ==
  ASSUME ResolverSound, Return
  PROVE  ResolverSound'
<1> DEFINE n == Len(stack)
<1>1. /\ stack # <<>> /\ stack \in Seq(Frame) /\ n \in Nat \ {0}
      /\ Top = stack[n] /\ Top \in Frame
      /\ Below \in Seq(Frame) /\ Len(Below) = n - 1
      /\ \A i \in 1..n - 1 : Below[i] = stack[i]
  BY TopAndBelow DEF Return, ResolverSound, ResolverTypeOK
<1>2. Top.out \in Template
  BY <1>1 DEF Frame
<1>3. CASE Below = <<>> /\ Answered([kind |-> "text", value |-> Top.out])
  <2> DEFINE a == [kind |-> "text", value |-> Top.out]
  <2>1. a \in Answer /\ a.kind = "text"
    BY <1>2 DEF Answer
  <2>2. ErrorsHaveACause'
    BY <1>3, <2>1 DEF Answered, ErrorsHaveACause
  <2> HIDE DEF a
  <2> QED
    BY <1>3, <2>1, <2>2, AnsweredKeepsSound DEF a
<1>4. CASE Below # <<>> /\ UNCHANGED <<layers, asked, answer>>
  <2>1. PICK m \in Nat \ {0} : m = n - 1
    BY <1>4, ReturnMoves
  <2>2. /\ Len(stack) = m + 1 /\ stack' \in Seq(Frame) /\ Len(stack') = m
        /\ stack'[m].name = stack[m].name /\ stack'[m].rest = stack[m].rest
        /\ \A i \in 1..m - 1 : stack'[i] = stack[i]
    BY <1>4, <2>1, ReturnMoves
  <2>3. ASSUME NEW i \in DOMAIN stack'
        PROVE  /\ stack'[i].name = stack[i].name
               /\ Mentioned(stack'[i].rest) \subseteq Mentioned(stack[i].rest)
    <3>1. i \in 1..m
      BY <2>2
    <3>2. CASE i = m
      BY <2>2, <3>2
    <3>3. CASE i # m
      BY <2>1, <2>2, <3>1, <3>3
    <3> QED
      BY <3>2, <3>3
  <2>4. Len(stack') <= Len(stack)
    BY <2>1, <2>2
  <2> QED
    BY <1>4, <2>2, <2>3, <2>4, StackShrinks
<1> QED
  BY <1>3, <1>4 DEF Return

\* A chain that is refused goes from the template along the frames and closes.
LEMMA CycleHasACause ==
  ASSUME ResolverSound, stack # <<>>, NEW n \in Names, n \in Mentioned(Top.rest),
         n \in Resolving
  PROVE  LET c == Append(Chain, n)
         IN  /\ c \in Seq(Names) /\ Len(c) > 1
             /\ c[1] \in Mentioned(asked)
             /\ \A i \in 1..(Len(c) - 1) : c[i + 1] \in Uses(layers, c[i])
             /\ \E i \in 1..(Len(c) - 1) : c[i] = c[Len(c)]
<1> DEFINE l == Len(stack)
           c == Append(Chain, n)
<1>1. stack \in Seq(Frame) /\ l \in Nat \ {0} /\ Top = stack[l] /\ DOMAIN stack = 1..l
  BY TopAndBelow DEF ResolverSound, ResolverTypeOK
<1>2. Chain = [i \in 1..(l - 1) |-> stack[i + 1].name]
  BY DEF Chain
<1>3. \A i \in 1..(l - 1) : i + 1 \in DOMAIN stack /\ i + 1 > 1 /\ i \in DOMAIN stack
  BY <1>1
<1>4. \A i \in 1..(l - 1) : stack[i + 1].name \in Names /\ stack[i + 1].name \in MayName(i)
  <2> TAKE i \in 1..(l - 1)
  <2>1. stack[i + 1] \in Frame /\ stack[i + 1].name # Absent
    BY <1>1, <1>3 DEF ResolverSound, ResolverTypeOK
  <2>2. i + 1 - 1 = i
    BY <1>1
  <2>3. stack[i + 1].name \in MayName(i + 1 - 1)
    BY <1>3 DEF ResolverSound
  <2> QED
    BY <2>1, <2>2, <2>3 DEF Frame
<1>5. Chain \in Seq(Names) /\ Len(Chain) = l - 1
  <2>1. Chain \in [1..(l - 1) -> Names]
    BY <1>2, <1>4
  <2>2. l - 1 \in Nat
    BY <1>1
  <2> HIDE DEF l
  <2> QED
    BY <2>1, <2>2
<1>6. /\ c \in Seq(Names) /\ Len(c) = l /\ c[l] = n
      /\ \A i \in 1..(l - 1) : c[i] = stack[i + 1].name
  <2>1. /\ Append(Chain, n) \in Seq(Names)
        /\ Len(Append(Chain, n)) = Len(Chain) + 1
        /\ \A i \in 1..Len(Chain) : Append(Chain, n)[i] = Chain[i]
        /\ Append(Chain, n)[Len(Chain) + 1] = n
    BY <1>5, AppendProperties
  <2>2. l - 1 + 1 = l /\ Len(Chain) = l - 1
    BY <1>1, <1>5
  <2>3. \A i \in 1..(l - 1) : Chain[i] = stack[i + 1].name
    BY <1>2
  <2> HIDE DEF l
  <2> QED
    BY <2>1, <2>2, <2>3
<1>7. PICK k \in 1..(l - 1) : n = stack[k + 1].name
  BY <1>2 DEF Resolving
<1>8. l > 1
  BY <1>1, <1>7
<1> HIDE DEF c, l
<1>9. c[1] \in Mentioned(asked)
  <2>1. 1 \in 1..(l - 1)
    BY <1>1, <1>8
  <2>2. stack[1 + 1].name \in MayName(1)
    BY <1>4, <2>1
  <2> QED
    BY <1>6, <2>1, <2>2 DEF MayName
<1>10. ASSUME NEW i \in 1..(l - 1) PROVE c[i + 1] \in Uses(layers, c[i])
  <2>1. MayName(i + 1) = Uses(layers, c[i])
    <3>1. i + 1 # 1 /\ c[i] = stack[i + 1].name
      BY <1>1, <1>6
    <3> QED
      BY <3>1 DEF MayName
  <2>2. CASE i + 1 = l
    <3>1. n \in MayName(l)
      BY <1>1, <1>8 DEF ResolverSound
    <3> QED
      BY <1>6, <2>1, <2>2, <3>1
  <2>3. CASE i + 1 # l
    <3>1. i + 1 \in 1..(l - 1)
      BY <1>1, <1>10, <2>3
    <3>2. c[i + 1] \in MayName(i + 1)
      BY <1>4, <1>6, <3>1
    <3> QED
      BY <2>1, <3>2
  <2> QED
    BY <2>2, <2>3
<1>11. c[k] = c[Len(c)]
  BY <1>6, <1>7
<1>12. /\ c \in Seq(Names) /\ Len(c) > 1 /\ c[1] \in Mentioned(asked)
       /\ \A i \in 1..(Len(c) - 1) : c[i + 1] \in Uses(layers, c[i])
       /\ \E i \in 1..(Len(c) - 1) : c[i] = c[Len(c)]
  BY <1>6, <1>7, <1>8, <1>9, <1>10, <1>11
<1> QED
  BY <1>12 DEF c

\* A value is looked into.
Pushes ==
  /\ stack # <<>>
  /\ Top.rest # <<>>
  /\ Next1.kind = "var"
  /\ Next1.of \notin Resolving
  /\ Lookup(layers, Next1.of) # Absent
  /\ stack' = Append(Append(Below, [Top EXCEPT !.rest = Tail(@)]),
                     [name |-> Next1.of, rest |-> Lookup(layers, Next1.of), out |-> <<>>])
  /\ UNCHANGED <<layers, asked, answer>>

\* The stack after that.
LEMMA PushMoves ==
  ASSUME ResolverSound, Pushes
  PROVE  LET l == Len(stack)  v == Next1.of IN
         /\ l \in Nat \ {0} /\ stack \in Seq(Frame) /\ Top = stack[l]
         /\ v \in Names /\ v \in Mentioned(Top.rest)
         /\ Lookup(layers, v) \in Template /\ Lookup(layers, v) \in Values(layers, v)
         /\ Mentioned(Tail(Top.rest)) \subseteq Mentioned(Top.rest)
         /\ stack' \in Seq(Frame) /\ Len(stack') = l + 1
         /\ stack'[l].name = Top.name /\ stack'[l].rest = Tail(Top.rest)
         /\ stack'[l].out = Top.out
         /\ stack'[l + 1] = [name |-> v, rest |-> Lookup(layers, v), out |-> <<>>]
         /\ \A i \in 1..l - 1 : stack'[i] = stack[i]
<1>1. PICK l \in Nat : l = Len(stack)
  BY DEF ResolverSound, ResolverTypeOK
<1> USE DEF Pushes
<1> DEFINE v == Next1.of
           f == [Top EXCEPT !.rest = Tail(@)]
           g == [name |-> v, rest |-> Lookup(layers, v), out |-> <<>>]
           q == Append(Below, f)
<1>2. /\ stack \in Seq(Frame) /\ l \in Nat \ {0} /\ DOMAIN stack = 1..l
      /\ Top = stack[l] /\ Top \in Frame
  BY <1>1, TopAndBelow DEF ResolverSound, ResolverTypeOK
<1>3. Top.rest \in Template /\ layers \in Seq(Layer)
  BY <1>2 DEF Frame, ResolverSound, ResolverTypeOK
<1>4. /\ Tail(Top.rest) \in Template /\ v \in Names
      /\ Mentioned(Tail(Top.rest)) \subseteq Mentioned(Top.rest)
      /\ v \in Mentioned(Top.rest)
  BY <1>3, MentionedParts DEF Next1
<1>5. f \in Frame /\ f.name = Top.name /\ f.rest = Tail(Top.rest) /\ f.out = Top.out
  BY <1>2, <1>4 DEF Frame
<1>6. Lookup(layers, v) \in Template /\ Lookup(layers, v) \in Values(layers, v)
  BY <1>3, <1>4, LookupGivesValue
<1>7. g \in Frame
  BY <1>4, <1>6 DEF Frame, Template
<1>8. stack' = Append(q, g)
  OBVIOUS
<1> HIDE DEF f, g, v
<1>9. q \in Seq(Frame) /\ Len(q) = l /\ q[l] = f /\ \A i \in 1..l - 1 : q[i] = stack[i]
  BY <1>1, <1>2, <1>5, LastReplaced DEF Below
<1> HIDE DEF q
<1>10. /\ stack' \in Seq(Frame) /\ Len(stack') = l + 1
       /\ stack'[l + 1] = g /\ stack'[l] = f /\ \A i \in 1..l - 1 : stack'[i] = stack[i]
  <2>1. /\ Append(q, g) \in Seq(Frame) /\ Len(Append(q, g)) = Len(q) + 1
        /\ \A i \in 1..Len(q) : Append(q, g)[i] = q[i]
        /\ Append(q, g)[Len(q) + 1] = g
    BY <1>7, <1>9, <1>2, AppendProperties
  <2> QED
    <3>1. l \in 1..l /\ 1..(l - 1) \subseteq 1..l
      BY <1>2
    <3> QED
      BY <1>8, <1>9, <2>1, <3>1
<1> QED
  BY <1>1, <1>2, <1>4, <1>5, <1>6, <1>10 DEF v, g

\* Its frame is the only one for its variable.
LEMMA PushKeepsSound ==
  ASSUME ResolverSound, Pushes
  PROVE  ResolverSound'
<1>1. PICK l \in Nat \ {0} : l = Len(stack)
  BY PushMoves
<1> DEFINE v == Next1.of
           g == [name |-> v, rest |-> Lookup(layers, v), out |-> <<>>]
<1>2. stack \in Seq(Frame) /\ DOMAIN stack = 1..l /\ Top = stack[l] /\ layers \in Seq(Layer)
  BY <1>1, PushMoves DEF ResolverSound, ResolverTypeOK
<1>3. v \in Names /\ v \in Mentioned(Top.rest)
  BY PushMoves
<1>4. v \in MayName(l)
  BY <1>2, <1>3 DEF ResolverSound
<1>5. g.name = v /\ Mentioned(g.rest) \subseteq Uses(layers, v)
  BY PushMoves DEF Uses
<1>6. /\ stack' \in Seq(Frame) /\ Len(stack') = l + 1 /\ stack'[l + 1] = g
       /\ stack'[l].name = Top.name /\ stack'[l].rest = Tail(Top.rest)
       /\ Mentioned(Tail(Top.rest)) \subseteq Mentioned(Top.rest)
       /\ \A i \in 1..l - 1 : stack'[i] = stack[i]
  BY <1>1, PushMoves
<1>7. v \notin Resolving /\ UNCHANGED <<layers, asked, answer>>
  BY DEF Pushes
<1> HIDE DEF v, g
<1>8. \A i \in 1..l : stack'[i].name = stack[i].name
                      /\ Mentioned(stack'[i].rest) \subseteq Mentioned(stack[i].rest)
  <2> TAKE i \in 1..l
  <2>1. CASE i = l
    BY <1>2, <1>6, <2>1
  <2>2. CASE i # l
    <3>1. i \in 1..l - 1
      BY <1>2, <2>2
    <3> QED
      BY <1>6, <3>1
  <2> QED
    BY <2>1, <2>2
<1>9. DOMAIN stack' = 1..(l + 1) /\ \A i \in 1..(l + 1) : i \in 1..l \/ i = l + 1
  BY <1>2, <1>6
<1>10. \A i \in 1..l : stack[i].name # v
  <2> TAKE i \in 1..l
  <2>1. CASE i = 1
    BY <1>2, <1>3, <2>1, ResolverAssumption DEF ResolverSound, ResolverTypeOK
  <2>2. CASE i # 1
    <3>1. i - 1 \in 1..(Len(stack) - 1) /\ i - 1 + 1 = i
      BY <1>1, <1>2, <2>2
    <3>2. Chain[i - 1] = stack[i].name /\ i - 1 \in DOMAIN Chain
      BY <3>1 DEF Chain
    <3> QED
      BY <1>7, <3>2 DEF Resolving
  <2> QED
    BY <2>1, <2>2
<1>11. ResolverTypeOK'
  <2>1. \A i \in DOMAIN stack' : stack'[i].name = Absent <=> i = 1
    <3> TAKE i \in DOMAIN stack'
    <3>1. CASE i \in 1..l
      BY <1>2, <1>8, <3>1 DEF ResolverSound, ResolverTypeOK
    <3>2. CASE i = l + 1
      BY <1>2, <1>3, <1>5, <1>6, <3>2, ResolverAssumption
    <3> QED
      BY <1>9, <3>1, <3>2
  <2>2. \A i, j \in DOMAIN stack' : stack'[i].name = stack'[j].name => i = j
    <3> TAKE i, j \in DOMAIN stack'
    <3>1. CASE i \in 1..l /\ j \in 1..l
      BY <1>2, <1>8, <3>1 DEF ResolverSound, ResolverTypeOK
    <3>2. CASE i = l + 1 /\ j = l + 1
      BY <3>2
    <3>3. CASE (i \in 1..l /\ j = l + 1) \/ (i = l + 1 /\ j \in 1..l)
      BY <1>5, <1>6, <1>8, <1>10, <3>3
    <3> QED
      BY <1>9, <3>1, <3>2, <3>3
  <2> QED
    BY <1>6, <1>7, <2>1, <2>2 DEF ResolverSound, ResolverTypeOK
<1>12. /\ \A i \in 1..l : MayName(i)' = MayName(i)
       /\ MayName(l + 1)' = Uses(layers, v)
  <2>1. \A i \in 1..l : MayName(i)' = MayName(i)
    BY <1>8, <1>7 DEF MayName
  <2>2. l + 1 # 1
    BY <1>1
  <2>3. MayName(l + 1)' = Uses(layers, stack'[l + 1].name)
    BY <1>7, <2>2 DEF MayName
  <2> QED
    BY <1>5, <1>6, <2>1, <2>3
<1>13. \A i \in DOMAIN stack' : Mentioned(stack'[i].rest) \subseteq MayName(i)'
  <2>1. \A i \in 1..l : Mentioned(stack[i].rest) \subseteq MayName(i)
    BY <1>2 DEF ResolverSound
  <2>2. \A i \in 1..l : Mentioned(stack'[i].rest) \subseteq MayName(i)'
    BY <1>8, <1>12, <2>1
  <2>3. Mentioned(stack'[l + 1].rest) \subseteq MayName(l + 1)'
    BY <1>5, <1>6, <1>12
  <2> QED
    BY <1>9, <2>2, <2>3
<1>14. \A i \in DOMAIN stack' : i > 1 => stack'[i].name \in MayName(i - 1)'
  <2> SUFFICES ASSUME NEW i \in DOMAIN stack', i > 1
               PROVE  stack'[i].name \in MayName(i - 1)'
    OBVIOUS
  <2>1. CASE i \in 1..l
    <3>1. i - 1 \in 1..l
      BY <1>2, <2>1
    <3>2. stack[i].name \in MayName(i - 1)
      BY <1>2, <2>1 DEF ResolverSound
    <3> QED
      BY <1>8, <1>12, <2>1, <3>1, <3>2
  <2>2. CASE i = l + 1
    <3>1. i - 1 = l /\ l \in 1..l
      BY <1>2, <2>2
    <3> QED
      BY <1>4, <1>5, <1>6, <1>12, <2>2, <3>1
  <2> QED
    BY <1>9, <2>1, <2>2
<1>15. ErrorsHaveACause' /\ answer' = answer
  BY <1>7 DEF ResolverSound, ErrorsHaveACause
<1>16. answer # Absent => stack' = <<>>
  BY DEF Pushes, ResolverSound
<1> QED
  BY <1>11, <1>13, <1>14, <1>15, <1>16 DEF ResolverSound

LEMMA SubstituteKeepsSound ==
  ASSUME ResolverSound, Substitute
  PROVE  ResolverSound'
<1> DEFINE v == Next1.of
<1>1. stack # <<>> /\ Top.rest # <<>> /\ Next1.kind = "var"
  BY DEF Substitute
<1>2. Top \in Frame /\ layers \in Seq(Layer)
  BY <1>1, TopAndBelow DEF ResolverSound, ResolverTypeOK
<1>3. v \in Names /\ v \in Mentioned(Top.rest)
  BY <1>1, <1>2, MentionedParts DEF Frame, Next1
<1> HIDE DEF v
<1>4. CASE v \in Resolving /\ Answered([kind |-> "cyclic", chain |-> Append(Chain, v)])
  <2> DEFINE c == Append(Chain, v)
             a == [kind |-> "cyclic", chain |-> c]
  <2>1. /\ c \in Seq(Names) /\ Len(c) > 1
        /\ c[1] \in Mentioned(asked)
        /\ \A i \in 1..(Len(c) - 1) : c[i + 1] \in Uses(layers, c[i])
        /\ \E i \in 1..(Len(c) - 1) : c[i] = c[Len(c)]
    BY <1>1, <1>3, <1>4, CycleHasACause
  <2>2. Answered(a)
    BY <1>4
  <2> HIDE DEF c
  <2>3. a \in Answer /\ a.kind = "cyclic" /\ a.chain = c
    BY <2>1 DEF Answer
  <2>4. answer' = a /\ layers' = layers /\ asked' = asked
    BY <2>2 DEF Answered
  <2> HIDE DEF a
  <2>5. ErrorsHaveACause'
    BY <2>1, <2>3, <2>4 DEF ErrorsHaveACause
  <2> QED
    BY <2>2, <2>3, <2>5, AnsweredKeepsSound
<1>5. CASE /\ Lookup(layers, v) = Absent
           /\ Answered([kind |-> "undefined", name |-> v])
  <2> DEFINE a == [kind |-> "undefined", name |-> v]
  <2>1. a \in Answer /\ a.kind = "undefined" /\ a.name = v
    BY <1>3 DEF Answer
  <2>2. v \in Undefined(layers)
    BY <1>2, <1>3, <1>5, LookupGivesValue DEF Undefined
  <2>3. Answered(a)
    BY <1>5
  <2>4. answer' = a /\ layers' = layers
    BY <2>3 DEF Answered
  <2> HIDE DEF a
  <2>5. ErrorsHaveACause'
    BY <2>1, <2>2, <2>4 DEF ErrorsHaveACause
  <2> QED
    BY <2>1, <2>3, <2>5, AnsweredKeepsSound
<1>6. CASE /\ v \notin Resolving
           /\ Lookup(layers, v) # Absent
           /\ stack' = Append(Append(Below, [Top EXCEPT !.rest = Tail(@)]),
                              [name |-> v, rest |-> Lookup(layers, v), out |-> <<>>])
           /\ UNCHANGED <<layers, asked, answer>>
  BY <1>1, <1>6, PushKeepsSound DEF v, Pushes
<1> QED
  BY <1>4, <1>5, <1>6 DEF Substitute, v

LEMMA ResolverStep ==
  ASSUME ResolverSound, ResolverNext
  PROVE  ResolverSound'
  BY LiteralKeepsSound, SubstituteKeepsSound, ReturnKeepsSound DEF ResolverNext
-----------------------------------------------------------------------------
(* Which variables a template needs *)

\* A variable has one value or none.
LEMMA ValuesAre ==
  ASSUME NEW L \in Seq(Layer), NEW n \in Names
  PROVE  /\ Lookup(L, n) \in Template \cup {Absent}
         /\ Values(L, n) = IF Lookup(L, n) = Absent THEN {} ELSE {Lookup(L, n)}
<1>1. /\ Lookup(L, n) = Absent => Values(L, n) = {}
      /\ Lookup(L, n) # Absent => Lookup(L, n) \in Template /\ Lookup(L, n) \in Values(L, n)
  BY LookupGivesValue
<1>2. ASSUME NEW a \in Values(L, n), NEW b \in Values(L, n) PROVE a = b
  <2>1. DOMAIN L = 1..Len(L) /\ Len(L) \in Nat
    OBVIOUS
  <2>2. PICK i \in DOMAIN L : a = L[i][n] /\ \A j \in 1..i : L[j][n] # Absent <=> j = i
    BY DEF Values
  <2>3. PICK k \in DOMAIN L : b = L[k][n] /\ \A j \in 1..k : L[j][n] # Absent <=> j = k
    BY DEF Values
  <2>4. i \in Nat \ {0} /\ k \in Nat \ {0}
    BY <2>1
  <2>5. i \in 1..i /\ k \in 1..k /\ (i <= k => i \in 1..k) /\ (k <= i => k \in 1..i)
    BY <2>4
  <2>6. i <= k \/ k <= i
    BY <2>4
  <2>7. i = k
    BY <2>2, <2>3, <2>5, <2>6
  <2> QED
    BY <2>2, <2>3, <2>7
<1> QED
  BY <1>1, <1>2

LEMMA MentionedAre ==
  ASSUME NEW t \in Template
  PROVE  Mentioned(t) \subseteq Names
  BY DEF Mentioned, Template, Segment

LEMMA UsesAre ==
  ASSUME NEW L \in Seq(Layer), NEW n \in Names
  PROVE  /\ Uses(L, n) \subseteq Names
         /\ Lookup(L, n) # Absent => Uses(L, n) = Mentioned(Lookup(L, n))
<1>1. \A value \in Values(L, n) : Mentioned(value) \subseteq Names
  BY ValuesAre, MentionedAre
<1> QED
  BY <1>1, ValuesAre DEF Uses

\* A template needs the variables that it names and those that these use.
LEMMA NeededClosed ==
  ASSUME NEW L \in Seq(Layer), NEW t \in Template
  PROVE  /\ Needed(L, t) \subseteq Names
         /\ Mentioned(t) \subseteq Needed(L, t)
         /\ \A n \in Needed(L, t) : Uses(L, n) \subseteq Needed(L, t)
<1> DEFINE step == WithUses(L)
<1>1. /\ step \in [SUBSET Names -> SUBSET Names]
      /\ \A X \in SUBSET Names : step[X] = X \cup UNION {Uses(L, n) : n \in X}
  BY UsesAre DEF WithUses
<1>2. Mentioned(t) \in SUBSET Names
  BY MentionedAre
<1> HIDE DEF step
<1>3. Needed(L, t) \in SUBSET Names /\ step[Needed(L, t)] = Needed(L, t)
  <2>1. \A X \in SUBSET Names : X \subseteq step[X]
    BY <1>1
  <2>2. IsFiniteSet(Names)
    BY ResolverAssumption
  <2>3. LET all == Iterated(step, Mentioned(t), Cardinality(Names))
        IN  all \in SUBSET Names /\ step[all] = all
    BY <1>1, <1>2, <2>1, <2>2, IterationSettles
  <2> QED
    BY <2>3 DEF Needed, step
<1>4. Mentioned(t) \subseteq Needed(L, t)
  <2> DEFINE I(n) == Iterated(step, Mentioned(t), n)
             P == {n \in Nat : Mentioned(t) \subseteq I(n)}
  <2>1. TakenAgain(step, Mentioned(t), SUBSET Names)
    BY <1>1, <1>2, IteratedAgain
  <2>2. PICK N \in Nat : N = Cardinality(Names)
    BY ResolverAssumption, FS_CardinalityType
  <2>3. 0 \in P
    BY <2>1 DEF TakenAgain
  <2>4. ASSUME NEW n \in 0..N, n # N, n \in P PROVE n + 1 \in P
    <3>1. n \in Nat /\ n + 1 \in Nat /\ I(n) \in SUBSET Names /\ I(n + 1) = step[I(n)]
      BY <2>1 DEF TakenAgain
    <3> HIDE DEF I
    <3> QED
      BY <1>1, <2>4, <3>1
  <2>5. N \in P
    <3> HIDE DEF P
    <3>1. 0..N \subseteq P
      BY <2>3, <2>4, InductionUpTo
    <3> QED
      BY <3>1
  <2> QED
    BY <2>2, <2>5 DEF Needed, step
<1> QED
  BY <1>1, <1>3, <1>4

\* And no others.
LEMMA NeededLeast ==
  ASSUME NEW L \in Seq(Layer), NEW t \in Template, NEW C \in SUBSET Names,
         Mentioned(t) \subseteq C, \A n \in C : Uses(L, n) \subseteq C
  PROVE  Needed(L, t) \subseteq C
<1> DEFINE step == WithUses(L)
           I(n) == Iterated(step, Mentioned(t), n)
           P == {n \in Nat : I(n) \subseteq C}
<1>1. /\ step \in [SUBSET Names -> SUBSET Names]
      /\ \A X \in SUBSET Names : step[X] = X \cup UNION {Uses(L, n) : n \in X}
  BY UsesAre DEF WithUses
<1>2. Mentioned(t) \in SUBSET Names
  BY MentionedAre
<1> HIDE DEF step
<1>3. TakenAgain(step, Mentioned(t), SUBSET Names)
  BY <1>1, <1>2, IteratedAgain
<1>4. PICK N \in Nat : N = Cardinality(Names)
  BY ResolverAssumption, FS_CardinalityType
<1>5. 0 \in P
  BY <1>3 DEF TakenAgain
<1>6. ASSUME NEW n \in 0..N, n # N, n \in P PROVE n + 1 \in P
  <2>1. n \in Nat /\ n + 1 \in Nat /\ I(n) \in SUBSET Names /\ I(n + 1) = step[I(n)]
    BY <1>3 DEF TakenAgain
  <2> HIDE DEF I
  <2> QED
    BY <1>1, <1>6, <2>1
<1>7. N \in P
  <2> HIDE DEF P
  <2>1. 0..N \subseteq P
    BY <1>5, <1>6, InductionUpTo
  <2> QED
    BY <2>1
<1> QED
  BY <1>4, <1>7 DEF Needed, step
-----------------------------------------------------------------------------
(* Texts in the place of variables *)

TextOf == [Names -> Template]

\* What Put does with one segment.
Putting(text) ==
  [p \in Template \X Segment |->
     p[1] \o IF p[2].kind = "var" THEN text[p[2].of]
             ELSE <<[p[2] EXCEPT !.kind = IF @ = "text" THEN @ ELSE "var"]>>]

PutInPlace(text, s) ==
  IF s.kind = "var" THEN text[s.of]
  ELSE <<[s EXCEPT !.kind = IF @ = "text" THEN @ ELSE "var"]>>

LEMMA PutInPlaceType ==
  ASSUME NEW text \in TextOf, NEW s \in Segment
  PROVE  PutInPlace(text, s) \in Template
<1>1. CASE s.kind = "var"
  BY <1>1 DEF PutInPlace, Segment, TextOf
<1>2. CASE s.kind # "var"
  <2> DEFINE r == [s EXCEPT !.kind = IF @ = "text" THEN @ ELSE "var"]
  <2>1. r \in Segment
    BY <1>2 DEF Segment
  <2>2. PutInPlace(text, s) = <<r>>
    BY <1>2 DEF PutInPlace
  <2> HIDE DEF r
  <2> QED
    BY <2>1, <2>2 DEF Template
<1> QED
  BY <1>1, <1>2

LEMMA PuttingType ==
  ASSUME NEW text \in TextOf
  PROVE  /\ Putting(text) \in StepsOver(Template, Segment) /\ <<>> \in Template
         /\ \A t \in Template, s \in Segment : Putting(text)[<<t, s>>] = t \o PutInPlace(text, s)
<1>1. Putting(text) = [p \in Template \X Segment |-> p[1] \o PutInPlace(text, p[2])]
  BY DEF Putting, PutInPlace
<1>2. \A t \in Template, s \in Segment : t \o PutInPlace(text, s) \in Template
  BY PutInPlaceType, ConcatProperties DEF Template
<1>3. Putting(text) \in [Template \X Segment -> Template]
  BY <1>1, <1>2
<1>4. \A t \in Template, s \in Segment : Putting(text)[<<t, s>>] = t \o PutInPlace(text, s)
  BY <1>1
<1>5. <<>> \in Template
  BY DEF Template
<1> QED
  BY <1>3, <1>4, <1>5 DEF StepsOver

PutAfter(text, t, s) == Put(text, Append(t, s)) = Put(text, t) \o PutInPlace(text, s)

LEMMA PutNothing ==
  ASSUME NEW text \in TextOf
  PROVE  Put(text, <<>>) = <<>> /\ <<>> \in Template /\ Mentioned(<<>>) = {}
<1>1. Folded(Putting(text), <<>>, <<>>) = <<>>
  BY PuttingType, FoldedEmpty
<1>2. Mentioned(<<>>) = {}
  BY DEF Mentioned
<1> QED
  BY <1>1, <1>2 DEF Put, Putting, Template

LEMMA PutType ==
  ASSUME NEW text \in TextOf, NEW t \in Template
  PROVE  Put(text, t) \in Template
<1>1. t \in Seq(Segment)
  BY DEF Template
<1>2. Folded(Putting(text), <<>>, t) \in Template
  BY <1>1, PuttingType, FoldedType
<1> QED
  BY <1>2 DEF Put, Putting

LEMMA PutAppend ==
  ASSUME NEW text \in TextOf, NEW t \in Template, NEW s \in Segment
  PROVE  Put(text, t) \in Template /\ PutAfter(text, t, s)
<1>2. Put(text, t) = Folded(Putting(text), <<>>, t)
  BY DEF Put, Putting
<1>3. Put(text, Append(t, s)) = Folded(Putting(text), <<>>, Append(t, s))
  BY DEF Put, Putting
<1>4. t \in Seq(Segment)
  BY DEF Template
<1>5. /\ Folded(Putting(text), <<>>, t) \in Template
      /\ Folded(Putting(text), <<>>, Append(t, s)) = Putting(text)[<<Folded(Putting(text), <<>>, t), s>>]
  BY <1>4, PuttingType, FoldedAppend
<1>6. Putting(text)[<<Put(text, t), s>>] = Put(text, t) \o PutInPlace(text, s)
  BY <1>2, <1>5, PuttingType
<1> QED
  BY <1>2, <1>3, <1>5, <1>6 DEF PutAfter

LEMMA MentionedAppend ==
  ASSUME NEW t \in Template, NEW s \in Segment
  PROVE  /\ Append(t, s) \in Template
         /\ Mentioned(Append(t, s)) = Mentioned(t) \cup IF s.kind = "var" THEN {s.of} ELSE {}
<1>1. PICK n \in Nat : n = Len(t)
  BY LenProperties DEF Template
<1>2. PICK u \in Template : u = Append(t, s)
  BY AppendProperties DEF Template
<1>3. Len(u) = n + 1 /\ u[n + 1] = s /\ \A i \in 1..n : u[i] = t[i]
  BY <1>1, <1>2, AppendProperties DEF Template
<1>4. DOMAIN t = 1..n /\ DOMAIN u = 1..(n + 1)
  BY <1>1, <1>2, <1>3 DEF Template
<1>5. \A i \in 1..(n + 1) : i \in 1..n \/ i = n + 1
  OBVIOUS
<1>6. n + 1 \in 1..(n + 1) /\ 1..n \subseteq 1..(n + 1)
  OBVIOUS
<1>7. Mentioned(u) = Mentioned(t) \cup IF s.kind = "var" THEN {s.of} ELSE {}
  <2>1. ASSUME NEW v \in Mentioned(u)
        PROVE  v \in Mentioned(t) \cup IF s.kind = "var" THEN {s.of} ELSE {}
    BY <1>3, <1>4, <1>5 DEF Mentioned
  <2>2. ASSUME NEW v \in Mentioned(t) \cup IF s.kind = "var" THEN {s.of} ELSE {}
        PROVE  v \in Mentioned(u)
    BY <1>3, <1>4, <1>6 DEF Mentioned
  <2> QED
    BY <2>1, <2>2
<1> QED
  BY <1>2, <1>7

\* Only the texts of the variables that are named make a difference.
PutAgree(text, other, t) ==
  (\A n \in Mentioned(t) : text[n] = other[n]) => Put(text, t) = Put(other, t)

LEMMA PutDependsOnMentioned ==
  ASSUME NEW text \in TextOf, NEW other \in TextOf, NEW t \in Template
  PROVE  PutAgree(text, other, t)
<1> DEFINE P == {u \in Seq(Segment) : PutAgree(text, other, u)}
<1>1. <<>> \in P
  <2>1. <<>> \in Seq(Segment)
    OBVIOUS
  <2> QED
    BY <2>1, PutNothing DEF PutAgree
<1>2. ASSUME NEW u \in Seq(Segment), NEW s \in Segment, u \in P PROVE Append(u, s) \in P
  <2>1. u \in Template /\ Append(u, s) \in Seq(Segment)
    BY AppendProperties DEF Template
  <2>2. SUFFICES ASSUME \A n \in Mentioned(Append(u, s)) : text[n] = other[n]
                 PROVE  Put(text, Append(u, s)) = Put(other, Append(u, s))
    BY <2>1 DEF PutAgree
  <2>3. /\ \A n \in Mentioned(u) : text[n] = other[n]
        /\ s.kind = "var" => text[s.of] = other[s.of]
    BY <2>1, <2>2, MentionedAppend
  <2>4. Put(text, u) = Put(other, u)
    BY <1>2, <2>3 DEF PutAgree
  <2>5. PutInPlace(text, s) = PutInPlace(other, s)
    BY <2>3 DEF PutInPlace
  <2>6. PutAfter(text, u, s) /\ PutAfter(other, u, s)
    BY <2>1, PutAppend
  <2> QED
    BY <2>4, <2>5, <2>6 DEF PutAfter
<1> HIDE DEF P
<1>3. Seq(Segment) \subseteq P
  BY <1>1, <1>2, InductionByAppend
<1> QED
  BY <1>3 DEF P, Template
-----------------------------------------------------------------------------
(* Variables that have a text *)

WithGrounded(L) ==
  [S \in SUBSET Names |-> S \cup {n \in Names : Values(L, n) # {} /\ Uses(L, n) \subseteq S}]

\* The variables whose values lead, by way of defined variables, to text.
Grounded(L) == Iterated(WithGrounded(L), {}, Cardinality(Names))

\* And what they stand for in the end.
FullTexts(L) == Iterated(WithValues(L), [n \in Names |-> <<>>], Cardinality(Names))

LEMMA GroundedClosed ==
  ASSUME NEW L \in Seq(Layer)
  PROVE  /\ Grounded(L) \subseteq Names
         /\ \A n \in Names : Values(L, n) # {} /\ Uses(L, n) \subseteq Grounded(L) => n \in Grounded(L)
<1> DEFINE step == WithGrounded(L)
<1>1. /\ step \in [SUBSET Names -> SUBSET Names]
      /\ \A X \in SUBSET Names :
           step[X] = X \cup {n \in Names : Values(L, n) # {} /\ Uses(L, n) \subseteq X}
  BY DEF WithGrounded
<1>2. {} \in SUBSET Names /\ IsFiniteSet(Names)
  BY ResolverAssumption
<1> HIDE DEF step
<1>3. \A X \in SUBSET Names : X \subseteq step[X]
  BY <1>1
<1>4. LET all == Iterated(step, {}, Cardinality(Names))
      IN  all \in SUBSET Names /\ step[all] = all
  BY <1>1, <1>2, <1>3, IterationSettles
<1>5. Grounded(L) \in SUBSET Names /\ step[Grounded(L)] = Grounded(L)
  BY <1>4 DEF Grounded, step
<1> QED
  BY <1>1, <1>5

LEMMA WithValuesType ==
  ASSUME NEW L \in Seq(Layer)
  PROVE  /\ WithValues(L) \in [TextOf -> TextOf] /\ [n \in Names |-> <<>>] \in TextOf
         /\ \A text \in TextOf, n \in Names :
              Lookup(L, n) # Absent => WithValues(L)[text][n] = Put(text, Lookup(L, n))
<1> DEFINE value(n) == CHOOSE v \in Values(L, n) : TRUE
<1>1. \A n \in Names : Lookup(L, n) # Absent =>
        value(n) = Lookup(L, n) /\ Lookup(L, n) \in Template /\ Values(L, n) # {}
  <2> TAKE n \in Names
  <2>1. /\ Lookup(L, n) \in Template \cup {Absent}
        /\ Values(L, n) = IF Lookup(L, n) = Absent THEN {} ELSE {Lookup(L, n)}
    BY ValuesAre
  <2> QED
    BY <2>1
<1>2. \A n \in Names : Lookup(L, n) = Absent => Values(L, n) = {}
  BY ValuesAre
<1>3. WithValues(L) = [text \in TextOf |->
         [n \in Names |-> IF Values(L, n) = {} THEN <<>> ELSE Put(text, value(n))]]
  BY DEF WithValues, TextOf
<1> HIDE DEF value
<1>4. <<>> \in Template
  BY DEF Template
<1>5. ASSUME NEW text \in TextOf
      PROVE  \A n \in Names : (IF Values(L, n) = {} THEN <<>> ELSE Put(text, value(n))) \in Template
  BY <1>1, <1>2, <1>4, PutType
<1>6. WithValues(L) \in [TextOf -> TextOf]
  BY <1>3, <1>5 DEF TextOf
<1>7. \A text \in TextOf, n \in Names :
        Lookup(L, n) # Absent => WithValues(L)[text][n] = Put(text, Lookup(L, n))
  BY <1>1, <1>3
<1> QED
  BY <1>4, <1>6, <1>7 DEF TextOf

\* What holds of a set of grounded variables and, from there on, of their texts.
SoFar(L, S, text) ==
  /\ S \subseteq Names /\ text \in TextOf
  /\ \A n \in S : /\ Lookup(L, n) # Absent
                  /\ Uses(L, n) \subseteq S
                  /\ n \notin OnCycle(L)
                  /\ WithValues(L)[text][n] = text[n]

LEMMA SoFarGrows ==
  ASSUME NEW L \in Seq(Layer), NEW S, NEW text, SoFar(L, S, text)
  PROVE  SoFar(L, WithGrounded(L)[S], WithValues(L)[text])
<1> DEFINE X == WithGrounded(L)[S]
           other == WithValues(L)[text]
<1>1. X = S \cup {n \in Names : Values(L, n) # {} /\ Uses(L, n) \subseteq S} /\ X \subseteq Names
  BY DEF WithGrounded, SoFar
<1>2. other \in TextOf /\ text \in TextOf
  BY WithValuesType DEF SoFar
<1> HIDE DEF X, other
<1>3. ASSUME NEW n \in X
      PROVE  /\ Lookup(L, n) # Absent /\ Lookup(L, n) \in Template
             /\ Uses(L, n) = Mentioned(Lookup(L, n))
             /\ Uses(L, n) \subseteq S
             /\ Values(L, n) = {Lookup(L, n)}
  <2>1. n \in Names
    BY <1>1
  <2>2. /\ Lookup(L, n) \in Template \cup {Absent}
        /\ Values(L, n) = IF Lookup(L, n) = Absent THEN {} ELSE {Lookup(L, n)}
    BY <2>1, ValuesAre
  <2>3. Lookup(L, n) # Absent /\ Uses(L, n) \subseteq S
    BY <1>1, <2>2 DEF SoFar
  <2> QED
    BY <2>1, <2>2, <2>3, UsesAre
<1>4. ASSUME NEW n \in X PROVE n \notin OnCycle(L)
  <2>1. CASE n \in S
    BY <2>1 DEF SoFar
  <2>2. CASE n \notin S
    <3>1. Needed(L, Lookup(L, n)) \subseteq S
      BY <1>3, NeededLeast DEF SoFar
    <3> QED
      BY <1>3, <2>2, <3>1 DEF OnCycle
  <2> QED
    BY <2>1, <2>2
<1>5. ASSUME NEW n \in X PROVE WithValues(L)[other][n] = other[n]
  <2>1. n \in Names
    BY <1>1
  <2>2. WithValues(L)[other][n] = Put(other, Lookup(L, n))
    BY <1>2, <1>3, <2>1, WithValuesType
  <2>3. other[n] = Put(text, Lookup(L, n))
    BY <1>2, <1>3, <2>1, WithValuesType DEF other
  <2>4. \A m \in Mentioned(Lookup(L, n)) : other[m] = text[m]
    BY <1>3 DEF SoFar, other
  <2> QED
    BY <1>2, <1>3, <2>2, <2>3, <2>4, PutDependsOnMentioned DEF PutAgree
<1>6. S \subseteq X
  BY <1>1
<1> QED
  BY <1>1, <1>2, <1>3, <1>4, <1>5, <1>6 DEF SoFar, X, other

LEMMA GroundedSoFar ==
  ASSUME NEW L \in Seq(Layer)
  PROVE  SoFar(L, Grounded(L), FullTexts(L))
<1> DEFINE G(n) == Iterated(WithGrounded(L), {}, n)
           T(n) == Iterated(WithValues(L), [m \in Names |-> <<>>], n)
           P == {n \in Nat : SoFar(L, G(n), T(n))}
<1>1. TakenAgain(WithGrounded(L), {}, SUBSET Names)
  <2>1. WithGrounded(L) \in [SUBSET Names -> SUBSET Names] /\ {} \in SUBSET Names
    BY DEF WithGrounded
  <2> QED
    BY <2>1, IteratedAgain
<1>2. TakenAgain(WithValues(L), [m \in Names |-> <<>>], TextOf)
  BY WithValuesType, IteratedAgain
<1>3. PICK N \in Nat : N = Cardinality(Names)
  BY ResolverAssumption, FS_CardinalityType
<1>4. 0 \in P
  <2>1. G(0) = {} /\ T(0) \in TextOf
    BY <1>1, <1>2 DEF TakenAgain
  <2> QED
    BY <2>1 DEF SoFar
<1>5. ASSUME NEW n \in 0..N, n # N, n \in P PROVE n + 1 \in P
  <2>0. n \in Nat /\ n + 1 \in Nat
    BY <1>5
  <2>1. G(n + 1) = WithGrounded(L)[G(n)] /\ T(n + 1) = WithValues(L)[T(n)]
    BY <1>1, <1>2, <2>0 DEF TakenAgain
  <2>2. SoFar(L, G(n), T(n))
    BY <1>5
  <2> HIDE DEF G, T
  <2>3. SoFar(L, WithGrounded(L)[G(n)], WithValues(L)[T(n)])
    BY <2>2, SoFarGrows
  <2> QED
    BY <2>0, <2>1, <2>3
<1>6. N \in P
  <2> HIDE DEF P
  <2>1. 0..N \subseteq P
    BY <1>4, <1>5, InductionUpTo
  <2> QED
    BY <2>1
<1> QED
  BY <1>3, <1>6 DEF Grounded, FullTexts

\* A grounded variable stands for its value with the texts in place.
LEMMA GroundedText ==
  ASSUME NEW L \in Seq(Layer), NEW n \in Grounded(L)
  PROVE  FullTexts(L)[n] = Put(FullTexts(L), Lookup(L, n))
<1>1. SoFar(L, Grounded(L), FullTexts(L))
  BY GroundedSoFar
<1>2. /\ n \in Names /\ Lookup(L, n) # Absent /\ FullTexts(L) \in TextOf
      /\ WithValues(L)[FullTexts(L)][n] = FullTexts(L)[n]
  BY <1>1 DEF SoFar
<1>3. WithValues(L)[FullTexts(L)][n] = Put(FullTexts(L), Lookup(L, n))
  BY <1>2, WithValuesType
<1> QED
  BY <1>2, <1>3

\* A template that names grounded variables only has a meaning.
LEMMA GroundedMeaningful ==
  ASSUME NEW L \in Seq(Layer), NEW t \in Template, Mentioned(t) \subseteq Grounded(L)
  PROVE  Meaningful(L, t) /\ Meaning(L, t) = Put(FullTexts(L), t)
<1>1. SoFar(L, Grounded(L), FullTexts(L))
  BY GroundedSoFar
<1>2. Needed(L, t) \subseteq Grounded(L)
  BY <1>1, NeededLeast DEF SoFar
<1>3. \A n \in Grounded(L) : n \in Names /\ Values(L, n) # {} /\ n \notin OnCycle(L)
  <2> TAKE n \in Grounded(L)
  <2>1. n \in Names /\ Lookup(L, n) # Absent /\ n \notin OnCycle(L)
    BY <1>1 DEF SoFar
  <2>2. Values(L, n) # {}
    BY <2>1, ValuesAre
  <2> QED
    BY <2>1, <2>2
<1>4. Meaningful(L, t)
  BY <1>2, <1>3 DEF Meaningful, Undefined
<1> QED
  BY <1>4 DEF Meaning, FullTexts
-----------------------------------------------------------------------------
(* The resolver does what its templates mean *)

\* The template of the frame i, and what of it is not yet in place: the
\* variable that the frame above is for, and the rest.
WholeOf(i) == IF i = 1 THEN asked ELSE Lookup(layers, stack[i].name)

LeftOf(i) ==
  IF i = Len(stack) THEN stack[i].rest
  ELSE <<[kind |-> "var", of |-> stack[i + 1].name]>> \o stack[i].rest

\* What has been put in place names grounded variables only, and stands there
\* with their texts.
PutSoFar(L, whole, left, out) ==
  \E done \in Template :
    /\ Mentioned(done) \subseteq Grounded(L)
    /\ whole = done \o left
    /\ out = Put(FullTexts(L), done)

Placed == \A i \in DOMAIN stack : PutSoFar(layers, WholeOf(i), LeftOf(i), stack[i].out)

FullTextsType == \A L \in Seq(Layer) : FullTexts(L) \in TextOf

LEMMA FullTextsTyped == FullTextsType
  BY GroundedSoFar DEF SoFar, FullTextsType

LEMMA NothingPutYet ==
  ASSUME NEW L \in Seq(Layer), NEW t \in Template
  PROVE  PutSoFar(L, t, t, <<>>)
<1>1. <<>> \in Template /\ Mentioned(<<>>) = {} /\ Put(FullTexts(L), <<>>) = <<>>
  BY FullTextsTyped, PutNothing DEF FullTextsType
<1>2. <<>> \o t = t
  BY DEF Template
<1> QED
  BY <1>1, <1>2 DEF PutSoFar

\* The next segment is put in place.
LEMMA OneMorePut ==
  ASSUME NEW L \in Seq(Layer), NEW whole, NEW left \in Template, left # <<>>, NEW out,
         PutSoFar(L, whole, left, out),
         Head(left).kind = "var" => Head(left).of \in Grounded(L)
  PROVE  PutSoFar(L, whole, Tail(left), out \o PutInPlace(FullTexts(L), Head(left)))
<1>1. PICK done \in Template :
        /\ Mentioned(done) \subseteq Grounded(L)
        /\ whole = done \o left
        /\ out = Put(FullTexts(L), done)
  BY DEF PutSoFar
<1>2. done \in Seq(Segment) /\ left \in Seq(Segment)
  BY DEF Template
<1>3. PICK s \in Segment : s = Head(left)
  BY <1>2, HeadTailProperties
<1>4. MovesFirst(done, left)
  BY <1>2, FirstMoves
<1>5. PICK more \in Template : more = Append(done, s)
  BY <1>2, AppendProperties DEF Template
<1>6. whole = more \o Tail(left)
  BY <1>1, <1>3, <1>4, <1>5 DEF MovesFirst
<1>7. Mentioned(more) \subseteq Grounded(L)
  BY <1>1, <1>3, <1>5, MentionedAppend
<1>8. Put(FullTexts(L), more) = out \o PutInPlace(FullTexts(L), s)
  BY <1>1, <1>5, FullTextsTyped, PutAppend DEF FullTextsType, PutAfter
<1> QED
  BY <1>3, <1>6, <1>7, <1>8 DEF PutSoFar

\* A template that is in place as a whole stands there with its meaning.
LEMMA AllPut ==
  ASSUME NEW L \in Seq(Layer), NEW whole, NEW out, PutSoFar(L, whole, <<>>, out)
  PROVE  /\ whole \in Template /\ Mentioned(whole) \subseteq Grounded(L)
         /\ out = Put(FullTexts(L), whole)
<1>1. PICK done \in Template :
        /\ Mentioned(done) \subseteq Grounded(L)
        /\ whole = done \o <<>>
        /\ out = Put(FullTexts(L), done)
  BY DEF PutSoFar
<1>2. done \o <<>> = done
  BY DEF Template
<1> QED
  BY <1>1, <1>2

\* A value that is in place as a whole makes its variable a grounded one.
LEMMA ValuePut ==
  ASSUME NEW L \in Seq(Layer), NEW n \in Names, NEW out,
         PutSoFar(L, Lookup(L, n), <<>>, out)
  PROVE  n \in Grounded(L) /\ out = FullTexts(L)[n]
<1>1. /\ Lookup(L, n) \in Template /\ Mentioned(Lookup(L, n)) \subseteq Grounded(L)
      /\ out = Put(FullTexts(L), Lookup(L, n))
  BY AllPut
<1>2. Lookup(L, n) # Absent
  BY <1>1, ResolverAssumption
<1>3. Values(L, n) # {} /\ Uses(L, n) \subseteq Grounded(L)
  BY <1>1, <1>2, ValuesAre, UsesAre
<1>4. n \in Grounded(L)
  BY <1>3, GroundedClosed
<1> QED
  BY <1>1, <1>4, GroundedText

LEMMA LeftType ==
  ASSUME ResolverSound, NEW i \in DOMAIN stack
  PROVE  /\ stack[i].rest \in Template /\ LeftOf(i) \in Template
         /\ i # 1 => stack[i].name \in Names
<1>1. PICK l \in Nat : l = Len(stack)
  BY DEF ResolverSound, ResolverTypeOK
<1>2. stack \in Seq(Frame) /\ DOMAIN stack = 1..l
  BY <1>1 DEF ResolverSound, ResolverTypeOK
<1>3. \A j \in 1..l : stack[j] \in Frame /\ (j # 1 => stack[j].name # Absent)
  BY <1>2 DEF ResolverSound, ResolverTypeOK
<1>4. \A j \in 1..l : stack[j].rest \in Template /\ (j # 1 => stack[j].name \in Names)
  BY <1>3 DEF Frame
<1>5. CASE i = l
  BY <1>1, <1>2, <1>4, <1>5 DEF LeftOf
<1>6. CASE i # l
  <2>1. i + 1 \in 1..l /\ i + 1 # 1
    BY <1>2, <1>6
  <2>2. [kind |-> "var", of |-> stack[i + 1].name] \in Segment
    BY <1>4, <2>1 DEF Segment
  <2>3. <<[kind |-> "var", of |-> stack[i + 1].name]>> \o stack[i].rest \in Template
    BY <1>2, <1>4, <2>2 DEF Template
  <2> QED
    BY <1>1, <1>2, <1>4, <1>6, <2>3 DEF LeftOf
<1> QED
  BY <1>5, <1>6

\* A frame that is neither the top before nor after, and is for the same variable
\* as is the one above it.
LEMMA FrameStaysPlaced ==
  ASSUME ResolverSound, Placed, UNCHANGED <<layers, asked>>,
         NEW i \in DOMAIN stack, i < Len(stack), i < Len(stack'),
         stack'[i] = stack[i], stack'[i + 1].name = stack[i + 1].name
  PROVE  PutSoFar(layers', WholeOf(i)', LeftOf(i)', stack'[i].out)
<1>1. i \in Nat /\ Len(stack) # i /\ Len(stack') # i
  BY DEF ResolverSound, ResolverTypeOK
<1>2. WholeOf(i)' = WholeOf(i) /\ LeftOf(i)' = LeftOf(i)
  BY <1>1 DEF WholeOf, LeftOf
<1> QED
  BY <1>2 DEF Placed

LEMMA LiteralKeepsPlaced ==
  ASSUME ResolverSound, Placed, Literal
  PROVE  Placed'
<1>1. PICK n \in Nat \ {0} : n = Len(stack)
  BY LiteralMoves
<1>2. /\ Top = stack[n] /\ stack \in Seq(Frame)
      /\ stack' \in Seq(Frame) /\ Len(stack') = n
      /\ stack'[n].name = Top.name /\ stack'[n].rest = Tail(Top.rest)
      /\ stack'[n].out = Append(Top.out, Shown(Next1))
      /\ \A i \in 1..n - 1 : stack'[i] = stack[i]
      /\ Next1 \in Segment
  BY <1>1, LiteralMoves
<1>3. Top.rest # <<>> /\ Next1.kind # "var" /\ UNCHANGED <<layers, asked>> /\ Next1 = Head(Top.rest)
  BY DEF Literal, Next1
<1>4. DOMAIN stack = 1..n /\ DOMAIN stack' = 1..n /\ layers \in Seq(Layer)
  BY <1>1, <1>2 DEF ResolverSound, ResolverTypeOK
<1>5. PutSoFar(layers', WholeOf(n)', LeftOf(n)', stack'[n].out)
  <2>1. WholeOf(n)' = WholeOf(n)
    BY <1>2, <1>3 DEF WholeOf
  <2>2. LeftOf(n) = Top.rest /\ LeftOf(n)' = Tail(Top.rest)
    BY <1>1, <1>2 DEF LeftOf
  <2>3. PutSoFar(layers, WholeOf(n), Top.rest, Top.out)
    BY <1>2, <1>4, <2>2 DEF Placed
  <2>4. Top.rest \in Template /\ Top.out \in Seq(Segment)
    <3>1. Top \in Frame
      BY TopAndBelow DEF Literal, ResolverSound
    <3> QED
      BY <3>1 DEF Frame, Template
  <2>5. PutInPlace(FullTexts(layers), Next1) = <<Shown(Next1)>>
    BY <1>2, <1>3 DEF PutInPlace, Shown, Segment
  <2>6. Shown(Next1) \in Segment
    BY <1>2 DEF Shown, Segment
  <2>7. Top.out \o <<Shown(Next1)>> = Append(Top.out, Shown(Next1))
    BY <2>4, <2>6
  <2>8. PutSoFar(layers, WholeOf(n), Tail(Top.rest), Top.out \o PutInPlace(FullTexts(layers), Next1))
    BY <1>3, <1>4, <2>3, <2>4, OneMorePut
  <2> QED
    BY <1>2, <1>3, <2>1, <2>2, <2>5, <2>7, <2>8
<1>6. ASSUME NEW i \in 1..n, i # n PROVE PutSoFar(layers', WholeOf(i)', LeftOf(i)', stack'[i].out)
  <2>1. i \in 1..n - 1 /\ i < n /\ (i + 1 = n \/ i + 1 \in 1..n - 1)
    BY <1>6
  <2>2. stack'[i + 1].name = stack[i + 1].name
    BY <1>2, <2>1
  <2> QED
    BY <1>1, <1>2, <1>3, <1>4, <2>1, <2>2, FrameStaysPlaced
<1> QED
  BY <1>4, <1>5, <1>6 DEF Placed

LEMMA PushKeepsPlaced ==
  ASSUME ResolverSound, Placed, Pushes
  PROVE  Placed'
<1>1. PICK l \in Nat \ {0} : l = Len(stack)
  BY PushMoves
<1> DEFINE v == Next1.of
           value == Lookup(layers, v)
<1>2. /\ Top = stack[l] /\ stack \in Seq(Frame) /\ v \in Names /\ value \in Template
      /\ stack' \in Seq(Frame) /\ Len(stack') = l + 1
      /\ stack'[l].name = Top.name /\ stack'[l].rest = Tail(Top.rest) /\ stack'[l].out = Top.out
      /\ stack'[l + 1] = [name |-> v, rest |-> value, out |-> <<>>]
      /\ \A i \in 1..l - 1 : stack'[i] = stack[i]
  BY <1>1, PushMoves
<1>3. Top.rest # <<>> /\ Next1.kind = "var" /\ UNCHANGED <<layers, asked>> /\ Next1 = Head(Top.rest)
  BY DEF Pushes, Next1
<1>4. DOMAIN stack = 1..l /\ DOMAIN stack' = 1..(l + 1) /\ layers \in Seq(Layer)
  BY <1>1, <1>2 DEF ResolverSound, ResolverTypeOK
<1>5. Top.rest \in Template
  <2>1. Top \in Frame
    BY TopAndBelow DEF Pushes, ResolverSound
  <2> QED
    BY <2>1 DEF Frame
<1>6. Next1 = [kind |-> "var", of |-> v]
  <2>1. Next1 \in Segment
    BY <1>3, <1>5, MentionedParts
  <2> QED
    BY <1>3, <2>1 DEF Segment
<1>7. Top.rest = <<Next1>> \o Tail(Top.rest)
  BY <1>3, <1>5 DEF Template
<1> HIDE DEF v, value
<1>8. PutSoFar(layers', WholeOf(l)', LeftOf(l)', stack'[l].out)
  <2>1. l # l + 1
    OBVIOUS
  <2>2. WholeOf(l)' = WholeOf(l)
    BY <1>2, <1>3 DEF WholeOf
  <2>3. LeftOf(l) = Top.rest
    BY <1>1, <1>2 DEF LeftOf
  <2>4. LeftOf(l)' = Top.rest
    BY <1>2, <1>6, <1>7, <2>1 DEF LeftOf
  <2> QED
    BY <1>2, <1>3, <1>4, <2>2, <2>3, <2>4 DEF Placed
<1>9. PutSoFar(layers', WholeOf(l + 1)', LeftOf(l + 1)', stack'[l + 1].out)
  <2>1. l + 1 # 1
    OBVIOUS
  <2>2. WholeOf(l + 1)' = value /\ LeftOf(l + 1)' = value /\ stack'[l + 1].out = <<>>
    BY <1>2, <1>3, <2>1 DEF WholeOf, LeftOf, value
  <2> QED
    BY <1>2, <1>3, <1>4, <2>2, NothingPutYet
<1>10. ASSUME NEW i \in 1..l, i # l PROVE PutSoFar(layers', WholeOf(i)', LeftOf(i)', stack'[i].out)
  <2>1. i \in 1..l - 1 /\ i < l /\ i < l + 1 /\ (i + 1 = l \/ i + 1 \in 1..l - 1)
    BY <1>10
  <2>2. stack'[i + 1].name = stack[i + 1].name
    BY <1>2, <2>1
  <2> QED
    BY <1>1, <1>2, <1>3, <1>4, <2>1, <2>2, FrameStaysPlaced
<1>11. \A i \in 1..(l + 1) : i = l + 1 \/ i \in 1..l
  OBVIOUS
<1> QED
  BY <1>4, <1>8, <1>9, <1>10, <1>11 DEF Placed

LEMMA ReturnKeepsPlaced ==
  ASSUME ResolverSound, Placed, Return, Below # <<>>
  PROVE  Placed'
<1>1. PICK m \in Nat \ {0} : m = Len(stack) - 1
  BY ReturnMoves
<1>2. /\ stack \in Seq(Frame) /\ Len(stack) = m + 1
      /\ stack' \in Seq(Frame) /\ Len(stack') = m
      /\ stack'[m].name = stack[m].name /\ stack'[m].rest = stack[m].rest
      /\ stack'[m].out = stack[m].out \o stack[m + 1].out
      /\ stack[m + 1].rest = <<>>
      /\ \A i \in 1..m - 1 : stack'[i] = stack[i]
      /\ UNCHANGED <<layers, asked>>
  BY <1>1, ReturnMoves
<1>3. DOMAIN stack = 1..(m + 1) /\ DOMAIN stack' = 1..m /\ layers \in Seq(Layer)
  BY <1>2 DEF ResolverSound, ResolverTypeOK
<1>4. m \in 1..(m + 1) /\ m + 1 \in 1..(m + 1) /\ m + 1 # 1 /\ m # m + 1
  OBVIOUS
<1> DEFINE n == stack[m + 1].name
           s == [kind |-> "var", of |-> n]
<1>5. n \in Names /\ stack[m].rest \in Template
  BY <1>3, <1>4, LeftType
<1>6. n \in Grounded(layers) /\ stack[m + 1].out = FullTexts(layers)[n]
  <2>1. WholeOf(m + 1) = Lookup(layers, n) /\ LeftOf(m + 1) = <<>>
    BY <1>2, <1>4 DEF WholeOf, LeftOf
  <2>2. PutSoFar(layers, Lookup(layers, n), <<>>, stack[m + 1].out)
    BY <1>3, <1>4, <2>1 DEF Placed
  <2> HIDE DEF n
  <2> QED
    BY <1>3, <1>5, <2>2, ValuePut
<1>7. LeftOf(m) = <<s>> \o stack[m].rest
  BY <1>2, <1>4 DEF LeftOf
<1> HIDE DEF n
<1>8. s \in Segment /\ s.kind = "var" /\ s.of = n
  BY <1>5 DEF Segment
<1> HIDE DEF s
<1>9. LeftOf(m) # <<>> /\ Head(LeftOf(m)) = s /\ Tail(LeftOf(m)) = stack[m].rest /\ LeftOf(m) \in Template
  <2>1. stack[m].rest \in Seq(Segment)
    BY <1>5 DEF Template
  <2> QED
    BY <1>7, <1>8, <2>1 DEF Template
<1>10. PutSoFar(layers', WholeOf(m)', LeftOf(m)', stack'[m].out)
  <2>1. WholeOf(m)' = WholeOf(m) /\ LeftOf(m)' = stack[m].rest
    BY <1>2 DEF WholeOf, LeftOf
  <2>2. PutInPlace(FullTexts(layers), s) = stack[m + 1].out
    BY <1>6, <1>8 DEF PutInPlace
  <2>3. PutSoFar(layers, WholeOf(m), LeftOf(m), stack[m].out)
    BY <1>3, <1>4 DEF Placed
  <2>4. PutSoFar(layers, WholeOf(m), Tail(LeftOf(m)),
                 stack[m].out \o PutInPlace(FullTexts(layers), Head(LeftOf(m))))
    BY <1>3, <1>6, <1>8, <1>9, <2>3, OneMorePut
  <2> QED
    BY <1>2, <1>9, <2>1, <2>2, <2>4
<1>11. ASSUME NEW i \in 1..m, i # m PROVE PutSoFar(layers', WholeOf(i)', LeftOf(i)', stack'[i].out)
  <2>1. i \in 1..m - 1 /\ i < m /\ i < m + 1 /\ i \in 1..(m + 1) /\ (i + 1 = m \/ i + 1 \in 1..m - 1)
    BY <1>11
  <2>2. stack'[i + 1].name = stack[i + 1].name
    BY <1>2, <2>1
  <2> QED
    BY <1>2, <1>3, <2>1, <2>2, FrameStaysPlaced
<1> QED
  BY <1>3, <1>10, <1>11 DEF Placed

\* All that the stack asks for is needed.
LEMMA StackNeeded ==
  ASSUME ResolverSound
  PROVE  \A i \in DOMAIN stack : MayName(i) \subseteq Needed(layers, asked)
<1>1. PICK l \in Nat : l = Len(stack)
  BY DEF ResolverSound, ResolverTypeOK
<1>2. DOMAIN stack = 1..l /\ layers \in Seq(Layer) /\ asked \in Template
  BY <1>1 DEF ResolverSound, ResolverTypeOK
<1>3. /\ Mentioned(asked) \subseteq Needed(layers, asked)
      /\ \A n \in Needed(layers, asked) : Uses(layers, n) \subseteq Needed(layers, asked)
  BY <1>2, NeededClosed
<1> DEFINE P == {i \in Nat : i \in 1..l => MayName(i) \subseteq Needed(layers, asked)}
<1>4. 0 \in P
  OBVIOUS
<1>5. ASSUME NEW i \in 0..l, i # l, i \in P PROVE i + 1 \in P
  <2>1. i + 1 \in 1..l /\ i + 1 \in Nat /\ i + 1 - 1 = i
    BY <1>5
  <2>2. CASE i = 0
    BY <1>3, <2>1, <2>2 DEF MayName
  <2>3. CASE i # 0
    <3>1. i \in 1..l /\ i + 1 # 1 /\ i + 1 > 1
      BY <1>5, <2>3
    <3>2. stack[i + 1].name \in MayName(i + 1 - 1)
      BY <1>2, <2>1, <3>1 DEF ResolverSound
    <3>3. stack[i + 1].name \in Needed(layers, asked)
      BY <1>5, <2>1, <3>1, <3>2
    <3>4. MayName(i + 1) = Uses(layers, stack[i + 1].name)
      BY <3>1 DEF MayName
    <3> QED
      BY <1>3, <2>1, <3>3, <3>4
  <2> QED
    BY <2>2, <2>3
<1>6. 0..l \subseteq P
  <2> HIDE DEF P
  <2> QED
    BY <1>4, <1>5, InductionUpTo
<1> QED
  BY <1>2, <1>6

\* A chain that closes is one of needed variables, of which one needs itself.
LEMMA ClosedChain ==
  ASSUME NEW L \in Seq(Layer), NEW t \in Template, NEW c \in Seq(Names), Len(c) > 1,
         c[1] \in Mentioned(t), \A i \in 1..(Len(c) - 1) : c[i + 1] \in Uses(L, c[i]),
         NEW k \in 1..(Len(c) - 1), c[k] = c[Len(c)]
  PROVE  ~Meaningful(L, t)
<1>1. PICK l \in Nat : l = Len(c)
  OBVIOUS
<1>2. \A i \in 1..l : c[i] \in Names
  BY <1>1
<1>3. /\ Mentioned(t) \subseteq Needed(L, t)
      /\ \A n \in Needed(L, t) : Uses(L, n) \subseteq Needed(L, t)
  BY NeededClosed
<1> DEFINE P == {i \in Nat : i \in 1..l => c[i] \in Needed(L, t)}
<1>4. 0..l \subseteq P
  <2>1. 0 \in P
    OBVIOUS
  <2>2. ASSUME NEW i \in 0..l, i # l, i \in P PROVE i + 1 \in P
    <3>1. i + 1 \in 1..l /\ i + 1 \in Nat
      BY <2>2
    <3>2. CASE i = 0
      BY <1>3, <3>1, <3>2
    <3>3. CASE i # 0
      <4>1. i \in 1..l /\ i \in 1..(Len(c) - 1)
        BY <1>1, <2>2, <3>3
      <4> QED
        BY <1>3, <2>2, <3>1, <4>1
    <3> QED
      BY <3>2, <3>3
  <2> HIDE DEF P
  <2> QED
    BY <2>1, <2>2, InductionUpTo
<1> DEFINE n == c[k]
           value == Lookup(L, n)
<1>5. k \in 1..l /\ k + 1 \in 1..l /\ k < l /\ k \in Nat
  BY <1>1
<1>6. n \in Names /\ n \in Needed(L, t)
  BY <1>2, <1>4, <1>5
<1>7. c[k + 1] \in Uses(L, n)
  OBVIOUS
<1> HIDE DEF n
<1>8. value \in Template /\ value \in Values(L, n) /\ Uses(L, n) = Mentioned(value)
  <2>1. Values(L, n) # {}
    BY <1>7 DEF Uses
  <2> QED
    BY <1>6, <2>1, ValuesAre, UsesAre
<1> HIDE DEF value
<1>9. /\ Mentioned(value) \subseteq Needed(L, value)
      /\ \A m \in Needed(L, value) : Uses(L, m) \subseteq Needed(L, value)
  BY <1>8, NeededClosed
<1> DEFINE Q == {i \in Nat : i \in (k + 1)..l => c[i] \in Needed(L, value)}
<1>10. 0..l \subseteq Q
  <2>1. 0 \in Q
    BY <1>5
  <2>2. ASSUME NEW i \in 0..l, i # l, i \in Q PROVE i + 1 \in Q
    <3>1. i + 1 \in Nat
      BY <2>2
    <3>2. CASE i = k
      BY <1>7, <1>8, <1>9, <3>1, <3>2
    <3>3. CASE i # k
      <4>1. SUFFICES ASSUME i + 1 \in (k + 1)..l PROVE c[i + 1] \in Needed(L, value)
        BY <3>1
      <4>2. i \in (k + 1)..l /\ i \in 1..(Len(c) - 1)
        BY <1>1, <1>5, <2>2, <3>3, <4>1
      <4> QED
        BY <1>9, <2>2, <4>2
    <3> QED
      BY <3>2, <3>3
  <2> HIDE DEF Q
  <2> QED
    BY <2>1, <2>2, InductionUpTo
<1>11. n \in Needed(L, value)
  <2>1. l \in (k + 1)..l /\ l \in 0..l
    BY <1>5
  <2> QED
    BY <1>1, <1>10, <2>1 DEF n
<1>12. n \in OnCycle(L)
  BY <1>6, <1>8, <1>11 DEF OnCycle
<1> QED
  BY <1>6, <1>12 DEF Meaningful

\* An answer is the one that the template's meaning demands, and until there is
\* one every frame is on its way to it.
ResolverExact ==
  /\ ResolverSound
  /\ Placed
  /\ ResolvedByReference

\* An error is raised for a template without a meaning.
LEMMA ErrorIsExact ==
  ASSUME ResolverSound', answer'.kind # "text", layers' = layers, asked' = asked,
         answer'.kind = "undefined" => answer'.name \in Needed(layers, asked)
  PROVE  ResolvedByReference'
<1> SUFFICES ASSUME answer' # Absent PROVE ResolvedByReference'
  BY DEF ResolvedByReference, ResolverSound
<1>1. answer' \in Answer /\ layers \in Seq(Layer) /\ asked \in Template /\ ErrorsHaveACause'
  BY DEF ResolverSound, ResolverTypeOK
<1>2. answer'.kind = "undefined" \/ answer'.kind = "cyclic"
  BY <1>1 DEF Answer
<1>3. ~Meaningful(layers, asked)
  <2>1. CASE answer'.kind = "undefined"
    <3>1. answer'.name \in Undefined(layers)
      BY <1>1, <2>1 DEF ErrorsHaveACause
    <3> QED
      BY <2>1, <3>1 DEF Meaningful
  <2>2. CASE answer'.kind = "cyclic"
    <3>1. PICK c \in Seq(Names) : c = answer'.chain
      BY <1>1, <2>2 DEF Answer
    <3>2. /\ Len(c) > 1 /\ c[1] \in Mentioned(asked)
          /\ \A i \in 1..(Len(c) - 1) : c[i + 1] \in Uses(layers, c[i])
          /\ \E i \in 1..(Len(c) - 1) : c[i] = c[Len(c)]
      BY <1>1, <2>2, <3>1 DEF ErrorsHaveACause
    <3>3. PICK k \in 1..(Len(c) - 1) : c[k] = c[Len(c)]
      BY <3>2
    <3> QED
      BY <1>1, <3>2, <3>3, ClosedChain
  <2> QED
    BY <1>2, <2>1, <2>2
<1> QED
  BY <1>1, <1>3 DEF ResolvedByReference

LEMMA ReturnIsExact ==
  ASSUME ResolverExact, Return
  PROVE  ResolverExact'
<1>1. ResolverSound'
  BY ReturnKeepsSound DEF ResolverExact
<1>2. CASE Below # <<>>
  <2>1. Placed'
    BY <1>2, ReturnKeepsPlaced DEF ResolverExact
  <2>2. answer' = answer /\ answer = Absent
    BY <1>2 DEF Return, ResolverExact, ResolverSound
  <2>3. ResolvedByReference'
    BY <1>1, <2>2 DEF ResolvedByReference, ResolverSound
  <2> QED
    BY <1>1, <2>1, <2>3 DEF ResolverExact
<1>3. CASE Below = <<>>
  <2>1. /\ stack # <<>> /\ Top.rest = <<>> /\ stack' = <<>>
        /\ answer' = [kind |-> "text", value |-> Top.out] /\ layers' = layers /\ asked' = asked
    BY <1>3 DEF Return, Answered
  <2>2. Len(stack) = 1 /\ Top = stack[1] /\ DOMAIN stack = {1} /\ layers \in Seq(Layer)
    <3>1. /\ Len(stack) \in Nat \ {0} /\ Top = stack[Len(stack)]
          /\ Len(Below) = Len(stack) - 1
      BY <2>1, TopAndBelow DEF ResolverExact, ResolverSound
    <3>2. stack \in Seq(Frame) /\ layers \in Seq(Layer)
      BY DEF ResolverExact, ResolverSound, ResolverTypeOK
    <3>3. Len(Below) = 0
      BY <1>3
    <3>4. Len(stack) = 1
      BY <3>1, <3>3
    <3> QED
      BY <3>1, <3>2, <3>4
  <2>3. PutSoFar(layers, asked, <<>>, Top.out)
    <3>1. WholeOf(1) = asked /\ LeftOf(1) = <<>>
      BY <2>1, <2>2 DEF WholeOf, LeftOf
    <3> QED
      BY <2>2, <3>1 DEF ResolverExact, Placed
  <2>4. /\ asked \in Template /\ Mentioned(asked) \subseteq Grounded(layers)
        /\ Top.out = Put(FullTexts(layers), asked)
    BY <2>2, <2>3, AllPut
  <2>5. Meaningful(layers, asked) /\ Meaning(layers, asked) = Top.out
    BY <2>2, <2>4, GroundedMeaningful
  <2>6. answer'.kind = "text" /\ answer'.value = Top.out
    BY <2>1
  <2>7. ErrorsHaveACause'
    BY <1>1 DEF ResolverSound
  <2>8. ResolvedByReference'
    BY <2>1, <2>5, <2>6, <2>7 DEF ResolvedByReference
  <2>9. Placed'
    BY <2>1 DEF Placed
  <2> QED
    BY <1>1, <2>8, <2>9 DEF ResolverExact
<1> QED
  BY <1>2, <1>3

LEMMA SubstituteIsExact ==
  ASSUME ResolverExact, Substitute
  PROVE  ResolverExact'
<1>1. ResolverSound'
  BY SubstituteKeepsSound DEF ResolverExact
<1> DEFINE v == Next1.of
<1>2. stack # <<>> /\ Top.rest # <<>> /\ Next1.kind = "var"
  BY DEF Substitute
<1>3. v \in Needed(layers, asked)
  <2>1. Top \in Frame /\ Len(stack) \in DOMAIN stack /\ Top = stack[Len(stack)]
    BY <1>2, TopAndBelow DEF ResolverExact, ResolverSound, ResolverTypeOK
  <2>2. v \in Mentioned(Top.rest)
    BY <1>2, <2>1, MentionedParts DEF Frame, Next1
  <2>3. v \in MayName(Len(stack))
    BY <2>1, <2>2 DEF ResolverExact, ResolverSound
  <2> QED
    BY <2>1, <2>3, StackNeeded DEF ResolverExact
<1>4. CASE Answered([kind |-> "cyclic", chain |-> Append(Chain, v)])
  <2>1. /\ answer' = [kind |-> "cyclic", chain |-> Append(Chain, v)]
        /\ stack' = <<>> /\ layers' = layers /\ asked' = asked
    BY <1>4 DEF Answered
  <2>2. answer'.kind = "cyclic"
    BY <2>1
  <2>3. ResolvedByReference'
    BY <1>1, <2>1, <2>2, ErrorIsExact
  <2> QED
    BY <1>1, <2>1, <2>3 DEF ResolverExact, Placed
<1>5. CASE Answered([kind |-> "undefined", name |-> v])
  <2>1. /\ answer' = [kind |-> "undefined", name |-> v]
        /\ stack' = <<>> /\ layers' = layers /\ asked' = asked
    BY <1>5 DEF Answered
  <2>2. answer'.kind = "undefined" /\ answer'.name = v
    BY <2>1
  <2> HIDE DEF v
  <2>3. ResolvedByReference'
    BY <1>1, <1>3, <2>1, <2>2, ErrorIsExact
  <2> QED
    BY <1>1, <2>1, <2>3 DEF ResolverExact, Placed
<1>6. CASE Pushes
  <2>1. Placed'
    BY <1>6, PushKeepsPlaced DEF ResolverExact
  <2>2. answer' = answer /\ answer = Absent
    BY <1>2, <1>6 DEF Pushes, ResolverExact, ResolverSound
  <2>3. ResolvedByReference'
    BY <1>1, <2>2 DEF ResolvedByReference, ResolverSound
  <2> QED
    BY <1>1, <2>1, <2>3 DEF ResolverExact
<1> QED
  BY <1>2, <1>4, <1>5, <1>6 DEF Substitute, Pushes

LEMMA LiteralIsExact ==
  ASSUME ResolverExact, Literal
  PROVE  ResolverExact'
<1>1. ResolverSound' /\ Placed'
  BY LiteralKeepsSound, LiteralKeepsPlaced DEF ResolverExact
<1>2. answer' = answer /\ answer = Absent
  BY DEF Literal, ResolverExact, ResolverSound
<1>3. ResolvedByReference'
  BY <1>1, <1>2 DEF ResolvedByReference, ResolverSound
<1> QED
  BY <1>1, <1>3 DEF ResolverExact

LEMMA ExactStep == ResolverExact /\ ResolverNext => ResolverExact'
  BY LiteralIsExact, SubstituteIsExact, ReturnIsExact DEF ResolverNext

\* A call of resolve, with whatever sources.
LEMMA ResolveIsExact ==
  ASSUME ResolverExact, NEW t \in Template, NEW L \in Seq(Layer), Resolve(t, L)
  PROVE  ResolverExact'
<1>1. ResolverSound'
  BY ResolveKeepsSound DEF ResolverExact
<1>2. /\ stack' = <<[name |-> Absent, rest |-> t, out |-> <<>>]>>
      /\ layers' = L /\ asked' = t /\ answer' = Absent
  BY DEF Resolve
<1>3. Len(stack') = 1 /\ DOMAIN stack' = {1} /\ stack'[1].rest = t /\ stack'[1].out = <<>>
  BY <1>2
<1>4. WholeOf(1)' = t /\ LeftOf(1)' = t
  BY <1>2, <1>3 DEF WholeOf, LeftOf
<1>5. Placed'
  BY <1>2, <1>3, <1>4, NothingPutYet DEF Placed
<1>6. ResolvedByReference'
  BY <1>1, <1>2 DEF ResolvedByReference, ResolverSound
<1> QED
  BY <1>1, <1>5, <1>6 DEF ResolverExact

\* The resolver is not called, and its answer stands or is used.
LEMMA ExactFrame ==
  ASSUME ResolverExact, UNCHANGED <<layers, asked, stack>>, answer' \in {answer, Absent}
  PROVE  ResolverExact'
<1>1. ResolverSound'
  <2>1. CASE answer' = answer
    BY <2>1, ResolverFrame DEF ResolverExact, resolverVars
  <2>2. CASE answer' = Absent
    BY <2>2, ForgetKeepsSound DEF ResolverExact, Forget
  <2> QED
    BY <2>1, <2>2
<1>2. Placed'
  BY DEF ResolverExact, Placed, WholeOf, LeftOf
<1>3. ResolvedByReference'
  <2>1. CASE answer' = answer
    BY <2>1 DEF ResolverExact, ResolvedByReference, ErrorsHaveACause
  <2>2. CASE answer' = Absent
    BY <1>1, <2>2 DEF ResolvedByReference, ResolverSound
  <2> QED
    BY <2>1, <2>2
<1> QED
  BY <1>1, <1>2, <1>3 DEF ResolverExact

LEMMA ExactInit == ResolverInit => ResolverExact
<1> SUFFICES ASSUME ResolverInit PROVE ResolverExact
  OBVIOUS
<1>1. ResolverSound
  BY ResolverSoundInit
<1>2. stack = <<>> /\ answer = Absent
  BY DEF ResolverInit
<1> QED
  BY <1>1, <1>2 DEF ResolverExact, Placed, ResolvedByReference, ResolverSound
-----------------------------------------------------------------------------
(* Start-up *)

\* The last of the first n entries that is for the provider p, if it is i.
IsLast(i, p, n) ==
  /\ i \in 1..n
  /\ start.providers[i].provider = p
  /\ \A j \in 1..n : start.providers[j].provider = p => j <= i

NoEntry(p, n) == \A j \in 1..n : start.providers[j].provider # p

\* What was loaded mirrors the document, and is wired only as a whole.
LoadingSound ==
  /\ \A i \in DOMAIN loaded : loaded[i].provider = start.providers[i].provider
  /\ phase \in {"wiring", "discovering"} =>
       Len(loaded) = Len(start.providers) /\ start.program \in {"client", "bare"}
  /\ phase = "discovering" => wired > 0 /\ start.program = "client"
  /\ phase = "inspecting" => Wanted # {}
  /\ outcome = "ready" =>
       wired = Len(start.providers) /\ start.program \in {"client", "bare"}

\* Strings are resolved for an entry there is.
AskedForAnEntry ==
  /\ phase = "reading" => Idle
  /\ phase = "loading" => Idle \/ Len(loaded) < Len(start.providers)

\* Among the entries met so far, the last of each name has the transport.
WiringSound ==
  \A p \in Providers :
    \/ transports[p] = None /\ NoEntry(p, wired)
    \/ transports[p] # None /\ IsLast(transports[p].entry, p, wired)

\* The entries discovered, which the last one wired may not be yet.
Met == IF phase = "discovering" THEN wired - 1 ELSE wired

DiscoverySound ==
  \A p \in Providers :
    IF start.program = "bare" THEN registered[p] = None
    ELSE outcome \in {None, "ready"} =>
           \/ registered[p] = None /\ NoEntry(p, Met)
           \/ registered[p] # None /\ IsLast(discovered[p], p, Met)

StartUpSound ==
  /\ ResolverSound
  /\ StartUpTypeOK
  /\ LoadingSound
  /\ AskedForAnEntry
  /\ WiringSound
  /\ DiscoverySound

LEMMA StartTyped ==
  ASSUME StartUpTypeOK
  PROVE  /\ start \in Start /\ start.providers \in Seq(Entry)
         /\ Len(start.providers) \in Nat /\ DOMAIN start.providers = 1..Len(start.providers)
         /\ loaded \in Seq([provider : Providers, header : Template, auth : Auth])
         /\ Len(loaded) \in Nat /\ DOMAIN loaded = 1..Len(loaded) /\ wired \in Nat
         /\ \A i \in DOMAIN loaded :
              loaded[i] \in [provider : Providers, header : Template, auth : Auth]
<1>1. start \in Start
  BY StartUpAssumption DEF StartUpTypeOK
<1>2. start.providers \in Seq(Entry)
  BY <1>1 DEF Start
<1> DEFINE Loading == [provider : Providers, header : Template, auth : Auth]
<1>3. loaded \in Seq(Loading)
  BY DEF StartUpTypeOK
<1> HIDE DEF Loading
<1>4. /\ \A i \in DOMAIN loaded : loaded[i] \in Loading
      /\ Len(loaded) \in Nat /\ DOMAIN loaded = 1..Len(loaded)
  BY <1>3
<1>5. wired \in Nat
  BY <1>4 DEF StartUpTypeOK
<1>6. Len(start.providers) \in Nat /\ DOMAIN start.providers = 1..Len(start.providers)
  BY <1>2
<1> QED
  BY <1>1, <1>2, <1>3, <1>4, <1>5, <1>6 DEF Loading

LEMMA StartUpSoundInit == Init => StartUpSound
<1> SUFFICES ASSUME Init PROVE StartUpSound
  OBVIOUS
<1>1. ResolverInit /\ RepositoryInit /\ StartUpInit
  BY DEF Init, StartUpInit
<1>2. ResolverSound
  BY <1>1, ResolverSoundInit
<1>3. loaded = <<>> /\ DOMAIN loaded = {} /\ Len(loaded) = 0
  BY <1>1 DEF StartUpInit
<1>4. RepositoryTypeOK
  BY <1>1 DEF RepositoryInit, RepositoryTypeOK
<1>5. StartUpTypeOK
  <2>1. start \in Start
    BY <1>1, StartUpAssumption DEF StartUpInit
  <2>2. Len(start.providers) \in Nat
    BY <2>1 DEF Start
  <2> QED
    BY <1>1, <1>2, <1>3, <1>4, <2>2 DEF StartUpInit, StartUpTypeOK, ResolverSound
<1>6. outcome # "ready"
  BY <1>1, NoneAssumption DEF StartUpInit, Outcome
<1>7. LoadingSound
  BY <1>1, <1>3, <1>6 DEF StartUpInit, LoadingSound
<1>8. WiringSound
  BY <1>1 DEF StartUpInit, WiringSound, NoEntry
<1>9. DiscoverySound
  BY <1>1 DEF StartUpInit, RepositoryInit, DiscoverySound, NoEntry, Met
<1>10. AskedForAnEntry
  BY <1>1 DEF StartUpInit, ResolverInit, AskedForAnEntry, Idle
<1> QED
  BY <1>2, <1>5, <1>7, <1>8, <1>9, <1>10 DEF StartUpSound

\* The resolver is at work, and nothing else changes.
LEMMA OthersIdle ==
  ASSUME StartUpSound, ResolverSound', UNCHANGED <<startVars, repositoryVars>>,
         AskedForAnEntry'
  PROVE  StartUpSound'
<1>1. /\ start' = start /\ phase' = phase /\ loaded' = loaded /\ transports' = transports
      /\ wired' = wired /\ discovered' = discovered /\ outcome' = outcome
      /\ registered' = registered /\ owner' = owner /\ definition' = definition
  BY DEF startVars, repositoryVars
<1>2. StartUpTypeOK'
  BY <1>1 DEF StartUpSound, StartUpTypeOK, RepositoryTypeOK, ResolverSound
<1>3. LoadingSound'
  BY <1>1 DEF StartUpSound, LoadingSound, Wanted
<1>4. WiringSound'
  BY <1>1 DEF StartUpSound, WiringSound, NoEntry, IsLast
<1>5. DiscoverySound'
  BY <1>1 DEF StartUpSound, DiscoverySound, NoEntry, IsLast, Met
<1> QED
  BY <1>2, <1>3, <1>4, <1>5 DEF StartUpSound

\* An end that is not a client.
LEMMA EndKeepsSound ==
  ASSUME StartUpSound, ResolverSound', UNCHANGED repositoryVars,
         NEW how \in Outcome \ {"ready"}, End(how)
  PROVE  StartUpSound'
<1>1. /\ start' = start /\ phase' = "ended" /\ loaded' = loaded /\ transports' = transports
      /\ wired' = wired /\ discovered' = discovered /\ outcome' = how
      /\ registered' = registered /\ owner' = owner /\ definition' = definition
  BY DEF End, repositoryVars
<1>2. how # None
  BY NoneAssumption
<1>3. StartUpTypeOK'
  BY <1>1, <1>2 DEF StartUpSound, StartUpTypeOK, RepositoryTypeOK, ResolverSound
<1>4. LoadingSound'
  BY <1>1 DEF StartUpSound, LoadingSound
<1>5. WiringSound'
  BY <1>1 DEF StartUpSound, WiringSound, NoEntry, IsLast
<1>6. DiscoverySound'
  BY <1>1, <1>2 DEF StartUpSound, DiscoverySound
<1>7. AskedForAnEntry'
  BY <1>1 DEF AskedForAnEntry
<1> QED
  BY <1>3, <1>4, <1>5, <1>6, <1>7 DEF StartUpSound

LEMMA RefuseConfigKeepsSound ==
  ASSUME StartUpSound, ResolverSound', UNCHANGED repositoryVars, RefuseConfig
  PROVE  StartUpSound'
  BY EndKeepsSound DEF RefuseConfig, Outcome

\* A phase is entered in which nothing is discovered.
LEMMA EnterKeepsSound ==
  ASSUME StartUpSound, ResolverSound', UNCHANGED repositoryVars,
         NEW p \in {"loading", "wiring", "inspecting"}, Enter(p),
         phase \in {"reading", "loading"}, LoadingSound', AskedForAnEntry'
  PROVE  StartUpSound'
<1>1. /\ start' = start /\ phase' = p /\ loaded' = loaded /\ transports' = transports
      /\ wired' = wired /\ discovered' = discovered /\ outcome' = outcome
      /\ registered' = registered /\ owner' = owner /\ definition' = definition
  BY DEF Enter, repositoryVars
<1>2. outcome = None
  BY DEF StartUpSound, StartUpTypeOK
<1>3. StartUpTypeOK'
  BY <1>1, <1>2 DEF StartUpSound, StartUpTypeOK, RepositoryTypeOK, ResolverSound
<1>4. WiringSound'
  BY <1>1 DEF StartUpSound, WiringSound, NoEntry, IsLast
<1>5. Met' = Met
  BY <1>1 DEF Met
<1>6. DiscoverySound'
  BY <1>1, <1>5 DEF StartUpSound, DiscoverySound, NoEntry, IsLast
<1> QED
  BY <1>3, <1>4, <1>6 DEF StartUpSound

LEMMA ReadKeepsSound ==
  ASSUME StartUpSound, Read
  PROVE  StartUpSound'
<1>1. ResolverSound' /\ UNCHANGED repositoryVars /\ phase = "reading"
  BY ResolverFrame DEF Read, StartUpSound
<1>2. CASE Enter("loading")
  <2>1. LoadingSound'
    BY <1>2 DEF Enter, StartUpSound, LoadingSound
  <2>2. AskedForAnEntry'
    BY <1>1, <1>2 DEF Enter, Read, StartUpSound, AskedForAnEntry, Idle, resolverVars
  <2> QED
    BY <1>1, <1>2, <2>1, <2>2, EnterKeepsSound
<1>3. CASE RefuseConfig
  BY <1>1, <1>3, RefuseConfigKeepsSound
<1> QED
  BY <1>2, <1>3 DEF Read

LEMMA BeginEntryKeepsSound ==
  ASSUME StartUpSound, BeginEntry
  PROVE  StartUpSound'
<1>1. StartUpTypeOK /\ ResolverSound /\ UNCHANGED repositoryVars
  BY DEF BeginEntry, StartUpSound
<1>2. CASE RefuseConfig /\ UNCHANGED resolverVars
  BY <1>1, <1>2, ResolverFrame, RefuseConfigKeepsSound
<1>3. CASE Resolve(EntryToLoad.header, LoadLayers) /\ UNCHANGED startVars
  <2>1. Len(loaded) + 1 \in 1..Len(start.providers)
    BY <1>1, StartTyped DEF BeginEntry
  <2>2. EntryToLoad \in Entry
    BY <1>1, <2>1, StartTyped DEF EntryToLoad
  <2>3. EntryToLoad.header \in Template
    BY <2>2 DEF Entry
  <2>4. start.inline \in Layer /\ start.overrides \in Layer
        /\ start.dotenv \in Layer /\ start.environ \in Layer
    BY <1>1, StartTyped DEF Start
  <2>5. [n \in Names |-> IF start.overrides[n] # Absent THEN start.overrides[n]
                         ELSE start.inline[n]] \in Layer
    BY <2>4 DEF Layer
  <2>6. LoadLayers \in Seq(Layer)
    BY <2>4, <2>5 DEF LoadLayers
  <2>7. ResolverSound'
    BY <1>1, <1>3, <2>3, <2>6, ResolveKeepsSound
  <2>8. AskedForAnEntry'
    BY <1>3 DEF BeginEntry, startVars, AskedForAnEntry
  <2> QED
    BY <1>1, <1>3, <2>7, <2>8, OthersIdle
<1> QED
  BY <1>2, <1>3 DEF BeginEntry

LEMMA FinishEntryKeepsSound ==
  ASSUME StartUpSound, FinishEntry
  PROVE  StartUpSound'
<1>1. StartUpTypeOK /\ ResolverSound' /\ UNCHANGED repositoryVars
  BY ForgetKeepsSound DEF FinishEntry, StartUpSound
<1>2. CASE End("raised")
  BY <1>1, <1>2, EndKeepsSound DEF Outcome
<1>3. CASE RefuseConfig
  BY <1>1, <1>3, RefuseConfigKeepsSound
<1>4. CASE /\ answer.kind = "text"
           /\ loaded' = Append(loaded, [provider |-> EntryToLoad.provider,
                                        header |-> answer.value, auth |-> EntryToLoad.auth])
           /\ UNCHANGED <<start, phase, transports, wired, discovered, outcome>>
  <2> DEFINE Loading == [provider : Providers, header : Template, auth : Auth]
             e == [provider |-> EntryToLoad.provider,
                   header |-> answer.value, auth |-> EntryToLoad.auth]
  <2>1. outcome = None /\ phase = "loading" /\ answer # Absent
    BY <1>1 DEF FinishEntry, StartUpTypeOK
  <2>2. PICK n \in Nat : n = Len(loaded)
    BY <1>1, StartTyped
  <2>3. n < Len(start.providers) /\ DOMAIN loaded = 1..n
    BY <1>1, <2>1, <2>2, StartTyped DEF StartUpSound, AskedForAnEntry, Idle
  <2>4. EntryToLoad = start.providers[n + 1] /\ EntryToLoad \in Entry
    BY <1>1, <2>2, <2>3, StartTyped DEF EntryToLoad
  <2>5. answer.value \in Template
    BY <1>1, <1>4, <2>1, ResolverAssumption DEF StartUpTypeOK, ResolverTypeOK, Answer
  <2>6. e \in Loading /\ e.provider = start.providers[n + 1].provider
    BY <2>4, <2>5 DEF Entry
  <2>7. loaded \in Seq(Loading) /\ loaded' = Append(loaded, e)
    BY <1>1, <1>4, StartTyped
  <2> HIDE DEF e, Loading
  <2>8. /\ loaded' \in Seq(Loading) /\ Len(loaded') = n + 1 /\ DOMAIN loaded' = 1..(n + 1)
        /\ loaded'[n + 1] = e
        /\ \A i \in 1..n : loaded'[i] = loaded[i]
    BY <2>2, <2>6, <2>7, AppendProperties
  <2>9. \A i \in 1..(n + 1) : i \in 1..n \/ i = n + 1
    BY <2>2
  <2>10. /\ start' = start /\ phase' = "loading" /\ transports' = transports /\ wired' = wired
         /\ discovered' = discovered /\ outcome' = None
         /\ registered' = registered /\ owner' = owner /\ definition' = definition
    BY <1>1, <1>4, <2>1 DEF repositoryVars
  <2>11. Len(loaded') <= Len(start.providers) /\ wired \in 0..(n + 1)
    BY <1>1, <2>2, <2>3, <2>8, StartTyped DEF StartUpTypeOK
  <2>12. StartUpTypeOK'
    BY <1>1, <2>1, <2>8, <2>10, <2>11
    DEF StartUpTypeOK, RepositoryTypeOK, ResolverSound, Loading
  <2>13. \A i \in DOMAIN loaded' : loaded'[i].provider = start.providers[i].provider
    <3>1. \A i \in 1..n : loaded'[i].provider = start.providers[i].provider
      BY <2>3, <2>8 DEF StartUpSound, LoadingSound
    <3> QED
      BY <2>6, <2>8, <2>9, <3>1
  <2>14. LoadingSound'
    BY <2>10, <2>13, NoneAssumption DEF LoadingSound, Outcome
  <2>15. AskedForAnEntry'
    <3>1. answer' = Absent /\ stack' = stack
      BY DEF FinishEntry, Forget
    <3>2. stack = <<>>
      BY <1>1, <2>1 DEF StartUpSound, ResolverSound
    <3> QED
      BY <2>10, <3>1, <3>2 DEF AskedForAnEntry, Idle
  <2>16. WiringSound'
    BY <2>10 DEF StartUpSound, WiringSound, NoEntry, IsLast
  <2>17. Met' = Met
    BY <2>1, <2>10 DEF Met
  <2>18. DiscoverySound'
    BY <2>1, <2>10, <2>17 DEF StartUpSound, DiscoverySound, NoEntry, IsLast
  <2> QED
    BY <1>1, <2>12, <2>14, <2>15, <2>16, <2>18 DEF StartUpSound
<1> QED
  BY <1>2, <1>3, <1>4 DEF FinishEntry

LEMMA LoadedKeepsSound ==
  ASSUME StartUpSound, Loaded
  PROVE  StartUpSound'
<1>1. /\ StartUpTypeOK /\ ResolverSound' /\ UNCHANGED repositoryVars
      /\ phase = "loading" /\ Len(loaded) = Len(start.providers) /\ Idle /\ Idle'
  BY ResolverFrame DEF Loaded, StartUpSound, Idle, resolverVars
<1>2. start.program \in {"client", "bare", "validate", "inspect"}
  BY <1>1, StartTyped DEF Start
<1>3. CASE End("exit 0")
  BY <1>1, <1>3, EndKeepsSound DEF Outcome
<1>4. CASE RefuseConfig
  BY <1>1, <1>4, RefuseConfigKeepsSound
<1>5. CASE Enter("inspecting") /\ Wanted # {}
  <2>1. LoadingSound'
    BY <1>1, <1>5 DEF Enter, StartUpSound, LoadingSound, Wanted
  <2>2. AskedForAnEntry'
    BY <1>5 DEF Enter, AskedForAnEntry
  <2> QED
    BY <1>1, <1>5, <2>1, <2>2, EnterKeepsSound
<1>6. CASE Enter("wiring") /\ start.program \in {"client", "bare"}
  <2>1. LoadingSound'
    BY <1>1, <1>6 DEF Enter, StartUpSound, LoadingSound
  <2>2. AskedForAnEntry'
    BY <1>6 DEF Enter, AskedForAnEntry
  <2> QED
    BY <1>1, <1>6, <2>1, <2>2, EnterKeepsSound
<1> QED
  BY <1>2, <1>3, <1>4, <1>5, <1>6 DEF Loaded

\* The entry in hand is one of those loaded.
LEMMA InHandTyped ==
  ASSUME StartUpSound, InHandExists
  PROVE  /\ InHand \in [provider : Providers, header : Template, auth : Auth]
         /\ phase \in {"inspecting", "wiring"}
         /\ phase = "wiring" => wired + 1 \in DOMAIN loaded /\ InHand = loaded[wired + 1]
<1>1. StartUpTypeOK
  BY DEF StartUpSound
<1>2. CASE phase = "inspecting"
  <2>1. Wanted # {} /\ Wanted \subseteq DOMAIN loaded /\ DOMAIN loaded \subseteq Nat
    BY <1>1, <1>2, StartTyped DEF StartUpSound, LoadingSound, Wanted
  <2>2. \E i \in Wanted : \A j \in Wanted : i <= j
    BY <2>1, SmallestOf
  <2> DEFINE i == CHOOSE i \in Wanted : \A j \in Wanted : i <= j
  <2>3. i \in DOMAIN loaded
    BY <2>1, <2>2
  <2>4. InHand = loaded[i]
    BY <1>2 DEF InHand
  <2> HIDE DEF i
  <2> QED
    BY <1>1, <1>2, <2>3, <2>4, StartTyped
<1>3. CASE phase = "wiring" /\ wired < Len(loaded)
  <2>1. wired + 1 \in DOMAIN loaded
    BY <1>1, <1>3, StartTyped
  <2>2. InHand = loaded[wired + 1]
    BY <1>3 DEF InHand
  <2> QED
    BY <1>1, <1>3, <2>1, <2>2, StartTyped
<1> QED
  BY <1>2, <1>3 DEF InHandExists

LEMMA AskAuthKeepsSound ==
  ASSUME StartUpSound, AskAuth
  PROVE  StartUpSound'
<1>1. StartUpTypeOK /\ InHandExists /\ UNCHANGED <<startVars, repositoryVars>>
  BY DEF AskAuth, StartUpSound
<1>2. InHand.auth.secret \in Template /\ phase \in {"inspecting", "wiring"}
  BY <1>1, InHandTyped DEF Auth
<1>3. start.resolver \in Seq(Layer) /\ <<start.environ>> \in Seq(Layer)
  BY <1>1, StartTyped DEF Start
<1>4. ResolverSound'
  BY <1>2, <1>3, ResolveKeepsSound DEF AskAuth, StartUpSound
<1>5. AskedForAnEntry'
  BY <1>1, <1>2 DEF AskedForAnEntry, startVars
<1> QED
  BY <1>1, <1>4, <1>5, OthersIdle

LEMMA RefuseAuthKeepsSound ==
  ASSUME StartUpSound, RefuseAuth
  PROVE  StartUpSound'
  BY ForgetKeepsSound, EndKeepsSound DEF RefuseAuth, StartUpSound, Outcome

LEMMA InspectedKeepsSound ==
  ASSUME StartUpSound, Inspected
  PROVE  StartUpSound'
  BY ForgetKeepsSound, EndKeepsSound DEF Inspected, StartUpSound, Outcome

LEMMA PreparedHeaderTyped ==
  ASSUME StartUpSound, Authenticated
  PROVE  PreparedHeader \in Header
<1>1. InHand.header \in Template /\ InHand.auth.scheme \in {"none", "token", "basic"}
  BY InHandTyped DEF Authenticated, Auth
<1>2. CASE InHand.auth.scheme = "none"
  BY <1>1, <1>2 DEF PreparedHeader, Header
<1>3. CASE InHand.auth.scheme # "none"
  <2>1. answer # Absent /\ answer.kind = "text"
    BY <1>3 DEF Authenticated, Refused
  <2>2. answer \in Answer
    BY <2>1 DEF StartUpSound, ResolverSound, ResolverTypeOK
  <2>3. answer.value \in Template
    BY <2>1, <2>2 DEF Answer
  <2> QED
    BY <1>1, <1>3, <2>3 DEF PreparedHeader, Header
<1> QED
  BY <1>2, <1>3

\* One more entry is met: it is the last of its provider, and the last of the
\* other providers are what they were.
LEMMA OneMoreEntry ==
  ASSUME NEW n \in Nat, NEW p
  PROVE  /\ start.providers[n + 1].provider = p => IsLast(n + 1, p, n + 1)
         /\ start.providers[n + 1].provider # p =>
              /\ NoEntry(p, n) => NoEntry(p, n + 1)
              /\ \A i : IsLast(i, p, n) => IsLast(i, p, n + 1)
<1>1. \A j \in 1..(n + 1) : j \in 1..n \/ j = n + 1
  OBVIOUS
<1>2. n + 1 \in 1..(n + 1) /\ 1..n \subseteq 1..(n + 1)
  OBVIOUS
<1>3. \A j \in 1..(n + 1) : j <= n + 1
  OBVIOUS
<1> QED
  BY <1>1, <1>2, <1>3 DEF IsLast, NoEntry

LEMMA WireKeepsSound ==
  ASSUME StartUpSound, Wire
  PROVE  StartUpSound'
<1>1. /\ StartUpTypeOK /\ ResolverSound' /\ UNCHANGED repositoryVars
      /\ phase = "wiring" /\ Authenticated /\ InHandExists /\ Forget
  BY ForgetKeepsSound DEF Wire, Authenticated, StartUpSound
<1>2. CASE End("raised")
  BY <1>1, <1>2, EndKeepsSound DEF Outcome
<1>3. CASE /\ transports' = Transports(InHand.provider,
                                       [header |-> PreparedHeader, entry |-> wired + 1])
           /\ wired' = wired + 1
           /\ phase' = IF start.program = "client" THEN "discovering" ELSE "wiring"
           /\ UNCHANGED <<start, loaded, discovered, outcome>>
  <2>1. PICK n \in Nat : n = wired
    BY <1>1, StartTyped
  <2>2. PICK t : t = [header |-> PreparedHeader, entry |-> n + 1]
    OBVIOUS
  <2>3. t \in Wiring /\ t # None /\ t.entry = n + 1
    BY <1>1, <2>2, PreparedHeaderTyped, NoneAssumption DEF Wiring
  <2>4. /\ n + 1 \in DOMAIN loaded /\ n + 1 \in 1..Len(loaded)
        /\ InHand.provider = start.providers[n + 1].provider /\ InHand.provider \in Providers
    BY <1>1, <2>1, InHandTyped, StartTyped DEF StartUpSound, LoadingSound
  <2>5. PICK name \in Providers : name = start.providers[n + 1].provider
    BY <2>4
  <2>6. transports' = [transports EXCEPT ![name] = t]
    BY <1>3, <2>1, <2>2, <2>4, <2>5 DEF Transports
  <2>7. /\ transports' \in [Providers -> Wiring \cup {None}]
        /\ transports'[name] = t
        /\ \A p \in Providers : p # name => transports'[p] = transports[p]
    BY <1>1, <2>3, <2>6 DEF StartUpTypeOK
  <2>8. /\ start' = start /\ loaded' = loaded /\ discovered' = discovered
        /\ wired' = n + 1 /\ outcome' = None /\ phase' \in {"wiring", "discovering"}
        /\ phase' = "discovering" <=> start.program = "client"
        /\ registered' = registered /\ owner' = owner /\ definition' = definition
    BY <1>1, <1>3, <2>1 DEF StartUpTypeOK, repositoryVars
  <2>9. discovered \in [Providers -> 0..(n + 1)]
    <3>1. 0..n \subseteq 0..(n + 1)
      OBVIOUS
    <3> QED
      BY <1>1, <2>1, <3>1 DEF StartUpTypeOK
  <2>10. n + 1 \in 0..Len(loaded)
    BY <1>1, <2>4, StartTyped
  <2>11. StartUpTypeOK'
    BY <1>1, <2>7, <2>8, <2>9, <2>10
    DEF StartUpTypeOK, RepositoryTypeOK, ResolverSound
  <2>12. LoadingSound'
    <3>1. /\ Len(loaded) = Len(start.providers) /\ start.program \in {"client", "bare"}
          /\ \A i \in DOMAIN loaded : loaded[i].provider = start.providers[i].provider
      BY <1>1 DEF StartUpSound, LoadingSound
    <3>2. n + 1 > 0
      BY <2>1
    <3>3. None # "ready"
      BY NoneAssumption DEF Outcome
    <3> QED
      BY <2>8, <3>1, <3>2, <3>3 DEF LoadingSound
  <2>13. AskedForAnEntry'
    BY <2>8 DEF AskedForAnEntry
  <2>14. ASSUME NEW p \in Providers
         PROVE  \/ transports'[p] = None /\ NoEntry(p, n + 1)
                \/ transports'[p] # None /\ IsLast(transports'[p].entry, p, n + 1)
    <3>1. CASE p = name
      BY <2>3, <2>5, <2>7, <3>1, OneMoreEntry
    <3>2. CASE p # name
      <4>1. \/ transports[p] = None /\ NoEntry(p, n)
            \/ transports[p] # None /\ IsLast(transports[p].entry, p, n)
        BY <2>1 DEF StartUpSound, WiringSound
      <4> QED
        BY <2>5, <2>7, <3>2, <4>1, OneMoreEntry
    <3> QED
      BY <3>1, <3>2
  <2>15. WiringSound'
    BY <2>8, <2>14 DEF WiringSound, NoEntry, IsLast
  <2>16. ASSUME start.program # "bare" PROVE Met' = Met
    <3>1. start.program = "client"
      BY <1>1, <2>16 DEF StartUpSound, LoadingSound
    <3> QED
      BY <1>1, <2>1, <2>8, <3>1 DEF Met
  <2>17. outcome = None
    BY <1>1 DEF StartUpTypeOK
  <2>18. DiscoverySound'
    BY <2>8, <2>16, <2>17 DEF StartUpSound, DiscoverySound, NoEntry, IsLast
  <2> QED
    BY <1>1, <2>11, <2>12, <2>13, <2>15, <2>18 DEF StartUpSound
<1> QED
  BY <1>2, <1>3 DEF Wire

LEMMA RegisterKeepsTypes ==
  ASSUME RepositoryTypeOK, NEW m \in Manuals, Register(m, TRUE)
  PROVE  /\ RepositoryTypeOK'
         /\ registered' = [registered EXCEPT ![m.provider] = m]
         /\ m.provider \in Providers /\ m # None
<1>1. m.provider \in Providers /\ m # None
  BY RepositoryAssumption
<1> QED
  BY <1>1 DEF Register, RepositoryTypeOK

LEMMA DiscoverKeepsSound ==
  ASSUME StartUpSound, Discover
  PROVE  StartUpSound'
<1>1. /\ StartUpTypeOK /\ ResolverSound' /\ UNCHANGED resolverVars
      /\ phase = "discovering" /\ RepositoryTypeOK
  BY ResolverFrame DEF Discover, StartUpSound, StartUpTypeOK
<1>2. CASE End("raised") /\ UNCHANGED repositoryVars
  BY <1>1, <1>2, EndKeepsSound DEF Outcome
<1>3. CASE /\ \E m \in Manuals : m.provider = loaded[wired].provider /\ Register(m, TRUE)
           /\ discovered' = [discovered EXCEPT ![loaded[wired].provider] = wired]
           /\ phase' = "wiring"
           /\ UNCHANGED <<start, loaded, transports, wired, outcome>>
  <2>1. PICK m \in Manuals : m.provider = loaded[wired].provider /\ Register(m, TRUE)
    BY <1>3
  <2>2. PICK name \in Providers : name = m.provider
    BY <1>1, <2>1, RegisterKeepsTypes
  <2>3. wired \in Nat /\ wired > 0 /\ start.program = "client" /\ wired \in DOMAIN loaded
    BY <1>1, StartTyped DEF StartUpSound, LoadingSound, StartUpTypeOK
  <2>4. PICK n \in Nat : wired = n + 1
    <3>1. wired - 1 \in Nat /\ wired = wired - 1 + 1
      BY <2>3
    <3> QED
      BY <3>1
  <2>5. name = start.providers[n + 1].provider
    BY <2>1, <2>2, <2>3, <2>4 DEF StartUpSound, LoadingSound
  <2>6. /\ RepositoryTypeOK' /\ registered'[name] = m /\ m # None
        /\ \A p \in Providers : p # name => registered'[p] = registered[p]
    BY <1>1, <2>1, <2>2, RegisterKeepsTypes DEF RepositoryTypeOK
  <2>7. /\ start' = start /\ loaded' = loaded /\ transports' = transports
        /\ wired' = wired /\ outcome' = None /\ phase' = "wiring" /\ outcome = None
    BY <1>1, <1>3 DEF StartUpTypeOK
  <2>8. discovered' = [discovered EXCEPT ![name] = n + 1]
    BY <1>3, <2>1, <2>2, <2>4
  <2>9. /\ discovered' \in [Providers -> 0..wired] /\ discovered'[name] = n + 1
        /\ \A p \in Providers : p # name => discovered'[p] = discovered[p]
    <3>1. n + 1 \in 0..wired
      BY <2>4
    <3> QED
      BY <1>1, <2>8, <3>1 DEF StartUpTypeOK
  <2>10. StartUpTypeOK'
    BY <1>1, <2>6, <2>7, <2>9 DEF StartUpTypeOK, ResolverSound
  <2>11. LoadingSound'
    BY <1>1, <2>7, NoneAssumption DEF StartUpSound, LoadingSound, Outcome
  <2>12. AskedForAnEntry'
    BY <2>7 DEF AskedForAnEntry
  <2>13. WiringSound'
    BY <2>7 DEF StartUpSound, WiringSound, NoEntry, IsLast
  <2>14. Met = n /\ Met' = n + 1
    BY <1>1, <2>4, <2>7 DEF Met
  <2>15. ASSUME NEW p \in Providers
         PROVE  \/ registered'[p] = None /\ NoEntry(p, n + 1)
                \/ registered'[p] # None /\ IsLast(discovered'[p], p, n + 1)
    <3>1. CASE p = name
      BY <2>5, <2>6, <2>9, <3>1, OneMoreEntry
    <3>2. CASE p # name
      <4>1. \/ registered[p] = None /\ NoEntry(p, n)
            \/ registered[p] # None /\ IsLast(discovered[p], p, n)
        BY <2>3, <2>7, <2>14 DEF StartUpSound, DiscoverySound
      <4> QED
        BY <2>5, <2>6, <2>9, <3>2, <4>1, OneMoreEntry
    <3> QED
      BY <3>1, <3>2
  <2>16. DiscoverySound'
    BY <2>3, <2>7, <2>14, <2>15 DEF DiscoverySound, NoEntry, IsLast
  <2> QED
    BY <1>1, <2>10, <2>11, <2>12, <2>13, <2>16 DEF StartUpSound
<1> QED
  BY <1>2, <1>3 DEF Discover

LEMMA ServeKeepsSound ==
  ASSUME StartUpSound, Serve
  PROVE  StartUpSound'
<1>1. /\ StartUpTypeOK /\ ResolverSound'
      /\ phase = "wiring" /\ wired = Len(loaded) /\ outcome = None
  BY ResolverFrame DEF Serve, StartUpSound, StartUpTypeOK
<1>2. /\ start' = start /\ phase' = "ended" /\ loaded' = loaded /\ transports' = transports
      /\ wired' = wired /\ discovered' = discovered /\ outcome' = "ready"
      /\ registered' = registered /\ owner' = owner /\ definition' = definition
  BY DEF Serve, End, repositoryVars
<1>3. StartUpTypeOK'
  BY <1>1, <1>2, NoneAssumption DEF StartUpTypeOK, RepositoryTypeOK, ResolverSound, Outcome
<1>4. LoadingSound'
  BY <1>1, <1>2 DEF StartUpSound, LoadingSound
<1>5. AskedForAnEntry'
  BY <1>2 DEF AskedForAnEntry
<1>6. WiringSound'
  BY <1>2 DEF StartUpSound, WiringSound, NoEntry, IsLast
<1>7. Met' = Met
  BY <1>1, <1>2 DEF Met
<1>8. DiscoverySound'
  BY <1>1, <1>2, <1>7 DEF StartUpSound, DiscoverySound, NoEntry, IsLast
<1> QED
  BY <1>1, <1>3, <1>4, <1>5, <1>6, <1>8 DEF StartUpSound

LEMMA StartUpSoundStep == StartUpSound /\ [Next]_vars => StartUpSound'
<1> SUFFICES ASSUME StartUpSound, [Next]_vars PROVE StartUpSound'
  OBVIOUS
<1>1. CASE ResolverNext /\ UNCHANGED <<startVars, repositoryVars>>
  <2>1. stack # <<>>
    BY <1>1 DEF ResolverNext, Literal, Substitute, Return
  <2>2. ~Idle
    BY <2>1 DEF Idle
  <2>3. AskedForAnEntry'
    BY <1>1, <2>2 DEF StartUpSound, AskedForAnEntry, startVars
  <2>4. ResolverSound'
    BY <1>1, ResolverStep DEF StartUpSound
  <2> QED
    BY <1>1, <2>3, <2>4, OthersIdle
<1>2. CASE UNCHANGED <<repositoryVars, resolverVars, startVars>>
  <2>1. ResolverSound'
    BY <1>2, ResolverFrame DEF StartUpSound
  <2>2. AskedForAnEntry'
    BY <1>2 DEF StartUpSound, AskedForAnEntry, Idle, startVars, resolverVars
  <2> QED
    BY <1>2, <2>1, <2>2, OthersIdle
<1>3. CASE Indexing \/ Talking \/ UNCHANGED vars
  BY <1>2, <1>3 DEF Indexing, Talking, vars
<1>4. CASE Starting
  BY <1>1, <1>4, ReadKeepsSound, BeginEntryKeepsSound, FinishEntryKeepsSound,
     LoadedKeepsSound, AskAuthKeepsSound, RefuseAuthKeepsSound, InspectedKeepsSound,
     WireKeepsSound, DiscoverKeepsSound, ServeKeepsSound
  DEF Starting, StartUpNext
<1> QED
  BY <1>3, <1>4 DEF Next

\* Whatever the sources hold, the recursion of _resolve never enters a
\* variable that it is in already, so it is never deeper than there are
\* variables; and the start-up around it is in one of its states
\* (core/variables.py:95-121, client/bootstrap.py:54-97).
THEOREM StartUpTypes == Spec => []StartUpTypeOK
<1>1. StartUpSound => StartUpTypeOK
  BY DEF StartUpSound
<1> QED
  BY <1>1, StartUpSoundInit, StartUpSoundStep, PTL DEF Spec

\* An UndefinedVariableError names a variable that no source defines, and a
\* CyclicVariableError shows a cycle, from the template to where it closes
\* (core/variables.py:110-118).
THEOREM ErrorsAlwaysHaveACause == Spec => []ErrorsHaveACause
<1>1. StartUpSound => ErrorsHaveACause
  BY DEF StartUpSound, ResolverSound
<1> QED
  BY <1>1, StartUpSoundInit, StartUpSoundStep, PTL DEF Spec

\* A client that client_from_config returns has, for every provider of the
\* configuration and no other, the transport of the last entry of its name
\* and the manual that this transport gave, however often a name occurs
\* (client/bootstrap.py:72-97).
THEOREM LastEntryAlwaysServes == Spec => []LastEntryServes
<1>1. StartUpSound => LastEntryServes
  <2> SUFFICES ASSUME StartUpSound, outcome = "ready", NEW p \in Providers
               PROVE  IF EntriesOf(p) = {} THEN transports[p] = None /\ registered[p] = None
                      ELSE /\ transports[p] # None
                           /\ transports[p].entry = LastOf(p)
                           /\ IF start.program = "bare" THEN registered[p] = None
                              ELSE registered[p] # None /\ discovered[p] = LastOf(p)
    BY DEF LastEntryServes
  <2>1. /\ wired \in Nat /\ DOMAIN start.providers = 1..wired
        /\ phase = "ended" /\ Met = wired
    BY StartTyped, NoneAssumption
    DEF StartUpSound, StartUpTypeOK, LoadingSound, Met, Outcome
  <2>2. NoEntry(p, wired) => EntriesOf(p) = {}
    BY <2>1 DEF NoEntry, EntriesOf
  <2>3. ASSUME NEW i, IsLast(i, p, wired)
        PROVE  EntriesOf(p) # {} /\ i = LastOf(p)
    <3>1. i \in EntriesOf(p) /\ \A j \in EntriesOf(p) : i >= j
      BY <2>1, <2>3 DEF IsLast, EntriesOf
    <3>2. EntriesOf(p) \subseteq Nat
      BY <2>1 DEF EntriesOf
    <3>3. \A k \in EntriesOf(p) : (\A j \in EntriesOf(p) : k >= j) => k = i
      BY <3>1, <3>2
    <3> QED
      BY <3>1, <3>3 DEF LastOf
  <2>4. \/ transports[p] = None /\ NoEntry(p, wired)
        \/ transports[p] # None /\ IsLast(transports[p].entry, p, wired)
    BY DEF StartUpSound, WiringSound
  <2>5. IF start.program = "bare" THEN registered[p] = None
        ELSE \/ registered[p] = None /\ NoEntry(p, wired)
             \/ registered[p] # None /\ IsLast(discovered[p], p, wired)
    BY <2>1 DEF StartUpSound, DiscoverySound
  <2> QED
    BY <2>2, <2>3, <2>4, <2>5
<1> QED
  BY <1>1, StartUpSoundInit, StartUpSoundStep, PTL DEF Spec
-----------------------------------------------------------------------------
(* What a configuration means *)

\* The sources of the configuration's resolver are those of the document.
LEMMA LookupIs ==
  ASSUME NEW L \in Seq(Layer), NEW n \in Names, NEW i \in DOMAIN L, L[i][n] # Absent,
         \A j \in 1..(i - 1) : L[j][n] = Absent
  PROVE  Lookup(L, n) = L[i][n]
<1>1. DOMAIN L = 1..Len(L) /\ Len(L) \in Nat
  OBVIOUS
<1>2. i \in Nat /\ \A j \in 1..i : j = i \/ (j \in 1..(i - 1) /\ j # i)
  BY <1>1
<1>3. L[i][n] \in Values(L, n)
  BY <1>2 DEF Values
<1> QED
  BY <1>3, ValuesAre

LEMMA LookupNone ==
  ASSUME NEW L \in Seq(Layer), NEW n \in Names, \A i \in DOMAIN L : L[i][n] = Absent
  PROVE  Lookup(L, n) = Absent
  BY DEF Lookup

LEMMA LayersTyped ==
  ASSUME start \in Start
  PROVE  /\ LoadLayers \in Seq(Layer) /\ Sources \in Seq(Layer)
         /\ start.resolver \in Seq(Layer) /\ <<start.environ>> \in Seq(Layer)
<1>1. start.inline \in Layer /\ start.overrides \in Layer
      /\ start.dotenv \in Layer /\ start.environ \in Layer /\ start.resolver \in Seq(Layer)
  BY DEF Start
<1>2. [n \in Names |-> IF start.overrides[n] # Absent THEN start.overrides[n]
                       ELSE start.inline[n]] \in Layer
  BY <1>1 DEF Layer
<1> QED
  BY <1>1, <1>2 DEF LoadLayers, Sources

LEMMA SourcesAreLayers ==
  ASSUME start \in Start, NEW n \in Names
  PROVE  Lookup(LoadLayers, n) = Lookup(Sources, n)
<1> DEFINE o == start.overrides
           i == start.inline
           d == start.dotenv
           e == start.environ
           m == [k \in Names |-> IF o[k] # Absent THEN o[k] ELSE i[k]]
<1>1. o \in Layer /\ i \in Layer /\ d \in Layer /\ e \in Layer /\ m \in Layer
  BY DEF Start, Layer
<1>2. m[n] = IF o[n] # Absent THEN o[n] ELSE i[n]
  OBVIOUS
<1>3. LoadLayers = <<m, d, e>> /\ Sources = <<o, i, d, e>>
  BY DEF LoadLayers, Sources
<1> HIDE DEF o, i, d, e, m
<1> DEFINE L == <<m, d, e>>
           S == <<o, i, d, e>>
<1>4. L \in Seq(Layer) /\ S \in Seq(Layer)
  BY <1>1
<1>5. /\ DOMAIN L = 1..3 /\ L[1] = m /\ L[2] = d /\ L[3] = e
      /\ DOMAIN S = 1..4 /\ S[1] = o /\ S[2] = i /\ S[3] = d /\ S[4] = e
  OBVIOUS
<1> HIDE DEF L, S
<1>6. CASE o[n] # Absent
  <2>1. Lookup(L, n) = L[1][n]
    BY <1>2, <1>4, <1>5, <1>6, LookupIs
  <2>2. Lookup(S, n) = S[1][n]
    BY <1>4, <1>5, <1>6, LookupIs
  <2> QED
    BY <1>2, <1>3, <1>5, <1>6, <2>1, <2>2 DEF L, S
<1>7. CASE o[n] = Absent /\ i[n] # Absent
  <2>1. Lookup(L, n) = L[1][n]
    BY <1>2, <1>4, <1>5, <1>7, LookupIs
  <2>2. Lookup(S, n) = S[2][n]
    <3>1. \A j \in 1..(2 - 1) : S[j][n] = Absent
      BY <1>5, <1>7
    <3> QED
      BY <1>4, <1>5, <1>7, <3>1, LookupIs
  <2> QED
    BY <1>2, <1>3, <1>5, <1>7, <2>1, <2>2 DEF L, S
<1>8. CASE o[n] = Absent /\ i[n] = Absent /\ d[n] # Absent
  <2>1. Lookup(L, n) = L[2][n]
    <3>1. \A j \in 1..(2 - 1) : L[j][n] = Absent
      BY <1>2, <1>5, <1>8
    <3> QED
      BY <1>4, <1>5, <1>8, <3>1, LookupIs
  <2>2. Lookup(S, n) = S[3][n]
    <3>1. \A j \in 1..(3 - 1) : S[j][n] = Absent
      BY <1>5, <1>8
    <3> QED
      BY <1>4, <1>5, <1>8, <3>1, LookupIs
  <2> QED
    BY <1>3, <1>5, <2>1, <2>2 DEF L, S
<1>9. CASE o[n] = Absent /\ i[n] = Absent /\ d[n] = Absent /\ e[n] # Absent
  <2>1. Lookup(L, n) = L[3][n]
    <3>1. \A j \in 1..(3 - 1) : L[j][n] = Absent
      BY <1>2, <1>5, <1>9
    <3> QED
      BY <1>4, <1>5, <1>9, <3>1, LookupIs
  <2>2. Lookup(S, n) = S[4][n]
    <3>1. \A j \in 1..(4 - 1) : S[j][n] = Absent
      BY <1>5, <1>9
    <3> QED
      BY <1>4, <1>5, <1>9, <3>1, LookupIs
  <2> QED
    BY <1>3, <1>5, <2>1, <2>2 DEF L, S
<1>10. CASE o[n] = Absent /\ i[n] = Absent /\ d[n] = Absent /\ e[n] = Absent
  <2>1. (\A j \in DOMAIN L : L[j][n] = Absent) /\ (\A j \in DOMAIN S : S[j][n] = Absent)
    BY <1>2, <1>5, <1>10
  <2> QED
    BY <1>3, <1>4, <2>1, LookupNone DEF L, S
<1> QED
  BY <1>6, <1>7, <1>8, <1>9, <1>10

\* Templates mean the same on both.
LEMMA SameMeaning ==
  ASSUME start \in Start, NEW t \in Template
  PROVE  /\ Meaningful(LoadLayers, t) <=> Meaningful(Sources, t)
         /\ Meaning(LoadLayers, t) = Meaning(Sources, t)
<1> DEFINE L == LoadLayers
           S == Sources
<1>1. \A n \in Names : Values(L, n) = Values(S, n)
  <2> TAKE n \in Names
  <2>1. L \in Seq(Layer) /\ S \in Seq(Layer) /\ Lookup(L, n) = Lookup(S, n)
    BY LayersTyped, SourcesAreLayers
  <2> HIDE DEF L, S
  <2> QED
    BY <2>1, ValuesAre
<1> HIDE DEF L, S
<1>2. \A n \in Names : Uses(L, n) = Uses(S, n)
  BY <1>1 DEF Uses
<1>3. \A X \in SUBSET Names : UNION {Uses(L, n) : n \in X} = UNION {Uses(S, n) : n \in X}
  BY <1>2
<1>4. WithUses(L) = WithUses(S)
  BY <1>3 DEF WithUses
<1>5. \A u : Needed(L, u) = Needed(S, u)
  BY <1>4 DEF Needed
<1>6. Undefined(L) = Undefined(S) /\ OnCycle(L) = OnCycle(S)
  BY <1>1, <1>5 DEF Undefined, OnCycle
<1>7. Meaningful(L, t) <=> Meaningful(S, t)
  BY <1>5, <1>6 DEF Meaningful
<1>8. WithValues(L) = WithValues(S)
  <2> DEFINE One(V) == CHOOSE value \in V : TRUE
             After(M, text, n) == IF Values(M, n) = {} THEN <<>>
                                  ELSE Put(text, One(Values(M, n)))
  <2>1. \A text : \A n \in Names : After(L, text, n) = After(S, text, n)
    <3> HIDE DEF One
    <3> QED
      BY <1>1
  <2>2. /\ WithValues(L) = [text \in [Names -> Template] |-> [n \in Names |-> After(L, text, n)]]
        /\ WithValues(S) = [text \in [Names -> Template] |-> [n \in Names |-> After(S, text, n)]]
    BY DEF WithValues
  <2> HIDE DEF After
  <2> QED
    BY <2>1, <2>2
<1> QED
  BY <1>7, <1>8 DEF Meaning, L, S

\* Every step of start-up calls the resolver, lets it work, or leaves it alone.
LEMMA EntryTyped ==
  ASSUME StartUpSound, Len(loaded) < Len(start.providers)
  PROVE  /\ Len(loaded) + 1 \in DOMAIN start.providers
         /\ EntryToLoad = start.providers[Len(loaded) + 1] /\ EntryToLoad \in Entry
         /\ EntryToLoad.header \in Template /\ start \in Start
<1>1. Len(loaded) + 1 \in DOMAIN start.providers /\ start \in Start
  BY StartTyped DEF StartUpSound
<1>2. EntryToLoad \in Entry
  BY <1>1, StartTyped DEF StartUpSound, EntryToLoad
<1> QED
  BY <1>1, <1>2 DEF Entry, EntryToLoad

LEMMA ResolverCalled ==
  ASSUME StartUpSound, [Next]_vars
  PROVE  \/ ResolverNext
         \/ \E t \in Template, L \in Seq(Layer) : Resolve(t, L)
         \/ UNCHANGED <<layers, asked, stack>> /\ answer' \in {answer, Absent}
<1>1. CASE UNCHANGED resolverVars
  BY <1>1 DEF resolverVars
<1>2. CASE Forget
  BY <1>2 DEF Forget
<1>3. CASE BeginEntry
  <2>1. CASE Resolve(EntryToLoad.header, LoadLayers)
    BY <1>3, <2>1, EntryTyped, LayersTyped DEF BeginEntry
  <2> QED
    BY <1>1, <1>3, <2>1 DEF BeginEntry
<1>4. CASE AskAuth
  <2>1. InHand.auth.secret \in Template
    BY <1>4, InHandTyped DEF AskAuth, Auth
  <2>2. start.resolver \in Seq(Layer) /\ <<start.environ>> \in Seq(Layer)
    BY StartTyped, LayersTyped DEF StartUpSound
  <2> QED
    BY <1>4, <2>1, <2>2 DEF AskAuth
<1>5. CASE Starting
  BY <1>1, <1>2, <1>3, <1>4, <1>5
  DEF Starting, StartUpNext, Read, FinishEntry, Loaded, RefuseAuth, Inspected, Wire,
      Discover, Serve
<1>6. CASE Indexing \/ Talking \/ UNCHANGED vars
  BY <1>1, <1>6 DEF Indexing, Talking, vars
<1> QED
  BY <1>5, <1>6 DEF Next

LEMMA ExactAlways ==
  ASSUME StartUpSound, ResolverExact, [Next]_vars
  PROVE  ResolverExact'
  BY ResolverCalled, ExactStep, ResolveIsExact, ExactFrame

\* However templates use each other, resolve returns a text exactly for one
\* that has a meaning, and then that meaning; and its errors name what stands
\* in the way (core/variables.py:87-121).
THEOREM TemplatesResolvedByMeaning == Spec => []ResolvedByReference
<1>1. Init => ResolverExact
  BY ExactInit DEF Init, StartUpInit
<1>2. StartUpSound /\ ResolverExact /\ [Next]_vars => ResolverExact'
  BY ExactAlways
<1>3. ResolverExact => ResolvedByReference
  BY DEF ResolverExact
<1> QED
  BY <1>1, <1>2, <1>3, StartUpSoundInit, StartUpSoundStep, PTL DEF Spec
-----------------------------------------------------------------------------
(* What is loaded, and what providers are sent *)

\* An entry that was loaded can be built, and was: its header is what it means.
Built(i) ==
  LET e == start.providers[i]
  IN  /\ Sound(e)
      /\ loaded[i].header = Meaning(Sources, e.header)
      /\ loaded[i].auth = e.auth

\* What a call of resolve that is under way, or answered, is for.
AskedSound ==
  /\ phase = "loading" => Idle \/ /\ asked = EntryToLoad.header
                                  /\ layers = LoadLayers
                                  /\ EntryToLoad.defect # "before"
  /\ phase = "wiring" => Idle \/ /\ wired < Len(loaded)
                                 /\ asked = InHand.auth.secret
                                 /\ layers = start.resolver
  /\ phase = "discovering" => Idle

Whole == start.readable /\ Len(loaded) = Len(start.providers)

\* Nothing comes of a document that has not been loaded as a whole, and one
\* that can be is not refused.
WholeSound ==
  /\ phase = "loading" => start.readable
  /\ phase \in {"inspecting", "wiring", "discovering"} => Whole
  /\ phase = "inspecting" => start.program = "inspect"
  /\ ~Whole => /\ outcome \in {"exit 2", "raised", None}
               /\ \A p \in Providers : transports[p] = None /\ registered[p] = None
  /\ start.program = "validate" /\ phase = "ended" /\ outcome # "exit 0" =>
       ~start.readable \/ \E i \in DOMAIN start.providers : ~Sound(start.providers[i])

\* A transport sends what its entry, or the entry's auth, means.
SentAs(t) ==
  LET e == start.providers[t.entry]
  IN  /\ t.entry \in DOMAIN start.providers
      /\ t.header.by = e.auth.scheme
      /\ t.header.value = IF e.auth.scheme = "none" THEN Meaning(Sources, e.header)
                          ELSE Meaning(start.resolver, e.auth.secret)
      /\ t.header.by = "token" => t.header.value # <<>>

HeadersSound == \A p \in Providers : transports[p] # None => SentAs(transports[p])

ConfigSound ==
  /\ \A i \in DOMAIN loaded : Built(i)
  /\ AskedSound
  /\ WholeSound
  /\ HeadersSound

StartUpExact == StartUpSound /\ ResolverExact /\ ConfigSound

LEMMA ConfigSoundInit == Init => ConfigSound
<1> SUFFICES ASSUME Init PROVE ConfigSound
  OBVIOUS
<1>1. /\ loaded = <<>> /\ phase = "reading" /\ outcome = None
      /\ \A p \in Providers : transports[p] = None /\ registered[p] = None
  BY DEF Init, StartUpInit, RepositoryInit
<1>2. DOMAIN loaded = {}
  BY <1>1
<1> QED
  BY <1>1, <1>2 DEF ConfigSound, AskedSound, WholeSound, HeadersSound

\* The steps that leave what was loaded and the transports as they are.
LEMMA ConfigFrame ==
  ASSUME ConfigSound, UNCHANGED <<start, loaded, transports>>, AskedSound', WholeSound'
  PROVE  ConfigSound'
<1>1. start' = start /\ loaded' = loaded /\ transports' = transports
  OBVIOUS
<1>2. \A i \in DOMAIN loaded : Built(i)'
  BY <1>1 DEF ConfigSound, Built, Sound, Sources
<1>3. HeadersSound'
  BY <1>1 DEF ConfigSound, HeadersSound, SentAs, Sources
<1> QED
  BY <1>1, <1>2, <1>3 DEF ConfigSound

\* An end that is not that of a document loaded as a whole, or of a command
\* that looks at one.
LEMMA RefusalIsConfigSound ==
  ASSUME StartUpExact, UNCHANGED repositoryVars,
         NEW how \in {"exit 2", "raised"}, End(how),
         start.program = "validate" =>
           ~start.readable \/ \E i \in DOMAIN start.providers : ~Sound(start.providers[i])
  PROVE  ConfigSound'
<1>1. /\ start' = start /\ phase' = "ended" /\ loaded' = loaded /\ transports' = transports
      /\ wired' = wired /\ outcome' = how /\ registered' = registered
  BY DEF End, repositoryVars
<1>2. AskedSound'
  BY <1>1 DEF AskedSound
<1>3. WholeSound'
  BY <1>1 DEF StartUpExact, ConfigSound, WholeSound, Whole, Sound, Sources
<1> QED
  BY <1>1, <1>2, <1>3, ConfigFrame DEF StartUpExact

LEMMA RefuseConfigIsSound ==
  ASSUME StartUpExact, UNCHANGED repositoryVars, RefuseConfig,
         start.program = "validate" =>
           ~start.readable \/ \E i \in DOMAIN start.providers : ~Sound(start.providers[i])
  PROVE  ConfigSound'
  BY RefusalIsConfigSound DEF RefuseConfig

LEMMA ReadIsConfigSound ==
  ASSUME StartUpExact, Read
  PROVE  ConfigSound'
<1>1. UNCHANGED repositoryVars /\ UNCHANGED resolverVars /\ phase = "reading"
  BY DEF Read
<1>2. CASE Enter("loading") /\ start.readable
  <2>1. /\ start' = start /\ phase' = "loading" /\ loaded' = loaded
        /\ transports' = transports /\ outcome' = outcome /\ registered' = registered
        /\ stack' = stack /\ answer' = answer
    BY <1>1, <1>2 DEF Enter, repositoryVars, resolverVars
  <2>2. AskedSound'
    BY <1>1, <2>1 DEF AskedSound, Idle, StartUpExact, StartUpSound, AskedForAnEntry
  <2>3. WholeSound'
    BY <1>2, <2>1 DEF StartUpExact, ConfigSound, WholeSound, Whole
  <2> QED
    BY <2>1, <2>2, <2>3, ConfigFrame DEF StartUpExact
<1>3. CASE RefuseConfig /\ ~start.readable
  BY <1>1, <1>3, RefuseConfigIsSound
<1> QED
  BY <1>2, <1>3 DEF Read

LEMMA BeginEntryIsConfigSound ==
  ASSUME StartUpExact, BeginEntry
  PROVE  ConfigSound'
<1>1. /\ phase = "loading" /\ Len(loaded) + 1 \in DOMAIN start.providers
      /\ EntryToLoad = start.providers[Len(loaded) + 1] /\ UNCHANGED repositoryVars
  BY EntryTyped DEF BeginEntry, StartUpExact
<1>2. CASE EntryToLoad.defect = "before" /\ RefuseConfig
  <2>1. ~Sound(start.providers[Len(loaded) + 1])
    BY <1>1, <1>2 DEF Sound
  <2> QED
    BY <1>1, <1>2, <2>1, RefuseConfigIsSound
<1>3. CASE /\ EntryToLoad.defect # "before"
           /\ Resolve(EntryToLoad.header, LoadLayers)
           /\ UNCHANGED startVars
  <2>1. /\ start' = start /\ phase' = "loading" /\ loaded' = loaded /\ wired' = wired
        /\ transports' = transports /\ outcome' = outcome /\ registered' = registered
        /\ asked' = EntryToLoad.header /\ layers' = LoadLayers
    BY <1>1, <1>3 DEF startVars, repositoryVars, Resolve
  <2>2. EntryToLoad' = EntryToLoad /\ LoadLayers' = LoadLayers
    BY <2>1 DEF EntryToLoad, LoadLayers
  <2>3. AskedSound'
    BY <1>3, <2>1, <2>2 DEF AskedSound
  <2>4. WholeSound'
    BY <1>1, <2>1 DEF StartUpExact, ConfigSound, WholeSound, Whole
  <2> QED
    BY <2>1, <2>3, <2>4, ConfigFrame DEF StartUpExact
<1> QED
  BY <1>2, <1>3 DEF BeginEntry

\* The strings of the entry that is built have been resolved.
LEMMA EntryAnswered ==
  ASSUME StartUpExact, phase = "loading", answer # Absent
  PROVE  /\ Len(loaded) < Len(start.providers) /\ stack = <<>>
         /\ answer.kind = "text" <=> Meaningful(Sources, EntryToLoad.header)
         /\ answer.kind = "text" => answer.value = Meaning(Sources, EntryToLoad.header)
         /\ EntryToLoad.defect # "before"
<1>1. ~Idle
  BY DEF Idle
<1>2. /\ Len(loaded) < Len(start.providers)
      /\ asked = EntryToLoad.header /\ layers = LoadLayers /\ EntryToLoad.defect # "before"
  BY <1>1 DEF StartUpExact, StartUpSound, AskedForAnEntry, ConfigSound, AskedSound
<1>3. EntryToLoad.header \in Template /\ start \in Start
  BY <1>2, EntryTyped DEF StartUpExact
<1>4. /\ answer.kind = "text" <=> Meaningful(layers, asked)
      /\ answer.kind = "text" => answer.value = Meaning(layers, asked)
      /\ stack = <<>>
  BY DEF StartUpExact, ResolverExact, ResolvedByReference, ResolverSound
<1> QED
  BY <1>2, <1>3, <1>4, SameMeaning

LEMMA FinishEntryIsConfigSound ==
  ASSUME StartUpExact, FinishEntry
  PROVE  ConfigSound'
<1>1. phase = "loading" /\ answer # Absent /\ UNCHANGED repositoryVars /\ Forget
  BY DEF FinishEntry
<1>2. /\ Len(loaded) + 1 \in DOMAIN start.providers /\ stack = <<>>
      /\ EntryToLoad = start.providers[Len(loaded) + 1]
      /\ answer.kind = "text" <=> Meaningful(Sources, EntryToLoad.header)
      /\ answer.kind = "text" => answer.value = Meaning(Sources, EntryToLoad.header)
  BY <1>1, EntryAnswered, EntryTyped DEF StartUpExact
<1>3. CASE (answer.kind # "text" \/ EntryToLoad.defect = "auth") /\ End("raised")
  <2>1. ~Sound(start.providers[Len(loaded) + 1])
    BY <1>2, <1>3 DEF Sound
  <2> QED
    BY <1>1, <1>2, <1>3, <2>1, RefusalIsConfigSound
<1>4. CASE EntryToLoad.defect = "after" /\ RefuseConfig
  <2>1. ~Sound(start.providers[Len(loaded) + 1])
    BY <1>2, <1>4 DEF Sound
  <2> QED
    BY <1>1, <1>2, <1>4, <2>1, RefuseConfigIsSound
<1>5. CASE /\ answer.kind = "text" /\ EntryToLoad.defect = "none"
           /\ loaded' = Append(loaded, [provider |-> EntryToLoad.provider,
                                        header |-> answer.value, auth |-> EntryToLoad.auth])
           /\ UNCHANGED <<start, phase, transports, wired, discovered, outcome>>
  <2> DEFINE e == [provider |-> EntryToLoad.provider,
                   header |-> answer.value, auth |-> EntryToLoad.auth]
  <2>1. PICK n \in Nat : n = Len(loaded)
    BY StartTyped DEF StartUpExact, StartUpSound
  <2>2. e.header = Meaning(Sources, start.providers[n + 1].header)
        /\ e.auth = start.providers[n + 1].auth /\ Sound(start.providers[n + 1])
    BY <1>2, <1>5, <2>1 DEF Sound
  <2>3. loaded' = Append(loaded, e)
    BY <1>5
  <2> HIDE DEF e
  <2>4. /\ Len(loaded') = n + 1 /\ DOMAIN loaded' = 1..(n + 1) /\ loaded'[n + 1] = e
        /\ DOMAIN loaded = 1..n /\ \A i \in 1..n : loaded'[i] = loaded[i]
    <3>1. loaded \in Seq([provider : Providers, header : Template, auth : Auth])
      BY StartTyped DEF StartUpExact, StartUpSound
    <3>2. e \in [provider : Providers, header : Template, auth : Auth]
      <4>1. EntryToLoad \in Entry
        BY <1>1, EntryAnswered, EntryTyped DEF StartUpExact
      <4>2. answer.value \in Template
        BY <1>1, <1>5, ResolverAssumption
        DEF StartUpExact, StartUpSound, ResolverSound, ResolverTypeOK, Answer
      <4> QED
        BY <4>1, <4>2 DEF e, Entry
    <3> QED
      BY <2>1, <2>3, <3>1, <3>2, AppendProperties
  <2>5. \A i \in 1..(n + 1) : i \in 1..n \/ i = n + 1
    BY <2>1
  <2>6. /\ start' = start /\ phase' = "loading" /\ transports' = transports
        /\ outcome' = outcome /\ registered' = registered /\ answer' = Absent /\ stack' = <<>>
    BY <1>1, <1>2, <1>5 DEF repositoryVars, Forget
  <2>7. ASSUME NEW i \in 1..(n + 1) PROVE Built(i)'
    <3>1. CASE i \in 1..n
      <4>1. Built(i) /\ loaded'[i] = loaded[i]
        BY <2>4, <3>1 DEF StartUpExact, ConfigSound
      <4> QED
        BY <2>6, <4>1 DEF Built, Sound, Sources
    <3>2. CASE i = n + 1
      BY <2>2, <2>4, <2>6, <3>2 DEF Built, Sound, Sources
    <3> QED
      BY <2>5, <3>1, <3>2
  <2>8. AskedSound'
    BY <2>6 DEF AskedSound, Idle
  <2>9. ~Whole
    <3>1. Len(loaded) # Len(start.providers)
      BY <1>1, EntryAnswered, <2>1, StartTyped DEF StartUpExact, StartUpSound
    <3> QED
      BY <3>1 DEF Whole
  <2>10. WholeSound'
    BY <1>1, <2>6, <2>9 DEF StartUpExact, ConfigSound, WholeSound
  <2>11. HeadersSound'
    BY <2>6 DEF StartUpExact, ConfigSound, HeadersSound, SentAs, Sources
  <2> QED
    BY <2>4, <2>7, <2>8, <2>10, <2>11 DEF ConfigSound
<1> QED
  BY <1>1, <1>3, <1>4, <1>5 DEF FinishEntry

LEMMA LoadedIsConfigSound ==
  ASSUME StartUpExact, Loaded
  PROVE  ConfigSound'
<1>1. /\ phase = "loading" /\ Idle /\ Whole /\ UNCHANGED repositoryVars
      /\ UNCHANGED resolverVars /\ outcome = None
  BY DEF Loaded, StartUpExact, ConfigSound, WholeSound, Whole, StartUpSound, StartUpTypeOK
<1>2. start.program \in {"client", "bare", "validate", "inspect"}
  BY StartTyped DEF StartUpExact, StartUpSound, Start
<1>3. CASE End("exit 0") /\ start.program = "validate"
  <2>1. /\ start' = start /\ phase' = "ended" /\ loaded' = loaded /\ transports' = transports
        /\ outcome' = "exit 0" /\ registered' = registered
    BY <1>1, <1>3 DEF End, repositoryVars
  <2>2. AskedSound'
    BY <2>1 DEF AskedSound
  <2>3. WholeSound'
    BY <1>1, <2>1 DEF WholeSound, Whole
  <2> QED
    BY <2>1, <2>2, <2>3, ConfigFrame DEF StartUpExact
<1>4. CASE RefuseConfig /\ start.program = "inspect"
  BY <1>1, <1>4, RefuseConfigIsSound
<1>5. ASSUME NEW p \in {"inspecting", "wiring"}, Enter(p),
             p = "inspecting" => start.program = "inspect"
      PROVE  ConfigSound'
  <2>1. /\ start' = start /\ phase' = p /\ loaded' = loaded /\ transports' = transports
        /\ outcome' = outcome /\ registered' = registered
        /\ stack' = stack /\ answer' = answer
    BY <1>1, <1>5 DEF Enter, repositoryVars, resolverVars
  <2>2. AskedSound'
    BY <1>1, <2>1 DEF AskedSound, Idle
  <2>3. WholeSound'
    BY <1>1, <1>5, <2>1 DEF WholeSound, Whole
  <2> QED
    BY <2>1, <2>2, <2>3, ConfigFrame DEF StartUpExact
<1> QED
  BY <1>2, <1>3, <1>4, <1>5 DEF Loaded

\* Credentials are only looked at by a client or by inspect.
LEMMA NotValidating ==
  ASSUME StartUpExact, InHandExists \/ phase \in {"wiring", "discovering"}
  PROVE  start.program # "validate" /\ Whole
  BY DEF StartUpExact, ConfigSound, WholeSound, InHandExists, StartUpSound, LoadingSound

LEMMA AskAuthIsConfigSound ==
  ASSUME StartUpExact, AskAuth
  PROVE  ConfigSound'
<1>1. InHandExists
  BY DEF AskAuth
<1>2. /\ start' = start /\ phase' = phase /\ loaded' = loaded /\ wired' = wired
      /\ transports' = transports /\ outcome' = outcome /\ registered' = registered
      /\ asked' = InHand.auth.secret
      /\ layers' = IF phase = "inspecting" THEN <<start.environ>> ELSE start.resolver
  BY DEF AskAuth, startVars, repositoryVars, Resolve
<1>3. InHand' = InHand
  BY <1>2 DEF InHand, Wanted
<1>4. AskedSound'
  BY <1>1, <1>2, <1>3 DEF AskedSound, InHandExists
<1>5. WholeSound'
  BY <1>2 DEF StartUpExact, ConfigSound, WholeSound, Whole, Sound, Sources
<1> QED
  BY <1>2, <1>4, <1>5, ConfigFrame DEF StartUpExact

LEMMA RefuseAuthIsConfigSound ==
  ASSUME StartUpExact, RefuseAuth
  PROVE  ConfigSound'
<1>1. start.program # "validate"
  BY NotValidating DEF RefuseAuth
<1> QED
  BY <1>1, RefusalIsConfigSound DEF RefuseAuth

\* The end of a command or of start-up that looked at all the entries.
LEMMA SuccessIsConfigSound ==
  ASSUME StartUpExact, UNCHANGED repositoryVars, NEW how \in {"exit 0", "ready"}, End(how),
         Whole, start.program # "validate"
  PROVE  ConfigSound'
<1>1. /\ start' = start /\ phase' = "ended" /\ loaded' = loaded /\ transports' = transports
      /\ wired' = wired /\ outcome' = how /\ registered' = registered
  BY DEF End, repositoryVars
<1>2. AskedSound'
  BY <1>1 DEF AskedSound
<1>3. WholeSound'
  BY <1>1 DEF WholeSound, Whole
<1> QED
  BY <1>1, <1>2, <1>3, ConfigFrame DEF StartUpExact

LEMMA InspectedIsConfigSound ==
  ASSUME StartUpExact, Inspected
  PROVE  ConfigSound'
<1>1. start.program # "validate" /\ Whole
  BY NotValidating DEF Inspected, Authenticated
<1> QED
  BY <1>1, SuccessIsConfigSound DEF Inspected

LEMMA ServeIsConfigSound ==
  ASSUME StartUpExact, Serve
  PROVE  ConfigSound'
<1>1. start.program # "validate" /\ Whole
  BY NotValidating DEF Serve
<1> QED
  BY <1>1, SuccessIsConfigSound DEF Serve

\* The header that the entry in hand is sent with is the one it means.
LEMMA PreparedAsMeant ==
  ASSUME StartUpExact, phase = "wiring", Authenticated
  PROVE  /\ stack = <<>>
         /\ wired + 1 \in DOMAIN start.providers
         /\ SentAs([header |-> PreparedHeader, entry |-> wired + 1])
<1> DEFINE e == start.providers[wired + 1]
           t == [header |-> PreparedHeader, entry |-> wired + 1]
<1>1. /\ wired + 1 \in DOMAIN loaded /\ InHand = loaded[wired + 1]
      /\ wired + 1 \in DOMAIN start.providers
  <2>1. wired + 1 \in DOMAIN loaded /\ InHand = loaded[wired + 1]
    BY InHandTyped DEF StartUpExact, Authenticated
  <2>2. Len(loaded) = Len(start.providers)
    BY DEF StartUpExact, StartUpSound, LoadingSound
  <2> QED
    BY <2>1, <2>2, StartTyped DEF StartUpExact, StartUpSound
<1>2. InHand.header = Meaning(Sources, e.header) /\ InHand.auth = e.auth
  BY <1>1 DEF StartUpExact, ConfigSound, Built
<1>3. t.entry = wired + 1 /\ t.header = PreparedHeader
  OBVIOUS
<1> HIDE DEF t
<1>4. CASE e.auth.scheme = "none"
  <2>1. PreparedHeader.by = "none" /\ PreparedHeader.value = InHand.header
    BY <1>2, <1>4 DEF PreparedHeader
  <2>2. SentAs(t)
    BY <1>1, <1>2, <1>3, <1>4, <2>1 DEF SentAs
  <2>3. stack = <<>>
    BY <1>2, <1>4 DEF Authenticated, Idle
  <2> QED
    BY <1>1, <2>2, <2>3 DEF t
<1>5. CASE e.auth.scheme # "none"
  <2>1. answer # Absent /\ ~Refused /\ ~Idle
    BY <1>2, <1>5 DEF Authenticated, Idle
  <2>2. answer.kind = "text" /\ (e.auth.scheme = "token" => answer.value # <<>>)
    BY <1>2, <2>1 DEF Refused
  <2>3. answer.value = Meaning(start.resolver, e.auth.secret) /\ stack = <<>>
    BY <1>2, <2>1, <2>2
    DEF StartUpExact, ConfigSound, AskedSound, ResolverExact, ResolvedByReference,
        ResolverSound
  <2>4. PreparedHeader.by = e.auth.scheme /\ PreparedHeader.value = answer.value
    BY <1>2, <1>5 DEF PreparedHeader
  <2>5. SentAs(t)
    BY <1>1, <1>3, <1>5, <2>2, <2>3, <2>4 DEF SentAs
  <2> QED
    BY <1>1, <2>3, <2>5 DEF t
<1> QED
  BY <1>4, <1>5

LEMMA WireIsConfigSound ==
  ASSUME StartUpExact, Wire
  PROVE  ConfigSound'
<1>1. /\ phase = "wiring" /\ Authenticated /\ InHandExists /\ UNCHANGED repositoryVars
      /\ Whole /\ start.program # "validate" /\ Forget
  BY NotValidating DEF Wire, Authenticated
<1>2. CASE End("raised")
  BY <1>1, <1>2, RefusalIsConfigSound
<1>3. CASE /\ transports' = Transports(InHand.provider,
                                       [header |-> PreparedHeader, entry |-> wired + 1])
           /\ wired' = wired + 1
           /\ phase' = IF start.program = "client" THEN "discovering" ELSE "wiring"
           /\ UNCHANGED <<start, loaded, discovered, outcome>>
  <2>1. PICK t : t = [header |-> PreparedHeader, entry |-> wired + 1]
    OBVIOUS
  <2>2. SentAs(t) /\ stack = <<>>
    BY <1>1, <2>1, PreparedAsMeant
  <2>3. transports' = [transports EXCEPT ![InHand.provider] = t]
    BY <1>3, <2>1 DEF Transports
  <2>4. /\ start' = start /\ loaded' = loaded /\ phase' \in {"wiring", "discovering"}
        /\ outcome' = None /\ answer' = Absent /\ stack' = <<>>
    BY <1>1, <1>3, <2>2 DEF Forget, StartUpExact, StartUpSound, StartUpTypeOK
  <2>5. \A i \in DOMAIN loaded' : Built(i)'
    BY <2>4 DEF StartUpExact, ConfigSound, Built, Sound, Sources
  <2>6. AskedSound'
    BY <2>4 DEF AskedSound, Idle
  <2>7. WholeSound'
    BY <1>1, <2>4 DEF WholeSound, Whole
  <2>8. HeadersSound'
    <3>1. ASSUME NEW p \in Providers, transports'[p] # None PROVE SentAs(transports'[p])
      <4>1. transports'[p] = t \/ transports'[p] = transports[p]
        BY <2>3 DEF StartUpExact, StartUpSound, StartUpTypeOK
      <4> QED
        BY <2>2, <3>1, <4>1 DEF StartUpExact, ConfigSound, HeadersSound
    <3>2. ASSUME NEW w, SentAs(w) PROVE SentAs(w)'
      BY <2>4, <3>2 DEF SentAs, Sources
    <3> QED
      BY <2>4, <3>1 DEF HeadersSound, SentAs, Sources
  <2> QED
    BY <2>5, <2>6, <2>7, <2>8 DEF ConfigSound
<1> QED
  BY <1>1, <1>2, <1>3 DEF Wire

LEMMA DiscoverIsConfigSound ==
  ASSUME StartUpExact, Discover
  PROVE  ConfigSound'
<1>1. /\ phase = "discovering" /\ UNCHANGED resolverVars /\ Idle
      /\ Whole /\ start.program # "validate"
  BY NotValidating DEF Discover, StartUpExact, ConfigSound, AskedSound
<1>2. CASE End("raised") /\ UNCHANGED repositoryVars
  BY <1>1, <1>2, RefusalIsConfigSound
<1>3. CASE phase' = "wiring" /\ UNCHANGED <<start, loaded, transports, wired, outcome>>
  <2>1. /\ start' = start /\ loaded' = loaded /\ phase' = "wiring" /\ transports' = transports
        /\ outcome' = outcome /\ stack' = stack /\ answer' = answer
    BY <1>1, <1>3 DEF resolverVars
  <2>2. AskedSound'
    BY <1>1, <2>1 DEF AskedSound, Idle
  <2>3. WholeSound'
    BY <1>1, <2>1 DEF WholeSound, Whole
  <2> QED
    BY <2>1, <2>2, <2>3, ConfigFrame DEF StartUpExact
<1> QED
  BY <1>2, <1>3 DEF Discover

\* The resolver goes on with what it was asked, or nothing that start-up looks
\* at changes.
LEMMA ElsewhereIsConfigSound ==
  ASSUME StartUpExact, UNCHANGED <<startVars, repositoryVars, layers, asked>>,
         ResolverNext \/ UNCHANGED resolverVars
  PROVE  ConfigSound'
<1>1. /\ start' = start /\ phase' = phase /\ loaded' = loaded /\ transports' = transports
      /\ wired' = wired /\ outcome' = outcome /\ registered' = registered
      /\ layers' = layers /\ asked' = asked
  BY DEF startVars, repositoryVars
<1>2. Idle => Idle'
  <2>1. CASE ResolverNext
    BY <2>1 DEF ResolverNext, Literal, Substitute, Return, Idle
  <2>2. CASE UNCHANGED resolverVars
    BY <2>2 DEF resolverVars, Idle
  <2> QED
    BY <2>1, <2>2
<1>3. EntryToLoad' = EntryToLoad /\ LoadLayers' = LoadLayers /\ InHand' = InHand
  BY <1>1 DEF EntryToLoad, LoadLayers, InHand, Wanted
<1>4. AskedSound'
  BY <1>1, <1>2, <1>3 DEF StartUpExact, ConfigSound, AskedSound
<1>5. WholeSound'
  BY <1>1 DEF StartUpExact, ConfigSound, WholeSound, Whole, Sound, Sources
<1> QED
  BY <1>1, <1>4, <1>5, ConfigFrame DEF StartUpExact

LEMMA StartUpExactStep == StartUpExact /\ [Next]_vars => StartUpExact'
<1> SUFFICES ASSUME StartUpExact, [Next]_vars PROVE StartUpExact'
  OBVIOUS
<1>1. CASE ResolverNext /\ UNCHANGED <<startVars, repositoryVars>>
  <2>1. layers' = layers /\ asked' = asked
    BY <1>1 DEF ResolverNext, Literal, Substitute, Return, Answered
  <2> QED
    BY <1>1, <2>1, ElsewhereIsConfigSound, StartUpSoundStep, ExactAlways DEF StartUpExact
<1>2. CASE UNCHANGED <<repositoryVars, resolverVars, startVars>>
  <2>1. ConfigSound'
    BY <1>2, ElsewhereIsConfigSound DEF resolverVars
  <2> QED
    BY <2>1, StartUpSoundStep, ExactAlways DEF StartUpExact
<1>3. CASE Indexing \/ Talking \/ UNCHANGED vars
  BY <1>2, <1>3 DEF Indexing, Talking, vars
<1>4. CASE Starting
  <2>1. \/ ConfigSound'
        \/ ResolverNext /\ UNCHANGED <<startVars, repositoryVars>>
    BY <1>4, ReadIsConfigSound, BeginEntryIsConfigSound, FinishEntryIsConfigSound,
       LoadedIsConfigSound, AskAuthIsConfigSound, RefuseAuthIsConfigSound,
       InspectedIsConfigSound, WireIsConfigSound, DiscoverIsConfigSound, ServeIsConfigSound
    DEF Starting, StartUpNext
  <2> QED
    BY <1>1, <2>1, StartUpSoundStep, ExactAlways DEF StartUpExact
<1> QED
  BY <1>3, <1>4 DEF Next

LEMMA StartUpExactInit == Init => StartUpExact
  BY StartUpSoundInit, ExactInit, ConfigSoundInit DEF StartUpExact, Init, StartUpInit

\* Whatever is wrong with a configuration, and wherever in it, nothing comes of
\* the rest: validate exits with 0 exactly for a document whose entries can all
\* be built, and no other one has a provider wired, registered or shown
\* (core/config.py:100-215, client/bootstrap.py:72-97, __main__.py:49-99).
THEOREM LoadedAsAWholeAlways == Spec => []LoadedAsAWhole
<1>1. StartUpExact => LoadedAsAWhole
  <2> SUFFICES ASSUME StartUpExact PROVE LoadedAsAWhole
    OBVIOUS
  <2> DEFINE sound == start.readable /\ \A i \in DOMAIN start.providers : Sound(start.providers[i])
  <2>1. Whole => sound
    <3>1. ASSUME Whole PROVE DOMAIN start.providers = DOMAIN loaded
      BY <3>1, StartTyped DEF Whole, StartUpExact, StartUpSound
    <3> QED
      BY <3>1 DEF Whole, StartUpExact, ConfigSound, Built
  <2>2. outcome = "exit 0" => Whole
    BY NoneAssumption DEF StartUpExact, ConfigSound, WholeSound, Outcome
  <2>3. start.program = "validate" /\ phase = "ended" => (outcome = "exit 0" <=> sound)
    BY <2>1, <2>2 DEF StartUpExact, ConfigSound, WholeSound
  <2>4. ~sound => /\ outcome \in {"exit 2", "raised", None}
                  /\ \A p \in Providers : transports[p] = None /\ registered[p] = None
    BY <2>1 DEF StartUpExact, ConfigSound, WholeSound
  <2> QED
    BY <2>3, <2>4 DEF LoadedAsAWhole
<1> QED
  BY <1>1, StartUpExactInit, StartUpExactStep, PTL DEF Spec

\* A client sends to each provider the header that the last entry of its name
\* means on the document's sources, or the credentials that this entry's auth
\* means on the client's, and no empty token (client/bootstrap.py:75-79,
\* core/auth.py:35-88).
THEOREM CallsAlwaysReachTheirProvider == Spec => []CallsReachTheirProvider
<1>1. StartUpExact /\ LastEntryServes => CallsReachTheirProvider
  <2> SUFFICES ASSUME StartUpExact, LastEntryServes, outcome = "ready",
                      NEW p \in {p \in Providers : EntriesOf(p) # {}}
               PROVE  LET e == start.providers[LastOf(p)]
                          sent == transports[p].header
                      IN /\ sent.by = e.auth.scheme
                         /\ sent.value = IF e.auth.scheme = "none"
                                         THEN Meaning(Sources, e.header)
                                         ELSE Meaning(start.resolver, e.auth.secret)
                         /\ sent.by = "token" => sent.value # <<>>
    BY DEF CallsReachTheirProvider
  <2>1. transports[p] # None /\ transports[p].entry = LastOf(p)
    BY DEF LastEntryServes
  <2>2. SentAs(transports[p])
    BY <2>1 DEF StartUpExact, ConfigSound, HeadersSound
  <2> QED
    BY <2>1, <2>2 DEF SentAs
<1> QED
  BY <1>1, StartUpExactInit, StartUpExactStep, LastEntryAlwaysServes, PTL DEF Spec
-----------------------------------------------------------------------------
(* The conversation *)

\* What add leaves by the time it calls the hook, which KeepsNewest claims of
\* the moments without a hook.
AlreadyCut ==
  /\ added = evicted \o turns
  /\ TurnTokens(turns) <= TokenBudget
  /\ \A n \in 0..(Len(evicted) - 1) :
       TotalOf([i \in 1..(Len(added) - n) |-> added[i + n].size]) > TokenBudget

\* It is inductive with a bound on the hooks: none is under way but those that
\* the turns so far have called.
HistorySound ==
  /\ HistoryTypeOK
  /\ hooks <= Len(added)
  /\ AlreadyCut

LEMMA SuffixProperties ==
  ASSUME NEW S, NEW s \in Seq(S), NEW n \in 0..Len(s)
  PROVE  /\ Suffix(s, n) \in Seq(S)
         /\ Len(Suffix(s, n)) = Len(s) - n
         /\ \A i \in 1..(Len(s) - n) : Suffix(s, n)[i] = s[i + n]
         /\ SubSeq(s, 1, n) \in Seq(S)
         /\ Len(SubSeq(s, 1, n)) = n
         /\ SubSeq(s, 1, n) \o Suffix(s, n) = s
<1>1. PICK l \in Nat : l = Len(s)
  OBVIOUS
<1>2. /\ SubSeq(s, 1, n) \in Seq(S)
      /\ Len(SubSeq(s, 1, n)) = n
      /\ \A i \in 1..n : SubSeq(s, 1, n)[i] = s[i]
  OBVIOUS
<1>3. /\ SubSeq(s, n + 1, l) \in Seq(S)
      /\ Len(SubSeq(s, n + 1, l)) = l - n
      /\ \A i \in 1..(l - n) : SubSeq(s, n + 1, l)[i] = s[i + n]
  BY <1>1
<1>4. SubSeq(s, 1, n) \o SubSeq(s, n + 1, l) = s
  <2>1. SubSeq(s, 1, n) \o SubSeq(s, n + 1, l) = SubSeq(s, 1, l)
    <3>1. 1 \in 1..(Len(s) + 1) /\ n \in (1 - 1)..Len(s) /\ l \in n..Len(s)
      BY <1>1
    <3> QED
      BY <3>1, ConcatAdjacentSubSeq
  <2> QED
    BY <1>1, <2>1, SubSeqFull
<1> QED
  BY <1>1, <1>2, <1>3, <1>4 DEF Suffix

LEMMA SuffixOfAppend ==
  ASSUME NEW S, NEW s \in Seq(S), NEW x \in S, NEW n \in 0..Len(s)
  PROVE  Suffix(Append(s, x), n) = Append(Suffix(s, n), x)
<1>1. PICK l \in Nat : l = Len(s)
  OBVIOUS
<1>2. PICK u \in Seq(S) : /\ u = Append(s, x) /\ Len(u) = l + 1
                          /\ u[l + 1] = x /\ \A i \in 1..l : u[i] = s[i]
  <2>1. /\ Append(s, x) \in Seq(S) /\ Len(Append(s, x)) = Len(s) + 1
        /\ Append(s, x)[Len(s) + 1] = x /\ \A i \in 1..Len(s) : Append(s, x)[i] = s[i]
    BY AppendProperties
  <2> QED
    BY <1>1, <2>1
<1>3. n \in 0..l /\ n \in 0..(l + 1)
  BY <1>1
<1>4. PICK a \in Seq(S) : a = Suffix(u, n)
  BY <1>2, <1>3, SuffixProperties
<1>5. PICK b \in Seq(S) : b = Suffix(s, n)
  BY SuffixProperties
<1>6. Len(a) = l + 1 - n /\ \A i \in 1..(l + 1 - n) : a[i] = u[i + n]
  <2>1. Len(a) = Len(u) - n /\ \A i \in 1..(Len(u) - n) : a[i] = u[i + n]
    <3>1. n \in 0..Len(u)
      BY <1>2, <1>3
    <3> QED
      BY <1>2, <1>4, <3>1, SuffixProperties
  <2> QED
    BY <1>2, <2>1
<1>7. Len(b) = l - n /\ \A i \in 1..(l - n) : b[i] = s[i + n]
  BY <1>1, <1>5, SuffixProperties
<1>8. /\ Append(b, x) \in Seq(S) /\ Len(Append(b, x)) = l - n + 1
      /\ Append(b, x)[l - n + 1] = x /\ \A i \in 1..(l - n) : Append(b, x)[i] = b[i]
  <2>1. PICK k \in Nat : k = Len(b) /\ k = l - n
    BY <1>7
  <2>2. /\ Append(b, x) \in Seq(S) /\ Len(Append(b, x)) = k + 1
        /\ Append(b, x)[k + 1] = x /\ \A i \in 1..k : Append(b, x)[i] = b[i]
    <3>1. /\ Append(b, x) \in Seq(S) /\ Len(Append(b, x)) = Len(b) + 1
          /\ Append(b, x)[Len(b) + 1] = x /\ \A i \in 1..Len(b) : Append(b, x)[i] = b[i]
      BY <1>5, AppendProperties
    <3> QED
      BY <2>1, <3>1
  <2> QED
    BY <2>1, <2>2
<1>9. ASSUME NEW i \in 1..(l + 1 - n) PROVE a[i] = Append(b, x)[i]
  <2>1. CASE i = l - n + 1
    <3>1. i + n = l + 1
      BY <1>3, <2>1
    <3> QED
      BY <1>2, <1>6, <1>8, <2>1, <3>1
  <2>2. CASE i \in 1..(l - n)
    <3>1. i + n \in 1..l
      BY <1>3, <2>2
    <3> QED
      BY <1>2, <1>6, <1>7, <1>8, <2>2, <3>1
  <2>3. i = l - n + 1 \/ i \in 1..(l - n)
    BY <1>3
  <2> QED
    BY <2>1, <2>2, <2>3
<1>10. Len(a) = Len(Append(b, x))
  BY <1>3, <1>6, <1>8
<1>11. a = Append(b, x)
  BY <1>4, <1>6, <1>8, <1>9, <1>10, SeqEqual
<1> QED
  BY <1>2, <1>4, <1>5, <1>11

LEMMA SuffixOfConcat ==
  ASSUME NEW S, NEW s \in Seq(S), NEW t \in Seq(S), NEW n \in 0..Len(t)
  PROVE  Suffix(s \o t, Len(s) + n) = Suffix(t, n)
<1>1. PICK k \in Nat, l \in Nat : k = Len(s) /\ l = Len(t)
  OBVIOUS
<1>2. /\ s \o t \in Seq(S) /\ Len(s \o t) = k + l
      /\ \A i \in 1..l : (s \o t)[k + i] = t[i]
  BY <1>1
<1>3. n \in 0..l /\ k + n \in 0..(k + l)
  BY <1>1
<1>4. PICK a \in Seq(S) : a = Suffix(s \o t, k + n)
  BY <1>2, <1>3, SuffixProperties
<1>5. PICK b \in Seq(S) : b = Suffix(t, n)
  BY SuffixProperties
<1>6. Len(a) = l - n /\ \A i \in 1..(l - n) : a[i] = (s \o t)[i + (k + n)]
  <2>1. k + l - (k + n) = l - n
    BY <1>3
  <2>2. PICK u \in Seq(S) : u = s \o t /\ Len(u) = k + l
    BY <1>2
  <2>3. PICK d \in 0..Len(u) : d = k + n
    BY <1>3, <2>2
  <2>4. Len(a) = Len(u) - d /\ \A i \in 1..(Len(u) - d) : a[i] = u[i + d]
    BY <1>4, <2>2, <2>3, SuffixProperties
  <2> QED
    BY <2>1, <2>2, <2>3, <2>4
<1>7. Len(b) = l - n /\ \A i \in 1..(l - n) : b[i] = t[i + n]
  BY <1>1, <1>5, SuffixProperties
<1>8. ASSUME NEW i \in 1..(l - n) PROVE a[i] = b[i]
  <2>1. i + n \in 1..l /\ i + (k + n) = k + (i + n)
    BY <1>3
  <2> QED
    BY <1>2, <1>6, <1>7, <2>1
<1> QED
  BY <1>1, <1>4, <1>5, <1>6, <1>7, <1>8, SeqEqual

\* What turns cost: the turns are charged one by one.
LEMMA TokensProperties ==
  ASSUME NEW s \in Seq(Turn)
  PROVE  /\ TurnTokens(s) \in Nat
         /\ \A t \in Turn : TurnTokens(Append(s, t)) = TurnTokens(s) + t.size
<1> DEFINE sizes == [i \in DOMAIN s |-> s[i].size]
<1>1. PICK l \in Nat : l = Len(s) /\ DOMAIN s = 1..l
  OBVIOUS
<1>2. \A t \in Turn : t.size \in Nat /\ t.size \in Int
  <2>1. \A t \in Turn : t.size \in TurnSizes
    BY DEF Turn
  <2>2. TurnSizes \subseteq Nat
    BY HistoryAssumption
  <2>3. \A k \in Nat : k \in Int
    OBVIOUS
  <2> QED
    BY <2>1, <2>2, <2>3
<1>3. sizes \in Seq(Nat) /\ sizes \in Seq(Int) /\ Len(sizes) = l
  <2>1. \A i \in 1..l : s[i] \in Turn
    BY <1>1
  <2>2. \A i \in 1..l : s[i].size \in Nat
    BY <1>2, <2>1
  <2> QED
    BY <1>1, <2>2
<1>4. ASSUME NEW t \in Turn
      PROVE  [i \in DOMAIN Append(s, t) |-> Append(s, t)[i].size] = Append(sizes, t.size)
  <2>1. /\ DOMAIN Append(s, t) = 1..(l + 1) /\ Append(s, t)[l + 1] = t
        /\ \A i \in 1..l : Append(s, t)[i] = s[i]
    BY <1>1
  <2>2. /\ DOMAIN Append(sizes, t.size) = 1..(l + 1) /\ Append(sizes, t.size)[l + 1] = t.size
        /\ \A i \in 1..l : Append(sizes, t.size)[i] = sizes[i]
    BY <1>2, <1>3
  <2>3. \A i \in 1..l : sizes[i] = s[i].size
    BY <1>1
  <2>4. \A i \in 1..(l + 1) : i \in 1..l \/ i = l + 1
    OBVIOUS
  <2>5. PICK a : a = Append(s, t)
    OBVIOUS
  <2>6. PICK b : b = Append(sizes, t.size) /\ b = [i \in 1..(l + 1) |-> b[i]]
    <3>1. PICK b \in Seq(Int) : b = Append(sizes, t.size)
      BY <1>2, <1>3, AppendProperties
    <3>2. b = [i \in DOMAIN b |-> b[i]]
      OBVIOUS
    <3> QED
      BY <2>2, <3>1, <3>2
  <2> HIDE DEF sizes
  <2>7. \A i \in 1..(l + 1) : a[i].size = b[i]
    BY <2>1, <2>2, <2>3, <2>4, <2>5, <2>6
  <2> QED
    BY <2>1, <2>5, <2>6, <2>7
<1> HIDE DEF sizes
<1>5. TotalOf(sizes) \in Nat /\ TurnTokens(s) = TotalOf(sizes)
  BY <1>3, TotalOfNaturals DEF TurnTokens, sizes
<1>6. ASSUME NEW t \in Turn PROVE TurnTokens(Append(s, t)) = TurnTokens(s) + t.size
  BY <1>2, <1>3, <1>4, <1>5, TotalAppend DEF TurnTokens
<1> QED
  BY <1>5, <1>6

LEMMA NoTurnsNoTokens == TurnTokens(<<>>) = 0
<1>1. [i \in DOMAIN <<>> |-> <<>>[i].size] = <<>>
  OBVIOUS
<1> QED
  BY <1>1, TotalEmpty DEF TurnTokens

\* _truncate stops as soon as the rest fits, at the latest when nothing is left.
LEMMA DroppedProperties ==
  ASSUME NEW s \in Seq(Turn)
  PROVE  /\ Dropped(s) \in 0..Len(s)
         /\ TurnTokens(Suffix(s, Dropped(s))) <= TokenBudget
         /\ \A m \in 0..(Dropped(s) - 1) : TurnTokens(Suffix(s, m)) > TokenBudget
<1>1. PICK l \in Nat : l = Len(s)
  OBVIOUS
<1> DEFINE cost(n) == TurnTokens(Suffix(s, n))
           T == {n \in 0..l : cost(n) <= TokenBudget}
           Fits(n) == /\ cost(n) <= TokenBudget \/ n = l
                      /\ \A m \in 0..(n - 1) : cost(m) > TokenBudget
<1>2. TokenBudget \in Nat
  BY HistoryAssumption
<1>3. \A n \in 0..l : cost(n) \in Nat
  BY <1>1, SuffixProperties, TokensProperties
<1>4. cost(l) = 0
  <2>1. Suffix(s, l) = <<>>
    <3>1. Suffix(s, l) \in Seq(Turn) /\ Len(Suffix(s, l)) = 0
      BY <1>1, SuffixProperties
    <3> QED
      BY <3>1
  <2> QED
    BY <2>1, NoTurnsNoTokens
<1> HIDE DEF cost
<1>5. l \in T
  BY <1>2, <1>4
<1>6. PICK n \in T : \A m \in T : n <= m
  <2>1. T \subseteq Nat /\ T # {}
    BY <1>5
  <2> HIDE DEF T
  <2> QED
    BY <2>1, SmallestOf
<1>7. Fits(n) /\ n \in 0..l
  <2>1. \A m \in 0..(n - 1) : m \in 0..l /\ ~(n <= m)
    BY <1>6
  <2>2. \A m \in 0..(n - 1) : ~(cost(m) <= TokenBudget)
    BY <1>6, <2>1
  <2> QED
    BY <1>2, <1>3, <1>6, <2>1, <2>2
<1>8. Dropped(s) = CHOOSE k \in 0..l : Fits(k)
  BY <1>1 DEF Dropped, cost
<1> HIDE DEF Fits
<1>9. PICK d \in 0..l : d = Dropped(s) /\ Fits(d)
  BY <1>7, <1>8
<1>10. cost(d) <= TokenBudget
  BY <1>2, <1>4, <1>9 DEF Fits
<1> QED
  BY <1>1, <1>9, <1>10 DEF Fits, cost

\* AlreadyCut, in terms of what the ends of the conversation cost.
LEMMA LongerEnds ==
  ASSUME added \in Seq(Turn)
  PROVE  \A n \in 0..Len(added) :
           TotalOf([i \in 1..(Len(added) - n) |-> added[i + n].size])
             = TurnTokens(Suffix(added, n))
<1> SUFFICES ASSUME NEW n \in 0..Len(added)
             PROVE  TotalOf([i \in 1..(Len(added) - n) |-> added[i + n].size])
                      = TurnTokens(Suffix(added, n))
  OBVIOUS
<1>1. PICK a \in Seq(Turn) : a = Suffix(added, n)
  BY SuffixProperties
<1>2. DOMAIN a = 1..(Len(added) - n) /\ \A i \in 1..(Len(added) - n) : a[i] = added[i + n]
  BY <1>1, SuffixProperties
<1>3. [i \in DOMAIN a |-> a[i].size] = [i \in 1..(Len(added) - n) |-> added[i + n].size]
  BY <1>2
<1> QED
  BY <1>1, <1>3 DEF TurnTokens

LEMMA AddTurnKeepsHistory ==
  ASSUME HistorySound, NEW size \in TurnSizes, AddTurn(size)
  PROVE  HistorySound'
<1> DEFINE new == [number |-> Len(added) + 1, size |-> size]
           s == Append(turns, new)
           n == Dropped(s)
<1>1. PICK N \in Nat : N = Len(added)
  BY DEF HistorySound, HistoryTypeOK
<1>2. /\ turns \in Seq(Turn) /\ added \in Seq(Turn) /\ evicted \in Seq(Turn)
      /\ hooks \in 0..MaxTurns /\ hooks <= N /\ added = evicted \o turns
  BY <1>1 DEF HistorySound, HistoryTypeOK, AlreadyCut
<1>3. MaxTurns \in Nat /\ TokenBudget \in Nat /\ N < MaxTurns
  BY <1>1, HistoryAssumption DEF AddTurn
<1>4. new \in Turn /\ new.size \in Nat
  <2>1. N + 1 \in 1..MaxTurns
    BY <1>3
  <2> QED
    BY <1>1, <2>1, HistoryAssumption DEF Turn
<1> HIDE DEF new
<1>5. s \in Seq(Turn) /\ Len(s) = Len(turns) + 1 /\ s[Len(s)] = new
  BY <1>2, <1>4
<1>6. /\ added' = Append(added, new)
      /\ turns' = Suffix(s, n)
      /\ evicted' = evicted \o SubSeq(s, 1, n)
      /\ hooks' = IF n = 0 THEN hooks ELSE hooks + 1
  BY <1>5 DEF AddTurn, new
<1>7. /\ n \in 0..Len(s)
      /\ TurnTokens(Suffix(s, n)) <= TokenBudget
      /\ \A m \in 0..(n - 1) : TurnTokens(Suffix(s, m)) > TokenBudget
  BY <1>5, DroppedProperties
<1> HIDE DEF s, n
<1>8. /\ Suffix(s, n) \in Seq(Turn) /\ SubSeq(s, 1, n) \in Seq(Turn)
      /\ Len(SubSeq(s, 1, n)) = n /\ SubSeq(s, 1, n) \o Suffix(s, n) = s
  BY <1>5, <1>7, SuffixProperties
<1>9. Append(added, new) = evicted \o s /\ Append(added, new) \in Seq(Turn)
  <2>1. new \in Turn /\ <<new>> \in Seq(Turn)
    BY <1>4
  <2>2. Append(added, new) = added \o <<new>> /\ s = turns \o <<new>>
    BY <1>2, <2>1, AppendIsConcat DEF s
  <2>3. (evicted \o turns) \o <<new>> = evicted \o (turns \o <<new>>)
    BY <1>2, <2>1, ConcatAssociative
  <2> QED
    BY <1>2, <2>1, <2>2, <2>3, AppendProperties
<1>10. added' = evicted' \o turns' /\ Len(added') = N + 1 /\ Len(evicted') = Len(evicted) + n
  <2>1. evicted \o s = (evicted \o SubSeq(s, 1, n)) \o Suffix(s, n)
    <3>1. PICK b \in Seq(Turn), c \in Seq(Turn) : b = SubSeq(s, 1, n) /\ c = Suffix(s, n)
      BY <1>8
    <3>2. (evicted \o b) \o c = evicted \o (b \o c)
      BY <1>2, ConcatAssociative
    <3> QED
      BY <1>8, <3>1, <3>2
  <2>2. Len(Append(added, new)) = N + 1
    BY <1>1, <1>2, <1>4
  <2>3. Len(evicted \o SubSeq(s, 1, n)) = Len(evicted) + n
    BY <1>2, <1>8
  <2> QED
    BY <1>6, <1>9, <2>1, <2>2, <2>3
<1>11. HistoryTypeOK' /\ hooks' <= Len(added')
  <2>1. evicted \o SubSeq(s, 1, n) \in Seq(Turn)
    BY <1>2, <1>8
  <2>2. hooks' \in 0..MaxTurns /\ hooks' <= N + 1
    BY <1>1, <1>2, <1>3, <1>6
  <2>3. N + 1 <= MaxTurns
    BY <1>1, <1>3
  <2>4. raised' \in BOOLEAN
    <3>1. raised \in BOOLEAN /\ raised' = raised
      BY DEF HistorySound, HistoryTypeOK, AddTurn
    <3> QED
      BY <3>1
  <2> QED
    BY <1>6, <1>8, <1>9, <1>10, <2>1, <2>2, <2>3, <2>4 DEF HistoryTypeOK
<1>12. ASSUME NEW m \in 0..(Len(evicted) + n - 1)
       PROVE  TurnTokens(Suffix(Append(added, new), m)) > TokenBudget
  <2>1. PICK e \in Nat : e = Len(evicted) /\ e <= N /\ n \in Nat
    <3>1. Len(evicted \o turns) = Len(evicted) + Len(turns) /\ Len(evicted) \in Nat /\ Len(turns) \in Nat
      BY <1>2
    <3> QED
      BY <1>1, <1>2, <1>5, <1>7, <3>1
  <2>2. CASE m < e
    <3>1. m \in 0..N /\ m \in 0..(e - 1)
      BY <2>1, <2>2
    <3>2. TurnTokens(Suffix(added, m)) > TokenBudget
      BY <1>1, <1>2, <2>1, <3>1, LongerEnds DEF HistorySound, AlreadyCut
    <3>3. Suffix(added, m) \in Seq(Turn)
      BY <1>1, <1>2, <3>1, SuffixProperties
    <3>4. Suffix(Append(added, new), m) = Append(Suffix(added, m), new)
      BY <1>1, <1>2, <1>4, <3>1, SuffixOfAppend
    <3>5. /\ TurnTokens(Suffix(added, m)) \in Nat
          /\ TurnTokens(Append(Suffix(added, m), new)) = TurnTokens(Suffix(added, m)) + new.size
      BY <1>4, <3>3, TokensProperties
    <3> QED
      BY <1>3, <1>4, <3>2, <3>4, <3>5
  <2>3. CASE m >= e
    <3>1. PICK k \in Nat : k = m - e /\ m = e + k /\ k \in 0..(n - 1)
      BY <2>1, <2>3
    <3>2. k \in 0..Len(s)
      BY <1>5, <1>7, <3>1
    <3>3. Suffix(Append(added, new), m) = Suffix(s, k)
      BY <1>2, <1>5, <1>9, <2>1, <3>1, <3>2, SuffixOfConcat
    <3> QED
      BY <1>7, <3>1, <3>3
  <2> QED
    BY <2>1, <2>2, <2>3
<1>13. AlreadyCut'
  <2>1. added' \in Seq(Turn)
    BY <1>11 DEF HistoryTypeOK
  <2>2. PICK A \in Seq(Turn) : A = added'
    BY <2>1
  <2>3. PICK E \in Nat : E = Len(evicted') /\ E <= Len(A) /\ E = Len(evicted) + n
    <3>1. evicted' \in Seq(Turn) /\ turns' \in Seq(Turn)
      BY <1>11 DEF HistoryTypeOK
    <3>2. Len(evicted' \o turns') = Len(evicted') + Len(turns') /\ Len(evicted') \in Nat /\ Len(turns') \in Nat
      BY <3>1
    <3> QED
      BY <1>10, <2>2, <3>2
  <2>4. ASSUME NEW m \in 0..(E - 1)
        PROVE  TotalOf([i \in 1..(Len(A) - m) |-> A[i + m].size]) > TokenBudget
    <3>1. m \in 0..Len(A)
      BY <2>3
    <3>2. PICK a \in Seq(Turn) : a = Suffix(A, m)
      BY <3>1, SuffixProperties
    <3>3. DOMAIN a = 1..(Len(A) - m) /\ \A i \in 1..(Len(A) - m) : a[i] = A[i + m]
      BY <3>1, <3>2, SuffixProperties
    <3>4. [i \in DOMAIN a |-> a[i].size] = [i \in 1..(Len(A) - m) |-> A[i + m].size]
      BY <3>3
    <3>5. TurnTokens(a) > TokenBudget
      <4>1. m \in 0..(Len(evicted) + n - 1)
        <5>1. Len(evicted) \in Nat /\ n \in Nat
          BY <1>2, <1>5, <1>7
        <5> QED
          BY <2>3, <2>4, <5>1
      <4>2. A = Append(added, new)
        BY <1>6, <2>2
      <4> QED
        BY <1>12, <3>2, <4>1, <4>2
    <3> QED
      BY <3>4, <3>5 DEF TurnTokens
  <2>5. TurnTokens(turns') <= TokenBudget
    BY <1>6, <1>7
  <2> QED
    BY <1>10, <2>2, <2>3, <2>4, <2>5 DEF AlreadyCut, TurnTokens
<1> QED
  BY <1>11, <1>13 DEF HistorySound

LEMMA HistorySoundInit == HistoryInit => HistorySound
<1> SUFFICES ASSUME HistoryInit PROVE HistorySound
  OBVIOUS
<1>1. TurnTokens(turns) = 0 /\ TokenBudget \in Nat /\ MaxTurns \in Nat
  BY NoTurnsNoTokens, HistoryAssumption DEF HistoryInit
<1>2. added = evicted \o turns /\ Len(evicted) = 0 /\ Len(added) = 0
  BY DEF HistoryInit
<1>3. raised \in BOOLEAN
  BY DEF HistoryInit
<1> QED
  BY <1>1, <1>2, <1>3 DEF HistoryInit, HistorySound, HistoryTypeOK, AlreadyCut

LEMMA HistorySoundStep == HistorySound /\ [Next]_vars => HistorySound'
<1> SUFFICES ASSUME HistorySound, [Next]_vars PROVE HistorySound'
  OBVIOUS
<1>1. ASSUME UNCHANGED <<turns, added, evicted>>, hooks' \in 0..hooks, raised' \in BOOLEAN
      PROVE  HistorySound'
  <2>1. hooks' \in 0..MaxTurns /\ hooks' <= Len(added)
    BY <1>1, HistoryAssumption DEF HistorySound, HistoryTypeOK
  <2>2. HistoryTypeOK'
    BY <1>1, <2>1 DEF HistorySound, HistoryTypeOK
  <2>3. AlreadyCut'
    BY <1>1 DEF HistorySound, AlreadyCut, TurnTokens
  <2> QED
    BY <1>1, <2>1, <2>2, <2>3 DEF HistorySound
<1>2. hooks \in Nat /\ raised \in BOOLEAN
  BY DEF HistorySound, HistoryTypeOK
<1>3. ASSUME UNCHANGED historyVars PROVE HistorySound'
  <2>1. raised' \in BOOLEAN
    BY <1>2, <1>3 DEF historyVars
  <2> QED
    BY <1>1, <1>2, <1>3, <2>1 DEF historyVars
<1>4. ASSUME NEW size \in TurnSizes, AddTurn(size) PROVE HistorySound'
  BY <1>4, AddTurnKeepsHistory
<1>5. ASSUME HookReturns \/ HookRaises PROVE HistorySound'
  <2>2. raised' \in BOOLEAN
    <3>1. CASE HookReturns
      <4>1. raised' = raised
        BY <3>1 DEF HookReturns
      <4> QED
        BY <1>2, <4>1
    <3>2. CASE HookRaises
      <4>1. raised' = TRUE
        BY <3>2 DEF HookRaises
      <4> QED
        BY <4>1
    <3> QED
      BY <1>5, <3>1, <3>2
  <2>1. hooks' \in 0..hooks
    BY <1>2, <1>5 DEF HookReturns, HookRaises
  <2> QED
    BY <1>1, <1>5, <2>1, <2>2 DEF HookReturns, HookRaises
<1> QED
  BY <1>3, <1>4, <1>5 DEF Next, Starting, Indexing, Talking, HistoryNext, vars

\* Whatever the turns, the budget and the system prompt are, and whatever the
\* hook adds or raises: no turn is lost, and once no hook runs and none has
\* raised, the turns kept are the longest end of the conversation that fits the
\* budget, and every turn before them has been given to the hook, in order
\* (agent/history.py:80-95).
THEOREM NewestAlwaysKept == Spec => []KeepsNewest
<1>1. Init => HistorySound
  BY HistorySoundInit DEF Init
<1>2. ASSUME HistorySound PROVE KeepsNewest
  <2>1. PICK a \in Seq(Turn), b \in Seq(Turn) :
          a = evicted /\ b = turns /\ added = a \o b /\ AlreadyCut
    BY <1>2 DEF HistorySound, HistoryTypeOK, AlreadyCut
  <2>2. ASSUME NEW i \in DOMAIN (a \o b)
        PROVE  \/ \E j \in DOMAIN b : b[j] = (a \o b)[i]
               \/ \E j \in DOMAIN a : a[j] = (a \o b)[i]
    <3>1. PICK m \in Nat, n \in Nat : m = Len(a) /\ n = Len(b)
      OBVIOUS
    <3>2. /\ DOMAIN (a \o b) = 1..(m + n)
          /\ \A k \in 1..m : (a \o b)[k] = a[k]
          /\ \A k \in 1..n : (a \o b)[k + m] = b[k]
      BY <3>1
    <3>3. CASE i <= m
      BY <2>2, <3>1, <3>2, <3>3
    <3>4. CASE i > m
      <4>1. PICK k \in 1..n : i = k + m
        <5>1. i - m \in 1..n /\ i = (i - m) + m
          BY <2>2, <3>1, <3>2, <3>4
        <5> QED
          BY <5>1
      <4> QED
        BY <3>1, <3>2, <4>1
    <3> QED
      BY <2>2, <3>1, <3>2, <3>3, <3>4
  <2>3. \A i \in DOMAIN added : \/ \E j \in DOMAIN turns : turns[j] = added[i]
                                \/ \E j \in DOMAIN evicted : evicted[j] = added[i]
    BY <2>1, <2>2
  <2> QED
    BY <2>1, <2>3 DEF KeepsNewest, AlreadyCut
<1> QED
  BY <1>1, <1>2, HistorySoundStep, PTL DEF Spec

\* Every state of the program that starts up, searches and talks is typed.
THEOREM AgentTypes == Spec => []TypeOK
<1>1. Init => HistorySound /\ IndexSound
  BY HistorySoundInit, IndexSoundInit DEF Init
<1>2. HistorySound => HistoryTypeOK
  BY DEF HistorySound
<1>3. IndexSound => IndexTypeOK
  BY DEF IndexSound
<1>4. StartUpTypeOK /\ IndexTypeOK /\ HistoryTypeOK => TypeOK
  BY DEF TypeOK
<1> QED
  BY <1>1, <1>2, <1>3, <1>4, HistorySoundStep, IndexSoundStep, StartUpTypes, PTL DEF Spec
=============================================================================
