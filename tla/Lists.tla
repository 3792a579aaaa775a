-------------------------------- MODULE Lists --------------------------------
(***************************************************************************)
(* What the modules do to a list as a whole.  SelectSeq and the folds take *)
(* an operator; these take none, so that facts about them can be proved    *)
(* (Lists_proofs).                                                         *)
(***************************************************************************)
EXTENDS Integers, Sequences, FiniteSets

\* The elements of s that are in T, in their order.
Only(s, T) ==
  LET kept[n \in 0..Len(s)] ==
        IF n = 0 THEN <<>>
        ELSE IF s[n] \in T THEN Append(kept[n - 1], s[n]) ELSE kept[n - 1]
  IN kept[Len(s)]

\* The sum of a list of numbers.
TotalOf(s) ==
  LET upTo[n \in 0..Len(s)] == IF n = 0 THEN 0 ELSE upTo[n - 1] + s[n]
  IN upTo[Len(s)]

\* What step makes of v and the elements of s, one after the other.
Folded(step, v, s) ==
  LET upTo[n \in 0..Len(s)] == IF n = 0 THEN v ELSE step[<<upTo[n - 1], s[n]>>]
  IN upTo[Len(s)]

\* What step makes of v when it is taken n times.
Iterated(step, v, n) ==
  LET after[k \in 0..n] == IF k = 0 THEN v ELSE step[after[k - 1]]
  IN after[n]

\* The members of S, each once, in the strict and total order R.
Sorted(S, R) ==
  CHOOSE r \in [1..Cardinality(S) -> S] :
    \A i, j \in 1..Cardinality(S) : i < j => <<r[i], r[j]>> \in R
=============================================================================
