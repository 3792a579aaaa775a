--------------------------- MODULE MCSharedBudget ---------------------------
(* Instances of SharedBudget for TLC. *)
EXTENDS SharedBudget

\* Nothing; an empty line; one event, closed and left open; an event of two lines after a comment;
\* two events with too many blank lines between them; a character of two bytes, whole and
\* broken off.
MCResponses ==
  { <<>>,
    <<NL>>,
    <<Data, "x", NL, NL>>,
    <<Data, "x">>,
    <<"other:", NL, NL, Data, "x", NL, Data, "x", NL, NL>>,
    <<NL, Data, "x", NL, NL, NL, Data, NL>>,
    <<Data, "c1", "c2", NL, NL, "x">>,
    <<Data, "c1">> }
=============================================================================
