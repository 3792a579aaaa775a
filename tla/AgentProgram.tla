----------------------------- MODULE AgentProgram -----------------------------
(***************************************************************************)
(* A program that starts up from a configuration file and, while it runs,  *)
(* keeps a search index of tools and a conversation, in one thread.  The   *)
(* index and the conversation are the program's own objects: nothing under *)
(* src/ joins them to the client, so what was configured makes no          *)
(* difference to them.                                                     *)
(***************************************************************************)
EXTENDS StartUp, SearchIndex, ConversationHistory

vars == <<repositoryVars, resolverVars, startVars, indexVars, historyVars>>

TypeOK ==
  /\ StartUpTypeOK
  /\ IndexTypeOK
  /\ HistoryTypeOK

Init ==
  /\ StartUpInit
  /\ IndexInit
  /\ HistoryInit

\* Bound: only the program without providers goes on to use them, and its
\* conversation starts when its index is empty.
Running == outcome = "ready" /\ start.providers = <<>>

Starting ==
  /\ StartUpNext
  /\ UNCHANGED <<indexVars, historyVars>>

Indexing ==
  /\ Running
  /\ added = <<>>
  /\ \/ \E d \in Documents : AddTool(d)
     \/ \E t \in IndexNames : RemoveTool(t)
  /\ UNCHANGED <<repositoryVars, resolverVars, startVars, historyVars>>

Talking ==
  /\ Running
  /\ toolTokens = [t \in {} |-> <<>>]
  /\ HistoryNext
  /\ UNCHANGED <<repositoryVars, resolverVars, startVars, indexVars>>

Next == Starting \/ Indexing \/ Talking

Spec == Init /\ [][Next]_vars
=============================================================================
