-------------------------- MODULE ConversationHistory --------------------------
(***************************************************************************)
(* The conversation of an agent within a budget of tokens                  *)
(* (agent/history.py): a turn is appended, the oldest turns are dropped    *)
(* until the rest fits, and what was dropped is given to the on_evict      *)
(* hook, which may add turns itself, such as a summary, and may raise.     *)
(*                                                                         *)
(* A turn is its number in the conversation and its size in tokens.        *)
(*                                                                         *)
(* Operators whose names end in _ and a word are the same-named operators  *)
(* with a mistake in them, for the mutant runs; no definition uses them.   *)
(***************************************************************************)
EXTENDS Lists

CONSTANTS
  TokenBudget,    \* token_budget
  PromptTokens,   \* the size of the system prompt
  TurnSizes,      \* the sizes that turns may have
  MaxTurns        \* bound: how many turns there are in a conversation

ASSUME HistoryAssumption ==
  /\ TokenBudget \in Nat \ {0}
  /\ PromptTokens \in Nat
  /\ TurnSizes \subseteq Nat
  /\ MaxTurns \in Nat

VARIABLES
  turns,    \* _turns
  added,    \* every turn that add was called with (history)
  evicted,  \* every turn that on_evict was called with, in the order of the calls (history)
  hooks,    \* how many calls of on_evict are under way, each from an add in the one before
  raised    \* a call of on_evict has raised (history)

historyVars == <<turns, added, evicted, hooks, raised>>

Turn == [number : 1..MaxTurns, size : TurnSizes]

HistoryTypeOK ==
  /\ turns \in Seq(Turn)
  /\ added \in Seq(Turn)
  /\ evicted \in Seq(Turn)
  /\ hooks \in 0..MaxTurns
  /\ raised \in BOOLEAN
  /\ Len(added) <= MaxTurns

HistoryInit ==
  /\ turns = <<>>
  /\ added = <<>>
  /\ evicted = <<>>
  /\ hooks = 0
  /\ raised = FALSE
-----------------------------------------------------------------------------
TurnTokens_WithPrompt(s) == PromptTokens + TotalOf([i \in DOMAIN s |-> s[i].size])

\* turn_tokens: the system prompt is not charged.
TurnTokens(s) == TotalOf([i \in DOMAIN s |-> s[i].size])

Suffix(s, n) == SubSeq(s, n + 1, Len(s))

Dropped_KeepOne(s) ==
  CHOOSE n \in 0..(Len(s) - 1) :
    /\ TurnTokens(Suffix(s, n)) <= TokenBudget \/ n = Len(s) - 1
    /\ \A m \in 0..(n - 1) : TurnTokens(Suffix(s, m)) > TokenBudget

\* _truncate: how many turns are popped before the rest fits; all of them, if
\* not even the last one does.
Dropped(s) ==
  CHOOSE n \in 0..Len(s) :
    /\ TurnTokens(Suffix(s, n)) <= TokenBudget \/ n = Len(s)
    /\ \A m \in 0..(n - 1) : TurnTokens(Suffix(s, m)) > TokenBudget

\* add, by the agent or by a running hook.  A hook is called once the turns
\* are what they will be.
AddTurn(size) ==
  LET s == Append(turns, [number |-> Len(added) + 1, size |-> size])
      n == Dropped(s)
  IN /\ Len(added) < MaxTurns
     /\ added' = Append(added, s[Len(s)])
     /\ turns' = Suffix(s, n)
     /\ evicted' = evicted \o SubSeq(s, 1, n)
     /\ hooks' = IF n = 0 THEN hooks ELSE hooks + 1
     /\ UNCHANGED raised

\* on_evict returns, and with it the add that called it.
HookReturns ==
  /\ hooks > 0
  /\ hooks' = hooks - 1
  /\ UNCHANGED <<turns, added, evicted, raised>>

\* on_evict raises, and so do the add that called it and, unless one of them
\* catches it, the hooks that this add was a call of.
HookRaises ==
  /\ hooks > 0
  /\ hooks' \in 0..(hooks - 1)
  /\ raised' = TRUE
  /\ UNCHANGED <<turns, added, evicted>>

HistoryNext ==
  \/ \E size \in TurnSizes : AddTurn(size)
  \/ HookReturns
  \/ HookRaises
-----------------------------------------------------------------------------
(* Properties *)

\* No turn is lost: whatever hooks add, and also while one runs or after one
\* has raised, every turn is kept or was given to a hook.  Once every hook has
\* returned, the turns kept are the longest end of the conversation that fits
\* the budget, whatever the size of the system prompt, and every turn before
\* them was given to a hook, once and in order.  Of a running hook, and of one
\* that has raised, no more is said: history.py:12 has the turns handed to the
\* callback before they are dropped, and the code drops them before it calls.
KeepsNewest ==
  /\ \A i \in DOMAIN added : \/ \E j \in DOMAIN turns : turns[j] = added[i]
                             \/ \E j \in DOMAIN evicted : evicted[j] = added[i]
  /\ hooks = 0 /\ ~raised =>
       /\ added = evicted \o turns
       /\ TurnTokens(turns) <= TokenBudget
       /\ \A n \in 0..(Len(evicted) - 1) :
            TotalOf([i \in 1..(Len(added) - n) |-> added[i + n].size]) > TokenBudget
=============================================================================
