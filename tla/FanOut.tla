------------------------------- MODULE FanOut -------------------------------
(***************************************************************************)
(* AsyncUtcpClient.gather (client/async_client.py): a batch of calls under *)
(* a semaphore and, perhaps, a budget, all of them to one WebSocket        *)
(* provider; other tasks discover and stream over the same connection.     *)
(*                                                                         *)
(* asyncio.gather starts its tasks in the order of the calls, and its      *)
(* future is done with the first exception unless return_exceptions is     *)
(* set; the remaining tasks are not cancelled then.  wait_for cancels that *)
(* future, and with it each task that is not done.  The end of a task and  *)
(* what gather makes of it are one step here.                              *)
(***************************************************************************)
EXTENDS WebSocket

CONSTANTS
  NumCalls,       \* calls of the batch; the call i is the task i
  MaxConcurrency  \* max_concurrency

Calls == 1..NumCalls
Others == Tasks \ Calls

ASSUME FanOutAssumption ==
  /\ NumCalls \in Nat \ {0}
  /\ MaxConcurrency \in Nat \ {0}
  /\ Calls \subseteq Tasks

VARIABLES
  phase,      \* of gather
  collect,    \* return_exceptions
  stage,      \* stage[i]: where run_one(i) is
  permits,    \* the value of the semaphore
  waiters,    \* the calls that wait for it, in order
  cancelling  \* the calls that wait_for has cancelled

batchVars == <<phase, collect, stage, permits, waiters, cancelling>>
vars == <<socketVars, batchVars>>

Over == {"returned", "raised", "timed out"}
Inside == {i \in Calls : stage[i] = "inside"}
Granted == {i \in Calls : stage[i] = "granted"}
Ended == {i \in Calls : stage[i] = "ended"}

TypeOK ==
  /\ SocketTypeOK
  /\ phase \in {"before", "gathering", "cancelling"} \cup Over
  /\ collect \in BOOLEAN
  /\ stage \in [Calls -> {"none", "new", "waiting", "granted", "inside", "ended"}]
  /\ permits \in 0..MaxConcurrency
  /\ waiters \in Seq(Calls)
  /\ cancelling \subseteq Calls

Init ==
  /\ SocketInit
  /\ phase = "before"
  /\ collect = FALSE
  /\ stage = [i \in Calls |-> "none"]
  /\ permits = MaxConcurrency
  /\ waiters = <<>>
  /\ cancelling = {}

-----------------------------------------------------------------------------
(* asyncio.Semaphore, asyncio.gather and wait_for. *)

\* A permit is free, and nobody waits for it.  (asyncio runs the first turns of
\* all tasks in a row; here other steps may come between them.)
Free == permits > 0 /\ waiters = <<>>

\* A permit is passed on only by a call that has had an answer.
HandOn_AfterSuccess(i) ==
  IF place'[i] # "done" \/ waiters = <<>>
  THEN /\ permits' = permits + 1
       /\ stage' = [stage EXCEPT ![i] = "ended"]
       /\ UNCHANGED waiters
  ELSE /\ stage' = [stage EXCEPT ![i] = "ended", ![Head(waiters)] = "granted"]
       /\ waiters' = Tail(waiters)
       /\ UNCHANGED permits

\* A permit that goes both to a waiter and back.
HandOn_Twice(i) ==
  /\ permits' = permits + 1
  /\ IF waiters = <<>>
     THEN stage' = [stage EXCEPT ![i] = "ended"] /\ UNCHANGED waiters
     ELSE /\ stage' = [stage EXCEPT ![i] = "ended", ![Head(waiters)] = "granted"]
          /\ waiters' = Tail(waiters)

\* A permit goes to the first waiter, or back.
HandOn(i) ==
  IF waiters = <<>>
  THEN /\ permits' = permits + 1
       /\ stage' = [stage EXCEPT ![i] = "ended"]
       /\ UNCHANGED waiters
  ELSE /\ stage' = [stage EXCEPT ![i] = "ended", ![Head(waiters)] = "granted"]
       /\ waiters' = Tail(waiters)
       /\ UNCHANGED permits

\* gather, while nothing has been cancelled, when the call i ends.
Gathered(i) ==
  phase' = CASE phase = "gathering" /\ place'[i] = "failed" /\ ~collect -> "raised"
             [] phase = "gathering" /\ (place'[i] = "done" \/ collect)
                  /\ Calls \subseteq Ended \cup {i} -> "returned"
             [] OTHER -> phase

\* run_one(i) leaves the transport if the step ends its request.
Leave(i) ==
  IF place'[i] \in {"done", "failed"}
  THEN HandOn(i) /\ Gathered(i) /\ UNCHANGED <<collect, cancelling>>
  ELSE UNCHANGED batchVars

-----------------------------------------------------------------------------
(* The batch. *)

\* The exhausted budget raises, and the tasks are left to themselves.
Gather_NotCancelled ==
  /\ phase = "before"
  /\ stage' = [i \in Calls |-> "new"]
  /\ collect' \in BOOLEAN
  /\ phase' \in {"gathering", "timed out"}
  /\ UNCHANGED <<socketVars, permits, waiters, cancelling>>

\* gather creates its tasks and looks at the budget.  If none is left it cancels
\* them before they have begun.  (No budget is a budget that does not end.)
Gather ==
  /\ phase = "before"
  /\ stage' = [i \in Calls |-> "new"]
  /\ collect' \in BOOLEAN
  /\ \/ phase' = "gathering" /\ UNCHANGED cancelling
     \/ phase' = "timed out" /\ cancelling' = Calls
  /\ UNCHANGED <<socketVars, permits, waiters>>

\* call raises on its way into the transport: the tool is unknown, its provider
\* cannot be resolved, or no connection can be made.
Refused(i) ==
  \/ CannotConnect(i)
  \/ /\ place[i] = "out"
     /\ place' = [place EXCEPT ![i] = "failed"]
     /\ UNCHANGED <<connVars, lastId, serverVars, method, request, sock, got>>

\* The task i has its first turn: the semaphore lets it in, or it waits.
Start(i) ==
  /\ stage[i] = "new"
  /\ i \notin cancelling
  /\ \A j \in 1..i - 1 : stage[j] # "new"
  /\ \/ /\ Free
        /\ Begin(i, "call")
        /\ permits' = permits - 1
        /\ stage' = [stage EXCEPT ![i] = "inside"]
        /\ UNCHANGED <<phase, waiters>>
     \/ /\ Free
        /\ Refused(i)
        /\ Gathered(i)
        /\ stage' = [stage EXCEPT ![i] = "ended"]
        /\ UNCHANGED <<permits, waiters>>
     \/ /\ ~Free
        /\ waiters' = Append(waiters, i)
        /\ stage' = [stage EXCEPT ![i] = "waiting"]
        /\ UNCHANGED <<socketVars, phase, permits>>
  /\ UNCHANGED <<collect, cancelling>>

\* A call that was handed a permit goes on.
Resume(i) ==
  /\ stage[i] = "granted"
  /\ i \notin cancelling
  /\ \/ /\ Begin(i, "call")
        /\ stage' = [stage EXCEPT ![i] = "inside"]
        /\ UNCHANGED <<phase, permits, waiters>>
     \/ /\ Refused(i)
        /\ HandOn(i)
        /\ Gathered(i)
  /\ UNCHANGED <<collect, cancelling>>

\* A call inside the transport goes on.
Work(i) ==
  /\ stage[i] = "inside"
  /\ i \notin cancelling
  /\ Sent(i) \/ SendFails(i) \/ Receive(i) \/ RecvFails(i)
  /\ Leave(i)

\* The budget ends during the batch: wait_for cancels every task that is not done.
BudgetEnds ==
  /\ phase = "gathering"
  /\ phase' = "cancelling"
  /\ cancelling' = Calls \ Ended
  /\ waiters' = <<>>
  /\ UNCHANGED <<socketVars, collect, stage, permits>>

\* A permit lost with the task that held it.
Unwind_KeepsPermit(i) ==
  /\ i \in cancelling \ Ended
  /\ Cancelled(i)
  /\ stage' = [stage EXCEPT ![i] = "ended"]
  /\ phase' = IF ~collect \/ Calls \subseteq Ended \cup {i} THEN "timed out" ELSE phase
  /\ UNCHANGED <<collect, permits, waiters, cancelling>>

\* A cancelled task ends, and gives its permit back.  gather is done with the
\* first of them, or with return_exceptions when all have ended.
Unwind(i) ==
  /\ i \in cancelling \ Ended
  /\ Cancelled(i)
  /\ stage' = [stage EXCEPT ![i] = "ended"]
  /\ permits' = IF stage[i] \in {"granted", "inside"} THEN permits + 1 ELSE permits
  /\ phase' = IF ~collect \/ Calls \subseteq Ended \cup {i} THEN "timed out" ELSE phase
  /\ UNCHANGED <<collect, waiters, cancelling>>

-----------------------------------------------------------------------------
(* Tasks that are not of the batch, and the server. *)

OtherBegins(t) ==
  \/ \E m \in {"stream", "discover"} : Begin(t, m)
  \/ CannotConnect(t)

OtherWorks(t) == Sent(t) \/ SendFails(t) \/ Receive(t) \/ RecvFails(t)

Surroundings ==
  /\ \/ \E t \in Others : OtherBegins(t) \/ OtherWorks(t)
     \/ Close
     \/ \E s \in Sockets : Closed(s) \/ Answer(s) \/ Push(s) \/ Drop(s)
  /\ UNCHANGED batchVars

Step(i) == Start(i) \/ Resume(i) \/ Work(i) \/ Unwind(i)

Next ==
  \/ Gather
  \/ BudgetEnds
  \/ \E i \in Calls : Step(i)
  \/ Surroundings

Spec == Init /\ [][Next]_vars

\* The event loop runs what is ready, and a wait in send or recv ends: the socket
\* gives a frame or raises.
FairSpec == Spec /\ \A i \in Calls : WF_vars(Step(i))

-----------------------------------------------------------------------------
(* Properties. *)

\* What a call, a stream or a discovery is given was made by the server for that
\* very request, or for nobody: ids told apart requests of earlier connections,
\* of cancelled calls and of each other (_recv_for and stream).
AnswersAreOwn ==
  \A t \in Tasks : got[t] \subseteq {t, Nobody}

\* No permit is lost or made up, by answers, exceptions or cancellation, so that
\* at most max_concurrency calls are in the transport, also after the batch has
\* raised; and nobody waits while a permit is free (run_one).
PermitsKept ==
  /\ permits + Cardinality(Inside \cup Granted) = MaxConcurrency
  /\ waiters # <<>> => permits = 0

\* Once the batch has timed out none of its calls sends a request, is given an
\* answer or comes to another end than its cancellation, although they may be
\* anywhere when the budget ends (gather, wait_for).
TimeoutStops ==
  [][phase = "timed out" =>
       \A i \in Calls :
         /\ request'[i] \in {request[i], NoId}
         /\ got'[i] = got[i]
         /\ place'[i] \in {place[i], "cancelled"}]_vars

\* A task that is alone in receiving from its connection does not skip a frame
\* that was made for it, whatever earlier requests have left behind there
\* (_recv_for and stream).
NotSkippedAlone ==
  [][\A t \in Tasks :
       LET s == sock[t] IN
         (/\ place[t] = "receiving"
          /\ \A u \in Tasks \ {t} : ~(place[u] = "receiving" /\ sock[u] = s)
          /\ inbox[s] # <<>>
          /\ Head(inbox[s]).to = t
          /\ s \in alive'
          /\ inbox'[s] = Tail(inbox[s]))
         => place'[t] = "failed" \/ got'[t] = {t}]_vars

\* Unless aclose was called while another call of it was under way, every open
\* connection is the one that the transport holds and aclose will close, though
\* tasks connect and break off while aclose waits, and closes raise (_socket,
\* aclose).  Of two calls at once the second may forget a connection that was
\* made since the first (async_websocket.py:137-140).
NoOrphan == overlapped \/ alive \subseteq {ws}

\* A call inside the transport is given a frame and waits for another one.
SkipsOne(i) ==
  /\ place[i] = "receiving" /\ place'[i] = "receiving"
  /\ Len(inbox'[sock[i]]) < Len(inbox[sock[i]])

\* Every call of a batch ends, also when the batch has raised or timed out
\* before, unless some call is for ever given frames that are not for it: each
\* of its waits in recv has a timeout, but without a deadline nothing bounds
\* their number (gather, run_one, async_websocket.py:75-80).
CallsSettle ==
  \/ []<><<\E i \in Calls : SkipsOne(i)>>_vars
  \/ phase # "before" ~> Ended = Calls
=============================================================================
