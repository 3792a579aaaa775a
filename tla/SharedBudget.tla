---------------------------- MODULE SharedBudget ----------------------------
(***************************************************************************)
(* Operations that share one latency budget (client/budget.py,             *)
(* client.call_chain) over the transports that open a connection for each  *)
(* request and read the response chunk by chunk: transports/http.py,       *)
(* graphql.py, sse.py with their asyncio twins, and cli.py.                *)
(*                                                                         *)
(* There is one client; it runs one operation after the other.  Time goes  *)
(* by while it waits for the server or while the consumer of a generator   *)
(* is at work, and code takes none.  read keeps to its timeout: it raises  *)
(* when the timeout is over.  Nothing bounds a request or a runner, as the *)
(* code gives them no timeout.  stream over GraphQL and CLI is a call whose*)
(* one result is yielded after the connection is closed, and so is a call  *)
(* here.  A response is a text of SSEParser for every transport.           *)
(***************************************************************************)
EXTENDS SSEParser

LOCAL INSTANCE SequencesExt

CONSTANTS
  Total,           \* total_seconds of the budget
  DefaultTimeout,  \* default_timeout of the transports
  Responses,       \* what servers may answer
  MaxTime,         \* bound: the clock
  MaxSteps         \* bound: operations

ASSUME BudgetAssumption ==
  /\ Total \in Nat \ {0}
  /\ DefaultTimeout \in Nat
  /\ Responses \subseteq Seq(Symbols)
  /\ MaxTime \in Nat
  /\ MaxSteps \in Nat

Kinds == {"http", "graphql", "sse", "cli"}
Operations ==
  [kind : {"http", "sse"}, method : {"call", "discover", "stream"}]
    \cup [kind : {"graphql", "cli"}, method : {"call", "discover"}]

VARIABLES
  now,       \* the clock; the budget began at 0
  async,     \* whether the transports are the asyncio ones
  steps,     \* operations begun; also the name of the latest connection
  doing,     \* the latest operation
  place,     \* "between" two operations, in the "request", in "read", or
             \* "paused" in a yield
  until,     \* when read raises
  response,  \* the whole response to the latest operation
  reader,    \* of the operation that runs: the rest of the response, the text
             \* that the transport keeps, events that it has yet to yield, and
             \* whether the end of the response was read
  items,     \* the results of the latest operation, so far
  outcome,   \* of the latest operation
  open,      \* the open connections
  deferred   \* those whose generator the event loop has yet to close

vars == <<now, async, steps, doing, place, until, response, reader, items,
          outcome, open, deferred>>

Idle == [rest |-> <<>>, text |-> <<>>, queue |-> <<>>, eof |-> FALSE]

TypeOK ==
  /\ now \in 0..MaxTime
  /\ async \in BOOLEAN
  /\ steps \in 0..MaxSteps
  /\ doing \in Operations
  /\ place \in {"between", "request", "read", "paused"}
  /\ until \in Nat
  /\ response \in Seq(Symbols)
  /\ reader \in [rest : Seq(Symbols), text : Seq(Symbols),
                 queue : Seq(Seq(Seq(Symbols))), eof : BOOLEAN]
  /\ doing.kind = "sse" => Blank(reader.text) = 0
  /\ outcome \in {"none", "result", "failed", "timed out", "abandoned", "cancelled"}
  /\ open \subseteq 1..steps
  /\ deferred \subseteq open

Init ==
  /\ now = 0
  /\ async \in BOOLEAN
  /\ steps = 0
  /\ doing = [kind |-> "http", method |-> "call"]
  /\ place = "between"
  /\ until = 0
  /\ response = <<>>
  /\ reader = Idle
  /\ items = <<>>
  /\ outcome = "none"
  /\ open = {}
  /\ deferred = {}

-----------------------------------------------------------------------------
(* The budget, and the deadline that every operation has from it. *)

Remaining == IF now < Total THEN Total - now ELSE 0

Expired == Remaining = 0

\* The default timeout whatever is left of the budget.
ReadTimeout_Default == DefaultTimeout

\* _timeout: the default timeout, or less if less is left.
ReadTimeout == IF DefaultTimeout < Remaining THEN DefaultTimeout ELSE Remaining

-----------------------------------------------------------------------------
(* Ends of an operation, and the loop around read. *)

\* A connection closed only after a result.
End_LeavesOpen(o) ==
  /\ place' = "between"
  /\ outcome' = o
  /\ until' = 0
  /\ reader' = Idle
  /\ open' = IF o = "result" THEN open \ {steps} ELSE open
  /\ UNCHANGED deferred

\* The operation returns or raises, and its finally clause closes the connection.
End(o) ==
  /\ place' = "between"
  /\ outcome' = o
  /\ until' = 0
  /\ reader' = Idle
  /\ open' = open \ {steps}
  /\ UNCHANGED deferred

\* A generator is left at a yield.  It is closed at once, but an asynchronous one
\* only by the event loop, later.
Leave(o) ==
  IF async
  THEN /\ place' = "between"
       /\ outcome' = o
       /\ until' = 0
       /\ reader' = Idle
       /\ deferred' = deferred \cup {steps}
       /\ UNCHANGED open
  ELSE End(o)

\* The deadline looked at once, before the first read.
ReadOn_Unchecked(r) ==
  /\ place' = "read"
  /\ until' = now + ReadTimeout
  /\ reader' = r
  /\ UNCHANGED <<outcome, open, deferred>>

\* The head of the loop: deadline.check, and then read with what is left.
ReadOn(r) ==
  \/ Expired /\ End("timed out")
  \/ /\ ~Expired
     /\ place' = "read"
     /\ until' = now + ReadTimeout
     /\ reader' = r
     /\ UNCHANGED <<outcome, open, deferred>>

\* A generator gives the item i to its consumer, unless i cannot be decoded.
Yield(i, r) ==
  \/ /\ place' = "paused"
     /\ until' = 0
     /\ reader' = r
     /\ items' = Append(items, i)
     /\ UNCHANGED <<outcome, open, deferred>>
  \/ End("failed") /\ UNCHANGED items

\* A call or a discovery gives its result, unless that is not valid: JSON, a
\* manual, an answer without errors.
Give(i) ==
  \/ End("result") /\ items' = <<i>>
  \/ End("failed") /\ UNCHANGED items

-----------------------------------------------------------------------------
(* Operations. *)

\* An operation connects and sends its request.  A call of a chain is preceded by
\* budget.check; a stream or a discovery looks at its deadline before it reads.
Begin(op, r) ==
  /\ place = "between"
  /\ steps < MaxSteps
  /\ async => op.kind \in {"http", "sse"}
  /\ ~(op.method = "call" /\ Expired)
  /\ steps' = steps + 1
  /\ doing' = op
  /\ place' = "request"
  /\ response' = r
  /\ reader' = [Idle EXCEPT !.rest = r]
  /\ items' = <<>>
  /\ outcome' = "none"
  /\ open' = IF op.kind = "cli" THEN open ELSE open \cup {steps + 1}
  /\ UNCHANGED <<now, async, until, deferred>>

\* The server has the request, or the command of a CLI provider has run.
Responded ==
  /\ place = "request"
  /\ \/ /\ doing.kind # "cli"
        /\ ReadOn(reader)
        /\ UNCHANGED items
     \/ /\ doing.kind = "cli"
        /\ ~IsBlank(response)
        /\ Decodable(response)
        /\ Give(response)
     \/ /\ doing.kind = "cli"
        /\ IsBlank(response)
        /\ doing.method = "call"
        /\ End("result")
        /\ UNCHANGED items
  /\ UNCHANGED <<now, async, steps, doing, response>>

\* connect, request, runner or read raises, or the command exits with an error,
\* with what cannot be decoded or without a manual; read raises at the latest when
\* its timeout is over.
Fails ==
  /\ place \in {"request", "read"}
  /\ End("failed")
  /\ UNCHANGED <<now, async, steps, doing, response, items>>

\* _read_all: chunks are collected.
Drain(chunk, r) ==
  /\ doing.kind = "graphql" \/ (doing.kind = "http" /\ doing.method # "stream")
  /\ ReadOn([r EXCEPT !.text = @ \o chunk])
  /\ UNCHANGED items

\* stream over HTTP takes each chunk for an item, and one that is not JSON raises.
YieldChunk(chunk, r) ==
  /\ doing = [kind |-> "http", method |-> "stream"]
  /\ \/ Decodable(chunk) /\ ~IsBlank(chunk) /\ Yield(chunk, r)
     \/ End("failed") /\ UNCHANGED items

\* The events that a chunk completes: all are kept for a manual, the first is the
\* result of a call, the first is yielded of a stream.  A chunk that cuts a
\* character in two raises.
Feed(chunk, r) ==
  LET text == r.text \o chunk
      fed == [r EXCEPT !.text = Buffered(text)]
      events == Events[text]
  IN
  /\ doing.kind = "sse"
  /\ \/ /\ ~Decodable(chunk)
        /\ End("failed")
        /\ UNCHANGED items
     \/ /\ Decodable(chunk)
        /\ doing.method = "discover" \/ events = <<>>
        /\ ReadOn([fed EXCEPT !.queue = @ \o events])
        /\ UNCHANGED items
     \/ /\ Decodable(chunk)
        /\ doing.method = "call"
        /\ events # <<>>
        /\ \/ Leave("result") /\ items' = <<Head(events)>>
           \/ End("failed") /\ UNCHANGED items
     \/ /\ Decodable(chunk)
        /\ doing.method = "stream"
        /\ events # <<>>
        /\ Yield(Head(events), [fed EXCEPT !.queue = Tail(events)])

\* read returns the next part of the response.
Read ==
  /\ place = "read"
  /\ \E n \in 1..Len(reader.rest) :
       LET chunk == SubSeq(reader.rest, 1, n)
           r == [reader EXCEPT !.rest = SubSeq(@, n + 1, Len(@))]
       IN  Drain(chunk, r) \/ YieldChunk(chunk, r) \/ Feed(chunk, r)
  /\ UNCHANGED <<now, async, steps, doing, response>>

\* _decode_result and _decode_manual of HTTP, and _decode of GraphQL: only a call or
\* a stream over HTTP takes nothing at all for a result, and none takes white space.
Decode ==
  /\ doing.kind \in {"http", "graphql"}
  /\ \/ ~IsBlank(reader.text) /\ Decodable(reader.text) /\ Give(reader.text)
     \/ ~Decodable(reader.text) /\ End("failed") /\ UNCHANGED items
     \/ /\ IsBlank(reader.text)
        /\ IF reader.text = <<>> /\ doing.kind = "http" /\ doing.method # "discover"
           THEN End("result") ELSE End("failed")
        /\ UNCHANGED items

\* The end of an SSE response: an event that was left open counts.
Finish ==
  LET tail == Flush(reader.text)
      all == reader.queue \o tail
  IN
  /\ doing.kind = "sse"
  /\ \/ /\ doing.method = "discover"
        /\ all # <<>>
        /\ Give(Head(all))
     \/ /\ doing.method = "discover"
        /\ all = <<>>
        /\ End("failed")
        /\ UNCHANGED items
     \/ /\ doing.method = "call"
        /\ tail # <<>>
        /\ \/ Leave("result") /\ items' = tail
           \/ End("failed") /\ UNCHANGED items
     \/ /\ doing.method = "stream"
        /\ tail # <<>>
        /\ Yield(Head(tail), [Idle EXCEPT !.eof = TRUE])
     \/ /\ doing.method # "discover"
        /\ tail = <<>>
        /\ End("result")
        /\ UNCHANGED items

\* read returns b"".
ReadEnd ==
  /\ place = "read"
  /\ reader.rest = <<>>
  /\ Decode \/ Finish
  /\ UNCHANGED <<now, async, steps, doing, response>>

\* The consumer asks the generator for more.
Resume ==
  /\ place = "paused"
  /\ \/ /\ reader.queue # <<>>
        /\ Yield(Head(reader.queue), [reader EXCEPT !.queue = Tail(@)])
     \/ /\ reader.queue = <<>>
        /\ ~reader.eof
        /\ ReadOn(reader)
        /\ UNCHANGED items
     \/ /\ reader.queue = <<>>
        /\ reader.eof
        /\ End("result")
        /\ UNCHANGED items
  /\ UNCHANGED <<now, async, steps, doing, response>>

\* The consumer has seen enough.
Abandon ==
  /\ place = "paused"
  /\ Leave("abandoned")
  /\ UNCHANGED <<now, async, steps, doing, response, items>>

\* The task of an asyncio operation is cancelled at an await.
Cancel ==
  /\ async
  /\ place \in {"request", "read"}
  /\ End("cancelled")
  /\ UNCHANGED <<now, async, steps, doing, response, items>>

\* The event loop closes an abandoned generator.
Finalize ==
  /\ \E c \in deferred :
       /\ open' = open \ {c}
       /\ deferred' = deferred \ {c}
  /\ UNCHANGED <<now, async, steps, doing, place, until, response, reader, items, outcome>>

\* Time goes by, but not beyond the timeout of a read.
Tick ==
  /\ now < MaxTime
  /\ place = "read" => now < until
  /\ now' = now + 1
  /\ UNCHANGED <<async, steps, doing, place, until, response, reader, items,
                 outcome, open, deferred>>

Next ==
  \/ \E op \in Operations, r \in Responses : Begin(op, r)
  \/ Responded \/ Fails
  \/ Read \/ ReadEnd
  \/ Resume \/ Abandon \/ Cancel
  \/ Finalize
  \/ Tick

Spec == Init /\ [][Next]_vars

-----------------------------------------------------------------------------
(* Properties. *)

\* No transport waits in read beyond the end of the budget, nor longer than its
\* default timeout, however slowly the response trickles (_read_all, _timeout).
ReadsInTime ==
  place = "read" => /\ now <= until
                    /\ until <= Total
                    /\ until - now <= DefaultTimeout

\* After the end of the budget nothing that comes late is given to a caller,
\* whichever way its operation got to the read: only a stream may still give the
\* events that came in time with the chunk of an earlier one, and a command its
\* result, as no deadline reaches the runner (deadline.check at the head of every
\* loop; cli.py:72-75).
GivenInTime ==
  [][now > Total /\ steps' = steps /\ items' # items =>
       \/ doing.kind = "cli"
       \/ doing.kind = "sse" /\ place = "paused" /\ reader.queue # <<>>]_vars

Join == [p \in Seq(Symbols) \X Seq(Symbols) |-> p[1] \o p[2]]

Joined(chunks) == Folded(Join, <<>>, chunks)

\* However the response is cut into chunks, nothing that is given is wrong, lost
\* or given twice: a stream of events gives a prefix of the events of the response
\* and returns with all of them, a call gives the first one, and what HTTP, GraphQL
\* and CLI give is the response from its first byte to its last, white space from
\* a command left aside (SSEParser.feed, flush, _read_all).  Whether an operation
\* returns does depend on the chunks: one that ends inside a character raises,
\* against sse.py:53-55, and the property leaves that free.
ItemsMatchResponse ==
  IF doing.kind = "sse"
  THEN /\ IsPrefix(items, EventsOf(response))
       /\ outcome = "result" =>
            Len(items) = IF doing.method = "stream" THEN Len(EventsOf(response))
                         ELSE IF EventsOf(response) = <<>> THEN 0 ELSE 1
  ELSE /\ IsPrefix(Joined(items), response)
       /\ outcome = "result" =>
            Joined(items) = IF doing.kind = "cli" /\ IsBlank(response) THEN <<>> ELSE response

\* A connection is open only for the operation that runs, or until the event loop
\* closes an abandoned asynchronous generator: no exception, timeout,
\* cancellation or early end leaks one (the finally clauses).
NoneLeftOpen ==
  /\ open \subseteq deferred \cup (IF place = "between" THEN {} ELSE {steps})
  /\ ~async => deferred = {}
=============================================================================
