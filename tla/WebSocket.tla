----------------------------- MODULE WebSocket -----------------------------
(***************************************************************************)
(* The WebSocket transports (transports/websocket.py, async_websocket.py)  *)
(* and their framing (ws_protocol.py): tasks that share one persistent     *)
(* connection, and the server at its other end.                            *)
(*                                                                         *)
(* A step is what a task does between two awaits: it ends where the task   *)
(* waits for send, recv or close.  With one task at a time this is the     *)
(* synchronous transport.  The socket is an injected object: it gives each *)
(* frame to one of the tasks that wait in recv, in the order of arrival,   *)
(* and raises when a wait is too long or the connection is gone.  Such an  *)
(* exception may come at any moment of a wait, which covers every deadline *)
(* and default timeout.  Payloads are left out: what counts is for whom    *)
(* the server made a frame.                                                *)
(***************************************************************************)
EXTENDS Naturals, Sequences, FiniteSets

CONSTANTS
  Tasks,      \* the tasks that use the transport, each for one request
  Nobody,     \* the addressee of a frame that answers no request
  MaxSockets, \* bound: connections made in the life of the transport
  MaxUnread,  \* bound: frames on the way to the client
  MaxCloses   \* bound: calls of aclose that await the close of one connection

ASSUME SocketAssumption ==
  /\ IsFiniteSet(Tasks)
  /\ Nobody \notin Tasks
  /\ MaxSockets \in Nat
  /\ MaxUnread \in Nat
  /\ MaxCloses \in Nat

NoSocket == 0           \* _ws is None; sockets are numbered as they are opened
Sockets == 1..MaxSockets
NoId == 0               \* a frame without an id
Methods == {"call", "stream", "discover"}
Places == {"out", "sending", "receiving", "done", "failed", "cancelled"}

VARIABLES
  ws,       \* _ws
  opened,   \* the number of connections made so far
  alive,    \* the connections that are open
  closing,  \* closing[s]: the calls of aclose that await the close of s
  overlapped,
            \* has aclose been called while another call of it was under way?
            \* (history)
  lastId,   \* the id that _ids gave out last
  inbox,    \* inbox[s]: frames that have arrived on s and are not read
  asked,    \* asked[s]: the requests that the server has yet to complete
  place, method, request, sock, got
            \* of each task: where it is, what it runs, the request id and the
            \* socket that it holds as long as it runs, and the addressee of
            \* the frame it was last given, if it took that for its own

connVars == <<ws, opened, alive, closing, overlapped>>
serverVars == <<inbox, asked>>
taskVars == <<place, method, request, sock, got>>
socketVars == <<connVars, lastId, serverVars, taskVars>>

Frames ==
  [id : Nat, to : Tasks \cup {Nobody}, body : {"data", "error", "malformed"},
   final : BOOLEAN]

SocketTypeOK ==
  /\ ws \in Sockets \cup {NoSocket}
  /\ opened \in 0..MaxSockets
  /\ alive \subseteq 1..opened
  /\ closing \in [Sockets -> 0..MaxCloses]
  /\ overlapped \in BOOLEAN
  /\ lastId \in Nat
  /\ inbox \in [Sockets -> Seq(Frames)]
  /\ asked \in [Sockets -> SUBSET [id : Nat, by : Tasks]]
  /\ place \in [Tasks -> Places]
  /\ method \in [Tasks -> Methods]
  /\ request \in [Tasks -> Nat]
  /\ sock \in [Tasks -> Sockets \cup {NoSocket}]
  /\ got \in [Tasks -> SUBSET (Tasks \cup {Nobody})]

SocketInit ==
  /\ ws = NoSocket
  /\ opened = 0
  /\ alive = {}
  /\ closing = [s \in Sockets |-> 0]
  /\ overlapped = FALSE
  /\ lastId = 0
  /\ inbox = [s \in Sockets |-> <<>>]
  /\ asked = [s \in Sockets |-> {}]
  /\ place = [t \in Tasks |-> "out"]
  /\ method = [t \in Tasks |-> "call"]
  /\ request = [t \in Tasks |-> NoId]
  /\ sock = [t \in Tasks |-> NoSocket]
  /\ got = [t \in Tasks |-> {}]

-----------------------------------------------------------------------------
(* Framing. *)

\* A numbering that begins anew with each connection.
NextId_PerConnection == IF ws = NoSocket THEN 1 ELSE lastId + 1

\* One numbering for the life of the transport.
NextId == lastId + 1

\* Every frame taken for an answer to the latest request.
Matches_Latest(f, id) == f.id \in {NoId, lastId}

\* A frame without an id is for everyone.
Matches(f, id) == f.id \in {NoId, id}

\* What the loop of discover and call makes of a frame: the first one that
\* matches is the response, final or not.
CallVerdict(f, id) ==
  CASE f.body = "malformed" -> "failed"
    [] f.body # "malformed" /\ ~Matches(f, id) -> "skip"
    [] f.body = "error" /\ Matches(f, id) -> "failed"
    [] f.body = "data" /\ Matches(f, id) -> "done"

\* The payload of a manual may turn out to be none.
DiscoverVerdicts(f, id) ==
  {CallVerdict(f, id)} \cup (IF CallVerdict(f, id) = "done" THEN {"failed"} ELSE {})

\* The loop of stream goes on up to a final frame, unless its consumer stops at
\* an earlier item.
StreamVerdicts(f, id) ==
  {CallVerdict(f, id)}
    \cup (IF CallVerdict(f, id) = "done" /\ ~f.final THEN {"more"} ELSE {})

Verdicts(t, f) ==
  CASE method[t] = "call" -> {CallVerdict(f, request[t])}
    [] method[t] = "discover" -> DiscoverVerdicts(f, request[t])
    [] method[t] = "stream" -> StreamVerdicts(f, request[t])

-----------------------------------------------------------------------------
(* The client's end. *)

\* _socket: the connection at hand, or a new one.
Socket == IF ws = NoSocket THEN opened + 1 ELSE ws

UseSocket ==
  /\ ws = NoSocket => opened < MaxSockets
  /\ ws' = Socket
  /\ opened' = IF ws = NoSocket THEN opened + 1 ELSE opened
  /\ alive' = IF ws = NoSocket THEN alive \cup {Socket} ELSE alive
  /\ UNCHANGED <<closing, overlapped>>

\* The local variables of a task are gone when it has ended.
EndTask(t) ==
  /\ method' = [method EXCEPT ![t] = "call"]
  /\ request' = [request EXCEPT ![t] = NoId]
  /\ sock' = [sock EXCEPT ![t] = NoSocket]

\* What has arrived on a connection, and what was asked there, is gone with it.
EndConnection(s) ==
  /\ alive' = alive \ {s}
  /\ inbox' = [inbox EXCEPT ![s] = <<>>]
  /\ asked' = [asked EXCEPT ![s] = {}]

\* A request gets its id and is on its way.
Begin(t, m) ==
  /\ place[t] = "out"
  /\ UseSocket
  /\ lastId' = NextId
  /\ place' = [place EXCEPT ![t] = "sending"]
  /\ method' = [method EXCEPT ![t] = m]
  /\ request' = [request EXCEPT ![t] = NextId]
  /\ sock' = [sock EXCEPT ![t] = Socket]
  /\ UNCHANGED <<serverVars, got>>

\* The connection cannot be made; the id is spent.
CannotConnect(t) ==
  /\ place[t] = "out"
  /\ ws = NoSocket
  /\ lastId' = NextId
  /\ place' = [place EXCEPT ![t] = "failed"]
  /\ UNCHANGED <<connVars, serverVars, method, request, sock, got>>

\* The server has the request of t.
Ask(t) ==
  /\ sock[t] \in alive
  /\ asked' = [asked EXCEPT ![sock[t]] =
                 @ \cup {[id |-> request[t], by |-> t]}]

\* send is over, and the task asks for the socket once more.  If its connection
\* has ended since send was done, it may come to wait on a new one, which does not
\* know its request.
Sent(t) ==
  /\ place[t] = "sending"
  /\ Ask(t) \/ (sock[t] \notin alive /\ UNCHANGED asked)
  /\ UseSocket
  /\ sock' = [sock EXCEPT ![t] = Socket]
  /\ place' = [place EXCEPT ![t] = "receiving"]
  /\ UNCHANGED <<lastId, inbox, method, request, got>>

\* send raises, or the connection that should follow it cannot be made.
SendFails(t) ==
  /\ place[t] = "sending"
  /\ \/ Ask(t)
     \/ UNCHANGED asked
  /\ place' = [place EXCEPT ![t] = "failed"]
  /\ EndTask(t)
  /\ UNCHANGED <<connVars, lastId, inbox, got>>

\* recv gives t the oldest frame, and t goes on to its next await or its end.
Receive(t) ==
  LET s == sock[t] IN
  /\ place[t] = "receiving"
  /\ s \in alive
  /\ inbox[s] # <<>>
  /\ inbox' = [inbox EXCEPT ![s] = Tail(@)]
  /\ LET f == Head(inbox[s]) IN
     \E v \in Verdicts(t, f) :
       /\ got' = [got EXCEPT ![t] = IF v \in {"done", "more"} THEN {f.to} ELSE {}]
       /\ IF v \in {"done", "failed"}
          THEN place' = [place EXCEPT ![t] = v] /\ EndTask(t)
          ELSE UNCHANGED <<place, method, request, sock>>
  /\ UNCHANGED <<connVars, lastId, asked>>

\* recv raises, or the deadline has passed.
RecvFails(t) ==
  /\ place[t] = "receiving"
  /\ place' = [place EXCEPT ![t] = "failed"]
  /\ EndTask(t)
  /\ UNCHANGED <<connVars, lastId, serverVars, got>>

\* The task is cancelled where it stands.  A request may have gone out.
Cancelled(t) ==
  /\ place' = [place EXCEPT ![t] = "cancelled"]
  /\ \/ place[t] = "sending" /\ Ask(t)
     \/ UNCHANGED asked
  /\ EndTask(t)
  /\ UNCHANGED <<connVars, lastId, inbox, got>>

\* _ws is reset before close is awaited as well.
Close_ForgetsFirst ==
  /\ ws # NoSocket
  /\ closing[ws] < MaxCloses
  /\ closing' = [closing EXCEPT ![ws] = @ + 1]
  /\ overlapped' = (overlapped \/ \E s \in Sockets : closing[s] > 0)
  /\ ws' = NoSocket
  /\ UNCHANGED <<opened, alive, lastId, serverVars, taskVars>>

\* aclose: nothing is done without a connection, and nothing is asked of the
\* calls of aclose that are under way.
Close ==
  /\ ws # NoSocket
  /\ closing[ws] < MaxCloses
  /\ closing' = [closing EXCEPT ![ws] = @ + 1]
  /\ overlapped' = (overlapped \/ \E s \in Sockets : closing[s] > 0)
  /\ UNCHANGED <<ws, opened, alive, lastId, serverVars, taskVars>>

\* The close of s has returned, and the transport forgets the socket that it
\* holds now; or it raises, and the transport keeps it.
Closed(s) ==
  /\ closing[s] > 0
  /\ EndConnection(s)
  /\ closing' = [closing EXCEPT ![s] = @ - 1]
  /\ ws' \in {NoSocket, ws}
  /\ UNCHANGED <<opened, overlapped, lastId, taskVars>>

-----------------------------------------------------------------------------
(* The server's end. *)

\* A frame of the response to a request, which may have any number of frames;
\* responses may overtake each other.
Answer(s) ==
  /\ s \in alive
  /\ Len(inbox[s]) < MaxUnread
  /\ \E r \in asked[s], body \in {"data", "error"}, final \in BOOLEAN :
       /\ ~final => body = "data"
       /\ inbox' = [inbox EXCEPT ![s] =
            Append(@, [id |-> r.id, to |-> r.by, body |-> body, final |-> final])]
       /\ asked' = [asked EXCEPT ![s] = IF final THEN @ \ {r} ELSE @]
  /\ UNCHANGED <<connVars, lastId, taskVars>>

\* A frame without an id, or one that cannot be decoded, at any time.  (To its
\* receiver an error without an id is the same as the latter.)
Push(s) ==
  /\ s \in alive
  /\ Len(inbox[s]) < MaxUnread
  /\ \E body \in {"data", "malformed"} :
       inbox' = [inbox EXCEPT ![s] =
         Append(@, [id |-> NoId, to |-> Nobody, body |-> body, final |-> TRUE])]
  /\ UNCHANGED <<connVars, lastId, asked, taskVars>>

\* The connection breaks; the transport still holds it.
Drop(s) ==
  /\ s \in alive
  /\ EndConnection(s)
  /\ UNCHANGED <<ws, opened, closing, overlapped, lastId, taskVars>>
=============================================================================
