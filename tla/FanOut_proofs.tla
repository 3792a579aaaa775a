---------------------------- MODULE FanOut_proofs ----------------------------
(***************************************************************************)
(* Proofs about FanOut: a connection is forgotten only if calls of aclose  *)
(* overlap, what a task is given was made for it, and the semaphore of a   *)
(* batch keeps its permits, for any number of tasks, calls, permits,       *)
(* connections, frames and closes.                                         *)
(***************************************************************************)
EXTENDS FanOut, TLAPS, FiniteSetTheorems, SequenceTheorems

-----------------------------------------------------------------------------
(* Sequences *)

Members(q) == {q[i] : i \in DOMAIN q}

LEMMA AppendAddsMember ==
  ASSUME NEW S, NEW q \in Seq(S), NEW e \in S
  PROVE  Members(Append(q, e)) = Members(q) \cup {e}
<1>1. Members(Append(q, e)) \subseteq Members(q) \cup {e}
  BY DEF Members
<1>2. ASSUME NEW i \in DOMAIN q PROVE q[i] \in Members(Append(q, e))
  <2>1. i \in DOMAIN Append(q, e) /\ Append(q, e)[i] = q[i]
    OBVIOUS
  <2> QED
    BY <2>1 DEF Members
<1>3. e \in Members(Append(q, e))
  <2>1. Len(q) + 1 \in DOMAIN Append(q, e) /\ Append(q, e)[Len(q) + 1] = e
    OBVIOUS
  <2> QED
    BY <2>1 DEF Members
<1> QED
  BY <1>1, <1>2, <1>3 DEF Members

LEMMA TailDropsHead ==
  ASSUME NEW S, NEW q \in Seq(S), q # <<>>
  PROVE  /\ Head(q) \in Members(q)
         /\ Members(Tail(q)) \subseteq Members(q)
<1>1. ASSUME NEW i \in DOMAIN Tail(q)
      PROVE  i + 1 \in DOMAIN q /\ Tail(q)[i] = q[i + 1]
  BY HeadTailProperties
<1>2. 1 \in DOMAIN q /\ Head(q) = q[1]
  OBVIOUS
<1> QED
  BY <1>1, <1>2 DEF Members

LEMMA TailIsShorter ==
  ASSUME NEW S, NEW q \in Seq(S), q # <<>>
  PROVE  Tail(q) # q /\ \A e \in S : Tail(q) # Append(q, e)
<1>1. Len(q) \in Nat /\ Len(Tail(q)) = Len(q) - 1
  BY HeadTailProperties
<1>2. ASSUME NEW e \in S PROVE Len(Append(q, e)) = Len(q) + 1
  OBVIOUS
<1>3. ASSUME Tail(q) = q PROVE FALSE
  <2>1. Len(q) - 1 = Len(q)
    BY <1>1, <1>3
  <2> QED
    BY <2>1, <1>1
<1>4. ASSUME NEW e \in S, Tail(q) = Append(q, e) PROVE FALSE
  <2>1. Len(q) - 1 = Len(q) + 1
    BY <1>1, <1>2, <1>4
  <2> QED
    BY <2>1, <1>1
<1> QED
  BY <1>3, <1>4

-----------------------------------------------------------------------------
(* What a step does to the connection and its tasks *)

\* A call that is refused before it needs the connection.
RefusedEarly(t) ==
  /\ place[t] = "out"
  /\ place' = [place EXCEPT ![t] = "failed"]
  /\ UNCHANGED <<connVars, lastId, serverVars, method, request, sock, got>>

TaskStep(t) ==
  \/ \E m \in Methods : Begin(t, m)
  \/ CannotConnect(t)
  \/ RefusedEarly(t)
  \/ Sent(t)
  \/ SendFails(t)
  \/ Receive(t)
  \/ RecvFails(t)
  \/ Cancelled(t)

ServerStep(s) == Answer(s) \/ Push(s) \/ Drop(s)

LEMMA StepsOfTheSocket ==
  ASSUME [Next]_vars
  PROVE  \/ \E t \in Tasks : TaskStep(t)
         \/ \E s \in Sockets : ServerStep(s)
         \/ Close
         \/ \E s \in Sockets : Closed(s)
         \/ UNCHANGED socketVars
<1>1. CASE Gather \/ BudgetEnds \/ UNCHANGED vars
  BY <1>1 DEF Gather, BudgetEnds, vars
<1>2. ASSUME NEW i \in Calls, Step(i)
      PROVE  (\E t \in Tasks : TaskStep(t)) \/ UNCHANGED socketVars
  <2>1. i \in Tasks /\ "call" \in Methods
    BY FanOutAssumption DEF Methods
  <2>2. Refused(i) => TaskStep(i)
    BY DEF Refused, TaskStep, RefusedEarly
  <2>3. Begin(i, "call") => TaskStep(i)
    BY <2>1 DEF TaskStep
  <2>4. Start(i) => TaskStep(i) \/ UNCHANGED socketVars
    BY <2>2, <2>3 DEF Start
  <2>5. Resume(i) => TaskStep(i)
    BY <2>2, <2>3 DEF Resume
  <2>6. Work(i) \/ Unwind(i) => TaskStep(i)
    BY DEF Work, Unwind, TaskStep
  <2> QED
    BY <1>2, <2>1, <2>4, <2>5, <2>6 DEF Step
<1>3. CASE Surroundings
  <2>1. ASSUME NEW t \in Others, OtherBegins(t) \/ OtherWorks(t)
        PROVE  \E u \in Tasks : TaskStep(u)
    BY <2>1 DEF Others, OtherBegins, OtherWorks, TaskStep, Methods
  <2> QED
    BY <1>3, <2>1 DEF Surroundings, ServerStep
<1> QED
  BY <1>1, <1>2, <1>3 DEF Next
-----------------------------------------------------------------------------
(* The connection *)

\* As long as no two calls of aclose have been under way at once, there is one
\* open connection at most, the one at hand, and aclose awaits no other.
OneConnection ==
  /\ opened \in 0..MaxSockets
  /\ ws \in 0..opened
  /\ alive \subseteq 1..opened
  /\ closing \in [Sockets -> 0..MaxCloses]
  /\ overlapped \in BOOLEAN
  /\ ~overlapped =>
       /\ alive \subseteq {ws} \ {NoSocket}
       /\ \A s \in Sockets : closing[s] > 0 => s = ws /\ closing[s] = 1

LEMMA ConnectionsInit == SocketInit => OneConnection
<1> SUFFICES ASSUME SocketInit PROVE OneConnection
  OBVIOUS
<1>1. 0 \in 0..MaxSockets /\ 0 \in 0..MaxCloses
  BY SocketAssumption
<1>2. closing = [s \in Sockets |-> 0] /\ opened = 0 /\ ws = 0 /\ alive = {} /\ overlapped = FALSE
  BY DEF SocketInit, NoSocket
<1>3. closing \in [Sockets -> 0..MaxCloses] /\ \A s \in Sockets : ~(closing[s] > 0)
  BY <1>1, <1>2
<1>4. opened \in 0..MaxSockets /\ ws \in 0..opened /\ alive \subseteq 1..opened
  BY <1>1, <1>2
<1> QED
  BY <1>2, <1>3, <1>4 DEF OneConnection

LEMMA ConnectionUsed ==
  ASSUME OneConnection, UseSocket
  PROVE  OneConnection'
<1>1. CASE ws = NoSocket
  <2>1. /\ ws' = opened + 1 /\ opened' = opened + 1 /\ alive' = alive \cup {opened + 1}
        /\ opened + 1 \in 1..MaxSockets
        /\ UNCHANGED <<closing, overlapped>>
    BY <1>1, SocketAssumption DEF UseSocket, Socket, OneConnection
  <2>2. ~overlapped => alive = {} /\ \A s \in Sockets : ~(closing[s] > 0)
    BY <1>1 DEF OneConnection, Sockets, NoSocket
  <2> QED
    BY <2>1, <2>2, SocketAssumption DEF OneConnection, NoSocket
<1>2. CASE ws # NoSocket
  BY <1>2 DEF OneConnection, UseSocket, Socket
<1> QED
  BY <1>1, <1>2

LEMMA CloseBegun ==
  ASSUME OneConnection, Close
  PROVE  OneConnection'
<1>1. ws \in Sockets
  BY SocketAssumption DEF OneConnection, Close, Sockets, NoSocket
<1>2. /\ closing[ws] + 1 \in 0..MaxCloses
      /\ closing' = [closing EXCEPT ![ws] = closing[ws] + 1]
      /\ UNCHANGED <<ws, opened, alive>>
  BY <1>1, SocketAssumption DEF OneConnection, Close
<1>3. closing' \in [Sockets -> 0..MaxCloses] /\ overlapped' \in BOOLEAN
  BY <1>2, <1>1 DEF OneConnection, Close
<1>4. ASSUME ~overlapped', NEW s \in Sockets, closing'[s] > 0
      PROVE  s = ws' /\ closing'[s] = 1
  <2>1. \A c \in Sockets : ~(closing[c] > 0) /\ closing[c] \in 0..MaxCloses
    BY <1>4 DEF Close, OneConnection
  <2>2. closing[ws] = 0
    BY <2>1, <1>1, SocketAssumption
  <2>3. s = ws
    BY <1>2, <1>4, <2>1 DEF OneConnection
  <2> QED
    BY <2>2, <2>3, <1>2, <1>1 DEF OneConnection
<1>5. ~overlapped' => ~overlapped
  BY DEF Close
<1> QED
  BY <1>2, <1>3, <1>4, <1>5 DEF OneConnection

LEMMA CloseEnded ==
  ASSUME OneConnection, NEW s \in Sockets, Closed(s)
  PROVE  OneConnection'
<1>1. /\ closing[s] - 1 \in 0..MaxCloses
      /\ closing' = [closing EXCEPT ![s] = closing[s] - 1]
      /\ ws' \in {NoSocket, ws} /\ alive' = alive \ {s}
      /\ UNCHANGED <<opened, overlapped>>
  BY SocketAssumption DEF OneConnection, Closed, EndConnection
<1>2. closing' \in [Sockets -> 0..MaxCloses] /\ ws' \in 0..opened'
  BY <1>1, SocketAssumption DEF OneConnection, NoSocket
<1>3. ASSUME ~overlapped
      PROVE  alive' = {} /\ \A c \in Sockets : ~(closing'[c] > 0)
  <2>1. s = ws /\ closing[s] = 1 /\ \A c \in Sockets \ {s} : ~(closing[c] > 0)
    BY <1>3 DEF OneConnection, Closed
  <2>2. alive' = {}
    BY <2>1, <1>1, <1>3 DEF OneConnection
  <2> QED
    BY <2>1, <2>2, <1>1 DEF OneConnection
<1> QED
  BY <1>1, <1>2, <1>3 DEF OneConnection

LEMMA ConnectionsStep == OneConnection /\ [Next]_vars => OneConnection'
<1> SUFFICES ASSUME OneConnection, [Next]_vars PROVE OneConnection'
  OBVIOUS
<1>1. ASSUME UNCHANGED connVars PROVE OneConnection'
  BY <1>1 DEF connVars, OneConnection
<1>2. ASSUME NEW t \in Tasks, TaskStep(t) PROVE OneConnection'
  <2>1. UseSocket \/ UNCHANGED connVars
    BY <1>2 DEF TaskStep, Begin, CannotConnect, RefusedEarly, Sent, SendFails, Receive,
                RecvFails, Cancelled
  <2> QED
    BY <2>1, <1>1, ConnectionUsed
<1>3. ASSUME NEW s \in Sockets, ServerStep(s) PROVE OneConnection'
  <2>1. CASE Drop(s)
    BY <2>1 DEF Drop, EndConnection, OneConnection
  <2>2. CASE Answer(s) \/ Push(s)
    BY <2>2, <1>1 DEF Answer, Push
  <2> QED
    BY <1>3, <2>1, <2>2 DEF ServerStep
<1>4. CASE Close
  BY <1>4, CloseBegun
<1>5. ASSUME NEW s \in Sockets, Closed(s) PROVE OneConnection'
  BY <1>5, CloseEnded
<1>6. CASE UNCHANGED socketVars
  BY <1>6, <1>1 DEF socketVars
<1> QED
  BY <1>2, <1>3, <1>4, <1>5, <1>6, StepsOfTheSocket

\* Unless aclose was called while another call of it was under way, every open
\* connection is the one that the transport holds, however tasks connect, fail
\* and are cancelled around a close that is awaited and may raise.  (Two calls
\* of aclose at once may forget a connection: async_websocket.py:137-140.)
THEOREM NeverOrphaned == Spec => []NoOrphan
<1>1. Init => OneConnection
  BY ConnectionsInit DEF Init
<1>2. OneConnection => NoOrphan
  BY DEF OneConnection, NoOrphan
<1> QED
  BY <1>1, <1>2, ConnectionsStep, PTL DEF Spec
-----------------------------------------------------------------------------
(* The types of the connection's state *)

\* SocketTypeOK is inductive together with OneConnection, which bounds the
\* number of connections.
SocketSound == SocketTypeOK /\ OneConnection

LEMMA SocketTypesOfConnection ==
  ASSUME OneConnection
  PROVE  /\ opened \in 0..MaxSockets
         /\ alive \subseteq 1..opened
         /\ alive \subseteq Sockets
         /\ ws \in Sockets \cup {NoSocket}
         /\ closing \in [Sockets -> 0..MaxCloses]
         /\ overlapped \in BOOLEAN
  BY SocketAssumption DEF OneConnection, Sockets, NoSocket

LEMMA SocketUsed == SocketSound /\ UseSocket => Socket \in Sockets
<1>1. OneConnection /\ UseSocket => OneConnection' /\ ws' = Socket
  BY ConnectionUsed DEF UseSocket
<1>2. OneConnection /\ UseSocket => Socket # NoSocket
  BY DEF OneConnection, UseSocket, Socket, NoSocket
<1>3. OneConnection /\ UseSocket => Socket \in 1..MaxSockets
  BY <1>2, SocketAssumption DEF OneConnection, UseSocket, Socket, NoSocket
<1> QED
  BY <1>3 DEF SocketSound, Sockets

LEMMA AddedToOne ==
  ASSUME NEW D, NEW R, NEW f \in [D -> SUBSET R], NEW d, NEW r \in R
  PROVE  [f EXCEPT ![d] = @ \cup {r}] \in [D -> SUBSET R]
  OBVIOUS

LEMMA SocketTypesStep == SocketSound /\ [Next]_vars => SocketTypeOK'
<1> SUFFICES ASSUME SocketSound, [Next]_vars PROVE SocketTypeOK'
  OBVIOUS
<1>o. OneConnection'
  BY ConnectionsStep DEF SocketSound
<1>s. UseSocket => Socket \in Sockets
  BY SocketUsed
<1>c. /\ opened' \in 0..MaxSockets
      /\ alive' \subseteq 1..opened'
      /\ ws' \in Sockets \cup {NoSocket}
      /\ closing' \in [Sockets -> 0..MaxCloses]
      /\ overlapped' \in BOOLEAN
  BY <1>o, SocketAssumption DEF OneConnection, Sockets, NoSocket
<1>l. alive \subseteq Sockets
  BY SocketTypesOfConnection DEF SocketSound
<1> USE DEF SocketSound, SocketTypeOK
<1>1. ASSUME UNCHANGED <<lastId, serverVars, taskVars>> PROVE SocketTypeOK'
  BY <1>1, <1>c DEF serverVars, taskVars
<1>2. ASSUME NEW t \in Tasks, TaskStep(t) PROVE SocketTypeOK'
  <2>e. ASSUME EndTask(t)
        PROVE  /\ method' \in [Tasks -> Methods]
               /\ request' \in [Tasks -> Nat]
               /\ sock' \in [Tasks -> Sockets \cup {NoSocket}]
    BY <2>e DEF EndTask, Methods, NoId
  <2>a. ASSUME Ask(t)
        PROVE  asked' \in [Sockets -> SUBSET [id : Nat, by : Tasks]]
    <3> DEFINE R == [id : Nat, by : Tasks]
               r == [id |-> request[t], by |-> t]
    <3>1. r \in R
      OBVIOUS
    <3>2. asked \in [Sockets -> SUBSET R] /\ asked' = [asked EXCEPT ![sock[t]] = @ \cup {r}]
      BY <2>a DEF Ask
    <3>3. asked' \in [Sockets -> SUBSET R]
      <4> HIDE DEF R, r
      <4> QED
        BY <3>1, <3>2, AddedToOne
    <3> QED
      BY <3>3
  <2>1. ASSUME NEW m \in Methods, Begin(t, m) PROVE SocketTypeOK'
    BY <2>1, <1>c, <1>s DEF Begin, NextId, Places, serverVars
  <2>2. CASE CannotConnect(t) \/ RefusedEarly(t)
    <3>1. /\ place' = [place EXCEPT ![t] = "failed"]
          /\ lastId' \in {lastId, lastId + 1}
          /\ UNCHANGED <<inbox, asked, method, request, sock, got>>
      BY <2>2 DEF CannotConnect, RefusedEarly, NextId, serverVars
    <3>2. place' \in [Tasks -> Places] /\ lastId' \in Nat
      BY <3>1 DEF Places
    <3> QED
      BY <3>1, <3>2, <1>c
  <2>3. CASE Sent(t)
    BY <2>3, <2>a, <1>c, <1>s DEF Sent, Places
  <2>4. CASE SendFails(t) \/ RecvFails(t) \/ Cancelled(t)
    BY <2>4, <2>a, <2>e, <1>c DEF SendFails, RecvFails, Cancelled, Places, serverVars
  <2>5. CASE Receive(t)
    <3> DEFINE s == sock[t]
               f == Head(inbox[s])
    <3>1. s \in Sockets /\ inbox[s] \in Seq(Frames) /\ inbox[s] # <<>>
      BY <2>5, <1>l DEF Receive
    <3>2. f \in Frames /\ Tail(inbox[s]) \in Seq(Frames)
      BY <3>1, HeadTailProperties
    <3>3. inbox' \in [Sockets -> Seq(Frames)]
      BY <2>5, <3>2 DEF Receive
    <3>4. f.to \in Tasks \cup {Nobody}
      BY <3>2 DEF Frames
    <3>5. got' \in [Tasks -> SUBSET (Tasks \cup {Nobody})]
      BY <2>5, <3>4 DEF Receive
    <3>6. place' \in [Tasks -> Places] /\ (EndTask(t) \/ UNCHANGED <<method, request, sock>>)
      BY <2>5 DEF Receive, Places
    <3> QED
      BY <2>5, <3>3, <3>5, <3>6, <2>e, <1>c DEF Receive
  <2> QED
    BY <1>2, <2>1, <2>2, <2>3, <2>4, <2>5 DEF TaskStep
<1>3. ASSUME NEW s \in Sockets, ServerStep(s) PROVE SocketTypeOK'
  <2>1. CASE Answer(s)
    <3>1. PICK r \in asked[s], body \in {"data", "error"}, final \in BOOLEAN :
            /\ inbox' = [inbox EXCEPT ![s] =
                 Append(@, [id |-> r.id, to |-> r.by, body |-> body, final |-> final])]
            /\ asked' = [asked EXCEPT ![s] = IF final THEN @ \ {r} ELSE @]
      BY <2>1 DEF Answer
    <3>2. r \in [id : Nat, by : Tasks]
      OBVIOUS
    <3>3. [id |-> r.id, to |-> r.by, body |-> body, final |-> final] \in Frames
      BY <3>2 DEF Frames
    <3>4. inbox' \in [Sockets -> Seq(Frames)]
      BY <3>1, <3>3
    <3>5. asked' \in [Sockets -> SUBSET [id : Nat, by : Tasks]]
      BY <3>1
    <3> QED
      BY <2>1, <3>4, <3>5, <1>c DEF Answer, taskVars
  <2>2. CASE Push(s)
    <3>1. PICK body \in {"data", "malformed"} :
            inbox' = [inbox EXCEPT ![s] =
              Append(@, [id |-> NoId, to |-> Nobody, body |-> body, final |-> TRUE])]
      BY <2>2 DEF Push
    <3>2. [id |-> NoId, to |-> Nobody, body |-> body, final |-> TRUE] \in Frames
      BY DEF Frames, NoId
    <3>3. inbox' \in [Sockets -> Seq(Frames)]
      BY <3>1, <3>2
    <3> QED
      BY <2>2, <3>3, <1>c, SocketAssumption DEF Push, taskVars
  <2>3. CASE Drop(s)
    BY <2>3, <1>c DEF Drop, EndConnection, taskVars
  <2> QED
    BY <1>3, <2>1, <2>2, <2>3 DEF ServerStep
<1>4. CASE Close
  BY <1>4, <1>1 DEF Close
<1>5. ASSUME NEW s \in Sockets, Closed(s) PROVE SocketTypeOK'
  BY <1>5, <1>c DEF Closed, EndConnection, taskVars
<1>6. CASE UNCHANGED socketVars
  BY <1>6, <1>1 DEF socketVars
<1> QED
  BY <1>2, <1>3, <1>4, <1>5, <1>6, StepsOfTheSocket

LEMMA SocketSoundInit == SocketInit => SocketSound
<1> SUFFICES ASSUME SocketInit PROVE SocketTypeOK
  BY ConnectionsInit DEF SocketSound
<1>1. /\ opened \in 0..MaxSockets
      /\ alive \subseteq 1..opened
      /\ ws \in Sockets \cup {NoSocket}
      /\ closing \in [Sockets -> 0..MaxCloses]
      /\ overlapped \in BOOLEAN
  BY ConnectionsInit, SocketTypesOfConnection
<1>2. <<>> \in Seq(Frames)
  OBVIOUS
<1> QED
  BY <1>1, <1>2 DEF SocketInit, SocketTypeOK, Places, Methods, NoId

LEMMA SocketSoundStep == SocketSound /\ [Next]_vars => SocketSound'
  BY SocketTypesStep, ConnectionsStep DEF SocketSound
-----------------------------------------------------------------------------
(* Requests and answers *)

\* An id in a frame, or in what the server is asked, was given out, no task
\* but the one it was given to has it, and that one has it as long as it runs.
MadeFor(id, who) ==
  IF id = NoId THEN who = Nobody
  ELSE /\ id <= lastId
       /\ \A t \in Tasks : request[t] = id => t = who
       /\ who \in Tasks /\ place[who] # "out" /\ request[who] \in {id, NoId}

\* A task has an id exactly as long as its request runs, and no two have the
\* same.
IdsApart ==
  /\ \A t \in Tasks :
       /\ request[t] <= lastId
       /\ request[t] # NoId <=> place[t] \in {"sending", "receiving"}
  /\ \A t, u \in Tasks : request[t] # NoId /\ request[t] = request[u] => t = u

\* What the server has still to answer, and what it has sent.
ServedApart ==
  \A s \in Sockets :
    /\ \A r \in asked[s] : r.id # NoId /\ MadeFor(r.id, r.by)
    /\ \A f \in Members(inbox[s]) : MadeFor(f.id, f.to)

AnswersSound == SocketSound /\ IdsApart /\ ServedApart /\ AnswersAreOwn

\* Ids only grow, and a task has its own or none, or a new one when it begins.
IdsGoOn ==
  /\ lastId' >= lastId
  /\ \A t \in Tasks :
       IF place[t] = "out" THEN request'[t] \in {request[t], NoId} \/ request'[t] > lastId
       ELSE place'[t] # "out" /\ request'[t] \in {request[t], NoId}

LEMMA MadeForStays ==
  ASSUME SocketTypeOK, IdsGoOn, NEW id \in Nat, NEW who, MadeFor(id, who),
         lastId' \in Nat, request' \in [Tasks -> Nat]
  PROVE  MadeFor(id, who)'
<1>1. CASE id = NoId
  BY <1>1 DEF MadeFor
<1>2. CASE id # NoId
  <2>1. id <= lastId' /\ lastId \in Nat
    BY <1>2 DEF SocketTypeOK, IdsGoOn, MadeFor
  <2>2. who \in Tasks /\ place'[who] # "out" /\ request'[who] \in {id, NoId}
    BY <1>2 DEF IdsGoOn, MadeFor
  <2>3. ASSUME NEW t \in Tasks, request'[t] = id PROVE t = who
    <3>1. request'[t] \in {request[t], NoId} \/ request'[t] > lastId
      BY DEF IdsGoOn
    <3>2. ~(id > lastId)
      BY <2>1, <1>2 DEF MadeFor
    <3> QED
      BY <2>3, <3>1, <3>2, <1>2 DEF MadeFor
  <2> QED
    BY <1>2, <2>1, <2>2, <2>3 DEF MadeFor
<1> QED
  BY <1>1, <1>2

LEMMA IdsStep ==
  ASSUME AnswersSound, [Next]_vars
  PROVE  IdsGoOn /\ IdsApart'
<1>t. /\ lastId \in Nat
      /\ request \in [Tasks -> Nat]
      /\ place \in [Tasks -> Places]
  BY DEF AnswersSound, SocketSound, SocketTypeOK
<1>i. IdsApart
  BY DEF AnswersSound
<1>1. ASSUME UNCHANGED <<lastId, request, place>> PROVE IdsGoOn /\ IdsApart'
  BY <1>1, <1>t, <1>i DEF IdsGoOn, IdsApart
<1>2. ASSUME NEW t \in Tasks, TaskStep(t) PROVE IdsGoOn /\ IdsApart'
  <2>e. ASSUME EndTask(t), lastId' = lastId,
               NEW p \in {"done", "failed", "cancelled"}, place' = [place EXCEPT ![t] = p]
        PROVE  IdsGoOn /\ IdsApart'
    BY <2>e, <1>t, <1>i DEF EndTask, IdsGoOn, IdsApart, NoId
  <2>1. ASSUME NEW m \in Methods, Begin(t, m) PROVE IdsGoOn /\ IdsApart'
    <3>1. /\ place[t] = "out"
          /\ lastId' = lastId + 1
          /\ request' = [request EXCEPT ![t] = lastId + 1]
          /\ place' = [place EXCEPT ![t] = "sending"]
      BY <2>1 DEF Begin, NextId
    <3> QED
      BY <3>1, <1>t, <1>i DEF IdsGoOn, IdsApart, NoId
  <2>2. CASE CannotConnect(t) \/ RefusedEarly(t)
    <3>1. /\ lastId' \in {lastId, lastId + 1}
          /\ request' = request
          /\ place[t] = "out"
          /\ place' = [place EXCEPT ![t] = "failed"]
      BY <2>2 DEF CannotConnect, RefusedEarly, NextId
    <3> QED
      BY <3>1, <1>t, <1>i DEF IdsGoOn, IdsApart, NoId
  <2>3. CASE Sent(t)
    <3>1. /\ UNCHANGED <<lastId, request>>
          /\ place[t] = "sending"
          /\ place' = [place EXCEPT ![t] = "receiving"]
      BY <2>3 DEF Sent
    <3> QED
      BY <3>1, <1>t, <1>i DEF IdsGoOn, IdsApart, NoId
  <2>4. CASE SendFails(t) \/ RecvFails(t) \/ Cancelled(t)
    BY <2>4, <2>e DEF SendFails, RecvFails, Cancelled, Places
  <2>5. CASE Receive(t)
    <3>1. lastId' = lastId
      BY <2>5 DEF Receive
    <3>2. \/ UNCHANGED <<place, request>>
          \/ EndTask(t) /\ \E p \in {"done", "failed"} : place' = [place EXCEPT ![t] = p]
      BY <2>5 DEF Receive
    <3> QED
      BY <3>1, <3>2, <2>e, <1>1 DEF Places
  <2> QED
    BY <1>2, <2>1, <2>2, <2>3, <2>4, <2>5 DEF TaskStep
<1>3. ASSUME NEW s \in Sockets, ServerStep(s) PROVE IdsGoOn /\ IdsApart'
  BY <1>3, <1>1 DEF ServerStep, Answer, Push, Drop, taskVars
<1>4. CASE Close \/ (\E s \in Sockets : Closed(s)) \/ UNCHANGED socketVars
  BY <1>4, <1>1 DEF Close, Closed, socketVars, taskVars
<1> QED
  BY <1>2, <1>3, <1>4, StepsOfTheSocket

\* Every id stays with the one that it is for, so what is not new is served
\* apart; what is new comes from a request or from what was asked.
LEMMA ServedApartStep == AnswersSound /\ [Next]_vars => ServedApart'
<1> DEFINE Fine(s) == /\ \A r \in asked[s] : r.id # NoId /\ MadeFor(r.id, r.by)
                      /\ \A f \in Members(inbox[s]) : MadeFor(f.id, f.to)
<1> SUFFICES ASSUME AnswersSound, [Next]_vars, NEW s \in Sockets PROVE Fine(s)'
  BY DEF ServedApart
<1>t. SocketTypeOK /\ SocketTypeOK'
  BY SocketTypesStep DEF AnswersSound, SocketSound
<1>i. IdsGoOn /\ IdsApart
  BY IdsStep DEF AnswersSound
<1>m. ASSUME NEW id \in Nat, NEW who, MadeFor(id, who) PROVE MadeFor(id, who)'
  BY <1>m, <1>t, <1>i, MadeForStays DEF SocketTypeOK
<1>b. inbox[s] \in Seq(Frames) /\ asked[s] \subseteq [id : Nat, by : Tasks]
  BY <1>t DEF SocketTypeOK
<1>a. ASSUME NEW r \in asked[s] PROVE r.id # NoId /\ MadeFor(r.id, r.by)'
  <2>1. r.id \in Nat
    BY <1>b
  <2>2. r.id # NoId /\ MadeFor(r.id, r.by)
    BY DEF AnswersSound, ServedApart
  <2> QED
    BY <2>1, <2>2, <1>m
<1>c. ASSUME NEW f \in Members(inbox[s]) PROVE MadeFor(f.id, f.to)'
  <2>1. f \in Frames
    BY <1>b DEF Members
  <2>2. f.id \in Nat
    BY <2>1 DEF Frames
  <2>3. MadeFor(f.id, f.to)
    BY DEF AnswersSound, ServedApart
  <2> QED
    BY <2>2, <2>3, <1>m
<1>d. ASSUME asked'[s] \subseteq asked[s], Members(inbox'[s]) \subseteq Members(inbox[s])
      PROVE  Fine(s)'
  BY <1>d, <1>a, <1>c DEF Members
<1>u. ASSUME UNCHANGED <<asked, inbox>> PROVE Fine(s)'
  BY <1>u, <1>d
<1>e. ASSUME NEW c, EndConnection(c) PROVE Fine(s)'
  <2>1. /\ asked'[s] \in {asked[s], {}}
        /\ inbox'[s] \in {inbox[s], <<>>}
    BY <1>e, <1>t DEF EndConnection, SocketTypeOK
  <2>2. Members(<<>>) = {}
    BY DEF Members
  <2> QED
    BY <2>1, <2>2, <1>d
<1>1. ASSUME NEW t \in Tasks, Ask(t), place[t] = "sending", inbox' = inbox
      PROVE  Fine(s)'
  <2>1. asked'[s] \subseteq asked[s] \cup {[id |-> request[t], by |-> t]}
    BY <1>1, <1>t DEF Ask, SocketTypeOK
  <2>2. PICK id \in Nat : id = request[t]
    BY <1>t DEF SocketTypeOK
  <2>3. id # NoId /\ MadeFor(id, t)
    BY <1>1, <2>2, <1>i DEF IdsApart, MadeFor
  <2>4. MadeFor(id, t)'
    BY <2>3, <1>m
  <2>5. ASSUME NEW r \in asked'[s] PROVE r.id # NoId /\ MadeFor(r.id, r.by)'
    <3>1. CASE r \in asked[s]
      BY <3>1, <1>a
    <3>2. CASE r = [id |-> id, by |-> t]
      <4>1. r.id = id /\ r.by = t
        BY <3>2
      <4> QED
        BY <4>1, <2>3, <2>4
    <3> QED
      BY <3>1, <3>2, <2>1, <2>2
  <2>6. ASSUME NEW f \in Members(inbox'[s]) PROVE MadeFor(f.id, f.to)'
    BY <1>1, <1>c
  <2> QED
    BY <2>5, <2>6 DEF Members
<1>2. ASSUME NEW t \in Tasks, TaskStep(t) PROVE Fine(s)'
  <2>1. CASE Receive(t)
    <3>1. asked' = asked
      BY <2>1 DEF Receive
    <3>2. inbox'[s] = inbox[s] \/ (inbox[s] # <<>> /\ inbox'[s] = Tail(inbox[s]))
      BY <2>1, <1>t DEF Receive, SocketTypeOK
    <3>3. Members(inbox'[s]) \subseteq Members(inbox[s])
      BY <3>2, <1>b, TailDropsHead
    <3> QED
      BY <3>1, <3>3, <1>d
  <2>2. CASE (\E m \in Methods : Begin(t, m)) \/ CannotConnect(t) \/ RefusedEarly(t) \/ RecvFails(t)
    <3>1. UNCHANGED <<asked, inbox>>
      BY <2>2 DEF Begin, CannotConnect, RefusedEarly, RecvFails, serverVars
    <3> QED
      BY <3>1, <1>u
  <2>3. CASE Sent(t) \/ SendFails(t) \/ Cancelled(t)
    <3>1. inbox' = inbox /\ ((Ask(t) /\ place[t] = "sending") \/ UNCHANGED asked)
      BY <2>3 DEF Sent, SendFails, Cancelled
    <3> QED
      BY <3>1, <1>1, <1>u
  <2> QED
    BY <1>2, <2>1, <2>2, <2>3 DEF TaskStep
<1>f. ASSUME NEW f \in Frames, inbox'[s] = Append(inbox[s], f), MadeFor(f.id, f.to)',
             NEW g \in Members(inbox'[s])
      PROVE  MadeFor(g.id, g.to)'
  <2>1. g \in Members(inbox[s]) \cup {f}
    BY <1>f, <1>b, AppendAddsMember
  <2> QED
    BY <2>1, <1>f, <1>c
<1>3. ASSUME NEW c \in Sockets, ServerStep(c) PROVE Fine(s)'
  <2>1. CASE Answer(c)
    <3>1. PICK r \in asked[c], body \in {"data", "error"}, final \in BOOLEAN :
            /\ inbox' = [inbox EXCEPT ![c] =
                 Append(@, [id |-> r.id, to |-> r.by, body |-> body, final |-> final])]
            /\ asked' = [asked EXCEPT ![c] = IF final THEN @ \ {r} ELSE @]
      BY <2>1 DEF Answer
    <3>2. CASE c # s
      <4>1. asked'[s] = asked[s] /\ inbox'[s] = inbox[s]
        BY <3>1, <3>2, <1>t DEF SocketTypeOK
      <4> QED
        BY <4>1, <1>d
    <3>3. CASE c = s
      <4>r. r \in [id : Nat, by : Tasks]
        BY <3>3, <1>b
      <4> DEFINE f == [id |-> r.id, to |-> r.by, body |-> body, final |-> final]
      <4>1. f \in Frames /\ f.id = r.id /\ f.to = r.by
        BY <4>r DEF Frames
      <4>2. inbox'[s] = Append(inbox[s], f) /\ asked'[s] \subseteq asked[s]
        BY <3>1, <3>3, <1>t DEF SocketTypeOK
      <4>3. MadeFor(f.id, f.to)'
        BY <3>3, <4>1, <1>a
      <4> HIDE DEF f
      <4>4. ASSUME NEW g \in Members(inbox'[s]) PROVE MadeFor(g.id, g.to)'
        BY <4>1, <4>2, <4>3, <1>f
      <4>5. ASSUME NEW q \in asked'[s] PROVE q.id # NoId /\ MadeFor(q.id, q.by)'
        BY <4>2, <1>a
      <4> QED
        BY <4>4, <4>5 DEF Members
    <3> QED
      BY <3>2, <3>3
  <2>2. CASE Push(c)
    <3>1. PICK body \in {"data", "malformed"} :
            inbox' = [inbox EXCEPT ![c] =
              Append(@, [id |-> NoId, to |-> Nobody, body |-> body, final |-> TRUE])]
      BY <2>2 DEF Push
    <3> DEFINE f == [id |-> NoId, to |-> Nobody, body |-> body, final |-> TRUE]
    <3>2. f \in Frames /\ f.id = NoId /\ f.to = Nobody
      BY DEF Frames, NoId
    <3>3. asked' = asked /\ inbox'[s] \in {inbox[s], Append(inbox[s], f)}
      BY <3>1, <2>2, <1>t DEF Push, SocketTypeOK
    <3>4. MadeFor(f.id, f.to)'
      BY <3>2 DEF MadeFor
    <3> HIDE DEF f
    <3>5. CASE inbox'[s] = Append(inbox[s], f)
      <4>1. ASSUME NEW g \in Members(inbox'[s]) PROVE MadeFor(g.id, g.to)'
        BY <3>2, <3>4, <3>5, <1>f
      <4>2. ASSUME NEW q \in asked'[s] PROVE q.id # NoId /\ MadeFor(q.id, q.by)'
        BY <3>3, <1>a
      <4> QED
        BY <4>1, <4>2 DEF Members
    <3> QED
      BY <3>3, <3>5, <1>d
  <2>3. CASE Drop(c)
    BY <2>3, <1>e DEF Drop
  <2> QED
    BY <1>3, <2>1, <2>2, <2>3 DEF ServerStep
<1>4. CASE Close \/ UNCHANGED socketVars
  <2>1. UNCHANGED <<asked, inbox>>
    BY <1>4 DEF Close, socketVars, serverVars
  <2> QED
    BY <2>1, <1>u
<1>5. ASSUME NEW c \in Sockets, Closed(c) PROVE Fine(s)'
  BY <1>5, <1>e DEF Closed
<1> QED
  BY <1>2, <1>3, <1>4, <1>5, StepsOfTheSocket

\* A task takes a frame for its answer only if the frame has its id or none.
LEMMA AnswersAreOwnStep == AnswersSound /\ [Next]_vars => AnswersAreOwn'
<1> SUFFICES ASSUME AnswersSound, [Next]_vars PROVE AnswersAreOwn'
  OBVIOUS
<1>t. SocketTypeOK /\ AnswersAreOwn
  BY DEF AnswersSound, SocketSound
<1>1. CASE UNCHANGED got
  BY <1>1, <1>t DEF AnswersAreOwn
<1>2. ASSUME NEW t \in Tasks, Receive(t) PROVE AnswersAreOwn'
  <2> DEFINE s == sock[t]
             f == Head(inbox[s])
  <2>1. s \in Sockets /\ inbox[s] \in Seq(Frames) /\ inbox[s] # <<>>
    BY <1>2, <1>t, SocketTypesOfConnection DEF AnswersSound, SocketSound, Receive, SocketTypeOK
  <2>2. f \in Members(inbox[s]) /\ f \in Frames
    BY <2>1, TailDropsHead DEF Members
  <2>m. MadeFor(f.id, f.to)
    BY <2>1, <2>2 DEF AnswersSound, ServedApart
  <2>3. PICK v \in Verdicts(t, f) :
          got' = [got EXCEPT ![t] = IF v \in {"done", "more"} THEN {f.to} ELSE {}]
    BY <1>2 DEF Receive
  <2>4. CASE v \in {"done", "more"}
    <3>1. f.id \in {NoId, request[t]}
      BY <2>3, <2>4, <1>t
      DEF Verdicts, DiscoverVerdicts, StreamVerdicts, CallVerdict, Matches, SocketTypeOK, Methods
    <3>2. f.to \in {t, Nobody}
      BY <3>1, <2>m DEF MadeFor
    <3>3. got' = [got EXCEPT ![t] = {f.to}]
      BY <2>3, <2>4
    <3> HIDE DEF f
    <3> QED
      BY <3>2, <3>3, <1>t DEF AnswersAreOwn, SocketTypeOK
  <2>5. CASE v \notin {"done", "more"}
    <3>1. got' = [got EXCEPT ![t] = {}]
      BY <2>3, <2>5
    <3> QED
      BY <3>1, <1>t DEF AnswersAreOwn, SocketTypeOK
  <2> QED
    BY <2>4, <2>5
<1>3. ASSUME NEW t \in Tasks, TaskStep(t) PROVE AnswersAreOwn'
  BY <1>3, <1>1, <1>2
  DEF TaskStep, Begin, CannotConnect, RefusedEarly, Sent, SendFails, RecvFails, Cancelled
<1>4. ASSUME NEW s \in Sockets, ServerStep(s) PROVE AnswersAreOwn'
  BY <1>4, <1>1 DEF ServerStep, Answer, Push, Drop, taskVars
<1>5. CASE Close \/ (\E s \in Sockets : Closed(s)) \/ UNCHANGED socketVars
  BY <1>5, <1>1 DEF Close, Closed, socketVars, taskVars
<1> QED
  BY <1>3, <1>4, <1>5, StepsOfTheSocket

LEMMA AnswersSoundInit == SocketInit => AnswersSound
<1> SUFFICES ASSUME SocketInit PROVE IdsApart /\ ServedApart /\ AnswersAreOwn
  BY SocketSoundInit DEF AnswersSound
<1>1. IdsApart
  BY DEF SocketInit, IdsApart, NoId
<1>2. ServedApart
  BY DEF SocketInit, ServedApart, Members
<1>3. AnswersAreOwn
  BY DEF SocketInit, AnswersAreOwn
<1> QED
  BY <1>1, <1>2, <1>3

LEMMA AnswersSoundStep == AnswersSound /\ [Next]_vars => AnswersSound'
  BY SocketSoundStep, IdsStep, ServedApartStep, AnswersAreOwnStep DEF AnswersSound

\* What a call, a stream or a discovery is given was made for it or for
\* nobody, whatever frames of earlier connections, of cancelled requests and of
\* each other are about.
THEOREM AnswersStayApart == Spec => []AnswersAreOwn
<1>1. Init => AnswersSound
  BY AnswersSoundInit DEF Init
<1>2. AnswersSound => AnswersAreOwn
  BY DEF AnswersSound
<1> QED
  BY <1>1, <1>2, AnswersSoundStep, PTL DEF Spec

\* What NotSkippedAlone says of a step and a task: if it takes a frame off the
\* connection on which t alone receives, and the frame was made for t, then t
\* is given it.
TakenForAlone(t, s) ==
  /\ place[t] = "receiving"
  /\ \A u \in Tasks \ {t} : ~(place[u] = "receiving" /\ sock[u] = s)
  /\ inbox[s] # <<>>
  /\ Head(inbox[s]).to = t
  /\ s \in alive'
  /\ inbox'[s] = Tail(inbox[s])

LEMMA OnlyReceiveTakes ==
  ASSUME AnswersSound, [Next]_vars, NEW t \in Tasks, TakenForAlone(t, sock[t])
  PROVE  Receive(t)
<1> DEFINE s == sock[t]
<1>1. /\ s \in Sockets /\ inbox \in [Sockets -> Seq(Frames)] /\ inbox[s] # <<>>
      /\ inbox'[s] = Tail(inbox[s]) /\ s \in alive'
  <2>1. SocketTypeOK /\ SocketTypeOK' /\ OneConnection'
    BY SocketTypesStep, ConnectionsStep DEF AnswersSound, SocketSound
  <2>2. s \in Sockets
    BY <2>1, SocketTypesOfConnection DEF AnswersSound, SocketSound, TakenForAlone, SocketTypeOK,
      OneConnection, Sockets, NoSocket
  <2> QED
    BY <2>1, <2>2 DEF TakenForAlone, SocketTypeOK
<1>2. inbox'[s] # inbox[s] /\ \A f \in Frames : inbox'[s] # Append(inbox[s], f)
  <2>1. inbox[s] \in Seq(Frames)
    BY <1>1
  <2> QED
    BY <1>1, <2>1, TailIsShorter
<1> HIDE DEF s
<1>3. ASSUME UNCHANGED inbox PROVE FALSE
  BY <1>2, <1>3
<1>4. ASSUME NEW c \in Sockets, NEW f \in Frames, inbox' = [inbox EXCEPT ![c] = Append(@, f)]
      PROVE  FALSE
  BY <1>1, <1>2, <1>4
<1>5. ASSUME NEW c, EndConnection(c) PROVE FALSE
  BY <1>1, <1>2, <1>5 DEF EndConnection
<1>6. ASSUME NEW u \in Tasks, TaskStep(u) PROVE Receive(t)
  <2>1. Receive(u)
    BY <1>6, <1>3
    DEF TaskStep, Begin, CannotConnect, RefusedEarly, Sent, SendFails, RecvFails, Cancelled, serverVars
  <2>2. sock[u] = s /\ place[u] = "receiving"
    BY <2>1, <1>1, <1>2 DEF Receive
  <2>3. u = t
    BY <2>2 DEF TakenForAlone, s
  <2> QED
    BY <2>1, <2>3
<1>7. ASSUME NEW c \in Sockets, ServerStep(c) PROVE FALSE
  <2>1. CASE Answer(c)
    <3>1. PICK r \in asked[c], body \in {"data", "error"}, final \in BOOLEAN :
            inbox' = [inbox EXCEPT ![c] =
              Append(@, [id |-> r.id, to |-> r.by, body |-> body, final |-> final])]
      BY <2>1 DEF Answer
    <3>2. r \in [id : Nat, by : Tasks]
      BY DEF AnswersSound, SocketSound, SocketTypeOK
    <3>3. [id |-> r.id, to |-> r.by, body |-> body, final |-> final] \in Frames
      BY <3>2 DEF Frames
    <3> QED
      BY <3>1, <3>3, <1>4
  <2>2. CASE Push(c)
    <3>1. PICK body \in {"data", "malformed"} :
            inbox' = [inbox EXCEPT ![c] =
              Append(@, [id |-> NoId, to |-> Nobody, body |-> body, final |-> TRUE])]
      BY <2>2 DEF Push
    <3>2. [id |-> NoId, to |-> Nobody, body |-> body, final |-> TRUE] \in Frames
      BY DEF Frames, NoId
    <3> QED
      BY <3>1, <3>2, <1>4
  <2>3. CASE Drop(c)
    BY <2>3, <1>5 DEF Drop
  <2> QED
    BY <1>7, <2>1, <2>2, <2>3 DEF ServerStep
<1>8. CASE Close \/ UNCHANGED socketVars
  BY <1>8, <1>3 DEF Close, socketVars, serverVars
<1>9. CASE \E c \in Sockets : Closed(c)
  BY <1>9, <1>5 DEF Closed
<1> QED
  BY <1>6, <1>7, <1>8, <1>9, StepsOfTheSocket

LEMMA GivenWhatIsItsOwn ==
  ASSUME AnswersSound, NEW t \in Tasks, Receive(t), inbox[sock[t]] # <<>>,
         Head(inbox[sock[t]]).to = t
  PROVE  place'[t] = "failed" \/ got'[t] = {t}
<1> DEFINE s == sock[t]
           f == Head(inbox[s])
<1>t. SocketTypeOK /\ IdsApart
  BY DEF AnswersSound, SocketSound
<1>1. s \in Sockets /\ inbox[s] \in Seq(Frames) /\ inbox[s] # <<>>
  BY <1>t, SocketTypesOfConnection DEF AnswersSound, SocketSound, Receive, SocketTypeOK
<1>2. f \in Members(inbox[s]) /\ f \in Frames
  BY <1>1, TailDropsHead DEF Members
<1>3. f.id = request[t]
  <2>1. MadeFor(f.id, f.to) /\ f.to = t
    BY <1>1, <1>2 DEF AnswersSound, ServedApart
  <2>2. request[t] # NoId
    BY <1>t DEF IdsApart, Receive
  <2> QED
    BY <2>1, <2>2, SocketAssumption DEF MadeFor
<1>4. PICK v \in Verdicts(t, f) :
        /\ got' = [got EXCEPT ![t] = IF v \in {"done", "more"} THEN {f.to} ELSE {}]
        /\ v \in {"done", "failed"} => place' = [place EXCEPT ![t] = v]
  BY DEF Receive
<1>5. v \in {"done", "more", "failed"}
  <2>1. CallVerdict(f, request[t]) \in {"done", "failed"}
    BY <1>2, <1>3 DEF CallVerdict, Matches, Frames
  <2> HIDE DEF f
  <2>2. method[t] \in Methods
    BY <1>t DEF SocketTypeOK
  <2> QED
    BY <2>1, <2>2 DEF Verdicts, DiscoverVerdicts, StreamVerdicts, Methods
<1> HIDE DEF f
<1>6. CASE v \in {"done", "more"}
  BY <1>4, <1>6, <1>t DEF SocketTypeOK, f
<1>7. CASE v = "failed"
  BY <1>4, <1>7, <1>t DEF SocketTypeOK
<1> QED
  BY <1>5, <1>6, <1>7

\* A task that alone receives from its connection does not skip a frame made
\* for it, whatever else is on the way and whoever used the connection before.
THEOREM NeverSkippedAlone == Spec => NotSkippedAlone
<1>1. Init => AnswersSound
  BY AnswersSoundInit DEF Init
<1>2. AnswersSound /\ [Next]_vars =>
        [\A t \in Tasks :
           LET s == sock[t] IN
             (/\ place[t] = "receiving"
              /\ \A u \in Tasks \ {t} : ~(place[u] = "receiving" /\ sock[u] = s)
              /\ inbox[s] # <<>>
              /\ Head(inbox[s]).to = t
              /\ s \in alive'
              /\ inbox'[s] = Tail(inbox[s]))
             => place'[t] = "failed" \/ got'[t] = {t}]_vars
  <2> SUFFICES ASSUME AnswersSound, [Next]_vars, NEW t \in Tasks, TakenForAlone(t, sock[t])
               PROVE  place'[t] = "failed" \/ got'[t] = {t}
    BY DEF TakenForAlone
  <2>1. Receive(t)
    BY OnlyReceiveTakes
  <2> QED
    BY <2>1, GivenWhatIsItsOwn DEF TakenForAlone
<1> QED
  BY <1>1, <1>2, AnswersSoundStep, PTL DEF Spec, NotSkippedAlone
-----------------------------------------------------------------------------
(* The permits *)

BatchTypeOK ==
  /\ phase \in {"before", "gathering", "cancelling"} \cup Over
  /\ collect \in BOOLEAN
  /\ stage \in [Calls -> {"none", "new", "waiting", "granted", "inside", "ended"}]
  /\ permits \in Nat
  /\ waiters \in Seq(Calls)
  /\ cancelling \subseteq Calls

\* The calls that have a permit.
Holders == {i \in Calls : stage[i] \in {"inside", "granted"}}

\* Nothing has begun before the batch; who waits for a permit is in the queue
\* once; and once something is cancelled all that has not ended is.
Orderly ==
  /\ phase = "before" => /\ waiters = <<>> /\ cancelling = {}
                          /\ \A i \in Calls : stage[i] = "none"
  /\ \A j \in DOMAIN waiters : stage[waiters[j]] = "waiting"
  /\ \A j, k \in DOMAIN waiters : waiters[j] = waiters[k] => j = k
  /\ cancelling # {} => waiters = <<>> /\ \A i \in Calls \ cancelling : stage[i] = "ended"

Permitted ==
  /\ permits + Cardinality(Holders) = MaxConcurrency
  /\ waiters # <<>> => permits = 0

BatchSound == BatchTypeOK /\ Orderly /\ Permitted

LEMMA HoldersFinite == IsFiniteSet(Holders) /\ Cardinality(Holders) \in Nat
<1>1. IsFiniteSet(Calls)
  BY FanOutAssumption, FS_Interval DEF Calls
<1>2. Holders \subseteq Calls
  BY DEF Holders
<1> QED
  BY <1>1, <1>2, FS_Subset, FS_CardinalityType

\* What becomes of the number of holders.
LEMMA OneMoreOrLess ==
  ASSUME NEW H, IsFiniteSet(H), NEW p \in Nat, NEW m \in Nat, p + Cardinality(H) = m
  PROVE  /\ \A x : x \notin H /\ p > 0 => (p - 1) + Cardinality(H \cup {x}) = m
         /\ \A x \in H : (p + 1) + Cardinality(H \ {x}) = m
         /\ \A x \in H : \A y : y \notin H => p + Cardinality((H \ {x}) \cup {y}) = m
<1>1. Cardinality(H) \in Nat
  BY FS_CardinalityType
<1>2. ASSUME NEW x, x \notin H PROVE Cardinality(H \cup {x}) = Cardinality(H) + 1
  BY <1>2, FS_AddElement
<1>3. ASSUME NEW x \in H PROVE Cardinality(H \ {x}) = Cardinality(H) - 1 /\ IsFiniteSet(H \ {x})
  BY FS_RemoveElement
<1>4. ASSUME NEW x \in H, NEW y, y \notin H
      PROVE  Cardinality((H \ {x}) \cup {y}) = Cardinality(H)
  <2>1. Cardinality((H \ {x}) \cup {y}) = Cardinality(H \ {x}) + 1
    BY <1>3, <1>4, FS_AddElement
  <2> QED
    BY <1>1, <1>3, <2>1
<1> QED
  BY <1>1, <1>2, <1>3, <1>4

LEMMA HandOnKeeps ==
  ASSUME BatchSound, NEW i \in Holders, HandOn(i), UNCHANGED cancelling,
         cancelling = {} \/ i \notin cancelling,
         phase' \in ({"gathering", "cancelling"} \cup Over), collect' \in BOOLEAN
  PROVE  BatchSound'
<1>h. IsFiniteSet(Holders) /\ permits \in Nat /\ MaxConcurrency \in Nat
      /\ permits + Cardinality(Holders) = MaxConcurrency
  BY HoldersFinite, FanOutAssumption DEF BatchSound, BatchTypeOK, Permitted
<1>i. i \in Calls /\ stage[i] \in {"inside", "granted"} /\ cancelling = {}
  BY DEF Holders, BatchSound, Orderly
<1> USE DEF BatchSound, BatchTypeOK
<1>1. CASE waiters = <<>>
  <2>1. /\ permits' = permits + 1
        /\ stage' = [stage EXCEPT ![i] = "ended"]
        /\ waiters' = <<>>
    BY <1>1 DEF HandOn
  <2>2. Holders' = Holders \ {i}
    BY <2>1 DEF Holders
  <2>3. Permitted'
    BY <1>h, <2>1, <2>2, OneMoreOrLess DEF Permitted
  <2>d. DOMAIN <<>> = {}
    OBVIOUS
  <2>4. DOMAIN waiters' = {} /\ cancelling' = {} /\ phase' # "before"
    BY <2>1, <2>d, <1>i DEF Over
  <2>5. Orderly'
    BY <2>4 DEF Orderly
  <2>6. BatchTypeOK'
    <3>1. permits' \in Nat /\ waiters' \in Seq(Calls)
      BY <2>1, <1>h
    <3>2. stage' \in [Calls -> {"none", "new", "waiting", "granted", "inside", "ended"}]
      BY <2>1
    <3> QED
      BY <3>1, <3>2
  <2> QED
    BY <2>3, <2>5, <2>6
<1>2. CASE waiters # <<>>
  <2> DEFINE w == Head(waiters)
  <2>0. /\ w \in Calls /\ stage[w] = "waiting" /\ w # i
        /\ Tail(waiters) \in Seq(Calls)
        /\ \A j \in DOMAIN Tail(waiters) : j + 1 \in DOMAIN waiters /\ Tail(waiters)[j] = waiters[j + 1]
        /\ 1 \in DOMAIN waiters /\ w = waiters[1]
    <3>1. Tail(waiters) \in Seq(Calls) /\ 1 \in DOMAIN waiters /\ w = waiters[1]
      BY <1>2, HeadTailProperties
    <3>2. \A j \in DOMAIN Tail(waiters) : j + 1 \in DOMAIN waiters /\ Tail(waiters)[j] = waiters[j + 1]
      BY <1>2, HeadTailProperties
    <3>3. w \in Calls /\ stage[w] = "waiting"
      BY <3>1 DEF Orderly
    <3> HIDE DEF w
    <3> QED
      BY <3>1, <3>2, <3>3, <1>i
  <2> HIDE DEF w
  <2>1. /\ permits' = permits
        /\ stage' = [stage EXCEPT ![i] = "ended", ![w] = "granted"]
        /\ waiters' = Tail(waiters)
    BY <1>2 DEF HandOn, w
  <2>2. Holders' = (Holders \ {i}) \cup {w} /\ w \notin Holders
    BY <2>0, <2>1, <1>i DEF Holders
  <2>3. Permitted'
    <3>1. permits = 0
      BY <1>2 DEF Permitted
    <3> QED
      BY <3>1, <1>h, <2>1, <2>2, OneMoreOrLess DEF Permitted
  <2>4. \A j \in DOMAIN waiters' :
          /\ j + 1 \in DOMAIN waiters
          /\ waiters'[j] = waiters[j + 1]
          /\ waiters'[j] # w
          /\ stage[waiters'[j]] = "waiting"
    <3>1. ASSUME NEW j \in DOMAIN waiters'
          PROVE  /\ j + 1 \in DOMAIN waiters
                 /\ waiters'[j] = waiters[j + 1]
                 /\ j + 1 # 1
      <4>1. j \in Nat \ {0}
        BY <2>0, <2>1
      <4> QED
        BY <2>0, <2>1, <4>1
    <3> QED
      BY <3>1, <2>0 DEF Orderly
  <2>5. Orderly'
    <3>1. \A j \in DOMAIN waiters' : waiters'[j] \in Calls /\ stage'[waiters'[j]] = "waiting"
      <4>1. ASSUME NEW j \in DOMAIN waiters' PROVE waiters'[j] \in Calls \ {i, w}
        BY <2>4, <1>i
      <4> QED
        BY <4>1, <2>1, <2>4
    <3>2. \A j, k \in DOMAIN waiters' : waiters'[j] = waiters'[k] => j = k
      <4>1. ASSUME NEW j \in DOMAIN waiters', NEW k \in DOMAIN waiters', waiters'[j] = waiters'[k]
            PROVE  j = k
        <5>1. j + 1 = k + 1
          BY <4>1, <2>4 DEF Orderly
        <5>2. j \in Nat /\ k \in Nat
          BY <2>0, <2>1
        <5> QED
          BY <5>1, <5>2
      <4> QED
        BY <4>1
    <3> QED
      BY <3>1, <3>2, <1>i DEF Orderly, Over
  <2> QED
    BY <2>0, <2>1, <2>3, <2>5
<1> QED
  BY <1>1, <1>2

LEMMA BatchSoundInit == Init => BatchSound
<1> SUFFICES ASSUME Init PROVE BatchSound
  OBVIOUS
<1>1. Holders = {}
  BY DEF Init, Holders
<1>2. Permitted
  BY <1>1, FS_EmptySet, FanOutAssumption DEF Init, Permitted
<1>3. DOMAIN waiters = {} /\ cancelling = {} /\ waiters = <<>>
  BY DEF Init
<1>4. Orderly
  BY <1>3 DEF Init, Orderly
<1>5. waiters \in Seq(Calls) /\ permits \in Nat
  BY FanOutAssumption DEF Init
<1>6. BatchTypeOK
  BY <1>5 DEF Init, BatchTypeOK
<1> QED
  BY <1>2, <1>4, <1>6 DEF BatchSound

\* The phase that gather makes of the end of a call.
LEMMA GatheredGoesOn ==
  ASSUME NEW i, BatchTypeOK, Gathered(i)
  PROVE  /\ phase' \in {"before", "gathering", "cancelling"} \cup Over
         /\ phase # "before" => phase' # "before"
  BY DEF BatchTypeOK, Gathered, Over

LEMMA StartKeeps ==
  ASSUME BatchSound, NEW i \in Calls, Start(i)
  PROVE  BatchSound'
<1>h. /\ IsFiniteSet(Holders) /\ permits \in Nat /\ MaxConcurrency \in Nat
      /\ permits + Cardinality(Holders) = MaxConcurrency
  BY HoldersFinite, FanOutAssumption DEF BatchSound, BatchTypeOK, Permitted
<1>i. /\ stage[i] = "new" /\ i \notin Holders
      /\ cancelling = {} /\ cancelling' = {} /\ phase # "before"
  BY DEF Start, BatchSound, Orderly, Holders
<1>d. DOMAIN <<>> = {}
  OBVIOUS
<1> USE DEF BatchSound, BatchTypeOK
<1>p. /\ phase' \in {"before", "gathering", "cancelling"} \cup Over /\ phase' # "before"
      /\ collect' \in BOOLEAN
  BY <1>i, GatheredGoesOn DEF Start
<1>1. CASE Free /\ permits' = permits - 1 /\ waiters' = waiters /\ stage' = [stage EXCEPT ![i] = "inside"]
  <2>0. permits > 0 /\ waiters' = <<>> /\ DOMAIN waiters' = {}
    BY <1>1, <1>d DEF Free
  <2>1. Holders' = Holders \cup {i}
    BY <1>1 DEF Holders
  <2>2. Permitted'
    BY <1>1, <1>h, <1>i, <2>0, <2>1, OneMoreOrLess DEF Permitted
  <2>3. Orderly'
    BY <2>0, <1>i, <1>p DEF Orderly
  <2>4. permits' \in Nat
    BY <1>1, <1>h, <2>0
  <2> QED
    BY <1>1, <2>2, <2>3, <2>4, <1>i, <1>p
<1>2. CASE Free /\ UNCHANGED <<permits, waiters>> /\ stage' = [stage EXCEPT ![i] = "ended"]
  <2>0. waiters' = <<>> /\ DOMAIN waiters' = {}
    BY <1>2, <1>d DEF Free
  <2>1. Holders' = Holders
    BY <1>2, <1>i DEF Holders
  <2>2. Permitted'
    BY <1>2, <1>h, <2>1 DEF Permitted
  <2>3. Orderly'
    BY <2>0, <1>i, <1>p DEF Orderly
  <2> QED
    BY <1>2, <2>2, <2>3, <1>i, <1>p
<1>3. CASE ~Free /\ permits' = permits /\ waiters' = Append(waiters, i)
              /\ stage' = [stage EXCEPT ![i] = "waiting"]
  <2>1. Holders' = Holders
    BY <1>3, <1>i DEF Holders
  <2>2. permits = 0
    BY <1>3, <1>h DEF Free, Permitted
  <2>3. Permitted'
    BY <1>3, <1>h, <2>1, <2>2 DEF Permitted
  <2>4. \A j \in DOMAIN waiters' :
          \/ j \in DOMAIN waiters /\ waiters'[j] = waiters[j] /\ waiters'[j] # i
          \/ j = Len(waiters) + 1 /\ waiters'[j] = i
    <3>1. \A j \in DOMAIN waiters' :
            \/ j \in DOMAIN waiters /\ waiters'[j] = waiters[j]
            \/ j = Len(waiters) + 1 /\ waiters'[j] = i
      BY <1>3
    <3> QED
      BY <3>1, <1>i DEF Orderly
  <2>5. \A j \in DOMAIN waiters' : stage'[waiters'[j]] = "waiting"
    <3>1. \A j \in DOMAIN waiters : waiters[j] \in Calls
      OBVIOUS
    <3> QED
      BY <2>4, <3>1, <1>3 DEF Orderly
  <2>6. \A j, k \in DOMAIN waiters' : waiters'[j] = waiters'[k] => j = k
    BY <2>4 DEF Orderly
  <2>7. Orderly'
    BY <2>5, <2>6, <1>i, <1>p DEF Orderly
  <2> QED
    BY <1>3, <2>3, <2>7, <1>i, <1>p
<1> QED
  BY <1>1, <1>2, <1>3 DEF Start

LEMMA UnwindKeeps ==
  ASSUME BatchSound, NEW i \in Calls, Unwind(i)
  PROVE  BatchSound'
<1>h. /\ IsFiniteSet(Holders) /\ permits \in Nat /\ MaxConcurrency \in Nat
      /\ permits + Cardinality(Holders) = MaxConcurrency
  BY HoldersFinite, FanOutAssumption DEF BatchSound, BatchTypeOK, Permitted
<1> USE DEF BatchSound, BatchTypeOK
<1>1. /\ waiters = <<>> /\ waiters' = <<>> /\ DOMAIN waiters' = {}
      /\ cancelling' = cancelling
      /\ \A j \in Calls \ cancelling : stage[j] = "ended"
      /\ stage' = [stage EXCEPT ![i] = "ended"]
      /\ collect' = collect
  <2>1. DOMAIN <<>> = {}
    OBVIOUS
  <2> QED
    BY <2>1 DEF Unwind, Orderly
<1>2. phase' \in {"before", "gathering", "cancelling"} \cup Over /\ phase' # "before"
  <2>1. phase # "before"
    BY DEF Unwind, Orderly
  <2> QED
    BY <2>1 DEF Unwind, Over
<1>3. Orderly'
  BY <1>1, <1>2 DEF Orderly
<1>4. permits' \in Nat /\ Permitted'
  <2>1. CASE stage[i] \in {"granted", "inside"}
    <3>1. permits' = permits + 1 /\ Holders' = Holders \ {i} /\ i \in Holders
      BY <1>1, <2>1 DEF Unwind, Holders
    <3> QED
      BY <3>1, <1>h, <1>1, OneMoreOrLess DEF Permitted
  <2>2. CASE stage[i] \notin {"granted", "inside"}
    <3>1. permits' = permits /\ Holders' = Holders
      BY <1>1, <2>2 DEF Unwind, Holders
    <3> QED
      BY <3>1, <1>h, <1>1 DEF Permitted
  <2> QED
    BY <2>1, <2>2
<1>5. BatchTypeOK'
  BY <1>1, <1>2, <1>4
<1> QED
  BY <1>3, <1>4, <1>5

LEMMA BatchSoundStep == BatchSound /\ [Next]_vars => BatchSound'
<1> SUFFICES ASSUME BatchSound, [Next]_vars PROVE BatchSound'
  OBVIOUS
<1>u. ASSUME UNCHANGED batchVars PROVE BatchSound'
  BY <1>u DEF batchVars, BatchSound, BatchTypeOK, Orderly, Permitted, Holders
<1>1. CASE Gather
  <2>1. /\ stage' = [i \in Calls |-> "new"]
        /\ Holders = {} /\ Holders' = {}
        /\ waiters = <<>> /\ UNCHANGED <<waiters, permits>>
    BY <1>1 DEF Gather, BatchSound, Orderly, Holders
  <2>2. /\ phase' \in {"gathering", "timed out"}
        /\ cancelling' \in {{}, Calls}
        /\ collect' \in BOOLEAN
    BY <1>1 DEF Gather, BatchSound, Orderly
  <2>3. DOMAIN <<>> = {}
    OBVIOUS
  <2>4. Orderly'
    BY <2>1, <2>2, <2>3 DEF Orderly
  <2> QED
    BY <2>1, <2>2, <2>4 DEF BatchSound, BatchTypeOK, Permitted, Over
<1>2. CASE BudgetEnds
  <2>1. /\ Holders' = Holders
        /\ waiters' = <<>> /\ cancelling' = Calls \ Ended /\ phase' = "cancelling"
        /\ UNCHANGED <<collect, stage, permits>>
    BY <1>2 DEF BudgetEnds, Holders
  <2>2. DOMAIN <<>> = {} /\ <<>> \in Seq(Calls)
    OBVIOUS
  <2>3. Orderly'
    BY <2>1, <2>2 DEF Orderly, Ended
  <2>4. BatchTypeOK' /\ Permitted'
    BY <2>1, <2>2 DEF BatchSound, BatchTypeOK, Permitted
  <2> QED
    BY <2>3, <2>4 DEF BatchSound
<1>3. ASSUME NEW i \in Calls, Start(i) PROVE BatchSound'
  BY <1>3, StartKeeps
<1>4. ASSUME NEW i \in Calls, Resume(i) PROVE BatchSound'
  <2>1. /\ i \in Holders /\ i \notin cancelling /\ phase # "before"
        /\ UNCHANGED <<collect, cancelling>>
    BY <1>4 DEF Resume, Holders, BatchSound, Orderly
  <2>2. CASE HandOn(i) /\ Gathered(i)
    <3>1. phase' \in {"gathering", "cancelling"} \cup Over
      BY <2>1, <2>2, GatheredGoesOn DEF BatchSound
    <3>2. collect' \in BOOLEAN
      BY <2>1 DEF BatchSound, BatchTypeOK
    <3> QED
      BY <2>1, <2>2, <3>1, <3>2, HandOnKeeps
  <2>3. CASE stage' = [stage EXCEPT ![i] = "inside"] /\ UNCHANGED <<phase, permits, waiters>>
    <3>1. Holders' = Holders
      BY <1>4, <2>1, <2>3 DEF Resume, Holders, BatchSound, BatchTypeOK
    <3>2. Permitted'
      BY <2>3, <3>1 DEF BatchSound, Permitted
    <3>3. stage[i] = "granted"
      BY <1>4 DEF Resume
    <3>4. /\ stage' \in [Calls -> {"none", "new", "waiting", "granted", "inside", "ended"}]
          /\ \A j \in Calls \ {i} : stage'[j] = stage[j]
      BY <2>3 DEF BatchSound, BatchTypeOK
    <3>5. \A j \in DOMAIN waiters' : stage'[waiters'[j]] = "waiting"
      <4>1. \A j \in DOMAIN waiters : waiters[j] \in Calls
        BY DEF BatchSound, BatchTypeOK
      <4> QED
        BY <4>1, <2>3, <3>3, <3>4 DEF BatchSound, Orderly
    <3>6. \A j \in Calls \ cancelling' : cancelling' # {} => stage'[j] = "ended"
      BY <2>1, <3>3, <3>4 DEF BatchSound, Orderly, Holders
    <3>7. Orderly'
      BY <2>1, <2>3, <3>5, <3>6 DEF BatchSound, Orderly
    <3> QED
      BY <2>1, <2>3, <3>2, <3>4, <3>7 DEF BatchSound, BatchTypeOK
  <2> QED
    BY <1>4, <2>2, <2>3 DEF Resume
<1>5. ASSUME NEW i \in Calls, Work(i) PROVE BatchSound'
  <2>1. /\ i \in Holders /\ i \notin cancelling /\ phase # "before"
    BY <1>5 DEF Work, Holders, BatchSound, Orderly
  <2>2. CASE HandOn(i) /\ Gathered(i) /\ UNCHANGED <<collect, cancelling>>
    <3>1. phase' \in {"gathering", "cancelling"} \cup Over
      BY <2>1, <2>2, GatheredGoesOn DEF BatchSound
    <3>2. collect' \in BOOLEAN
      BY <2>2 DEF BatchSound, BatchTypeOK
    <3> QED
      BY <2>1, <2>2, <3>1, <3>2, HandOnKeeps
  <2> QED
    BY <1>5, <2>2, <1>u DEF Work, Leave
<1>6. ASSUME NEW i \in Calls, Unwind(i) PROVE BatchSound'
  BY <1>6, UnwindKeeps
<1>7. CASE Surroundings \/ UNCHANGED vars
  BY <1>7, <1>u DEF Surroundings, vars
<1> QED
  BY <1>1, <1>2, <1>3, <1>4, <1>5, <1>6, <1>7 DEF Next, Step

\* No permit is lost or made up, whatever becomes of the calls, so that at most
\* max_concurrency of them are in the transport, and none waits while one is
\* free.
THEOREM PermitsAreKept == Spec => []PermitsKept
<1>1. BatchSound => PermitsKept
  <2>1. Inside \cup Granted = Holders
    BY DEF Inside, Granted, Holders
  <2> QED
    BY <2>1 DEF BatchSound, Permitted, PermitsKept
<1> QED
  BY <1>1, BatchSoundInit, BatchSoundStep, PTL DEF Spec

\* The type invariant, of the connections and of the batch, for any number of
\* tasks, connections, closes and frames.
THEOREM FanOutTypeCorrect == Spec => []TypeOK
<1>1. Init => SocketSound /\ BatchSound
  BY SocketSoundInit, BatchSoundInit DEF Init
<1>2. SocketSound /\ BatchSound /\ [Next]_vars => (SocketSound /\ BatchSound)'
  BY SocketSoundStep, BatchSoundStep
<1>3. SocketSound /\ BatchSound => TypeOK
  <2> SUFFICES ASSUME SocketSound, BatchSound PROVE permits \in 0..MaxConcurrency
    BY DEF TypeOK, SocketSound, BatchSound, BatchTypeOK
  <2>1. /\ Cardinality(Holders) \in Nat /\ permits \in Nat
        /\ permits + Cardinality(Holders) = MaxConcurrency
    BY HoldersFinite DEF BatchSound, BatchTypeOK, Permitted
  <2>2. ASSUME NEW c \in Nat, NEW p \in Nat, NEW m, p + c = m PROVE p \in 0..m
    BY <2>2
  <2> QED
    BY <2>1, <2>2
<1> QED
  BY <1>1, <1>2, <1>3, PTL DEF Spec
-----------------------------------------------------------------------------
(* The end of the budget *)

\* When the budget has ended all that has not ended is cancelled.
Expired ==
  phase \in {"cancelling", "timed out"} => \A i \in Calls \ cancelling : stage[i] = "ended"

LEMMA ExpiredStep == BatchSound /\ Expired /\ [Next]_vars => Expired'
<1> SUFFICES ASSUME BatchSound, Expired, [Next]_vars, phase' \in {"cancelling", "timed out"},
                    NEW j \in Calls \ cancelling'
             PROVE  stage'[j] = "ended"
  BY DEF Expired
<1>t. stage \in [Calls -> {"none", "new", "waiting", "granted", "inside", "ended"}]
  BY DEF BatchSound, BatchTypeOK
<1>1. CASE Gather
  BY <1>1 DEF Gather
<1>2. CASE BudgetEnds
  BY <1>2 DEF BudgetEnds, Ended
<1>3. ASSUME NEW i \in Calls, Start(i) \/ Resume(i) \/ Work(i) PROVE FALSE
  <2>1. i \notin cancelling /\ stage[i] # "ended"
    BY <1>3 DEF Start, Resume, Work
  <2>2. phase \notin {"cancelling", "timed out"}
    BY <2>1 DEF Expired
  <2>3. phase' = phase \/ Gathered(i)
    BY <1>3 DEF Start, Resume, Work, Leave, batchVars
  <2>4. phase' \notin {"cancelling", "timed out"}
    BY <2>2, <2>3 DEF Gathered
  <2> QED
    BY <2>4
<1>4. ASSUME NEW i \in Calls, Unwind(i) PROVE stage'[j] = "ended"
  <2>1. cancelling # {} /\ cancelling' = cancelling /\ stage' = [stage EXCEPT ![i] = "ended"]
    BY <1>4 DEF Unwind
  <2>2. stage[j] = "ended"
    BY <2>1 DEF BatchSound, Orderly
  <2> QED
    BY <2>1, <2>2, <1>t
<1>5. CASE Surroundings \/ UNCHANGED vars
  BY <1>5 DEF Surroundings, vars, batchVars, Expired
<1> QED
  BY <1>1, <1>2, <1>3, <1>4, <1>5 DEF Next, Step

\* What TimeoutStops says of a step.
Stopped(i) ==
  /\ request'[i] \in {request[i], NoId}
  /\ got'[i] = got[i]
  /\ place'[i] \in {place[i], "cancelled"}

LEMMA StoppedByTimeout ==
  ASSUME SocketSound, BatchSound, Expired, [Next]_vars, phase = "timed out", NEW i \in Calls
  PROVE  Stopped(i)
<1>t. /\ place \in [Tasks -> Places] /\ request \in [Tasks -> Nat]
      /\ got \in [Tasks -> SUBSET (Tasks \cup {Nobody})] /\ i \in Tasks
  BY FanOutAssumption DEF SocketSound, SocketTypeOK
<1>u. ASSUME UNCHANGED taskVars PROVE Stopped(i)
  BY <1>u DEF taskVars, Stopped
<1>1. CASE Gather \/ BudgetEnds \/ UNCHANGED vars
  BY <1>1, <1>u DEF Gather, BudgetEnds, vars, socketVars
<1>2. ASSUME NEW j \in Calls, Step(j) PROVE Stopped(i)
  <2>1. CASE Start(j) \/ Resume(j) \/ Work(j)
    BY <2>1 DEF Start, Resume, Work, Expired
  <2>2. CASE Unwind(j)
    BY <2>2, <1>t DEF Unwind, Cancelled, EndTask, Stopped
  <2> QED
    BY <1>2, <2>1, <2>2 DEF Step
<1>3. ASSUME NEW t \in Others, OtherBegins(t) \/ OtherWorks(t) PROVE Stopped(i)
  <2>1. t # i
    BY DEF Others
  <2>2. /\ place'[i] = place[i]
        /\ request'[i] = request[i]
        /\ got'[i] = got[i]
    BY <1>3, <1>t, <2>1
    DEF OtherBegins, OtherWorks, Begin, CannotConnect, Sent, SendFails, Receive, RecvFails, EndTask
  <2> QED
    BY <2>2 DEF Stopped
<1>4. CASE Close \/ \E s \in Sockets : Closed(s) \/ Answer(s) \/ Push(s) \/ Drop(s)
  BY <1>4, <1>u DEF Close, Closed, Answer, Push, Drop
<1> QED
  BY <1>1, <1>2, <1>3, <1>4 DEF Next, Surroundings

\* After its timeout no call of a batch sends, is answered or ends otherwise
\* than cancelled, wherever the calls were when the budget ended.
THEOREM TimeoutStopsAll == Spec => TimeoutStops
<1>1. Init => SocketSound /\ BatchSound /\ Expired
  BY SocketSoundInit, BatchSoundInit DEF Init, Expired
<1>2. SocketSound /\ BatchSound /\ Expired /\ [Next]_vars
        => (SocketSound /\ BatchSound /\ Expired)'
  BY SocketSoundStep, BatchSoundStep, ExpiredStep
<1>3. SocketSound /\ BatchSound /\ Expired /\ [Next]_vars
        => [phase = "timed out" =>
              \A i \in Calls :
                /\ request'[i] \in {request[i], NoId}
                /\ got'[i] = got[i]
                /\ place'[i] \in {place[i], "cancelled"}]_vars
  BY StoppedByTimeout DEF Stopped
<1> QED
  BY <1>1, <1>2, <1>3, PTL DEF Spec, TimeoutStops
=============================================================================
