----------------------------- MODULE SSEParser -----------------------------
(***************************************************************************)
(* The parser of server-sent events (SSEParser in transports/sse.py), and  *)
(* what the events of a whole response are.                                *)
(*                                                                         *)
(* A text is a sequence of symbols: the newline, the field name "data:",   *)
(* the field name of anything else (comments included), a character of one *)
(* byte, and the two bytes of a longer one.  A chunk boundary inside a     *)
(* field name is nothing new, as the buffer is only ever appended to.  The *)
(* fields event and id do not matter.  An event is the sequence of its     *)
(* data lines.                                                             *)
(***************************************************************************)
EXTENDS Lists

LOCAL INSTANCE SequencesExt

NL == "nl"
Data == "data:"
Symbols == {NL, Data, "other:", "x", "c1", "c2"}

\* Another symbol begins a line or belongs to the last one.
NextSymbol ==
  [p \in Seq(Seq(Symbols)) \X Symbols |->
     LET lines == p[1]  c == p[2] IN
     IF c = NL THEN Append(lines, <<>>)
     ELSE [lines EXCEPT ![Len(lines)] = Append(@, c)]]

\* text.split("\n")
LinesOf(text) == Folded(NextSymbol, << <<>> >>, text)

IsData(line) == line # <<>> /\ Head(line) = Data

\* _parse_frame: the event of a frame, as a sequence of one or none.
EventOf(frame) ==
  LET lines == Only(LinesOf(frame), {l \in Seq(Symbols) : IsData(l)})
  IN  IF lines = <<>> THEN <<>> ELSE << [i \in DOMAIN lines |-> Tail(lines[i])] >>

\* Lines that end an event at every newline.
Blank_AnyLine(text) ==
  LET at == {i \in 1..Len(text) - 1 : text[i] = NL}
  IN  IF at = {} THEN 0 ELSE CHOOSE i \in at : \A j \in at : i <= j

\* Where the first blank line begins, or 0.
Blank(text) ==
  LET at == {i \in 1..Len(text) - 1 : text[i] = NL /\ text[i + 1] = NL}
  IN  IF at = {} THEN 0 ELSE CHOOSE i \in at : \A j \in at : i <= j

\* The loop of feed: the events of the frames that are complete in the buffer,
\* and what stays there.
Events[text \in Seq(Symbols)] ==
  IF Blank(text) = 0 THEN <<>>
  ELSE EventOf(SubSeq(text, 1, Blank(text) - 1))
         \o Events[SubSeq(text, Blank(text) + 2, Len(text))]

Kept[text \in Seq(Symbols)] ==
  IF Blank(text) = 0 THEN text
  ELSE Kept[SubSeq(text, Blank(text) + 2, Len(text))]

\* Only the first frame of a chunk is cut off the buffer.
Buffered_FirstFrame(text) ==
  IF Blank(text) = 0 THEN text ELSE SubSeq(text, Blank(text) + 2, Len(text))

\* What feed leaves in the buffer: nothing of a frame that is complete.
Buffered(text) == Kept[text]

\* A text of white space only.
IsBlank(text) == \A i \in DOMAIN text : text[i] = NL

\* chunk.decode("utf-8") does not raise: no character is cut in two.
Decodable(chunk) ==
  /\ chunk # <<>> => Head(chunk) # "c2" /\ Last(chunk) # "c1"
  /\ \A i \in 1..Len(chunk) - 1 : chunk[i] = "c1" <=> chunk[i + 1] = "c2"

\* flush, at the end of the response.
Flush(buffer) == EventOf(buffer)

-----------------------------------------------------------------------------
\* The events of a response, read line by line: an empty line, and the end of
\* the response, end the event whose data lines have come before.
Ended(read) ==
  [lines |-> <<>>,
   events |-> IF read.lines = <<>> THEN read.events ELSE Append(read.events, read.lines)]

NextLine ==
  [p \in [lines : Seq(Seq(Symbols)), events : Seq(Seq(Seq(Symbols)))] \X Seq(Symbols) |->
     LET read == p[1]  line == p[2] IN
     CASE line = <<>>  -> Ended(read)
       [] IsData(line) -> [read EXCEPT !.lines = Append(@, Tail(line))]
       [] OTHER        -> read]

EventsOf(response) ==
  Ended(Folded(NextLine, [lines |-> <<>>, events |-> <<>>], LinesOf(response))).events
=============================================================================
