------------------------ MODULE SharedBudget_proofs ------------------------
(***************************************************************************)
(* Proofs about SharedBudget: reads keep to the budget, nothing that comes *)
(* after it is given, no operation leaves a connection behind, and what is *)
(* given is the response, however it is cut.  The last rests on facts      *)
(* about the parser, by induction over texts: feed takes the events of a   *)
(* text, and leaves those of what it keeps and of what comes after it.     *)
(***************************************************************************)
EXTENDS SharedBudget, Lists_proofs, TLAPS

LOCAL INSTANCE SequencesExt

-----------------------------------------------------------------------------
(* The three ways in which a step of a running operation can end. *)

Ends == \E o : End(o) \/ Leave(o)

Pauses ==
  /\ place' = "paused"
  /\ until' = 0
  /\ UNCHANGED <<open, deferred>>

ReadsOn == \E r : ReadOn(r)

Turn ==
  /\ UNCHANGED <<now, async, steps, doing>>
  /\ Ends \/ Pauses \/ ReadsOn

LEMMA YieldTurns == ASSUME NEW i, NEW r, Yield(i, r) PROVE Ends \/ Pauses
  BY DEF Yield, Ends, Pauses

LEMMA GiveTurns == ASSUME NEW i, Give(i) PROVE Ends
  BY DEF Give, Ends

LEMMA ChunkTurns ==
  ASSUME NEW chunk, NEW r,
         Drain(chunk, r) \/ YieldChunk(chunk, r) \/ Feed(chunk, r)
  PROVE  Ends \/ Pauses \/ ReadsOn
<1>1. CASE Drain(chunk, r)
  BY <1>1 DEF Drain, ReadsOn
<1>2. CASE YieldChunk(chunk, r)
  BY <1>2, YieldTurns DEF YieldChunk, Ends
<1>3. CASE Feed(chunk, r)
  BY <1>3, YieldTurns DEF Feed, Ends, ReadsOn
<1> QED
  BY <1>1, <1>2, <1>3

LEMMA EndTurns == ASSUME Decode \/ Finish PROVE Ends \/ Pauses
<1>1. CASE Decode
  BY <1>1, GiveTurns DEF Decode, Ends
<1>2. CASE Finish
  BY <1>2, GiveTurns, YieldTurns DEF Finish, Ends
<1> QED
  BY <1>1, <1>2

\* Every step of a running operation is a turn.
LEMMA StepsAreTurns ==
  ASSUME Responded \/ Fails \/ Read \/ ReadEnd \/ Resume \/ Abandon \/ Cancel
  PROVE  Turn /\ place # "between"
<1>1. CASE Responded
  BY <1>1, GiveTurns DEF Responded, Turn, Ends, ReadsOn
<1>2. CASE Fails \/ Abandon \/ Cancel
  BY <1>2 DEF Fails, Abandon, Cancel, Turn, Ends
<1>3. CASE Read
  BY <1>3, ChunkTurns DEF Read, Turn
<1>4. CASE ReadEnd
  BY <1>4, EndTurns DEF ReadEnd, Turn
<1>5. CASE Resume
  BY <1>5, YieldTurns DEF Resume, Turn, Ends, ReadsOn
<1> QED
  BY <1>1, <1>2, <1>3, <1>4, <1>5

-----------------------------------------------------------------------------
(* Time *)

Clock == now \in Nat /\ until \in Nat /\ ReadsInTime

\* A read that begins before the budget is spent ends by then.
LEMMA ReadOnInTime ==
  ASSUME Clock, now' = now, NEW r, ReadOn(r)
  PROVE  Clock'
<1>1. CASE Expired /\ End("timed out")
  BY <1>1 DEF Clock, ReadsInTime, End
<1>2. CASE ~Expired /\ place' = "read" /\ until' = now + ReadTimeout
  BY <1>2, BudgetAssumption DEF Clock, ReadsInTime, Expired, Remaining, ReadTimeout
<1> QED
  BY <1>1, <1>2 DEF ReadOn

LEMMA ClockStep == Clock /\ [Next]_vars => Clock'
<1> SUFFICES ASSUME Clock, [Next]_vars PROVE Clock'
  OBVIOUS
<1>1. ASSUME Turn PROVE Clock'
  <2>1. CASE Ends \/ Pauses
    BY <1>1, <2>1 DEF Turn, Ends, Pauses, End, Leave, Clock, ReadsInTime
  <2>2. CASE ReadsOn
    BY <1>1, <2>2, ReadOnInTime DEF Turn, ReadsOn
  <2> QED
    BY <1>1, <2>1, <2>2 DEF Turn
<1>2. ASSUME NEW op, NEW r, Begin(op, r) PROVE Clock'
  BY <1>2 DEF Begin, Clock, ReadsInTime
<1>3. ASSUME Tick PROVE Clock'
  BY <1>3, BudgetAssumption DEF Tick, Clock, ReadsInTime
<1>4. ASSUME Finalize \/ UNCHANGED vars PROVE Clock'
  BY <1>4 DEF Finalize, vars, Clock, ReadsInTime
<1> QED
  BY <1>1, <1>2, <1>3, <1>4, StepsAreTurns DEF Next

\* No transport waits in read beyond the end of the budget, nor longer than its
\* default timeout, whatever the server sends and when.
THEOREM BudgetKept == Spec => []ReadsInTime
<1>1. Init => Clock
  BY DEF Init, Clock, ReadsInTime
<1>2. Clock => ReadsInTime
  BY DEF Clock
<1> QED
  BY <1>1, <1>2, ClockStep, PTL DEF Spec

-----------------------------------------------------------------------------
(* Connections *)

LEMMA NoneLeftStep == NoneLeftOpen /\ [Next]_vars => NoneLeftOpen'
<1> SUFFICES ASSUME NoneLeftOpen, [Next]_vars PROVE NoneLeftOpen'
  OBVIOUS
<1> USE DEF NoneLeftOpen
<1>1. ASSUME Turn, place # "between" PROVE NoneLeftOpen'
  <2>1. CASE \E o : End(o)
    BY <1>1, <2>1 DEF Turn, End
  <2>2. CASE \E o : Leave(o)
    BY <1>1, <2>2 DEF Turn, Leave, End
  <2>3. CASE UNCHANGED <<open, deferred>> /\ place' # "between"
    BY <1>1, <2>3 DEF Turn
  <2> QED
    BY <1>1, <2>1, <2>2, <2>3 DEF Turn, Ends, Pauses, ReadsOn, ReadOn
<1>2. ASSUME NEW op, NEW r, Begin(op, r) PROVE NoneLeftOpen'
  BY <1>2 DEF Begin
<1>3. CASE Finalize
  BY <1>3 DEF Finalize
<1>4. CASE Tick \/ UNCHANGED vars
  BY <1>4 DEF Tick, vars
<1> QED
  BY <1>1, <1>2, <1>3, <1>4, StepsAreTurns DEF Next

\* A connection is open only for the operation that runs or for a generator that
\* the event loop has yet to close, however operations end.
THEOREM NothingLeaks == Spec => []NoneLeftOpen
<1>1. Init => NoneLeftOpen
  BY DEF Init, NoneLeftOpen
<1> QED
  BY <1>1, NoneLeftStep, PTL DEF Spec
-----------------------------------------------------------------------------
(* The lines of a text *)

Lines == Seq(Seq(Symbols))

LEMMA NextSymbolOf ==
  ASSUME NEW lines \in Lines, NEW line \in Seq(Symbols), NEW c \in Symbols
  PROVE  NextSymbol[<<Append(lines, line), c>>] =
           IF c = NL THEN Append(Append(lines, line), <<>>)
           ELSE Append(lines, Append(line, c))
<1>1. PICK all \in Lines : all = Append(lines, line)
  BY AppendProperties DEF Lines
<1>2. PICK n \in Nat : /\ n = Len(lines) /\ n + 1 = Len(all)
                       /\ all \in [1..(n + 1) -> Seq(Symbols)]
                       /\ all[n + 1] = line
                       /\ \A i \in 1..n : all[i] = lines[i]
  <2>1. all = Append(lines, line) /\ lines \in Seq(Seq(Symbols)) /\ line \in Seq(Symbols)
    BY <1>1 DEF Lines
  <2>2. GrownBy(Append(lines, line), lines, line, Seq(Symbols))
    BY <2>1, AppendAs
  <2> QED
    BY <2>1, <2>2 DEF GrownBy
<1>3. NextSymbol[<<all, c>>] =
        IF c = NL THEN Append(all, <<>>)
        ELSE [all EXCEPT ![n + 1] = Append(@, c)]
  BY <1>2 DEF NextSymbol, Lines
<1>4. PICK more \in Seq(Symbols) : more = Append(line, c)
  BY AppendProperties
<1>5. PICK new \in Lines : new = Append(lines, more)
  BY AppendProperties DEF Lines
<1>6. PICK m \in Nat : /\ m = Len(lines)
                       /\ new \in [1..(m + 1) -> Seq(Symbols)]
                       /\ new[m + 1] = more
                       /\ \A i \in 1..m : new[i] = lines[i]
  <2>1. new = Append(lines, more) /\ lines \in Seq(Seq(Symbols)) /\ more \in Seq(Symbols)
    BY <1>4, <1>5 DEF Lines
  <2>2. GrownBy(Append(lines, more), lines, more, Seq(Symbols))
    BY <2>1, AppendAs
  <2> QED
    BY <2>1, <2>2 DEF GrownBy
<1>7. \A i \in 1..(n + 1) : i \in 1..n \/ i = n + 1
  BY <1>2
<1>8. [all EXCEPT ![n + 1] = more] = new
  BY <1>2, <1>6, <1>7
<1> QED
  BY <1>1, <1>2, <1>3, <1>4, <1>5, <1>8

LEMMA NextSymbolType == NextSymbol \in StepsOver(Lines, Symbols) /\ << <<>> >> \in Lines
<1>1. ASSUME NEW lines \in Lines, NEW c \in Symbols
      PROVE  /\ Append(lines, <<>>) \in Lines
             /\ [lines EXCEPT ![Len(lines)] = Append(@, c)] \in Lines
  <2>1. <<>> \in Seq(Symbols)
    OBVIOUS
  <2>2. Append(lines, <<>>) \in Lines
    BY <2>1, AppendProperties DEF Lines
  <2>3. PICK n \in Nat : n = Len(lines)
    BY LenProperties DEF Lines
  <2>4. lines \in [1..n -> Seq(Symbols)]
    BY <2>3, LenProperties DEF Lines
  <2>5. n \in 1..n => Append(lines[n], c) \in Seq(Symbols)
    BY <2>4, AppendProperties
  <2>6. [lines EXCEPT ![n] = Append(@, c)] \in [1..n -> Seq(Symbols)]
    BY <2>4, <2>5
  <2> QED
    BY <2>2, <2>3, <2>6, IsASeq DEF Lines
<1>2. NextSymbol \in StepsOver(Lines, Symbols)
  BY <1>1 DEF NextSymbol, StepsOver, Lines
<1>3. << <<>> >> \in Lines
  BY DEF Lines
<1> QED
  BY <1>2, <1>3

\* A text has the lines of what comes before its last symbol and, by that symbol,
\* one more or a longer last one.
LEMMA LinesOfAppend ==
  ASSUME NEW text \in Seq(Symbols), NEW c \in Symbols
  PROVE  /\ LinesOf(<<>>) = << <<>> >>
         /\ LinesOf(text) \in Lines
         /\ LinesOf(Append(text, c)) = NextSymbol[<<LinesOf(text), c>>]
<1>1. LinesOf(<<>>) = << <<>> >>
  BY NextSymbolType, FoldedEmpty DEF LinesOf
<1>2. LinesOf(text) \in Lines
  BY NextSymbolType, FoldedType DEF LinesOf
<1>3. LinesOf(Append(text, c)) = NextSymbol[<<LinesOf(text), c>>]
  BY NextSymbolType, FoldedAppend DEF LinesOf
<1> QED
  BY <1>1, <1>2, <1>3

EndsIn(text, lines, line) == LinesOf(text) = Append(lines, line)

LinesAfter(text, c, lines, line) ==
  IF c = NL THEN EndsIn(Append(text, c), Append(lines, line), <<>>)
  ELSE EndsIn(Append(text, c), lines, Append(line, c))

LEMMA LinesGrow ==
  ASSUME NEW text \in Seq(Symbols), NEW c \in Symbols, NEW lines \in Lines,
         NEW line \in Seq(Symbols), EndsIn(text, lines, line)
  PROVE  LinesAfter(text, c, lines, line)
<1>1. LinesOf(Append(text, c)) = NextSymbol[<<Append(lines, line), c>>]
  BY LinesOfAppend DEF EndsIn
<1> QED
  BY <1>1, NextSymbolOf DEF EndsIn, LinesAfter

\* A text has a last line, which may be empty.
HasLastLine(text) == \E lines \in Lines, line \in Seq(Symbols) : EndsIn(text, lines, line)

LEMMA LastLine == ASSUME NEW text \in Seq(Symbols) PROVE HasLastLine(text)
<1> DEFINE P == {t \in Seq(Symbols) : HasLastLine(t)}
<1>1. <<>> \in P
  <2>1. <<>> \in Seq(Symbols) /\ <<>> \in Lines /\ Append(<<>>, <<>>) = << <<>> >>
    BY DEF Lines
  <2>2. NL \in Symbols
    BY DEF Symbols
  <2>3. LinesOf(<<>>) = << <<>> >>
    BY <2>1, <2>2, LinesOfAppend
  <2> QED
    BY <2>1, <2>3 DEF HasLastLine, EndsIn
<1>2. ASSUME NEW t \in Seq(Symbols), NEW c \in Symbols, t \in P PROVE Append(t, c) \in P
  <2>1. PICK lines \in Lines, line \in Seq(Symbols) : EndsIn(t, lines, line)
    BY <1>2 DEF HasLastLine
  <2>2. /\ Append(lines, line) \in Lines /\ <<>> \in Seq(Symbols)
        /\ Append(line, c) \in Seq(Symbols) /\ Append(t, c) \in Seq(Symbols)
    BY AppendProperties DEF Lines
  <2>3. LinesAfter(t, c, lines, line)
    BY <1>2, <2>1, LinesGrow
  <2> QED
    BY <2>2, <2>3 DEF HasLastLine, LinesAfter
<1>3. text \in P
  <2> HIDE DEF P
  <2> QED
    BY <1>1, <1>2, InductionByAppend
<1> QED
  BY <1>3

\* A newline separates the lines before it from the lines after it.
LEMMA LinesApart ==
  ASSUME NEW a \in Seq(Symbols), NEW text \in Seq(Symbols)
  PROVE  LinesOf(Append(a, NL) \o text) = LinesOf(a) \o LinesOf(text)
<1>1. NL \in Symbols
  BY DEF Symbols
<1>2. PICK b \in Seq(Symbols) : b = Append(a, NL)
  BY <1>1, AppendProperties
<1>3. PICK before \in Lines : before = LinesOf(a)
  BY <1>1, LinesOfAppend
<1>7. LinesOf(<<>>) = << <<>> >>
  BY <1>1, LinesOfAppend
<1> DEFINE P == {t \in Seq(Symbols) : LinesOf(b \o t) = before \o LinesOf(t)}
<1>4. <<>> \in P
  <2>1. b \o <<>> = b /\ <<>> \in Seq(Symbols)
    OBVIOUS
  <2>2. PICK lines \in Lines, line \in Seq(Symbols) : EndsIn(a, lines, line)
    BY LastLine DEF HasLastLine
  <2>3. LinesOf(b) = Append(before, <<>>)
    <3>1. LinesAfter(a, NL, lines, line)
      BY <1>1, <2>2, LinesGrow
    <3> QED
      BY <1>2, <1>3, <2>2, <3>1 DEF LinesAfter, EndsIn
  <2>4. Append(before, <<>>) = before \o << <<>> >>
    BY DEF Lines
  <2> QED
    BY <1>7, <2>1, <2>3, <2>4
<1>5. ASSUME NEW t \in Seq(Symbols), NEW c \in Symbols, t \in P PROVE Append(t, c) \in P
  <2> t \in Seq(Symbols) /\ c \in Symbols
    BY <1>5
  <2>1. PICK u \in Seq(Symbols) : u = b \o t
    BY ConcatProperties
  <2>2. b \o Append(t, c) = Append(u, c) /\ Append(t, c) \in Seq(Symbols)
    BY <2>1
  <2>3. PICK lines \in Lines, line \in Seq(Symbols) : EndsIn(t, lines, line)
    BY LastLine DEF HasLastLine
  <2>4. PICK all \in Lines : all = before \o lines
    BY ConcatProperties DEF Lines
  <2>5. \A l \in Seq(Symbols) : before \o Append(lines, l) = Append(all, l)
    BY <2>4 DEF Lines
  <2>6. EndsIn(u, all, line)
    BY <1>5, <2>1, <2>3, <2>5 DEF EndsIn
  <2>7. LinesAfter(u, c, all, line)
    BY <2>1, <2>3, <2>4, <2>6, LinesGrow
  <2>8. LinesAfter(t, c, lines, line)
    BY <2>3, LinesGrow
  <2>9. before \o Append(Append(lines, line), <<>>) = Append(Append(all, line), <<>>)
    <3>1. PICK m \in Lines : m = Append(lines, line)
      BY AppendProperties DEF Lines
    <3>2. AppendsAfter(before, m, <<>>)
      <4>1. <<>> \in Seq(Symbols)
        OBVIOUS
      <4>2. before \in Seq(Seq(Symbols)) /\ m \in Seq(Seq(Symbols))
        BY <1>3, <3>1 DEF Lines
      <4> QED
        BY <4>1, <4>2, AppendToConcat
    <3> QED
      BY <2>3, <2>5, <3>1, <3>2 DEF AppendsAfter
  <2>10. Append(line, c) \in Seq(Symbols)
    BY AppendProperties
  <2> QED
    BY <2>2, <2>5, <2>7, <2>8, <2>9, <2>10 DEF LinesAfter, EndsIn
<1>6. text \in P
  <2> HIDE DEF P
  <2> QED
    BY <1>4, <1>5, InductionByAppend
<1> QED
  BY <1>2, <1>3, <1>6
-----------------------------------------------------------------------------
(* Lines that are read *)

Reads == [lines : Lines, events : Seq(Lines)]

Start == [lines |-> <<>>, events |-> <<>>]

ReadFrom(read, lines) == Folded(NextLine, read, lines)

DataLines == {l \in Seq(Symbols) : IsData(l)}

Stripped(lines) == [i \in DOMAIN lines |-> Tail(lines[i])]

LEMMA EndedType ==
  ASSUME NEW read \in Reads
  PROVE  Ended(read) \in Reads /\ Ended(Ended(read)) = Ended(read)
<1>1. PICK lines \in Lines, events \in Seq(Lines) :
        lines = read.lines /\ events = read.events
  BY DEF Reads
<1>2. <<>> \in Lines /\ Append(events, lines) \in Seq(Lines)
  BY <1>1, AppendProperties DEF Lines
<1> QED
  BY <1>1, <1>2 DEF Ended, Reads

NextRead(read, line) ==
  IF line = <<>> THEN Ended(read)
  ELSE IF IsData(line) THEN [lines |-> Append(read.lines, Tail(line)), events |-> read.events]
  ELSE read

LEMMA NextLineOf ==
  ASSUME NEW read \in Reads, NEW line \in Seq(Symbols)
  PROVE  NextLine[<<read, line>>] = NextRead(read, line) /\ NextRead(read, line) \in Reads
<1>1. NextLine[<<read, line>>] = CASE line = <<>>  -> Ended(read)
                                   [] IsData(line) -> [read EXCEPT !.lines = Append(@, Tail(line))]
                                   [] OTHER        -> read
  BY DEF NextLine, Reads, Lines
<1>2. IsData(line) => line # <<>>
  BY DEF IsData
<1>3. [read EXCEPT !.lines = Append(@, Tail(line))] =
        [lines |-> Append(read.lines, Tail(line)), events |-> read.events]
  <2>1. \A new : [read EXCEPT !.lines = new] = [lines |-> new, events |-> read.events]
    BY DEF Reads
  <2> QED
    BY <2>1
<1>4. line # <<>> => Append(read.lines, Tail(line)) \in Lines
  <2>1. PICK lines \in Seq(Seq(Symbols)) : lines = read.lines
    BY DEF Reads, Lines
  <2>2. line # <<>> => Tail(line) \in Seq(Symbols)
    BY HeadTailProperties
  <2> QED
    BY <2>1, <2>2, AppendProperties DEF Lines
<1>5. NextRead(read, line) \in Reads
  BY <1>4, EndedType DEF NextRead, Reads
<1> QED
  BY <1>1, <1>2, <1>3, <1>5 DEF NextRead

LEMMA NextLineType == NextLine \in StepsOver(Reads, Seq(Symbols)) /\ Start \in Reads
<1>1. \A read \in Reads, line \in Seq(Symbols) : NextLine[<<read, line>>] \in Reads
  BY NextLineOf
<1>2. NextLine = [p \in Reads \X Seq(Symbols) |-> NextLine[p]]
  BY DEF NextLine, Reads, Lines
<1>3. \A p \in Reads \X Seq(Symbols) : NextLine[p] \in Reads
  BY <1>1
<1>4. NextLine \in [Reads \X Seq(Symbols) -> Reads]
  BY <1>2, <1>3
<1>5. Start \in Reads
  BY DEF Start, Reads, Lines
<1> QED
  BY <1>4, <1>5 DEF StepsOver

LEMMA ReadAppend ==
  ASSUME NEW read \in Reads, NEW lines \in Lines, NEW line \in Seq(Symbols)
  PROVE  /\ ReadFrom(read, <<>>) = read
         /\ ReadFrom(read, lines) \in Reads
         /\ ReadFrom(read, Append(lines, line)) = NextRead(ReadFrom(read, lines), line)
<1>1. ReadFrom(read, <<>>) = read
  BY NextLineType, FoldedEmpty DEF ReadFrom
<1>2. ReadFrom(read, lines) \in Reads
  BY NextLineType, FoldedType DEF ReadFrom, Lines
<1>3. ReadFrom(read, Append(lines, line)) = NextLine[<<ReadFrom(read, lines), line>>]
  BY NextLineType, FoldedAppend DEF ReadFrom, Lines
<1> QED
  BY <1>1, <1>2, <1>3, NextLineOf

LEMMA ReadConcat ==
  ASSUME NEW read \in Reads, NEW lines \in Lines, NEW more \in Lines
  PROVE  ReadFrom(read, lines \o more) = ReadFrom(ReadFrom(read, lines), more)
BY NextLineType, FoldedConcat DEF ReadFrom, Lines

\* The data lines of a list of lines, without their field name.
LEMMA OnlyData ==
  ASSUME NEW lines \in Lines
  PROVE  Only(lines, DataLines) \in Seq(DataLines)
<1>1. PICK t \in Lines : t = Only(lines, DataLines)
  BY OnlySelects DEF Lines
<1>2. PICK at : Selects(at, lines, DataLines, t, Len(lines))
  BY <1>1, OnlySelects DEF Lines
<1>3. PICK n \in Nat : n = Len(t) /\ t \in [1..n -> Seq(Symbols)]
  BY <1>1, LenProperties DEF Lines
<1>4. \A i \in 1..n : t[i] \in DataLines
  BY <1>2, <1>3 DEF Selects
<1>5. t \in [1..n -> DataLines]
  BY <1>3, <1>4
<1> QED
  BY <1>1, <1>5

LEMMA StrippedAppend ==
  ASSUME NEW lines \in Seq(DataLines), NEW line \in DataLines
  PROVE  /\ Stripped(lines) \in Lines
         /\ Stripped(lines) = <<>> <=> lines = <<>>
         /\ Stripped(Append(lines, line)) = Append(Stripped(lines), Tail(line))
<1>1. \A l \in DataLines : Tail(l) \in Seq(Symbols)
  BY HeadTailProperties DEF DataLines, IsData
<1>2. PICK n \in Nat : n = Len(lines) /\ lines \in [1..n -> DataLines]
  BY LenProperties
<1>3. PICK s : s = Stripped(lines)
  OBVIOUS
<1>4. s \in [1..n -> Seq(Symbols)] /\ \A i \in 1..n : s[i] = Tail(lines[i])
  BY <1>1, <1>2, <1>3 DEF Stripped
<1>5. s \in Lines /\ Len(s) = n
  BY <1>4 DEF Lines
<1>6. s = <<>> <=> lines = <<>>
  BY <1>2, <1>5, EmptySeq DEF Lines
<1>7. PICK all \in Seq(DataLines) : all = Append(lines, line)
  BY AppendProperties
<1>8. /\ all \in [1..(n + 1) -> DataLines] /\ all[n + 1] = line
      /\ \A i \in 1..n : all[i] = lines[i]
  <2>1. GrownBy(all, lines, line, DataLines)
    BY <1>7, AppendAs
  <2> QED
    BY <1>2, <2>1 DEF GrownBy
<1>9. PICK u \in Lines : u = Append(s, Tail(line))
  BY <1>1, <1>5, AppendProperties DEF Lines
<1>10. /\ u \in [1..(n + 1) -> Seq(Symbols)] /\ u[n + 1] = Tail(line)
       /\ \A i \in 1..n : u[i] = s[i]
  <2>1. GrownBy(u, s, Tail(line), Seq(Symbols))
    BY <1>1, <1>5, <1>9, AppendAs DEF Lines
  <2> QED
    BY <1>5, <2>1 DEF GrownBy
<1>11. DOMAIN all = 1..(n + 1)
  BY <1>8
<1>12. \A i \in 1..(n + 1) : u[i] = Tail(all[i])
  <2>1. \A i \in 1..(n + 1) : i \in 1..n \/ i = n + 1
    BY <1>2
  <2> QED
    BY <1>4, <1>8, <1>10, <2>1
<1>13. Stripped(all) = u
  <2>1. Stripped(all) = [i \in 1..(n + 1) |-> Tail(all[i])]
    BY <1>11 DEF Stripped
  <2> QED
    BY <1>10, <1>12, <2>1
<1> QED
  BY <1>3, <1>5, <1>6, <1>7, <1>9, <1>13
-----------------------------------------------------------------------------
(* The one event of a text without a blank line *)

NoBlank(text) ==
  \A i \in 1..Len(text) : i + 1 \in 1..Len(text) => ~(text[i] = NL /\ text[i + 1] = NL)

\* What is read of lines whose data lines are those of one event.
OneEvent(lines) == [lines |-> Stripped(Only(lines, DataLines)), events |-> <<>>]

LEMMA OneEventType ==
  ASSUME NEW lines \in Lines
  PROVE  /\ OneEvent(lines) \in Reads
         /\ Stripped(Only(lines, DataLines)) \in Lines
         /\ Stripped(Only(lines, DataLines)) = <<>> <=> Only(lines, DataLines) = <<>>
<1>1. CASE DataLines = {}
  <2>1. PICK d \in Seq(DataLines) : d = Only(lines, DataLines)
    BY OnlyData
  <2>2. d = <<>>
    BY <1>1
  <2>3. Stripped(d) = <<>>
    BY <2>2 DEF Stripped
  <2>4. <<>> \in Lines /\ <<>> \in Seq(Lines)
    BY DEF Lines
  <2> QED
    BY <2>1, <2>2, <2>3, <2>4 DEF OneEvent, Reads
<1>2. CASE DataLines # {}
  <2>1. PICK l \in DataLines : TRUE
    BY <1>2
  <2>2. /\ Stripped(Only(lines, DataLines)) \in Lines
        /\ Stripped(Only(lines, DataLines)) = <<>> <=> Only(lines, DataLines) = <<>>
    BY <2>1, OnlyData, StrippedAppend
  <2> QED
    BY <2>2 DEF OneEvent, Reads, Lines
<1> QED
  BY <1>1, <1>2

LEMMA DataAppend ==
  ASSUME NEW lines \in Lines, NEW line \in Seq(Symbols)
  PROVE  /\ line \in DataLines =>
              Only(Append(lines, line), DataLines) = Append(Only(lines, DataLines), line)
         /\ line \notin DataLines =>
              Only(Append(lines, line), DataLines) = Only(lines, DataLines)
<1>1. lines \in Seq(Seq(Symbols))
  BY DEF Lines
<1>2. PICK T : T = DataLines
  OBVIOUS
<1>3. Only(Append(lines, line), T) =
        IF line \in T THEN Append(Only(lines, T), line) ELSE Only(lines, T)
  BY <1>1, OnlyAppend
<1> QED
  BY <1>2, <1>3

\* A line that is not empty goes on with the event.
LEMMA EventGoesOn ==
  ASSUME NEW lines \in Lines, NEW line \in Seq(Symbols), line # <<>>,
         ReadFrom(Start, lines) = OneEvent(lines)
  PROVE  ReadFrom(Start, Append(lines, line)) = OneEvent(Append(lines, line))
<1>1. ReadFrom(Start, Append(lines, line)) = NextRead(OneEvent(lines), line)
  BY NextLineType, ReadAppend
<1>2. PICK d \in Seq(DataLines) : d = Only(lines, DataLines)
  BY OnlyData
<1>3. /\ line \in DataLines => Only(Append(lines, line), DataLines) = Append(d, line)
      /\ line \notin DataLines => Only(Append(lines, line), DataLines) = d
  BY <1>2, DataAppend
<1>4. CASE IsData(line)
  <2>1. line \in DataLines
    BY <1>4 DEF DataLines
  <2>2. Stripped(Append(d, line)) = Append(Stripped(d), Tail(line))
    BY <1>2, <2>1, StrippedAppend
  <2> QED
    BY <1>1, <1>2, <1>3, <1>4, <2>1, <2>2 DEF OneEvent, NextRead
<1>5. CASE ~IsData(line)
  BY <1>1, <1>2, <1>3, <1>5 DEF OneEvent, NextRead, DataLines
<1> QED
  BY <1>4, <1>5

\* An empty line, or none, at the end of the lines of one event.
EventThenLine(text, lines, line) ==
  /\ EndsIn(text, lines, line)
  /\ ReadFrom(Start, lines) = OneEvent(lines)
  /\ line = <<>> => lines = <<>> \/ (text # <<>> /\ text[Len(text)] = NL)

OneEventText(text) ==
  NoBlank(text) => \E lines \in Lines, line \in Seq(Symbols) : EventThenLine(text, lines, line)

LEMMA EmptyStart ==
  /\ ReadFrom(Start, <<>>) = OneEvent(<<>>)
  /\ ReadFrom(Start, << <<>> >>) = OneEvent(<< <<>> >>)
  /\ Only(<< <<>> >>, DataLines) = <<>>
<1>1. <<>> \in Lines /\ <<>> \in Seq(Symbols) /\ Append(<<>>, <<>>) = << <<>> >>
  BY DEF Lines
<1>2. ReadFrom(Start, <<>>) = Start
  BY <1>1, NextLineType, ReadAppend
<1>3. ReadFrom(Start, << <<>> >>) = NextRead(Start, <<>>)
  <2>1. PICK none \in Lines, line \in Seq(Symbols) :
          none = <<>> /\ line = <<>> /\ Append(none, line) = << <<>> >>
    BY <1>1
  <2>2. ReadFrom(Start, Append(none, line)) = NextRead(ReadFrom(Start, none), line)
    BY NextLineType, ReadAppend
  <2> QED
    BY <1>2, <2>1, <2>2
<1>4. NextRead(Start, <<>>) = Start
  BY DEF NextRead, Ended, Start
<1>5. Only(<<>>, DataLines) = <<>>
  BY OnlyOfNone
<1>6. Only(<< <<>> >>, DataLines) = <<>>
  <2>1. <<>> \notin DataLines
    BY DEF DataLines, IsData
  <2>2. PICK none \in Lines, line \in Seq(Symbols) :
          none = <<>> /\ line = <<>> /\ Append(none, line) = << <<>> >>
    BY <1>1
  <2>3. Only(Append(none, line), DataLines) = Only(none, DataLines)
    BY <2>1, <2>2, DataAppend
  <2> QED
    BY <1>5, <2>2, <2>3
<1>7. Stripped(<<>>) = <<>>
  BY DEF Stripped
<1> QED
  BY <1>2, <1>3, <1>4, <1>5, <1>6, <1>7 DEF OneEvent, Start

LEMMA TextOfOneEvent == ASSUME NEW text \in Seq(Symbols) PROVE OneEventText(text)
<1> DEFINE P == {t \in Seq(Symbols) : OneEventText(t)}
<1>1. <<>> \in P
  <2>1. /\ <<>> \in Lines /\ <<>> \in Seq(Symbols) /\ Append(<<>>, <<>>) = << <<>> >>
        /\ NL \in Symbols
    BY DEF Lines, Symbols
  <2>2. LinesOf(<<>>) = << <<>> >>
    BY <2>1, LinesOfAppend
  <2>3. EventThenLine(<<>>, <<>>, <<>>)
    BY <2>1, <2>2, EmptyStart DEF EventThenLine, EndsIn
  <2> QED
    BY <2>1, <2>3 DEF OneEventText
<1>2. ASSUME NEW t \in Seq(Symbols), NEW c \in Symbols, t \in P PROVE Append(t, c) \in P
  <2>1. PICK u \in Seq(Symbols) : u = Append(t, c)
    BY <1>2, AppendProperties
  <2>2. PICK n \in Nat : /\ n = Len(t) /\ n + 1 = Len(u) /\ u[n + 1] = c
                         /\ \A i \in 1..n : u[i] = t[i]
    <3>1. GrownBy(u, t, c, Symbols)
      BY <1>2, <2>1, AppendAs
    <3> QED
      BY <3>1 DEF GrownBy
  <2>3. u # <<>> /\ u[Len(u)] = c
    BY <2>2
  <2> SUFFICES ASSUME NoBlank(u)
               PROVE  \E lines \in Lines, line \in Seq(Symbols) : EventThenLine(u, lines, line)
    BY <2>1 DEF OneEventText
  <2>4. NoBlank(t)
    <3> SUFFICES ASSUME NEW i \in 1..n, i + 1 \in 1..n PROVE ~(t[i] = NL /\ t[i + 1] = NL)
      BY <2>2 DEF NoBlank
    <3>1. i \in 1..(n + 1) /\ i + 1 \in 1..(n + 1)
      BY <2>2
    <3> QED
      BY <2>2, <3>1 DEF NoBlank
  <2>5. PICK lines \in Lines, line \in Seq(Symbols) : EventThenLine(t, lines, line)
    BY <1>2, <2>4 DEF OneEventText
  <2>6. LinesAfter(t, c, lines, line)
    BY <1>2, <2>5, LinesGrow DEF EventThenLine
  <2>7. CASE c # NL
    <3>1. Append(line, c) \in Seq(Symbols) /\ Append(line, c) # <<>>
      BY <1>2, <2>5, AppendProperties
    <3>2. EventThenLine(u, lines, Append(line, c))
      BY <2>1, <2>5, <2>6, <2>7, <3>1 DEF EventThenLine, LinesAfter
    <3> QED
      BY <2>5, <3>1, <3>2
  <2>8. CASE c = NL
    <3>1. PICK more \in Lines : more = Append(lines, line)
      BY <2>5, AppendProperties DEF Lines
    <3>2. ReadFrom(Start, more) = OneEvent(more)
      <4>1. CASE line # <<>>
        BY <2>5, <3>1, <4>1, EventGoesOn DEF EventThenLine
      <4>2. CASE line = <<>> /\ lines = <<>>
        BY <3>1, <4>2, EmptyStart
      <4>3. CASE t # <<>> /\ t[Len(t)] = NL
        <5>1. n \in 1..n /\ n \in 1..(n + 1) /\ n + 1 \in 1..(n + 1)
          BY <1>2, <2>2, <4>3, EmptySeq
        <5>2. u[n] = NL /\ u[n + 1] = NL
          BY <2>2, <2>8, <4>3, <5>1
        <5> QED
          BY <2>2, <5>1, <5>2 DEF NoBlank
      <4> QED
        BY <2>5, <4>1, <4>2, <4>3 DEF EventThenLine
    <3>3. EventThenLine(u, more, <<>>)
      BY <2>1, <2>3, <2>6, <2>8, <3>1, <3>2 DEF EventThenLine, LinesAfter
    <3>4. <<>> \in Seq(Symbols)
      OBVIOUS
    <3> QED
      BY <3>1, <3>3, <3>4
  <2> QED
    BY <2>7, <2>8
<1>3. text \in P
  <2> HIDE DEF P
  <2> QED
    BY <1>1, <1>2, InductionByAppend
<1> QED
  BY <1>3

\* Read to its end, a text without a blank line gives what _parse_frame does.
LEMMA OneEventRead ==
  ASSUME NEW text \in Seq(Symbols), NoBlank(text)
  PROVE  /\ Ended(ReadFrom(Start, LinesOf(text))) = [lines |-> <<>>, events |-> EventOf(text)]
         /\ EventOf(text) \in Seq(Lines)
<1>1. PICK lines \in Lines, line \in Seq(Symbols) : EventThenLine(text, lines, line)
  BY TextOfOneEvent DEF OneEventText
<1>2. PICK all \in Lines : all = LinesOf(text) /\ all = Append(lines, line)
  BY <1>1, AppendProperties DEF EventThenLine, EndsIn, Lines
<1>3. PICK s \in Lines : /\ s = Stripped(Only(all, DataLines))
                         /\ s = <<>> <=> Only(all, DataLines) = <<>>
  BY <1>2, OneEventType
<1>4. EventOf(text) = IF s = <<>> THEN <<>> ELSE <<s>>
  BY <1>2, <1>3 DEF EventOf, Stripped, DataLines
<1>5. Ended(OneEvent(all)) = [lines |-> <<>>, events |-> EventOf(text)]
  BY <1>3, <1>4 DEF Ended, OneEvent
<1>6. Ended(ReadFrom(Start, all)) = Ended(OneEvent(all))
  <2>1. CASE line # <<>>
    BY <1>1, <1>2, <2>1, EventGoesOn DEF EventThenLine
  <2>2. CASE line = <<>>
    <3>1. ReadFrom(Start, all) = Ended(OneEvent(lines))
      <4>1. ReadFrom(Start, all) = NextRead(OneEvent(lines), line)
        BY <1>1, <1>2, NextLineType, ReadAppend DEF EventThenLine
      <4> QED
        BY <2>2, <4>1 DEF NextRead
    <3>2. Only(all, DataLines) = Only(lines, DataLines)
      <4>1. line \notin DataLines
        BY <2>2 DEF DataLines, IsData
      <4> QED
        BY <1>1, <1>2, <4>1, DataAppend
    <3>3. OneEvent(all) = OneEvent(lines) /\ OneEvent(lines) \in Reads
      BY <1>1, <3>2, OneEventType DEF OneEvent
    <3> QED
      BY <3>1, <3>3, EndedType
  <2> QED
    BY <2>1, <2>2
<1>7. EventOf(text) \in Seq(Lines)
  BY <1>3, <1>4
<1> QED
  BY <1>2, <1>5, <1>6, <1>7
-----------------------------------------------------------------------------
(* What feed does to a text *)

LEMMA EventOfType == ASSUME NEW text \in Seq(Symbols) PROVE EventOf(text) \in Seq(Lines)
<1>1. PICK all \in Lines : all = LinesOf(text)
  BY LinesOfAppend DEF Symbols
<1>2. PICK s \in Lines : /\ s = Stripped(Only(all, DataLines))
                         /\ s = <<>> <=> Only(all, DataLines) = <<>>
  BY <1>1, OneEventType
<1>3. EventOf(text) = IF s = <<>> THEN <<>> ELSE <<s>>
  BY <1>1, <1>2 DEF EventOf, Stripped, DataLines
<1> QED
  BY <1>2, <1>3

\* Events that were read before stay in front.
Before(ev, a, b) == a.lines = b.lines /\ a.events = ev \o b.events

LEMMA StillBefore ==
  ASSUME NEW a \in Reads, NEW b \in Reads, NEW ev \in Seq(Lines), NEW line \in Seq(Symbols),
         Before(ev, a, b)
  PROVE  Before(ev, NextRead(a, line), NextRead(b, line)) /\ Before(ev, Ended(a), Ended(b))
<1>1. PICK lines \in Lines, events \in Seq(Lines) : lines = b.lines /\ events = b.events
  BY DEF Reads
<1>2. a.lines = lines /\ a.events = ev \o events
  BY <1>1 DEF Before
<1>3. Append(ev \o events, lines) = ev \o Append(events, lines)
  <2>1. AppendsAfter(ev, events, lines)
    BY <1>1, AppendToConcat
  <2> QED
    BY <2>1 DEF AppendsAfter
<1>4. Before(ev, Ended(a), Ended(b))
  BY <1>1, <1>2, <1>3 DEF Before, Ended
<1> QED
  BY <1>1, <1>2, <1>4 DEF Before, NextRead

LEMMA ReadBefore ==
  ASSUME NEW ev \in Seq(Lines), NEW lines \in Lines
  PROVE  /\ [lines |-> <<>>, events |-> ev] \in Reads
         /\ Before(ev, ReadFrom([lines |-> <<>>, events |-> ev], lines), ReadFrom(Start, lines))
<1>1. PICK from \in Reads : from = [lines |-> <<>>, events |-> ev]
  <2>1. <<>> \in Lines
    BY DEF Lines
  <2> QED
    BY <2>1 DEF Reads
<1> DEFINE P == {ls \in Lines : Before(ev, ReadFrom(from, ls), ReadFrom(Start, ls))}
<1>2. <<>> \in P
  <2>1. <<>> \in Lines /\ <<>> \in Seq(Symbols) /\ ev \o <<>> = ev
    BY DEF Lines
  <2>2. ReadFrom(from, <<>>) = from /\ ReadFrom(Start, <<>>) = Start
    BY <2>1, NextLineType, ReadAppend
  <2> QED
    BY <1>1, <2>1, <2>2 DEF Before, Start
<1>3. ASSUME NEW ls \in Lines, NEW line \in Seq(Symbols), ls \in P PROVE Append(ls, line) \in P
  <2>1. PICK a \in Reads, b \in Reads : a = ReadFrom(from, ls) /\ b = ReadFrom(Start, ls)
    BY <1>3, NextLineType, ReadAppend
  <2>2. /\ ReadFrom(from, Append(ls, line)) = NextRead(a, line)
        /\ ReadFrom(Start, Append(ls, line)) = NextRead(b, line)
    BY <1>3, <2>1, NextLineType, ReadAppend
  <2>3. Before(ev, NextRead(a, line), NextRead(b, line))
    BY <1>3, <2>1, StillBefore
  <2>4. Append(ls, line) \in Lines
    BY <1>3, AppendProperties DEF Lines
  <2> QED
    BY <2>2, <2>3, <2>4
<1>4. lines \in P
  <2>1. P \subseteq Seq(Seq(Symbols)) /\ lines \in Seq(Seq(Symbols))
    BY DEF Lines
  <2>2. \A ls \in Seq(Seq(Symbols)), line \in Seq(Symbols) : ls \in P => Append(ls, line) \in P
    BY <1>3 DEF Lines
  <2> HIDE DEF P
  <2> QED
    BY <1>2, <2>1, <2>2, InductionByAppend
<1> QED
  BY <1>1, <1>4

\* The events of a response that begins with a frame and a blank line.
LEMMA EventsAfterFrame ==
  ASSUME NEW frame \in Seq(Symbols), NEW text \in Seq(Symbols), NoBlank(frame)
  PROVE  EventsOf(Append(Append(frame, NL), NL) \o text) = EventOf(frame) \o EventsOf(text)
<1>1. NL \in Symbols
  BY DEF Symbols
<1>2. PICK f \in Seq(Symbols) : f = Append(frame, NL)
  BY <1>1, AppendProperties
<1>3. PICK first \in Lines, after \in Lines, all \in Lines :
        first = LinesOf(frame) /\ after = LinesOf(text) /\ all = LinesOf(f)
  BY <1>1, LinesOfAppend
<1>4. all = Append(first, <<>>)
  <2>1. PICK lines \in Lines, line \in Seq(Symbols) : EndsIn(frame, lines, line)
    BY LastLine DEF HasLastLine
  <2>2. LinesAfter(frame, NL, lines, line)
    BY <1>1, <2>1, LinesGrow
  <2> QED
    BY <1>2, <1>3, <2>1, <2>2 DEF EndsIn, LinesAfter
<1>5. LinesOf(Append(f, NL) \o text) = all \o after
  BY <1>2, <1>3, LinesApart
<1>6. PICK ev \in Seq(Lines) : /\ ev = EventOf(frame)
                               /\ Ended(ReadFrom(Start, first)) = [lines |-> <<>>, events |-> ev]
  BY <1>3, OneEventRead
<1>7. ReadFrom(Start, all) = [lines |-> <<>>, events |-> ev]
  <2>3. <<>> \in Seq(Symbols)
    OBVIOUS
  <2>1. PICK none \in Seq(Symbols) : none = <<>>
    BY <2>3
  <2>2. ReadFrom(Start, Append(first, none)) = NextRead(ReadFrom(Start, first), none)
    BY <1>3, NextLineType, ReadAppend
  <2> QED
    BY <1>4, <1>6, <2>1, <2>2 DEF NextRead
<1>8. ReadFrom(Start, all \o after) = ReadFrom([lines |-> <<>>, events |-> ev], after)
  BY <1>3, <1>7, NextLineType, ReadConcat
<1>9. PICK a \in Reads, b \in Reads :
        a = ReadFrom([lines |-> <<>>, events |-> ev], after) /\ b = ReadFrom(Start, after)
  BY <1>3, <1>6, NextLineType, ReadBefore, ReadAppend
<1>10. Before(ev, Ended(a), Ended(b))
  <2>1. Before(ev, a, b)
    BY <1>3, <1>6, <1>9, ReadBefore
  <2>2. <<>> \in Seq(Symbols)
    OBVIOUS
  <2> QED
    BY <1>6, <1>9, <2>1, <2>2, StillBefore
<1>11. EventsOf(text) = Ended(b).events
  BY <1>3, <1>9 DEF EventsOf, ReadFrom, Start
<1>12. EventsOf(Append(f, NL) \o text) = Ended(a).events
  BY <1>5, <1>8, <1>9 DEF EventsOf, ReadFrom, Start
<1> QED
  BY <1>2, <1>6, <1>10, <1>11, <1>12 DEF Before

\* The events of a text without a blank line.
LEMMA EventsOfOne ==
  ASSUME NEW text \in Seq(Symbols), NoBlank(text)
  PROVE  EventsOf(text) = EventOf(text)
<1>1. EventsOf(text) = Ended(ReadFrom(Start, LinesOf(text))).events
  BY DEF EventsOf, ReadFrom, Start
<1> QED
  BY <1>1, OneEventRead

LEMMA EventsOfType == ASSUME NEW text \in Seq(Symbols) PROVE EventsOf(text) \in Seq(Lines)
<1>1. PICK all \in Lines : all = LinesOf(text)
  BY LinesOfAppend DEF Symbols
<1>2. ReadFrom(Start, all) \in Reads
  BY <1>1, NextLineType, ReadAppend
<1>3. Ended(ReadFrom(Start, all)) \in Reads
  BY <1>2, EndedType
<1> QED
  BY <1>1, <1>3 DEF EventsOf, ReadFrom, Start, Reads

\* The frame before the first blank line of a text, and what is after it.
FrameOf(text) == SubSeq(text, 1, Blank(text) - 1)
RestOf(text) == SubSeq(text, Blank(text) + 2, Len(text))

LEMMA BlankIs ==
  ASSUME NEW text \in Seq(Symbols)
  PROVE  \/ Blank(text) = 0 /\ NoBlank(text)
         \/ /\ Blank(text) \in 1..Len(text) /\ Blank(text) + 1 \in 1..Len(text)
            /\ text[Blank(text)] = NL /\ text[Blank(text) + 1] = NL
            /\ ~NoBlank(text)
            /\ \A i \in 1..Len(text) : i < Blank(text) => ~(text[i] = NL /\ text[i + 1] = NL)
<1>1. PICK n \in Nat : n = Len(text)
  BY LenProperties
<1> DEFINE at == {i \in 1..n - 1 : text[i] = NL /\ text[i + 1] = NL}
<1>2. Blank(text) = IF at = {} THEN 0 ELSE CHOOSE i \in at : \A j \in at : i <= j
  BY <1>1 DEF Blank
<1>3. \A i \in 1..n : i + 1 \in 1..n <=> i \in 1..n - 1
  BY <1>1
<1>4. CASE at = {}
  <2>1. NoBlank(text)
    BY <1>1, <1>3, <1>4 DEF NoBlank
  <2> QED
    BY <1>2, <1>4, <2>1
<1>5. CASE at # {}
  <2>1. at \subseteq Nat
    BY <1>1
  <2>2. \E i \in at : \A j \in at : i <= j
    <3> HIDE DEF at
    <3> QED
      BY <1>5, <2>1, SmallestOf
  <2>3. PICK b \in at : b = Blank(text) /\ \A j \in at : b <= j
    <3> HIDE DEF at
    <3> QED
      BY <1>2, <1>5, <2>2
  <2>4. b \in 1..n /\ b + 1 \in 1..n /\ text[b] = NL /\ text[b + 1] = NL
    BY <1>1, <2>3
  <2>5. \A i \in 1..n : i < b => ~(text[i] = NL /\ text[i + 1] = NL)
    <3> SUFFICES ASSUME NEW i \in 1..n, i < b, text[i] = NL, text[i + 1] = NL PROVE FALSE
      OBVIOUS
    <3>1. i \in 1..n - 1
      BY <1>1, <2>4
    <3>2. i \in at
      BY <3>1
    <3>3. b <= i
      BY <2>3, <3>2
    <3> QED
      BY <2>4, <3>3
  <2>6. ~NoBlank(text)
    BY <1>1, <2>4 DEF NoBlank
  <2> QED
    BY <1>1, <2>3, <2>4, <2>5, <2>6
<1> QED
  BY <1>4, <1>5

\* A text with a blank line is its first frame, the blank line and the rest.
LEMMA FirstFrame ==
  ASSUME NEW text \in Seq(Symbols), Blank(text) # 0
  PROVE  /\ FrameOf(text) \in Seq(Symbols) /\ RestOf(text) \in Seq(Symbols)
         /\ NoBlank(FrameOf(text))
         /\ Len(RestOf(text)) < Len(text)
         /\ text = Append(Append(FrameOf(text), NL), NL) \o RestOf(text)
<1>1. PICK n \in Nat : n = Len(text) /\ text \in [1..n -> Symbols]
  BY LenProperties
<1>2. PICK b \in 1..n : /\ b = Blank(text) /\ b + 1 \in 1..n
                        /\ text[b] = NL /\ text[b + 1] = NL
                        /\ \A i \in 1..n : i < b => ~(text[i] = NL /\ text[i + 1] = NL)
  BY <1>1, BlankIs
<1>3. PICK f : f = FrameOf(text)
  OBVIOUS
<1>4. PICK r : r = RestOf(text)
  OBVIOUS
<1>5. /\ f \in Seq(Symbols) /\ Len(f) = b - 1
      /\ \A i \in 1..b - 1 : f[i] = text[i]
  <2>1. \A i \in 1..b - 1 : text[i] \in Symbols
    BY <1>1, <1>2
  <2>2. f = SubSeq(text, 1, b - 1)
    BY <1>2, <1>3 DEF FrameOf
  <2>3. b - 1 \in Int /\ 1 \in Int /\ b \in Int
    BY <1>2
  <2>4. /\ SubSeq(text, 1, b - 1) \in Seq(Symbols)
        /\ Len(SubSeq(text, 1, b - 1)) = IF 1 <= b - 1 THEN b - 1 - 1 + 1 ELSE 0
        /\ \A i \in 1..b - 1 - 1 + 1 : SubSeq(text, 1, b - 1)[i] = text[1 + i - 1]
    BY <2>1, <2>3, SubSeqProperties
  <2>5. b - 1 - 1 + 1 = b - 1 /\ (1 <= b - 1 \/ b - 1 = 0) /\ \A i \in 1..b - 1 : 1 + i - 1 = i
    BY <1>2
  <2> QED
    BY <2>2, <2>4, <2>5
<1>6. /\ r \in Seq(Symbols) /\ Len(r) = n - b - 1
      /\ \A i \in 1..n - b - 1 : r[i] = text[b + 1 + i]
  <2>1. \A i \in (b + 2)..n : text[i] \in Symbols
    BY <1>1, <1>2
  <2>2. r = SubSeq(text, b + 2, n)
    BY <1>1, <1>2, <1>4 DEF RestOf
  <2>3. b + 2 \in Int /\ n \in Int
    BY <1>2
  <2>4. /\ SubSeq(text, b + 2, n) \in Seq(Symbols)
        /\ Len(SubSeq(text, b + 2, n)) = IF b + 2 <= n THEN n - (b + 2) + 1 ELSE 0
        /\ \A i \in 1..n - (b + 2) + 1 : SubSeq(text, b + 2, n)[i] = text[b + 2 + i - 1]
    BY <2>1, <2>3, SubSeqProperties
  <2>5. /\ n - (b + 2) + 1 = n - b - 1 /\ (b + 2 <= n \/ n - b - 1 = 0)
        /\ \A i \in 1..n - b - 1 : b + 2 + i - 1 = b + 1 + i
    BY <1>2
  <2> QED
    BY <2>2, <2>4, <2>5
<1>7. NoBlank(f)
  <2> SUFFICES ASSUME NEW i \in 1..b - 1, i + 1 \in 1..b - 1, f[i] = NL, f[i + 1] = NL
               PROVE  FALSE
    BY <1>5 DEF NoBlank
  <2>1. text[i] = NL /\ text[i + 1] = NL /\ i \in 1..n /\ i < b
    BY <1>2, <1>5
  <2> QED
    BY <1>2, <2>1
<1>8. Len(r) < n
  BY <1>1, <1>2, <1>6
<1>9. NL \in Symbols
  BY DEF Symbols
<1>10. PICK g \in Seq(Symbols) : /\ g = Append(f, NL) /\ Len(g) = b
                                 /\ g[b] = NL /\ \A i \in 1..b - 1 : g[i] = f[i]
  <2>1. Append(f, NL) \in Seq(Symbols) /\ GrownBy(Append(f, NL), f, NL, Symbols)
    BY <1>5, <1>9, AppendProperties, AppendAs
  <2>2. b - 1 + 1 = b
    BY <1>2
  <2> QED
    BY <1>5, <2>1, <2>2 DEF GrownBy
<1>11. PICK h \in Seq(Symbols) : /\ h = Append(g, NL) /\ Len(h) = b + 1
                                 /\ h[b + 1] = NL /\ \A i \in 1..b : h[i] = g[i]
  <2>1. Append(g, NL) \in Seq(Symbols) /\ GrownBy(Append(g, NL), g, NL, Symbols)
    BY <1>9, <1>10, AppendProperties, AppendAs
  <2> QED
    BY <1>10, <2>1 DEF GrownBy
<1>12. PICK u \in Seq(Symbols) : /\ u = h \o r /\ Len(u) = n
                                 /\ \A i \in 1..n : u[i] = IF i <= b + 1 THEN h[i] ELSE r[i - (b + 1)]
  <2>1. /\ h \o r \in Seq(Symbols) /\ Len(h \o r) = Len(h) + Len(r)
        /\ \A i \in 1..Len(h) + Len(r) : (h \o r)[i] = IF i <= Len(h) THEN h[i] ELSE r[i - Len(h)]
    <3>1. h \in Seq(Symbols) /\ r \in Seq(Symbols)
      BY <1>6, <1>11
    <3> QED
      BY <3>1, ConcatProperties
  <2>2. Len(h) = b + 1 /\ Len(h) + Len(r) = n
    BY <1>1, <1>2, <1>6, <1>11
  <2> QED
    BY <2>1, <2>2
<1>13. \A i \in 1..n : u[i] = text[i]
  <2> SUFFICES ASSUME NEW i \in 1..n PROVE u[i] = text[i]
    OBVIOUS
  <2>1. CASE i \in 1..b - 1
    <3>1. i <= b + 1 /\ i \in 1..b
      BY <1>2, <2>1
    <3> QED
      BY <1>5, <1>10, <1>11, <1>12, <2>1, <3>1
  <2>2. CASE i = b
    <3>1. i <= b + 1 /\ i \in 1..b
      BY <1>2, <2>2
    <3> QED
      BY <1>2, <1>10, <1>11, <1>12, <2>2, <3>1
  <2>3. CASE i = b + 1
    <3>1. i <= b + 1
      BY <1>2, <2>3
    <3> QED
      BY <1>2, <1>11, <1>12, <2>3, <3>1
  <2>4. CASE i > b + 1
    <3>1. ~(i <= b + 1) /\ i - (b + 1) \in 1..n - b - 1 /\ b + 1 + (i - (b + 1)) = i
      BY <1>1, <1>2, <2>4
    <3> QED
      BY <1>6, <1>12, <3>1
  <2> QED
    BY <1>2, <2>1, <2>2, <2>3, <2>4
<1>14. u = text
  BY <1>1, <1>12, <1>13, SeqEqual
<1> QED
  BY <1>1, <1>3, <1>4, <1>5, <1>6, <1>7, <1>8, <1>10, <1>11, <1>12, <1>14

\* The two recursions of feed.
LEMMA EventsDefined ==
  /\ Events \in [Seq(Symbols) -> Seq(Lines)]
  /\ \A text \in Seq(Symbols) :
       Events[text] = IF Blank(text) = 0 THEN <<>>
                      ELSE EventOf(FrameOf(text)) \o Events[RestOf(text)]
<1> DEFINE B == {t \in Seq(Symbols) : Blank(t) = 0}
           base == [t \in Seq(Symbols) |-> <<>>]
           more == [p \in Seq(Symbols) \X Seq(Lines) |->
                      IF p[1] \in B THEN <<>> ELSE EventOf(FrameOf(p[1])) \o p[2]]
           cut == [t \in Seq(Symbols) |-> IF t \in B THEN t ELSE RestOf(t)]
           Body(h) == [t \in Seq(Symbols) |->
                         IF Blank(t) = 0 THEN <<>>
                         ELSE EventOf(SubSeq(t, 1, Blank(t) - 1))
                                \o h[SubSeq(t, Blank(t) + 2, Len(t))]]
<1>1. \A t \in Seq(Symbols) : t \notin B =>
        /\ FrameOf(t) \in Seq(Symbols) /\ RestOf(t) \in Seq(Symbols)
        /\ Len(RestOf(t)) < Len(t)
  BY FirstFrame
<1>2. CutRecursion(Symbols, Seq(Lines), B, base, more, cut)
  <2>1. <<>> \in Seq(Lines)
    OBVIOUS
  <2>2. base \in [Seq(Symbols) -> Seq(Lines)]
    BY <2>1
  <2>3. more \in [Seq(Symbols) \X Seq(Lines) -> Seq(Lines)]
    <3>1. ASSUME NEW t \in Seq(Symbols), NEW v \in Seq(Lines), t \notin B
          PROVE  EventOf(FrameOf(t)) \o v \in Seq(Lines)
      <4>1. EventOf(FrameOf(t)) \in Seq(Lines)
        BY <1>1, <3>1, EventOfType
      <4> QED
        BY <3>1, <4>1, ConcatProperties
    <3> HIDE DEF B
    <3> QED
      BY <2>1, <3>1
  <2>4. cut \in [Seq(Symbols) -> Seq(Symbols)]
    <3> HIDE DEF B
    <3> QED
      BY <1>1
  <2>5. \A t \in Seq(Symbols) : t \notin B => Len(cut[t]) < Len(t)
    <3> HIDE DEF B
    <3> QED
      BY <1>1
  <2> HIDE DEF B, base, more, cut
  <2> QED
    BY <2>2, <2>3, <2>4, <2>5 DEF CutRecursion
<1>3. PICK f \in [Seq(Symbols) -> Seq(Lines)] :
        \A t \in Seq(Symbols) : CutEquation(f, t, B, base, more, cut)
  <2> HIDE DEF B, base, more, cut
  <2> QED
    BY <1>2, RecursionOnLength
<1>4. f = Body(f)
  <2>1. ASSUME NEW t \in Seq(Symbols) PROVE f[t] = Body(f)[t]
    <3>1. f[t] = IF t \in B THEN base[t] ELSE more[<<t, f[cut[t]]>>]
      BY <1>3, <2>1 DEF CutEquation
    <3>2. CASE Blank(t) = 0
      BY <2>1, <3>1, <3>2
    <3>3. CASE Blank(t) # 0
      <4>1. t \notin B /\ cut[t] = RestOf(t) /\ RestOf(t) \in Seq(Symbols)
        BY <1>1, <2>1, <3>3
      <4>2. f[RestOf(t)] \in Seq(Lines)
        BY <1>3, <4>1
      <4>3. f[t] = EventOf(FrameOf(t)) \o f[RestOf(t)]
        BY <2>1, <3>1, <4>1, <4>2
      <4> QED
        BY <2>1, <3>3, <4>3 DEF FrameOf, RestOf
    <3> QED
      BY <3>2, <3>3
  <2>2. f = [t \in Seq(Symbols) |-> f[t]]
    BY <1>3
  <2> QED
    BY <2>1, <2>2
<1>5. Events = CHOOSE h : h = Body(h)
  BY DEF Events
<1>6. Events = Body(Events)
  <2> HIDE DEF Body
  <2> QED
    BY <1>4, <1>5
<1> HIDE DEF more, base, cut
<1>7. \A t \in Seq(Symbols) :
        Events[t] = IF Blank(t) = 0 THEN <<>> ELSE EventOf(FrameOf(t)) \o Events[RestOf(t)]
  BY <1>6 DEF FrameOf, RestOf
<1> DEFINE P == {t \in Seq(Symbols) : Events[t] \in Seq(Lines)}
<1>8. ASSUME NEW t \in Seq(Symbols), \A u \in Seq(Symbols) : Len(u) < Len(t) => u \in P
      PROVE  t \in P
  <2>1. CASE Blank(t) = 0
    <3>1. <<>> \in Seq(Lines)
      OBVIOUS
    <3> QED
      BY <1>7, <1>8, <2>1, <3>1
  <2>2. CASE Blank(t) # 0
    <3>1. /\ FrameOf(t) \in Seq(Symbols) /\ RestOf(t) \in P
      BY <1>1, <1>8, <2>2
    <3>2. EventOf(FrameOf(t)) \in Seq(Lines) /\ Events[RestOf(t)] \in Seq(Lines)
      BY <3>1, EventOfType
    <3>3. EventOf(FrameOf(t)) \o Events[RestOf(t)] \in Seq(Lines)
      BY <3>2, ConcatProperties
    <3> QED
      BY <1>7, <1>8, <2>2, <3>3
  <2> QED
    BY <2>1, <2>2
<1>9. Seq(Symbols) \subseteq P
  <2> HIDE DEF P
  <2> QED
    BY <1>8, InductionOnLength
<1>10. Events \in [Seq(Symbols) -> Seq(Lines)]
  <2>1. Events = [t \in Seq(Symbols) |-> Events[t]]
    BY <1>6
  <2> QED
    BY <1>9, <2>1
<1> QED
  BY <1>7, <1>10

LEMMA KeptDefined ==
  /\ Kept \in [Seq(Symbols) -> Seq(Symbols)]
  /\ \A text \in Seq(Symbols) :
       Kept[text] = IF Blank(text) = 0 THEN text ELSE Kept[RestOf(text)]
<1> DEFINE B == {t \in Seq(Symbols) : Blank(t) = 0}
           base == [t \in Seq(Symbols) |-> t]
           more == [p \in Seq(Symbols) \X Seq(Symbols) |-> p[2]]
           cut == [t \in Seq(Symbols) |-> IF t \in B THEN t ELSE RestOf(t)]
           Body(h) == [t \in Seq(Symbols) |->
                         IF Blank(t) = 0 THEN t ELSE h[SubSeq(t, Blank(t) + 2, Len(t))]]
<1>1. \A t \in Seq(Symbols) : t \notin B =>
        /\ FrameOf(t) \in Seq(Symbols) /\ RestOf(t) \in Seq(Symbols)
        /\ Len(RestOf(t)) < Len(t)
  BY FirstFrame
<1>2. CutRecursion(Symbols, Seq(Symbols), B, base, more, cut)
  <2>1. base \in [Seq(Symbols) -> Seq(Symbols)]
    OBVIOUS
  <2>2. more \in [Seq(Symbols) \X Seq(Symbols) -> Seq(Symbols)]
    OBVIOUS
  <2>3. cut \in [Seq(Symbols) -> Seq(Symbols)]
    <3> HIDE DEF B
    <3> QED
      BY <1>1
  <2>4. \A t \in Seq(Symbols) : t \notin B => Len(cut[t]) < Len(t)
    <3> HIDE DEF B
    <3> QED
      BY <1>1
  <2> HIDE DEF B, base, more, cut
  <2> QED
    BY <2>1, <2>2, <2>3, <2>4 DEF CutRecursion
<1>3. PICK f \in [Seq(Symbols) -> Seq(Symbols)] :
        \A t \in Seq(Symbols) : CutEquation(f, t, B, base, more, cut)
  <2> HIDE DEF B, base, more, cut
  <2> QED
    BY <1>2, RecursionOnLength
<1>4. f = Body(f)
  <2>1. ASSUME NEW t \in Seq(Symbols) PROVE f[t] = Body(f)[t]
    <3>1. f[t] = IF t \in B THEN base[t] ELSE more[<<t, f[cut[t]]>>]
      BY <1>3, <2>1 DEF CutEquation
    <3>2. CASE Blank(t) = 0
      BY <2>1, <3>1, <3>2
    <3>3. CASE Blank(t) # 0
      <4>1. t \notin B /\ cut[t] = RestOf(t) /\ RestOf(t) \in Seq(Symbols)
        BY <1>1, <2>1, <3>3
      <4>2. f[RestOf(t)] \in Seq(Symbols)
        BY <1>3, <4>1
      <4>3. f[t] = f[RestOf(t)]
        BY <2>1, <3>1, <4>1, <4>2
      <4> QED
        BY <2>1, <3>3, <4>3 DEF FrameOf, RestOf
    <3> QED
      BY <3>2, <3>3
  <2>2. f = [t \in Seq(Symbols) |-> f[t]]
    BY <1>3
  <2> QED
    BY <2>1, <2>2
<1>5. Kept = CHOOSE h : h = Body(h)
  BY DEF Kept
<1>6. Kept = Body(Kept)
  <2> HIDE DEF Body
  <2> QED
    BY <1>4, <1>5
<1> HIDE DEF more, base, cut
<1>7. \A t \in Seq(Symbols) :
        Kept[t] = IF Blank(t) = 0 THEN t ELSE Kept[RestOf(t)]
  BY <1>6 DEF FrameOf, RestOf
<1> DEFINE P == {t \in Seq(Symbols) : Kept[t] \in Seq(Symbols)}
<1>8. ASSUME NEW t \in Seq(Symbols), \A u \in Seq(Symbols) : Len(u) < Len(t) => u \in P
      PROVE  t \in P
  <2>1. CASE Blank(t) = 0
    BY <1>7, <1>8, <2>1
  <2>2. CASE Blank(t) # 0
    BY <1>1, <1>7, <1>8, <2>2
  <2> QED
    BY <2>1, <2>2
<1>9. Seq(Symbols) \subseteq P
  <2> HIDE DEF P
  <2> QED
    BY <1>8, InductionOnLength
<1>10. Kept \in [Seq(Symbols) -> Seq(Symbols)]
  <2>1. Kept = [t \in Seq(Symbols) |-> Kept[t]]
    BY <1>6
  <2> QED
    BY <1>9, <2>1
<1> QED
  BY <1>7, <1>10

\* Whatever comes after it, the events of a response are those that feed takes from
\* a text, and then the events of what it keeps and what comes after.
Fed(text, rest) == EventsOf(text \o rest) = Events[text] \o EventsOf(Kept[text] \o rest)

LEMMA FeedTakes ==
  ASSUME NEW text \in Seq(Symbols), NEW rest \in Seq(Symbols)
  PROVE  /\ Events[text] \in Seq(Lines) /\ Kept[text] \in Seq(Symbols)
         /\ NoBlank(Kept[text])
         /\ Fed(text, rest)
<1> DEFINE P == {t \in Seq(Symbols) : NoBlank(Kept[t]) /\ Fed(t, rest)}
<1>1. ASSUME NEW t \in Seq(Symbols), \A u \in Seq(Symbols) : Len(u) < Len(t) => u \in P
      PROVE  t \in P
  <2>1. CASE Blank(t) = 0
    <3>1. Events[t] = <<>> /\ Kept[t] = t /\ NoBlank(t)
      BY <1>1, <2>1, EventsDefined, KeptDefined, BlankIs
    <3>2. PICK ev \in Seq(Lines) : ev = EventsOf(t \o rest)
      <4>1. t \o rest \in Seq(Symbols)
        BY <1>1, ConcatProperties
      <4> QED
        BY <4>1, EventsOfType
    <3>3. <<>> \o ev = ev
      BY <3>2
    <3> QED
      BY <1>1, <3>1, <3>2, <3>3 DEF Fed
  <2>2. CASE Blank(t) # 0
    <3>1. PICK f \in Seq(Symbols), u \in Seq(Symbols) :
            /\ f = FrameOf(t) /\ u = RestOf(t) /\ NoBlank(f) /\ Len(u) < Len(t)
            /\ t = Append(Append(f, NL), NL) \o u
      BY <1>1, <2>2, FirstFrame
    <3>2. /\ Events[t] = EventOf(f) \o Events[u] /\ Kept[t] = Kept[u]
      BY <1>1, <2>2, <3>1, EventsDefined, KeptDefined
    <3>3. NoBlank(Kept[u]) /\ Fed(u, rest)
      BY <1>1, <3>1
    <3>4. PICK e \in Seq(Lines), es \in Seq(Lines), tail \in Seq(Lines) :
            e = EventOf(f) /\ es = Events[u] /\ tail = EventsOf(Kept[u] \o rest)
      <4>1. Kept[u] \in Seq(Symbols)
        BY <3>1, KeptDefined
      <4>2. Kept[u] \o rest \in Seq(Symbols)
        BY <4>1, ConcatProperties
      <4> QED
        BY <3>1, <4>2, EventOfType, EventsDefined, EventsOfType
    <3>5. PICK g \in Seq(Symbols) : g = Append(Append(f, NL), NL)
      <4>1. NL \in Symbols
        BY DEF Symbols
      <4>2. PICK h \in Seq(Symbols) : h = Append(f, NL)
        BY <3>1, <4>1, AppendProperties
      <4> QED
        BY <4>1, <4>2, AppendProperties
    <3>6. PICK more \in Seq(Symbols) : more = u \o rest
      BY <3>1, ConcatProperties
    <3>7. t \o rest = g \o more
      <4>1. Regroups(g, u, rest)
        BY <3>1, <3>5, ConcatRegroups
      <4> QED
        BY <3>1, <3>5, <3>6, <4>1 DEF Regroups
    <3>8. EventsOf(g \o more) = e \o EventsOf(more)
      BY <3>1, <3>4, <3>5, <3>6, EventsAfterFrame
    <3>9. EventsOf(more) = es \o tail
      BY <3>3, <3>4, <3>6 DEF Fed
    <3>10. (e \o es) \o tail = e \o (es \o tail)
      <4>1. Regroups(e, es, tail)
        BY <3>4, ConcatRegroups
      <4> QED
        BY <4>1 DEF Regroups
    <3>11. Fed(t, rest)
      BY <3>2, <3>4, <3>7, <3>8, <3>9, <3>10 DEF Fed
    <3> QED
      BY <1>1, <3>2, <3>3, <3>11
  <2> QED
    BY <2>1, <2>2
<1>2. text \in P
  <2> HIDE DEF P
  <2> QED
    BY <1>1, InductionOnLength
<1> QED
  BY <1>2, EventsDefined, KeptDefined

\* What flush takes at the end are the events that are left.
LEMMA FlushTakes ==
  ASSUME NEW text \in Seq(Symbols), NoBlank(text)
  PROVE  Flush(text) = EventsOf(text) /\ Flush(text) \in Seq(Lines) /\ Len(Flush(text)) <= 1
<1>1. PICK all \in Lines : all = LinesOf(text)
  BY LinesOfAppend DEF Symbols
<1>2. PICK s \in Lines : /\ s = Stripped(Only(all, DataLines))
                         /\ s = <<>> <=> Only(all, DataLines) = <<>>
  BY <1>1, OneEventType
<1>3. EventOf(text) = IF s = <<>> THEN <<>> ELSE <<s>>
  BY <1>1, <1>2 DEF EventOf, Stripped, DataLines
<1>4. Len(EventOf(text)) <= 1
  BY <1>3
<1> QED
  BY <1>4, EventsOfOne, EventOfType DEF Flush
-----------------------------------------------------------------------------
(* What an operation has given, keeps and has yet to read *)

Readers == [rest : Seq(Symbols), text : Seq(Symbols), queue : Seq(Lines), eof : BOOLEAN]

Outcomes == {"none", "result", "failed", "timed out", "abandoned", "cancelled"}

\* The items that were given, the events that wait and those of the text that is
\* kept and of the rest of the response are the events of the response.
EventsOnTheWay(r, its) ==
  /\ its \in Seq(Lines)
  /\ NoBlank(r.text)
  /\ EventsOf(response) = (its \o r.queue) \o EventsOf(r.text \o r.rest)
  /\ doing.method # "stream" => its = <<>>
  /\ doing.method = "call" => r.queue = <<>>
  /\ r.eof => r.text = <<>> /\ r.rest = <<>>

\* The chunks that were given and the rest of the response are the response.
ChunksOnTheWay(r, its) ==
  /\ its \in Seq(Seq(Symbols))
  /\ response = Joined(its) \o r.rest
  /\ r.text = <<>> /\ r.queue = <<>> /\ ~r.eof

\* The text that is kept and the rest of the response are the response.
TextOnTheWay(r, its) ==
  /\ its = <<>>
  /\ response = r.text \o r.rest
  /\ r.queue = <<>> /\ ~r.eof

OnTheWay(r, its) ==
  IF doing.kind = "sse" THEN EventsOnTheWay(r, its)
  ELSE IF doing.method = "stream" THEN ChunksOnTheWay(r, its)
  ELSE TextOnTheWay(r, its)

\* A stream reads on when the events that it had are given.
ReadsNext(r) == doing.kind = "sse" /\ doing.method = "stream" => r.queue = <<>>

\* ItemsMatchResponse, for items and an outcome to come.
Matches(its, o) ==
  IF doing.kind = "sse"
  THEN /\ IsPrefix(its, EventsOf(response))
       /\ o = "result" =>
            Len(its) = IF doing.method = "stream" THEN Len(EventsOf(response))
                       ELSE IF EventsOf(response) = <<>> THEN 0 ELSE 1
  ELSE /\ IsPrefix(Joined(its), response)
       /\ o = "result" =>
            Joined(its) = IF doing.kind = "cli" /\ IsBlank(response) THEN <<>> ELSE response

Underway ==
  /\ outcome = "none"
  /\ OnTheWay(reader, items)
  /\ place # "paused" => ReadsNext(reader)
  /\ place = "paused" => doing.method = "stream"
  /\ steps \notin deferred
  /\ doing.kind # "cli" => steps \in open

Sound ==
  /\ TypeOK
  /\ place = "between" => Matches(items, outcome)
  /\ place # "between" => Underway

LEMMA JoinedAppend ==
  ASSUME NEW its \in Seq(Seq(Symbols)), NEW chunk \in Seq(Symbols)
  PROVE  /\ Joined(<<>>) = <<>>
         /\ Joined(its) \in Seq(Symbols)
         /\ Joined(Append(its, chunk)) = Joined(its) \o chunk
         /\ Joined(<<chunk>>) = chunk
<1>1. Join \in StepsOver(Seq(Symbols), Seq(Symbols))
  <2>1. \A p \in Seq(Symbols) \X Seq(Symbols) : p[1] \o p[2] \in Seq(Symbols)
    BY ConcatProperties
  <2> QED
    BY <2>1 DEF Join, StepsOver
<1>2. PICK e \in Seq(Symbols) : e = <<>> /\ e \o chunk = chunk
  <2>1. <<>> \in Seq(Symbols) /\ <<>> \o chunk = chunk
    OBVIOUS
  <2> QED
    BY <2>1
<1>3. Joined(<<>>) = <<>>
  BY <1>1, <1>2, FoldedEmpty DEF Joined
<1>4. Joined(its) \in Seq(Symbols)
  BY <1>1, <1>2, FoldedType DEF Joined
<1>5. ASSUME NEW s \in Seq(Seq(Symbols)), NEW text \in Seq(Symbols), text = Joined(s)
      PROVE  Joined(Append(s, chunk)) = text \o chunk
  <2>1. Folded(Join, e, Append(s, chunk)) = Join[<<Folded(Join, e, s), chunk>>]
    BY <1>1, <1>5, FoldedAppend
  <2> QED
    BY <1>2, <1>5, <2>1 DEF Join, Joined
<1>6. Joined(<<chunk>>) = chunk
  <2>1. <<>> \in Seq(Seq(Symbols)) /\ Append(<<>>, chunk) = <<chunk>>
    OBVIOUS
  <2>2. PICK none \in Seq(Seq(Symbols)) : none = <<>> /\ Append(none, chunk) = <<chunk>>
    BY <2>1
  <2>3. Joined(Append(none, chunk)) = e \o chunk
    BY <1>2, <1>3, <1>5, <2>2
  <2> QED
    BY <1>2, <2>2, <2>3
<1> QED
  BY <1>3, <1>4, <1>5, <1>6

LEMMA PrefixOfConcat ==
  ASSUME NEW S, NEW s \in Seq(S), NEW t \in Seq(S), NEW u, u = s \o t
  PROVE  IsPrefix(s, u) /\ Len(u) = Len(s) + Len(t)
<1>1. u \in Seq(S) /\ Len(u) = Len(s) + Len(t) /\ Len(s) \in Nat /\ Len(t) \in Nat
  BY ConcatProperties, LenProperties
<1>2. Len(s) <= Len(u) /\ SubSeq(s, 1, Len(s)) = SubSeq(u, 1, Len(s))
  BY <1>1
<1> QED
  BY <1>1, <1>2 DEF IsPrefix

LEMMA PrefixOfItself == ASSUME NEW S, NEW s \in Seq(S) PROVE IsPrefix(s, s)
<1>1. Len(s) \in Nat
  OBVIOUS
<1> QED
  BY <1>1 DEF IsPrefix

LEMMA ReaderParts ==
  ASSUME NEW r \in Readers
  PROVE  /\ r.rest \in Seq(Symbols) /\ r.text \in Seq(Symbols)
         /\ r.queue \in Seq(Lines) /\ r.eof \in BOOLEAN
         /\ r.text \o r.rest \in Seq(Symbols)
         /\ EventsOf(r.text \o r.rest) \in Seq(Lines)
<1>1. r.rest \in Seq(Symbols) /\ r.text \in Seq(Symbols) /\ r.queue \in Seq(Lines) /\ r.eof \in BOOLEAN
  BY DEF Readers
<1>2. r.text \o r.rest \in Seq(Symbols)
  BY <1>1, ConcatProperties
<1> QED
  BY <1>1, <1>2, EventsOfType

\* What was given on the way is not wrong if it goes no further.
LEMMA GivenMatches ==
  ASSUME NEW r \in Readers, NEW its, OnTheWay(r, its), response \in Seq(Symbols),
         NEW o, o # "result"
  PROVE  Matches(its, o)
<1>1. CASE doing.kind = "sse"
  <2>1. EventsOnTheWay(r, its)
    BY <1>1 DEF OnTheWay
  <2>2. PICK all \in Seq(Lines), q \in Seq(Lines), later \in Seq(Lines) :
          all = EventsOf(response) /\ q = r.queue /\ later = EventsOf(r.text \o r.rest)
    BY EventsOfType, ReaderParts
  <2>3. its \in Seq(Lines) /\ all = (its \o q) \o later
    BY <2>1, <2>2 DEF EventsOnTheWay
  <2>4. PICK more \in Seq(Lines) : more = q \o later
    BY <2>2, ConcatProperties
  <2>5. Regroups(its, q, later)
    BY <2>2, <2>3, ConcatRegroups
  <2>6. all = its \o more
    BY <2>3, <2>4, <2>5 DEF Regroups
  <2>7. IsPrefix(its, all)
    BY <2>3, <2>4, <2>6, PrefixOfConcat
  <2> QED
    BY <1>1, <2>2, <2>7 DEF Matches
<1>2. CASE doing.kind # "sse" /\ doing.method = "stream"
  <2>1. ChunksOnTheWay(r, its)
    BY <1>2 DEF OnTheWay
  <2>2. PICK text \in Seq(Symbols) : text = Joined(its)
    BY <2>1, ReaderParts, JoinedAppend DEF ChunksOnTheWay
  <2>3. response = text \o r.rest /\ r.rest \in Seq(Symbols)
    BY <2>1, <2>2, ReaderParts DEF ChunksOnTheWay
  <2>4. IsPrefix(text, response)
    BY <2>2, <2>3, PrefixOfConcat
  <2> QED
    BY <1>2, <2>2, <2>4 DEF Matches
<1>3. CASE doing.kind # "sse" /\ doing.method # "stream"
  <2>1. its = <<>>
    BY <1>3 DEF OnTheWay, TextOnTheWay
  <2>5. <<>> \in Seq(Symbols) /\ response = <<>> \o response
    OBVIOUS
  <2>2. PICK none \in Seq(Symbols) : none = <<>> /\ response = none \o response
    BY <2>5
  <2>3. IsPrefix(none, response)
    BY <2>2, PrefixOfConcat
  <2>4. Joined(its) = none
    <3>1. <<>> \in Seq(Seq(Symbols)) /\ <<>> \in Seq(Symbols)
      OBVIOUS
    <3> QED
      BY <2>1, <2>2, <3>1, JoinedAppend
  <2> QED
    BY <1>3, <2>3, <2>4 DEF Matches
<1> QED
  BY <1>1, <1>2, <1>3

\* What a step of a running operation does: it ends, or leaves a generator of which
\* there is a connection, with matching items; it reads on; or it gives an item.
Stops ==
  \E o \in Outcomes : /\ End(o) \/ (doing.kind # "cli" /\ Leave(o))
                      /\ Matches(items', o)

GoesOn ==
  \E r \in Readers : ReadOn(r) /\ OnTheWay(r, items) /\ ReadsNext(r) /\ UNCHANGED items

Gives ==
  /\ place' = "paused" /\ until' = 0
  /\ reader' \in Readers /\ OnTheWay(reader', items') /\ doing.method = "stream"
  /\ UNCHANGED <<outcome, open, deferred>>

SoundTurn ==
  /\ UNCHANGED <<now, async, steps, doing, response>>
  /\ Stops \/ GoesOn \/ Gives

LEMMA IdleType == Idle \in Readers
  BY DEF Idle, Readers, Lines

LEMMA ReadersAre ==
  Readers = [rest : Seq(Symbols), text : Seq(Symbols),
             queue : Seq(Seq(Seq(Symbols))), eof : BOOLEAN]
  BY DEF Readers, Lines

\* What TypeOK says of the text that the parser keeps.
LEMMA NothingCompleteKept ==
  /\ Blank(<<>>) = 0
  /\ \A r \in Readers : \A its : doing.kind = "sse" /\ OnTheWay(r, its) => Blank(r.text) = 0
<1>1. \A text \in Seq(Symbols) : NoBlank(text) => Blank(text) = 0
  BY BlankIs
<1>2. <<>> \in Seq(Symbols) /\ NoBlank(<<>>)
  BY DEF NoBlank
<1>3. ASSUME NEW r \in Readers, NEW its, doing.kind = "sse", OnTheWay(r, its)
      PROVE  Blank(r.text) = 0
  BY <1>1, <1>3, ReaderParts DEF OnTheWay, EventsOnTheWay
<1> QED
  BY <1>1, <1>2, <1>3

LEMMA SoundTurnKeepsSound ==
  ASSUME Sound, Clock, place # "between", SoundTurn
  PROVE  Sound'
<1>1. TypeOK /\ Underway
  BY DEF Sound
<1>6. response \in Seq(Symbols)
  BY <1>1 DEF TypeOK
<1>2. UNCHANGED <<now, async, steps, doing, response>>
  BY DEF SoundTurn
<1>3. CASE Stops
  <2>1. PICK o \in Outcomes : /\ End(o) \/ (doing.kind # "cli" /\ Leave(o))
                              /\ Matches(items', o)
    BY <1>3 DEF Stops
  <2>2. /\ place' = "between" /\ outcome' = o /\ until' = 0 /\ reader' = Idle
        /\ \/ open' = open \ {steps} /\ deferred' = deferred
           \/ doing.kind # "cli" /\ open' = open /\ deferred' = deferred \cup {steps}
    BY <2>1 DEF End, Leave
  <2>3. open' \subseteq 1..steps /\ deferred' \subseteq open'
    BY <1>1, <2>2 DEF TypeOK, Underway
  <2>6. Blank(reader'.text) = 0
    BY <2>2, NothingCompleteKept DEF Idle
  <2>4. TypeOK'
    BY <1>1, <1>2, <2>1, <2>2, <2>3, <2>6, IdleType, ReadersAre DEF TypeOK, Outcomes
  <2>5. Matches(items, outcome)'
    BY <1>2, <2>1, <2>2 DEF Matches
  <2> QED
    BY <2>2, <2>4, <2>5 DEF Sound
<1>4. CASE GoesOn
  <2>1. PICK r \in Readers : ReadOn(r) /\ OnTheWay(r, items) /\ ReadsNext(r) /\ items' = items
    BY <1>4 DEF GoesOn
  <2>2. CASE End("timed out")
    <3>1. Matches(items', "timed out")
      <4>3. "timed out" # "result"
        OBVIOUS
      <4>1. PICK o : o = "timed out" /\ o # "result"
        BY <4>3
      <4>2. Matches(items, o)
        BY <1>6, <2>1, <4>1, GivenMatches
      <4> QED
        BY <2>1, <4>1, <4>2
    <3>2. Stops
      BY <2>2, <3>1 DEF Stops, Outcomes
    <3> QED
      BY <1>3, <3>2
  <2>3. CASE /\ place' = "read" /\ until' = now + ReadTimeout /\ reader' = r
             /\ UNCHANGED <<outcome, open, deferred>>
    <3>1. until' \in Nat
      BY <2>3, BudgetAssumption DEF Clock, ReadTimeout, Remaining
    <3>5. doing.kind = "sse" => Blank(reader'.text) = 0
      BY <2>1, <2>3, NothingCompleteKept
    <3>2. TypeOK'
      BY <1>1, <1>2, <2>1, <2>3, <3>1, <3>5, ReadersAre DEF TypeOK
    <3>3. OnTheWay(reader, items)'
      BY <1>2, <2>1, <2>3
        DEF OnTheWay, EventsOnTheWay, ChunksOnTheWay, TextOnTheWay
    <3>4. ReadsNext(reader)'
      BY <1>2, <2>1, <2>3 DEF ReadsNext
    <3> QED
      BY <1>1, <1>2, <2>3, <3>2, <3>3, <3>4 DEF Sound, Underway
  <2> QED
    BY <2>1, <2>2, <2>3 DEF ReadOn
<1>5. CASE Gives
  <2>3. doing.kind = "sse" => Blank(reader'.text) = 0
    <3>1. PICK its : its = items'
      OBVIOUS
    <3>2. PICK r \in Readers : r = reader' /\ OnTheWay(r, its)
      BY <1>5, <3>1 DEF Gives
    <3> QED
      BY <3>2, NothingCompleteKept
  <2>1. TypeOK'
    BY <1>1, <1>2, <1>5, <2>3, ReadersAre DEF TypeOK, Gives
  <2>2. OnTheWay(reader, items)'
    BY <1>2, <1>5
      DEF Gives, OnTheWay, EventsOnTheWay, ChunksOnTheWay, TextOnTheWay
  <2> QED
    BY <1>1, <1>2, <1>5, <2>1, <2>2 DEF Gives, Sound, Underway
<1> QED
  BY <1>3, <1>4, <1>5 DEF SoundTurn

LEMMA SoundInit == Init => Sound
<1> SUFFICES ASSUME Init PROVE Sound
  OBVIOUS
<1>1. response \in Seq(Symbols) /\ items = <<>> /\ response = <<>>
  BY DEF Init
<1>2. TypeOK
  <2>1. doing \in Operations
    BY DEF Init, Operations
  <2>2. reader \in Readers
    BY IdleType DEF Init
  <2> QED
    BY <1>1, <2>1, <2>2, ReadersAre, BudgetAssumption DEF Init, TypeOK
<1>3. Matches(items, outcome)
  <2>1. TextOnTheWay(reader, items)
    BY <1>1 DEF TextOnTheWay, Init, Idle
  <2>2. OnTheWay(reader, items) /\ reader \in Readers /\ outcome # "result"
    BY <2>1, IdleType DEF OnTheWay, Init
  <2> QED
    BY <1>1, <2>2, GivenMatches
<1> QED
  BY <1>2, <1>3 DEF Init, Sound

\* An operation begins with the whole response on its way.
LEMMA BeginIsSound ==
  ASSUME Sound, NEW op \in Operations, NEW r \in Responses, Begin(op, r)
  PROVE  Sound'
<1>1. TypeOK /\ steps \in Nat /\ steps < MaxSteps /\ r \in Seq(Symbols)
  <2>1. TypeOK
    BY DEF Sound
  <2>2. steps \in 0..MaxSteps
    BY <2>1 DEF TypeOK
  <2>3. steps < MaxSteps
    BY DEF Begin
  <2>4. MaxSteps \in Nat /\ r \in Seq(Symbols)
    BY BudgetAssumption
  <2>5. steps \in Nat
    BY <2>2, <2>4
  <2> QED
    BY <2>1, <2>3, <2>4, <2>5
<1>2. /\ steps' = steps + 1 /\ doing' = op /\ place' = "request" /\ response' = r
      /\ reader' = [rest |-> r, text |-> <<>>, queue |-> <<>>, eof |-> FALSE]
      /\ items' = <<>> /\ outcome' = "none"
      /\ open' = IF op.kind = "cli" THEN open ELSE open \cup {steps + 1}
      /\ UNCHANGED <<now, async, until, deferred>>
  BY DEF Begin, Idle
<1>3. open' \subseteq 1..(steps + 1) /\ deferred' \subseteq open' /\ steps + 1 \notin deferred
  <2>1. 1..steps \subseteq 1..(steps + 1) /\ steps + 1 \in 1..(steps + 1) /\ steps + 1 \notin 1..steps
    BY <1>1
  <2> QED
    BY <1>1, <1>2, <2>1 DEF TypeOK
<1>4. reader' \in Readers
  <2>1. <<>> \in Seq(Symbols) /\ <<>> \in Seq(Lines)
    OBVIOUS
  <2> QED
    BY <1>1, <1>2, <2>1 DEF Readers
<1>5. TypeOK'
  <2>1. steps + 1 \in 0..MaxSteps
    BY <1>1, BudgetAssumption
  <2> QED
    BY <1>1, <1>2, <1>3, <1>4, <2>1, ReadersAre, NothingCompleteKept DEF TypeOK
<1>6. OnTheWay(reader, items)'
  <2>1. <<>> \in Seq(Symbols) /\ <<>> \in Seq(Seq(Symbols)) /\ <<>> \in Seq(Lines) /\ <<>> \o r = r
    BY <1>1
  <2>2. Joined(<<>>) = <<>>
    BY <2>1, JoinedAppend
  <2>3. (<<>> \o <<>>) \o EventsOf(r) = EventsOf(r)
    <3>1. EventsOf(r) \in Seq(Lines)
      BY <1>1, EventsOfType
    <3> QED
      BY <3>1
  <2>4. NoBlank(<<>>)
    BY DEF NoBlank
  <2>5. EventsOnTheWay(reader, items)' /\ ChunksOnTheWay(reader, items)' /\ TextOnTheWay(reader, items)'
    BY <1>2, <2>1, <2>2, <2>3, <2>4 DEF EventsOnTheWay, ChunksOnTheWay, TextOnTheWay
  <2> QED
    BY <2>5 DEF OnTheWay
<1>7. Underway'
  BY <1>2, <1>3, <1>6 DEF Underway, ReadsNext
<1> QED
  BY <1>2, <1>5, <1>7 DEF Sound

LEMMA NoEvents == EventsOf(<<>>) = <<>> /\ NoBlank(<<>>)
<1>1. <<>> \in Seq(Symbols) /\ NL \in Symbols
  BY DEF Symbols
<1>2. NoBlank(<<>>)
  BY DEF NoBlank
<1>3. LinesOf(<<>>) = << <<>> >>
  BY <1>1, LinesOfAppend
<1>4. EventOf(<<>>) = <<>>
  BY <1>3, EmptyStart DEF EventOf, DataLines
<1> QED
  BY <1>1, <1>2, <1>4, EventsOfOne

\* The first of a list that is not empty is a prefix of it and of what it begins.
LEMMA FirstIsPrefix ==
  ASSUME NEW S, NEW s \in Seq(S), s # <<>>, NEW t \in Seq(S), NEW u, u = s \o t
  PROVE  IsPrefix(<<Head(s)>>, u) /\ u # <<>> /\ Len(<<Head(s)>>) = 1
<1>1. PICK x \in S, v \in Seq(S) : x = Head(s) /\ v = Tail(s)
  BY HeadTailProperties
<1>2. s = <<x>> \o v
  BY <1>1
<1>3. PICK one \in Seq(S) : one = <<x>> /\ Len(one) = 1
  <2>1. <<x>> \in Seq(S) /\ Len(<<x>>) = 1
    BY <1>1
  <2> QED
    BY <2>1
<1>4. PICK w \in Seq(S) : w = v \o t
  BY <1>1, ConcatProperties
<1>5. u = one \o w
  <2>1. Regroups(one, v, t)
    BY <1>1, <1>3, ConcatRegroups
  <2> QED
    BY <1>2, <1>3, <1>4, <2>1 DEF Regroups
<1>6. IsPrefix(one, u) /\ Len(u) = 1 + Len(w)
  BY <1>3, <1>4, <1>5, PrefixOfConcat
<1>7. u # <<>>
  <2>1. PICK n \in Nat : n = Len(w)
    BY <1>4, LenProperties
  <2> QED
    BY <1>6, <2>1
<1> QED
  BY <1>1, <1>3, <1>6, <1>7

\* What is given is the whole response.
LEMMA WholeMatches ==
  ASSUME NEW its, Joined(its) = response, response \in Seq(Symbols), doing.kind # "sse",
         doing.kind = "cli" => ~IsBlank(response), NEW o
  PROVE  Matches(its, o)
<1>1. IsPrefix(response, response)
  BY PrefixOfItself
<1> QED
  BY <1>1 DEF Matches

LEMMA ResponseMatches ==
  ASSUME response \in Seq(Symbols), doing.kind # "sse", NEW o
  PROVE  /\ (doing.kind = "cli" => ~IsBlank(response)) => Matches(<<response>>, o)
         /\ doing.kind = "cli" /\ IsBlank(response) => Matches(<<>>, o)
<1>1. <<>> \in Seq(Seq(Symbols))
  OBVIOUS
<1>2. Joined(<<response>>) = response /\ Joined(<<>>) = <<>>
  BY <1>1, JoinedAppend
<1>3. PICK none \in Seq(Symbols) : none = <<>> /\ response = none \o response
  <2>1. <<>> \in Seq(Symbols) /\ response = <<>> \o response
    OBVIOUS
  <2> QED
    BY <2>1
<1>4. IsPrefix(none, response)
  BY <1>3, PrefixOfConcat
<1>5. doing.kind = "cli" /\ IsBlank(response) => Matches(<<>>, o)
  BY <1>2, <1>3, <1>4 DEF Matches
<1> QED
  BY <1>2, <1>5, WholeMatches

LEMMA RunningParts ==
  ASSUME Sound, place # "between"
  PROVE  /\ reader \in Readers /\ response \in Seq(Symbols) /\ doing \in Operations
         /\ OnTheWay(reader, items)
         /\ place # "paused" => ReadsNext(reader)
         /\ place = "paused" => doing.method = "stream"
         /\ doing.method = "stream" => doing.kind \in {"http", "sse"}
         /\ doing.method \in {"call", "discover", "stream"}
<1>1. TypeOK /\ Underway
  BY DEF Sound
<1>2. reader \in Readers /\ response \in Seq(Symbols) /\ doing \in Operations
  BY <1>1, ReadersAre DEF TypeOK
<1>3. /\ doing.method = "stream" => doing.kind \in {"http", "sse"}
      /\ doing.method \in {"call", "discover", "stream"}
  BY <1>2 DEF Operations
<1> QED
  BY <1>1, <1>2, <1>3 DEF Underway

LEMMA StopsEarly ==
  ASSUME Sound, place # "between", NEW o \in Outcomes, o # "result",
         End(o) \/ (doing.kind # "cli" /\ Leave(o)), items' = items
  PROVE  Stops
<1>1. Matches(items, o)
  BY RunningParts, GivenMatches
<1> QED
  BY <1>1 DEF Stops

LEMMA RespondedIsSound ==
  ASSUME Sound, place # "between", Responded
  PROVE  SoundTurn
<1>1. place = "request" /\ UNCHANGED <<now, async, steps, doing, response>>
  BY DEF Responded
<1>2. response \in Seq(Symbols) /\ reader \in Readers /\ OnTheWay(reader, items) /\ ReadsNext(reader)
  BY <1>1, RunningParts
<1>3. CASE ReadOn(reader) /\ UNCHANGED items
  BY <1>1, <1>2, <1>3 DEF SoundTurn, GoesOn
<1>4. CASE doing.kind = "cli" /\ ~IsBlank(response) /\ Give(response)
  <2>1. CASE End("result") /\ items' = <<response>>
    <3>1. Matches(items', "result")
      BY <1>2, <1>4, <2>1, ResponseMatches
    <3> QED
      BY <1>1, <2>1, <3>1 DEF SoundTurn, Stops, Outcomes
  <2>2. CASE End("failed") /\ UNCHANGED items
    BY <1>1, <2>2, StopsEarly DEF SoundTurn, Outcomes
  <2> QED
    BY <1>4, <2>1, <2>2 DEF Give
<1>5. CASE /\ doing.kind = "cli" /\ IsBlank(response) /\ doing.method = "call"
           /\ End("result") /\ UNCHANGED items
  <2>1. items = <<>>
    BY <1>2, <1>5 DEF OnTheWay, TextOnTheWay
  <2>2. Matches(items', "result")
    BY <1>2, <1>5, <2>1, ResponseMatches
  <2> QED
    BY <1>1, <1>5, <2>2 DEF SoundTurn, Stops, Outcomes
<1> QED
  BY <1>3, <1>4, <1>5 DEF Responded

LEMMA BreakIsSound ==
  ASSUME Sound, place # "between", Fails \/ Abandon \/ Cancel
  PROVE  SoundTurn
<1>1. UNCHANGED <<now, async, steps, doing, response>> /\ items' = items
  BY DEF Fails, Abandon, Cancel
<1>2. \/ End("failed") \/ End("cancelled")
      \/ doing.kind # "cli" /\ Leave("abandoned")
  BY RunningParts DEF Fails, Abandon, Cancel
<1>3. Stops
  BY <1>1, <1>2, StopsEarly DEF Outcomes
<1> QED
  BY <1>1, <1>3 DEF SoundTurn

LEMMA ResumeIsSound ==
  ASSUME Sound, place # "between", Resume
  PROVE  SoundTurn
<1>1. place = "paused" /\ UNCHANGED <<now, async, steps, doing, response>>
  BY DEF Resume
<1>2. /\ response \in Seq(Symbols) /\ reader \in Readers /\ OnTheWay(reader, items)
      /\ doing.method = "stream"
  BY <1>1, RunningParts
<1>3. CASE reader.queue # <<>> /\ Yield(Head(reader.queue), [reader EXCEPT !.queue = Tail(@)])
  <2>1. CASE End("failed") /\ UNCHANGED items
    BY <1>1, <2>1, StopsEarly DEF SoundTurn, Outcomes
  <2>2. CASE /\ place' = "paused" /\ until' = 0
             /\ reader' = [reader EXCEPT !.queue = Tail(@)]
             /\ items' = Append(items, Head(reader.queue))
             /\ UNCHANGED <<outcome, open, deferred>>
    <3>1. doing.kind = "sse" /\ EventsOnTheWay(reader, items)
      BY <1>2, <1>3 DEF OnTheWay, ChunksOnTheWay
    <3>2. /\ MovesFirst(items, reader.queue)
          /\ Append(items, Head(reader.queue)) \in Seq(Lines) /\ Tail(reader.queue) \in Seq(Lines)
      BY <1>2, <1>3, <3>1, ReaderParts, FirstMoves DEF EventsOnTheWay
    <3>3. /\ reader' \in Readers /\ reader'.queue = Tail(reader.queue)
          /\ reader'.rest = reader.rest /\ reader'.text = reader.text /\ reader'.eof = reader.eof
      BY <1>2, <2>2, <3>2 DEF Readers
    <3>4. EventsOnTheWay(reader', items')
      BY <1>2, <2>2, <3>1, <3>2, <3>3 DEF EventsOnTheWay, MovesFirst
    <3> QED
      BY <1>1, <1>2, <2>2, <3>1, <3>3, <3>4 DEF SoundTurn, Gives, OnTheWay
  <2> QED
    BY <1>3, <2>1, <2>2 DEF Yield
<1>4. CASE reader.queue = <<>> /\ ReadOn(reader) /\ UNCHANGED items
  BY <1>1, <1>2, <1>4 DEF SoundTurn, GoesOn, ReadsNext
<1>5. CASE reader.queue = <<>> /\ reader.eof /\ End("result") /\ UNCHANGED items
  <2>1. doing.kind = "sse" /\ EventsOnTheWay(reader, items)
    BY <1>2, <1>5 DEF OnTheWay, ChunksOnTheWay
  <2>2. reader.text = <<>> /\ reader.rest = <<>> /\ items \in Seq(Lines)
    BY <1>5, <2>1 DEF EventsOnTheWay
  <2>3. (items \o <<>>) \o <<>> = items /\ <<>> \o <<>> = <<>>
    BY <2>2
  <2>4. EventsOf(response) = items
    BY <1>5, <2>1, <2>2, <2>3, NoEvents DEF EventsOnTheWay
  <2>5. IsPrefix(items, items)
    BY <2>2, PrefixOfItself
  <2>6. Matches(items', "result")
    BY <1>2, <1>5, <2>1, <2>4, <2>5 DEF Matches
  <2> QED
    BY <1>1, <1>5, <2>6 DEF SoundTurn, Stops, Outcomes
<1> QED
  BY <1>3, <1>4, <1>5 DEF Resume

\* A chunk and what is left of the response after it.
ChunkOf(chunk, r) ==
  /\ chunk \in Seq(Symbols) /\ r \in Readers
  /\ chunk \o r.rest = reader.rest
  /\ r.text = reader.text /\ r.queue = reader.queue /\ r.eof = reader.eof
  /\ reader.rest # <<>>

LEMMA ChunksAre ==
  ASSUME reader \in Readers, NEW n \in 1..Len(reader.rest)
  PROVE  ChunkOf(SubSeq(reader.rest, 1, n), [reader EXCEPT !.rest = SubSeq(@, n + 1, Len(@))])
<1>1. PICK s \in Seq(Symbols) : s = reader.rest
  BY ReaderParts
<1>2. PICK l \in Nat : l = Len(s) /\ n \in 1..l
  BY <1>1, LenProperties
<1>3. SubSeq(s, 1, n) \in Seq(Symbols) /\ SubSeq(s, n + 1, l) \in Seq(Symbols)
  BY <1>1, <1>2
<1>4. SubSeq(s, 1, n) \o SubSeq(s, n + 1, l) = s
  <2>1. 1 \in 1..l + 1 /\ n \in 1 - 1..l /\ l \in n..l
    BY <1>2
  <2>2. SubSeq(s, 1, n) \o SubSeq(s, n + 1, l) = SubSeq(s, 1, l)
    BY <1>1, <1>2, <2>1, ConcatAdjacentSubSeq
  <2> QED
    BY <1>1, <1>2, <2>2, SubSeqFull
<1>5. s # <<>>
  BY <1>1, <1>2
<1>6. PICK r : r = [reader EXCEPT !.rest = SubSeq(s, n + 1, l)]
  OBVIOUS
<1>7. /\ r \in Readers /\ r.rest = SubSeq(s, n + 1, l)
      /\ r.text = reader.text /\ r.queue = reader.queue /\ r.eof = reader.eof
  BY <1>3, <1>6 DEF Readers
<1> QED
  BY <1>1, <1>2, <1>3, <1>4, <1>5, <1>6, <1>7 DEF ChunkOf

\* The text that is kept grows by the chunk.
LEMMA TextGrows ==
  ASSUME reader \in Readers, NEW chunk, NEW r, ChunkOf(chunk, r)
  PROVE  /\ r.text \o chunk \in Seq(Symbols)
         /\ (r.text \o chunk) \o r.rest = reader.text \o reader.rest
<1>1. r.text \in Seq(Symbols) /\ chunk \in Seq(Symbols) /\ r.rest \in Seq(Symbols)
  BY ReaderParts DEF ChunkOf
<1>2. Regroups(r.text, chunk, r.rest)
  BY <1>1, ConcatRegroups
<1>3. r.text \o chunk \in Seq(Symbols)
  BY <1>1, ConcatProperties
<1> QED
  BY <1>2, <1>3 DEF Regroups, ChunkOf

LEMMA DrainIsSound ==
  ASSUME Sound, place = "read", UNCHANGED <<now, async, steps, doing, response>>,
         NEW chunk, NEW r, ChunkOf(chunk, r), Drain(chunk, r)
  PROVE  SoundTurn
<1>1. /\ reader \in Readers /\ OnTheWay(reader, items)
      /\ doing.kind # "sse" /\ doing.method # "stream"
  BY RunningParts DEF Drain
<1>2. PICK to : to = [r EXCEPT !.text = @ \o chunk]
  OBVIOUS
<1>3. /\ to \in Readers /\ to.text = r.text \o chunk /\ to.rest = r.rest
      /\ to.queue = reader.queue /\ to.eof = reader.eof
  BY <1>1, <1>2, TextGrows DEF ChunkOf, Readers
<1>4. TextOnTheWay(to, items)
  BY <1>1, <1>3, TextGrows DEF OnTheWay, TextOnTheWay
<1>5. ReadOn(to) /\ UNCHANGED items
  BY <1>2 DEF Drain
<1> QED
  BY <1>1, <1>3, <1>4, <1>5 DEF SoundTurn, GoesOn, OnTheWay, ReadsNext

LEMMA YieldChunkIsSound ==
  ASSUME Sound, place = "read", UNCHANGED <<now, async, steps, doing, response>>,
         NEW chunk, NEW r, ChunkOf(chunk, r), YieldChunk(chunk, r)
  PROVE  SoundTurn
<1>1. /\ reader \in Readers /\ OnTheWay(reader, items) /\ place # "between"
      /\ doing.kind # "sse" /\ doing.method = "stream"
  BY RunningParts DEF YieldChunk
<1>2. ChunksOnTheWay(reader, items)
  BY <1>1 DEF OnTheWay
<1>3. CASE End("failed") /\ UNCHANGED items
  BY <1>1, <1>3, StopsEarly DEF SoundTurn, Outcomes
<1>4. CASE /\ place' = "paused" /\ until' = 0 /\ reader' = r /\ items' = Append(items, chunk)
           /\ UNCHANGED <<outcome, open, deferred>>
  <2>1. PICK its \in Seq(Seq(Symbols)), c \in Seq(Symbols), rest \in Seq(Symbols) :
          its = items /\ c = chunk /\ rest = r.rest
    BY <1>1, <1>2, ReaderParts DEF ChunkOf, ChunksOnTheWay
  <2>2. Joined(Append(its, c)) = Joined(its) \o c /\ Joined(its) \in Seq(Symbols)
    BY <2>1, JoinedAppend
  <2>3. response = Joined(its) \o (c \o rest)
    BY <1>2, <2>1 DEF ChunkOf, ChunksOnTheWay
  <2>4. Regroups(Joined(its), c, rest)
    BY <2>1, <2>2, ConcatRegroups
  <2>5. Append(its, c) \in Seq(Seq(Symbols))
    BY <2>1, AppendProperties
  <2>6. ChunksOnTheWay(r, items')
    BY <1>2, <1>4, <2>1, <2>2, <2>3, <2>4, <2>5 DEF ChunkOf, ChunksOnTheWay, Regroups
  <2> QED
    BY <1>1, <1>4, <2>6 DEF SoundTurn, Gives, OnTheWay, ChunkOf
<1> QED
  BY <1>3, <1>4 DEF YieldChunk, Yield

\* The events that a chunk completes come next, and then those that are left.
NextEvents(events, text, rest) ==
  /\ events \in Seq(Lines) /\ text \in Seq(Symbols) /\ NoBlank(text)
  /\ EventsOf(text \o rest) \in Seq(Lines)
  /\ EventsOf(reader.text \o reader.rest) = events \o EventsOf(text \o rest)

LEMMA FeedGives ==
  ASSUME reader \in Readers, NEW chunk, NEW r, ChunkOf(chunk, r)
  PROVE  NextEvents(Events[r.text \o chunk], Kept[r.text \o chunk], r.rest)
<1>1. PICK text \in Seq(Symbols) : text = r.text \o chunk /\ text \o r.rest = reader.text \o reader.rest
  BY TextGrows
<1>2. PICK rest \in Seq(Symbols) : rest = r.rest
  BY ReaderParts DEF ChunkOf
<1>3. /\ Events[text] \in Seq(Lines) /\ Kept[text] \in Seq(Symbols) /\ NoBlank(Kept[text])
      /\ Fed(text, rest)
  BY <1>1, <1>2, FeedTakes
<1>4. EventsOf(Kept[text] \o rest) \in Seq(Lines)
  <2>1. Kept[text] \o rest \in Seq(Symbols)
    BY <1>2, <1>3, ConcatProperties
  <2> QED
    BY <2>1, EventsOfType
<1> QED
  BY <1>1, <1>2, <1>3, <1>4 DEF NextEvents, Fed

LEMMA FeedIsSound ==
  ASSUME Sound, place = "read", UNCHANGED <<now, async, steps, doing, response>>,
         NEW chunk, NEW r, ChunkOf(chunk, r), Feed(chunk, r)
  PROVE  SoundTurn
<1>1. /\ reader \in Readers /\ place # "between" /\ doing.kind = "sse" /\ response \in Seq(Symbols)
      /\ OnTheWay(reader, items) /\ ReadsNext(reader)
      /\ doing.method \in {"call", "discover", "stream"}
  BY RunningParts DEF Feed
<1>2. PICK text : text = r.text \o chunk
  OBVIOUS
<1>3. PICK events : events = Events[text]
  OBVIOUS
<1>4. PICK kept : kept = Kept[text]
  OBVIOUS
<1>5. PICK later : later = EventsOf(kept \o r.rest)
  OBVIOUS
<1>6. /\ items \in Seq(Lines) /\ reader.queue \in Seq(Lines)
      /\ EventsOf(response) = (items \o reader.queue) \o EventsOf(reader.text \o reader.rest)
      /\ doing.method # "stream" => items = <<>>
      /\ doing.method = "call" => reader.queue = <<>>
      /\ doing.method = "stream" => reader.queue = <<>>
      /\ ~reader.eof
  BY <1>1, ReaderParts DEF OnTheWay, EventsOnTheWay, ReadsNext, ChunkOf
<1>7. /\ events \in Seq(Lines) /\ kept \in Seq(Symbols) /\ NoBlank(kept) /\ later \in Seq(Lines)
      /\ EventsOf(reader.text \o reader.rest) = events \o later
  BY <1>1, <1>2, <1>3, <1>4, <1>5, FeedGives DEF NextEvents
<1>8. PICK fed : fed = [r EXCEPT !.text = kept]
  OBVIOUS
<1>9. ASSUME NEW q \in Seq(Lines)
      PROVE  /\ [fed EXCEPT !.queue = q] \in Readers
             /\ [fed EXCEPT !.queue = q].text = kept /\ [fed EXCEPT !.queue = q].rest = r.rest
             /\ [fed EXCEPT !.queue = q].queue = q /\ ~[fed EXCEPT !.queue = q].eof
  BY <1>6, <1>7, <1>8, <1>9 DEF ChunkOf, Readers
<1>10. fed.queue = reader.queue
  BY <1>8 DEF ChunkOf, Readers
<1>11. CASE End("failed") /\ UNCHANGED items
  BY <1>1, <1>11, StopsEarly DEF SoundTurn, Outcomes
<1>12. CASE /\ doing.method = "discover" \/ events = <<>>
            /\ ReadOn([fed EXCEPT !.queue = @ \o events])
            /\ UNCHANGED items
  <2>1. PICK q \in Seq(Lines) : q = reader.queue \o events
    BY <1>6, <1>7, ConcatProperties
  <2>2. PICK to \in Readers : /\ to = [fed EXCEPT !.queue = q]
                              /\ to.text = kept /\ to.rest = r.rest /\ to.queue = q /\ ~to.eof
    BY <1>9, <2>1
  <2>3. ReadOn(to)
    BY <1>10, <1>12, <2>1, <2>2
  <2>4. (items \o reader.queue) \o (events \o later) = (items \o q) \o later
    <3>1. Regroups(items, reader.queue, events)
      BY <1>6, <1>7, ConcatRegroups
    <3>2. PICK front \in Seq(Lines) : front = items \o reader.queue
      BY <1>6, ConcatProperties
    <3>3. Regroups(front, events, later)
      BY <1>7, <3>2, ConcatRegroups
    <3> QED
      BY <2>1, <3>1, <3>2, <3>3 DEF Regroups
  <2>5. <<>> \o <<>> = <<>>
    OBVIOUS
  <2>6. doing.method # "discover" => q = <<>>
    BY <1>1, <1>6, <1>12, <2>1, <2>5
  <2>7. EventsOnTheWay(to, items)
    BY <1>5, <1>6, <1>7, <2>2, <2>4, <2>6 DEF EventsOnTheWay
  <2>8. OnTheWay(to, items) /\ ReadsNext(to)
    BY <1>1, <2>2, <2>6, <2>7 DEF OnTheWay, ReadsNext
  <2> QED
    BY <1>12, <2>2, <2>3, <2>8 DEF SoundTurn, GoesOn
<1>13. CASE doing.method = "call" /\ events # <<>> /\ Leave("result") /\ items' = <<Head(events)>>
  <2>1. EventsOf(response) = events \o later
    <3>1. PICK all \in Seq(Lines) : all = events \o later
      BY <1>7, ConcatProperties
    <3>2. (<<>> \o <<>>) \o all = all
      BY <3>1
    <3> QED
      BY <1>6, <1>7, <1>13, <3>1, <3>2
  <2>2. /\ IsPrefix(<<Head(events)>>, EventsOf(response)) /\ EventsOf(response) # <<>>
        /\ Len(<<Head(events)>>) = 1
    BY <1>7, <1>13, <2>1, FirstIsPrefix
  <2>3. Matches(items', "result")
    BY <1>1, <1>13, <2>2 DEF Matches
  <2> QED
    BY <1>1, <1>13, <2>3 DEF SoundTurn, Stops, Outcomes
<1>14. CASE doing.method = "stream" /\ events # <<>> /\ Yield(Head(events), [fed EXCEPT !.queue = Tail(events)])
  <2>1. CASE End("failed") /\ UNCHANGED items
    BY <1>11, <2>1
  <2>2. CASE /\ place' = "paused" /\ until' = 0
             /\ reader' = [fed EXCEPT !.queue = Tail(events)]
             /\ items' = Append(items, Head(events))
             /\ UNCHANGED <<outcome, open, deferred>>
    <3>1. /\ MovesFirst(items, events)
          /\ Append(items, Head(events)) \in Seq(Lines) /\ Tail(events) \in Seq(Lines)
      BY <1>6, <1>7, <1>14, FirstMoves
    <3>2. PICK to \in Readers : /\ to = reader' /\ to.text = kept /\ to.rest = r.rest
                                /\ to.queue = Tail(events) /\ ~to.eof
      BY <1>9, <2>2, <3>1
    <3>3. EventsOf(response) = (items \o events) \o later
      <4>1. items \o <<>> = items
        BY <1>6
      <4>2. Regroups(items, events, later)
        BY <1>6, <1>7, ConcatRegroups
      <4> QED
        BY <1>6, <1>7, <1>14, <4>1, <4>2 DEF Regroups
    <3>4. EventsOnTheWay(to, items')
      BY <1>5, <1>7, <1>14, <2>2, <3>1, <3>2, <3>3 DEF EventsOnTheWay, MovesFirst
    <3> QED
      BY <1>1, <1>14, <2>2, <3>2, <3>4 DEF SoundTurn, Gives, OnTheWay
  <2> QED
    BY <1>14, <2>1, <2>2 DEF Yield
<1> QED
  BY <1>2, <1>3, <1>4, <1>8, <1>11, <1>12, <1>13, <1>14 DEF Feed, Buffered

LEMMA DecodeIsSound ==
  ASSUME Sound, place = "read", UNCHANGED <<now, async, steps, doing, response>>,
         reader.rest = <<>>, Decode
  PROVE  SoundTurn
<1>1. /\ reader \in Readers /\ OnTheWay(reader, items) /\ place # "between"
      /\ doing.kind # "sse" /\ doing.kind # "cli" /\ response \in Seq(Symbols)
  BY RunningParts DEF Decode
<1>2. CASE End("failed") /\ UNCHANGED items
  BY <1>1, <1>2, StopsEarly DEF SoundTurn, Outcomes
<1>3. CASE ~IsBlank(reader.text) /\ End("result") /\ items' = <<reader.text>>
  <2>5. IsBlank(<<>>)
    BY DEF IsBlank
  <2>1. TextOnTheWay(reader, items)
    BY <1>1, <1>3, <2>5 DEF OnTheWay, ChunksOnTheWay
  <2>2. PICK text \in Seq(Symbols) : text = reader.text /\ text \o <<>> = text
    BY <1>1, ReaderParts
  <2>3. response = text
    BY <2>1, <2>2 DEF TextOnTheWay
  <2>4. Matches(items', "result")
    BY <1>1, <1>3, <2>2, <2>3, ResponseMatches
  <2> QED
    BY <1>3, <2>4 DEF SoundTurn, Stops, Outcomes
<1>4. CASE reader.text = <<>> /\ End("result") /\ UNCHANGED items
  <2>1. Joined(items) = response
    <3>1. CASE doing.method = "stream"
      <4>1. items \in Seq(Seq(Symbols)) /\ response = Joined(items) \o <<>>
        BY <1>1, <3>1 DEF OnTheWay, ChunksOnTheWay
      <4>2. PICK text \in Seq(Symbols) : text = Joined(items)
        <5>1. <<>> \in Seq(Symbols)
          OBVIOUS
        <5> QED
          BY <4>1, <5>1, JoinedAppend
      <4>3. text \o <<>> = text
        BY <4>2
      <4> QED
        BY <4>1, <4>2, <4>3
    <3>2. CASE doing.method # "stream"
      <4>1. items = <<>> /\ response = <<>> \o <<>>
        BY <1>1, <1>4, <3>2 DEF OnTheWay, TextOnTheWay
      <4>2. <<>> \o <<>> = <<>> /\ <<>> \in Seq(Seq(Symbols)) /\ <<>> \in Seq(Symbols)
        OBVIOUS
      <4>3. Joined(<<>>) = <<>>
        BY <4>2, JoinedAppend
      <4> QED
        BY <4>1, <4>2, <4>3
    <3> QED
      BY <3>1, <3>2
  <2>2. Matches(items', "result")
    BY <1>1, <1>4, <2>1, WholeMatches
  <2> QED
    BY <1>4, <2>2 DEF SoundTurn, Stops, Outcomes
<1> QED
  BY <1>2, <1>3, <1>4 DEF Decode, Give

LEMMA FinishIsSound ==
  ASSUME Sound, place = "read", UNCHANGED <<now, async, steps, doing, response>>,
         reader.rest = <<>>, Finish
  PROVE  SoundTurn
<1>1. /\ reader \in Readers /\ place # "between" /\ doing.kind = "sse" /\ response \in Seq(Symbols)
      /\ OnTheWay(reader, items) /\ ReadsNext(reader)
      /\ doing.method \in {"call", "discover", "stream"}
  BY RunningParts DEF Finish
<1>2. PICK text \in Seq(Symbols) : text = reader.text /\ text \o <<>> = text
  BY <1>1, ReaderParts
<1>3. PICK tail : tail = Flush(text)
  OBVIOUS
<1>4. PICK queue \in Seq(Lines) : queue = reader.queue
  BY <1>1, ReaderParts
<1>5. /\ items \in Seq(Lines) /\ NoBlank(text)
      /\ EventsOf(response) = (items \o queue) \o EventsOf(text)
      /\ doing.method # "stream" => items = <<>>
      /\ doing.method # "discover" => queue = <<>>
  BY <1>1, <1>2, <1>4 DEF OnTheWay, EventsOnTheWay, ReadsNext
<1>6. tail \in Seq(Lines) /\ Len(tail) <= 1 /\ EventsOf(text) = tail
  BY <1>2, <1>3, <1>5, FlushTakes
<1>7. PICK all \in Seq(Lines) : all = queue \o tail
  BY <1>4, <1>6, ConcatProperties
<1>8. EventsOf(response) = items \o all
  <2>1. Regroups(items, queue, tail)
    BY <1>4, <1>5, <1>6, ConcatRegroups
  <2> QED
    BY <1>5, <1>6, <1>7, <2>1 DEF Regroups
<1>9. doing.method # "stream" => EventsOf(response) = all
  <2>1. <<>> \o all = all
    BY <1>7
  <2> QED
    BY <1>5, <1>8, <2>1
<1>10. doing.method # "discover" => all = tail
  BY <1>5, <1>6, <1>7
<1>11. CASE End("failed") /\ UNCHANGED items
  BY <1>1, <1>11, StopsEarly DEF SoundTurn, Outcomes
<1>12. CASE doing.method = "discover" /\ all # <<>> /\ End("result") /\ items' = <<Head(all)>>
  <2>1. all \o <<>> = all /\ <<>> \in Seq(Lines)
    BY <1>7
  <2>2. IsPrefix(<<Head(all)>>, all) /\ Len(<<Head(all)>>) = 1
    BY <1>7, <1>12, <2>1, FirstIsPrefix
  <2>3. Matches(items', "result")
    BY <1>1, <1>9, <1>12, <2>2 DEF Matches
  <2> QED
    BY <1>12, <2>3 DEF SoundTurn, Stops, Outcomes
<1>13. CASE doing.method = "call" /\ tail # <<>> /\ Leave("result") /\ items' = tail
  <2>1. Len(tail) = 1
    <3>1. Len(tail) \in Nat \ {0}
      BY <1>6, <1>13, EmptySeq
    <3>2. PICK n \in Nat \ {0} : n = Len(tail)
      BY <3>1
    <3>3. n <= 1
      BY <1>6, <3>2
    <3> QED
      BY <3>2, <3>3
  <2>2. IsPrefix(tail, tail)
    BY <1>6, PrefixOfItself
  <2>3. Matches(items', "result")
    BY <1>1, <1>9, <1>10, <1>13, <2>1, <2>2 DEF Matches
  <2> QED
    BY <1>1, <1>13, <2>3 DEF SoundTurn, Stops, Outcomes
<1>14. CASE /\ doing.method = "stream" /\ tail # <<>>
            /\ place' = "paused" /\ until' = 0 /\ reader' = [Idle EXCEPT !.eof = TRUE]
            /\ items' = Append(items, Head(tail))
            /\ UNCHANGED <<outcome, open, deferred>>
  <2>1. MovesFirst(items, tail) /\ Append(items, Head(tail)) \in Seq(Lines)
    BY <1>5, <1>6, <1>14, FirstMoves
  <2>2. Tail(tail) = <<>>
    <3>1. Len(tail) \in Nat \ {0}
      BY <1>6, <1>14, EmptySeq
    <3>2. Len(Tail(tail)) = Len(tail) - 1 /\ Tail(tail) \in Seq(Lines)
      BY <1>6, <1>14, HeadTailProperties
    <3>3. Len(Tail(tail)) = 0
      BY <1>6, <3>1, <3>2
    <3> QED
      BY <3>2, <3>3, EmptySeq
  <2>3. /\ reader' \in Readers
        /\ reader'.rest = <<>> /\ reader'.text = <<>> /\ reader'.queue = <<>> /\ reader'.eof
    BY <1>14, IdleType DEF Idle, Readers
  <2>4. EventsOf(response) = items' \o <<>>
    BY <1>8, <1>10, <1>14, <2>1, <2>2 DEF MovesFirst
  <2>5. PICK its \in Seq(Lines) : its = items'
    BY <1>14, <2>1
  <2>6. its \o <<>> = its /\ <<>> \o <<>> = <<>>
    BY <2>5
  <2>7. EventsOnTheWay(reader', items')
    BY <1>14, <2>3, <2>4, <2>5, <2>6, NoEvents DEF EventsOnTheWay
  <2> QED
    BY <1>1, <1>14, <2>3, <2>7 DEF SoundTurn, Gives, OnTheWay
<1>15. CASE doing.method # "discover" /\ tail = <<>> /\ End("result") /\ UNCHANGED items
  <2>1. EventsOf(response) = items
    <3>1. items \o <<>> = items
      BY <1>5
    <3> QED
      BY <1>8, <1>10, <1>15, <3>1
  <2>2. IsPrefix(items, items)
    BY <1>5, PrefixOfItself
  <2>3. Len(<<>>) = 0
    OBVIOUS
  <2>4. Matches(items', "result")
    BY <1>1, <1>5, <1>15, <2>1, <2>2, <2>3 DEF Matches
  <2> QED
    BY <1>15, <2>4 DEF SoundTurn, Stops, Outcomes
<1> QED
  BY <1>2, <1>3, <1>4, <1>7, <1>11, <1>12, <1>13, <1>14, <1>15 DEF Finish, Give, Yield

LEMMA SoundStep == Sound /\ Clock /\ [Next]_vars => Sound'
<1> SUFFICES ASSUME Sound, Clock, [Next]_vars PROVE Sound'
  OBVIOUS
<1>1. ASSUME place # "between", SoundTurn PROVE Sound'
  BY <1>1, SoundTurnKeepsSound
<1>2. ASSUME NEW op \in Operations, NEW r \in Responses, Begin(op, r) PROVE Sound'
  BY <1>2, BeginIsSound
<1>3. CASE Responded \/ Fails \/ Resume \/ Abandon \/ Cancel
  <2>1. place # "between"
    BY <1>3, StepsAreTurns
  <2> QED
    BY <1>1, <1>3, <2>1, RespondedIsSound, BreakIsSound, ResumeIsSound
<1>4. CASE Read
  <2>1. place = "read" /\ reader \in Readers /\ UNCHANGED <<now, async, steps, doing, response>>
    BY <1>4, RunningParts DEF Read
  <2>2. \E n \in 1..Len(reader.rest) : \E chunk, r :
          /\ chunk = SubSeq(reader.rest, 1, n)
          /\ r = [reader EXCEPT !.rest = SubSeq(@, n + 1, Len(@))]
          /\ Drain(chunk, r) \/ YieldChunk(chunk, r) \/ Feed(chunk, r)
    BY <1>4 DEF Read
  <2>3. PICK chunk, r : /\ ChunkOf(chunk, r)
                        /\ Drain(chunk, r) \/ YieldChunk(chunk, r) \/ Feed(chunk, r)
    BY <2>1, <2>2, ChunksAre
  <2>4. SoundTurn
    BY <2>1, <2>3, DrainIsSound, YieldChunkIsSound, FeedIsSound
  <2> QED
    BY <1>1, <2>1, <2>4
<1>5. CASE ReadEnd
  <2>1. /\ place = "read" /\ reader.rest = <<>> /\ UNCHANGED <<now, async, steps, doing, response>>
        /\ Decode \/ Finish
    BY <1>5 DEF ReadEnd
  <2>2. SoundTurn
    BY <2>1, DecodeIsSound, FinishIsSound
  <2> QED
    BY <1>1, <2>1, <2>2
<1>6. CASE Finalize
  <2>1. PICK c \in deferred : open' = open \ {c} /\ deferred' = deferred \ {c}
    BY <1>6 DEF Finalize
  <2>2. UNCHANGED <<now, async, steps, doing, place, until, response, reader, items, outcome>>
    BY <1>6 DEF Finalize
  <2>3. TypeOK'
    BY <2>1, <2>2 DEF Sound, TypeOK
  <2>4. place # "between" => Underway'
    BY <2>1, <2>2 DEF Sound, Underway, OnTheWay, EventsOnTheWay, ChunksOnTheWay, TextOnTheWay, ReadsNext
  <2>5. place = "between" => Matches(items, outcome)'
    BY <2>2 DEF Sound, Matches
  <2> QED
    BY <2>2, <2>3, <2>4, <2>5 DEF Sound
<1>7. CASE Tick \/ UNCHANGED vars
  <2>1. UNCHANGED <<async, steps, doing, place, until, response, reader, items, outcome,
                    open, deferred>>
    BY <1>7 DEF Tick, vars
  <2>2. now' \in 0..MaxTime
    <3>1. now \in 0..MaxTime /\ MaxTime \in Nat
      BY BudgetAssumption DEF Sound, TypeOK
    <3>2. now' = now \/ (now < MaxTime /\ now' = now + 1)
      BY <1>7 DEF Tick, vars
    <3> QED
      BY <3>1, <3>2
  <2>3. TypeOK'
    BY <2>1, <2>2 DEF Sound, TypeOK
  <2>4. place # "between" => Underway'
    BY <2>1 DEF Sound, Underway, OnTheWay, EventsOnTheWay, ChunksOnTheWay, TextOnTheWay, ReadsNext
  <2>5. place = "between" => Matches(items, outcome)'
    BY <2>1 DEF Sound, Matches
  <2> QED
    BY <2>1, <2>3, <2>4, <2>5 DEF Sound
<1> QED
  BY <1>2, <1>3, <1>4, <1>5, <1>6, <1>7 DEF Next

-----------------------------------------------------------------------------
(* Nothing is given late *)

\* What GivenInTime says of a step.
InTime ==
  now > Total /\ steps' = steps /\ items' # items =>
    \/ doing.kind = "cli"
    \/ doing.kind = "sse" /\ place = "paused" /\ reader.queue # <<>>

\* Only a read, the end of a command and a stream with events in its queue give
\* anything.
LEMMA GivesOnly ==
  ASSUME Sound, Next, steps' = steps, items' # items
  PROVE  \/ place = "read"
         \/ place = "request" /\ doing.kind = "cli"
         \/ place = "paused" /\ reader.queue # <<>>
<1>1. CASE Responded
  BY <1>1 DEF Responded
<1>2. CASE Read \/ ReadEnd
  BY <1>2 DEF Read, ReadEnd
<1>3. CASE Resume
  BY <1>3 DEF Resume
<1>4. ASSUME NEW op, NEW r, Begin(op, r) PROVE FALSE
  <2>1. steps \in 0..MaxSteps /\ MaxSteps \in Nat
    BY BudgetAssumption DEF Sound, TypeOK
  <2> QED
    BY <1>4, <2>1 DEF Begin
<1>5. CASE Fails \/ Abandon \/ Cancel \/ Finalize \/ Tick
  BY <1>5 DEF Fails, Abandon, Cancel, Finalize, Tick
<1> QED
  BY <1>1, <1>2, <1>3, <1>4, <1>5 DEF Next

LEMMA InTimeStep == Sound /\ Clock /\ [Next]_vars => [InTime]_vars
<1> SUFFICES ASSUME Sound, Clock, Next, now > Total, steps' = steps, items' # items
             PROVE  \/ doing.kind = "cli"
                    \/ doing.kind = "sse" /\ place = "paused" /\ reader.queue # <<>>
  BY DEF InTime
<1>1. place # "read"
  BY BudgetAssumption DEF Clock, ReadsInTime
<1>2. CASE place = "request" /\ doing.kind = "cli"
  BY <1>2
<1>3. CASE place = "paused" /\ reader.queue # <<>>
  BY <1>3, RunningParts DEF OnTheWay, ChunksOnTheWay
<1> QED
  BY <1>1, <1>2, <1>3, GivesOnly

\* Nothing that comes after the end of the budget is given to a caller, but the
\* result of a command: whatever gets an operation to a read, the deadline is
\* looked at before it, and the read ends by the end of the budget.
THEOREM NothingGivenLate == Spec => GivenInTime
<1>1. Init => Clock
  BY DEF Init, Clock, ReadsInTime
<1>2. Sound /\ Clock /\ [Next]_vars =>
        [now > Total /\ steps' = steps /\ items' # items =>
           \/ doing.kind = "cli"
           \/ doing.kind = "sse" /\ place = "paused" /\ reader.queue # <<>>]_vars
  BY InTimeStep DEF InTime
<1> QED
  BY <1>1, <1>2, SoundInit, SoundStep, ClockStep, PTL DEF Spec, GivenInTime

-----------------------------------------------------------------------------
(* What is given *)

LEMMA SoundAlways == Spec => []Sound
<1>1. Init => Clock
  BY DEF Init, Clock, ReadsInTime
<1> QED
  BY <1>1, SoundInit, SoundStep, ClockStep, PTL DEF Spec

\* The variables keep their types; in it, that the parser keeps no complete frame, and
\* that a generator which the event loop has yet to close is one whose connection is open.
THEOREM BudgetTypes == Spec => []TypeOK
<1>1. Sound => TypeOK
  BY DEF Sound
<1> QED
  BY <1>1, SoundAlways, PTL

\* For every response and every way to cut it, nothing that is given is wrong, lost or
\* given twice: a stream of events gives a prefix of the events of the response and
\* returns with all of them, a call gives the first one, and what the other transports
\* give is the response from its first byte to its last.  An operation may raise
\* instead, and does so where a chunk ends inside a character (sse.py:57).
THEOREM ResponsesDelivered == Spec => []ItemsMatchResponse
<1>1. Sound => ItemsMatchResponse
  <2> SUFFICES ASSUME Sound PROVE ItemsMatchResponse
    OBVIOUS
  <2>1. CASE place = "between"
    BY <2>1 DEF Sound, Matches, ItemsMatchResponse
  <2>2. CASE place # "between"
    <3>1. reader \in Readers /\ OnTheWay(reader, items) /\ response \in Seq(Symbols)
      BY <2>2, RunningParts
    <3>2. outcome # "result"
      BY <2>2 DEF Sound, Underway
    <3>3. Matches(items, outcome)
      BY <3>1, <3>2, GivenMatches
    <3> QED
      BY <3>3 DEF Matches, ItemsMatchResponse
  <2> QED
    BY <2>1, <2>2
<1> QED
  BY <1>1, SoundAlways, PTL
=============================================================================
