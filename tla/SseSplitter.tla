----------------------------- MODULE SseSplitter -----------------------------
(***************************************************************************)
(* SseSplitter (crates/proxy-core/src/sse.rs): what the gateway taps of a  *)
(* text/event-stream body, from a copy of the chunks it relays.  A chunk   *)
(* is any piece of the stream.                                             *)
(*                                                                         *)
(* A symbol is a byte, except for "data", which is the four bytes of that  *)
(* name.                                                                   *)
(***************************************************************************)
EXTENDS ReadPieces

CONSTANTS
  Symbol,    \* what a stream is made of: "data", ":", "sp", "cr", NL and other bytes
  Caps,      \* max_event_bytes: positive numbers
  ChunkMax,  \* bound: length of a chunk
  MaxFed     \* bound: length of a stream

VARIABLES
  fed,   \* the stream so far
  sse    \* SseSplitter: its fields, and the payloads push has returned (out)

vars == <<fed, sse>>

New(cap) == [cap |-> cap, line |-> <<>>, data |-> <<>>, sawData |-> FALSE,
             overflow |-> FALSE, lineDirty |-> FALSE, out |-> <<>>]

Init == fed = <<>> /\ sse \in {New(cap) : cap \in Caps}

StripCr(l) == IF l # <<>> /\ Last(l) = "cr" THEN Front(l) ELSE l

\* A line splits at its first colon, and one space after that is dropped.
Colons(l) == {i \in DOMAIN l : l[i] = ":"}
Field(l) == IF Colons(l) = {} THEN l ELSE SubSeq(l, 1, Min(Colons(l)) - 1)
Value(l) ==
  IF Colons(l) = {} THEN <<>>
  ELSE LET v == SubSeq(l, Min(Colons(l)) + 1, Len(l))
       IN  IF v # <<>> /\ Head(v) = "sp" THEN Tail(v) ELSE v

\* A blank line: the event is dispatched, unless it is skipped or has no data.
Dispatch(st) ==
  [st EXCEPT !.data = <<>>, !.sawData = FALSE, !.overflow = FALSE,
             !.out = IF st.sawData /\ ~st.overflow THEN Append(@, st.data) ELSE @]

\* A data field joins what is there; an event that gets too long is skipped.
AppendData(st, value) ==
  LET data == st.data \o (IF st.sawData THEN <<NL>> ELSE <<>>) \o value
      over == Len(data) > st.cap
  IN  [st EXCEPT !.sawData = TRUE, !.overflow = over,
                 !.data = IF over THEN <<>> ELSE data]

HandleLine(st, l) ==
  IF l = <<>> THEN Dispatch(st)
  ELSE IF Field(l) = <<"data">> /\ ~st.overflow THEN AppendData(st, Value(l))
  ELSE st

\* buffer_line_bytes: the bytes of a line that is too long are forgotten.
BufferLine(st, bytes) ==
  IF st.lineDirty THEN st
  ELSE IF Len(st.line) + Len(bytes) > st.cap
       THEN [st EXCEPT !.line = <<>>, !.overflow = TRUE, !.lineDirty = TRUE]
       ELSE [st EXCEPT !.line = @ \o bytes]

\* Mutated form: a line whose bytes were forgotten looks blank.
EndLine_Forgets(st, head) ==
  LET s == BufferLine(st, head) IN
  HandleLine([s EXCEPT !.line = <<>>, !.lineDirty = FALSE], StripCr(s.line))

\* A newline: a line that was too long is passed over, any other is handled.
EndLine(st, head) ==
  LET s == BufferLine(st, head)
      next == [s EXCEPT !.line = <<>>, !.lineDirty = FALSE]
  IN  IF s.lineDirty THEN next ELSE HandleLine(next, StripCr(s.line))

\* The loop over the newlines of a chunk, as a function of the bytes it has passed.
Passed(st, chunk) ==
  LET at[n \in 0..Len(chunk)] ==
        IF n = 0 THEN st
        ELSE IF chunk[n] = NL THEN EndLine(at[n - 1], HeadAt(chunk, n))
        ELSE at[n - 1]
  IN  at[Len(chunk)]

Push(st, chunk) == BufferLine(Passed(st, chunk), Rest(chunk))

Chunk ==
  \E n \in 1 .. ChunkMax : \E chunk \in [1 .. n -> Symbol] :
    /\ Len(fed) + n <= MaxFed
    /\ fed' = fed \o chunk
    /\ sse' = Push(sse, chunk)

Spec == Init /\ [][Chunk]_vars

-----------------------------------------------------------------------------
(* The events of a whole stream s, by the rules of the format.  A line is  *)
(* named by the position of its newline.                                   *)

Line(s, i) == StripCr(HeadAt(s, i))
Blank(s) == {i \in Newlines(s) : Line(s, i) = <<>>}
\* The lines before i of the event that i is in, which begins after a blank line.
Lines(s, i) ==
  {j \in Newlines(s) : j < i /\ \A b \in Blank(s) : b < i => b < j}
DataLines(s, i) == {j \in Lines(s, i) : Field(Line(s, j)) = <<"data">>}

\* The values of some data lines, in order, with newlines between them.
Joined(s, lines) ==
  LET text[n \in 0..Len(s)] ==
        IF n = 0 THEN <<>>
        ELSE IF n \notin lines THEN text[n - 1]
        ELSE IF \E j \in lines : j < n
             THEN Append(text[n - 1], NL) \o Value(Line(s, n))
        ELSE Value(Line(s, n))
  IN  text[Len(s)]

\* The event that ends at i is tapped.
Tells(s, i, cap) ==
  /\ i \in Blank(s) /\ DataLines(s, i) # {}
  /\ Len(Joined(s, DataLines(s, i))) <= cap
  /\ \A j \in Lines(s, i) : Len(HeadAt(s, j)) <= cap

Payloads(s, cap) ==
  LET told[n \in 0..Len(s)] ==
        IF n = 0 THEN <<>>
        ELSE IF Tells(s, n, cap)
             THEN Append(told[n - 1], Joined(s, DataLines(s, n)))
        ELSE told[n - 1]
  IN  told[Len(s)]

\* Whatever the chunks, the payloads tapped are those of the stream's events in order,
\* an event being skipped only if it or one of its lines is longer than the cap, or if it
\* has no data: an oversized event never takes its neighbours with it.
EventsAsSent == sse.out = Payloads(fed, sse.cap)
=============================================================================
