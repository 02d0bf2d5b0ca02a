---------------------------- MODULE FramedStream ----------------------------
(***************************************************************************)
(* The two newline splitters: FramedStream, which drives what the stdio    *)
(* pumps forward (crates/cli/src/security.rs), and LineSplitter, which     *)
(* only feeds a tap (crates/proxy-core/src/lib.rs).  Both are fed the same *)
(* reads here, a read being any piece of the stream the pipe hands over,   *)
(* so that what they make of one stream can be compared.                   *)
(*                                                                         *)
(* The cap is compared with a frame's length only when a read ends inside  *)
(* the frame; a line whose newline came in the same read is never capped.  *)
(***************************************************************************)
EXTENDS ReadPieces

CONSTANTS
  Byte,     \* the bytes of a stream other than its newlines, NL
  Cap,      \* max_line_bytes (64 MiB)
  ReadMax,  \* READ_BUF_BYTES (64 KiB): the longest piece one read returns
  MaxFed    \* bound: length of the stream

ASSUME FramedStreamAssumption ==
  /\ NL \notin Byte
  /\ Cap \in Nat \ {0} /\ ReadMax \in Nat \ {0} /\ MaxFed \in Nat

VARIABLES
  fed,       \* the stream read so far
  framer,    \* FramedStream: its buf and overflowed, and the chunks it returned
  splitter,  \* LineSplitter: its buf and overflowed, and the frames it returned
  open       \* end of stream is yet to come

vars == <<fed, framer, splitter, open>>

Fresh == [buf |-> <<>>, over |-> FALSE, out |-> <<>>]

Init == fed = <<>> /\ framer = Fresh /\ splitter = Fresh /\ open = TRUE

Frame(b) == [t |-> "frame", b |-> b]
Raw(b)   == [t |-> "raw", b |-> b]

-----------------------------------------------------------------------------
(* FramedStream: every byte comes back, in a frame or in a raw segment.    *)

AtNewline_Stuck(st, head) ==  \* mutated form: overflowed is never reset
  [st EXCEPT !.buf = <<>>,
             !.out = Append(@, IF st.over THEN Raw(Append(head, NL))
                               ELSE Frame(st.buf \o head))]

AtNewline_NoNewline(st, head) ==  \* mutated form: the tail loses its newline
  [buf |-> <<>>, over |-> FALSE,
   out |-> Append(st.out, IF st.over THEN Raw(head) ELSE Frame(st.buf \o head))]

AtNewline(st, head) ==
  [buf |-> <<>>, over |-> FALSE,
   out |-> Append(st.out, IF st.over THEN Raw(Append(head, NL))
                          ELSE Frame(st.buf \o head))]

\* The part of a read after its last newline, given whether the frame
\* it belongs to is over the cap by now.
Remainder(st, rest, exceeds) ==
  IF rest = <<>> THEN st
  ELSE IF st.over THEN [st EXCEPT !.out = Append(@, Raw(rest))]
  ELSE IF exceeds
       THEN [buf |-> <<>>, over |-> TRUE,
             out |-> Append(st.out, Raw(st.buf \o rest))]
       ELSE [st EXCEPT !.buf = @ \o rest]

AtRest_AtCap(st, rest) ==  \* mutated form: off by one
  Remainder(st, rest, Len(st.buf) + Len(rest) >= Cap)

AtRest_NewBytesOnly(st, rest) ==  \* mutated form: forgets what is buffered
  Remainder(st, rest, Len(rest) > Cap)

AtRest_DropsBuffer(st, rest) ==  \* mutated form: flushes the new bytes only
  LET r == Remainder(st, rest, Len(st.buf) + Len(rest) > Cap)
  IN  IF r.over /\ ~st.over THEN [r EXCEPT !.out = Append(st.out, Raw(rest))]
      ELSE r

AtRest(st, rest) ==
  Remainder(st, rest, Len(st.buf) + Len(rest) > Cap)

\* The loop over the newlines of a read, as a function of the bytes it has passed.
Passed(st, data) ==
  LET at[n \in 0..Len(data)] ==
        IF n = 0 THEN st
        ELSE IF data[n] = NL THEN AtNewline(at[n - 1], HeadAt(data, n))
        ELSE at[n - 1]
  IN  at[Len(data)]

Push(st, data) == AtRest(Passed(st, data), Rest(data))

\* What is left at end of stream: nothing in the middle of an oversized frame.
Finish(st) ==
  IF st.over \/ st.buf = <<>> THEN st
  ELSE [st EXCEPT !.buf = <<>>, !.out = Append(@, [t |-> "rem", b |-> st.buf])]

-----------------------------------------------------------------------------
(* LineSplitter: an oversized frame is dropped.                            *)

SplitAtNewline(st, head) ==
  [buf |-> <<>>, over |-> FALSE,
   out |-> IF st.over THEN st.out ELSE Append(st.out, st.buf \o head)]

SplitAtRest(st, rest) ==
  IF st.over \/ rest = <<>> THEN st
  ELSE IF Len(st.buf) + Len(rest) > Cap
       THEN [st EXCEPT !.buf = <<>>, !.over = TRUE]
       ELSE [st EXCEPT !.buf = @ \o rest]

SplitPassed(st, data) ==
  LET at[n \in 0..Len(data)] ==
        IF n = 0 THEN st
        ELSE IF data[n] = NL THEN SplitAtNewline(at[n - 1], HeadAt(data, n))
        ELSE at[n - 1]
  IN  at[Len(data)]

Split(st, data) == SplitAtRest(SplitPassed(st, data), Rest(data))

-----------------------------------------------------------------------------
Read ==
  /\ open
  /\ \E n \in 1..ReadMax : \E data \in [1..n -> Byte \cup {NL}] :
       /\ Len(fed) + n <= MaxFed
       /\ fed' = fed \o data
       /\ framer' = Push(framer, data)
       /\ splitter' = Split(splitter, data)
  /\ UNCHANGED open

Eof ==
  /\ open
  /\ open' = FALSE
  /\ framer' = Finish(framer)
  /\ UNCHANGED <<fed, splitter>>

Next == Read \/ Eof

Spec == Init /\ [][Next]_vars

-----------------------------------------------------------------------------
(* Properties.                                                             *)

\* What a pump writes for a chunk: it gives a frame its newline back.
Wire(c) == IF c.t = "frame" THEN Append(c.b, NL) ELSE c.b

\* Nothing is lost, added or reordered, however the stream is cut into reads:
\* what the pump writes, and what is still held back, is what was read.
Lossless ==
  FlattenSeq([i \in DOMAIN framer.out |-> Wire(framer.out[i])]) \o framer.buf
    = fed

LineDone(c) == c.t = "frame" \/ Last(c.b) = NL

\* The contract the pumps' latches rest on (and StdioWrap's Follows assumes):
\* a frame is one whole line, a raw segment holds a newline only as its last
\* byte, the first segment of an oversized frame never does, only raw segments
\* follow until the newline, and no remainder follows an unfinished frame.
ChunksFollow ==
  \A i \in DOMAIN framer.out :
    LET c     == framer.out[i]
        fresh == i = 1 \/ LineDone(framer.out[i - 1])
    IN  /\ c.t \in {"frame", "rem"} => fresh /\ Newlines(c.b) = {}
        /\ c.t = "raw" =>
             /\ c.b # <<>>
             /\ Newlines(c.b) \subseteq (IF fresh THEN {} ELSE {Len(c.b)})
        /\ c.t = "rem" => i = Len(framer.out)

\* Fail-open is for oversized frames only: the raw segments of one line are
\* more than Cap bytes, so a line within the cap is always inspected, right
\* after an oversized one as well.
OnlyOversizedRaw ==
  \A i \in DOMAIN framer.out :
    LET c == framer.out[i]
    IN  c.t = "raw" /\ (i = 1 \/ LineDone(framer.out[i - 1])) => Len(c.b) > Cap

\* The tap-only splitter returns the frames FramedStream returns: a frame that
\* is forwarded undecided is one that is recorded nowhere, and no other.
Mirrors ==
  LET frames[n \in 0..Len(framer.out)] ==
        IF n = 0 THEN <<>>
        ELSE IF framer.out[n].t = "frame" THEN Append(frames[n - 1], framer.out[n].b)
        ELSE frames[n - 1]
  IN  splitter.out = frames[Len(framer.out)]

\* The wire and the record get the same stream: what was read, cut as the pumps'
\* latches expect it, with the whole frames and no others tapped.
StreamKept == Lossless /\ ChunksFollow /\ Mirrors

\* The memory guard: what is held back never exceeds the cap, and a frame
\* exceeds it by less than one read.
Bounded ==
  /\ Len(framer.buf) <= Cap
  /\ Len(splitter.buf) <= Cap
  /\ \A i \in DOMAIN framer.out :
       framer.out[i].t = "frame" => Len(framer.out[i].b) < Cap + ReadMax

\* The cap is exact: no line up to it passes uninspected, no more than it is held.
CapHolds == OnlyOversizedRaw /\ Bounded
=============================================================================
