--------------------------- MODULE MCFramedStream ---------------------------
(* TLC instances of FramedStream and SseSplitter.  The two kinds of stream *)
(* have nothing to do with each other: a behaviour reads one of them.      *)
EXTENDS FramedStream

CONSTANTS Symbol, Caps, ChunkMax, MaxEvents  \* the constants of SseSplitter

VARIABLES events, sse

Sse == INSTANCE SseSplitter WITH fed <- events, MaxFed <- MaxEvents

ASSUME SseAssumption == Caps \subseteq Nat \ {0} /\ ChunkMax \in Nat

\* The bytes other than newlines are interchangeable only to a splitter that
\* is right, so two distinct ones are enough to see a swap or a repeat.
MCByte == {"x", "y"}
MCSymbol == {"data", ":", "sp", "cr", "x", NL}

AnyInit == Init /\ Sse!Init

AnyNext ==
  \/ events = <<>> /\ Next /\ UNCHANGED <<events, sse>>
  \/ fed = <<>> /\ open /\ Sse!Chunk /\ UNCHANGED vars

AnySpec == AnyInit /\ [][AnyNext]_<<vars, events, sse>>

EventsAsSent == Sse!EventsAsSent
=============================================================================
