-------------------------- MODULE MCWrapRefinement --------------------------
(* Small streams for WrapRefinement: no injected fault, and no oversized    *)
(* frame of the server's.                                                   *)
EXTENDS WrapRefinement

Chunk(t, hits, id) == [t |-> t, hits |-> hits, id |-> id]
Call == Chunk("frame", 1, TRUE)
Segments == {Chunk("raw", 0, FALSE), Chunk("end", 0, FALSE)}
\* A frame that passes, a call that is refused and one that cannot be answered.
Frames == {Chunk("frame", 0, TRUE), Call, Chunk("frame", 2, FALSE)}
ClientLines == Frames \cup Segments
ServerLines == {Chunk("frame", 0, TRUE)}

\* Bound: two frames of the client's, of different kinds, beside one of the server's,
\* or what the client writes alone: calls and segments, and two oversized frames of
\* two segments each.
MCStreams ==
  LET lines == SelectSeq(sent, LAMBDA c : c # Rem)
      only(S) == \A i \in DOMAIN lines : lines[i] \in S
  IN \/ /\ Len(lines) <= 2 /\ only(Frames)
        /\ Len(lines) = 2 => lines[1] # lines[2]
     \/ /\ \A i \in DOMAIN emitted : emitted[i] = Rem
        /\ only(Segments) \/ (Len(lines) <= 3 /\ only(Segments \cup {Call}))
=============================================================================
