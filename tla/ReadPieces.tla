----------------------------- MODULE ReadPieces -----------------------------
(* A read as the loops of the splitters see it: the bytes before each of   *)
(* its newlines, and what follows the last one.                            *)
EXTENDS Naturals, Sequences, SequencesExt

CONSTANT NL  \* the newline byte

Newlines(data) == {i \in DOMAIN data : data[i] = NL}
\* The last newline among the first n bytes, 0 if there is none; the bytes that the
\* newline at i ends; and those that no newline has ended yet.
Cut(data, n) == Max({0} \cup {i \in Newlines(data) : i <= n})
HeadAt(data, i) == SubSeq(data, 1 + Cut(data, i - 1), i - 1)
Rest(data) == SubSeq(data, 1 + Cut(data, Len(data)), Len(data))
=============================================================================
