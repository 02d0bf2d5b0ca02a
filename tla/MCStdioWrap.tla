----------------------------- MODULE MCStdioWrap -----------------------------
(* Small streams for StdioWrap: what a client and a server may send.       *)
EXTENDS StdioWrap

Chunk(t, hits, id) == [t |-> t, hits |-> hits, id |-> id]

Plain     == Chunk("frame", 0, TRUE)    \* raises nothing
Call      == Chunk("frame", 1, TRUE)    \* a tools/call that raises one event
Flagged   == Chunk("frame", 1, FALSE)   \* no id, raises one event
Segment   == Chunk("raw", 0, FALSE)
SegmentNl == Chunk("end", 0, FALSE)

MonitorClient == {Plain, Flagged, Segment}
MonitorServer == {Plain, Segment}
RefusedClient == {Call}
OversizedServer == {Segment, SegmentNl}
AllFaults     == {"delay", "truncate", "drop", "error"}
=============================================================================
