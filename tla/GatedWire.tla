------------------------------ MODULE GatedWire ------------------------------
(***************************************************************************)
(* What `mcpglass wrap` promises to the two parties it sits between, with  *)
(* no pump, lock, write, channel or thread in sight: two streams of lines, *)
(* relayed in order, of which some client lines are refused. A refusal is  *)
(* a line of its own in what the client sees. Either direction may end.    *)
(***************************************************************************)
EXTENDS Naturals, Sequences

CONSTANTS
  Refused(_),    \* the gate withholds this client line from the server
  Answerable(_), \* a refusal of it can be addressed (it has an id)
  Lines          \* the lines either party may write

VARIABLES
  sent,          \* the client's lines
  emitted,       \* the server's lines
  judged,        \* how many client lines have been dealt with
  relayed,       \* how many server lines have been dealt with
  got,           \* indices of the client lines the server got
  shown,         \* what the client got: server lines and refusals, by index
  open           \* the directions still running

vars == <<sent, emitted, judged, relayed, got, shown, open>>

Init ==
  /\ sent = <<>> /\ emitted = <<>>
  /\ judged = 0 /\ relayed = 0
  /\ got = <<>> /\ shown = <<>>
  /\ open = {"c2s", "s2c"}

ClientWrites ==
  /\ \E l \in Lines : sent' = Append(sent, l)
  /\ UNCHANGED <<emitted, judged, relayed, got, shown, open>>

ServerWrites ==
  /\ \E l \in Lines : emitted' = Append(emitted, l)
  /\ UNCHANGED <<sent, judged, relayed, got, shown, open>>

Judge ==
  /\ "c2s" \in open
  /\ judged < Len(sent)
  /\ judged' = judged + 1
  /\ UNCHANGED <<sent, emitted, relayed, open>>

Forward ==
  /\ Judge
  /\ ~Refused(sent[judged + 1])
  /\ got' = Append(got, judged + 1)
  /\ UNCHANGED shown

\* The client may be gone, and an unanswerable line is refused in silence.
Refuse ==
  /\ Judge
  /\ Refused(sent[judged + 1])
  /\ UNCHANGED got
  /\ \/ UNCHANGED shown
     \/ /\ Answerable(sent[judged + 1])
        /\ shown' = Append(shown, <<"refusal", judged + 1>>)

Relay ==
  /\ "s2c" \in open
  /\ relayed < Len(emitted)
  /\ relayed' = relayed + 1
  /\ shown' = Append(shown, <<"line", relayed + 1>>)
  /\ UNCHANGED <<sent, emitted, judged, got, open>>

\* A direction ends for good; the line it was dealing with may be lost, or be
\* the last one to cross.
EndC2s ==
  /\ "c2s" \in open
  /\ open' = open \ {"c2s"}
  /\ \/ UNCHANGED <<judged, got>>
     \/ /\ judged < Len(sent)
        /\ judged' = judged + 1
        /\ UNCHANGED got
     \/ /\ judged < Len(sent)
        /\ ~Refused(sent[judged + 1])
        /\ judged' = judged + 1
        /\ got' = Append(got, judged + 1)
  /\ UNCHANGED <<sent, emitted, relayed, shown>>

EndS2c ==
  /\ "s2c" \in open
  /\ open' = open \ {"s2c"}
  /\ \/ UNCHANGED <<relayed, shown>>
     \/ relayed < Len(emitted) /\ relayed' = relayed + 1 /\ UNCHANGED shown
     \/ /\ relayed < Len(emitted)
        /\ relayed' = relayed + 1
        /\ shown' = Append(shown, <<"line", relayed + 1>>)
  /\ UNCHANGED <<sent, emitted, judged, got>>

Next ==
  \/ ClientWrites \/ ServerWrites
  \/ Forward \/ Refuse \/ Relay
  \/ EndC2s \/ EndS2c

Spec == Init /\ [][Next]_vars
=============================================================================
