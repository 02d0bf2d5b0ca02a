--------------------------- MODULE WrapRefinement ---------------------------
(***************************************************************************)
(* StdioWrap implements GatedWire: the pumps, their locked two-step writes *)
(* and the teardown are steps or stutters of the abstract wire. It is      *)
(* stated for server lines that fit under the frame cap and without fault  *)
(* injection, which breaks the promise on purpose.  A segment of a client  *)
(* line that does not fit is a line that enforce refuses unanswered.       *)
(***************************************************************************)
EXTENDS StdioWrap

\* The pump has taken its current chunk and not yet finished its wire action.
Busy(p) == pc[p] \in {"sleep", "forward", "lock", "resp", "write", "nl"}
Dealt(p) == IF Busy(p) THEN rd[p] - 1 ELSE rd[p]

\* The lines of our stdout as its reader sees them: each ends with a newline, a
\* response or the server's last bytes, and a newline that does not directly
\* follow the body it belongs to closes a garbled line.
LineEnds == {k \in DOMAIN stdout : stdout[k].p \in {"nl", "resp", "rem"}}
EndsUpTo(k) == Cardinality({j \in LineEnds : j <= k})
LineEnd(n) == CHOOSE k \in LineEnds : EndsUpTo(k) = n
LineAt(k) ==
  CASE stdout[k].p = "resp" -> <<"refusal", stdout[k].i>>
    [] stdout[k].p = "rem"  -> <<"line", stdout[k].i>>
    [] OTHER -> IF k > 1 /\ stdout[k - 1] = [p |-> "body", i |-> stdout[k].i]
                  THEN <<"line", stdout[k].i>>
                  ELSE <<"garbled", k>>

RefusedLine(c) == Blocked(c) \/ (FailClosed /\ c.t \in {"raw", "end"})
AnswerableLine(c) == c.id

Wire == INSTANCE GatedWire WITH
  Refused    <- RefusedLine,
  Answerable <- AnswerableLine,
  Lines      <- ClientChunks \cup ServerChunks \cup {Rem},
  judged     <- Dealt("c2s"),
  relayed    <- Dealt("s2c"),
  got        <- [k \in DOMAIN toServer |-> toServer[k].i],
  shown      <- [n \in 1 .. Cardinality(LineEnds) |-> LineAt(LineEnd(n))],
  open       <- {p \in Pumps : pc[p] # "done"}

\* The two-way promise of GatedWire holds of every behaviour of the pumps.
ImplementsGatedWire == Wire!Spec
=============================================================================
