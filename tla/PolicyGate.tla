------------------------------ MODULE PolicyGate ------------------------------
(***************************************************************************)
(* The decision on one client frame: evaluate_request (crates/policy) and  *)
(* decide_c2s_frame (crates/cli/src/security.rs), as operators of a policy *)
(* and a frame.                                                            *)
(*                                                                         *)
(* A policy is [mode, allow, deny, scan]: allow is a set of tool names,    *)
(* deny a sequence of rules, each the set of names it matches.  Of a frame *)
(* the decision looks at its method, the tool it names, how many secrets   *)
(* its arguments hold, and its id.                                         *)
(***************************************************************************)
EXTENDS Naturals, Sequences

Unnamed == "unnamed"  \* params.name is missing or no string
NoId == 0             \* the id is missing or null

\* deny_reason: the deny list first, for a named tool; then a list of what is allowed.
DenyReason(p, f) ==
  IF f.tool # Unnamed /\ (\E i \in DOMAIN p.deny : f.tool \in p.deny[i]) THEN <<"deny_list">>
  ELSE IF p.allow # {} /\ f.tool \notin p.allow THEN <<"not_allowed">> ELSE <<>>

\* scan_request_arguments: an event for each secret in the arguments.
SecretHits(p, f) ==
  [k \in 1 .. (IF p.scan THEN f.secrets ELSE 0) |-> "secret_leak"]

\* The events evaluate_request raises, in order: a tools/call is all it looks at.
Raised(p, f) == IF f.method = "call" THEN DenyReason(p, f) \o SecretHits(p, f) ELSE <<>>

\* Mutated form: only the deny and allow lists refuse a call.
Blocked_ListsOnly(p, f) == p.mode = "enforce" /\ f.method = "call" /\ DenyReason(p, f) # <<>>

Blocked(p, f) == p.mode = "enforce" /\ Raised(p, f) # <<>>

\* FrameAction: a refusal can be answered only if there is an id to answer.
FrameAction(p, f) ==
  CASE ~Blocked(p, f) -> "forward"
    [] Blocked(p, f) /\ f.id # NoId -> "respond"
    [] Blocked(p, f) /\ f.id = NoId -> "silent"

\* What docs/security-model.md forbids under enforce: a denied tool, one outside an
\* allow list, arguments with a secret.
Forbidden(p, f) ==
  /\ p.mode = "enforce" /\ f.method = "call"
  /\ \/ \E i \in DOMAIN p.deny : f.tool \in p.deny[i]
     \/ p.allow # {} /\ f.tool \notin p.allow
     \/ p.scan /\ f.secrets > 0
=============================================================================
