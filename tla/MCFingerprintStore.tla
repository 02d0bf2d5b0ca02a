-------------------------- MODULE MCFingerprintStore --------------------------
(* Small servers, tables and responses for FingerprintStore.               *)
EXTENDS FingerprintStore

\* A definition has the fields that v1, v2 and v3 cover; a hash is a prefix.
Plain     == <<"desc", "ann", "out">>
Rewritten == <<"evil", "ann", "out">>
Annotated == <<"desc", "ann2", "out">>
Reshaped  == <<"desc", "ann", "out2">>
PrefixHash(v, d) == SubSeq(d, 1, v)

LegacyRow(id, k, t, v, d, seen) ==
  [id |-> id, key |-> k, tool |-> t, fp |-> PrefixHash(v, d), ver |-> v, seen |-> seen]

Alone      == {"alpha"}
Both       == {"alpha", "beta"}
OneLegacy  == [s \in {"alpha"} |-> "alpha cmd"]
TwoLegacy  == [s \in Both |-> s \o " cmd"]
SharedKey  == [s \in Both |-> "shared cmd"]

OneSession  == [n \in {1} |-> "alpha"]
TwoSessions == [n \in {1, 2} |-> "alpha"]
TwoServers  == [n \in {1, 2} |-> IF n = 1 THEN "alpha" ELSE "beta"]

NoRows == {}
\* A v1 and a v2 row of one tool, and a v1 row of another.
OldRows == {LegacyRow(1, "alpha cmd", "read", 1, Plain, 0),
            LegacyRow(2, "alpha cmd", "read", 2, Rewritten, 0),
            LegacyRow(3, "alpha cmd", "write", 1, Plain, 0)}
SharedRows == {LegacyRow(1, "shared cmd", "read", 2, Plain, 0)}

Defs2 == {Plain, Rewritten}
Defs4 == {Plain, Rewritten, Annotated, Reshaped}
Flip   == {<<<<"read", d>>>> : d \in Defs2}
\* Every definition of one tool, one of them in a response of two tools.
Pairs  == {<<<<"read", d>>>> : d \in Defs4 \ {Rewritten}}
            \cup {<<<<"write", Plain>>, <<"read", Rewritten>>>>}
=============================================================================
