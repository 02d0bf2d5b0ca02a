---------------------------- MODULE ToolDefinition ----------------------------
(***************************************************************************)
(* The fingerprints of a tool (fingerprint_subset_v1, _v2 and _v3 and      *)
(* fingerprints_from_tools_list_versioned in crates/policy/src/lib.rs):    *)
(* a server advertises one definition of a tool and then another.          *)
(***************************************************************************)
EXTENDS CanonicalJson

CONSTANT Definitions  \* the tools a server may advertise

VARIABLE tool
toolVars == <<tool>>

Generations == 1..3

\* What a version adds to those before it.
AddedBy_SnakeCase(v) ==  \* mutated form: the schema under the name of a Rust field
  CASE v = 1 -> <<"name", "description", "input_schema">> [] v = 2 -> <<"annotations">>
    [] v = 3 -> <<"outputSchema">>
AddedBy(v) ==
  CASE v = 1 -> <<"name", "description", "inputSchema">> [] v = 2 -> <<"annotations">>
    [] v = 3 -> <<"outputSchema">>

Covered(v) == FlattenSeq([w \in 1..v |-> AddedBy(w)])

\* Mutated form: a field that is missing is left out.
Subset_Present(d, v) ==
  LET fields == SelectSeq(Covered(v), LAMBDA f : Has(d, f))
  IN  Object(fields, [i \in DOMAIN fields |-> Get(d, fields[i])])
\* Whatever else a tool has is not looked at; what it does not have is Null.
Subset(d, v) ==
  LET fields == Covered(v)
  IN  Object(fields, [i \in DOMAIN fields |->
                        IF Has(d, fields[i]) THEN Get(d, fields[i]) ELSE Null])

HashSubset(v, d) == Canonical(Subset(d, v))

\* A tool without a name that is a string is passed over.
Named(d) == Has(d, "name") /\ Get(d, "name").kind = "atom" /\ Get(d, "name") # Null
Fingerprints(d) == IF Named(d) THEN [v \in Generations |-> {HashSubset(v, d)}] ELSE [v \in Generations |-> {}]

\* The fingerprints of every tool, computed once.
Prints == [d \in Definitions |-> Fingerprints(d)]

ToolInit == tool \in Definitions
ToolNext == tool' \in Definitions

-----------------------------------------------------------------------------
(* Properties.                                                             *)

Field(d, f) == IF Has(d, f) THEN Get(d, f) ELSE Null

\* The contract of a tool under version v, as the documentation of FP_VERSION has
\* it: fields that every version before it covers, and its own.
Contract(v) ==
  {"name", "description", "inputSchema"} \cup (IF v > 1 THEN {"annotations"} ELSE {})
    \cup (IF v > 2 THEN {"outputSchema"} ELSE {})

SameContract(v, d, e) == \A f \in Contract(v) : Same(Field(d, f), Field(e, f))

\* Keys in another order, at any depth, an icon, a field of one's own or a null in
\* place of a field that is missing change no hash of any version.
NothingElseCounts ==
  [][tool' # tool => \A v \in Generations :
       SameContract(v, tool, tool') => Prints[tool][v] = Prints[tool'][v]]_toolVars

\* Any other change, at any depth, changes the hash of each version that covers it.
EveryChangeShows ==
  [][tool' # tool => \A v \in Generations :
       Prints[tool][v] \cap Prints[tool'][v] # {} => SameContract(v, tool, tool')]_toolVars

\* What FingerprintStore assumes of hashes: a later version tells apart what an
\* earlier one does, and hashes of two versions are never the same.
HashAssumptionHolds ==
  [][tool' # tool => \A v, w \in Generations :
       /\ v <= w /\ Prints[tool][w] \cap Prints[tool'][w] # {} => Prints[tool][v] = Prints[tool'][v]
       /\ Prints[tool][v] \cap Prints[tool'][w] # {} => v = w]_toolVars

\* A hash stands for what its version covers of a definition, no more and no less.
HashesAreContracts == NothingElseCounts /\ EveryChangeShows /\ HashAssumptionHolds
=============================================================================
