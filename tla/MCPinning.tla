------------------------------ MODULE MCPinning ------------------------------
(* What is pinned and how: the table over the hashes of real definitions, or  *)
(* two advertisements of one tool, or two servers.                            *)
EXTENDS MCFingerprintStore, ToolDefinition, ServerIdentity

ASSUME TheoremsApply == OneProxyEach /\ NamedOnce /\ HashCovers /\ OwnLegacyKey

MCAlphabet == <<"annotations", "argv", "description", "icons", "inputSchema", "name",
                "outputSchema", "program", "transport", "url", "x", "y">>

\* The tool a server advertises where MCFingerprintStore has its three fields: of
\* these tools its prefixes are equal where the hashes are.
Advertised(d) ==
  Object(<<"name", "description", "annotations", "outputSchema">>,
         <<Atom("read"), Atom(d[1]), Atom(d[2]), Atom(d[3])>>)
ASSUME PrefixesAreHashes ==
  \A v, w \in Generations, d, e \in Defs4 :
    PrefixHash(v, d) = PrefixHash(w, e) <=>
      HashSubset(v, Advertised(d)) = HashSubset(w, Advertised(e))

\* Schemas that are objects of objects and arrays, in both orders of their keys; each
\* of the other fields missing, null or there, in two orders of the fields.
Word == Atom("a")
Flat == {Null, Word, Array(<<>>), Array(<<Word>>), Array(<<Word, Null>>), Array(<<Null, Word>>),
         Object(<<>>, <<>>), Object(<<"x">>, <<Word>>), Object(<<"y">>, <<Word>>),
         Object(<<"x", "y">>, <<Word, Null>>), Object(<<"y", "x">>, <<Null, Word>>),
         Object(<<"x", "y">>, <<Null, Word>>)}
Schemas == Flat \cup {Object(<<"x">>, <<v>>) : v \in Flat} \cup {Array(<<v>>) : v \in Flat}
             \cup {Object(<<"x", "y">>, <<v, Array(<<Word>>)>>) : v \in Flat}
             \cup {Object(<<"y", "x">>, <<Array(<<Word>>), v>>) : v \in Flat}

\* With the fields of f, each there where its set is not empty.
Built(names, f) ==
  LET there == SelectSeq(names, LAMBDA n : f[n] # {})
  IN  Object(there, [i \in DOMAIN there |-> CHOOSE v \in f[there[i]] : TRUE])

Fields == <<"name", "description", "inputSchema", "annotations", "outputSchema", "icons">>
Bare   == [n \in ToSet(Fields) |-> IF n = "name" THEN {Word} ELSE {}]

MCDefinitions ==
  {Built(Fields, [Bare EXCEPT !.inputSchema = {s}, !.annotations = n, !.icons = i]) :
     s \in Schemas, n \in {{}, {Word}}, i \in {{}, {Word}}} \cup
  {Built(ns, [Bare EXCEPT !.name = {n}, !.description = d, !.annotations = a,
                           !.outputSchema = o, !.inputSchema = s]) :
     ns \in {Fields, Reverse(Fields)}, n \in {Word, Null},
     d, a, o \in {{}, {Null}, {Word}}, s \in {{}, {Object(<<"x">>, <<Word>>)}}}

-----------------------------------------------------------------------------
VARIABLE world  \* what is looked at

TheTable == world = "table" /\ UNCHANGED <<toolVars, identityVars>>
TheTools == world = "tools" /\ UNCHANGED <<vars, identityVars>>
TheServers == world = "servers" /\ UNCHANGED <<vars, toolVars>>

MCInit ==
  /\ Init /\ world \in {"table", "tools", "servers"}
  /\ IF world = "tools" THEN ToolInit ELSE tool = CHOOSE d \in Definitions : TRUE
  /\ IF world = "servers" THEN IdentityInit ELSE identity = CHOOSE s \in Identities : TRUE
MCNext ==
  /\ \/ TheTable /\ Next
     \/ TheTools /\ ToolNext
     \/ TheServers /\ IdentityNext
  /\ UNCHANGED world
MCSpec == MCInit /\ [][MCNext]_<<vars, toolVars, identityVars, world>>

\* The key of a pin, the id of the server and the hash of the definition, is another
\* exactly when the server or what is hashed of the tool is another.
KeysTellApart == HashesAreContracts /\ IdentitiesApart
=============================================================================
