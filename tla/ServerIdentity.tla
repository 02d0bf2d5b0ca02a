---------------------------- MODULE ServerIdentity ----------------------------
(***************************************************************************)
(* The identity of a server (ServerIdentity and server_identity_hash in    *)
(* crates/policy/src/lib.rs): a proxy is started for one server and then   *)
(* for another.                                                            *)
(*                                                                         *)
(* An argv token is a sequence of words, with a space between each two.    *)
(***************************************************************************)
EXTENDS CanonicalJson

CONSTANTS
  Words,   \* what tokens are made of
  MaxArgv  \* bound: tokens of a command line

ASSUME ServerIdentityAssumption == MaxArgv \in Nat

VARIABLE identity
identityVars == <<identity>>

Tokens == BoundedSeq(Words, 2)
\* A url has no space in it.
Stdio(argv) == [transport |-> "stdio", argv |-> argv]
Http(url)   == [transport |-> "http", argv |-> <<<<url>>>>]
Identities  == {Stdio(argv) : argv \in BoundedSeq(Tokens, MaxArgv)} \cup {Http(u) : u \in Words}

Text(token) == Atom(Interposed([i \in DOMAIN token |-> <<token[i]>>], " "))

\* Mutated form: the command line in place of its tokens.
Structure_Joined(s) ==
  Object(<<"transport", "argv">>,
         <<Atom(<<s.transport>>), Text(FlattenSeq(s.argv))>>)
Structure(s) ==
  IF s.transport = "http"
  THEN Object(<<"transport", "url">>, <<Atom(<<"http">>), Text(s.argv[1])>>)
  ELSE Object(<<"transport", "program", "argv">>,
              <<Atom(<<"stdio">>),
                IF s.argv = <<>> THEN Null ELSE Text(s.argv[1]),
                Array([i \in DOMAIN s.argv |-> Text(s.argv[i])])>>)

ServerId(s) == Canonical(Structure(s))

IdentityInit == identity \in Identities
IdentityNext == identity' \in Identities

-----------------------------------------------------------------------------
(* Properties.                                                             *)

\* Two servers never share a baseline: another program, another argument, other
\* places for the spaces or another transport make another id, also where the
\* command lines, which were the keys before schema v7, are one.
IdentitiesApart ==
  [][identity' # identity => ServerId(identity') # ServerId(identity)]_identityVars
=============================================================================
