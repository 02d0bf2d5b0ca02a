----------------------------- MODULE CanonicalJson -----------------------------
(***************************************************************************)
(* JSON values and the text the policy crate hashes of them                *)
(* (write_canonical and hash_subset in crates/policy/src/lib.rs).          *)
(*                                                                         *)
(* A value is [kind, keys, items, atom]: an object has keys in the order   *)
(* of its source and an item for each, an array items alone.  A text is a  *)
(* sequence of tokens; a key and a string atom are the same token when     *)
(* they are the same string, as serde_json escapes both.  A hash is the    *)
(* text itself: SHA-256 is taken to tell texts apart.                      *)
(***************************************************************************)
EXTENDS Naturals, Sequences, SequencesExt

CONSTANT Alphabet  \* the keys there are, in the order of their bytes

Atom(a)        == [kind |-> "atom", keys |-> <<>>, items |-> <<>>, atom |-> a]
Array(s)       == [kind |-> "array", keys |-> <<>>, items |-> s, atom |-> "null"]
Object(ks, vs) == [kind |-> "object", keys |-> ks, items |-> vs, atom |-> "null"]
Null           == Atom("null")

KeySet(v)  == ToSet(v.keys)
Has(v, k)  == v.kind = "object" /\ k \in KeySet(v)
Get(v, k)  == v.items[CHOOSE i \in DOMAIN v.keys : v.keys[i] = k]

\* Mutated form: the keys as they come.
Ordered_AsGiven(ks) == ks
Ordered(ks) == SelectSeq(Alphabet, LAMBDA k : Contains(ks, k))

Interposed(texts, sep) ==
  FlattenSeq([i \in DOMAIN texts |-> IF i = 1 THEN texts[i] ELSE <<sep>> \o texts[i]])

\* Objects with their keys sorted at every depth, arrays in their order.
RECURSIVE Canonical(_)
Canonical(v) ==
  CASE v.kind = "atom"   -> <<v.atom>>
    [] v.kind = "array"  ->
         <<"[">> \o Interposed([i \in DOMAIN v.items |-> Canonical(v.items[i])], ",") \o <<"]">>
    [] v.kind = "object" ->
         LET ks == Ordered(v.keys)
         IN  <<"{">> \o Interposed([i \in DOMAIN ks |-> <<ks[i], ":">> \o Canonical(Get(v, ks[i]))], ",")
               \o <<"}">>

\* What JSON means by equal: the order of an object's keys is nothing.
RECURSIVE Same(_, _)
Same(v, w) ==
  /\ v.kind = w.kind /\ v.atom = w.atom
  /\ v.kind = "array" =>
       /\ Len(v.items) = Len(w.items)
       /\ \A i \in DOMAIN v.items : Same(v.items[i], w.items[i])
  /\ v.kind = "object" =>
       /\ KeySet(v) = KeySet(w)
       /\ \A k \in KeySet(v) : Same(Get(v, k), Get(w, k))
=============================================================================
