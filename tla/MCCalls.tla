------------------------------ MODULE MCCalls ------------------------------
(* The arguments TLC makes the calls of Calls with. *)
EXTENDS Calls

(* Strings of up to three bytes: a letter in both cases, another, and NUL. *)
Letters  == {<<"A", "a">>}
TextSet  == BoundedSeq({"0", "a", "A", "b"}, 3)

(* Maps of up to two pairs: the ends of the integer types, their           *)
(* neighbours and the other types; a key twice, or one that is no string.  *)
V(type, n) == [type |-> type, n |-> n]
Objects ==
  {V("positive", n) : n \in {0, IMax, IMax + 1, UMax}}
    \cup {V("negative", n) : n \in {-1, IMin}}
    \cup {V(type, 1) : type \in {"float", "boolean", "str", "map", "nil"}}
Keys == {<<"a", TRUE>>, <<"b", TRUE>>, <<"a", FALSE>>}
PairsOf(values, keys) ==
  {[key |-> k[1], str |-> k[2], val |-> v] : k \in keys, v \in values}
MapSet == BoundedSeq(PairsOf(Objects, Keys), 2)

Nodes ==
  {V("number", n) : n \in {-UMax - 1, IMin - 1, IMin, IMin + 1, -1, 0,
                           IMax - 1, IMax, IMax + 1, UMax - 1, UMax, UMax + 1}}
    \cup {V(type, 1) : type \in {"fraction", "yes", "no", "text", "seq", "map"}}
RootSet ==
  {Nothing, V("seq", 0)}
    \cup [type : {"map"}, n : {0}, pairs : BoundedSeq(PairsOf(Nodes, Keys), 2)]

(* Tables of one field or two: one with both integers, as the file of an   *)
(* encoder frame, one with everything, and some with one type.             *)
Wants == {{"ui", "str"}, {"i", "ui", "f"}, {"map"}, {"b", "any"}}
FieldSet == [name : {"a", "b"}, required : BOOLEAN, want : Wants]
TableSet == {<<f>> : f \in FieldSet}
              \cup {<<f, g>> : f \in {x \in FieldSet : x.name = "a" /\ x.required},
                               g \in {x \in FieldSet : x.name = "b"}}

ShapeSet == BoundedSeq(0..9, 2) \ {<<>>}
=============================================================================
