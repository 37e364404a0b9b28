------------------------------- MODULE Fields -------------------------------
(***************************************************************************)
(* upd_msgpack_find_fields and upd_yaml_find_fields: a table of fields     *)
(* says what a map may hold, where to store it and what must be there.     *)
(*                                                                         *)
(* A table is a sequence of fields, each with the set of pointers that are *)
(* not NULL in it ("want").  A value is a record of its type and, for a    *)
(* number, the number.  A YAML scalar is a text, of which only what the    *)
(* conversions of the C library make of it is told.                        *)
(***************************************************************************)
EXTENDS Integers, SequencesExt

CONSTANT IMax  \* INTMAX_MAX

ASSUME WidthAssumption == IMax \in Nat \ {0}

IMin == -IMax - 1
UMax == 2 * IMax + 1

Nothing  == [type |-> "nothing", n |-> 0]
NoName   == "NULL"

Store(slot, v) == [slot |-> slot, value |-> v]

-----------------------------------------------------------------------------
(* Variants with a mistake in them. *)

(* Every unsigned number falls through to the signed case. *)
SmallAlways(n) == TRUE

(* A value of a type nobody asked for is passed over. *)
ProblemIfMissing(f, v, taken) == v = Nothing /\ f.required

-----------------------------------------------------------------------------
(* upd_msgpack_find_obj and the two that call it: the first value whose    *)
(* key is a string and the name.                                           *)
FindObj(map, name) ==
  LET i == SelectInSeq(map, LAMBDA kv : kv.str /\ kv.key = name)
  IN IF i = 0 THEN Nothing ELSE map[i].val

(* An unsigned number that is read as a signed one, through the union. *)
AsSigned(n) == IF n > IMax THEN n - (UMax + 1) ELSE n
Small(n)    == n <= IMax

(* The switch over a msgpack object's type: what may be stored, and where. *)
Offers(v) ==
  {Store("any", v.n)} \cup
  CASE v.type = "positive" -> {Store("ui", v.n)} \cup
         (IF Small(v.n) THEN {Store("i", AsSigned(v.n))} ELSE {})
    [] v.type = "negative" -> {Store("i", v.n)}
    [] v.type = "float"    -> {Store("f", v.n)}
    [] v.type = "boolean"  -> {Store("b", v.n)}
    [] v.type \in {"str", "map", "array"} -> {Store(v.type, v.n)}
    [] OTHER -> {}

-----------------------------------------------------------------------------
(* upd_yaml_find_node_by_name: keys that are not scalars are passed over,  *)
(* and a node that is not a map has no fields.                             *)
FindNode(node, name) ==
  IF node.type # "map" THEN Nothing ELSE FindObj(node.pairs, name)

(* strtoumax wraps negative numbers and strtoimax does not; both clip what *)
(* does not fit.                                                           *)
Strtoumax(n) == IF n < -UMax \/ n > UMax THEN UMax ELSE n % (UMax + 1)
Strtoimax(n) == IF n < IMin THEN IMin ELSE IF n > IMax THEN IMax ELSE n

(* A text that stands for a whole number and fits into temp. *)
Numbers(n) ==
  {Store("f", n)}
    \cup (IF Strtoumax(n) # UMax THEN {Store("ui", Strtoumax(n))} ELSE {})
    \cup (IF Strtoimax(n) \notin {IMin, IMax} THEN {Store("i", Strtoimax(n))} ELSE {})

(* The switch over a YAML node's type. *)
YamlOffers(v) ==
  {Store("any", v.n)} \cup
  CASE v.type = "number"   -> {Store("str", v.n)} \cup Numbers(v.n)
    [] v.type = "fraction" -> {Store("str", v.n), Store("f", v.n)}
    [] v.type = "yes"      -> {Store("str", v.n), Store("b", 1)}
    [] v.type = "no"       -> {Store("str", v.n), Store("b", 0)}
    [] v.type = "text"     -> {Store("str", v.n)}  \* empty, too long, or other
    [] v.type \in {"seq", "map"} -> {Store(v.type, v.n)}
    [] OTHER -> {}

-----------------------------------------------------------------------------
Taken(f, offers) == {s \in offers : s.slot \in f.want}

(* What ends the loop: a required field that is missing, or a value that   *)
(* no pointer of the field can take.                                       *)
Problem(f, v, taken) ==
  IF v = Nothing THEN f.required ELSE taken = {}

(* The loop over the table: the first field with a problem is returned,    *)
(* those before it have been stored.                                       *)
Read(table, found, taken) ==
  LET bad == SelectInSubSeq([i \in DOMAIN table |-> i], 1, Len(table),
                 LAMBDA i : Problem(table[i], found[i], taken[i]))
  IN [ret |-> IF bad = 0 THEN NoName ELSE table[bad].name,
      out |-> [i \in DOMAIN table |->
                 IF found[i] # Nothing /\ (bad = 0 \/ i < bad) THEN taken[i] ELSE {}]]

(* upd_msgpack_find_fields *)
FindFields(map, table) ==
  LET found == [i \in DOMAIN table |-> FindObj(map, table[i].name)]
  IN Read(table, found, [i \in DOMAIN table |-> Taken(table[i], Offers(found[i]))])

(* upd_yaml_find_fields *)
YamlFindFields(node, table) ==
  LET found == [i \in DOMAIN table |-> FindNode(node, table[i].name)]
  IN Read(table, found, [i \in DOMAIN table |-> Taken(table[i], YamlOffers(found[i]))])

(* upd_yaml_find_fields_from_root: "false" for a document without a root   *)
(* is NULL, as if everything had been found.                               *)
YamlFindFieldsFromRoot(root, table) ==
  IF root = Nothing
    THEN [ret |-> NoName, out |-> [i \in DOMAIN table |-> {}]]
    ELSE YamlFindFields(root, table)
=============================================================================
