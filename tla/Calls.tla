------------------------------- MODULE Calls -------------------------------
(***************************************************************************)
(* One call of a function without state: the name of it, its arguments and *)
(* what it returns.  A run makes every call there is over its sets of      *)
(* arguments, so that the invariants compare the functions of Strings,     *)
(* Fields and Tensor with what their callers rely on.                      *)
(***************************************************************************)
EXTENDS Strings, Fields, Tensor

CONSTANTS Texts,   \* byte strings
          Maps,    \* maps of msgpack objects
          Roots,   \* root nodes of YAML documents, or Nothing
          Tables,  \* tables of fields
          Shapes   \* the resolutions of tensors

(* Strings, maps, tables and resolutions are sequences, msgpack's integers *)
(* have their width, and the name of a field is not NULL.                  *)
IsSeq(s) == s \in Seq(Range(s))
Sized(v) == /\ v.type = "positive" => v.n \in 0..UMax
            /\ v.type = "negative" => v.n \in IMin..(-1)

ASSUME ArgumentsAssumption ==
  /\ \A s \in Texts : IsSeq(s)
  /\ \A map \in Maps : IsSeq(map) /\ \A i \in DOMAIN map : Sized(map[i].val)
  /\ \A root \in Roots \ {Nothing} :
       root.type = "map" =>
         IsSeq(root.pairs) /\ \A i \in DOMAIN root.pairs :
           root.pairs[i].val.type = "number" => root.pairs[i].val.n \in Int
  /\ \A table \in Tables :
       IsSeq(table) /\ \A i \in DOMAIN table : table[i].name # NoName
  /\ \A reso \in Shapes : IsSeq(reso) /\ \A i \in DOMAIN reso : reso[i] \in Nat

VARIABLES op, args, ret

vars == <<op, args, ret>>

Init == op = "none" /\ args = <<>> /\ ret = <<>>

Call(name, a, r) == op' = name /\ args' = a /\ ret' = r

Compare(s, t) ==
  Call("compare", <<s, t>>, [same |-> Streq(s, t), alike |-> Strcaseq(s, t)])

(* t looked up in a table of cases, of which s is the only one. *)
Switch(s, t) ==
  Call("switch", <<s, t>>, [same  |-> StrSwitch(t, <<s>>) # 0,
                            alike |-> StrcaseSwitch(t, <<s>>) # 0])

FindMsgpack(map, table) ==
  Call("msgpack", <<map, table>>, FindFields(map, table))

FindYaml(root, table) ==
  Call("yaml", <<root, table>>, YamlFindFieldsFromRoot(root, table))

Convert(reso) ==
  Call("convert", <<reso>>, Converted(CountScalars(reso)))

Next ==
  /\ op = "none"
  /\ \/ \E s, t \in Texts : Compare(s, t) \/ Switch(s, t)
     \/ \E map \in Maps, table \in Tables : FindMsgpack(map, table)
     \/ \E root \in Roots, table \in Tables : FindYaml(root, table)
     \/ \E reso \in Shapes : Convert(reso)

Spec == Init /\ [][Next]_vars

-----------------------------------------------------------------------------
(* Two strings are the same for upd_streq if and only if they are, and for *)
(* upd_strcaseq up to case, as long as one of them has no NUL byte, which  *)
(* is true of every string the library looks for (str.h:66-107).            *)
KeysExact ==
  op \in {"compare", "switch"} =>
    LET s == args[1]
        t == args[2]
    IN (\A i \in DOMAIN s : s[i] # NUL) \/ (\A i \in DOMAIN t : t[i] # NUL) =>
         /\ ret.same = (s = t)
         /\ ret.alike = ( /\ Len(s) = Len(t)
                          /\ \A i \in DOMAIN s : Lower(s[i]) = Lower(t[i]))

(* When find_fields names no field, whatever was required has been stored, *)
(* and nothing that the map holds under a field's name was passed over, of *)
(* whatever type it is; a document without a root is the exception         *)
(* (msgpack.h:356-434, yaml.h:121-217, 223).                               *)
Rooted == op = "yaml" => args[1] # Nothing
Given(name) == IF op = "yaml" THEN FindNode(args[1], name)
                              ELSE FindObj(args[1], name)
FieldsComplete ==
  op \in {"msgpack", "yaml"} /\ Rooted /\ ret.ret = NoName =>
    LET table == args[2]
    IN \A i \in DOMAIN table :
         table[i].required \/ Given(table[i].name) # Nothing => ret.out[i] # {}

(* A whole number that is stored is the number that was written, up to the *)
(* ends of both integer types, but for a negative number in a YAML text,   *)
(* which an unsigned field takes (msgpack.h:374-388, yaml.h:173-186).      *)
ValuesKept ==
  op \in {"msgpack", "yaml"} /\ Rooted =>
    LET table == args[2]
    IN \A i \in DOMAIN table : \A s \in ret.out[i] :
         LET n == Given(table[i].name).n
         IN s.slot \in {"i", "ui"} =>
              s.value = n \/ (op = "yaml" /\ s.slot = "ui" /\ n < 0)

(* As many numbers are converted as the tensor has, if it has any and      *)
(* their count, rounded up to whole passes, is a size_t (tensor.h:41-52,   *)
(* 61-72, 78-87).                                                          *)
Products(reso) ==
  LET n[i \in 0..Len(reso)] == IF i = 0 THEN 1 ELSE n[i - 1] * reso[i] IN n
ConvertsEach ==
  op = "convert" =>
    LET n == Products(args[1])[Len(args[1])]
    IN n > 0 /\ n + Unroll - 1 <= SizeMax => ret = n
=============================================================================
