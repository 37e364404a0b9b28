---------------------------- MODULE CallsProofs ----------------------------
(***************************************************************************)
(* Proofs about the functions of Strings, Fields and Tensor, for arguments *)
(* of any length and integers of any width.                                *)
(***************************************************************************)
EXTENDS Calls, WellFoundedInduction, TLAPS

(* What a sequence is, for the provers. *)
LEMMA SeqFacts ==
  ASSUME NEW s, IsSeq(s)
  PROVE  Len(s) \in Nat /\ DOMAIN s = 1..Len(s) /\ s \in [1..Len(s) -> Range(s)]
BY DEF IsSeq

(* A set of numbers that is not empty has a least one. *)
LEMMA MinIsLeast ==
  ASSUME NEW I, I \subseteq Nat, I # {}
  PROVE  Min(I) \in I /\ \A j \in I : Min(I) <= j
<1>1. PICK x \in I : \A y \in I : <<y, x>> \notin OpToRel(<, Nat)
  BY NatLessThanWellFounded, WFMin
<1>2. \A y \in I : x <= y
  <2> SUFFICES ASSUME NEW y \in I, ~(x <= y) PROVE FALSE
    OBVIOUS
  <2>1. y < x /\ <<y, x>> \in Nat \X Nat
    OBVIOUS
  <2>2. <<y, x>> \in OpToRel(<, Nat)
    BY <2>1 DEF OpToRel
  <2> QED
    BY <1>1, <2>2
<1> QED
  BY <1>2 DEF Min

(* upd_streq is equality of strings, if one of them has no NUL byte. *)
NoNul(s) == \A i \in DOMAIN s : s[i] # NUL

LEMMA StreqExact ==
  ASSUME NEW s, NEW t, IsSeq(s), IsSeq(t), NoNul(s) \/ NoNul(t)
  PROVE  Streq(s, t) <=> s = t
<1>1. /\ Len(s) \in Nat /\ DOMAIN s = 1..Len(s) /\ s \in [1..Len(s) -> Range(s)]
      /\ Len(t) \in Nat /\ DOMAIN t = 1..Len(t) /\ t \in [1..Len(t) -> Range(t)]
  BY SeqFacts
<1>2. ASSUME Len(s) = Len(t), SameBytes(s, t, Len(s)) PROVE s = t
  <2>1. \A i \in 1..Len(s) : ~Ends(s, t, i)
    BY <1>1, <1>2 DEF Ends, NoNul
  <2>2. \A i \in 1..Len(s) : \A j \in 1..(i - 1) : j \in 1..Len(s)
    BY <1>1
  <2>3. \A i \in 1..Len(s) : s[i] = t[i]
    BY <1>2, <2>1, <2>2 DEF SameBytes
  <2> QED
    BY <1>1, <1>2, <2>3
<1>3. ASSUME s = t PROVE Streq(s, t)
  BY <1>3 DEF Streq, SameBytes
<1> QED
  BY <1>2, <1>3 DEF Streq

LEMMA StrcaseqExact ==
  ASSUME NEW s, NEW t, IsSeq(s), IsSeq(t), NoNul(s) \/ NoNul(t)
  PROVE  Strcaseq(s, t) <=>
           Len(s) = Len(t) /\ \A i \in DOMAIN s : Lower(s[i]) = Lower(t[i])
<1>1. /\ Len(s) \in Nat /\ DOMAIN s = 1..Len(s)
      /\ Len(t) \in Nat /\ DOMAIN t = 1..Len(t)
  BY SeqFacts
<1>2. Len(s) = Len(t) => \A i \in 1..Len(s) : ~Ends(s, t, i)
  BY <1>1 DEF Ends, NoNul
<1>3. \A i \in 1..Len(s) : \A j \in 1..(i - 1) : j \in 1..Len(s)
  BY <1>1
<1> QED
  BY <1>1, <1>2, <1>3 DEF Strcaseq, SameLetters

-----------------------------------------------------------------------------
(* A table with one case is switched over by one comparison. *)
LEMMA SwitchCompares ==
  ASSUME NEW s, NEW t
  PROVE  /\ StrSwitch(t, <<s>>) # 0 <=> Streq(s, t)
         /\ StrcaseSwitch(t, <<s>>) # 0 <=> Strcaseq(s, t)
<1>1. ASSUME NEW I, I = {} \/ I = {1} PROVE I # {} => Min(I) = 1
  BY <1>1, MinIsLeast
<1>2. /\ {i \in 1..Len(<<s>>) : Streq(<<s>>[i], t)} = IF Streq(s, t) THEN {1} ELSE {}
      /\ {i \in 1..Len(<<s>>) : Strcaseq(<<s>>[i], t)} = IF Strcaseq(s, t) THEN {1} ELSE {}
  OBVIOUS
<1> QED
  BY <1>1, <1>2 DEF StrSwitch, StrcaseSwitch, SelectInSeq

-----------------------------------------------------------------------------
(* What is found in a map is the value of one of its pairs. *)
LEMMA FoundInMap ==
  ASSUME NEW map, IsSeq(map), NEW name
  PROVE  FindObj(map, name) = Nothing
           \/ \E i \in DOMAIN map : FindObj(map, name) = map[i].val
<1> DEFINE I == {i \in 1..Len(map) : map[i].str /\ map[i].key = name}
<1>1. FindObj(map, name) =
        LET k == IF I # {} THEN Min(I) ELSE 0
        IN IF k = 0 THEN Nothing ELSE map[k].val
  BY DEF FindObj, SelectInSeq
<1>2. DOMAIN map = 1..Len(map)
  BY SeqFacts
<1>3. I # {} => Min(I) \in I
  <2>1. I \subseteq Nat
    OBVIOUS
  <2> QED
    BY <2>1, MinIsLeast
<1> QED
  BY <1>1, <1>2, <1>3

(* The loop over a table ends with no name only if no field is a problem,  *)
(* and what it stores for a field is everything or nothing.                *)
LEMMA ReadFacts ==
  ASSUME NEW table, IsSeq(table), NEW found, NEW taken,
         \A i \in DOMAIN table : table[i].name # NoName
  PROVE  LET result == Read(table, found, taken)
         IN /\ result.ret = NoName =>
                 \A i \in DOMAIN table :
                   /\ ~Problem(table[i], found[i], taken[i])
                   /\ found[i] # Nothing => result.out[i] = taken[i]
            /\ \A i \in DOMAIN table : result.out[i] \in {taken[i], {}}
<1> DEFINE J == {i \in 1..Len(table) : Problem(table[i], found[i], taken[i])}
           bad == IF J # {} THEN Min(J) ELSE 0
<1>1. DOMAIN table = 1..Len(table) /\ Len(table) \in Nat
  BY SeqFacts
<1>2. J = {i \in 1..Len(table) :
             Problem(table[[k \in DOMAIN table |-> k][i]],
                     found[[k \in DOMAIN table |-> k][i]],
                     taken[[k \in DOMAIN table |-> k][i]])}
  BY <1>1
<1>3. Read(table, found, taken) =
        [ret |-> IF bad = 0 THEN NoName ELSE table[bad].name,
         out |-> [i \in DOMAIN table |->
                    IF found[i] # Nothing /\ (bad = 0 \/ i < bad) THEN taken[i] ELSE {}]]
  BY <1>2 DEF Read, SelectInSubSeq
<1>4. J # {} => Min(J) \in J
  <2>1. J \subseteq Nat
    OBVIOUS
  <2> QED
    BY <2>1, MinIsLeast
<1>5. bad # 0 => table[bad].name # NoName
  BY <1>1, <1>4
<1>6. bad = 0 => \A i \in DOMAIN table : ~Problem(table[i], found[i], taken[i])
  BY <1>1, <1>4
<1> HIDE DEF bad, J
<1> QED
  BY <1>3, <1>5, <1>6

-----------------------------------------------------------------------------
(* What is offered to the integer pointers is the number. *)
LEMMA OffersKeep ==
  ASSUME NEW v, Sized(v), NEW s \in Offers(v), s.slot \in {"i", "ui"}
  PROVE  s.value = v.n
BY WidthAssumption DEF Sized, Offers, Store, Small, AsSigned, UMax, IMin

LEMMA YamlOffersKeep ==
  ASSUME NEW v, v.type = "number" => v.n \in Int,
         NEW s \in YamlOffers(v), s.slot \in {"i", "ui"}
  PROVE  s.value = v.n \/ (s.slot = "ui" /\ v.n < 0)
BY WidthAssumption
   DEF YamlOffers, Numbers, Store, Strtoumax, Strtoimax, UMax, IMin

-----------------------------------------------------------------------------
(* Each call has returned what its function returns. *)
Returned ==
  /\ op = "compare" => \E s, t \in Texts :
       args = <<s, t>> /\ ret = [same |-> Streq(s, t), alike |-> Strcaseq(s, t)]
  /\ op = "switch" => \E s, t \in Texts :
       args = <<s, t>> /\ ret = [same  |-> StrSwitch(t, <<s>>) # 0,
                                alike |-> StrcaseSwitch(t, <<s>>) # 0]
  /\ op = "msgpack" => \E map \in Maps, table \in Tables :
       args = <<map, table>> /\ ret = FindFields(map, table)
  /\ op = "yaml" => \E root \in Roots, table \in Tables :
       args = <<root, table>> /\ ret = YamlFindFieldsFromRoot(root, table)
  /\ op = "convert" => \E reso \in Shapes :
       args = <<reso>> /\ ret = Converted(CountScalars(reso))

(* This holds of every call, whatever the arguments. *)
THEOREM Invariance == Spec => []Returned
<1>1. Init => Returned
  BY DEF Init, Returned
<1>2. ASSUME Returned, [Next]_vars PROVE Returned'
  <2>1. CASE UNCHANGED vars
    BY <1>2, <2>1 DEF vars, Returned
  <2>2. CASE \E s, t \in Texts : Compare(s, t) \/ Switch(s, t)
    BY <2>2 DEF Compare, Switch, Call, Returned
  <2>3. CASE \E map \in Maps, table \in Tables : FindMsgpack(map, table)
    BY <2>3 DEF FindMsgpack, Call, Returned
  <2>4. CASE \E root \in Roots, table \in Tables : FindYaml(root, table)
    BY <2>4 DEF FindYaml, Call, Returned
  <2>5. CASE \E reso \in Shapes : Convert(reso)
    BY <2>5 DEF Convert, Call, Returned
  <2> QED
    BY <1>2, <2>1, <2>2, <2>3, <2>4, <2>5 DEF Next
<1> QED
  BY <1>1, <1>2, PTL DEF Spec

(* Comparisons and switches find the string they look for and no other     *)
(* (str.h:66-107).                                                         *)
THEOREM KeysExactHolds == Spec => []KeysExact
<1> DEFINE Alike(s, t) ==
             Len(s) = Len(t) /\ \A i \in DOMAIN s : Lower(s[i]) = Lower(t[i])
<1>1. ASSUME NEW s \in Texts, NEW t \in Texts, NoNul(s) \/ NoNul(t)
      PROVE  /\ Streq(s, t) = (s = t)
             /\ Strcaseq(s, t) = Alike(s, t)
             /\ (StrSwitch(t, <<s>>) # 0) = (s = t)
             /\ (StrcaseSwitch(t, <<s>>) # 0) = Alike(s, t)
  <2>1. IsSeq(s) /\ IsSeq(t)
    BY ArgumentsAssumption
  <2>2. Streq(s, t) <=> s = t
    BY <1>1, <2>1, StreqExact
  <2>3. Strcaseq(s, t) <=> Alike(s, t)
    BY <1>1, <2>1, StrcaseqExact
  <2> HIDE DEF Alike
  <2>4. Streq(s, t) = (s = t)
    BY <2>2 DEF Streq
  <2>5. Strcaseq(s, t) \in BOOLEAN /\ Alike(s, t) \in BOOLEAN
    BY DEF Strcaseq, Alike
  <2>6. Strcaseq(s, t) = Alike(s, t)
    BY <2>3, <2>5
  <2>7. (StrSwitch(t, <<s>>) # 0) = (s = t)
    BY <2>2, SwitchCompares
  <2>8. (StrcaseSwitch(t, <<s>>) # 0) = Alike(s, t)
    BY <2>3, <2>5, SwitchCompares
  <2> QED
    BY <2>4, <2>6, <2>7, <2>8
<1>2. ASSUME Returned, op \in {"compare", "switch"} PROVE KeysExact
  <2>1. PICK s \in Texts, t \in Texts :
          /\ args = <<s, t>>
          /\ \/ ret = [same |-> Streq(s, t), alike |-> Strcaseq(s, t)]
             \/ ret = [same  |-> StrSwitch(t, <<s>>) # 0,
                       alike |-> StrcaseSwitch(t, <<s>>) # 0]
    BY <1>2 DEF Returned
  <2>2. args[1] = s /\ args[2] = t
    BY <2>1
  <2>3. SUFFICES ASSUME NoNul(s) \/ NoNul(t)
                 PROVE  ret.same = (s = t) /\ ret.alike = Alike(s, t)
    BY <2>2 DEF KeysExact, NoNul
  <2>4. ret = [same |-> s = t, alike |-> Alike(s, t)]
    BY <1>1, <2>1, <2>3
  <2> QED
    BY <2>4
<1>3. Returned => KeysExact
  BY <1>2 DEF KeysExact
<1> QED
  BY <1>3, Invariance, PTL

(* A call of find_fields reads its table with what the map has for each    *)
(* field.                                                                  *)
OffersOf(v) == IF op = "yaml" THEN YamlOffers(v) ELSE Offers(v)

LEMMA FieldsReturned ==
  ASSUME Returned, op \in {"msgpack", "yaml"}, Rooted
  PROVE  \E found, taken :
           /\ ret = Read(args[2], found, taken)
           /\ \A i \in DOMAIN args[2] :
                /\ found[i] = Given(args[2][i].name)
                /\ taken[i] = Taken(args[2][i], OffersOf(found[i]))
<1> DEFINE Found == [i \in DOMAIN args[2] |-> Given(args[2][i].name)]
           Takes == [i \in DOMAIN args[2] |-> Taken(args[2][i], OffersOf(Found[i]))]
<1>1. ASSUME op = "msgpack" PROVE ret = Read(args[2], Found, Takes)
  <2>1. PICK map \in Maps, table \in Tables :
          args = <<map, table>> /\ ret = FindFields(map, table)
    BY <1>1 DEF Returned
  <2> QED
    BY <1>1, <2>1 DEF FindFields, Given, OffersOf
<1>2. ASSUME op = "yaml" PROVE ret = Read(args[2], Found, Takes)
  <2>1. PICK root \in Roots, table \in Tables :
          args = <<root, table>> /\ ret = YamlFindFieldsFromRoot(root, table)
    BY <1>2 DEF Returned
  <2>2. root # Nothing
    BY <1>2, <2>1 DEF Rooted
  <2>3. ret = YamlFindFields(root, table)
    BY <2>1, <2>2 DEF YamlFindFieldsFromRoot
  <2> QED
    BY <1>2, <2>1, <2>3 DEF YamlFindFields, Given, OffersOf
<1>3. ret = Read(args[2], Found, Takes)
  BY <1>1, <1>2
<1>4. \A i \in DOMAIN args[2] :
        /\ Found[i] = Given(args[2][i].name)
        /\ Takes[i] = Taken(args[2][i], OffersOf(Found[i]))
  OBVIOUS
<1> HIDE DEF Found, Takes
<1> WITNESS Found, Takes
<1> QED
  BY <1>3, <1>4

LEMMA TableGiven ==
  ASSUME Returned, op \in {"msgpack", "yaml"}
  PROVE  IsSeq(args[2]) /\ \A i \in DOMAIN args[2] : args[2][i].name # NoName
<1>1. args[2] \in Tables
  BY DEF Returned
<1> QED
  BY <1>1, ArgumentsAssumption

(* Both find_fields name a field when one is missing or of the wrong type  *)
(* (msgpack.h:356-434, yaml.h:117-218).                                    *)
THEOREM FieldsCompleteHolds == Spec => []FieldsComplete
<1>1. ASSUME Returned, op \in {"msgpack", "yaml"}, Rooted, ret.ret = NoName,
             NEW i \in DOMAIN args[2],
             args[2][i].required \/ Given(args[2][i].name) # Nothing
      PROVE  ret.out[i] # {}
  <2>1. PICK found, taken :
          /\ ret = Read(args[2], found, taken)
          /\ \A k \in DOMAIN args[2] :
               /\ found[k] = Given(args[2][k].name)
               /\ taken[k] = Taken(args[2][k], OffersOf(found[k]))
    BY <1>1, FieldsReturned
  <2>2. /\ ~Problem(args[2][i], found[i], taken[i])
        /\ found[i] # Nothing => ret.out[i] = taken[i]
    BY <1>1, <2>1, TableGiven, ReadFacts
  <2> QED
    BY <1>1, <2>1, <2>2 DEF Problem
<1>2. Returned => FieldsComplete
  BY <1>1 DEF FieldsComplete
<1> QED
  BY <1>2, Invariance, PTL

(* No integer changes on its way into the caller's variable, but a         *)
(* negative text for an unsigned one (msgpack.h:374-388, yaml.h:173-186).  *)
THEOREM ValuesKeptHolds == Spec => []ValuesKept
<1>1. ASSUME Returned, op \in {"msgpack", "yaml"}, Rooted, NEW name,
             NEW s \in OffersOf(Given(name)), s.slot \in {"i", "ui"}
      PROVE  s.value = Given(name).n
               \/ (op = "yaml" /\ s.slot = "ui" /\ Given(name).n < 0)
  <2>1. CASE op = "msgpack"
    <3>1. IsSeq(args[1]) /\ \A i \in DOMAIN args[1] : Sized(args[1][i].val)
      BY <1>1, <2>1, ArgumentsAssumption DEF Returned
    <3>2. Sized(Nothing)
      BY DEF Sized, Nothing
    <3>3. Sized(Given(name))
      BY <2>1, <3>1, <3>2, FoundInMap DEF Given
    <3> QED
      BY <1>1, <2>1, <3>3, OffersKeep DEF OffersOf
  <2>2. CASE op = "yaml"
    <3>1. args[1] \in Roots \ {Nothing}
      BY <1>1, <2>2 DEF Returned, Rooted
    <3>2. Given(name).type = "number" => Given(name).n \in Int
      BY <2>2, <3>1, ArgumentsAssumption, FoundInMap DEF Given, FindNode, Nothing
    <3> QED
      BY <1>1, <2>2, <3>2, YamlOffersKeep DEF OffersOf
  <2> QED
    BY <1>1, <2>1, <2>2
<1>2. ASSUME Returned, op \in {"msgpack", "yaml"}, Rooted,
             NEW i \in DOMAIN args[2], NEW s \in ret.out[i]
      PROVE  s \in OffersOf(Given(args[2][i].name))
  <2>1. PICK found, taken :
          /\ ret = Read(args[2], found, taken)
          /\ \A k \in DOMAIN args[2] :
               /\ found[k] = Given(args[2][k].name)
               /\ taken[k] = Taken(args[2][k], OffersOf(found[k]))
    BY <1>2, FieldsReturned
  <2>2. ret.out[i] \in {taken[i], {}}
    BY <1>2, <2>1, TableGiven, ReadFacts
  <2> QED
    BY <1>2, <2>1, <2>2 DEF Taken
<1>3. Returned => ValuesKept
  BY <1>1, <1>2 DEF ValuesKept
<1> QED
  BY <1>3, Invariance, PTL

-----------------------------------------------------------------------------
(* Division, for what the solver does not know when the divisor is not a   *)
(* number.                                                                 *)
LEMMA Division ==
  ASSUME NEW a \in Nat, NEW d \in Nat \ {0}
  PROVE  /\ a \div d \in Nat /\ a % d \in 0..(d - 1)
         /\ a = d * (a \div d) + (a % d)
OBVIOUS

LEMMA Quotient ==
  ASSUME NEW a \in Nat, NEW d \in Nat \ {0}, NEW q \in Nat, NEW r \in 0..(d - 1),
         a = d * q + r
  PROVE  a \div d = q
OBVIOUS

(* The unrolled loops convert each number once, if there is one and their  *)
(* count, rounded up to whole passes, is a size_t (tensor.h:41-52, 61-72). *)
THEOREM ConvertedIsAll ==
  ASSUME NEW n \in Nat, n > 0, n + Unroll - 1 <= SizeMax PROVE Converted(n) = n
<1> DEFINE q == n \div Unroll
           r == n % Unroll
<1>1. q \in Nat /\ r \in 0..(Unroll - 1) /\ n = Unroll * q + r
  BY TensorAssumption, Division
<1>2. Size(n + Unroll - 1) = n + Unroll - 1
  BY TensorAssumption DEF Size
<1>3. CASE r = 0
  <2>1. (n + Unroll - 1) \div Unroll = q
    BY <1>1, <1>3, TensorAssumption, Quotient
  <2>2. q > 0
    BY <1>1, <1>3, TensorAssumption
  <2>3. FirstPass(n) = Unroll /\ Passes(n) = q
    BY <1>2, <1>3, <2>1, <2>2 DEF FirstPass, Passes
  <2> QED
    BY <1>1, <1>3, <2>3, TensorAssumption DEF Converted
<1>4. CASE r > 0
  <2>1. (n + Unroll - 1) \div Unroll = q + 1
    <3> HIDE DEF q, r
    <3>1. n + Unroll - 1 = Unroll * (q + 1) + (r - 1) /\ r - 1 \in 0..(Unroll - 1)
      BY <1>1, <1>4, TensorAssumption
    <3> QED
      BY <1>1, <3>1, TensorAssumption, Quotient
  <2>2. FirstPass(n) = r /\ Passes(n) = q + 1
    BY <1>1, <1>2, <1>4, <2>1 DEF FirstPass, Passes
  <2> QED
    BY <1>1, <1>4, <2>2, TensorAssumption DEF Converted
<1> QED
  BY <1>1, <1>3, <1>4

-----------------------------------------------------------------------------
(* The functions that Tensor and Calls define by recursion: there is one,  *)
(* whatever the length of the resolution.                                  *)
(* A set of naturals that is not empty has a least element: every          *)
(* induction below looks at the least counterexample.                      *)
LEMMA Least ==
  ASSUME NEW T, T \subseteq Nat, T # {}
  PROVE  \E m \in T : \A j \in T : m <= j
<1>1. PICK m \in T : \A j \in T : <<j, m>> \notin OpToRel(<, Nat)
  BY NatLessThanWellFounded, WFMin
<1>2. \A j \in T : ~(j < m)
  BY <1>1 DEF OpToRel
<1> QED
  BY <1>2

(* A fold is a function: there is one, whatever it folds.                  *)
Folding(f, first, step, n) ==
  f[0] = first /\ \A i \in 1..n : f[i] = step[i][f[i - 1]]

(* There is such a function for every first value and every step.          *)
LEMMA FoldExists ==
  ASSUME NEW S, NEW n \in Nat, NEW first \in S, NEW step \in [1..n -> [S -> S]]
  PROVE  \E f \in [0..n -> S] : Folding(f, first, step, n)
<1> USE DEF Folding
<1> DEFINE Folds(f, m) == Folding(f, first, step, m)
           T == {m \in 0..n : \A f \in [0..m -> S] : ~Folds(f, m)}
<1>1. SUFFICES ASSUME T # {} PROVE FALSE
  <2>1. n \in 0..n
    OBVIOUS
  <2> QED
    BY <2>1
<1>2. PICK m \in T : \A j \in T : m <= j
  <2>1. T \subseteq Nat
    OBVIOUS
  <2> QED
    BY <1>1, <2>1, Least
<1>3. CASE m = 0
  <2>1. [i \in 0..0 |-> first] \in [0..0 -> S]
    OBVIOUS
  <2>2. Folds([i \in 0..0 |-> first], 0)
    OBVIOUS
  <2> QED
    BY <1>2, <1>3, <2>1, <2>2
<1>4. CASE m # 0
  <2>1. m \in 1..n /\ m - 1 \in 0..n /\ m - 1 \notin T
    <3>1. m \in 0..n
      BY <1>2
    <3>2. m \in 1..n /\ m - 1 \in 0..n /\ ~(m <= m - 1)
      BY <1>4, <3>1
    <3> HIDE DEF T
    <3> QED
      BY <1>2, <3>2
  <2>2. PICK k \in 0..n : k = m - 1 /\ k \notin T
    BY <2>1
  <2>3. PICK f \in [0..k -> S] : Folds(f, k)
    BY <2>2
  <2>4. k \in 0..k /\ f[k] \in S
    BY <2>3
  <2>5. step[m] \in [S -> S] /\ step[m][f[k]] \in S
    BY <2>1, <2>4
  <2> DEFINE g == [i \in 0..m |-> IF i = m THEN step[m][f[k]] ELSE f[i]]
  <2>6. /\ \A i \in 0..m : i # m => i \in 0..k
        /\ \A i \in 0..k : i \in 0..m /\ i # m
        /\ m \in 0..m /\ 0 \in 0..k
    BY <2>1, <2>2
  <2>7. g \in [0..m -> S]
    BY <2>5, <2>6
  <2>8. g[m] = step[m][f[k]] /\ \A i \in 0..k : g[i] = f[i]
    BY <2>6
  <2> HIDE DEF g
  <2>9. ASSUME NEW i \in 1..m PROVE g[i] = step[i][g[i - 1]]
    <3>1. CASE i = m
      <4>1. i - 1 = k
        BY <2>2, <3>1
      <4> QED
        BY <2>4, <2>8, <3>1, <4>1
    <3>2. CASE i # m
      <4>1. i \in 1..k /\ i \in 0..k /\ i - 1 \in 0..k
        BY <2>2, <3>2
      <4> QED
        BY <2>3, <2>8, <4>1
    <3> QED
      BY <3>1, <3>2
  <2>10. Folds(g, m)
    BY <2>3, <2>6, <2>8, <2>9
  <2> QED
    BY <1>2, <2>7, <2>10
<1> QED
  BY <1>3, <1>4

-----------------------------------------------------------------------------
(* A size_t holds every number up to SIZE_MAX. *)
LEMMA SizeFits == ASSUME NEW k \in Nat, k <= SizeMax PROVE Size(k) = k
BY TensorAssumption DEF Size

(* What is left of a product is a number. *)
LEMMA SizeInNat == ASSUME NEW k \in Nat, NEW r \in Nat PROVE Size(k * r) \in Nat
<1>1. k * r \in Nat /\ SizeMax + 1 \in Nat \ {0}
  BY TensorAssumption
<1> QED
  BY <1>1, Division DEF Size

(* Both products of a resolution, the one of size_t and the one without a  *)
(* limit, are the functions their recursions describe.                     *)
Reso(reso) == IsSeq(reso) /\ \A i \in DOMAIN reso : reso[i] \in Nat

LEMMA ProductsIs ==
  ASSUME NEW reso, Reso(reso)
  PROVE  /\ Products(reso) \in [0..Len(reso) -> Nat]
         /\ Products(reso)[0] = 1
         /\ \A i \in 1..Len(reso) :
              Products(reso)[i] = Products(reso)[i - 1] * reso[i]
<1> DEFINE n == Len(reso)
           Def(f) == [i \in 0..n |-> IF i = 0 THEN 1 ELSE f[i - 1] * reso[i]]
           step == [i \in 1..n |-> [m \in Nat |-> m * reso[i]]]
<1>1. n \in Nat /\ \A i \in 1..n : reso[i] \in Nat
  BY SeqFacts DEF Reso
<1>2. step \in [1..n -> [Nat -> Nat]]
  BY <1>1
<1>3. PICK f \in [0..n -> Nat] :
        f[0] = 1 /\ \A i \in 1..n : f[i] = step[i][f[i - 1]]
  <2> HIDE DEF step, n
  <2>1. PICK f \in [0..n -> Nat] : Folding(f, 1, step, n)
    BY <1>1, <1>2, FoldExists
  <2> QED
    BY <2>1 DEF Folding
<1>4. \A i \in 1..n : i - 1 \in 0..n
  BY <1>1
<1> HIDE DEF n
<1>5. \A i \in 1..n : f[i] = f[i - 1] * reso[i]
  BY <1>3, <1>4
<1>6. f = Def(f)
  <2>1. \A i \in 0..n : f[i] = Def(f)[i]
    BY <1>1, <1>3, <1>5
  <2> QED
    BY <2>1
<1>7. Products(reso) = CHOOSE g : g = Def(g)
  BY DEF Products, n
<1> DEFINE P == Products(reso)
<1>8. P = Def(P)
  BY <1>6, <1>7
<1> HIDE DEF P
<1>9. P[0] = 1 /\ \A i \in 1..n : P[i] = P[i - 1] * reso[i]
  <2>1. \A i \in 0..n : P[i] = Def(P)[i]
    BY <1>8
  <2> QED
    BY <1>1, <2>1
<1>10. \A i \in 0..n : P[i] = f[i]
  <2> DEFINE T == {i \in 0..n : P[i] # f[i]}
  <2>1. SUFFICES ASSUME T # {} PROVE FALSE
    OBVIOUS
  <2>2. PICK m \in T : \A j \in T : m <= j
    <3>1. T \subseteq Nat
      OBVIOUS
    <3> QED
      BY <2>1, <3>1, Least
  <2>3. m \in 1..n /\ m - 1 \in 0..n
    BY <1>1, <1>3, <1>9, <2>2
  <2>4. P[m - 1] = f[m - 1]
    BY <2>2, <2>3
  <2> QED
    BY <1>5, <1>9, <2>2, <2>3, <2>4
<1>11. P \in [0..n -> Nat]
  <2>1. P = [i \in 0..n |-> P[i]]
    BY <1>8
  <2>2. \A i \in 0..n : P[i] \in Nat
    BY <1>10
  <2> QED
    BY <2>1, <2>2
<1> QED
  BY <1>9, <1>11 DEF P, n

(* The same of the loop of upd_tensor_count_scalars.                       *)
LEMMA CountingIs ==
  ASSUME NEW reso, Reso(reso)
  PROVE  /\ Counting(reso) \in [0..Len(reso) -> Nat]
         /\ Counting(reso)[0] = 1
         /\ \A i \in 1..Len(reso) :
              Counting(reso)[i] = Size(Counting(reso)[i - 1] * reso[i])
<1> DEFINE n == Len(reso)
           Def(f) == [i \in 0..n |-> IF i = 0 THEN 1 ELSE Size(f[i - 1] * reso[i])]
           step == [i \in 1..n |-> [m \in Nat |-> Size(m * reso[i])]]
<1>1. n \in Nat /\ \A i \in 1..n : reso[i] \in Nat
  BY SeqFacts DEF Reso
<1>2. step \in [1..n -> [Nat -> Nat]]
  <2>1. \A m \in Nat, i \in 1..n : Size(m * reso[i]) \in Nat
    BY <1>1, SizeInNat
  <2> QED
    BY <2>1
<1>3. PICK f \in [0..n -> Nat] :
        f[0] = 1 /\ \A i \in 1..n : f[i] = step[i][f[i - 1]]
  <2> HIDE DEF step, n
  <2>1. PICK f \in [0..n -> Nat] : Folding(f, 1, step, n)
    BY <1>1, <1>2, FoldExists
  <2> QED
    BY <2>1 DEF Folding
<1>4. \A i \in 1..n : i - 1 \in 0..n
  BY <1>1
<1> HIDE DEF n
<1>5. \A i \in 1..n : f[i] = Size(f[i - 1] * reso[i])
  BY <1>3, <1>4
<1>6. f = Def(f)
  <2>1. \A i \in 0..n : f[i] = Def(f)[i]
    BY <1>1, <1>3, <1>5
  <2> QED
    BY <2>1
<1>7. Counting(reso) = CHOOSE g : g = Def(g)
  BY DEF Counting, n
<1> DEFINE C == Counting(reso)
<1>8. C = Def(C)
  BY <1>6, <1>7
<1> HIDE DEF C
<1>9. C[0] = 1 /\ \A i \in 1..n : C[i] = Size(C[i - 1] * reso[i])
  <2>1. \A i \in 0..n : C[i] = Def(C)[i]
    BY <1>8
  <2> QED
    BY <1>1, <2>1
<1>10. \A i \in 0..n : C[i] = f[i]
  <2> DEFINE T == {i \in 0..n : C[i] # f[i]}
  <2>1. SUFFICES ASSUME T # {} PROVE FALSE
    OBVIOUS
  <2>2. PICK m \in T : \A j \in T : m <= j
    <3>1. T \subseteq Nat
      OBVIOUS
    <3> QED
      BY <2>1, <3>1, Least
  <2>3. m \in 1..n /\ m - 1 \in 0..n
    BY <1>1, <1>3, <1>9, <2>2
  <2>4. C[m - 1] = f[m - 1]
    BY <2>2, <2>3
  <2> QED
    BY <1>5, <1>9, <2>2, <2>3, <2>4
<1>11. C \in [0..n -> Nat]
  <2>1. C = [i \in 0..n |-> C[i]]
    BY <1>8
  <2>2. \A i \in 0..n : C[i] \in Nat
    BY <1>10
  <2> QED
    BY <2>1, <2>2
<1> QED
  BY <1>9, <1>11 DEF C, n

-----------------------------------------------------------------------------
(* If no tensor is empty on the way, no product on the way exceeds the     *)
(* last.                                                                   *)
LEMMA Grows ==
  ASSUME NEW a \in Nat, NEW b \in Nat, a * b > 0
  PROVE  a > 0 /\ a <= a * b
<1>1. a > 0 /\ b > 0
  OBVIOUS
<1>2. PICK c \in Nat : b = c + 1
  <2>1. b - 1 \in Nat /\ b = (b - 1) + 1
    BY <1>1
  <2> QED
    BY <2>1
<1>3. a * b = a * c + a /\ a * c \in Nat
  BY <1>2
<1> QED
  BY <1>1, <1>3

LEMMA ProductsGrow ==
  ASSUME NEW reso, Reso(reso), Products(reso)[Len(reso)] > 0
  PROVE  \A i \in 0..Len(reso) :
           Products(reso)[i] \in 1..Products(reso)[Len(reso)]
<1> DEFINE n == Len(reso)
           P == Products(reso)
           T == {d \in 0..n : P[n - d] \notin 1..P[n]}
<1>1. n \in Nat /\ (\A i \in 1..n : reso[i] \in Nat) /\ P[n] > 0
  BY SeqFacts DEF Reso
<1>2. P \in [0..n -> Nat] /\ \A i \in 1..n : P[i] = P[i - 1] * reso[i]
  BY ProductsIs
<1> HIDE DEF n, P
<1>3. T = {}
  <2>1. SUFFICES ASSUME T # {} PROVE FALSE
    OBVIOUS
  <2>2. PICK d \in T : \A j \in T : d <= j
    <3>1. T \subseteq Nat
      OBVIOUS
    <3> QED
      BY <2>1, <3>1, Least
  <2>3. n \in 0..n /\ P[n] \in 1..P[n] /\ n - 0 = n
    BY <1>1, <1>2
  <2>4. d \in 0..n /\ d # 0 /\ P[n - d] \notin 1..P[n]
    BY <2>2, <2>3
  <2>5. d - 1 \in 0..n /\ ~(d <= d - 1)
    BY <1>1, <2>4
  <2>6. P[n - (d - 1)] \in 1..P[n]
    BY <2>2, <2>5
  <2>7. PICK i \in 1..n : i = n - (d - 1) /\ i - 1 = n - d
    BY <1>1, <2>4
  <2>8. i - 1 \in 0..n /\ P[i - 1] \in Nat /\ reso[i] \in Nat
    BY <1>1, <1>2, <2>7
  <2>9. P[i] \in 1..P[n] /\ P[i] = P[i - 1] * reso[i]
    BY <1>2, <2>6, <2>7
  <2>10. P[i - 1] > 0 /\ P[i - 1] <= P[i]
    BY <2>8, <2>9, Grows
  <2>11. P[n] \in Nat
    BY <1>2, <2>3
  <2>12. P[i] <= P[n] /\ P[i] \in Nat
    BY <2>9, <2>11
  <2>13. P[i - 1] \in 1..P[n]
    BY <2>8, <2>10, <2>11, <2>12
  <2> QED
    BY <2>4, <2>7, <2>13
<1>4. ASSUME NEW i \in 0..n PROVE P[i] \in 1..P[n]
  <2>1. n - i \in 0..n /\ n - (n - i) = i
    BY <1>1
  <2> QED
    BY <1>3, <2>1
<1> QED
  BY <1>4 DEF n, P

(* A tensor whose number of scalars is a size_t is counted right: nothing  *)
(* on the way wraps.                                                       *)
LEMMA CountIsProduct ==
  ASSUME NEW reso, Reso(reso),
         Products(reso)[Len(reso)] \in 1..SizeMax
  PROVE  CountScalars(reso) = Products(reso)[Len(reso)]
<1> DEFINE n == Len(reso)
           P == Products(reso)
           C == Counting(reso)
           T == {i \in 0..n : C[i] # P[i]}
<1>1. n \in Nat /\ P[n] \in 1..SizeMax /\ SizeMax \in Nat
  BY SeqFacts, TensorAssumption DEF Reso
<1>2. P[0] = 1 /\ \A i \in 1..n : P[i] = P[i - 1] * reso[i]
  BY ProductsIs
<1>3. C[0] = 1 /\ \A i \in 1..n : C[i] = Size(C[i - 1] * reso[i])
  BY CountingIs
<1>4. \A i \in 0..n : P[i] \in 1..P[n]
  BY <1>1, ProductsGrow
<1> HIDE DEF n, P, C
<1>5. T = {}
  <2>1. SUFFICES ASSUME T # {} PROVE FALSE
    OBVIOUS
  <2>2. PICK m \in T : \A j \in T : m <= j
    <3>1. T \subseteq Nat
      OBVIOUS
    <3> QED
      BY <2>1, <3>1, Least
  <2>3. m \in 0..n /\ C[m] # P[m] /\ m # 0
    BY <1>2, <1>3, <2>2
  <2>4. m \in 1..n /\ m - 1 \in 0..n /\ ~(m <= m - 1)
    BY <1>1, <2>3
  <2>5. C[m - 1] = P[m - 1]
    BY <2>2, <2>4
  <2>6. C[m] = Size(P[m])
    BY <1>2, <1>3, <2>4, <2>5
  <2>7. P[m] \in Nat /\ P[m] <= SizeMax
    BY <1>1, <1>4, <2>3
  <2>8. Size(P[m]) = P[m]
    BY <2>7, SizeFits
  <2> QED
    BY <2>3, <2>6, <2>8
<1>6. n \in 0..n
  BY <1>1
<1>7. C[n] = P[n]
  BY <1>5, <1>6
<1> QED
  BY <1>7 DEF n, P, C, CountScalars

(* Every number of a tensor is converted once, whatever its resolution, as *)
(* long as their count, rounded up to whole passes, is a size_t            *)
(* (tensor.h:41-52, 61-72, 78-87).                                         *)
THEOREM ConvertsEachHolds == Spec => []ConvertsEach
<1>1. ASSUME Returned, op = "convert",
             LET n == Products(args[1])[Len(args[1])]
             IN n > 0 /\ n + Unroll - 1 <= SizeMax
      PROVE  ret = Products(args[1])[Len(args[1])]
  <2>1. PICK reso \in Shapes : args = <<reso>> /\ ret = Converted(CountScalars(reso))
    BY <1>1 DEF Returned
  <2>2. args[1] = reso /\ Reso(reso) /\ Len(reso) \in Nat
    BY <2>1, ArgumentsAssumption, SeqFacts DEF Reso
  <2>3. Len(reso) \in 0..Len(reso)
    BY <2>2
  <2>4. PICK n \in Nat : n = Products(reso)[Len(reso)]
    BY <2>2, <2>3, ProductsIs
  <2>5. n > 0 /\ n + Unroll - 1 <= SizeMax
    BY <1>1, <2>2, <2>4
  <2>6. n \in 1..SizeMax
    BY <2>5, TensorAssumption
  <2>7. CountScalars(reso) = n
    BY <2>2, <2>4, <2>6, CountIsProduct
  <2>8. Converted(n) = n
    BY <2>5, ConvertedIsAll
  <2> QED
    BY <2>1, <2>2, <2>4, <2>7, <2>8
<1>2. Returned => ConvertsEach
  BY <1>1 DEF ConvertsEach
<1> QED
  BY <1>2, Invariance, PTL
=============================================================================
