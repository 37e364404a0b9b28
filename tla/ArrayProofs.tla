---------------------------- MODULE ArrayProofs ----------------------------
(***************************************************************************)
(* Proofs about Array, for arrays of any length and any allocator.         *)
(*                                                                         *)
(* Every operation is worked out cell by cell first (ResizeCells to        *)
(* CloseCells); the properties follow from what the cells are.             *)
(***************************************************************************)
EXTENDS Array, SequenceTheorems, WellFoundedInduction, TLAPS

Elem == Ptr \cup {NULL}
Cell == Elem \cup {Junk}

IInv == TypeOK /\ p \in Seq(Cell)

-----------------------------------------------------------------------------
(* A function on 1..k is a sequence of length k.                           *)
LEMMA FunctionIsSeq ==
  ASSUME NEW S, NEW k \in Nat, NEW f \in [1..k -> S]
  PROVE  f \in Seq(S) /\ Len(f) = k
OBVIOUS

(* The first m cells as a sequence.                                        *)
LEMMA Prefix ==
  ASSUME NEW S, NEW q, NEW m \in Nat, \A j \in 1..m : q[j] \in S
  PROVE  /\ SubSeq(q, 1, m) \in Seq(S) /\ Len(SubSeq(q, 1, m)) = m
         /\ \A j \in 1..m : SubSeq(q, 1, m)[j] = q[j]
<1>1. 1 \in Int /\ m \in Int /\ m - 1 + 1 = m /\ \A j \in 1..m : 1 + j - 1 = j
  OBVIOUS
<1>2. /\ SubSeq(q, 1, m) \in Seq(S)
      /\ Len(SubSeq(q, 1, m)) = IF 1 <= m THEN m - 1 + 1 ELSE 0
      /\ \A i \in 1..m - 1 + 1 : SubSeq(q, 1, m)[i] = q[1 + i - 1]
  BY <1>1, SubSeqProperties
<1> QED
  BY <1>1, <1>2

(* Moved, cell by cell: cnt cells from src on come to lie at dst.          *)
LEMMA MovedCells ==
  ASSUME NEW S, NEW b \in Seq(S), NEW dst \in Nat, NEW src \in Nat, NEW cnt \in Nat,
         src + cnt <= Len(b)
  PROVE  /\ Moved(b, dst, src, cnt) \in Seq(S)
         /\ Len(Moved(b, dst, src, cnt)) = Len(b)
         /\ \A j \in 1..Len(b) :
              Moved(b, dst, src, cnt)[j] =
                IF dst < j /\ j <= dst + cnt THEN b[j - dst + src] ELSE b[j]
<1>1. Len(b) \in Nat /\ DOMAIN b = 1..Len(b) /\ \A j \in 1..Len(b) : b[j] \in S
  BY LenProperties
<1>2. ASSUME NEW j \in 1..Len(b), dst < j, j <= dst + cnt
      PROVE  j - dst + src \in 1..Len(b)
  BY <1>1, <1>2
<1>3. Moved(b, dst, src, cnt) \in [1..Len(b) -> S]
  BY <1>1, <1>2 DEF Moved
<1> QED
  BY <1>1, <1>3, FunctionIsSeq DEF Moved

LEMMA ArrayFacts ==
  ASSUME IInv
  PROVE  /\ n \in Nat /\ Len(p) \in Nat /\ n <= Len(p)
         /\ p \in [1..Len(p) -> Cell] /\ DOMAIN p = 1..Len(p)
         /\ \A j \in 1..n : p[j] \in Elem
BY LenProperties, ArrayAssumption DEF IInv, TypeOK, Elem

(* The smaller of two. *)
LEMMA MinOfTwo ==
  ASSUME NEW a \in Nat, NEW b \in Nat PROVE Min({a, b}) = IF a <= b THEN a ELSE b
BY DEF Min

(* A block resized for k elements, the new ones NULL. *)
LEMMA FilledCells ==
  ASSUME NEW b \in Seq(Cell), NEW k \in Nat, n \in Nat, n <= Len(b)
  PROVE  LET new == Filled([ok |-> TRUE, block |-> Resized(b, k)], k)
         IN /\ new \in Seq(Cell) /\ Len(new) = k
            /\ \A j \in 1..k : new[j] = IF j > n THEN NULL ELSE b[j]
<1> DEFINE new == Filled([ok |-> TRUE, block |-> Resized(b, k)], k)
<1>1. Len(b) \in Nat /\ \A j \in 1..Len(b) : b[j] \in Cell
  BY LenProperties
<1>2. new = [j \in 1..k |-> IF j > n THEN NULL ELSE b[j]]
  BY <1>1 DEF Filled, Resized
<1>3. \A j \in 1..k : ~(j > n) => j \in 1..Len(b)
  BY <1>1
<1>4. \A j \in 1..k : (IF j > n THEN NULL ELSE b[j]) \in Cell
  BY <1>1, <1>3 DEF Cell, Elem
<1>5. new \in [1..k -> Cell]
  BY <1>2, <1>4
<1>6. /\ new \in Seq(Cell) /\ Len(new) = k
      /\ \A j \in 1..k : new[j] = IF j > n THEN NULL ELSE b[j]
  <2> HIDE DEF new
  <2> QED
    BY <1>2, <1>5, FunctionIsSeq
<1> QED
  BY <1>6

-----------------------------------------------------------------------------
(* What each operation leaves in the cells. *)
Same == UNCHANGED <<n, p>>

LEMMA ResizeCells ==
  ASSUME IInv, NEW k \in Nat, Resize(k)
  PROVE  \/ /\ n' = k /\ p' \in Seq(Cell) /\ Len(p') = k
            /\ \A j \in 1..k : p'[j] = IF j > n THEN NULL ELSE p[j]
            /\ last' = [op |-> "resize", ok |-> TRUE, got |-> NULL]
         \/ Same /\ last' = [op |-> "resize", ok |-> FALSE, got |-> NULL]
<1>1. PICK r \in Malloc(p, k) :
        /\ IF r.ok THEN n' = k /\ p' = Filled(r, k) ELSE UNCHANGED <<n, p>>
        /\ last' = [op |-> "resize", ok |-> r.ok, got |-> NULL]
  BY DEF Resize, Done
<1>2. r = [ok |-> TRUE, block |-> Resized(p, k)] \/ r = [ok |-> FALSE, block |-> p]
  BY DEF Malloc
<1>3. p \in Seq(Cell) /\ n \in Nat /\ n <= Len(p)
  BY ArrayFacts DEF IInv
<1>4. CASE r = [ok |-> TRUE, block |-> Resized(p, k)]
  <2>1. n' = k /\ p' = Filled(r, k)
    BY <1>1, <1>4
  <2>2. /\ p' \in Seq(Cell) /\ Len(p') = k
        /\ \A j \in 1..k : p'[j] = IF j > n THEN NULL ELSE p[j]
    BY <1>3, <1>4, <2>1, FilledCells
  <2> QED
    BY <1>1, <1>4, <2>1, <2>2
<1>5. CASE r = [ok |-> FALSE, block |-> p]
  BY <1>1, <1>5 DEF Same
<1> QED
  BY <1>2, <1>4, <1>5

LEMMA InsertCells ==
  ASSUME IInv, NEW x \in Elem, NEW at \in Nat, Insert(x, at)
  PROVE  \/ /\ n' = n + 1 /\ p' \in Seq(Cell) /\ Len(p') = n + 1 /\ n < MaxN
            /\ \E i \in 0..n : \A j \in 1..n + 1 :
                 p'[j] = IF j <= i THEN p[j] ELSE IF j = i + 1 THEN x ELSE p[j - 1]
            /\ last' = [op |-> "insert", ok |-> TRUE, got |-> NULL]
         \/ Same /\ last' = [op |-> "insert", ok |-> FALSE, got |-> NULL]
<1> DEFINE i == Min({at, n})
           new == Filled([ok |-> TRUE, block |-> Resized(p, n + 1)], n + 1)
           moved == Moved(new, i + 1, i, n - i)
<1>1. PICK r \in Malloc(p, n + 1) :
        /\ n < MaxN
        /\ IF r.ok
             THEN n' = n + 1 /\ p' = [Moved(Filled(r, n + 1), i + 1, i, n - i)
                                        EXCEPT ![i + 1] = x]
             ELSE UNCHANGED <<n, p>>
        /\ last' = [op |-> "insert", ok |-> r.ok, got |-> NULL]
  BY DEF Insert, Done
<1>2. r = [ok |-> TRUE, block |-> Resized(p, n + 1)] \/ r = [ok |-> FALSE, block |-> p]
  BY DEF Malloc
<1>3. p \in Seq(Cell) /\ n \in Nat /\ n <= Len(p)
  BY ArrayFacts DEF IInv
<1>4. i \in 0..n
  BY <1>3, MinOfTwo
<1>5. /\ new \in Seq(Cell) /\ Len(new) = n + 1
      /\ \A j \in 1..n + 1 : new[j] = IF j > n THEN NULL ELSE p[j]
  BY <1>3, FilledCells
<1> HIDE DEF i, new
<1>6. /\ moved \in Seq(Cell) /\ Len(moved) = n + 1
      /\ \A j \in 1..n + 1 : moved[j] = IF i + 1 < j THEN new[j - 1] ELSE new[j]
  <2>1. i + 1 \in Nat /\ i \in Nat /\ n - i \in Nat /\ i + (n - i) <= Len(new)
    BY <1>3, <1>4, <1>5
  <2>2. \A j \in 1..n + 1 : /\ j <= i + 1 + (n - i)
                            /\ j - (i + 1) + i = j - 1
    BY <1>3, <1>4
  <2> QED
    BY <1>5, <2>1, <2>2, MovedCells
<1> HIDE DEF moved
<1>7. CASE r = [ok |-> TRUE, block |-> Resized(p, n + 1)]
  <2>1. n' = n + 1 /\ p' = [moved EXCEPT ![i + 1] = x]
    BY <1>1, <1>7 DEF moved, new
  <2>2. i + 1 \in 1..Len(moved) /\ x \in Cell
    BY <1>3, <1>4, <1>6 DEF Cell
  <2>3. /\ p' \in Seq(Cell) /\ Len(p') = n + 1
        /\ \A j \in 1..n + 1 : p'[j] = IF j = i + 1 THEN x ELSE moved[j]
    BY <1>6, <2>1, <2>2, ExceptSeq
  <2>4. \A j \in 1..n + 1 :
          p'[j] = IF j <= i THEN p[j] ELSE IF j = i + 1 THEN x ELSE p[j - 1]
    BY <1>3, <1>4, <1>5, <1>6, <2>3
  <2> QED
    BY <1>1, <1>4, <1>7, <2>1, <2>3, <2>4
<1>8. CASE r = [ok |-> FALSE, block |-> p]
  BY <1>1, <1>8 DEF Same
<1> QED
  BY <1>2, <1>7, <1>8

LEMMA CloseCells ==
  ASSUME IInv, NEW i \in 0..n-1, Close(i)
  PROVE  /\ p' \in Seq(Cell)
         /\ \A j \in 1..n-1 : p'[j] = IF j <= i THEN p[j] ELSE p[j + 1]
         /\ \/ n' = n - 1 /\ Len(p') = n - 1
            \/ n' = n /\ Len(p') = Len(p) /\ p'[n] = p[n]
<1> DEFINE moved == Moved(p, i, i + 1, n - i - 1)
<1>1. PICK r \in Malloc(moved, n - 1) :
        IF r.ok THEN n' = n - 1 /\ p' = Filled(r, n - 1)
                ELSE p' = moved /\ UNCHANGED n
  BY DEF Close
<1>2. \/ r = [ok |-> TRUE, block |-> Resized(moved, n - 1)]
      \/ r = [ok |-> FALSE, block |-> moved]
  BY DEF Malloc
<1>3. p \in Seq(Cell) /\ n \in Nat /\ n <= Len(p) /\ Len(p) \in Nat
  BY ArrayFacts DEF IInv
<1>4. /\ moved \in Seq(Cell) /\ Len(moved) = Len(p)
      /\ \A j \in 1..n : moved[j] = IF i < j /\ j <= n - 1 THEN p[j + 1] ELSE p[j]
  <2>1. i \in Nat /\ i + 1 \in Nat /\ n - i - 1 \in Nat
          /\ (i + 1) + (n - i - 1) <= Len(p)
    BY <1>3
  <2>2. /\ moved \in Seq(Cell) /\ Len(moved) = Len(p)
        /\ \A j \in 1..Len(p) :
             moved[j] = IF i < j /\ j <= i + (n - i - 1) THEN p[j - i + (i + 1)] ELSE p[j]
    BY <1>3, <2>1, MovedCells
  <2>3. \A j \in 1..n : j \in 1..Len(p) /\ j - i + (i + 1) = j + 1
    BY <1>3
  <2>4. i + (n - i - 1) = n - 1
    BY <1>3
  <2> QED
    BY <2>2, <2>3, <2>4
<1> HIDE DEF moved
<1>5. CASE r = [ok |-> TRUE, block |-> Resized(moved, n - 1)]
  <2>1. n' = n - 1 /\ p' = Filled(r, n - 1)
    BY <1>1, <1>5
  <2>2. n - 1 \in Nat /\ n <= Len(moved)
    BY <1>3, <1>4
  <2>3. /\ p' \in Seq(Cell) /\ Len(p') = n - 1
        /\ \A j \in 1..n - 1 : p'[j] = IF j > n THEN NULL ELSE moved[j]
    BY <1>3, <1>4, <1>5, <2>1, <2>2, FilledCells
  <2>4. \A j \in 1..n - 1 : /\ j \in 1..n /\ ~(j > n)
                            /\ (i < j /\ j <= n - 1) <=> ~(j <= i)
    BY <1>3
  <2>5. \A j \in 1..n - 1 : p'[j] = moved[j]
    BY <2>3, <2>4
  <2>6. \A j \in 1..n - 1 : moved[j] = IF j <= i THEN p[j] ELSE p[j + 1]
    BY <1>4, <2>4
  <2>7. \A j \in 1..n - 1 : p'[j] = IF j <= i THEN p[j] ELSE p[j + 1]
    BY <2>5, <2>6
  <2> QED
    BY <2>1, <2>3, <2>7
<1>6. CASE r = [ok |-> FALSE, block |-> moved]
  <2>1. n' = n /\ p' = moved
    BY <1>1, <1>6
  <2>2. \A j \in 1..n - 1 : j \in 1..n /\ ((i < j /\ j <= n - 1) <=> ~(j <= i))
    BY <1>3
  <2>3. n \in 1..n /\ ~(n <= n - 1)
    BY <1>3
  <2>4. moved[n] = p[n]
    BY <1>4, <2>3
  <2>5. \A j \in 1..n - 1 : moved[j] = IF j <= i THEN p[j] ELSE p[j + 1]
    BY <1>4, <2>2
  <2>6. p' \in Seq(Cell) /\ Len(p') = Len(p) /\ p'[n] = p[n]
    BY <1>4, <2>1, <2>4
  <2>7. \A j \in 1..n - 1 : p'[j] = IF j <= i THEN p[j] ELSE p[j + 1]
    BY <2>1, <2>5
  <2> QED
    BY <2>1, <2>6, <2>7
<1> QED
  BY <1>2, <1>5, <1>6

-----------------------------------------------------------------------------
(* Every offset looked for is found within the elements. *)
LEMMA FirstFound ==
  ASSUME IInv, NEW x, Found(x) # {}
  PROVE  /\ Min(Found(x)) \in 0..n-1
         /\ p[Min(Found(x)) + 1] = x
         /\ \A j \in 0..n-1 : p[j + 1] = x => Min(Found(x)) <= j
<1>1. Found(x) \subseteq Nat
  BY ArrayFacts DEF Found
<1>2. Min(Found(x)) \in Found(x) /\ \A j \in Found(x) : Min(Found(x)) <= j
  <2>1. PICK j \in Found(x) : \A k \in Found(x) : <<k, j>> \notin OpToRel(<, Nat)
    BY <1>1, NatLessThanWellFounded, WFMin
  <2>2. ASSUME NEW k \in Found(x) PROVE j <= k
    <3>1. k < j => <<k, j>> \in OpToRel(<, Nat)
      BY <1>1 DEF OpToRel
    <3>2. j \in Nat /\ k \in Nat /\ ~(k < j)
      BY <1>1, <2>1, <3>1
    <3> QED
      BY <3>2
  <2> QED
    BY <1>1, <2>2 DEF Min
<1> QED
  BY <1>2 DEF Found

(* The two removals are Close at some offset. *)
LEMMA RemovalCloses ==
  ASSUME IInv, NEW at \in Nat, NEW x,
         Remove(at) \/ FindAndRemove(x)
  PROVE  \/ /\ Same /\ last'.ok = FALSE /\ last'.got = NULL
            /\ \/ n = 0 /\ last'.op = "remove"
               \/ Found(x) = {} /\ last'.op = "take"
         \/ \E i \in 0..n-1 :
              /\ Close(i)
              /\ last' = [op |-> "remove", ok |-> TRUE, got |-> p[i + 1]]
                  \/ (last' = [op |-> "take", ok |-> TRUE, got |-> x]
                       /\ Found(x) # {} /\ i = Min(Found(x)))
<1>1. CASE Remove(at) /\ n = 0
  BY <1>1 DEF Remove, Done, Same
<1>2. CASE Remove(at) /\ n # 0
  <2>1. Min({at, n - 1}) \in 0..n-1
    BY <1>2, ArrayFacts, MinOfTwo
  <2> QED
    BY <1>2, <2>1 DEF Remove, Done
<1>3. CASE FindAndRemove(x) /\ Found(x) = {}
  BY <1>3 DEF FindAndRemove, Done, Same
<1>4. CASE FindAndRemove(x) /\ Found(x) # {}
  BY <1>4, FirstFound DEF FindAndRemove, Done
<1> QED
  BY <1>1, <1>2, <1>3, <1>4

LEMMA Rebuilt ==
  ASSUME n' \in 0..MaxN, p' \in Seq(Cell), n' <= Len(p'),
         \A j \in 1..n' : p'[j] \in Elem,
         last'.op \in {"resize", "insert", "remove", "take"},
         last'.ok \in BOOLEAN, last'.got \in Elem
  PROVE  IInv'
BY DEF IInv, TypeOK, Elem

LEMMA ResizeKeeps ==
  ASSUME IInv, NEW k \in 0..MaxN, Resize(k) PROVE IInv'
<1>1. k \in Nat /\ NULL \in Elem /\ n \in 0..MaxN
  BY ArrayAssumption DEF Elem, IInv, TypeOK
<1>2. CASE /\ Same /\ last' = [op |-> "resize", ok |-> FALSE, got |-> NULL]
  BY <1>1, <1>2, ArrayFacts, Rebuilt DEF Same, IInv
<1>3. CASE /\ n' = k /\ p' \in Seq(Cell) /\ Len(p') = k
           /\ \A j \in 1..k : p'[j] = IF j > n THEN NULL ELSE p[j]
           /\ last' = [op |-> "resize", ok |-> TRUE, got |-> NULL]
  <2>1. \A j \in 1..k : p'[j] \in Elem
    BY <1>1, <1>3, ArrayFacts
  <2> QED
    BY <1>1, <1>3, <2>1, Rebuilt
<1> QED
  BY <1>1, <1>2, <1>3, ResizeCells

LEMMA InsertKeeps ==
  ASSUME IInv, NEW x \in Elem, NEW at \in 0..MaxN, Insert(x, at) PROVE IInv'
<1>1. at \in Nat /\ NULL \in Elem /\ n \in 0..MaxN
  BY ArrayAssumption DEF Elem, IInv, TypeOK
<1>2. CASE /\ Same /\ last' = [op |-> "insert", ok |-> FALSE, got |-> NULL]
  BY <1>1, <1>2, ArrayFacts, Rebuilt DEF Same, IInv
<1>3. CASE /\ n' = n + 1 /\ p' \in Seq(Cell) /\ Len(p') = n + 1 /\ n < MaxN
           /\ \E i \in 0..n : \A j \in 1..n + 1 :
                p'[j] = IF j <= i THEN p[j] ELSE IF j = i + 1 THEN x ELSE p[j - 1]
           /\ last' = [op |-> "insert", ok |-> TRUE, got |-> NULL]
  <2>1. PICK i \in 0..n : \A j \in 1..n + 1 :
          p'[j] = IF j <= i THEN p[j] ELSE IF j = i + 1 THEN x ELSE p[j - 1]
    BY <1>3
  <2>2. \A j \in 1..n + 1 : /\ j <= i => j \in 1..n
                            /\ ~(j <= i) /\ j # i + 1 => j - 1 \in 1..n
    BY <1>1, ArrayAssumption
  <2>3. \A j \in 1..n + 1 : p'[j] \in Elem
    BY <2>1, <2>2, ArrayFacts
  <2>4. n + 1 \in 0..MaxN
    BY <1>1, <1>3, ArrayAssumption
  <2> QED
    BY <1>1, <1>3, <2>3, <2>4, Rebuilt
<1> QED
  BY <1>1, <1>2, <1>3, InsertCells

LEMMA RemovalKeeps ==
  ASSUME IInv, NEW x \in Elem, NEW at \in 0..MaxN, Remove(at) \/ FindAndRemove(x)
  PROVE  IInv'
<1>1. at \in Nat /\ NULL \in Elem /\ n \in 0..MaxN /\ MaxN \in Nat
  BY ArrayAssumption DEF Elem, IInv, TypeOK
<1>2. CASE /\ Same /\ last'.ok = FALSE /\ last'.got = NULL
           /\ last'.op \in {"remove", "take"}
  BY <1>1, <1>2, ArrayFacts, Rebuilt DEF Same, IInv
<1>3. ASSUME NEW i \in 0..n-1, Close(i),
             last'.op \in {"remove", "take"}, last'.ok = TRUE, last'.got \in Elem
      PROVE  IInv'
  <2>1. /\ p' \in Seq(Cell)
        /\ \A j \in 1..n-1 : p'[j] = IF j <= i THEN p[j] ELSE p[j + 1]
        /\ \/ n' = n - 1 /\ Len(p') = n - 1
           \/ n' = n /\ Len(p') = Len(p) /\ p'[n] = p[n]
    BY <1>3, CloseCells
  <2>2. \A j \in 1..n-1 : j \in 1..n /\ j + 1 \in 1..n
    BY <1>1
  <2>3. \A j \in 1..n-1 : p'[j] \in Elem
    BY <2>1, <2>2, ArrayFacts
  <2>4. n \in 1..n /\ n - 1 \in 0..MaxN /\ p[n] \in Elem /\ n <= Len(p)
    BY <1>1, ArrayFacts
  <2>5. \A j \in 1..n : j # n => j \in 1..n-1
    BY <1>1
  <2>6. CASE n' = n - 1 /\ Len(p') = n - 1
    <3>1. n' \in 0..MaxN /\ n' <= Len(p')
      BY <1>1, <2>4, <2>6
    <3>2. \A j \in 1..n' : p'[j] \in Elem
      BY <2>3, <2>6
    <3> QED
      BY <1>3, <2>1, <3>1, <3>2, Rebuilt
  <2>7. CASE n' = n /\ Len(p') = Len(p) /\ p'[n] = p[n]
    <3>1. \A j \in 1..n : p'[j] \in Elem
      BY <2>3, <2>4, <2>5, <2>7
    <3>2. n' \in 0..MaxN /\ n' <= Len(p')
      BY <1>1, <2>4, <2>7
    <3> QED
      BY <1>3, <2>1, <2>7, <3>1, <3>2, Rebuilt
  <2> QED
    BY <2>1, <2>6, <2>7
<1>4. \A i \in 0..n-1 : p[i + 1] \in Elem
  BY <1>1, ArrayFacts
<1>5. CASE \E i \in 0..n-1 :
             /\ Close(i)
             /\ last' = [op |-> "remove", ok |-> TRUE, got |-> p[i + 1]]
                 \/ (last' = [op |-> "take", ok |-> TRUE, got |-> x]
                      /\ Found(x) # {} /\ i = Min(Found(x)))
  <2>1. PICK i \in 0..n-1 :
          /\ Close(i)
          /\ \/ last' = [op |-> "remove", ok |-> TRUE, got |-> p[i + 1]]
             \/ last' = [op |-> "take", ok |-> TRUE, got |-> x]
    BY <1>5
  <2>2. last'.op \in {"remove", "take"} /\ last'.ok = TRUE /\ last'.got \in Elem
    BY <1>4, <2>1
  <2> QED
    BY <1>3, <2>1, <2>2
<1> QED
  BY <1>1, <1>2, <1>5, RemovalCloses

(* The elements are pointers, in a block that holds them, after whatever   *)
(* operations (array.h:22-91).                                             *)
THEOREM Invariance == Spec => []IInv
<1>1. Init => IInv
  BY ArrayAssumption DEF Init, IInv, TypeOK
<1>2. ASSUME IInv, [Next]_vars PROVE IInv'
  <2>1. CASE UNCHANGED vars
    BY <1>2, <2>1 DEF vars, IInv, TypeOK
  <2>2. ASSUME NEW x \in Elem, NEW at \in 0..MaxN,
               Insert(x, at) \/ Remove(at) \/ FindAndRemove(x)
        PROVE  IInv'
    BY <1>2, <2>2, InsertKeeps, RemovalKeeps
  <2>3. ASSUME NEW k \in 0..MaxN, Resize(k) PROVE IInv'
    BY <1>2, <2>3, ResizeKeeps
  <2>4. NULL \in Elem /\ 0 \in 0..MaxN
    BY ArrayAssumption DEF Elem
  <2> QED
    BY <1>2, <2>1, <2>2, <2>3, <2>4 DEF Next, Elem
<1> QED
  BY <1>1, <1>2, PTL DEF Spec

(* Every cell that is an element has been written. *)
THEOREM TypeCorrect == Spec => []TypeOK
<1>1. IInv => TypeOK
  BY DEF IInv
<1> QED
  BY <1>1, Invariance, PTL

(* Removing loses no pointer but the one given back, and none at all when  *)
(* the block cannot shrink (array.h:55-91).                                *)
THEOREM NothingLostHolds == Spec => NothingLost
<1>1. ASSUME IInv, [Next]_vars, last'.op \in {"remove", "take"},
             ~UNCHANGED vars, NEW j \in 1..n, p[j] # last'.got
      PROVE  \E k \in 1..n' : p'[k] = p[j]
  <2>1. PICK x \in Elem, at \in 0..MaxN : Remove(at) \/ FindAndRemove(x)
    <3>1. (\E k \in 0..MaxN : Resize(k)) => last'.op = "resize"
      BY DEF Resize, Done
    <3>2. (\E x \in Elem, at \in 0..MaxN : Insert(x, at)) => last'.op = "insert"
      BY DEF Insert, Done
    <3>3. NULL \in Elem /\ 0 \in 0..MaxN
      BY ArrayAssumption DEF Elem
    <3> QED
      BY <1>1, <3>1, <3>2, <3>3 DEF Next, Elem
  <2>2. at \in Nat /\ n \in Nat
    BY <1>1, ArrayFacts, ArrayAssumption
  <2>3. CASE Same
    BY <2>3 DEF Same
  <2>4. CASE ~Same
    <3>1. PICK i \in 0..n-1 : Close(i) /\ last'.got = p[i + 1]
      <4>1. PICK i \in 0..n-1 :
              /\ Close(i)
              /\ last' = [op |-> "remove", ok |-> TRUE, got |-> p[i + 1]]
                  \/ (last' = [op |-> "take", ok |-> TRUE, got |-> x]
                       /\ Found(x) # {} /\ i = Min(Found(x)))
        BY <1>1, <2>1, <2>2, <2>4, RemovalCloses
      <4>2. Found(x) # {} => p[Min(Found(x)) + 1] = x
        BY <1>1, FirstFound
      <4> QED
        BY <4>1, <4>2
    <3>2. /\ \A k \in 1..n-1 : p'[k] = IF k <= i THEN p[k] ELSE p[k + 1]
          /\ n' \in {n - 1, n}
      BY <1>1, <3>1, CloseCells
    <3>3. j # i + 1
      BY <1>1, <3>1
    <3>4. CASE j <= i
      BY <2>2, <3>2, <3>4
    <3>5. CASE j > i + 1
      <4>1. j - 1 \in 1..n-1 /\ ~(j - 1 <= i) /\ j - 1 + 1 = j
        BY <2>2, <3>5
      <4>2. p'[j - 1] = p[j]
        BY <3>2, <4>1
      <4> QED
        BY <2>2, <3>2, <4>1, <4>2
    <3> QED
      BY <2>2, <3>3, <3>4, <3>5
  <2> QED
    BY <2>3, <2>4
<1>2. IInv /\ [Next]_vars
        => [last'.op \in {"remove", "take"} => Elements \ {last'.got} \subseteq Elements']_vars
  BY <1>1 DEF Elements
<1> QED
  BY <1>2, Invariance, PTL DEF Spec, NothingLost

-----------------------------------------------------------------------------
(* Two sequences, one after the other. *)
LEMMA Joined ==
  ASSUME NEW a \in Seq(Elem), NEW b \in Seq(Elem)
  PROVE  /\ a \o b \in Seq(Elem) /\ Len(a \o b) = Len(a) + Len(b)
         /\ \A j \in 1..Len(a) + Len(b) :
              (a \o b)[j] = IF j <= Len(a) THEN a[j] ELSE b[j - Len(a)]
BY ConcatProperties

(* Inserting into a sequence and removing from it, cell by cell. *)
LEMMA InsertAtCells ==
  ASSUME NEW s \in Seq(Elem), NEW x \in Elem, NEW i \in 0..Len(s)
  PROVE  LET t == List!InsertAt(s, i + 1, x)
         IN /\ t \in Seq(Elem) /\ Len(t) = Len(s) + 1
            /\ \A j \in 1..Len(s) + 1 :
                 t[j] = IF j <= i THEN s[j] ELSE IF j = i + 1 THEN x ELSE s[j - 1]
<1> DEFINE a == SubSeq(s, 1, i)
           b == SubSeq(s, i + 1, Len(s))
<1>1. Len(s) \in Nat /\ \A j \in 1..Len(s) : s[j] \in Elem
  BY LenProperties
<1>2. a \in Seq(Elem) /\ Len(a) = i /\ \A j \in 1..i : a[j] = s[j]
  BY <1>1, Prefix
<1>3. /\ b \in Seq(Elem) /\ Len(b) = Len(s) - i
      /\ \A j \in 1..Len(s) - i : b[j] = s[i + j]
  BY <1>1, SubSeqProperties
<1>4. <<x>> \in Seq(Elem) /\ Len(<<x>>) = 1 /\ <<x>>[1] = x
  OBVIOUS
<1> HIDE DEF a, b
<1>5. /\ a \o <<x>> \in Seq(Elem) /\ Len(a \o <<x>>) = i + 1
      /\ \A j \in 1..i + 1 : (a \o <<x>>)[j] = IF j <= i THEN a[j] ELSE <<x>>[j - i]
  BY <1>2, <1>4, Joined
<1>6. /\ (a \o <<x>>) \o b \in Seq(Elem)
      /\ Len((a \o <<x>>) \o b) = i + 1 + (Len(s) - i)
      /\ \A j \in 1..i + 1 + (Len(s) - i) :
           ((a \o <<x>>) \o b)[j] =
             IF j <= i + 1 THEN (a \o <<x>>)[j] ELSE b[j - (i + 1)]
  <2> DEFINE h == a \o <<x>>
  <2>1. h \in Seq(Elem) /\ Len(h) = i + 1 /\ Len(b) = Len(s) - i
    BY <1>3, <1>5
  <2> HIDE DEF h
  <2>2. /\ h \o b \in Seq(Elem) /\ Len(h \o b) = Len(h) + Len(b)
        /\ \A j \in 1..Len(h) + Len(b) :
             (h \o b)[j] = IF j <= Len(h) THEN h[j] ELSE b[j - Len(h)]
    BY <1>3, <2>1, Joined, Zenon
  <2>3. /\ h \o b \in Seq(Elem) /\ Len(h \o b) = i + 1 + (Len(s) - i)
        /\ \A j \in 1..i + 1 + (Len(s) - i) :
             (h \o b)[j] = IF j <= i + 1 THEN h[j] ELSE b[j - (i + 1)]
    BY <2>1, <2>2, Zenon
  <2> QED
    BY <2>3 DEF h
<1>7. List!InsertAt(s, i + 1, x) = (a \o <<x>>) \o b
  <2>1. (i + 1) - 1 = i
    BY <1>1
  <2>2. List!InsertAt(s, i + 1, x)
          = SubSeq(s, 1, (i + 1) - 1) \o <<x>> \o SubSeq(s, i + 1, Len(s))
    BY Zenon DEF List!InsertAt
  <2> QED
    BY <2>1, <2>2, Zenon DEF a, b
<1>8. i + 1 + (Len(s) - i) = Len(s) + 1
  BY <1>1
<1>9. ASSUME NEW j \in 1..Len(s) + 1
      PROVE  ((a \o <<x>>) \o b)[j] =
               IF j <= i THEN s[j] ELSE IF j = i + 1 THEN x ELSE s[j - 1]
  <2>1. CASE j <= i
    BY <1>1, <1>2, <1>5, <1>6, <1>8, <2>1
  <2>2. CASE j = i + 1
    BY <1>1, <1>4, <1>5, <1>6, <1>8, <2>2
  <2>3. CASE j > i + 1
    <3>1. j - (i + 1) \in 1..Len(s) - i /\ i + (j - (i + 1)) = j - 1
      BY <1>1, <2>3
    <3>2. ((a \o <<x>>) \o b)[j] = b[j - (i + 1)]
      BY <1>1, <1>6, <1>8, <2>3
    <3>3. b[j - (i + 1)] = s[j - 1]
      BY <1>3, <3>1
    <3>4. ~(j <= i) /\ j # i + 1
      BY <1>1, <2>3
    <3> QED
      BY <3>2, <3>3, <3>4, Zenon
  <2>4. j <= i \/ j = i + 1 \/ j > i + 1
    BY <1>1
  <2> QED
    BY <2>1, <2>2, <2>3, <2>4, Zenon
<1> QED
  BY <1>6, <1>7, <1>8, <1>9

LEMMA RemoveAtCells ==
  ASSUME NEW s \in Seq(Elem), NEW i \in 0..Len(s) - 1
  PROVE  LET t == List!RemoveAt(s, i + 1)
         IN /\ t \in Seq(Elem) /\ Len(t) = Len(s) - 1
            /\ \A j \in 1..Len(s) - 1 : t[j] = IF j <= i THEN s[j] ELSE s[j + 1]
<1> DEFINE a == SubSeq(s, 1, i)
           b == SubSeq(s, i + 2, Len(s))
<1>1. Len(s) \in Nat /\ \A j \in 1..Len(s) : s[j] \in Elem
  BY LenProperties
<1>2. a \in Seq(Elem) /\ Len(a) = i /\ \A j \in 1..i : a[j] = s[j]
  BY <1>1, Prefix
<1>3. /\ b \in Seq(Elem) /\ Len(b) = Len(s) - i - 1
      /\ \A j \in 1..Len(s) - i - 1 : b[j] = s[i + 1 + j]
  BY <1>1, SubSeqProperties
<1> HIDE DEF a, b
<1>4. /\ a \o b \in Seq(Elem) /\ Len(a \o b) = i + (Len(s) - i - 1)
      /\ \A j \in 1..i + (Len(s) - i - 1) :
           (a \o b)[j] = IF j <= i THEN a[j] ELSE b[j - i]
  <2>1. /\ a \o b \in Seq(Elem) /\ Len(a \o b) = Len(a) + Len(b)
        /\ \A j \in 1..Len(a) + Len(b) :
             (a \o b)[j] = IF j <= Len(a) THEN a[j] ELSE b[j - Len(a)]
    BY <1>2, <1>3, Joined, Zenon
  <2>2. Len(a) = i /\ Len(b) = Len(s) - i - 1
    BY <1>2, <1>3
  <2> QED
    BY <2>1, <2>2, Zenon
<1>5. List!RemoveAt(s, i + 1) = a \o b
  <2>1. (i + 1) - 1 = i /\ (i + 1) + 1 = i + 2
    BY <1>1
  <2>2. List!RemoveAt(s, i + 1)
          = SubSeq(s, 1, (i + 1) - 1) \o SubSeq(s, (i + 1) + 1, Len(s))
    BY Zenon DEF List!RemoveAt
  <2> QED
    BY <2>1, <2>2, Zenon DEF a, b
<1>6. i + (Len(s) - i - 1) = Len(s) - 1
  BY <1>1
<1>7. ASSUME NEW j \in 1..Len(s) - 1
      PROVE  (a \o b)[j] = IF j <= i THEN s[j] ELSE s[j + 1]
  <2>1. CASE j <= i
    BY <1>1, <1>2, <1>4, <1>6, <2>1
  <2>2. CASE j > i
    <3>1. j - i \in 1..Len(s) - i - 1 /\ i + 1 + (j - i) = j + 1
      BY <1>1, <2>2
    <3> QED
      BY <1>1, <1>3, <1>4, <1>6, <2>2, <3>1
  <2>3. j <= i \/ j > i
    BY <1>1
  <2> QED
    BY <2>1, <2>2, <2>3, Zenon
<1> QED
  BY <1>4, <1>5, <1>6, <1>7

LEMMA LeastIsMin ==
  ASSUME NEW S \in SUBSET Nat, NEW m \in S, \A k \in S : m <= k
  PROVE  Min(S) = m
<1>1. Min(S) \in S /\ \A k \in S : Min(S) <= k
  BY DEF Min
<1>2. Min(S) \in Nat /\ m \in Nat /\ Min(S) <= m /\ m <= Min(S)
  BY <1>1
<1> QED
  BY <1>2

-----------------------------------------------------------------------------
(* Each operation as a step of the list. *)
list == SubSeq(p, 1, n)

LEMMA ListCells ==
  ASSUME IInv
  PROVE  /\ list \in Seq(Elem) /\ Len(list) = n /\ n \in Nat
         /\ \A j \in 1..n : list[j] = p[j]
BY ArrayFacts, Prefix DEF list

LEMMA NextListCells ==
  ASSUME IInv'
  PROVE  /\ list' \in Seq(Elem) /\ Len(list') = n' /\ n' \in Nat
         /\ \A j \in 1..n' : list'[j] = p'[j]
<1>1. n' \in Nat /\ \A j \in 1..n' : p'[j] \in Elem
  BY ArrayAssumption DEF IInv, TypeOK, Elem
<1>2. ASSUME NEW q, NEW m \in Nat, \A j \in 1..m : q[j] \in Elem
      PROVE  /\ SubSeq(q, 1, m) \in Seq(Elem) /\ Len(SubSeq(q, 1, m)) = m
             /\ \A j \in 1..m : SubSeq(q, 1, m)[j] = q[j]
  BY <1>2, Prefix
<1> QED
  BY <1>1, <1>2 DEF list

LEMMA ResizeIsList ==
  ASSUME IInv, IInv', NEW k \in Nat, Resize(k) PROVE List!ListNext
<1>1. CASE Same /\ last' = [op |-> "resize", ok |-> FALSE, got |-> NULL]
  <2>1. list' = list
    BY <1>1 DEF Same, list
  <2> QED
    BY <1>1, <2>1 DEF list, List!ListNext, List!ListResize, List!Refuse
<1>2. CASE /\ n' = k /\ p' \in Seq(Cell) /\ Len(p') = k
           /\ \A j \in 1..k : p'[j] = IF j > n THEN NULL ELSE p[j]
           /\ last' = [op |-> "resize", ok |-> TRUE, got |-> NULL]
  <2> DEFINE new == [j \in 1..k |-> IF j <= n THEN list[j] ELSE NULL]
  <2>1. \A j \in 1..k : (IF j <= n THEN list[j] ELSE NULL) \in Elem
    BY ListCells, ArrayFacts DEF Elem
  <2>2. new \in Seq(Elem) /\ Len(new) = k
    BY <2>1, FunctionIsSeq
  <2>3. \A j \in 1..k : list'[j] = new[j]
    BY <1>2, ListCells, NextListCells
  <2>4. list' = new
    <3> HIDE DEF new
    <3> QED
      BY <1>2, <2>2, <2>3, NextListCells, SeqEqual
  <2>5. Len(list') = k /\ Len(list) = n
    BY <1>2, ListCells, NextListCells
  <2>6. list' = [j \in 1..Len(list') |-> IF j <= Len(list) THEN list[j] ELSE NULL]
    BY <2>4, <2>5, Zenon
  <2> QED
    BY <1>2, <2>6 DEF list, List!ListNext, List!ListResize
<1> QED
  BY <1>1, <1>2, ResizeCells

LEMMA InsertIsList ==
  ASSUME IInv, IInv', NEW x \in Elem, NEW at \in Nat, Insert(x, at)
  PROVE  List!ListNext
<1>1. CASE Same /\ last' = [op |-> "insert", ok |-> FALSE, got |-> NULL]
  <2>1. list' = list
    BY <1>1 DEF Same, list
  <2> QED
    BY <1>1, <2>1 DEF list, List!ListNext, List!ListInsert, List!Refuse
<1>2. ASSUME NEW i \in 0..n, n' = n + 1,
             \A j \in 1..n + 1 :
               p'[j] = IF j <= i THEN p[j] ELSE IF j = i + 1 THEN x ELSE p[j - 1],
             last' = [op |-> "insert", ok |-> TRUE, got |-> NULL]
      PROVE  List!ListNext
  <2> DEFINE new == List!InsertAt(list, i + 1, x)
  <2>1. /\ new \in Seq(Elem) /\ Len(new) = n + 1
        /\ \A j \in 1..n + 1 :
             new[j] = IF j <= i THEN list[j] ELSE IF j = i + 1 THEN x ELSE list[j - 1]
    <3>1. list \in Seq(Elem) /\ Len(list) = n /\ i \in 0..Len(list)
      BY <1>2, ListCells
    <3>2. /\ new \in Seq(Elem) /\ Len(new) = Len(list) + 1
          /\ \A j \in 1..Len(list) + 1 :
               new[j] = IF j <= i THEN list[j] ELSE IF j = i + 1 THEN x ELSE list[j - 1]
      BY <3>1, InsertAtCells
    <3> HIDE DEF new
    <3> QED
      BY <3>1, <3>2
  <2>2. \A j \in 1..n + 1 : /\ j <= i => j \in 1..n
                            /\ ~(j <= i) /\ j # i + 1 => j - 1 \in 1..n
    BY <1>2, ListCells
  <2> HIDE DEF new
  <2>3. \A j \in 1..n + 1 : list'[j] = new[j]
    BY <1>2, <2>1, <2>2, ListCells, NextListCells
  <2>4. list' = new
    BY <1>2, <2>1, <2>3, NextListCells, SeqEqual
  <2>5. i + 1 \in 1..Len(list) + 1
    BY <1>2, ListCells
  <2>6. \E y \in Ptr \cup {NULL}, l \in 1..Len(list) + 1 :
          list' = List!InsertAt(list, l, y)
    BY <2>4, <2>5 DEF new, Elem
  <2> QED
    BY <1>2, <2>6 DEF list, List!ListNext, List!ListInsert
<1> QED
  BY <1>1, <1>2, InsertCells

(* A removal that is not stuck takes one element out of the list. *)
LEMMA CloseIsRemoveAt ==
  ASSUME IInv, IInv', NEW i \in 0..n-1, Close(i), n' # n
  PROVE  /\ list' = List!RemoveAt(list, i + 1)
         /\ i + 1 \in DOMAIN list /\ list[i + 1] = p[i + 1]
<1> DEFINE new == List!RemoveAt(list, i + 1)
<1>1. /\ \A j \in 1..n-1 : p'[j] = IF j <= i THEN p[j] ELSE p[j + 1]
      /\ n' = n - 1
  BY CloseCells
<1>2. /\ new \in Seq(Elem) /\ Len(new) = n - 1
      /\ \A j \in 1..n - 1 : new[j] = IF j <= i THEN list[j] ELSE list[j + 1]
  BY ListCells, RemoveAtCells
<1> HIDE DEF new
<1>3. \A j \in 1..n - 1 : j \in 1..n /\ j + 1 \in 1..n
  BY ListCells
<1>4. \A j \in 1..n - 1 : list'[j] = new[j]
  BY <1>1, <1>2, <1>3, ListCells, NextListCells
<1>5. list' = new
  BY <1>1, <1>2, <1>4, NextListCells, SeqEqual
<1>6. i + 1 \in 1..n
  BY ListCells
<1> QED
  BY <1>5, <1>6, ListCells, LenProperties DEF new

LEMMA FirstIsSelected ==
  ASSUME IInv, NEW x, Found(x) # {}
  PROVE  /\ List!Contains(list, x)
         /\ List!RemoveFirst(list, x) = List!RemoveAt(list, Min(Found(x)) + 1)
<1> DEFINE I == {i \in 1..Len(list) : list[i] = x}
           m == Min(Found(x)) + 1
<1>1. /\ Min(Found(x)) \in 0..n-1
      /\ p[Min(Found(x)) + 1] = x
      /\ \A j \in 0..n-1 : p[j + 1] = x => Min(Found(x)) <= j
  BY FirstFound
<1>2. m \in 1..n /\ list[m] = x
  BY <1>1, ListCells
<1>3. ASSUME NEW k \in 1..n, list[k] = x PROVE m <= k
  <2>1. k - 1 \in 0..n-1 /\ (k - 1) + 1 = k
    BY ListCells
  <2>2. Min(Found(x)) <= k - 1
    BY <1>1, <1>3, <2>1, ListCells
  <2> QED
    BY <1>1, <2>2, ListCells
<1> HIDE DEF m
<1>4. I \in SUBSET Nat /\ m \in I /\ \A k \in I : m <= k
  BY <1>2, <1>3, ListCells
<1>5. Min(I) = m
  BY <1>4, LeastIsMin
<1>6. I # {} /\ \E i \in 1..Len(list) : list[i] = x
  BY <1>4
<1>7. List!SelectInSeq(list, LAMBDA v : v = x) = m
  BY <1>5, <1>6 DEF List!SelectInSeq, List!Min, Min
<1>8. List!RemoveFirst(list, x) = List!RemoveAt(list, m)
  BY <1>6, <1>7 DEF List!RemoveFirst
<1> QED
  BY <1>6, <1>8 DEF m, List!Contains

LEMMA RemovalIsList ==
  ASSUME IInv, IInv', NEW x \in Elem, NEW at \in Nat,
         Remove(at) \/ FindAndRemove(x)
  PROVE  Stuck \/ List!ListNext
<1>1. CASE /\ Same /\ last'.ok = FALSE /\ last'.got = NULL
           /\ \/ n = 0 /\ last'.op = "remove"
              \/ Found(x) = {} /\ last'.op = "take"
  <2>1. list' = list
    BY <1>1 DEF Same, list
  <2>2. CASE n = 0 /\ Remove(at)
    <3>1. list = <<>>
      BY <2>2, ListCells, EmptySeq
    <3>2. last' = [op |-> "remove", ok |-> FALSE, got |-> NULL]
      BY <2>2 DEF Remove, Done
    <3> QED
      BY <2>1, <3>1, <3>2 DEF list, List!ListNext, List!ListRemove, List!Refuse
  <2>3. CASE Found(x) = {} /\ FindAndRemove(x)
    <3>1. ASSUME NEW k \in 1..Len(list), list[k] = x PROVE FALSE
      <4>1. k - 1 \in 0..n-1 /\ (k - 1) + 1 = k
        BY ListCells
      <4>2. k - 1 \in Found(x)
        BY <3>1, <4>1, ListCells DEF Found
      <4> QED
        BY <2>3, <4>2
    <3>2. ~List!Contains(list, x)
      BY <3>1 DEF List!Contains
    <3>3. last' = [op |-> "take", ok |-> FALSE, got |-> NULL]
      BY <2>3 DEF FindAndRemove, Done
    <3> QED
      BY <2>1, <3>2, <3>3 DEF list, Elem, List!ListNext, List!ListTake, List!Refuse
  <2> QED
    BY <1>1, <2>2, <2>3 DEF Remove, FindAndRemove, Done
<1>2. ASSUME NEW i \in 0..n-1, Close(i),
             \/ last' = [op |-> "remove", ok |-> TRUE, got |-> p[i + 1]]
             \/ (last' = [op |-> "take", ok |-> TRUE, got |-> x]
                  /\ Found(x) # {} /\ i = Min(Found(x)))
      PROVE  Stuck \/ List!ListNext
  <2>1. CASE n' = n
    BY <1>2, <2>1 DEF Stuck
  <2>2. CASE n' # n
    <3>1. /\ list' = List!RemoveAt(list, i + 1)
          /\ i + 1 \in DOMAIN list /\ list[i + 1] = p[i + 1]
      BY <1>2, <2>2, CloseIsRemoveAt
    <3>2. CASE last' = [op |-> "remove", ok |-> TRUE, got |-> p[i + 1]]
      <4>1. last' = [op |-> "remove", ok |-> TRUE, got |-> list[i + 1]]
        BY <3>1, <3>2
      <4>2. \E k \in DOMAIN list :
              /\ list' = List!RemoveAt(list, k)
              /\ last' = [op |-> "remove", ok |-> TRUE, got |-> list[k]]
        BY <3>1, <4>1
      <4> QED
        BY <4>2 DEF list, List!ListNext, List!ListRemove
    <3>3. CASE /\ last' = [op |-> "take", ok |-> TRUE, got |-> x]
               /\ Found(x) # {} /\ i = Min(Found(x))
      <4>1. List!Contains(list, x) /\ list' = List!RemoveFirst(list, x)
        BY <3>1, <3>3, FirstIsSelected
      <4> QED
        BY <3>3, <4>1 DEF list, Elem, List!ListNext, List!ListTake
    <3> QED
      BY <1>2, <3>2, <3>3
  <2> QED
    BY <2>1, <2>2
<1> QED
  BY <1>1, <1>2, RemovalCloses

(* Every operation of the array is the one of a list, also those that the  *)
(* allocator refuses, but for a removal whose block cannot shrink          *)
(* (array.h:22-91).                                                        *)
THEOREM ListUnlessStuckHolds == Spec => ListUnlessStuck
<1>1. Init => List!ListInit
  <2>1. Init => SubSeq(p, 1, n) = <<>>
    BY SubSeqEmpty DEF Init
  <2> QED
    BY <2>1 DEF Init, List!ListInit
<1>2. ASSUME IInv, IInv', [Next]_vars PROVE [Stuck \/ List!ListNext]_vars
  <2>1. CASE UNCHANGED vars
    BY <2>1
  <2>2. ASSUME NEW x \in Elem, NEW at \in 0..MaxN,
               Insert(x, at) \/ Remove(at) \/ FindAndRemove(x)
        PROVE  Stuck \/ List!ListNext
    <3>1. at \in Nat
      BY ArrayAssumption
    <3> QED
      BY <1>2, <2>2, <3>1, InsertIsList, RemovalIsList
  <2>3. ASSUME NEW k \in 0..MaxN, Resize(k) PROVE List!ListNext
    <3>1. k \in Nat
      BY ArrayAssumption
    <3> QED
      BY <1>2, <2>3, <3>1, ResizeIsList
  <2>4. NULL \in Elem /\ 0 \in 0..MaxN
    BY ArrayAssumption DEF Elem
  <2> QED
    BY <1>2, <2>1, <2>2, <2>3, <2>4 DEF Next, Elem
<1> QED
  BY <1>1, <1>2, Invariance, PTL DEF Spec, ListUnlessStuck
=============================================================================
