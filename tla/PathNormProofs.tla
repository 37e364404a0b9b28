--------------------------- MODULE PathNormProofs ---------------------------
(***************************************************************************)
(* What upd_path_normalize computes, for paths of any length over the      *)
(* bytes of the model.                                                     *)
(*                                                                         *)
(* The scan goes from the end of the path to its start and the reference   *)
(* reads from the start to the end, so the invariant (Scanning) joins the  *)
(* two in the middle: left of l the path is as it was, and reading it that *)
(* far gives a stack of terms; right of it there are the terms kept, each  *)
(* with its slash; and taking "up" terms from that stack, then adding      *)
(* those kept, gives the terms of the whole path (Kept).                   *)
(*                                                                         *)
(* Facts about the functions that read and write byte by byte are          *)
(* inductions over the length of a path. Each is done by its least         *)
(* counterexample (Least), which the well-ordering of the naturals gives.  *)
(***************************************************************************)
EXTENDS PathNorm, SequenceTheorems, WellFoundedInduction, TLAPS

(* A set of naturals that is not empty has a least element: every          *)
(* induction below looks at the least counterexample.                      *)
LEMMA Least ==
  ASSUME NEW T, T \subseteq Nat, T # {}
  PROVE  \E m \in T : \A j \in T : m <= j
<1>1. PICK m \in T : \A j \in T : <<j, m>> \notin OpToRel(<, Nat)
  BY NatLessThanWellFounded, WFMin
<1>2. \A j \in T : ~(j < m)
  BY <1>1 DEF OpToRel
<1> QED
  BY <1>2

(* What Max picks out of positions.                                        *)
LEMMA Greatest ==
  ASSUME NEW n \in Nat, NEW T, T \subseteq 1..n, T # {}
  PROVE  Max(T) \in T /\ \A j \in T : j <= Max(T)
<1> DEFINE D == {d \in 0..n : n - d \in T}
<1>1. \A j \in T : j \in 1..n /\ n - j \in 0..n /\ n - (n - j) = j
  OBVIOUS
<1>2. D \subseteq Nat /\ D # {}
  <2>1. PICK j \in T : TRUE
    OBVIOUS
  <2>2. n - j \in D
    BY <1>1
  <2>3. D \subseteq Nat
    OBVIOUS
  <2> HIDE DEF D
  <2> QED
    BY <2>2, <2>3
<1>3. PICK d \in D : \A e \in D : d <= e
  BY <1>2, Least
<1>4. n - d \in T /\ \A j \in T : d <= n - j
  BY <1>1, <1>3
<1>5. \E m \in T : \A j \in T : m >= j
  <2>1. \A j \in T : n - d >= j
    BY <1>1, <1>4
  <2> QED
    BY <1>4, <2>1
<1>6. Max(T) \in T /\ \A j \in T : Max(T) >= j
  BY <1>5 DEF Max
<1> QED
  BY <1>1, <1>6

(* A fold is a function: there is one, whatever it folds.                  *)
Folding(f, first, step, n) ==
  f[0] = first /\ \A i \in 1..n : f[i] = step[i][f[i - 1]]

(* There is such a function for every first value and every step.          *)
LEMMA FoldExists ==
  ASSUME NEW S, NEW n \in Nat, NEW first \in S, NEW step \in [1..n -> [S -> S]]
  PROVE  \E f \in [0..n -> S] : Folding(f, first, step, n)
<1> USE DEF Folding
<1> DEFINE Folds(f, m) == Folding(f, first, step, m)
           T == {m \in 0..n : \A f \in [0..m -> S] : ~Folds(f, m)}
<1>1. SUFFICES ASSUME T # {} PROVE FALSE
  <2>1. n \in 0..n
    OBVIOUS
  <2> QED
    BY <2>1
<1>2. PICK m \in T : \A j \in T : m <= j
  <2>1. T \subseteq Nat
    OBVIOUS
  <2> QED
    BY <1>1, <2>1, Least
<1>3. CASE m = 0
  <2>1. [i \in 0..0 |-> first] \in [0..0 -> S]
    OBVIOUS
  <2>2. Folds([i \in 0..0 |-> first], 0)
    OBVIOUS
  <2> QED
    BY <1>2, <1>3, <2>1, <2>2
<1>4. CASE m # 0
  <2>1. m \in 1..n /\ m - 1 \in 0..n /\ m - 1 \notin T
    <3>1. m \in 0..n
      BY <1>2
    <3>2. m \in 1..n /\ m - 1 \in 0..n /\ ~(m <= m - 1)
      BY <1>4, <3>1
    <3> HIDE DEF T
    <3> QED
      BY <1>2, <3>2
  <2>2. PICK k \in 0..n : k = m - 1 /\ k \notin T
    BY <2>1
  <2>3. PICK f \in [0..k -> S] : Folds(f, k)
    BY <2>2
  <2>4. k \in 0..k /\ f[k] \in S
    BY <2>3
  <2>5. step[m] \in [S -> S] /\ step[m][f[k]] \in S
    BY <2>1, <2>4
  <2> DEFINE g == [i \in 0..m |-> IF i = m THEN step[m][f[k]] ELSE f[i]]
  <2>6. /\ \A i \in 0..m : i # m => i \in 0..k
        /\ \A i \in 0..k : i \in 0..m /\ i # m
        /\ m \in 0..m /\ 0 \in 0..k
    BY <2>1, <2>2
  <2>7. g \in [0..m -> S]
    BY <2>5, <2>6
  <2>8. g[m] = step[m][f[k]] /\ \A i \in 0..k : g[i] = f[i]
    BY <2>6
  <2> HIDE DEF g
  <2>9. ASSUME NEW i \in 1..m PROVE g[i] = step[i][g[i - 1]]
    <3>1. CASE i = m
      <4>1. i - 1 = k
        BY <2>2, <3>1
      <4> QED
        BY <2>4, <2>8, <3>1, <4>1
    <3>2. CASE i # m
      <4>1. i \in 1..k /\ i \in 0..k /\ i - 1 \in 0..k
        BY <2>2, <3>2
      <4> QED
        BY <2>3, <2>8, <4>1
    <3> QED
      BY <3>1, <3>2
  <2>10. Folds(g, m)
    BY <2>3, <2>6, <2>8, <2>9
  <2> QED
    BY <1>2, <2>7, <2>10
<1> QED
  BY <1>3, <1>4
-----------------------------------------------------------------------------
(* upd_path_drop_trailing_slash stops behind the last byte that is none.   *)
LEMMA Trailing ==
  ASSUME NEW path \in Seq(Bytes)
  PROVE  /\ DropTrailingSlash(path) \in 0..Len(path)
         /\ DropTrailingSlash(path) > 0 => path[DropTrailingSlash(path)] # "/"
         /\ \A j \in DropTrailingSlash(path) + 1..Len(path) : path[j] = "/"
<1> DEFINE I == {i \in 1..Len(path) : path[i] # "/"}
<1>1. DropTrailingSlash(path) = IF I # {} THEN Max(I) ELSE 0
  BY DEF DropTrailingSlash, SelectLastInSeq
<1>2. Len(path) \in Nat /\ I \subseteq 1..Len(path)
  OBVIOUS
<1>3. CASE I = {}
  <2>1. DropTrailingSlash(path) = 0
    BY <1>1, <1>3
  <2>2. \A j \in 1..Len(path) : path[j] = "/"
    BY <1>3
  <2> QED
    BY <1>2, <2>1, <2>2
<1>4. CASE I # {}
  <2>1. DropTrailingSlash(path) \in I /\ \A j \in I : j <= DropTrailingSlash(path)
    BY <1>1, <1>2, <1>4, Greatest
  <2> QED
    BY <1>2, <2>1
<1> QED
  BY <1>3, <1>4

(* upd_path_dirname stops behind the last slash before the last term.      *)
LEMMA DirnameIs ==
  ASSUME NEW path \in Seq(Bytes), path # <<>>, path[Len(path)] # "/"
  PROVE  /\ Dirname(path) \in 0..Len(path) - 1
         /\ Dirname(path) > 0 => path[Dirname(path)] = "/"
         /\ \A j \in Dirname(path) + 1..Len(path) : path[j] # "/"
<1> DEFINE I == {i \in 1..Len(path) : path[i] = "/"}
<1>1. Len(path) \in Nat /\ Len(path) \in 1..Len(path) /\ I \subseteq 1..Len(path)
  OBVIOUS
<1>2. DropTrailingSlash(path) = Len(path)
  <2>1. /\ DropTrailingSlash(path) \in 0..Len(path)
        /\ \A j \in DropTrailingSlash(path) + 1..Len(path) : path[j] = "/"
    BY Trailing
  <2> QED
    BY <1>1, <2>1
<1>3. Dirname(path) = IF I # {} THEN Max(I) ELSE 0
  BY <1>2 DEF Dirname, SelectLastInSubSeq
<1>4. CASE I = {}
  <2>1. Dirname(path) = 0
    BY <1>3, <1>4
  <2>2. \A j \in 1..Len(path) : path[j] # "/"
    BY <1>4
  <2> QED
    BY <1>1, <2>1, <2>2
<1>5. CASE I # {}
  <2>1. Dirname(path) \in I /\ \A j \in I : j <= Dirname(path)
    BY <1>1, <1>3, <1>5, Greatest
  <2> QED
    BY <1>1, <2>1
<1> QED
  BY <1>4, <1>5

-----------------------------------------------------------------------------
(* Written is the function its recursion describes.                        *)
LEMMA WrittenIs ==
  ASSUME NEW path \in Seq(Bytes)
  PROVE  /\ Written(path) \in [0..Len(path) -> Seq(Bytes)]
         /\ Written(path)[0] = <<>>
         /\ \A i \in 1..Len(path) : LET out == Written(path) IN
              out[i] = IF path[i] = "/" /\ out[i - 1] # <<>> /\ Last(out[i - 1]) = "/"
                         THEN out[i - 1] ELSE Append(out[i - 1], path[i])
<1> DEFINE n == Len(path)
           One(s, c) == IF c = "/" /\ s # <<>> /\ Last(s) = "/"
                          THEN s ELSE Append(s, c)
           Def(f) == [i \in 0..n |-> IF i = 0 THEN <<>>
                                     ELSE One(f[i - 1], path[i])]
           step == [i \in 1..n |-> [s \in Seq(Bytes) |-> One(s, path[i])]]
<1>1. n \in Nat /\ <<>> \in Seq(Bytes)
  OBVIOUS
<1>2. \A i \in 1..n, s \in Seq(Bytes) : One(s, path[i]) \in Seq(Bytes)
  OBVIOUS
<1>3. step \in [1..n -> [Seq(Bytes) -> Seq(Bytes)]]
  BY <1>2
<1>4. PICK f \in [0..n -> Seq(Bytes)] :
        f[0] = <<>> /\ \A i \in 1..n : f[i] = step[i][f[i - 1]]
  <2> HIDE DEF step, n
  <2>1. PICK f \in [0..n -> Seq(Bytes)] : Folding(f, <<>>, step, n)
    BY <1>1, <1>3, FoldExists
  <2> QED
    BY <2>1 DEF Folding
<1>5. \A i \in 1..n : i - 1 \in 0..n /\ f[i - 1] \in Seq(Bytes)
  <2>1. \A i \in 1..n : i - 1 \in 0..n
    BY <1>1
  <2> HIDE DEF n
  <2> QED
    BY <2>1
<1>6. \A i \in 1..n : f[i] = One(f[i - 1], path[i])
  BY <1>4, <1>5
<1> HIDE DEF One
<1>7. f = Def(f)
  <2>1. \A i \in 0..n : f[i] = Def(f)[i]
    BY <1>4, <1>6
  <2> QED
    BY <2>1
<1>8. Written(path) = CHOOSE g : g = Def(g)
  BY DEF Written, One
<1> DEFINE W == Written(path)
<1>9. W = Def(W)
  BY <1>7, <1>8
<1> HIDE DEF W
<1>10. W[0] = <<>> /\ \A i \in 1..n : W[i] = One(W[i - 1], path[i])
  <2>1. \A i \in 0..n : W[i] = Def(W)[i]
    BY <1>9
  <2> QED
    BY <1>1, <2>1
<1>11. \A i \in 0..n : W[i] = f[i]
  <2> DEFINE T == {i \in 0..n : W[i] # f[i]}
  <2>1. SUFFICES ASSUME T # {} PROVE FALSE
    OBVIOUS
  <2>2. PICK m \in T : \A j \in T : m <= j
    <3>1. T \subseteq Nat
      OBVIOUS
    <3> QED
      BY <2>1, <3>1, Least
  <2>3. m \in 1..n /\ m - 1 \in 0..n
    BY <1>4, <1>10, <2>2
  <2>4. W[m - 1] = f[m - 1]
    BY <2>2, <2>3
  <2> QED
    BY <1>6, <1>10, <2>2, <2>3, <2>4
<1>12. W \in [0..n -> Seq(Bytes)]
  <2>1. DOMAIN W = 0..n /\ W = [i \in 0..n |-> W[i]]
    BY <1>9
  <2> QED
    BY <1>11, <2>1
<1> QED
  BY <1>10, <1>12 DEF W, One

Path   == Seq(Bytes)
Stacks == Seq(Path)
States == [stack : Stacks, now : Path]

(* The bytes of "." and "..".                                              *)
LEMMA Terminals ==
  /\ Up \in Path /\ Here \in Path /\ <<>> \in Path
  /\ Up # Here /\ Up # <<>> /\ Here # <<>>
  /\ Len(Up) = 2 /\ Len(Here) = 1
  /\ \A i \in 1..2 : Up[i] # "/"
  /\ Here[1] # "/"
BY DEF Up, Here, Path, Bytes, NameBytes

(* The last element of a sequence and what comes before it.                *)
LEMMA LastAppended ==
  ASSUME NEW S, NEW s \in Seq(S), NEW e \in S
  PROVE  Last(Append(s, e)) = e /\ Front(Append(s, e)) = s
<1>1. /\ Append(s, e) \in Seq(S) /\ Len(Append(s, e)) = Len(s) + 1
      /\ Append(s, e)[Len(s) + 1] = e
      /\ \A i \in 1..Len(s) : Append(s, e)[i] = s[i]
  BY AppendProperties
<1>2. Len(s) \in Nat /\ Len(s) + 1 - 1 = Len(s)
  OBVIOUS
<1>3. PICK t : t = Append(s, e)
  OBVIOUS
<1>4. /\ t \in Seq(S) /\ Len(t) = Len(s) + 1 /\ t[Len(s) + 1] = e
      /\ \A i \in 1..Len(s) : t[i] = s[i]
  BY <1>1, <1>3
<1>5. Last(t) = e
  BY <1>4 DEF Last
<1>6. SubSeq(t, 1, Len(s)) = s
  BY <1>2, <1>4
<1>7. Front(t) = s
  BY <1>2, <1>4, <1>6 DEF Front
<1> QED
  BY <1>3, <1>5, <1>7

(* What a term does to the stack.                                          *)
LEMMA StackedIs ==
  ASSUME NEW stack \in Stacks, NEW term \in Path
  PROVE  /\ Stacked(stack, term) \in Stacks
         /\ term \in {<<>>, Here} => Stacked(stack, term) = stack
         /\ term = Up => Stacked(stack, term) =
              IF stack # <<>> /\ Last(stack) # Up THEN Front(stack)
              ELSE Append(stack, Up)
         /\ term \notin {<<>>, Here, Up} => Stacked(stack, term) = Append(stack, term)
<1>1. CASE term \in {<<>>, Here}
  <2>1. Stacked(stack, term) = stack
    <3>1. CASE term = <<>>
      BY <3>1, Terminals DEF Stacked
    <3>2. CASE term = Here
      BY <3>2, Terminals DEF Stacked
    <3> QED
      BY <1>1, <3>1, <3>2
  <2> QED
    BY <1>1, <2>1, Terminals
<1>2. CASE term \notin {<<>>, Here} /\ term = Up /\ stack # <<>> /\ Last(stack) # Up
  <2>1. Stacked(stack, term) = Front(stack)
    BY <1>2 DEF Stacked
  <2>2. Front(stack) \in Stacks
    BY <1>2 DEF Front, Stacks
  <2> QED
    BY <1>2, <2>1, <2>2
<1>3. CASE /\ term \notin {<<>>, Here}
           /\ ~(term = Up /\ stack # <<>> /\ Last(stack) # Up)
  <2>1. Stacked(stack, term) = Append(stack, term)
    BY <1>3 DEF Stacked
  <2>2. Append(stack, term) \in Stacks
    BY AppendProperties DEF Stacks
  <2> QED
    BY <1>3, <2>1, <2>2
<1> QED
  BY <1>1, <1>2, <1>3

(* What reading a byte does to the stack and to the term under way.        *)
LEMMA ReadIs ==
  ASSUME NEW at \in States, NEW c \in Bytes
  PROVE  /\ Read(at, c) \in States
         /\ c = "/" => /\ Read(at, c).stack = Stacked(at.stack, at.now)
                       /\ Read(at, c).now = <<>>
         /\ c # "/" => /\ Read(at, c).stack = at.stack
                       /\ Read(at, c).now = Append(at.now, c)
<1>1. at.stack \in Stacks /\ at.now \in Path
  BY DEF States
<1>2. Stacked(at.stack, at.now) \in Stacks /\ <<>> \in Path /\ Append(at.now, c) \in Path
  BY <1>1, StackedIs, Terminals, AppendProperties DEF Path
<1> QED
  BY <1>1, <1>2 DEF Read, States

Fresh == [stack |-> <<>>, now |-> <<>>]

(* Reading is the function its recursion describes.                        *)
LEMMA ReadingIs ==
  ASSUME NEW path \in Path
  PROVE  /\ Reading(path) \in [0..Len(path) -> States]
         /\ Reading(path)[0] = Fresh
         /\ \A i \in 1..Len(path) :
              Reading(path)[i] = Read(Reading(path)[i - 1], path[i])
<1> DEFINE n == Len(path)
           Def(f) == [i \in 0..n |-> IF i = 0 THEN [stack |-> <<>>, now |-> <<>>]
                                     ELSE Read(f[i - 1], path[i])]
           step == [i \in 1..n |-> [s \in States |-> Read(s, path[i])]]
<1>1. n \in Nat /\ Fresh \in States /\ \A i \in 1..n : path[i] \in Bytes
  BY Terminals DEF States, Fresh, Stacks, Path
<1>2. \A i \in 1..n, s \in States : Read(s, path[i]) \in States
  BY <1>1, ReadIs
<1>3. step \in [1..n -> [States -> States]]
  BY <1>2
<1>4. PICK f \in [0..n -> States] :
        f[0] = Fresh /\ \A i \in 1..n : f[i] = step[i][f[i - 1]]
  <2> HIDE DEF step, n
  <2>1. PICK f \in [0..n -> States] : Folding(f, Fresh, step, n)
    BY <1>1, <1>3, FoldExists
  <2> QED
    BY <2>1 DEF Folding
<1>5. \A i \in 1..n : i - 1 \in 0..n /\ f[i - 1] \in States
  BY <1>1, <1>4
<1>6. \A i \in 1..n : f[i] = Read(f[i - 1], path[i])
  BY <1>4, <1>5
<1>7. f = Def(f)
  <2>1. \A i \in 0..n : f[i] = Def(f)[i]
    BY <1>4, <1>6 DEF Fresh
  <2> QED
    BY <2>1
<1>8. Reading(path) = CHOOSE g : g = Def(g)
  BY DEF Reading
<1> DEFINE W == Reading(path)
<1>9. W = Def(W)
  BY <1>7, <1>8
<1> HIDE DEF W
<1>10. W[0] = Fresh /\ \A i \in 1..n : W[i] = Read(W[i - 1], path[i])
  <2>1. \A i \in 0..n : W[i] = Def(W)[i]
    BY <1>9
  <2> QED
    BY <1>1, <2>1 DEF Fresh
<1>11. \A i \in 0..n : W[i] = f[i]
  <2> DEFINE T == {i \in 0..n : W[i] # f[i]}
  <2>1. SUFFICES ASSUME T # {} PROVE FALSE
    OBVIOUS
  <2>2. PICK m \in T : \A j \in T : m <= j
    <3>1. T \subseteq Nat
      OBVIOUS
    <3> QED
      BY <2>1, <3>1, Least
  <2>3. m \in 1..n /\ m - 1 \in 0..n
    BY <1>4, <1>10, <2>2
  <2>4. W[m - 1] = f[m - 1]
    BY <2>2, <2>3
  <2> QED
    BY <1>6, <1>10, <2>2, <2>3, <2>4
<1>12. W \in [0..n -> States]
  <2>1. DOMAIN W = 0..n /\ W = [i \in 0..n |-> W[i]]
    BY <1>9
  <2> QED
    BY <1>11, <2>1
<1> QED
  BY <1>10, <1>12 DEF W

(* Two paths that begin alike are read alike as far as they do.            *)
LEMMA ReadingAgrees ==
  ASSUME NEW p \in Path, NEW q \in Path, NEW n \in Nat, n <= Len(p), n <= Len(q),
         \A i \in 1..n : p[i] = q[i]
  PROVE  \A i \in 0..n : Reading(p)[i] = Reading(q)[i]
<1> DEFINE T == {i \in 0..n : Reading(p)[i] # Reading(q)[i]}
<1>1. SUFFICES ASSUME T # {} PROVE FALSE
  OBVIOUS
<1>2. PICK m \in T : \A j \in T : m <= j
  <2>1. T \subseteq Nat
    OBVIOUS
  <2> QED
    BY <1>1, <2>1, Least
<1>3. Len(p) \in Nat /\ Len(q) \in Nat
  BY DEF Path
<1>4. m \in 1..n /\ m - 1 \in 0..n
  BY <1>2, ReadingIs
<1>5. m \in 1..Len(p) /\ m \in 1..Len(q)
  BY <1>3, <1>4
<1>6. Reading(p)[m - 1] = Reading(q)[m - 1]
  BY <1>2, <1>4
<1> QED
  BY <1>2, <1>4, <1>5, <1>6, ReadingIs

(* Over bytes that are no slashes only the term under way grows.           *)
LEMMA ReadingTerm ==
  ASSUME NEW p \in Path, NEW d \in 0..Len(p), NEW n \in d..Len(p),
         Reading(p)[d].now = <<>>, \A i \in d + 1..n : p[i] # "/"
  PROVE  /\ Reading(p)[n].stack = Reading(p)[d].stack
         /\ Reading(p)[n].now = SubSeq(p, d + 1, n)
<1> DEFINE Good(i) == /\ Reading(p)[i].stack = Reading(p)[d].stack
                      /\ Reading(p)[i].now = SubSeq(p, d + 1, i)
           T == {i \in d..n : ~Good(i)}
<1>0. Len(p) \in Nat /\ d \in Nat /\ n \in Nat /\ \A i \in 1..Len(p) : p[i] \in Bytes
  BY DEF Path
<1>1. SUFFICES ASSUME T # {} PROVE FALSE
  <2>1. n \in d..n
    BY <1>0
  <2> QED
    BY <2>1
<1>2. PICK m \in T : \A j \in T : m <= j
  <2>1. T \subseteq Nat
    BY <1>0
  <2> QED
    BY <1>1, <2>1, Least
<1>3. m # d
  <2>1. SubSeq(p, d + 1, d) = <<>>
    BY <1>0, SubSeqEmpty
  <2> QED
    BY <1>2, <2>1
<1>4. m \in d + 1..n /\ m - 1 \in d..n /\ m \in 1..Len(p) /\ ~(m <= m - 1)
  BY <1>0, <1>2, <1>3
<1>5. Good(m - 1)
  <2> HIDE DEF Good
  <2>1. m - 1 \notin T
    <3> HIDE DEF T
    <3> QED
      BY <1>2, <1>4
  <2> QED
    BY <1>4, <2>1
<1>6. Reading(p)[m - 1] \in States /\ Reading(p)[m] = Read(Reading(p)[m - 1], p[m])
  <2>1. m - 1 \in 0..Len(p)
    BY <1>0, <1>4
  <2> QED
    BY <1>4, <2>1, ReadingIs
<1>7. /\ Reading(p)[m].stack = Reading(p)[m - 1].stack
      /\ Reading(p)[m].now = Append(Reading(p)[m - 1].now, p[m])
  <2>1. PICK at \in States : at = Reading(p)[m - 1]
    BY <1>6
  <2>2. PICK c \in Bytes : c = p[m] /\ c # "/"
    BY <1>0, <1>4
  <2>3. Read(at, c).stack = at.stack /\ Read(at, c).now = Append(at.now, c)
    BY <2>2, ReadIs
  <2> QED
    BY <1>6, <2>1, <2>2, <2>3
<1>8. Append(SubSeq(p, d + 1, m - 1), p[m]) = SubSeq(p, d + 1, m)
  <2>1. d + 1 \in 1..Len(p) /\ m \in d + 1..Len(p) /\ p \in Seq(Bytes)
    BY <1>0, <1>4 DEF Path
  <2>2. SubSeq(p, d + 1, m) = SubSeq(p, d + 1, m - 1) \o <<p[m]>>
    BY <2>1, SubSeqRecursiveSecond
  <2>3. SubSeq(p, d + 1, m - 1) \in Seq(Bytes)
    <3>1. \A i \in d + 1..m - 1 : p[i] \in Bytes
      BY <1>0, <1>4
    <3> QED
      BY <1>0, <1>4, <3>1, SubSeqProperties
  <2> QED
    BY <1>0, <1>4, <2>2, <2>3, AppendIsConcat
<1> QED
  BY <1>2, <1>5, <1>7, <1>8

(* Taking out repeated slashes: what is left begins and ends as the path   *)
(* does, has no slash next to another, and reads the same.                 *)
Shorter(path, out, i) ==
  /\ Len(out[i]) \in 1..i
  /\ out[i][1] = path[1]
  /\ Last(out[i]) = path[i]
  /\ \A j \in 1..Len(out[i]) - 1 : out[i][j] # "/" \/ out[i][j + 1] # "/"
  /\ Reading(out[i])[Len(out[i])] = Reading(path)[i]

(* Last is the element at the end.                                         *)
LEMMA LastIs ==
  ASSUME NEW S, NEW s \in Seq(S), s # <<>>
  PROVE  Last(s) = s[Len(s)] /\ Len(s) \in Nat \ {0} /\ Last(s) \in S
<1>1. Len(s) \in Nat /\ Len(s) # 0
  OBVIOUS
<1> QED
  BY <1>1 DEF Last

(* One more byte is read.                                                  *)
LEMMA ReadingMore ==
  ASSUME NEW p \in Path, NEW c \in Bytes
  PROVE  /\ Append(p, c) \in Path /\ Len(Append(p, c)) = Len(p) + 1
         /\ \A i \in 0..Len(p) : Reading(Append(p, c))[i] = Reading(p)[i]
         /\ Reading(Append(p, c))[Len(p) + 1] = Read(Reading(p)[Len(p)], c)
<1> DEFINE q == Append(p, c)
           n == Len(p)
<1>1. /\ q \in Path /\ Len(q) = n + 1 /\ n \in Nat /\ q[n + 1] = c
      /\ \A i \in 1..n : q[i] = p[i]
  BY AppendProperties DEF Path
<1> HIDE DEF q
<1>2. \A i \in 0..n : Reading(q)[i] = Reading(p)[i]
  <2>1. n <= Len(q) /\ n <= Len(p) /\ \A i \in 1..n : q[i] = p[i]
    BY <1>1
  <2> QED
    BY <1>1, <2>1, ReadingAgrees
<1>3. Reading(q)[n + 1] = Read(Reading(q)[n], c)
  <2>1. n + 1 \in 1..Len(q) /\ n + 1 - 1 = n
    BY <1>1
  <2> QED
    BY <1>1, <2>1, ReadingIs
<1>4. n \in 0..n
  BY <1>1
<1> QED
  BY <1>1, <1>2, <1>3, <1>4 DEF q

(* A slash after a slash changes nothing.                                  *)
LEMMA ReadSlashes ==
  ASSUME NEW at \in States, at.now = <<>>
  PROVE  Read(at, "/") = at
<1>1. at.stack \in Stacks /\ at.now \in Path /\ at = [stack |-> at.stack, now |-> at.now]
  BY DEF States
<1>2. Stacked(at.stack, at.now) = at.stack
  BY <1>1, StackedIs
<1>3. Read(at, "/") = [stack |-> at.stack, now |-> <<>>]
  BY <1>2 DEF Read
<1> QED
  BY <1>1, <1>3

(* Behind a slash no term is under way.                                    *)
LEMMA AfterSlash ==
  ASSUME NEW p \in Path, NEW i \in 1..Len(p), p[i] = "/"
  PROVE  Reading(p)[i].now = <<>>
<1>1. i - 1 \in 0..Len(p) /\ "/" \in Bytes
  BY DEF Path, Bytes
<1>2. Reading(p)[i - 1] \in States /\ Reading(p)[i] = Read(Reading(p)[i - 1], "/")
  BY <1>1, ReadingIs
<1> QED
  BY <1>1, <1>2, ReadIs

(* All of that holds after every byte that is read.                        *)
LEMMA DedupIs ==
  ASSUME NEW path \in Path, path # <<>>
  PROVE  \A i \in 1..Len(path) : Shorter(path, Written(path), i)
<1> DEFINE n == Len(path)
           out == Written(path)
           T == {i \in 1..n : ~Shorter(path, out, i)}
<1>1. n \in Nat /\ \A i \in 1..n : path[i] \in Bytes
  BY DEF Path
<1>2. /\ out \in [0..n -> Path] /\ out[0] = <<>>
      /\ \A i \in 1..n :
           out[i] = IF path[i] = "/" /\ out[i - 1] # <<>> /\ Last(out[i - 1]) = "/"
                      THEN out[i - 1] ELSE Append(out[i - 1], path[i])
  BY WrittenIs DEF Path
<1> HIDE DEF out
<1>3. SUFFICES ASSUME T # {} PROVE FALSE
  BY DEF out
<1>4. PICK m \in T : \A j \in T : m <= j
  <2>1. T \subseteq Nat
    BY <1>1
  <2> QED
    BY <1>3, <2>1, Least
<1>5. m \in 1..n /\ ~Shorter(path, out, m)
  BY <1>4
<1>6. m - 1 \in 0..n /\ m - 1 \notin T
  <2>1. m - 1 \in 0..n /\ ~(m <= m - 1)
    BY <1>1, <1>5
  <2> HIDE DEF T
  <2> QED
    BY <1>4, <2>1
<1> HIDE DEF T
<1>7. PICK s \in Path : s = out[m - 1]
  BY <1>2, <1>6
<1>8. PICK c \in Bytes : c = path[m]
  BY <1>1, <1>5
<1>9. CASE m = 1
  <2>1. s = <<>>
    BY <1>2, <1>7, <1>9
  <2>2. out[1] = <<c>>
    <3>1. out[m] = Append(s, c)
      BY <1>2, <1>5, <1>7, <1>8, <2>1
    <3>2. Append(s, c) = <<c>>
      BY <2>1
    <3> QED
      BY <1>9, <3>1, <3>2
  <2>3. /\ Reading(Append(s, c))[1] = Read(Reading(s)[0], c)
        /\ Reading(path)[1] = Read(Reading(path)[0], c)
    <3>1. Len(s) = 0 /\ 0 + 1 = 1
      BY <2>1
    <3>2. Reading(Append(s, c))[1] = Read(Reading(s)[0], c)
      <4>1. Reading(Append(s, c))[Len(s) + 1] = Read(Reading(s)[Len(s)], c)
        BY ReadingMore
      <4> QED
        BY <3>1, <4>1
    <3>3. 1 \in 1..n /\ 1 - 1 = 0
      BY <1>5, <1>9
    <3>4. Reading(path)[1] = Read(Reading(path)[0], c)
      BY <1>8, <1>9, <3>3, ReadingIs
    <3> QED
      BY <3>2, <3>4
  <2>4. Reading(s)[0] = Fresh /\ Reading(path)[0] = Fresh
    BY ReadingIs
  <2>5. Append(s, c) = <<c>>
    BY <2>1
  <2>6. Reading(<<c>>)[1] = Reading(path)[1]
    BY <2>3, <2>4, <2>5
  <2>7. Len(<<c>>) = 1 /\ <<c>>[1] = c /\ Last(<<c>>) = c
    BY DEF Last
  <2>8. PICK t : t = out[1]
    OBVIOUS
  <2>9. Len(t) = 1 /\ t[1] = c /\ Last(t) = c /\ Reading(t)[1] = Reading(path)[1]
    BY <2>2, <2>6, <2>7, <2>8
  <2>10. Shorter(path, out, 1)
    BY <1>8, <1>9, <2>8, <2>9 DEF Shorter
  <2> QED
    BY <1>5, <1>9, <2>10
<1>10. CASE m # 1
  <2>1. m - 1 \in 1..n /\ Shorter(path, out, m - 1)
    BY <1>1, <1>5, <1>6, <1>10 DEF T
  <2>2. /\ Len(s) \in 1..m - 1 /\ s[1] = path[1] /\ Last(s) = path[m - 1]
        /\ \A j \in 1..Len(s) - 1 : s[j] # "/" \/ s[j + 1] # "/"
        /\ Reading(s)[Len(s)] = Reading(path)[m - 1]
    BY <1>7, <2>1 DEF Shorter
  <2>3. Reading(path)[m] = Read(Reading(path)[m - 1], c)
    BY <1>5, <1>8, ReadingIs
  <2>4. s # <<>> /\ Last(s) = s[Len(s)]
    BY <2>2, LastIs DEF Path
  <2>5. CASE c = "/" /\ Last(s) = "/"
    <3>1. out[m] = s
      BY <1>2, <1>5, <1>7, <1>8, <2>4, <2>5
    <3>2. Reading(path)[m - 1] \in States
      BY <1>6, ReadingIs
    <3>3. Reading(path)[m - 1].now = <<>>
      BY <2>1, <2>2, <2>5, AfterSlash
    <3>4. Reading(path)[m] = Reading(path)[m - 1]
      BY <2>3, <2>5, <3>2, <3>3, ReadSlashes
    <3>5. Len(s) \in 1..m
      BY <1>5, <2>2
    <3> QED
      BY <1>5, <1>8, <2>2, <2>5, <3>1, <3>4, <3>5 DEF Shorter
  <2>6. CASE ~(c = "/" /\ Last(s) = "/")
    <3>1. out[m] = Append(s, c)
      BY <1>2, <1>5, <1>7, <1>8, <2>4, <2>6
    <3>2. PICK t \in Path : t = Append(s, c)
      BY ReadingMore
    <3>3. /\ Len(t) = Len(s) + 1 /\ t[Len(s) + 1] = c
          /\ \A i \in 1..Len(s) : t[i] = s[i]
      BY <3>2, AppendProperties DEF Path
    <3>4. Last(t) = c
      BY <3>2, LastAppended DEF Path
    <3>5. Reading(t)[Len(t)] = Reading(path)[m]
      <4>1. Reading(t)[Len(s) + 1] = Read(Reading(s)[Len(s)], c)
        BY <3>2, ReadingMore
      <4> QED
        BY <2>2, <2>3, <3>3, <4>1
    <3>6. Len(t) \in 1..m /\ t[1] = path[1]
      BY <1>5, <2>2, <3>3
    <3>7. ASSUME NEW j \in 1..Len(t) - 1 PROVE t[j] # "/" \/ t[j + 1] # "/"
      <4>1. CASE j = Len(s)
        BY <2>2, <2>4, <2>6, <3>3, <4>1
      <4>2. CASE j # Len(s)
        <5>1. j \in 1..Len(s) - 1 /\ j \in 1..Len(s) /\ j + 1 \in 1..Len(s)
          BY <2>2, <3>3, <4>2
        <5> QED
          BY <2>2, <3>3, <5>1
      <4> QED
        BY <4>1, <4>2
    <3>8. out[m] = t
      BY <3>1, <3>2
    <3>9. Shorter(path, out, m)
      BY <1>8, <3>4, <3>5, <3>6, <3>7, <3>8 DEF Shorter
    <3> QED
      BY <1>5, <3>9
  <2> QED
    BY <2>5, <2>6
<1> QED
  BY <1>9, <1>10

(* What Slashed builds up, term by term.                                   *)
Ended(term) == term \o <<"/">>
Built(terms, f) ==
  /\ f[0] = <<>>
  /\ \A i \in 1..Len(terms) : f[i] = f[i - 1] \o Ended(terms[i])

(* A term and its slash.                                                   *)
LEMMA EndedIs ==
  ASSUME NEW t \in Path
  PROVE  /\ Ended(t) \in Path /\ Len(Ended(t)) = Len(t) + 1
         /\ \A i \in 1..Len(t) : Ended(t)[i] = t[i]
         /\ Ended(t)[Len(t) + 1] = "/"
<1>1. "/" \in Bytes /\ t \in Seq(Bytes) /\ Ended(t) = Append(t, "/")
  BY AppendIsConcat DEF Path, Bytes, Ended
<1> QED
  BY <1>1, AppendProperties DEF Path

(* What is built is built in one way only.                                 *)
LEMMA BuiltOnce ==
  ASSUME NEW terms \in Stacks,
         NEW f \in [0..Len(terms) -> Path], NEW g \in [0..Len(terms) -> Path],
         Built(terms, f), Built(terms, g)
  PROVE  \A i \in 0..Len(terms) : f[i] = g[i]
<1> DEFINE T == {i \in 0..Len(terms) : f[i] # g[i]}
<1>1. SUFFICES ASSUME T # {} PROVE FALSE
  OBVIOUS
<1>2. PICK m \in T : \A j \in T : m <= j
  <2>1. T \subseteq Nat
    BY DEF Stacks
  <2> QED
    BY <1>1, <2>1, Least
<1>3. m \in 1..Len(terms) /\ m - 1 \in 0..Len(terms) /\ ~(m <= m - 1)
  BY <1>2 DEF Built, Stacks
<1>4. f[m - 1] = g[m - 1]
  BY <1>2, <1>3
<1> QED
  BY <1>2, <1>3, <1>4 DEF Built

(* It can be built for any terms.                                          *)
LEMMA BuiltExists ==
  ASSUME NEW terms \in Stacks
  PROVE  \E f \in [0..Len(terms) -> Path] : Built(terms, f)
<1> DEFINE n == Len(terms)
           step == [i \in 1..n |-> [s \in Path |-> s \o Ended(terms[i])]]
<1>1. n \in Nat /\ <<>> \in Path /\ \A i \in 1..n : terms[i] \in Path
  BY Terminals DEF Stacks
<1>2. \A i \in 1..n, s \in Path : s \o Ended(terms[i]) \in Path
  BY <1>1, EndedIs, ConcatProperties DEF Path
<1>3. step \in [1..n -> [Path -> Path]]
  BY <1>2
<1>4. PICK f \in [0..n -> Path] : Folding(f, <<>>, step, n)
  <2> HIDE DEF step, n
  <2> QED
    BY <1>1, <1>3, FoldExists
<1>5. f[0] = <<>> /\ \A i \in 1..n : f[i] = step[i][f[i - 1]]
  BY <1>4 DEF Folding
<1>6. \A i \in 1..n : f[i - 1] \in Path
  BY <1>1
<1>7. \A i \in 1..n : f[i] = f[i - 1] \o Ended(terms[i])
  BY <1>5, <1>6
<1> QED
  BY <1>5, <1>7 DEF Built

(* FlattenSeq gives the last of what is built.                             *)
LEMMA SlashedIs ==
  ASSUME NEW terms \in Stacks, NEW f \in [0..Len(terms) -> Path], Built(terms, f)
  PROVE  Slashed(terms) = f[Len(terms)]
<1> DEFINE n == Len(terms)
           seqs == [i \in DOMAIN terms |-> terms[i] \o <<"/">>]
           Def(h) == [i \in 1..Len(seqs) |-> IF i = 1 THEN seqs[i]
                                             ELSE h[i - 1] \o seqs[i]]
           h == [i \in 1..n |-> f[i]]
<1>1. n \in Nat /\ DOMAIN terms = 1..n /\ \A i \in 1..n : terms[i] \in Path
  BY DEF Stacks
<1>2. seqs = [i \in 1..n |-> Ended(terms[i])]
  BY <1>1 DEF Ended
<1>3. seqs \in Seq(Path) /\ Len(seqs) = n /\ \A i \in 1..n : seqs[i] = Ended(terms[i])
  <2>1. \A i \in 1..n : Ended(terms[i]) \in Path
    BY <1>1, EndedIs
  <2>2. seqs \in [1..n -> Path]
    BY <1>2, <2>1
  <2> QED
    BY <1>1, <1>2, <2>2
<1>4. Slashed(terms) = FlattenSeq(seqs)
  BY DEF Slashed
<1> HIDE DEF seqs
<1>5. CASE n = 0
  <2>1. seqs = <<>>
    BY <1>3, <1>5
  <2>2. FlattenSeq(seqs) = <<>>
    BY <1>3, <1>5, <2>1 DEF FlattenSeq
  <2> QED
    BY <1>4, <1>5, <2>2 DEF Built
<1>6. CASE n # 0
  <2>1. /\ f[1] = seqs[1]
        /\ \A i \in 1..n : i # 1 => f[i] = f[i - 1] \o seqs[i]
    <3>1. 1 \in 1..n /\ 1 - 1 = 0
      BY <1>1, <1>6
    <3>2. f[1] = <<>> \o Ended(terms[1])
      BY <3>1 DEF Built
    <3>3. Ended(terms[1]) \in Seq(Bytes)
      BY <1>1, <3>1, EndedIs DEF Path
    <3>4. f[1] = Ended(terms[1])
      BY <3>2, <3>3, ConcatEmptySeq
    <3> QED
      BY <1>3, <3>1, <3>4 DEF Built
  <2>2. h = Def(h)
    <3>1. \A i \in 1..n : i # 1 => i - 1 \in 1..n
      BY <1>1
    <3>2. \A i \in 1..n : h[i] = IF i = 1 THEN seqs[i] ELSE h[i - 1] \o seqs[i]
      BY <2>1, <3>1
    <3>3. DOMAIN h = 1..Len(seqs) /\ h = [i \in 1..Len(seqs) |-> h[i]]
      BY <1>3
    <3> HIDE DEF h
    <3> QED
      BY <1>3, <3>2, <3>3
  <2> DEFINE W == CHOOSE g : g = Def(g)
  <2>3. FlattenSeq(seqs) = W[Len(seqs)]
    BY <1>3, <1>6 DEF FlattenSeq
  <2>4. W = Def(W)
    BY <2>2
  <2> HIDE DEF W
  <2>5. \A i \in 1..n : W[i] = IF i = 1 THEN seqs[i] ELSE W[i - 1] \o seqs[i]
    <3>1. \A i \in 1..n : W[i] = Def(W)[i]
      BY <2>4
    <3> QED
      BY <1>3, <3>1
  <2>6. \A i \in 1..n : W[i] = f[i]
    <3> DEFINE T == {i \in 1..n : W[i] # f[i]}
    <3>1. SUFFICES ASSUME T # {} PROVE FALSE
      OBVIOUS
    <3>2. PICK m \in T : \A j \in T : m <= j
      <4>1. T \subseteq Nat
        BY <1>1
      <4> QED
        BY <3>1, <4>1, Least
    <3>3. m \in 1..n /\ m # 1
      BY <2>1, <2>5, <3>2
    <3>4. m - 1 \in 1..n /\ ~(m <= m - 1)
      BY <1>1, <3>3
    <3>5. W[m - 1] = f[m - 1]
      BY <3>2, <3>4
    <3>6. W[m] = W[m - 1] \o seqs[m] /\ f[m] = f[m - 1] \o seqs[m]
      BY <2>1, <2>5, <3>3
    <3> QED
      BY <3>2, <3>5, <3>6
  <2>7. n \in 1..n
    BY <1>1, <1>6
  <2> QED
    BY <1>3, <1>4, <2>3, <2>6, <2>7
<1> QED
  BY <1>5, <1>6

(* Terms with a slash after each end in a slash, if there are any.         *)
LEMMA SlashedPath ==
  ASSUME NEW terms \in Stacks
  PROVE  /\ Slashed(terms) \in Path
         /\ terms = <<>> => Slashed(terms) = <<>>
         /\ terms # <<>> => /\ Slashed(terms) # <<>>
                            /\ Slashed(terms)[Len(Slashed(terms))] = "/"
<1> DEFINE n == Len(terms)
<1>1. n \in Nat /\ n \in 0..n /\ \A i \in 1..n : terms[i] \in Path
  BY DEF Stacks
<1>2. PICK f \in [0..n -> Path] : Built(terms, f)
  BY BuiltExists
<1>3. Slashed(terms) = f[n]
  BY <1>2, SlashedIs
<1>4. CASE n = 0
  BY <1>1, <1>2, <1>3, <1>4 DEF Built, Stacks
<1>5. CASE n # 0
  <2>1. n \in 1..n /\ n - 1 \in 0..n
    BY <1>1, <1>5
  <2>2. f[n] = f[n - 1] \o Ended(terms[n]) /\ f[n - 1] \in Path /\ terms[n] \in Path
    BY <1>1, <1>2, <2>1 DEF Built
  <2>3. PICK a \in Path : a = f[n - 1]
    BY <2>2
  <2>4. PICK b \in Path : b = Ended(terms[n])
    BY <2>2, EndedIs
  <2>5. Len(b) = Len(terms[n]) + 1 /\ b[Len(terms[n]) + 1] = "/" /\ Len(terms[n]) \in Nat
    <3>1. PICK t \in Path : t = terms[n]
      BY <2>2
    <3>2. Len(t) \in Nat
      BY DEF Path
    <3>3. Len(Ended(t)) = Len(t) + 1 /\ Ended(t)[Len(t) + 1] = "/"
      BY EndedIs
    <3> QED
      BY <2>4, <3>1, <3>2, <3>3
  <2>6. /\ a \o b \in Path /\ Len(a \o b) = Len(a) + Len(b) /\ Len(a) \in Nat
        /\ \A i \in 1..Len(a) + Len(b) : (a \o b)[i] =
             IF i <= Len(a) THEN a[i] ELSE b[i - Len(a)]
    BY ConcatProperties DEF Path
  <2>7. (a \o b)[Len(a) + Len(b)] = b[Len(b)]
    BY <2>5, <2>6
  <2>8. PICK s \in Path : s = a \o b
    BY <2>6
  <2>9. s # <<>> /\ s[Len(s)] = "/"
    BY <2>5, <2>6, <2>7, <2>8
  <2>10. terms # <<>>
    BY <1>5
  <2> QED
    BY <1>3, <2>2, <2>3, <2>4, <2>8, <2>9, <2>10
<1> QED
  BY <1>4, <1>5

(* Concatenation of paths is associative.                                  *)
LEMMA Regroup ==
  ASSUME NEW x \in Path, NEW y \in Path, NEW z \in Path
  PROVE  x \o (y \o z) = (x \o y) \o z
<1>1. x \in Seq(Bytes) /\ y \in Seq(Bytes) /\ z \in Seq(Bytes)
  BY DEF Path
<1>2. (x \o y) \o z = x \o (y \o z)
  BY <1>1, ConcatAssociative
<1> QED
  BY <1>2, Zenon

(* Slashed distributes over concatenation: the terms of the first sequence *)
(* come out in front of those of the second.                               *)
LEMMA SlashedConcat ==
  ASSUME NEW A \in Stacks, NEW B \in Stacks
  PROVE  A \o B \in Stacks /\ Slashed(A \o B) = Slashed(A) \o Slashed(B)
<1> DEFINE a == Len(A)
           b == Len(B)
           C == A \o B
<1>1. /\ C \in Stacks /\ Len(C) = a + b /\ a \in Nat /\ b \in Nat
      /\ \A i \in 1..a : C[i] = A[i] /\ A[i] \in Path
      /\ \A i \in 1..b : C[a + i] = B[i] /\ B[i] \in Path
  <2>1. /\ C \in Stacks /\ Len(C) = a + b /\ a \in Nat /\ b \in Nat
        /\ \A i \in 1..a + b : C[i] = IF i <= a THEN A[i] ELSE B[i - a]
    BY ConcatProperties DEF Stacks
  <2>2. \A i \in 1..a : i \in 1..a + b /\ i <= a
    BY <2>1
  <2>3. \A i \in 1..b : a + i \in 1..a + b /\ ~(a + i <= a) /\ a + i - a = i
    BY <2>1
  <2>4. (\A i \in 1..a : A[i] \in Path) /\ \A i \in 1..b : B[i] \in Path
    BY DEF Stacks
  <2> QED
    BY <2>1, <2>2, <2>3, <2>4
<1>2. PICK f \in [0..a -> Path] : Built(A, f)
  BY BuiltExists
<1>3. PICK g \in [0..b -> Path] : Built(B, g)
  BY BuiltExists
<1> HIDE DEF C
<1> DEFINE h == [i \in 0..a + b |-> IF i <= a THEN f[i] ELSE f[a] \o g[i - a]]
<1>4. f[a] \in Path /\ g[b] \in Path /\ a \in 0..a /\ b \in 0..b
  BY <1>1
<1>5. \A i \in 0..b : g[i] \in Path /\ f[a] \o g[i] \in Path
  BY <1>4, ConcatProperties DEF Path
<1>6. (\A i \in 0..a : h[i] = f[i]) /\ \A i \in 0..b : h[a + i] = f[a] \o g[i]
  <2>1. \A i \in 0..a : i \in 0..a + b /\ i <= a
    BY <1>1
  <2>2. \A i \in 1..b : a + i \in 0..a + b /\ ~(a + i <= a) /\ a + i - a = i
    BY <1>1
  <2>3. h[a + 0] = f[a] \o g[0]
    <3>1. g[0] = <<>> /\ f[a] \o <<>> = f[a] /\ a + 0 = a
      BY <1>1, <1>3, <1>4, ConcatEmptySeq DEF Built, Path
    <3> QED
      BY <1>4, <2>1, <3>1
  <2>4. \A i \in 1..b : h[a + i] = f[a] \o g[i]
    <3>1. ASSUME NEW i \in 1..b PROVE h[a + i] = f[a] \o g[i]
      <4>1. PICK k \in 0..a + b : k = a + i /\ ~(k <= a) /\ k - a = i
        BY <2>2
      <4>2. h[k] = f[a] \o g[k - a]
        BY <4>1
      <4> HIDE DEF h
      <4> QED
        BY <4>1, <4>2
    <3> QED
      BY <3>1
  <2>5. \A i \in 0..b : i = 0 \/ i \in 1..b
    BY <1>1
  <2> HIDE DEF h
  <2>6. ASSUME NEW i \in 0..b PROVE h[a + i] = f[a] \o g[i]
    BY <2>3, <2>4, <2>5
  <2>7. \A i \in 0..a : h[i] = f[i]
    BY <2>1 DEF h
  <2> QED
    BY <2>6, <2>7
<1>7. h \in [0..a + b -> Path]
  <2>1. \A i \in 0..a + b : i \in 0..a \/ \E k \in 0..b : i = a + k
    <3>1. ASSUME NEW i \in 0..a + b, i \notin 0..a PROVE i - a \in 0..b /\ i = a + (i - a)
      BY <1>1, <3>1
    <3> QED
      BY <3>1
  <2>2. \A i \in 0..a : f[i] \in Path
    OBVIOUS
  <2>3. DOMAIN h = 0..a + b /\ h = [i \in 0..a + b |-> h[i]]
    OBVIOUS
  <2> HIDE DEF h
  <2>4. \A i \in 0..a + b : h[i] \in Path
    BY <1>5, <1>6, <2>1, <2>2
  <2> QED
    BY <2>3, <2>4
<1> HIDE DEF h
<1>8. ASSUME NEW i \in 1..a PROVE h[i] = h[i - 1] \o Ended(C[i])
  <2>1. i \in 0..a /\ i - 1 \in 0..a
    BY <1>1
  <2> QED
    BY <1>1, <1>2, <1>6, <2>1 DEF Built
<1>9. ASSUME NEW i \in 1..b PROVE h[a + i] = h[a + i - 1] \o Ended(C[a + i])
  <2>1. i \in 0..b /\ i - 1 \in 0..b /\ a + i - 1 = a + (i - 1)
    BY <1>1
  <2>2. g[i] = g[i - 1] \o Ended(B[i]) /\ C[a + i] = B[i]
    BY <1>1, <1>3 DEF Built
  <2>3. h[a + i] = f[a] \o (g[i - 1] \o Ended(B[i]))
    BY <1>6, <2>1, <2>2
  <2>4. f[a] \in Path /\ g[i - 1] \in Path /\ Ended(B[i]) \in Path
    BY <1>1, <1>4, <1>5, <2>1, EndedIs
  <2>5. h[a + i] = (f[a] \o g[i - 1]) \o Ended(B[i])
    BY <2>3, <2>4, Regroup
  <2> QED
    BY <1>6, <2>1, <2>2, <2>5
<1>10. Built(C, h)
  <2>1. h[0] = <<>>
    <3>1. 0 \in 0..a
      BY <1>1
    <3> QED
      BY <1>2, <1>6, <3>1 DEF Built
  <2>2. ASSUME NEW i \in 1..a + b PROVE h[i] = h[i - 1] \o Ended(C[i])
    <3>1. CASE i \in 1..a
      BY <1>8, <3>1
    <3>2. CASE i \notin 1..a
      <4>1. i - a \in 1..b /\ a + (i - a) = i
        BY <1>1, <3>2
      <4>2. PICK k \in 1..b : i = a + k
        BY <4>1
      <4> QED
        BY <1>9, <4>2
    <3> QED
      BY <3>1, <3>2
  <2> QED
    BY <1>1, <2>1, <2>2 DEF Built
<1>11. Slashed(C) = h[a + b]
  BY <1>1, <1>7, <1>10, SlashedIs
<1>12. Slashed(A) = f[a] /\ Slashed(B) = g[b]
  BY <1>2, <1>3, SlashedIs
<1> QED
  BY <1>1, <1>4, <1>6, <1>11, <1>12 DEF C

(* One term and its slash.                                                 *)
LEMMA SlashedOne ==
  ASSUME NEW t \in Path
  PROVE  <<t>> \in Stacks /\ Slashed(<<t>>) = Ended(t)
<1> DEFINE f == [i \in 0..1 |-> IF i = 0 THEN <<>> ELSE Ended(t)]
<1>1. <<t>> \in Stacks /\ Len(<<t>>) = 1 /\ <<t>>[1] = t
  BY DEF Stacks
<1>2. <<>> \in Path /\ Ended(t) \in Path /\ <<>> \o Ended(t) = Ended(t)
  BY Terminals, EndedIs, ConcatEmptySeq DEF Path
<1>3. f \in [0..1 -> Path] /\ f[0] = <<>> /\ f[1] = Ended(t)
  BY <1>2
<1> HIDE DEF f
<1>4. Built(<<t>>, f)
  <2>1. \A i \in 1..1 : i = 1 /\ i - 1 = 0
    OBVIOUS
  <2> QED
    BY <1>1, <1>2, <1>3, <2>1 DEF Built
<1>5. PICK q \in Stacks : q = <<t>>
  BY <1>1
<1>6. Len(q) = 1 /\ Built(q, f)
  BY <1>1, <1>4, <1>5
<1> QED
  BY <1>3, <1>5, <1>6, SlashedIs

(* "../" for each term that is owed.                                       *)
Ups(n) == [i \in 1..n |-> Up]

(* They are three bytes each.                                              *)
LEMMA SlashedUps ==
  ASSUME NEW n \in Nat
  PROVE  /\ Ups(n) \in Stacks /\ Len(Ups(n)) = n /\ \A i \in 1..n : Ups(n)[i] = Up
         /\ Len(Slashed(Ups(n))) = 3 * n
<1>1. Ups(n) \in [1..n -> Path]
  BY Terminals DEF Ups
<1>2. Ups(n) \in Stacks /\ Len(Ups(n)) = n /\ \A i \in 1..n : Ups(n)[i] = Up
  BY <1>1 DEF Stacks, Ups
<1>3. PICK f \in [0..n -> Path] : Built(Ups(n), f)
  BY <1>2, BuiltExists
<1>4. Slashed(Ups(n)) = f[n]
  BY <1>2, <1>3, SlashedIs
<1> DEFINE T == {i \in 0..n : Len(f[i]) # 3 * i}
<1>5. T = {}
  <2>1. SUFFICES ASSUME T # {} PROVE FALSE
    OBVIOUS
  <2>2. PICK m \in T : \A j \in T : m <= j
    <3>1. T \subseteq Nat
      OBVIOUS
    <3> QED
      BY <2>1, <3>1, Least
  <2>3. m # 0
    BY <1>3, <2>2 DEF Built
  <2>4. m \in 1..n /\ m - 1 \in 0..n /\ ~(m <= m - 1)
    BY <2>2, <2>3
  <2>5. Len(f[m - 1]) = 3 * (m - 1)
    BY <2>2, <2>4
  <2>6. f[m] = f[m - 1] \o Ended(Up) /\ f[m - 1] \in Path
    BY <1>2, <1>3, <2>4 DEF Built
  <2>7. PICK u \in Path : u = Ended(Up) /\ Len(u) = 3
    <3>1. Up \in Path /\ Len(Up) = 2
      BY Terminals
    <3>2. Ended(Up) \in Path /\ Len(Ended(Up)) = Len(Up) + 1
      BY <3>1, EndedIs
    <3> QED
      BY <3>1, <3>2
  <2>8. Len(f[m]) = 3 * (m - 1) + 3
    <3>1. PICK x \in Path : x = f[m - 1]
      BY <2>6
    <3>2. Len(x \o u) = Len(x) + Len(u)
      BY ConcatProperties DEF Path
    <3> QED
      BY <2>5, <2>6, <2>7, <3>1, <3>2
  <2>9. Len(f[m]) = 3 * m
    BY <2>4, <2>8
  <2> QED
    BY <2>2, <2>9
<1>6. n \in 0..n
  OBVIOUS
<1> QED
  BY <1>2, <1>4, <1>5, <1>6

(* What the stack comes to when ".." takes n times from it.                *)
Owing(S, n, R) ==
  \E f \in [0..n -> Stacks] :
     f[0] = S /\ f[n] = R /\ \A k \in 1..n : f[k] = Stacked(f[k - 1], Up)

(* With nothing owed the stack stays.                                      *)
LEMMA OweNone ==
  ASSUME NEW S \in Stacks
  PROVE  Owing(S, 0, S) /\ \A R : Owing(S, 0, R) => R = S
<1> DEFINE f == [k \in 0..0 |-> S]
<1>1. f \in [0..0 -> Stacks] /\ f[0] = S /\ \A k \in 1..0 : FALSE
  OBVIOUS
<1> QED
  BY <1>1 DEF Owing

(* A ".." in front of those that are owed is one more.                     *)
LEMMA OweMore ==
  ASSUME NEW S \in Stacks, NEW n \in Nat, NEW R, Owing(Stacked(S, Up), n, R)
  PROVE  Owing(S, n + 1, R)
<1>1. PICK f \in [0..n -> Stacks] :
        /\ f[0] = Stacked(S, Up) /\ f[n] = R
        /\ \A k \in 1..n : f[k] = Stacked(f[k - 1], Up)
  BY DEF Owing
<1> DEFINE g == [k \in 0..n + 1 |-> IF k = 0 THEN S ELSE f[k - 1]]
<1>2. \A k \in 0..n + 1 : k # 0 => k - 1 \in 0..n
  OBVIOUS
<1>3. g \in [0..n + 1 -> Stacks] /\ g[0] = S
  BY <1>2
<1>4. \A k \in 1..n + 1 : g[k] = f[k - 1]
  OBVIOUS
<1>5. g[n + 1] = R
  <2>1. n + 1 \in 1..n + 1 /\ n + 1 - 1 = n
    OBVIOUS
  <2> HIDE DEF g
  <2> QED
    BY <1>1, <1>4, <2>1
<1> HIDE DEF g
<1>6. ASSUME NEW k \in 1..n + 1 PROVE g[k] = Stacked(g[k - 1], Up)
  <2>1. CASE k = 1
    <3>1. k - 1 = 0
      BY <2>1
    <3> QED
      BY <1>1, <1>3, <1>4, <3>1
  <2>2. CASE k # 1
    <3>1. k - 1 \in 1..n + 1 /\ k - 1 \in 1..n
      BY <2>2
    <3>2. f[k - 1] = Stacked(f[k - 1 - 1], Up) /\ g[k - 1] = f[k - 1 - 1]
      BY <1>1, <1>4, <3>1
    <3> QED
      BY <1>4, <3>2
  <2> QED
    BY <2>1, <2>2
<1>7. n + 1 \in Nat
  OBVIOUS
<1> QED
  BY <1>3, <1>5, <1>6 DEF Owing

(* The first of those that are owed, taken.                                *)
LEMMA OweLess ==
  ASSUME NEW S \in Stacks, NEW n \in Nat \ {0}, NEW R, Owing(S, n, R)
  PROVE  Owing(Stacked(S, Up), n - 1, R)
<1>1. PICK f \in [0..n -> Stacks] :
        /\ f[0] = S /\ f[n] = R
        /\ \A k \in 1..n : f[k] = Stacked(f[k - 1], Up)
  BY DEF Owing
<1> DEFINE g == [k \in 0..n - 1 |-> f[k + 1]]
<1>2. \A k \in 0..n - 1 : k + 1 \in 0..n /\ k + 1 \in 1..n /\ k + 1 - 1 = k
  OBVIOUS
<1>3. g \in [0..n - 1 -> Stacks] /\ \A k \in 0..n - 1 : g[k] = f[k + 1]
  BY <1>2
<1> HIDE DEF g
<1>4. 0 \in 0..n - 1 /\ n - 1 \in 0..n - 1 /\ 0 + 1 = 1 /\ 1 - 1 = 0 /\ (n - 1) + 1 = n
  OBVIOUS
<1>5. g[0] = Stacked(S, Up)
  <2>1. 1 \in 1..n
    OBVIOUS
  <2>2. f[1] = Stacked(f[0], Up)
    BY <1>1, <1>4, <2>1
  <2> QED
    BY <1>1, <1>3, <1>4, <2>2
<1>6. g[n - 1] = R
  BY <1>1, <1>3, <1>4
<1>7. ASSUME NEW k \in 1..n - 1 PROVE g[k] = Stacked(g[k - 1], Up)
  <2>1. k \in 0..n - 1 /\ k - 1 \in 0..n - 1 /\ (k - 1) + 1 = k
    OBVIOUS
  <2>2. g[k] = f[k + 1] /\ g[k - 1] = f[k]
    BY <1>3, <2>1
  <2>3. k + 1 \in 1..n /\ k + 1 - 1 = k
    OBVIOUS
  <2> QED
    BY <1>1, <2>2, <2>3
<1> QED
  BY <1>3, <1>5, <1>6, <1>7 DEF Owing

(* From no terms at all every ".." stays.                                  *)
LEMMA OweUps ==
  ASSUME NEW n \in Nat, NEW R, Owing(<<>>, n, R)
  PROVE  R = Ups(n)
<1>1. PICK f \in [0..n -> Stacks] :
        /\ f[0] = <<>> /\ f[n] = R
        /\ \A k \in 1..n : f[k] = Stacked(f[k - 1], Up)
  BY DEF Owing
<1> DEFINE T == {k \in 0..n : f[k] # Ups(k)}
<1>2. T = {}
  <2>1. SUFFICES ASSUME T # {} PROVE FALSE
    OBVIOUS
  <2>2. PICK m \in T : \A j \in T : m <= j
    <3>1. T \subseteq Nat
      OBVIOUS
    <3> QED
      BY <2>1, <3>1, Least
  <2>3. m # 0
    <3>1. Ups(0) \in Stacks /\ Len(Ups(0)) = 0
      BY SlashedUps
    <3>2. Ups(0) = <<>>
      BY <3>1, EmptySeq DEF Stacks
    <3> QED
      BY <1>1, <2>2, <3>2
  <2>4. m \in 1..n /\ m - 1 \in 0..n /\ m - 1 \in Nat /\ ~(m <= m - 1) /\ m = (m - 1) + 1
    BY <2>2, <2>3
  <2>5. PICK k \in Nat : k = m - 1 /\ m = k + 1
    BY <2>4
  <2>6. f[k] = Ups(k) /\ f[m] = Stacked(Ups(k), Up)
    BY <1>1, <2>2, <2>4, <2>5
  <2>7. /\ Ups(k) \in Stacks /\ DOMAIN Ups(k) = 1..k /\ Len(Ups(k)) = k
        /\ \A i \in 1..k : Ups(k)[i] = Up
    BY SlashedUps DEF Ups
  <2>8. PICK s \in Stacks : s = Ups(k)
    BY <2>7
  <2>9. s # <<>> => Last(s) = Up
    <3>1. ASSUME s # <<>> PROVE Last(s) = Up
      <4>1. Last(s) = s[Len(s)] /\ Len(s) \in Nat \ {0}
        BY <3>1, LastIs DEF Stacks
      <4> QED
        BY <2>7, <2>8, <4>1
    <3> QED
      BY <3>1
  <2>10. Stacked(s, Up) = Append(s, Up)
    BY <2>9, StackedIs, Terminals
  <2>11. Append(s, Up) = Ups(k + 1)
    BY <2>7, <2>8 DEF Ups, Stacks
  <2> QED
    BY <2>2, <2>5, <2>6, <2>8, <2>10, <2>11
<1>3. n \in 0..n
  OBVIOUS
<1> QED
  BY <1>1, <1>2, <1>3
-----------------------------------------------------------------------------
(* Writing over the first bytes of a path keeps its length.                *)
LEMMA OverIs ==
  ASSUME NEW new \in Path, NEW old \in Path, Len(new) <= Len(old)
  PROVE  /\ Over(new, old) \in Path /\ Len(Over(new, old)) = Len(old)
         /\ \A j \in 1..Len(new) : Over(new, old)[j] = new[j]
<1>1. PICK a \in Nat : a = Len(new)
  BY DEF Path
<1>2. PICK b \in Nat : b = Len(old) /\ a <= b
  BY <1>1 DEF Path
<1>3. \A j \in a + 1..b : old[j] \in Bytes
  BY <1>1, <1>2 DEF Path
<1>4. PICK s : s = SubSeq(old, a + 1, b)
  OBVIOUS
<1>5. s \in Path /\ Len(s) = b - a
  <2>1. /\ s \in Seq(Bytes)
        /\ Len(s) = IF a + 1 <= b THEN b - (a + 1) + 1 ELSE 0
    BY <1>3, <1>4, SubSeqProperties
  <2> QED
    BY <1>2, <2>1 DEF Path
<1>6. Over(new, old) = new \o s
  BY <1>1, <1>2, <1>4 DEF Over
<1>7. PICK o : o = Over(new, old)
  OBVIOUS
<1>8. /\ o \in Path /\ Len(o) = a + Len(s)
      /\ \A j \in 1..a + Len(s) : o[j] = IF j <= a THEN new[j] ELSE s[j - a]
  BY <1>1, <1>5, <1>6, <1>7, ConcatProperties DEF Path
<1>9. a + Len(s) = b /\ \A j \in 1..a : j \in 1..a + Len(s) /\ j <= a
  BY <1>2, <1>5
<1> QED
  BY <1>1, <1>2, <1>7, <1>8, <1>9

MovedDown(b, c, k, m, t) ==
  /\ c \in Path /\ Len(c) = Len(b)
  /\ \A j \in 1..k : c[j] = b[j]
  /\ \A j \in 1..t - m - 1 : c[k + j] = b[m + 1 + j]

(* A term and its slash taken out: what follows moves down onto it.        *)
LEMMA TakenOut ==
  ASSUME NEW b \in Path, NEW k \in Nat, NEW m \in Nat, NEW t \in Nat,
         k <= m, m + 1 <= t, t <= Len(b),
         NEW c, c = Over(SubSeq(b, 1, k) \o SubSeq(b, m + 2, t), b)
  PROVE  MovedDown(b, c, k, m, t)
<1>1. PICK n \in Nat : n = Len(b) /\ t <= n
  BY DEF Path
<1>2. \A j \in 1..n : b[j] \in Bytes
  BY <1>1 DEF Path
<1>3. PICK p : p = SubSeq(b, 1, k)
  OBVIOUS
<1>4. p \in Path /\ Len(p) = k /\ \A j \in 1..k : p[j] = b[j]
  <2>1. \A j \in 1..k : b[j] \in Bytes
    BY <1>1, <1>2
  <2>2. /\ p \in Seq(Bytes) /\ Len(p) = IF 1 <= k THEN k - 1 + 1 ELSE 0
        /\ \A j \in 1..k - 1 + 1 : p[j] = b[1 + j - 1]
    BY <1>3, <2>1, SubSeqProperties
  <2> QED
    BY <2>2 DEF Path
<1>5. PICK q : q = SubSeq(b, m + 2, t)
  OBVIOUS
<1>6. q \in Path /\ Len(q) = t - m - 1 /\ \A j \in 1..t - m - 1 : q[j] = b[m + 1 + j]
  <2>1. \A j \in m + 2..t : b[j] \in Bytes
    BY <1>1, <1>2
  <2>2. /\ q \in Seq(Bytes) /\ Len(q) = IF m + 2 <= t THEN t - (m + 2) + 1 ELSE 0
        /\ \A j \in 1..t - (m + 2) + 1 : q[j] = b[m + 2 + j - 1]
    BY <1>5, <2>1, SubSeqProperties
  <2>3. \A j \in 1..t - m - 1 : j \in 1..t - (m + 2) + 1 /\ m + 2 + j - 1 = m + 1 + j
    OBVIOUS
  <2> QED
    BY <2>2, <2>3 DEF Path
<1>7. PICK s : s = p \o q
  OBVIOUS
<1>8. /\ s \in Path /\ Len(s) = k + (t - m - 1)
      /\ \A j \in 1..k : s[j] = b[j]
      /\ \A j \in 1..t - m - 1 : s[k + j] = b[m + 1 + j]
  <2>1. /\ s \in Path /\ Len(s) = k + (t - m - 1)
        /\ \A j \in 1..k + (t - m - 1) : s[j] = IF j <= k THEN p[j] ELSE q[j - k]
    <3>1. /\ s \in Path /\ Len(s) = Len(p) + Len(q)
          /\ \A j \in 1..Len(p) + Len(q) :
               s[j] = IF j <= Len(p) THEN p[j] ELSE q[j - Len(p)]
      BY <1>4, <1>6, <1>7, ConcatProperties DEF Path
    <3> QED
      BY <1>4, <1>6, <3>1
  <2>2. \A j \in 1..k : s[j] = b[j]
    BY <1>4, <2>1
  <2>3. ASSUME NEW j \in 1..t - m - 1 PROVE s[k + j] = b[m + 1 + j]
    <3>1. k + j \in 1..k + (t - m - 1) /\ ~(k + j <= k) /\ k + j - k = j
      OBVIOUS
    <3> QED
      BY <1>6, <2>1, <3>1
  <2> QED
    BY <2>1, <2>2, <2>3
<1>9. PICK o : o = Over(s, b)
  OBVIOUS
<1>10. /\ o \in Path /\ Len(o) = n
       /\ \A j \in 1..k + (t - m - 1) : o[j] = s[j]
  <2>1. Len(s) <= Len(b)
    BY <1>1, <1>8
  <2> QED
    BY <1>1, <1>8, <1>9, <2>1, OverIs
<1>11. /\ \A j \in 1..k : o[j] = b[j]
       /\ \A j \in 1..t - m - 1 : o[k + j] = b[m + 1 + j]
  <2>1. \A j \in 1..k : j \in 1..k + (t - m - 1)
    OBVIOUS
  <2>2. \A j \in 1..t - m - 1 : k + j \in 1..k + (t - m - 1)
    OBVIOUS
  <2> QED
    BY <1>8, <1>10, <2>1, <2>2
<1> QED
  BY <1>1, <1>3, <1>5, <1>7, <1>9, <1>10, <1>11 DEF MovedDown
-----------------------------------------------------------------------------
(* The path without repeated slashes, and with one at its end.             *)
Closed(p) == IF Last(p) = "/" THEN p ELSE Append(p, "/")
Whole(path) == Closed(WithoutRepeats(path))
Tip(path) == IF path[Len(path)] = "/" THEN 0 ELSE 1

(* The path without repeated slashes.                                      *)
LEMMA ShortIs ==
  ASSUME NEW path \in Path, path # <<>>
  PROVE  LET s == WithoutRepeats(path)
             n == Len(s)
         IN /\ s \in Path /\ n \in 1..Len(path)
            /\ s[1] = path[1] /\ Last(s) = s[n] /\ s[n] = path[Len(path)]
            /\ \A j \in 1..n - 1 : s[j] # "/" \/ s[j + 1] # "/"
            /\ Reading(s)[n] = Reading(path)[Len(path)]
            /\ Reading(s)[n] \in States
<1>1. Len(path) \in Nat /\ Len(path) \in 1..Len(path) /\ Len(path) \in 0..Len(path)
  BY DEF Path
<1>2. Shorter(path, Written(path), Len(path))
  BY <1>1, DedupIs
<1>3. Written(path)[Len(path)] \in Path
  BY <1>1, WrittenIs DEF Path
<1>4. PICK s \in Path : s = WithoutRepeats(path)
  BY <1>3 DEF WithoutRepeats
<1>5. /\ Len(s) \in 1..Len(path) /\ s[1] = path[1] /\ Last(s) = path[Len(path)]
      /\ \A j \in 1..Len(s) - 1 : s[j] # "/" \/ s[j + 1] # "/"
      /\ Reading(s)[Len(s)] = Reading(path)[Len(path)]
  BY <1>2, <1>4 DEF Shorter, WithoutRepeats
<1>6. s # <<>> /\ Len(s) \in 0..Len(s)
  BY <1>5 DEF Path
<1>7. Last(s) = s[Len(s)]
  BY <1>6, LastIs DEF Path
<1>8. Reading(s)[Len(s)] \in States
  BY <1>6, ReadingIs
<1> QED
  BY <1>4, <1>5, <1>7, <1>8

WholeFacts(path, s, w) ==
  /\ s \in Path /\ Len(s) \in 1..Len(path)
  /\ s[1] = path[1] /\ s[Len(s)] = path[Len(path)]
  /\ w \in Path /\ Len(w) = Len(s) + Tip(path) /\ w[Len(w)] = "/"
  /\ \A j \in 1..Len(s) : w[j] = s[j]
  /\ \A j \in 1..Len(w) - 1 : w[j] # "/" \/ w[j + 1] # "/"
  /\ Reading(w)[Len(w)].stack = Terms(path)
  /\ Terms(path) \in Stacks

(* The facts that the scan relies on, about that path and about the same   *)
(* with a slash at its end: reading the latter to its end gives the terms  *)
(* of the path that was given.                                             *)
LEMMA WholeIs ==
  ASSUME NEW path \in Path, path # <<>>
  PROVE  WholeFacts(path, WithoutRepeats(path), Whole(path))
<1>1. PICK s \in Path : s = WithoutRepeats(path)
  BY ShortIs
<1>2. /\ Len(s) \in 1..Len(path)
      /\ s[1] = path[1] /\ Last(s) = s[Len(s)] /\ s[Len(s)] = path[Len(path)]
      /\ \A j \in 1..Len(s) - 1 : s[j] # "/" \/ s[j + 1] # "/"
      /\ Reading(s)[Len(s)] = Reading(path)[Len(path)]
      /\ Reading(s)[Len(s)] \in States
  BY <1>1, ShortIs
<1>3. PICK e \in States : e = Reading(s)[Len(s)]
  BY <1>2
<1>4. Terms(path) = Stacked(e.stack, e.now) /\ Terms(path) \in Stacks
  <2>1. Terms(path) = Stacked(e.stack, e.now)
    BY <1>2, <1>3 DEF Terms
  <2>2. e.stack \in Stacks /\ e.now \in Path
    BY DEF States
  <2> QED
    BY <2>1, <2>2, StackedIs
<1>5. Whole(path) = IF s[Len(s)] = "/" THEN s ELSE Append(s, "/")
  BY <1>1, <1>2 DEF Whole, Closed
<1>6. CASE s[Len(s)] = "/"
  <2>1. Reading(s)[Len(s)].now = <<>>
    BY <1>2, <1>6, AfterSlash
  <2>2. Terms(path) = Reading(s)[Len(s)].stack
    <3>1. e.stack \in Stacks /\ e.now = <<>> /\ <<>> \in Path
      BY <1>3, <2>1, Terminals DEF States
    <3>2. Stacked(e.stack, <<>>) = e.stack
      BY <3>1, StackedIs
    <3> QED
      BY <1>3, <1>4, <3>1, <3>2
  <2>3. Tip(path) = 0 /\ Whole(path) = s /\ Len(s) + 0 = Len(s)
    BY <1>2, <1>5, <1>6 DEF Tip
  <2> QED
    BY <1>1, <1>2, <1>4, <1>6, <2>2, <2>3 DEF WholeFacts
<1>7. CASE s[Len(s)] # "/"
  <2>1. PICK w : w = Append(s, "/")
    OBVIOUS
  <2>2. /\ w \in Path /\ Len(w) = Len(s) + 1
        /\ Reading(w)[Len(s)] = Reading(s)[Len(s)]
        /\ Reading(w)[Len(s) + 1] = Read(Reading(s)[Len(s)], "/")
        /\ w[Len(s) + 1] = "/" /\ \A j \in 1..Len(s) : w[j] = s[j]
    <3>1. "/" \in Bytes /\ Len(s) \in 0..Len(s)
      BY <1>2 DEF Bytes
    <3> QED
      BY <2>1, <3>1, ReadingMore, AppendProperties DEF Path
  <2>3. Reading(w)[Len(w)].stack = Terms(path)
    <3>1. Read(e, "/").stack = Stacked(e.stack, e.now)
      BY ReadIs DEF Bytes
    <3> QED
      BY <1>3, <1>4, <2>2, <3>1
  <2>4. ASSUME NEW j \in 1..Len(w) - 1 PROVE w[j] # "/" \/ w[j + 1] # "/"
    <3>1. CASE j = Len(s)
      BY <1>2, <1>7, <2>2, <3>1
    <3>2. CASE j # Len(s)
      <4>1. j \in 1..Len(s) - 1 /\ j \in 1..Len(s) /\ j + 1 \in 1..Len(s)
        BY <1>2, <2>2, <3>2
      <4> QED
        BY <1>2, <2>2, <4>1
    <3> QED
      BY <3>1, <3>2
  <2>5. Tip(path) = 1 /\ Whole(path) = w
    BY <1>2, <1>5, <1>7, <2>1 DEF Tip
  <2> QED
    BY <1>1, <1>2, <1>4, <2>2, <2>3, <2>4, <2>5 DEF WholeFacts
<1> QED
  BY <1>6, <1>7

(* With no slash at the end, the last term is the same before and after.   *)
LEMMA LastTermKept ==
  ASSUME NEW path \in Path, path # <<>>, NEW s, s = WithoutRepeats(path),
         NEW d \in Nat, d < Len(s),
         d > 0 => s[d] = "/",
         \A j \in d + 1..Len(s) : s[j] # "/"
  PROVE  SubSeq(s, d + 1, Len(s)) = LastTerm(path)
<1>1. s \in Path
  BY ShortIs
<1>2. /\ Len(s) \in 1..Len(path) /\ s[Len(s)] = path[Len(path)]
      /\ Reading(s)[Len(s)] = Reading(path)[Len(path)]
  BY ShortIs
<1>3. /\ d < Len(s)
      /\ d > 0 => s[d] = "/"
      /\ \A j \in d + 1..Len(s) : s[j] # "/"
  OBVIOUS
<1>4. Reading(s)[Len(s)].now = SubSeq(s, d + 1, Len(s))
  <2>1. Reading(s)[d].now = <<>>
    <3>1. CASE d = 0
      BY <1>1, <3>1, ReadingIs DEF Fresh
    <3>2. CASE d > 0
      <4>1. d \in 1..Len(s) /\ s[d] = "/"
        BY <1>2, <1>3, <3>2
      <4> QED
        BY <1>1, <4>1, AfterSlash
    <3> QED
      BY <3>1, <3>2
  <2>2. d \in 0..Len(s) /\ Len(s) \in d..Len(s)
    BY <1>2, <1>3
  <2> QED
    BY <1>1, <1>3, <2>1, <2>2, ReadingTerm
<1>5. PICK n \in Nat : n = Len(path) /\ n \in 1..n
  BY <1>2 DEF Path
<1>6. path[n] # "/"
  <2>1. Len(s) \in d + 1..Len(s)
    BY <1>2, <1>3
  <2> QED
    BY <1>2, <1>3, <1>5, <2>1
<1>7. PICK e : e = Dirname(path)
  OBVIOUS
<1>8. /\ e \in 0..n - 1
      /\ e > 0 => path[e] = "/"
      /\ \A j \in e + 1..n : path[j] # "/"
  BY <1>5, <1>6, <1>7, DirnameIs DEF Path
<1>9. Reading(path)[n].now = SubSeq(path, e + 1, n)
  <2>1. Reading(path)[e].now = <<>>
    <3>1. CASE e = 0
      BY <3>1, ReadingIs DEF Fresh
    <3>2. CASE e > 0
      <4>1. e \in 1..Len(path) /\ path[e] = "/"
        BY <1>5, <1>8, <3>2
      <4> QED
        BY <4>1, AfterSlash
    <3> QED
      BY <1>8, <3>1, <3>2
  <2>2. e \in 0..Len(path) /\ n \in e..Len(path)
    BY <1>5, <1>8
  <2> QED
    BY <1>8, <2>1, <2>2, ReadingTerm
<1> QED
  BY <1>1, <1>2, <1>4, <1>5, <1>7, <1>9 DEF LastTerm

(* The terms that stay: neither "." nor "..".                              *)
Names == {t \in Path : /\ t # <<>> /\ t # Up /\ t # Here
                       /\ \A i \in 1..Len(t) : t[i] # "/"}

(* Names are terms.                                                        *)
LEMMA NamesAreTerms ==
  ASSUME NEW K \in Seq(Names)
  PROVE  K \in Stacks
<1>1. Names \subseteq Path
  BY DEF Names
<1> QED
  BY <1>1, SeqMonotonic DEF Stacks

(* What the scan has done with everything from left on: the terms in K are *)
(* kept, each with its slash, and u more ".."s are still to take terms     *)
(* from the stack S of what is left of left; the two together come to the  *)
(* terms of the path.                                                      *)
KeptAs(K, R, terms, tip, S, left, b, t, u) ==
  /\ Owing(S, u, R) /\ R \o K = terms
  /\ left + Len(Slashed(K)) = t + tip
  /\ \A j \in 1..Len(Slashed(K)) : left + j <= t => b[left + j] = Slashed(K)[j]

Kept(terms, tip, S, left, b, t, u) ==
  \E K \in Seq(Names), R \in Stacks : KeptAs(K, R, terms, tip, S, left, b, t, u)

(* Nothing has been done yet.                                              *)
LEMMA KeptNone ==
  ASSUME NEW terms \in Stacks, NEW tip \in Nat, NEW t \in Nat, NEW left \in Nat,
         left = t + tip, NEW b
  PROVE  Kept(terms, tip, terms, left, b, t, 0)
<1>1. <<>> \in Seq(Names) /\ <<>> \in Stacks
  BY DEF Stacks
<1>2. Slashed(<<>>) = <<>> /\ Len(<<>>) = 0
  BY <1>1, SlashedPath
<1>3. Owing(terms, 0, terms)
  BY OweNone
<1>4. terms \o <<>> = terms
  BY ConcatEmptySeq DEF Stacks
<1>5. PICK e : e = <<>>
  OBVIOUS
<1>6. e \in Seq(Names) /\ Len(Slashed(e)) = 0 /\ terms \o e = terms
  BY <1>1, <1>2, <1>4, <1>5
<1>7. KeptAs(e, terms, terms, tip, terms, left, b, t, 0)
  BY <1>3, <1>6 DEF KeptAs
<1> QED
  BY <1>6, <1>7 DEF Kept

(* What follows moves down.                                                *)
LEMMA KeptMoved ==
  ASSUME NEW terms, NEW tip \in Nat, NEW S, NEW k \in Nat, NEW m \in Nat, NEW t \in Nat,
         NEW u, NEW b, NEW c, k <= m, m + 1 <= t,
         Kept(terms, tip, S, m + 1, b, t, u),
         \A j \in 1..t - m - 1 : c[k + j] = b[m + 1 + j],
         NEW v, v = t - (m - k + 1)
  PROVE  Kept(terms, tip, S, k, c, v, u)
<1>1. PICK K \in Seq(Names), R \in Stacks : KeptAs(K, R, terms, tip, S, m + 1, b, t, u)
  BY DEF Kept
<1>2. PICK x \in Path : x = Slashed(K)
  BY NamesAreTerms, SlashedPath
<1>3. PICK n \in Nat : n = Len(x)
  BY DEF Path
<1>4. m + 1 + n = t + tip /\ \A j \in 1..n : m + 1 + j <= t => b[m + 1 + j] = x[j]
  BY <1>1, <1>2, <1>3 DEF KeptAs
<1>5. k + n = t - (m - k + 1) + tip
  BY <1>4
<1>6. ASSUME NEW j \in 1..n, k + j <= t - (m - k + 1) PROVE c[k + j] = x[j]
  <2>1. j \in 1..t - m - 1 /\ m + 1 + j <= t
    BY <1>6
  <2> QED
    BY <1>4, <2>1
<1>7. KeptAs(K, R, terms, tip, S, k, c, t - (m - k + 1), u)
  BY <1>1, <1>2, <1>3, <1>5, <1>6 DEF KeptAs
<1> QED
  BY <1>7 DEF Kept

(* A ".." is found.                                                        *)
LEMMA KeptUp ==
  ASSUME NEW terms, NEW tip, NEW S \in Stacks, NEW left, NEW b, NEW t, NEW u \in Nat,
         Kept(terms, tip, Stacked(S, Up), left, b, t, u)
  PROVE  Kept(terms, tip, S, left, b, t, u + 1)
<1>1. PICK K \in Seq(Names), R \in Stacks :
        KeptAs(K, R, terms, tip, Stacked(S, Up), left, b, t, u)
  BY DEF Kept
<1>2. Owing(S, u + 1, R)
  BY <1>1, OweMore DEF KeptAs
<1>3. KeptAs(K, R, terms, tip, S, left, b, t, u + 1)
  BY <1>1, <1>2 DEF KeptAs
<1> QED
  BY <1>3 DEF Kept

(* A name is found, and a ".." takes it.                                   *)
LEMMA KeptTaken ==
  ASSUME NEW terms, NEW tip, NEW S \in Stacks, NEW left, NEW b, NEW t,
         NEW u \in Nat \ {0}, NEW name \in Names,
         Kept(terms, tip, Append(S, name), left, b, t, u)
  PROVE  Kept(terms, tip, S, left, b, t, u - 1)
<1>1. PICK K \in Seq(Names), R \in Stacks :
        KeptAs(K, R, terms, tip, Append(S, name), left, b, t, u)
  BY DEF Kept
<1>2. name \in Path /\ name # Up
  BY DEF Names
<1>3. PICK Q \in Stacks : Q = Append(S, name) /\ Q # <<>>
  BY <1>2, AppendProperties DEF Stacks
<1>4. Last(Q) = name /\ Front(Q) = S
  BY <1>2, <1>3, LastAppended DEF Stacks
<1>5. Stacked(Q, Up) = S
  BY <1>2, <1>3, <1>4, StackedIs, Terminals
<1>6. Owing(Q, u, R)
  BY <1>1, <1>3 DEF KeptAs
<1>7. Owing(S, u - 1, R)
  BY <1>5, <1>6, OweLess
<1>8. KeptAs(K, R, terms, tip, S, left, b, t, u - 1)
  BY <1>1, <1>7 DEF KeptAs
<1> QED
  BY <1>8 DEF Kept

Regrouped(x, y, z) == x \o (y \o z) = (x \o y) \o z

(* Concatenation of sequences of terms is associative.                     *)
LEMMA RegroupTerms ==
  ASSUME NEW x \in Stacks, NEW y \in Stacks, NEW z \in Stacks
  PROVE  Regrouped(x, y, z)
<1>1. x \in Seq(Path) /\ y \in Seq(Path) /\ z \in Seq(Path)
  BY DEF Stacks
<1>2. (x \o y) \o z = x \o (y \o z)
  BY <1>1, ConcatAssociative
<1> QED
  BY <1>2, Zenon DEF Regrouped

(* The bytes of two paths in a row.                                        *)
LEMMA Joined ==
  ASSUME NEW x \in Path, NEW y \in Path
  PROVE  /\ x \o y \in Path /\ Len(x \o y) = Len(x) + Len(y)
         /\ \A j \in 1..Len(x) + Len(y) : (x \o y)[j] = IF j <= Len(x) THEN x[j]
                                                       ELSE y[j - Len(x)]
BY ConcatProperties DEF Path

(* A name is found, and nothing is owed: it stays.                         *)
LEMMA KeptName ==
  ASSUME NEW terms, NEW tip \in Nat, NEW S \in Stacks, NEW k \in Nat, NEW m \in Nat,
         NEW b, NEW t \in Nat, NEW name \in Names,
         Kept(terms, tip, Append(S, name), m + 1, b, t, 0),
         k + Len(name) = m,
         \A j \in 1..Len(name) : b[k + j] = name[j],
         m + 1 <= t => b[m + 1] = "/"
  PROVE  Kept(terms, tip, S, k, b, t, 0)
<1>1. PICK K \in Seq(Names), R \in Stacks :
        KeptAs(K, R, terms, tip, Append(S, name), m + 1, b, t, 0)
  BY DEF Kept
<1>2. name \in Path /\ Len(name) \in Nat
  BY DEF Names, Path
<1>3. PICK Q \in Stacks : Q = Append(S, name)
  BY <1>2, AppendProperties DEF Stacks
<1>4. R = Q
  BY <1>1, <1>3, OweNone DEF KeptAs
<1>5. K \in Stacks /\ Slashed(K) \in Path
  BY NamesAreTerms, SlashedPath
<1>6. PICK N \in Seq(Names) : N = <<name>> /\ N \in Stacks /\ Slashed(N) = Ended(name)
  <2>1. <<name>> \in Seq(Names)
    OBVIOUS
  <2> QED
    BY <1>2, <2>1, SlashedOne
<1>7. PICK L \in Seq(Names) : L = N \o K /\ Slashed(L) = Ended(name) \o Slashed(K)
  <2>1. N \o K \in Seq(Names)
    BY ConcatProperties
  <2>2. Slashed(N \o K) = Slashed(N) \o Slashed(K)
    BY <1>5, <1>6, SlashedConcat
  <2> QED
    BY <1>6, <2>1, <2>2
<1>8. S \o L = terms
  <2>1. S \o (N \o K) = (S \o N) \o K
    <3>1. N \in Stacks
      BY <1>6
    <3>2. Regrouped(S, N, K)
      BY <1>5, <3>1, RegroupTerms
    <3> QED
      BY <3>2, Zenon DEF Regrouped
  <2>2. S \o N = Q
    BY <1>2, <1>3, <1>6, AppendIsConcat DEF Stacks
  <2> QED
    BY <1>1, <1>4, <1>7, <2>1, <2>2 DEF KeptAs
<1>9. PICK x \in Path : x = Slashed(K)
  BY <1>5
<1>10. PICK e \in Path : /\ e = Ended(name) /\ Len(e) = Len(name) + 1
                         /\ \A i \in 1..Len(name) : e[i] = name[i]
                         /\ e[Len(name) + 1] = "/"
  BY <1>2, EndedIs
<1>11. PICK n \in Nat : n = Len(x)
  BY DEF Path
<1>12. PICK a \in Nat : a = Len(name) /\ k + a = m
  BY <1>2
<1>13. PICK y \in Path : /\ y = Slashed(L) /\ Len(y) = a + 1 + n
                         /\ \A j \in 1..a + 1 + n : y[j] = IF j <= a + 1 THEN e[j]
                                                           ELSE x[j - (a + 1)]
  <2>1. /\ e \o x \in Path /\ Len(e \o x) = Len(e) + Len(x)
        /\ \A j \in 1..Len(e) + Len(x) : (e \o x)[j] = IF j <= Len(e) THEN e[j]
                                                       ELSE x[j - Len(e)]
    BY Joined
  <2>2. Len(e) = a + 1 /\ Len(x) = n /\ a + 1 \in Nat
    BY <1>10, <1>11, <1>12
  <2>3. Slashed(L) = e \o x
    BY <1>7, <1>9, <1>10
  <2>4. PICK y : y = e \o x
    OBVIOUS
  <2>5. /\ y \in Path /\ Len(y) = a + 1 + n
        /\ \A j \in 1..a + 1 + n : y[j] = IF j <= a + 1 THEN e[j] ELSE x[j - (a + 1)]
    BY <2>1, <2>2, <2>4
  <2> QED
    BY <2>3, <2>4, <2>5
<1>14. m + 1 + n = t + tip /\ \A j \in 1..n : m + 1 + j <= t => b[m + 1 + j] = x[j]
  BY <1>1, <1>9, <1>11 DEF KeptAs
<1>15. k + (a + 1 + n) = t + tip
  BY <1>11, <1>12, <1>14
<1>16. ASSUME NEW j \in 1..a + 1 + n, k + j <= t PROVE b[k + j] = y[j]
  <2>1. CASE j <= a
    <3>1. j \in 1..a /\ j <= a + 1
      BY <2>1
    <3> QED
      BY <1>10, <1>12, <1>13, <3>1
  <2>2. CASE j = a + 1
    <3>1. k + j = m + 1 /\ m + 1 <= t
      BY <1>12, <1>16, <2>2
    <3> QED
      BY <1>10, <1>12, <1>13, <2>2, <3>1
  <2>3. CASE j > a + 1
    <3>1. PICK i \in 1..n : i = j - (a + 1) /\ k + j = m + 1 + i
      <4>1. k + a = m
        BY <1>12
      <4>2. PICK i \in Int : i = j - (a + 1)
        OBVIOUS
      <4>3. 1 <= i /\ i <= n /\ k + j = m + 1 + i
        BY <2>3, <4>1, <4>2
      <4> QED
        BY <4>2, <4>3
    <3>2. ~(j <= a + 1)
      BY <2>3
    <3> QED
      BY <1>13, <1>14, <1>16, <3>1, <3>2
  <2> QED
    BY <2>1, <2>2, <2>3
<1>17. KeptAs(L, S, terms, tip, S, k, b, t, 0)
  BY <1>8, <1>13, <1>15, <1>16, OweNone DEF KeptAs
<1> QED
  BY <1>17 DEF Kept

(* Where what is done begins: behind the slash after the term looked at,   *)
(* or behind the one the path begins with.                                 *)
Left(w, k) == IF k < 0 /\ w[1] = "/" THEN 1 ELSE k + 1

Scanning(g, s, w, b, i, k, t, u) ==
  /\ i \in Int /\ k \in Int /\ -1 <= i /\ i <= k /\ k <= Len(s)
  /\ Left(w, k) <= Len(w)
  /\ Left(w, k) > 0 => w[Left(w, k)] = "/"
  /\ \A j \in i + 1..k : j > 0 => w[j] # "/"
  /\ i < 0 => k = -1 \/ (k = 0 /\ w[1] = "/")
  /\ t + 3 * u <= Len(s)
  /\ Left(w, k) <= t \/ (t = k /\ k = Len(s) /\ u = 0)
  /\ \A j \in 1..Left(w, k) : j <= t => b[j] = w[j]
  /\ Kept(Terms(g), Tip(g), Reading(w)[Left(w, k)].stack, Left(w, k), b, t, u)

Known(g, s, w, b, t, u) ==
  /\ g \in Path /\ g # <<>> /\ WholeFacts(g, s, w)
  /\ b \in Path /\ Len(b) = Len(g) /\ t \in Nat /\ u \in Nat

(* The facts about the two paths that the steps need.                      *)
LEMMA KnownIs ==
  ASSUME NEW g, NEW s, NEW w, NEW b, NEW t, NEW u, Known(g, s, w, b, t, u)
  PROVE  /\ w \in Path /\ Len(w) \in Nat /\ Len(w) >= 1 /\ w[Len(w)] = "/"
         /\ s \in Path /\ Len(s) \in Nat /\ Len(s) >= 1 /\ Len(s) <= Len(b) /\ Len(b) \in Nat
         /\ Tip(g) \in {0, 1} /\ Len(w) = Len(s) + Tip(g)
         /\ \A j \in 1..Len(s) : w[j] = s[j]
         /\ \A j \in 1..Len(w) - 1 : w[j] # "/" \/ w[j + 1] # "/"
         /\ Reading(w)[Len(w)].stack = Terms(g) /\ Terms(g) \in Stacks
         /\ \A j \in 0..Len(w) : Reading(w)[j] \in States /\ Reading(w)[j].stack \in Stacks
         /\ \A j \in 1..Len(w) : Reading(w)[j] = Read(Reading(w)[j - 1], w[j])
         /\ \A j \in 1..Len(w) : w[j] = "/" => Reading(w)[j].now = <<>>
         /\ Reading(w)[0] = Fresh
<1>1. /\ g \in Path /\ b \in Path /\ Len(b) = Len(g) /\ WholeFacts(g, s, w)
  BY DEF Known
<1>2. PICK n \in Nat : n = Len(g) /\ Len(b) = n
  BY <1>1 DEF Path
<1>3. Tip(g) \in {0, 1}
  BY DEF Tip
<1>4. /\ s \in Path /\ Len(s) \in 1..n
      /\ w \in Path /\ Len(w) = Len(s) + Tip(g) /\ w[Len(w)] = "/"
      /\ \A j \in 1..Len(s) : w[j] = s[j]
      /\ \A j \in 1..Len(w) - 1 : w[j] # "/" \/ w[j + 1] # "/"
      /\ Reading(w)[Len(w)].stack = Terms(g) /\ Terms(g) \in Stacks
  BY <1>1, <1>2 DEF WholeFacts
<1>5. /\ \A j \in 0..Len(w) : Reading(w)[j] \in States
      /\ \A j \in 1..Len(w) : Reading(w)[j] = Read(Reading(w)[j - 1], w[j])
      /\ Reading(w)[0] = Fresh
  BY <1>4, ReadingIs
<1>6. \A at \in States : at.stack \in Stacks
  BY DEF States
<1>7. \A j \in 1..Len(w) : w[j] = "/" => Reading(w)[j].now = <<>>
  BY <1>4, AfterSlash
<1>8. Len(w) \in Nat /\ Len(w) >= 1 /\ Len(s) \in Nat /\ Len(s) >= 1 /\ Len(s) <= Len(b)
      /\ Len(b) \in Nat
  BY <1>2, <1>3, <1>4
<1> QED
  BY <1>3, <1>4, <1>5, <1>6, <1>7, <1>8

(* The scan begins at the end of the path, with nothing done.              *)
LEMMA ScanStarts ==
  ASSUME NEW g \in Path, g # <<>>
  PROVE  LET s == WithoutRepeats(g)
             k == DropTrailingSlash(s)
         IN /\ Known(g, s, Whole(g), Over(s, g), Len(s), 0)
            /\ Len(s) <= Len(g)
            /\ Scanning(g, s, Whole(g), Over(s, g), k - 1, k, Len(s), 0)
<1>1. PICK s : s = WithoutRepeats(g)
  OBVIOUS
<1>2. PICK w : w = Whole(g)
  OBVIOUS
<1>3. PICK b : b = Over(s, g)
  OBVIOUS
<1>4. PICK k : k = DropTrailingSlash(s)
  OBVIOUS
<1>5. WholeFacts(g, s, w)
  BY <1>1, <1>2, WholeIs
<1>6. s \in Path /\ Len(s) \in 1..Len(g) /\ Len(g) \in Nat
  BY <1>5 DEF WholeFacts, Path
<1>7. b \in Path /\ Len(b) = Len(g) /\ \A j \in 1..Len(s) : b[j] = s[j]
  <2>1. Len(s) <= Len(g)
    BY <1>6
  <2> QED
    BY <1>3, <1>6, <2>1, OverIs
<1>8. PICK n \in Nat : n = Len(s) /\ n >= 1
  BY <1>6
<1>9. Known(g, s, w, b, n, 0)
  BY <1>5, <1>7 DEF Known
<1>10. /\ k \in 0..n
       /\ k > 0 => s[k] # "/"
       /\ \A j \in k + 1..n : s[j] = "/"
  BY <1>4, <1>6, <1>8, Trailing DEF Path
<1>11. /\ w[Len(w)] = "/" /\ Tip(g) \in {0, 1} /\ Len(w) = n + Tip(g)
       /\ \A j \in 1..n : w[j] = s[j]
       /\ \A j \in 1..Len(w) - 1 : w[j] # "/" \/ w[j + 1] # "/"
       /\ Reading(w)[Len(w)].stack = Terms(g) /\ Terms(g) \in Stacks
  BY <1>8, <1>9, KnownIs
<1>12. k + 1 = n + Tip(g)
  <2>1. CASE Tip(g) = 0
    <3>1. w[n] = "/" /\ s[n] = "/"
      BY <1>8, <1>11, <2>1
    <3>2. k # n
      BY <1>8, <1>10, <3>1
    <3>3. ~(k < n - 1)
      <4>1. ASSUME k < n - 1 PROVE FALSE
        <5>1. n - 1 \in k + 1..n /\ n - 1 \in 1..n /\ n - 1 \in 1..Len(w) - 1 /\ n - 1 + 1 = n
          BY <1>8, <1>10, <1>11, <2>1, <4>1
        <5>2. s[n - 1] = "/" /\ w[n - 1] = "/"
          BY <1>10, <1>11, <5>1
        <5> QED
          BY <1>11, <3>1, <5>1, <5>2
      <4> QED
        BY <4>1
    <3> QED
      BY <1>8, <1>10, <2>1, <3>2, <3>3
  <2>2. CASE Tip(g) = 1
    <3>1. s[n] # "/"
      <4>1. s[Len(s)] = g[Len(g)]
        BY <1>5 DEF WholeFacts
      <4> QED
        BY <1>8, <2>2, <4>1 DEF Tip
    <3>2. ~(k < n)
      <4>1. k < n => n \in k + 1..n
        BY <1>8, <1>10
      <4> QED
        BY <1>10, <3>1, <4>1
    <3> QED
      BY <1>8, <1>10, <2>2, <3>2
  <2> QED
    BY <1>11, <2>1, <2>2
<1>13. Left(w, k) = k + 1 /\ k + 1 = Len(w)
  BY <1>10, <1>11, <1>12 DEF Left
<1>14. Kept(Terms(g), Tip(g), Terms(g), k + 1, b, n, 0)
  <2>1. Tip(g) \in Nat /\ k + 1 \in Nat
    BY <1>10, <1>11
  <2> QED
    BY <1>8, <1>11, <1>12, <2>1, KeptNone
<1>15. \A j \in k - 1 + 1..k : j > 0 => w[j] # "/"
  <2>1. \A j \in k - 1 + 1..k : j = k
    BY <1>10
  <2> QED
    BY <1>10, <1>11, <2>1
<1>16. \A j \in 1..k + 1 : j <= n => b[j] = w[j]
  BY <1>7, <1>8, <1>11
<1>17. k - 1 < 0 => k = -1 \/ (k = 0 /\ w[1] = "/")
  <2>1. ASSUME k - 1 < 0 PROVE k = 0 /\ Len(w) = 1
    BY <1>10, <1>13, <2>1
  <2> QED
    BY <1>11, <2>1
<1>18. k + 1 <= n \/ (n = k /\ k = n /\ 0 = 0)
  BY <1>8, <1>10
<1>19. /\ k - 1 \in Int /\ k \in Int /\ -1 <= k - 1 /\ k - 1 <= k /\ k <= n
       /\ n + 3 * 0 <= n
  BY <1>8, <1>10
<1>20. Scanning(g, s, w, b, k - 1, k, n, 0)
  BY <1>8, <1>11, <1>13, <1>14, <1>15, <1>16, <1>17, <1>18, <1>19 DEF Scanning
<1> QED
  BY <1>1, <1>2, <1>3, <1>4, <1>6, <1>8, <1>9, <1>20

(* What the scan has left alone, and where the term it looks at lies.      *)
LEMMA ScanIs ==
  ASSUME NEW g, NEW s, NEW w, NEW b, NEW i, NEW k, NEW t, NEW u,
         Known(g, s, w, b, t, u), Scanning(g, s, w, b, i, k, t, u), i >= 0
  PROVE  /\ i \in Nat /\ k \in Nat /\ i <= k /\ k <= Len(s) /\ k <= t
         /\ k + 1 <= Len(w) /\ w[k + 1] = "/" /\ Left(w, k) = k + 1
         /\ \A j \in i + 1..k : w[j] # "/"
         /\ t + 3 * u <= Len(s)
         /\ k + 1 <= t \/ (t = k /\ k = Len(s) /\ u = 0)
         /\ \A j \in 1..k : b[j] = w[j]
         /\ k + 1 <= t => b[k + 1] = "/"
         /\ Kept(Terms(g), Tip(g), Reading(w)[k + 1].stack, k + 1, b, t, u)
<1>1. /\ i \in Int /\ k \in Int /\ -1 <= i /\ i <= k /\ k <= Len(s)
      /\ Left(w, k) <= Len(w)
      /\ Left(w, k) > 0 => w[Left(w, k)] = "/"
      /\ \A j \in i + 1..k : j > 0 => w[j] # "/"
      /\ t + 3 * u <= Len(s)
      /\ Left(w, k) <= t \/ (t = k /\ k = Len(s) /\ u = 0)
      /\ \A j \in 1..Left(w, k) : j <= t => b[j] = w[j]
      /\ Kept(Terms(g), Tip(g), Reading(w)[Left(w, k)].stack, Left(w, k), b, t, u)
  BY DEF Scanning
<1>2. t \in Nat /\ i \in Nat /\ k \in Nat
  BY <1>1 DEF Known
<1>3. Left(w, k) = k + 1
  BY <1>2 DEF Left
<1>4. k <= t
  BY <1>1, <1>2, <1>3
<1>5. \A j \in 1..k : b[j] = w[j]
  BY <1>1, <1>2, <1>3, <1>4
<1>6. k + 1 > 0 /\ k + 1 \in 1..k + 1
  BY <1>2
<1>7. w[k + 1] = "/" /\ (k + 1 <= t => b[k + 1] = "/")
  BY <1>1, <1>3, <1>6
<1>8. \A j \in i + 1..k : w[j] # "/"
  BY <1>1, <1>2
<1> QED
  BY <1>1, <1>2, <1>3, <1>4, <1>5, <1>7, <1>8

(* l goes left over a byte that is no slash.                               *)
LEMMA StepLeft ==
  ASSUME NEW g, NEW s, NEW w, NEW b, NEW i, NEW k, NEW t, NEW u,
         Known(g, s, w, b, t, u), Scanning(g, s, w, b, i, k, t, u),
         i > 0, b[i] # "/"
  PROVE  Scanning(g, s, w, b, i - 1, k, t, u)
<1>0. i \in Int
  BY DEF Scanning
<1>1. i >= 0 /\ i \in Nat
  BY <1>0
<1>2. k \in Nat /\ i <= k /\ (\A j \in 1..k : b[j] = w[j]) /\ \A j \in i + 1..k : w[j] # "/"
  BY <1>1, ScanIs
<1>3. \A j \in i - 1 + 1..k : j = i \/ j \in i + 1..k
  BY <1>0, <1>2
<1>4. w[i] # "/"
  <2>1. i \in 1..k
    BY <1>1, <1>2
  <2> QED
    BY <1>2, <2>1
<1>5. \A j \in i - 1 + 1..k : j > 0 => w[j] # "/"
  BY <1>2, <1>3, <1>4
<1>6. i - 1 \in Int /\ -1 <= i - 1 /\ i - 1 <= k /\ ~(i - 1 < 0)
  BY <1>1, <1>2
<1> QED
  BY <1>5, <1>6 DEF Scanning

(* There is no term at l only in front of the slash a path begins with.    *)
LEMMA StepEmpty ==
  ASSUME NEW g, NEW s, NEW w, NEW b, NEW i, NEW k, NEW t, NEW u,
         Known(g, s, w, b, t, u), Scanning(g, s, w, b, i, k, t, u),
         i >= 0, i = 0 \/ b[i] = "/", ~(k > i)
  PROVE  Scanning(g, s, w, b, i - 1, i - 1, t, u)
<1>1. /\ i \in Nat /\ k \in Nat /\ i <= k /\ k + 1 <= Len(w) /\ w[k + 1] = "/"
      /\ Left(w, k) = k + 1 /\ \A j \in 1..k : b[j] = w[j]
  BY ScanIs
<1>2. Len(w) \in Nat /\ \A j \in 1..Len(w) - 1 : w[j] # "/" \/ w[j + 1] # "/"
  BY KnownIs
<1>3. k = i
  BY <1>1
<1>4. i = 0
  <2>1. ASSUME i # 0 PROVE FALSE
    <3>1. i \in 1..Len(w) - 1 /\ i \in 1..k
      BY <1>1, <1>2, <1>3, <2>1
    <3> QED
      BY <1>1, <1>2, <1>3, <2>1, <3>1
  <2> QED
    BY <2>1
<1>5. Left(w, -1) = 1 /\ Left(w, 0) = 1 /\ w[1] = "/"
  BY <1>1, <1>3, <1>4 DEF Left
<1>6. Scanning(g, s, w, b, 0, 0, t, u)
  BY <1>3, <1>4
<1>7. t \in Nat /\ u \in Nat /\ Len(s) \in Nat /\ Len(s) >= 1
  BY KnownIs DEF Known
<1>8. ~(t = 0 /\ 0 = Len(s) /\ u = 0)
  BY <1>7
<1>9. Scanning(g, s, w, b, -1, -1, t, u)
  <2>1. /\ 1 <= Len(w) /\ t + 3 * u <= Len(s) /\ 1 <= t
        /\ \A j \in 1..1 : j <= t => b[j] = w[j]
        /\ Kept(Terms(g), Tip(g), Reading(w)[1].stack, 1, b, t, u)
    BY <1>5, <1>6, <1>8 DEF Scanning
  <2>2. /\ -1 \in Int /\ -1 <= -1 /\ -1 <= Len(s) /\ \A j \in -1 + 1..-1 : FALSE
    BY <1>7
  <2> QED
    BY <1>5, <2>1, <2>2 DEF Scanning
<1> QED
  BY <1>4, <1>9

TermFacts(s, w, b, i, k, term) ==
  /\ term \in Path /\ Len(term) = k - i /\ term # <<>>
  /\ \A j \in 1..Len(term) : term[j] # "/"
  /\ \A j \in 1..k - i : term[j] = b[i + j]
  /\ term = SubSeq(s, i + 1, k)
  /\ Reading(w)[k + 1].stack = Stacked(Reading(w)[i].stack, term)
  /\ i > 0 => w[i] = "/" /\ s[i] = "/"
  /\ \A j \in i + 1..k : s[j] # "/"
  /\ Left(w, i - 1) = i

(* The term between l and r, and what it does to the stack.                *)
LEMMA TermIs ==
  ASSUME NEW g, NEW s, NEW w, NEW b, NEW i, NEW k, NEW t, NEW u,
         Known(g, s, w, b, t, u), Scanning(g, s, w, b, i, k, t, u),
         i >= 0, i = 0 \/ b[i] = "/", k > i,
         NEW term, term = SubSeq(b, i + 1, k)
  PROVE  TermFacts(s, w, b, i, k, term)
<1>1. /\ i \in Nat /\ k \in Nat /\ i <= k /\ k <= Len(s) /\ k <= t
      /\ k + 1 <= Len(w) /\ w[k + 1] = "/"
      /\ \A j \in i + 1..k : w[j] # "/"
      /\ t + 3 * u <= Len(s)
      /\ \A j \in 1..k : b[j] = w[j]
  BY ScanIs
<1>2. /\ w \in Path /\ Len(w) \in Nat /\ s \in Path /\ Len(s) \in Nat /\ Len(s) <= Len(b)
      /\ Len(b) \in Nat
      /\ \A j \in 1..Len(s) : w[j] = s[j]
      /\ \A j \in 0..Len(w) : Reading(w)[j] \in States /\ Reading(w)[j].stack \in Stacks
      /\ \A j \in 1..Len(w) : Reading(w)[j] = Read(Reading(w)[j - 1], w[j])
      /\ \A j \in 1..Len(w) : w[j] = "/" => Reading(w)[j].now = <<>>
      /\ Reading(w)[0] = Fresh
  BY KnownIs
<1>3. b \in Path
  BY DEF Known
<1>4. PICK n \in Nat : n = Len(s) /\ k <= n
  BY <1>1, <1>2
<1>5. \A j \in i + 1..k : b[j] = w[j] /\ b[j] = s[j] /\ s[j] # "/" /\ b[j] \in Bytes
  <2>1. \A j \in i + 1..k : j \in 1..k /\ j \in 1..n /\ j \in 1..Len(b)
    BY <1>1, <1>2, <1>4
  <2>2. \A j \in 1..Len(b) : b[j] \in Bytes
    BY <1>3 DEF Path
  <2> QED
    BY <1>1, <1>2, <1>4, <2>1, <2>2
<1>7. term \in Path /\ Len(term) = k - i /\ \A j \in 1..k - i : term[j] = b[i + j]
  <2>1. /\ term \in Seq(Bytes)
        /\ Len(term) = IF i + 1 <= k THEN k - (i + 1) + 1 ELSE 0
        /\ \A j \in 1..k - (i + 1) + 1 : term[j] = b[i + 1 + j - 1]
    BY <1>1, <1>5, SubSeqProperties
  <2>2. k - (i + 1) + 1 = k - i /\ \A j \in 1..k - i : i + 1 + j - 1 = i + j
    BY <1>1
  <2> QED
    BY <1>1, <2>1, <2>2 DEF Path
<1>8. \A x \in {w, s} : SubSeq(x, i + 1, k) = term
  <2>1. ASSUME NEW x \in {w, s} PROVE SubSeq(x, i + 1, k) = term
    <3>1. \A j \in i + 1..k : x[j] = b[j] /\ x[j] \in Bytes
      BY <1>5
    <3>2. PICK y : y = SubSeq(x, i + 1, k)
      OBVIOUS
    <3>3. /\ y \in Seq(Bytes)
          /\ Len(y) = IF i + 1 <= k THEN k - (i + 1) + 1 ELSE 0
          /\ \A j \in 1..k - (i + 1) + 1 : y[j] = x[i + 1 + j - 1]
      BY <1>1, <3>1, <3>2, SubSeqProperties
    <3>4. Len(y) = k - i /\ \A j \in 1..k - i : y[j] = x[i + j]
      <4>1. k - (i + 1) + 1 = k - i /\ \A j \in 1..k - i : i + 1 + j - 1 = i + j
        BY <1>1
      <4> QED
        BY <1>1, <3>3, <4>1
    <3>5. \A j \in 1..k - i : i + j \in i + 1..k
      BY <1>1
    <3>6. \A j \in 1..Len(y) : y[j] = term[j]
      BY <1>7, <3>1, <3>4, <3>5
    <3>7. Len(y) = Len(term) /\ term \in Seq(Bytes)
      BY <1>7, <3>4 DEF Path
    <3> QED
      BY <3>2, <3>3, <3>6, <3>7, SeqEqual
  <2> QED
    BY <2>1
<1>9. i > 0 => w[i] = "/" /\ s[i] = "/"
  <2>1. ASSUME i > 0 PROVE w[i] = "/" /\ s[i] = "/"
    <3>1. i \in 1..k /\ i \in 1..n
      BY <1>1, <1>4, <2>1
    <3>2. b[i] = "/"
      BY <2>1
    <3> QED
      BY <1>1, <1>2, <1>4, <3>1, <3>2
  <2> QED
    BY <2>1
<1>10. Reading(w)[k].stack = Reading(w)[i].stack /\ Reading(w)[k].now = term
  <2>1. i \in 0..Len(w) /\ k \in i..Len(w)
    BY <1>1, <1>2
  <2>2. Reading(w)[i].now = <<>>
    <3>1. CASE i = 0
      BY <1>2, <3>1 DEF Fresh
    <3>2. CASE i > 0
      <4>1. i \in 1..Len(w)
        BY <1>1, <1>2, <3>2
      <4> QED
        BY <1>2, <1>9, <3>2, <4>1
    <3> QED
      BY <1>1, <3>1, <3>2
  <2>3. Reading(w)[k].now = SubSeq(w, i + 1, k)
    BY <1>1, <1>2, <2>1, <2>2, ReadingTerm
  <2>4. Reading(w)[k].stack = Reading(w)[i].stack
    BY <1>1, <1>2, <2>1, <2>2, ReadingTerm
  <2> QED
    BY <1>8, <2>3, <2>4
<1>11. Reading(w)[k + 1].stack = Stacked(Reading(w)[i].stack, term)
  <2>1. k + 1 \in 1..Len(w) /\ k + 1 - 1 = k /\ k \in 0..Len(w)
    BY <1>1, <1>2
  <2>2. Reading(w)[k + 1] = Read(Reading(w)[k], "/") /\ Reading(w)[k] \in States
    BY <1>1, <1>2, <2>1
  <2>3. Reading(w)[k + 1].stack = Stacked(Reading(w)[k].stack, Reading(w)[k].now)
    BY <2>2, ReadIs DEF Bytes
  <2> QED
    BY <1>10, <2>3
<1>12. Left(w, i - 1) = i
  <2>1. CASE i = 0
    <3>1. w[1] # "/"
      <4>1. 1 \in i + 1..k
        BY <1>1, <2>1
      <4> QED
        BY <1>1, <4>1
    <3> QED
      BY <2>1, <3>1 DEF Left
  <2>2. CASE i # 0
    BY <1>1, <2>2 DEF Left
  <2> QED
    BY <2>1, <2>2
<1>13. \A j \in 1..k - i : term[j] # "/"
  <2>1. \A j \in 1..k - i : i + j \in i + 1..k
    BY <1>1
  <2> QED
    BY <1>5, <1>7, <2>1
<1>14. term # <<>>
  <2>1. Len(term) # 0
    BY <1>1, <1>7
  <2> QED
    BY <2>1
<1> QED
  BY <1>5, <1>7, <1>8, <1>9, <1>11, <1>12, <1>13, <1>14 DEF TermFacts

(* What the scan goes on from, left of a term.                             *)
LEMMA ScanGoesOn ==
  ASSUME NEW g, NEW s, NEW w, NEW b, NEW i, NEW k, NEW t, NEW u, NEW c, NEW v, NEW x,
         Known(g, s, w, b, t, u), Scanning(g, s, w, b, i, k, t, u),
         i >= 0, i = 0 \/ b[i] = "/", k > i,
         v \in Nat, i <= v, v + 3 * x <= Len(s),
         \A j \in 1..i : c[j] = b[j],
         Kept(Terms(g), Tip(g), Reading(w)[i].stack, i, c, v, x)
  PROVE  Scanning(g, s, w, c, i - 1, i - 1, v, x)
<1>1. /\ i \in Nat /\ k \in Nat /\ i <= k /\ k <= Len(s) /\ k + 1 <= Len(w)
      /\ \A j \in 1..k : b[j] = w[j]
  BY ScanIs
<1>2. Left(w, i - 1) = i /\ (i > 0 => w[i] = "/")
  <2>1. TermFacts(s, w, b, i, k, SubSeq(b, i + 1, k))
    BY TermIs
  <2> QED
    BY <2>1 DEF TermFacts
<1>3. Len(w) \in Nat /\ Len(s) \in Nat
  BY KnownIs
<1>4. \A j \in 1..i : c[j] = w[j]
  <2>1. \A j \in 1..i : j \in 1..k
    BY <1>1
  <2> QED
    BY <1>1, <2>1
<1>5. /\ i - 1 \in Int /\ -1 <= i - 1 /\ i - 1 <= i - 1 /\ i - 1 <= Len(s) /\ i <= Len(w)
      /\ \A j \in i - 1 + 1..i - 1 : FALSE
      /\ i - 1 < 0 => i - 1 = -1
  BY <1>1, <1>3
<1> QED
  BY <1>2, <1>4, <1>5 DEF Scanning

(* A name that nothing takes out stays where it is.                        *)
LEMMA StepKeep ==
  ASSUME NEW g, NEW s, NEW w, NEW b, NEW i, NEW k, NEW t,
         Known(g, s, w, b, t, 0), Scanning(g, s, w, b, i, k, t, 0),
         i >= 0, i = 0 \/ b[i] = "/", k > i, SubSeq(b, i + 1, k) \notin {Up, Here}
  PROVE  Scanning(g, s, w, b, i - 1, i - 1, t, 0)
<1>1. /\ i \in Nat /\ k \in Nat /\ i <= k /\ k <= t /\ k <= Len(s)
      /\ k + 1 <= Len(w) /\ t + 3 * 0 <= Len(s)
      /\ k + 1 <= t => b[k + 1] = "/"
      /\ Kept(Terms(g), Tip(g), Reading(w)[k + 1].stack, k + 1, b, t, 0)
  BY ScanIs
<1>2. PICK term : term = SubSeq(b, i + 1, k)
  OBVIOUS
<1>3. /\ term \in Path /\ Len(term) = k - i /\ term # <<>>
      /\ \A j \in 1..Len(term) : term[j] # "/"
      /\ \A j \in 1..k - i : term[j] = b[i + j]
      /\ Reading(w)[k + 1].stack = Stacked(Reading(w)[i].stack, term)
  <2>1. TermFacts(s, w, b, i, k, term)
    BY <1>2, TermIs
  <2> QED
    BY <2>1 DEF TermFacts
<1>4. term \in Names
  BY <1>2, <1>3 DEF Names
<1>5. PICK S \in Stacks : S = Reading(w)[i].stack
  <2>1. i \in 0..Len(w)
    BY <1>1, KnownIs
  <2> QED
    BY <2>1, KnownIs
<1>6. Stacked(S, term) = Append(S, term)
  <2>1. term \notin {<<>>, Here, Up}
    BY <1>2, <1>3
  <2> QED
    BY <1>3, <2>1, StackedIs
<1>7. t \in Nat /\ Tip(g) \in Nat
  BY DEF Known, Tip
<1>8. Kept(Terms(g), Tip(g), S, i, b, t, 0)
  <2>1. Kept(Terms(g), Tip(g), Append(S, term), k + 1, b, t, 0)
    BY <1>1, <1>3, <1>5, <1>6
  <2>2. i + Len(term) = k /\ \A j \in 1..Len(term) : b[i + j] = term[j]
    BY <1>1, <1>3
  <2> QED
    BY <1>1, <1>4, <1>7, <2>1, <2>2, KeptName
<1>9. i <= t /\ 0 \in Nat /\ \A j \in 1..i : b[j] = b[j]
  BY <1>1, <1>7
<1> QED
  BY <1>1, <1>5, <1>7, <1>8, <1>9, ScanGoesOn

(* The count of bytes that move down is not negative: only the last term   *)
(* can have no slash behind it, and that one is no ".." and no ".".        *)
LEMMA SlashFollows ==
  ASSUME NEW g, NEW s, NEW w, NEW b, NEW i, NEW k, NEW t, NEW u,
         s = WithoutRepeats(g), LastTerm(g) \notin {Up, Here},
         Known(g, s, w, b, t, u), Scanning(g, s, w, b, i, k, t, u),
         i >= 0, i = 0 \/ b[i] = "/", k > i,
         SubSeq(b, i + 1, k) \in {Up, Here} \/ u > 0
  PROVE  k + 1 <= t
<1>1. /\ i \in Nat /\ k \in Nat /\ k <= Len(s)
      /\ k + 1 <= t \/ (t = k /\ k = Len(s) /\ u = 0)
  BY ScanIs
<1>2. SUFFICES ASSUME k = Len(s), u = 0 PROVE FALSE
  BY <1>1
<1>3. PICK term : term = SubSeq(b, i + 1, k)
  OBVIOUS
<1>4. /\ term = SubSeq(s, i + 1, k)
      /\ i > 0 => s[i] = "/"
      /\ \A j \in i + 1..k : s[j] # "/"
  <2>1. TermFacts(s, w, b, i, k, term)
    BY <1>3, TermIs
  <2> QED
    BY <2>1 DEF TermFacts
<1>5. g \in Path /\ g # <<>>
  BY DEF Known
<1>6. term = LastTerm(g)
  <2>1. i < Len(s) /\ \A j \in i + 1..Len(s) : s[j] # "/"
    BY <1>1, <1>2, <1>4
  <2>2. SubSeq(s, i + 1, Len(s)) = LastTerm(g)
    BY <1>1, <1>4, <1>5, <2>1, LastTermKept
  <2> QED
    BY <1>2, <1>4, <2>2
<1>7. ~(u > 0)
  BY <1>2
<1>8. term \in {Up, Here}
  BY <1>3, <1>7
<1> QED
  BY <1>6, <1>8

(* A term is taken out.                                                    *)
LEMMA StepTake ==
  ASSUME NEW g, NEW s, NEW w, NEW b, NEW i, NEW k, NEW t, NEW u, NEW x,
         Known(g, s, w, b, t, u), Scanning(g, s, w, b, i, k, t, u),
         i >= 0, i = 0 \/ b[i] = "/", k > i, k + 1 <= t,
         LET term == SubSeq(b, i + 1, k)
         IN \/ term = Up /\ x = u + 1
            \/ term = Here /\ x = u
            \/ term \notin {Up, Here} /\ u > 0 /\ x = u - 1
  PROVE  LET c == Over(SubSeq(b, 1, i) \o SubSeq(b, k + 2, t), b)
             v == t - (k - i + 1)
         IN Known(g, s, w, c, v, x) /\ Scanning(g, s, w, c, i - 1, i - 1, v, x)
<1>1. /\ i \in Nat /\ k \in Nat /\ i <= k /\ k <= t /\ k <= Len(s)
      /\ k + 1 <= Len(w) /\ t + 3 * u <= Len(s)
      /\ Kept(Terms(g), Tip(g), Reading(w)[k + 1].stack, k + 1, b, t, u)
  BY ScanIs
<1>2. PICK term : term = SubSeq(b, i + 1, k)
  OBVIOUS
<1>3. /\ term \in Path /\ Len(term) = k - i /\ term # <<>>
      /\ \A j \in 1..Len(term) : term[j] # "/"
      /\ Reading(w)[k + 1].stack = Stacked(Reading(w)[i].stack, term)
  <2>1. TermFacts(s, w, b, i, k, term)
    BY <1>2, TermIs
  <2> QED
    BY <2>1 DEF TermFacts
<1>4. PICK S \in Stacks : S = Reading(w)[i].stack
  <2>1. i \in 0..Len(w)
    BY <1>1, KnownIs
  <2> QED
    BY <2>1, KnownIs
<1>5. t \in Nat /\ u \in Nat /\ Tip(g) \in Nat /\ b \in Path
  BY DEF Known, Tip
<1>6. PICK c : c = Over(SubSeq(b, 1, i) \o SubSeq(b, k + 2, t), b)
  OBVIOUS
<1>7. PICK v \in Nat : v = t - (k - i + 1) /\ i <= v
  BY <1>1, <1>5
<1>8. t <= Len(b)
  <2>1. Len(s) \in Nat /\ Len(s) <= Len(b) /\ Len(b) \in Nat
    BY KnownIs
  <2> QED
    BY <1>1, <1>5, <2>1
<1>9. /\ c \in Path /\ Len(c) = Len(b) /\ \A j \in 1..i : c[j] = b[j]
      /\ \A j \in 1..t - k - 1 : c[i + j] = b[k + 1 + j]
  <2>1. MovedDown(b, c, i, k, t)
    BY <1>1, <1>5, <1>6, <1>8, TakenOut
  <2> QED
    BY <2>1 DEF MovedDown
<1>10. Kept(Terms(g), Tip(g), Stacked(S, term), i, c, v, u)
  <2>1. Kept(Terms(g), Tip(g), Stacked(S, term), k + 1, b, t, u)
    BY <1>1, <1>3, <1>4
  <2>2. /\ \A j \in 1..t - k - 1 : c[i + j] = b[k + 1 + j]
        /\ v = t - (k - i + 1)
    BY <1>7, <1>9
  <2>3. i \in Nat /\ k \in Nat /\ i <= k /\ t \in Nat /\ Tip(g) \in Nat
    BY <1>1, <1>5
  <2> QED
    BY <2>1, <2>2, <2>3, KeptMoved
<1>11. CASE term = Up /\ x = u + 1
  <2>1. Kept(Terms(g), Tip(g), S, i, c, v, x)
    BY <1>5, <1>10, <1>11, KeptUp
  <2>2. v + 3 * x <= Len(s) /\ x \in Nat
    <3>1. k - i = 2
      BY <1>3, <1>11, Terminals
    <3>2. Len(s) \in Nat
      BY KnownIs
    <3> QED
      BY <1>1, <1>5, <1>7, <1>11, <3>1, <3>2
  <2>3. Scanning(g, s, w, c, i - 1, i - 1, v, x)
    BY <1>4, <1>7, <1>9, <2>1, <2>2, ScanGoesOn
  <2>4. Known(g, s, w, c, v, x)
    BY <1>7, <1>9, <2>2 DEF Known
  <2> QED
    BY <1>6, <1>7, <2>3, <2>4
<1>12. CASE term = Here /\ x = u
  <2>1. Stacked(S, term) = S
    BY <1>3, <1>12, StackedIs
  <2>2. Kept(Terms(g), Tip(g), S, i, c, v, x)
    BY <1>10, <1>12, <2>1
  <2>3. v + 3 * x <= Len(s) /\ x \in Nat
    <3>1. Len(s) \in Nat
      BY KnownIs
    <3> QED
      BY <1>1, <1>5, <1>7, <1>12, <3>1
  <2>4. Scanning(g, s, w, c, i - 1, i - 1, v, x)
    BY <1>4, <1>7, <1>9, <2>2, <2>3, ScanGoesOn
  <2>5. Known(g, s, w, c, v, x)
    BY <1>7, <1>9, <2>3 DEF Known
  <2> QED
    BY <1>6, <1>7, <2>4, <2>5
<1>13. CASE term \notin {Up, Here} /\ u > 0 /\ x = u - 1
  <2>1. Stacked(S, term) = Append(S, term) /\ term \in Names
    <3>1. term \notin {<<>>, Here, Up}
      BY <1>3, <1>13
    <3> QED
      BY <1>3, <3>1, StackedIs DEF Names
  <2>2. Kept(Terms(g), Tip(g), S, i, c, v, x)
    BY <1>5, <1>10, <1>13, <2>1, KeptTaken
  <2>3. v + 3 * x <= Len(s) /\ x \in Nat
    <3>1. Len(s) \in Nat
      BY KnownIs
    <3> QED
      BY <1>1, <1>5, <1>7, <1>13, <3>1
  <2>4. Scanning(g, s, w, c, i - 1, i - 1, v, x)
    BY <1>4, <1>7, <1>9, <2>2, <2>3, ScanGoesOn
  <2>5. Known(g, s, w, c, v, x)
    BY <1>7, <1>9, <2>3 DEF Known
  <2> QED
    BY <1>6, <1>7, <2>4, <2>5
<1> QED
  BY <1>2, <1>11, <1>12, <1>13

(* A term that stays does not begin with a slash.                          *)
LEMMA SlashedFirst ==
  ASSUME NEW K \in Seq(Names), K # <<>>
  PROVE  Len(Slashed(K)) >= 1 /\ Slashed(K)[1] # "/"
<1>1. K = <<K[1]>> \o Tail(K) /\ Tail(K) \in Seq(Names) /\ K[1] \in Names
  <2>1. Len(K) \in Nat /\ Len(K) # 0
    OBVIOUS
  <2>2. SubSeq(K, 1, Len(K)) = <<K[1]>> \o SubSeq(K, 1 + 1, Len(K))
    BY <2>1, SubSeqRecursiveFirst
  <2>3. SubSeq(K, 1, Len(K)) = K
    BY SubSeqFull
  <2>4. Tail(K) = SubSeq(K, 1 + 1, Len(K)) /\ Tail(K) \in Seq(Names) /\ K[1] \in Names
    BY HeadTailProperties, TailIsSubSeq
  <2> QED
    BY <2>2, <2>3, <2>4
<1>2. PICK name \in Path : name = K[1] /\ Len(name) \in Nat \ {0} /\ name[1] # "/"
  <2>1. /\ K[1] \in Path /\ K[1] # <<>> /\ \A i \in 1..Len(K[1]) : K[1][i] # "/"
    BY <1>1 DEF Names
  <2>2. PICK name \in Path : name = K[1]
    BY <2>1
  <2>3. Len(name) \in Nat \ {0}
    BY <2>1, <2>2, EmptySeq DEF Path
  <2>4. 1 \in 1..Len(name)
    BY <2>3
  <2> QED
    BY <2>1, <2>2, <2>3, <2>4
<1>3. PICK q \in Stacks : q = Tail(K)
  BY <1>1, NamesAreTerms
<1>4. PICK p \in Stacks : p = <<name>> /\ Slashed(p) = Ended(name)
  BY SlashedOne
<1>5. Slashed(K) = Ended(name) \o Slashed(q)
  <2>1. Slashed(p \o q) = Slashed(p) \o Slashed(q)
    BY SlashedConcat
  <2> QED
    BY <1>1, <1>2, <1>3, <1>4, <2>1
<1>6. PICK e \in Path : e = Ended(name) /\ Len(e) = Len(name) + 1 /\ e[1] = name[1]
  <2>1. 1 \in 1..Len(name)
    BY <1>2
  <2> QED
    BY <2>1, EndedIs
<1>7. PICK x \in Path : x = Slashed(q)
  BY SlashedPath
<1>8. /\ Len(e \o x) = Len(e) + Len(x)
      /\ \A j \in 1..Len(e) + Len(x) : (e \o x)[j] = IF j <= Len(e) THEN e[j]
                                                     ELSE x[j - Len(e)]
  BY Joined
<1>9. Len(x) \in Nat /\ 1 \in 1..Len(e) + Len(x) /\ 1 <= Len(e)
  BY <1>2, <1>6 DEF Path
<1> QED
  BY <1>2, <1>5, <1>6, <1>7, <1>8, <1>9

(* The first bytes of a path.                                              *)
LEMMA Cut ==
  ASSUME NEW x \in Path, NEW n \in Nat, n <= Len(x)
  PROVE  /\ SubSeq(x, 1, n) \in Path /\ Len(SubSeq(x, 1, n)) = n
         /\ \A j \in 1..n : SubSeq(x, 1, n)[j] = x[j]
<1>1. PICK m \in Nat : m = Len(x) /\ n <= m
  BY DEF Path
<1>2. \A j \in 1..n : x[j] \in Bytes
  BY <1>1 DEF Path
<1>3. PICK y : y = SubSeq(x, 1, n)
  OBVIOUS
<1>4. /\ y \in Seq(Bytes) /\ Len(y) = IF 1 <= n THEN n - 1 + 1 ELSE 0
      /\ \A j \in 1..n - 1 + 1 : y[j] = x[1 + j - 1]
  BY <1>2, <1>3, SubSeqProperties
<1>5. n - 1 + 1 = n /\ \A j \in 1..n : 1 + j - 1 = j
  OBVIOUS
<1>6. Len(y) = n
  BY <1>4, <1>5
<1> QED
  BY <1>3, <1>4, <1>5, <1>6 DEF Path

(* Without its last byte.                                                  *)
LEMMA FrontOfJoined ==
  ASSUME NEW a \in Path, NEW x \in Path, x # <<>>
  PROVE  Front(a \o x) = a \o SubSeq(x, 1, Len(x) - 1)
<1>1. PICK n \in Nat : n = Len(x) /\ n >= 1
  BY EmptySeq DEF Path
<1>2. PICK f \in Path : f = SubSeq(x, 1, n - 1)
  <2>1. n - 1 \in Nat /\ n - 1 <= Len(x)
    BY <1>1
  <2> QED
    BY <2>1, Cut
<1>3. x = Append(f, x[n]) /\ x[n] \in Bytes
  <2>1. 1 \in 1..Len(x) /\ Len(x) \in 1..Len(x) /\ x[n] \in Bytes
    BY <1>1 DEF Path
  <2>2. SubSeq(x, 1, Len(x)) = SubSeq(x, 1, Len(x) - 1) \o <<x[Len(x)]>>
    BY <2>1, SubSeqRecursiveSecond DEF Path
  <2>3. SubSeq(x, 1, Len(x)) = x
    BY SubSeqFull DEF Path
  <2>4. f \o <<x[n]>> = Append(f, x[n])
    BY <2>1, AppendIsConcat DEF Path
  <2> QED
    BY <1>1, <1>2, <2>1, <2>2, <2>3, <2>4
<1>4. PICK c \in Bytes : c = x[n]
  BY <1>3
<1>5. a \o x = Append(a \o f, c)
  <2>1. <<c>> \in Path /\ a \o f \in Path
    BY Joined DEF Path
  <2>2. a \o (f \o <<c>>) = (a \o f) \o <<c>>
    BY <2>1, Regroup
  <2>3. f \o <<c>> = Append(f, c) /\ (a \o f) \o <<c>> = Append(a \o f, c)
    BY <2>1, AppendIsConcat DEF Path
  <2> QED
    BY <1>3, <1>4, <2>2, <2>3
<1>6. Front(Append(a \o f, c)) = a \o f
  <2>1. PICK h \in Path : h = a \o f
    BY Joined
  <2> QED
    BY <2>1, LastAppended DEF Path
<1> QED
  BY <1>1, <1>2, <1>5, <1>6

(* What an absolute path begins with.                                      *)
Lead(w) == IF w[1] = "/" THEN <<"/">> ELSE <<>>

Finished(g, w, b, t, u) ==
  \E K \in Seq(Names) :
    LET x == Slashed(K) IN
    /\ Terms(g) = Ups(u) \o K
    /\ Tip(g) <= Len(x)
    /\ SubSeq(b, 1, t) = Lead(w) \o SubSeq(x, 1, Len(x) - Tip(g))
    /\ t = Len(Lead(w)) + (Len(x) - Tip(g))

(* When l is in front of the path, the terms kept are all there is but for *)
(* the ".."s that are owed.                                                *)
LEMMA ScanEnds ==
  ASSUME NEW g, NEW s, NEW w, NEW b, NEW i, NEW k, NEW t, NEW u,
         Known(g, s, w, b, t, u), Scanning(g, s, w, b, i, k, t, u), i < 0
  PROVE  Finished(g, w, b, t, u)
<1>1. /\ i \in Int /\ k \in Int /\ -1 <= i /\ i <= k /\ k <= Len(s)
      /\ Left(w, k) > 0 => w[Left(w, k)] = "/"
      /\ k = -1 \/ (k = 0 /\ w[1] = "/")
      /\ t + 3 * u <= Len(s)
      /\ Left(w, k) <= t \/ (t = k /\ k = Len(s) /\ u = 0)
      /\ \A j \in 1..Left(w, k) : j <= t => b[j] = w[j]
      /\ Kept(Terms(g), Tip(g), Reading(w)[Left(w, k)].stack, Left(w, k), b, t, u)
  BY DEF Scanning
<1>2. /\ w \in Path /\ Len(w) \in Nat /\ Len(w) >= 1
      /\ Len(s) \in Nat /\ Len(s) >= 1 /\ Len(s) <= Len(b) /\ Len(b) \in Nat
      /\ Tip(g) \in {0, 1}
      /\ \A j \in 1..Len(w) : Reading(w)[j] = Read(Reading(w)[j - 1], w[j])
      /\ Reading(w)[0] = Fresh
  BY KnownIs
<1>3. t \in Nat /\ u \in Nat /\ b \in Path
  BY DEF Known
<1>4. PICK left \in {0, 1} : /\ left = Left(w, k) /\ (left = 1 <=> w[1] = "/")
  <2>1. Left(w, k) = IF w[1] = "/" THEN 1 ELSE 0
    BY <1>1 DEF Left
  <2> QED
    BY <2>1
<1>5. left <= t
  BY <1>1, <1>2, <1>4
<1>6. Fresh.stack = <<>> /\ Fresh.now = <<>> /\ Fresh \in States
  BY Terminals DEF Fresh, States, Stacks
<1>7. Reading(w)[left].stack = <<>>
  <2>1. CASE left = 0
    BY <1>2, <1>6, <2>1
  <2>2. CASE left = 1
    <3>1. 1 \in 1..Len(w) /\ 1 - 1 = 0
      BY <1>2
    <3>2. Reading(w)[1] = Read(Fresh, "/")
      BY <1>2, <1>4, <2>2, <3>1
    <3> QED
      BY <1>6, <2>2, <3>2, ReadSlashes
  <2> QED
    BY <2>1, <2>2
<1>8. PICK K \in Seq(Names), R \in Stacks :
        KeptAs(K, R, Terms(g), Tip(g), <<>>, left, b, t, u)
  BY <1>1, <1>4, <1>7 DEF Kept
<1>9. PICK x \in Path : x = Slashed(K)
  BY NamesAreTerms, SlashedPath
<1>10. PICK n \in Nat : n = Len(x)
  BY DEF Path
<1>11. /\ Owing(<<>>, u, R) /\ R \o K = Terms(g)
       /\ left + n = t + Tip(g)
       /\ \A j \in 1..n : left + j <= t => b[left + j] = x[j]
  BY <1>8, <1>9, <1>10 DEF KeptAs
<1>12. Terms(g) = Ups(u) \o K
  BY <1>3, <1>11, OweUps
<1>13. PICK m \in Nat : m = n - Tip(g) /\ t = left + m /\ m <= n
  <2>1. PICK m \in Nat : m = t - left
    BY <1>3, <1>5
  <2>2. m = n - Tip(g) /\ t = left + m /\ m <= n
    BY <1>2, <1>3, <1>5, <1>10, <1>11, <2>1
  <2> QED
    BY <2>2
<1>14. PICK z \in Path : z = SubSeq(x, 1, m) /\ Len(z) = m /\ \A j \in 1..m : z[j] = x[j]
  BY <1>10, <1>13, Cut
<1>15. PICK d \in Path : d = Lead(w) /\ Len(d) = left /\ (left = 1 => d[1] = "/")
  <2>1. <<"/">> \in Path /\ <<>> \in Path
    BY Terminals DEF Path, Bytes
  <2>2. Len(<<"/">>) = 1 /\ Len(<<>>) = 0 /\ <<"/">>[1] = "/"
    OBVIOUS
  <2>3. CASE w[1] = "/"
    BY <1>4, <2>1, <2>2, <2>3 DEF Lead
  <2>4. CASE w[1] # "/"
    BY <1>4, <2>1, <2>2, <2>4 DEF Lead
  <2> QED
    BY <2>3, <2>4
<1>16. PICK p \in Path : p = SubSeq(b, 1, t) /\ Len(p) = t /\ \A j \in 1..t : p[j] = b[j]
  <2>1. t <= Len(b)
    BY <1>1, <1>2, <1>3
  <2> QED
    BY <1>3, <2>1, Cut
<1>17. p = d \o z
  <2>1. PICK h \in Path : /\ h = d \o z /\ Len(h) = left + m
                          /\ \A j \in 1..left + m : h[j] = IF j <= left THEN d[j]
                                                           ELSE z[j - left]
    <3>1. /\ d \o z \in Path /\ Len(d \o z) = Len(d) + Len(z)
          /\ \A j \in 1..Len(d) + Len(z) : (d \o z)[j] = IF j <= Len(d) THEN d[j]
                                                         ELSE z[j - Len(d)]
      BY Joined
    <3>2. Len(d) = left /\ Len(z) = m
      BY <1>14, <1>15
    <3> QED
      BY <3>1, <3>2
  <2>2. ASSUME NEW j \in 1..t PROVE p[j] = h[j]
    <3>1. CASE j <= left
      <4>1. j = 1 /\ left = 1 /\ j \in 1..left
        BY <3>1
      <4>2. b[1] = "/"
        BY <1>1, <1>4, <1>5, <4>1
      <4> QED
        <5>1. j \in 1..left + m /\ j <= left
          BY <1>13, <4>1
        <5>2. h[j] = d[1] /\ d[1] = "/"
          BY <1>15, <2>1, <4>1, <5>1
        <5> QED
          BY <1>16, <4>1, <4>2, <5>2
    <3>2. CASE ~(j <= left)
      <4>1. PICK a \in 1..m : a = j - left /\ j = left + a
        <5>1. j - left \in 1..m /\ j = left + (j - left)
          BY <1>13, <3>2
        <5> QED
          BY <5>1
      <4>2. a \in 1..n /\ left + a <= t
        BY <1>13, <4>1
      <4>3. b[j] = x[a]
        BY <1>11, <4>1, <4>2
      <4> QED
        BY <1>13, <1>14, <1>16, <2>1, <3>2, <4>1, <4>3
    <3> QED
      BY <3>1, <3>2
  <2>3. Len(p) = Len(h)
    BY <1>13, <1>16, <2>1
  <2> QED
    BY <1>16, <2>1, <2>2, <2>3, SeqEqual DEF Path
<1>18. Tip(g) <= n
  BY <1>2, <1>10, <1>13
<1> QED
  BY <1>9, <1>10, <1>12, <1>13, <1>14, <1>15, <1>16, <1>17, <1>18 DEF Finished

(* Concatenation with nothing.                                             *)
LEMMA NothingAdded ==
  ASSUME NEW x \in Path
  PROVE  <<>> \o x = x /\ x \o <<>> = x
BY ConcatEmptySeq DEF Path

(* An absolute path that leads above the root.                             *)
Above(b, t, u) == t > 0 /\ b[1] = "/" /\ u > 0

Outcome(g, b, t, u) ==
  Normal(g) = IF Above(b, t, u) THEN <<>> ELSE Slashed(Ups(u)) \o SubSeq(b, 1, t)

(* So what Recover leaves is the normal form.                              *)
LEMMA NormalIs ==
  ASSUME NEW g, NEW s, NEW w, NEW b, NEW t, NEW u,
         Known(g, s, w, b, t, u), Finished(g, w, b, t, u), t <= Len(b)
  PROVE  Outcome(g, b, t, u)
<1>1. PICK K \in Seq(Names) :
        LET x == Slashed(K) IN
        /\ Terms(g) = Ups(u) \o K
        /\ Tip(g) <= Len(x)
        /\ SubSeq(b, 1, t) = Lead(w) \o SubSeq(x, 1, Len(x) - Tip(g))
        /\ t = Len(Lead(w)) + (Len(x) - Tip(g))
  BY DEF Finished
<1>2. K \in Stacks
  BY NamesAreTerms
<1>3. PICK x \in Path : x = Slashed(K)
  BY <1>2, SlashedPath
<1>4. PICK n \in Nat : n = Len(x)
  BY DEF Path
<1>5. PICK tip \in {0, 1} : tip = Tip(g)
  BY DEF Tip
<1>6. tip <= n /\ n - tip \in Nat /\ n - tip <= Len(x)
  <2>1. tip <= n
    BY <1>1, <1>3, <1>4, <1>5
  <2>2. n - tip \in Nat /\ n - tip <= n
    BY <2>1
  <2> QED
    BY <1>4, <2>1, <2>2
<1>7. PICK z \in Path : /\ z = SubSeq(x, 1, n - tip) /\ Len(z) = n - tip
                        /\ \A j \in 1..n - tip : z[j] = x[j]
  BY <1>6, Cut
<1>8. PICK p \in Path : p = SubSeq(b, 1, t) /\ \A j \in 1..t : p[j] = b[j]
  <2>1. b \in Path /\ t \in Nat
    BY DEF Known
  <2> QED
    BY <2>1, Cut
<1>9. /\ Terms(g) = Ups(u) \o K
      /\ p = Lead(w) \o z
      /\ t = Len(Lead(w)) + (n - tip)
  BY <1>1, <1>3, <1>4, <1>5, <1>7, <1>8
<1>10. /\ u \in Nat /\ t \in Nat /\ g \in Path /\ g # <<>> /\ w[1] = g[1]
  <2>1. /\ u \in Nat /\ t \in Nat /\ g \in Path /\ g # <<>> /\ WholeFacts(g, s, w)
    BY DEF Known
  <2>2. Len(s) \in 1..Len(g) /\ s[1] = g[1] /\ \A j \in 1..Len(s) : w[j] = s[j]
    BY <2>1 DEF WholeFacts
  <2>3. 1 \in 1..Len(s)
    BY <2>2
  <2> QED
    BY <2>1, <2>2, <2>3
<1>11. /\ Ups(u) \in Stacks /\ Len(Ups(u)) = u /\ \A j \in 1..u : Ups(u)[j] = Up
  BY <1>10, SlashedUps
<1>12. PICK y \in Path : y = Slashed(Ups(u))
  BY <1>11, SlashedPath
<1>13. Slashed(Terms(g)) = y \o x
  BY <1>2, <1>3, <1>9, <1>11, <1>12, SlashedConcat
<1> DEFINE body == Slashed(Terms(g))
           keep == IF body = <<>> \/ g[Len(g)] = "/" THEN body ELSE Front(body)
<1>14. keep = y \o z
  <2>1. CASE tip = 0
    <3>1. g[Len(g)] = "/"
      BY <1>5, <2>1 DEF Tip
    <3>2. z = x
      <4>1. SubSeq(x, 1, Len(x)) = x
        BY SubSeqFull DEF Path
      <4> QED
        BY <1>4, <1>7, <2>1, <4>1
    <3> QED
      BY <1>13, <3>1, <3>2
  <2>2. CASE tip = 1
    <3>1. g[Len(g)] # "/"
      BY <1>5, <2>2 DEF Tip
    <3>2. x # <<>>
      BY <1>4, <1>6, <2>2
    <3>3. PICK q \in Path : q = y \o x /\ q # <<>>
      <4>1. y \o x \in Path /\ Len(y \o x) = Len(y) + Len(x) /\ Len(y) \in Nat
        BY Joined DEF Path
      <4>2. PICK q \in Path : q = y \o x
        BY <4>1
      <4>3. Len(q) # 0
        BY <1>4, <1>6, <2>2, <4>1, <4>2
      <4>4. q # <<>>
        BY <4>3
      <4> QED
        BY <4>2, <4>4
    <3>4. Front(q) = y \o z
      <4>1. Front(y \o x) = y \o SubSeq(x, 1, Len(x) - 1)
        BY <3>2, FrontOfJoined
      <4> QED
        BY <1>4, <1>7, <2>2, <3>3, <4>1
    <3>5. body = q
      BY <1>13, <3>3
    <3> HIDE DEF body
    <3> QED
      BY <3>1, <3>3, <3>4, <3>5
  <2> QED
    BY <2>1, <2>2
<1>15. Normal(g) = IF ~Absolute(g) THEN keep
                   ELSE IF Terms(g) # <<>> /\ Terms(g)[1] = Up THEN <<>>
                        ELSE <<"/">> \o keep
  BY DEF Normal
<1> HIDE DEF keep
<1>16. Absolute(g) <=> w[1] = "/"
  BY <1>10 DEF Absolute
<1>17. CASE w[1] = "/"
  <2>1. Lead(w) = <<"/">> /\ Len(Lead(w)) = 1 /\ <<"/">> \in Path
    BY <1>17 DEF Lead, Path, Bytes
  <2>2. t >= 1 /\ b[1] = "/"
    <3>1. t >= 1 /\ 1 \in 1..t
      BY <1>6, <1>9, <1>10, <2>1
    <3>2. PICK d \in Path : d = <<"/">> /\ Len(d) = 1 /\ d[1] = "/"
      BY <2>1
    <3>3. (d \o z)[1] = d[1]
      <4>1. \A j \in 1..Len(d) + Len(z) : (d \o z)[j] = IF j <= Len(d) THEN d[j]
                                                        ELSE z[j - Len(d)]
        BY Joined
      <4>2. Len(z) \in Nat /\ Len(d) = 1 /\ 1 \in 1..Len(d) + Len(z) /\ 1 <= Len(d)
        BY <1>6, <1>7, <3>2
      <4> QED
        BY <4>1, <4>2
    <3> QED
      BY <1>8, <1>9, <2>1, <3>1, <3>2, <3>3
  <2>3. CASE u > 0
    <3>1. Terms(g) # <<>> /\ Terms(g)[1] = Up
      <4>1. PICK v \in Stacks : v = Ups(u) /\ Len(v) = u /\ v[1] = Up
        <5>1. 1 \in 1..u
          BY <1>10, <2>3
        <5> QED
          BY <1>11, <5>1
      <4>2. /\ Len(v \o K) = Len(v) + Len(K) /\ Len(K) \in Nat
            /\ \A j \in 1..Len(v) + Len(K) : (v \o K)[j] = IF j <= Len(v) THEN v[j]
                                                           ELSE K[j - Len(v)]
        BY <1>2, ConcatProperties DEF Stacks
      <4>3. 1 \in 1..Len(v) + Len(K) /\ 1 <= Len(v)
        BY <1>10, <2>3, <4>1, <4>2
      <4>4. (v \o K)[1] = Up /\ Len(v \o K) # 0
        BY <1>10, <2>3, <4>1, <4>2, <4>3
      <4> QED
        BY <1>9, <4>1, <4>4
    <3>2. Normal(g) = <<>>
      BY <1>15, <1>16, <1>17, <3>1
    <3>3. Above(b, t, u)
      BY <1>10, <2>2, <2>3 DEF Above
    <3> QED
      BY <3>2, <3>3 DEF Outcome
  <2>4. CASE ~(u > 0)
    <3>1. u = 0 /\ Ups(u) = <<>>
      <4>1. u = 0
        BY <1>10, <2>4
      <4> QED
        BY <1>11, <4>1, EmptySeq DEF Stacks
    <3>2. Terms(g) = K
      <4>1. <<>> \o K = K
        BY <1>2, ConcatEmptySeq DEF Stacks
      <4> QED
        BY <1>9, <3>1, <4>1
    <3>3. ~(Terms(g) # <<>> /\ Terms(g)[1] = Up)
      <4>1. ASSUME K # <<>> PROVE K[1] # Up
        <5>1. K[1] \in Names
          BY <4>1
        <5> QED
          BY <5>1 DEF Names
      <4> QED
        BY <3>2, <4>1
    <3>4. y = <<>>
      <4>1. Slashed(<<>>) = <<>>
        <5>1. PICK e \in Stacks : e = <<>>
          BY <1>11, <3>1
        <5>2. Slashed(e) = <<>>
          BY <5>1, SlashedPath
        <5> QED
          BY <5>1, <5>2
      <4> QED
        BY <1>12, <3>1, <4>1
    <3>5. keep = z
      BY <1>14, <3>4, NothingAdded
    <3>6. Normal(g) = <<"/">> \o z
      BY <1>15, <1>16, <1>17, <3>3, <3>5
    <3>7. y \o p = p
      BY <3>4, NothingAdded
    <3>8. ~Above(b, t, u)
      BY <2>4 DEF Above
    <3> QED
      BY <1>8, <1>9, <1>12, <2>1, <3>6, <3>7, <3>8 DEF Outcome
  <2> QED
    BY <2>3, <2>4
<1>18. CASE w[1] # "/"
  <2>1. Lead(w) = <<>> /\ Len(Lead(w)) = 0
    BY <1>18 DEF Lead
  <2>2. p = z /\ t = n - tip
    <3>1. t = n - tip
      BY <1>4, <1>5, <1>9, <2>1
    <3> QED
      BY <1>9, <2>1, <3>1, NothingAdded
  <2>3. ~Above(b, t, u)
    <3>1. ASSUME t > 0 PROVE b[1] # "/"
      <4>1. K # <<>>
        <5>1. n # 0
          BY <1>4, <1>5, <2>2, <3>1
        <5>2. ASSUME K = <<>> PROVE FALSE
          <6>1. x = <<>>
            BY <1>2, <1>3, <5>2, SlashedPath
          <6> QED
            BY <1>4, <5>1, <6>1
        <5> QED
          BY <5>2
      <4>2. x[1] # "/"
        BY <1>3, <4>1, SlashedFirst
      <4>3. 1 \in 1..t /\ 1 \in 1..n - tip
        BY <1>10, <2>2, <3>1
      <4>4. b[1] = p[1] /\ z[1] = x[1]
        BY <1>7, <1>8, <4>3
      <4> QED
        BY <2>2, <4>2, <4>4
    <3> QED
      BY <3>1 DEF Above
  <2>4. Normal(g) = y \o z
    BY <1>14, <1>15, <1>16, <1>18
  <2> QED
    BY <1>8, <1>12, <2>2, <2>3, <2>4 DEF Outcome
<1> QED
  BY <1>17, <1>18
-----------------------------------------------------------------------------
(* The inductive invariant.                                                *)
PathInv ==
  /\ given \in Path /\ buf \in Path /\ Len(buf) = Len(given)
  /\ LastTerm(given) \notin {Up, Here}
  /\ tail \in Nat /\ up \in Nat
  /\ pc # "wild" /\ tail + 3 * up <= Len(given)
  /\ pc = "dedup" => buf = given /\ tail = 0 /\ up = 0
  /\ pc = "scan" => given # <<>> /\ Scanning(given, WithoutRepeats(given), Whole(given),
                                             buf, l, r, tail, up)
  /\ Normalized

(* The invariant holds at first: no path is read yet.                      *)
LEMMA InitPath ==
  ASSUME Tame
  PROVE  Init => PathInv
<1> SUFFICES ASSUME Init PROVE PathInv
  OBVIOUS
<1>1. given \in Path
  <2>1. PICK m \in 0..MaxLen : given \in [1..m -> Bytes]
    BY DEF Init, BoundedSeq, SeqOf
  <2> QED
    BY <2>1, PathAssumption DEF Path
<1>2. Len(given) \in Nat
  BY <1>1 DEF Path
<1>3. LastTerm(given) \notin {Up, Here}
  BY DEF Init
<1> QED
  BY <1>1, <1>2, <1>3 DEF Init, PathInv, Normalized

(* The invariant gives what the lemmas about the scan assume.              *)
LEMMA KnownHolds ==
  ASSUME PathInv, given # <<>>
  PROVE  Known(given, WithoutRepeats(given), Whole(given), buf, tail, up)
<1>1. WholeFacts(given, WithoutRepeats(given), Whole(given))
  BY WholeIs DEF PathInv
<1> QED
  BY <1>1 DEF PathInv, Known

(* Repeated slashes are taken out.                                         *)
LEMMA DedupKeeps ==
  ASSUME PathInv, Dedup
  PROVE  PathInv'
<1>1. CASE given = <<>>
  <2>1. /\ pc' = "done" /\ len' = 0 /\ UNCHANGED <<given, up, buf, l, r, tail>>
    BY <1>1 DEF Dedup, Return
  <2>2. Normal(<<>>) = <<>>
    <3>1. PICK e \in Path : e = <<>>
      BY Terminals
    <3>2. Len(e) = 0 /\ Reading(e)[0] = Fresh
      BY <3>1, ReadingIs
    <3>3. Terms(e) = <<>>
      <4>1. Terms(e) = Stacked(<<>>, <<>>)
        BY <3>2 DEF Terms, Fresh
      <4> QED
        BY <4>1 DEF Stacked
    <3>4. Slashed(Terms(e)) = <<>>
      <4>1. PICK q \in Stacks : q = <<>>
        <5>1. <<>> \in Stacks
          BY DEF Stacks
        <5> QED
          BY <5>1
      <4> QED
        BY <3>3, <4>1, SlashedPath
    <3>5. ~Absolute(e)
      BY <3>1 DEF Absolute
    <3> QED
      BY <3>1, <3>4, <3>5 DEF Normal
  <2>3. SubSeq(buf, 1, 0) = <<>>
    BY SubSeqEmpty
  <2>4. Normalized'
    BY <1>1, <2>1, <2>2, <2>3 DEF Normalized
  <2> QED
    BY <2>1, <2>4 DEF PathInv
<1>2. CASE given # <<>>
  <2>1. PICK s : s = WithoutRepeats(given)
    OBVIOUS
  <2>2. PICK k : k = DropTrailingSlash(s)
    OBVIOUS
  <2>3. /\ buf' = Over(s, given) /\ tail' = Len(s) /\ r' = k /\ l' = k - 1
        /\ pc' = "scan" /\ given' = given /\ up' = up
    BY <1>2, <2>1, <2>2 DEF Dedup
  <2>4. up = 0 /\ given \in Path /\ LastTerm(given) \notin {Up, Here}
    BY DEF PathInv, Dedup
  <2>5. /\ Known(given, s, Whole(given), buf', tail', 0)
        /\ Len(s) <= Len(given)
        /\ Scanning(given, s, Whole(given), buf', l', r', tail', 0)
    BY <1>2, <2>1, <2>2, <2>3, <2>4, ScanStarts
  <2>6. buf' \in Path /\ Len(buf') = Len(given) /\ tail' \in Nat
    BY <2>5 DEF Known
  <2>7. tail' + 3 * up' <= Len(given) /\ up' \in Nat
    BY <2>3, <2>4, <2>5, <2>6
  <2> QED
    BY <1>2, <2>1, <2>3, <2>4, <2>5, <2>6, <2>7 DEF PathInv, Normalized
<1> QED
  BY <1>1, <1>2

(* l goes left by one byte: over a byte of a term, over the slash at the   *)
(* beginning, or over the first byte of a term that stays or is taken out. *)
LEMMA ScanKeeps ==
  ASSUME PathInv, Scan
  PROVE  PathInv'
<1> DEFINE s == WithoutRepeats(given)
           w == Whole(given)
<1>1. /\ pc = "scan" /\ l >= 0 /\ given' = given /\ l' = l - 1
      /\ r' = IF AtStart THEN l - 1 ELSE r
      /\ IF AtStart /\ r > l
           THEN up' = Owed /\ IF Skip THEN TakeOut ELSE UNCHANGED <<buf, tail, pc>>
           ELSE UNCHANGED <<up, buf, tail, pc>>
  BY DEF Scan
<1>2. /\ given # <<>> /\ Scanning(given, s, w, buf, l, r, tail, up)
      /\ given \in Path /\ LastTerm(given) \notin {Up, Here}
  BY <1>1 DEF PathInv
<1>3. Known(given, s, w, buf, tail, up)
  BY <1>2, KnownHolds
<1>4. SUFFICES /\ pc' = "scan"
               /\ Known(given, s, w, buf', tail', up')
               /\ Scanning(given, s, w, buf', l', r', tail', up')
  <2>1. tail' + 3 * up' <= Len(s)
    BY <1>4 DEF Scanning
  <2>2. Len(s) <= Len(buf') /\ Len(s) \in Nat /\ Len(buf') \in Nat
    BY <1>4, KnownIs
  <2>3. buf' \in Path /\ Len(buf') = Len(given) /\ tail' \in Nat /\ up' \in Nat
    BY <1>4 DEF Known
  <2>4. tail' + 3 * up' <= Len(given)
    BY <2>1, <2>2, <2>3
  <2> QED
    BY <1>1, <1>2, <1>4, <2>3, <2>4 DEF PathInv, Normalized
<1> HIDE DEF s, w
<1>5. l \in Int /\ r \in Int
  BY <1>2 DEF Scanning
<1>6. CASE ~AtStart
  <2>1. UNCHANGED <<up, buf, tail, pc>> /\ r' = r /\ l > 0 /\ buf[l] # "/"
    BY <1>1, <1>5, <1>6 DEF AtStart
  <2>2. Scanning(given, s, w, buf, l - 1, r, tail, up)
    BY <1>2, <1>3, <2>1, StepLeft
  <2> QED
    BY <1>1, <1>3, <2>1, <2>2
<1>7. CASE AtStart /\ ~(r > l)
  <2>1. UNCHANGED <<up, buf, tail, pc>> /\ r' = l - 1
    BY <1>1, <1>7
  <2>2. Scanning(given, s, w, buf, l - 1, l - 1, tail, up)
    BY <1>1, <1>2, <1>3, <1>7, StepEmpty DEF AtStart
  <2> QED
    BY <1>1, <1>3, <2>1, <2>2
<1>8. CASE AtStart /\ r > l /\ ~Skip
  <2>1. UNCHANGED <<buf, tail, pc>> /\ r' = l - 1 /\ up' = Owed
    BY <1>1, <1>8
  <2>2. Term \notin {Up, Here} /\ ~(up > 0)
    BY <1>8 DEF Skip
  <2>3. up = 0 /\ up' = 0
    <3>1. up \in Nat
      BY DEF PathInv
    <3> QED
      BY <2>1, <2>2, <3>1 DEF Owed
  <2>4. Scanning(given, s, w, buf, l - 1, l - 1, tail, 0)
    BY <1>1, <1>2, <1>3, <1>8, <2>2, <2>3, StepKeep DEF AtStart, Term
  <2> QED
    BY <1>1, <1>3, <2>1, <2>3, <2>4
<1>9. CASE AtStart /\ r > l /\ Skip
  <2>1. TakeOut /\ r' = l - 1 /\ up' = Owed
    BY <1>1, <1>9
  <2>2. r + 1 <= tail
    BY <1>1, <1>2, <1>3, <1>9, SlashFollows DEF AtStart, Skip, Term, s
  <2>3. ~(tail - r - 1 < 0)
    <3>1. tail \in Nat
      BY DEF PathInv
    <3> QED
      BY <1>5, <2>2, <3>1
  <2>4. /\ buf' = Over(SubSeq(buf, 1, l) \o SubSeq(buf, r + 2, tail), buf)
        /\ tail' = tail - (r - l + 1) /\ pc' = pc
    BY <2>1, <2>3 DEF TakeOut
  <2>5. \/ Term = Up /\ up' = up + 1
        \/ Term = Here /\ up' = up
        \/ Term \notin {Up, Here} /\ up > 0 /\ up' = up - 1
    <3>1. CASE Term = Up
      BY <2>1, <3>1, Terminals DEF Owed
    <3>2. CASE Term = Here
      BY <2>1, <3>2, Terminals DEF Owed
    <3>3. CASE Term \notin {Up, Here}
      BY <1>9, <2>1, <3>3 DEF Owed, Skip
    <3> QED
      BY <3>1, <3>2, <3>3
  <2>6. /\ Known(given, s, w, buf', tail', up')
        /\ Scanning(given, s, w, buf', l - 1, l - 1, tail', up')
    BY <1>1, <1>2, <1>3, <1>9, <2>2, <2>4, <2>5, StepTake DEF AtStart, Term
  <2> QED
    BY <1>1, <2>1, <2>4, <2>6
<1> QED
  BY <1>6, <1>7, <1>8, <1>9

(* What is owed at the start comes back as "../".                          *)
LEMMA RecoverKeeps ==
  ASSUME PathInv, Recover
  PROVE  PathInv'
<1> DEFINE s == WithoutRepeats(given)
           w == Whole(given)
<1>1. /\ pc = "scan" /\ l < 0 /\ given' = given /\ tail' = tail /\ up' = up /\ pc' = "done"
      /\ IF Above(buf, tail, up)
           THEN len' = 0 /\ buf' = buf
           ELSE /\ buf' = Over(Slashed(Ups(up)) \o SubSeq(buf, 1, tail), buf)
                /\ len' = tail + 3 * up
  BY DEF Recover, Return, Above, Ups
<1>2. given # <<>> /\ Scanning(given, s, w, buf, l, r, tail, up)
  BY <1>1 DEF PathInv
<1>3. Known(given, s, w, buf, tail, up)
  BY <1>2, KnownHolds
<1>4. /\ tail \in Nat /\ up \in Nat /\ buf \in Path /\ Len(buf) = Len(given)
      /\ given \in Path /\ tail + 3 * up <= Len(given)
  BY DEF PathInv
<1>5. PICK n \in Nat : n = Len(given)
  BY <1>4 DEF Path
<1>6. tail <= Len(buf)
  BY <1>4, <1>5
<1>7. Finished(given, w, buf, tail, up)
  BY <1>1, <1>2, <1>3, ScanEnds
<1>8. Normal(given) = IF Above(buf, tail, up) THEN <<>>
                      ELSE Slashed(Ups(up)) \o SubSeq(buf, 1, tail)
  BY <1>3, <1>6, <1>7, NormalIs DEF Outcome
<1>9. SUFFICES /\ buf' \in Path /\ Len(buf') = Len(given)
               /\ SubSeq(buf', 1, len') = Normal(given)
  BY <1>1, <1>4, <1>9 DEF PathInv, Normalized
<1>10. CASE Above(buf, tail, up)
  <2>1. SubSeq(buf, 1, 0) = <<>>
    BY SubSeqEmpty
  <2> QED
    BY <1>1, <1>4, <1>8, <1>10, <2>1
<1>11. CASE ~Above(buf, tail, up)
  <2>1. PICK y \in Path : y = Slashed(Ups(up)) /\ Len(y) = 3 * up
    <3>1. Ups(up) \in Stacks /\ Len(Slashed(Ups(up))) = 3 * up
      BY <1>4, SlashedUps
    <3> QED
      BY <3>1, SlashedPath
  <2>2. PICK p \in Path : p = SubSeq(buf, 1, tail) /\ Len(p) = tail
    BY <1>4, <1>6, Cut
  <2>3. PICK q \in Path : q = y \o p /\ Len(q) = tail + 3 * up
    <3>1. y \o p \in Path /\ Len(y \o p) = Len(y) + Len(p)
      BY Joined
    <3>2. PICK q \in Path : q = y \o p
      BY <3>1
    <3>3. Len(q) = 3 * up + tail
      BY <2>1, <2>2, <3>1, <3>2
    <3>4. 3 * up + tail = tail + 3 * up
      BY <1>4
    <3> QED
      BY <3>2, <3>3, <3>4
  <2>4. buf' = Over(q, buf) /\ len' = Len(q) /\ Normal(given) = q
    BY <1>1, <1>8, <1>11, <2>1, <2>2, <2>3
  <2>5. Len(q) <= Len(buf) /\ Len(q) \in Nat
    BY <1>4, <1>5, <2>3
  <2>6. PICK c \in Path : /\ c = Over(q, buf) /\ Len(c) = Len(buf)
                          /\ \A j \in 1..Len(q) : c[j] = q[j]
    BY <1>4, <2>5, OverIs
  <2>7. SubSeq(c, 1, Len(q)) = q
    <3>1. PICK d \in Path : /\ d = SubSeq(c, 1, Len(q)) /\ Len(d) = Len(q)
                            /\ \A j \in 1..Len(q) : d[j] = c[j]
      BY <2>5, <2>6, Cut
    <3> QED
      BY <2>6, <3>1, SeqEqual DEF Path
  <2> QED
    BY <1>4, <2>4, <2>6, <2>7
<1> QED
  BY <1>10, <1>11

(* Every step keeps the invariant.                                         *)
LEMMA NextKeeps ==
  ASSUME PathInv, [Next]_vars
  PROVE  PathInv'
<1>1. CASE Dedup
  BY <1>1, DedupKeeps
<1>2. CASE Scan
  BY <1>2, ScanKeeps
<1>3. CASE Recover
  BY <1>3, RecoverKeeps
<1>4. CASE UNCHANGED vars
  BY <1>4 DEF PathInv, vars, Normalized
<1> QED
  BY <1>1, <1>2, <1>3, <1>4 DEF Next

(* The invariant holds for paths of any length.                            *)
LEMMA PathInvHolds ==
  ASSUME Tame
  PROVE  Spec => []PathInv
<1>1. Init => PathInv
  BY InitPath
<1>2. PathInv /\ [Next]_vars => PathInv'
  BY NextKeeps
<1> QED
  BY <1>1, <1>2, PTL DEF Spec

(* RoomForUps for paths of any length: upd_path_normalize never copies     *)
(* with a negative count and never writes past the length it was given,    *)
(* when the last term of the path is no "." and no ".." without a slash    *)
(* after it.                                                               *)
THEOREM RoomHolds ==
  ASSUME Tame
  PROVE  Spec => []RoomForUps
<1>1. PathInv => RoomForUps
  BY DEF PathInv, RoomForUps
<1> QED
  BY <1>1, PathInvHolds, PTL

(* Normalized for paths of any length: scanning backwards with a counter   *)
(* of the ".."s that are owed leaves what reading forwards with a stack of *)
(* terms does.                                                             *)
THEOREM NormalizedHolds ==
  ASSUME Tame
  PROVE  Spec => []Normalized
<1>1. PathInv => Normalized
  BY DEF PathInv
<1> QED
  BY <1>1, PathInvHolds, PTL

(* A path of one valid name is in normal form, and the name is its only    *)
(* term.                                                                   *)
LEMMA NameIsPath ==
  ASSUME NEW name \in Path, ValidateName(name)
  PROVE  Normal(name) = name /\ Terms(name) = <<name>>
<1>1. /\ name # <<>> /\ name # Up /\ name # Here
      /\ \A i \in 1..Len(name) : name[i] # "/"
  BY DEF ValidateName, NameBytes, Path
<1>2. PICK n \in Nat : n = Len(name) /\ n >= 1
  BY <1>1, EmptySeq DEF Path
<1>3. Reading(name)[n].stack = <<>> /\ Reading(name)[n].now = name
  <2>1. 0 \in 0..Len(name) /\ n \in 0..Len(name)
    BY <1>2
  <2>2. Reading(name)[0] = Fresh /\ Fresh.stack = <<>> /\ Fresh.now = <<>>
    BY ReadingIs DEF Fresh
  <2>3. \A i \in 0 + 1..n : name[i] # "/"
    BY <1>1, <1>2
  <2>4. /\ Reading(name)[n].stack = Reading(name)[0].stack
        /\ Reading(name)[n].now = SubSeq(name, 0 + 1, n)
    BY <2>1, <2>2, <2>3, ReadingTerm
  <2>5. SubSeq(name, 1, n) = name
    BY <1>2, SubSeqFull DEF Path
  <2> QED
    BY <2>2, <2>4, <2>5
<1>4. Terms(name) = <<name>>
  <2>1. Terms(name) = Stacked(<<>>, name)
    BY <1>2, <1>3 DEF Terms
  <2>2. Stacked(<<>>, name) = Append(<<>>, name)
    <3>1. PICK e \in Stacks : e = <<>>
      <4>1. <<>> \in Stacks
        BY DEF Stacks
      <4> QED
        BY <4>1
    <3>2. Stacked(e, name) = Append(e, name)
      <4>1. name \notin {<<>>, Here, Up}
        BY <1>1
      <4> QED
        BY <4>1, StackedIs
    <3> QED
      BY <3>1, <3>2
  <2> QED
    BY <2>1, <2>2
<1>5. Slashed(Terms(name)) = Append(name, "/") /\ Append(name, "/") # <<>>
  <2>1. Ended(name) = Append(name, "/") /\ Append(name, "/") # <<>>
    BY AppendIsConcat, AppendProperties DEF Ended, Path, Bytes
  <2> QED
    BY <1>4, <2>1, SlashedOne
<1>6. Front(Append(name, "/")) = name
  BY LastAppended DEF Path, Bytes
<1>7. name[Len(name)] # "/" /\ ~Absolute(name)
  <2>1. 1 \in 1..Len(name) /\ Len(name) \in 1..Len(name)
    BY <1>2
  <2> QED
    BY <1>1, <2>1 DEF Absolute
<1>8. Normal(name) = name
  BY <1>5, <1>6, <1>7 DEF Normal
<1> QED
  BY <1>4, <1>8

(* A path is what comes before its last byte, and that byte.               *)
LEMMA FrontAndLast ==
  ASSUME NEW x \in Path, x # <<>>
  PROVE  Front(x) \in Path /\ Last(x) \in Bytes /\ x = Append(Front(x), Last(x))
<1>1. PICK n \in Nat : n = Len(x) /\ n >= 1
  BY EmptySeq DEF Path
<1>2. Front(x) = SubSeq(x, 1, n - 1) /\ Last(x) = x[n]
  BY <1>1 DEF Front, Last
<1>3. Front(x) \in Path
  <2>1. n - 1 \in Nat /\ n - 1 <= Len(x)
    BY <1>1
  <2> QED
    BY <1>2, <2>1, Cut
<1>4. 1 \in 1..Len(x) /\ Len(x) \in 1..Len(x) /\ x[n] \in Bytes
  BY <1>1 DEF Path
<1>5. x = SubSeq(x, 1, Len(x) - 1) \o <<x[Len(x)]>>
  <2>1. SubSeq(x, 1, Len(x)) = SubSeq(x, 1, Len(x) - 1) \o <<x[Len(x)]>>
    BY <1>4, SubSeqRecursiveSecond DEF Path
  <2> QED
    BY <2>1, SubSeqFull DEF Path
<1>6. Front(x) \o <<x[n]>> = Append(Front(x), x[n])
  BY <1>3, <1>4, AppendIsConcat DEF Path
<1> QED
  BY <1>1, <1>2, <1>3, <1>4, <1>5, <1>6

(* So is one with a slash behind the name.                                 *)
LEMMA NameSlashIsPath ==
  ASSUME NEW name \in Path, ValidateName(name), NEW path \in Path,
         path = Append(name, "/")
  PROVE  Normal(path) = path /\ Terms(path) = <<name>>
<1>1. /\ name # <<>> /\ name # Up /\ name # Here
      /\ \A i \in 1..Len(name) : name[i] # "/"
  BY DEF ValidateName, NameBytes, Path
<1>2. PICK n \in Nat : n = Len(name) /\ n >= 1
  BY <1>1, EmptySeq DEF Path
<1>3. /\ Len(path) = n + 1 /\ path[n + 1] = "/"
      /\ \A i \in 1..n : path[i] = name[i]
  BY <1>2, AppendProperties DEF Path, Bytes
<1>4. SubSeq(path, 1, n) = name
  <2>1. Front(Append(name, "/")) = name
    BY LastAppended DEF Path, Bytes
  <2> QED
    BY <1>2, <1>3, <2>1 DEF Front
<1>5. Reading(path)[n].stack = <<>> /\ Reading(path)[n].now = name
  <2>1. 0 \in 0..Len(path) /\ n \in 0..Len(path)
    BY <1>2, <1>3
  <2>2. Reading(path)[0] = Fresh /\ Fresh.stack = <<>> /\ Fresh.now = <<>>
    BY ReadingIs DEF Fresh
  <2>3. \A i \in 0 + 1..n : path[i] # "/"
    BY <1>1, <1>2, <1>3
  <2>4. /\ Reading(path)[n].stack = Reading(path)[0].stack
        /\ Reading(path)[n].now = SubSeq(path, 0 + 1, n)
    BY <2>1, <2>2, <2>3, ReadingTerm
  <2> QED
    BY <1>4, <2>2, <2>4
<1>6. Stacked(<<>>, name) = <<name>>
  <2>1. PICK e \in Stacks : e = <<>>
    <3>1. <<>> \in Stacks
      BY DEF Stacks
    <3> QED
      BY <3>1
  <2>2. Stacked(e, name) = Append(e, name)
    <3>1. name \notin {<<>>, Here, Up}
      BY <1>1
    <3> QED
      BY <3>1, StackedIs
  <2> QED
    BY <2>1, <2>2
<1>7. Reading(path)[n + 1].stack = <<name>> /\ Reading(path)[n + 1].now = <<>>
  <2>1. n + 1 \in 1..Len(path) /\ n \in 0..Len(path) /\ (n + 1) - 1 = n
    BY <1>2, <1>3
  <2>2. /\ Reading(path)[n] \in States
        /\ Reading(path)[n + 1] = Read(Reading(path)[n], "/")
    BY <1>3, <2>1, ReadingIs
  <2>3. "/" \in Bytes
    BY DEF Bytes
  <2> QED
    BY <1>5, <1>6, <2>2, <2>3, ReadIs
<1>8. Terms(path) = <<name>>
  <2>1. Terms(path) = Stacked(<<name>>, <<>>)
    BY <1>3, <1>7 DEF Terms
  <2>2. <<name>> \in Stacks /\ <<>> \in Path
    BY SlashedOne, Terminals
  <2> QED
    BY <2>1, <2>2, StackedIs
<1>9. Slashed(Terms(path)) = path
  <2>1. Ended(name) = Append(name, "/")
    BY AppendIsConcat DEF Ended, Path, Bytes
  <2> QED
    BY <1>8, <2>1, SlashedOne
<1>10. path[Len(path)] = "/" /\ ~Absolute(path)
  <2>1. 1 \in 1..n
    BY <1>2
  <2> QED
    BY <1>1, <1>2, <1>3, <2>1 DEF Absolute
<1>11. Normal(path) = path
  BY <1>9, <1>10 DEF Normal
<1> QED
  BY <1>8, <1>11

(* ValidNamesArePaths for names of any length: a name that                 *)
(* upd_path_validate_name accepts comes out of upd_path_normalize as it    *)
(* went in, with a slash behind it or without, and is found again as the   *)
(* one term of the path.                                                   *)
THEOREM ValidNamesHold ==
  ASSUME Tame
  PROVE  Spec => []ValidNamesArePaths
<1>1. ASSUME PathInv PROVE ValidNamesArePaths
  <2> DEFINE name == Unslashed(given)
  <2>1. ASSUME pc = "done", ValidateName(name)
        PROVE  SubSeq(buf, 1, len) = given /\ Terms(given) = <<name>>
    <3>1. SubSeq(buf, 1, len) = Normal(given) /\ given \in Path
      BY <1>1, <2>1 DEF PathInv, Normalized
    <3>2. CASE name = given
      BY <2>1, <3>1, <3>2, NameIsPath
    <3>3. CASE given # <<>> /\ Last(given) = "/" /\ name = Front(given)
      <4>1. name \in Path /\ given = Append(name, "/")
        BY <3>1, <3>3, FrontAndLast
      <4> HIDE DEF name
      <4> QED
        BY <2>1, <3>1, <4>1, NameSlashIsPath
    <3> QED
      BY <3>2, <3>3 DEF Unslashed
  <2> QED
    BY <2>1 DEF ValidNamesArePaths
<1> QED
  BY <1>1, PathInvHolds, PTL
=============================================================================
