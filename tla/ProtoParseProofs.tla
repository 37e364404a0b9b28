-------------------------- MODULE ProtoParseProofs --------------------------
(***************************************************************************)
(* Proofs about ProtoParse, for any number of parsers, files and messages  *)
(* and any number of slots for holds.                                      *)
(*                                                                         *)
(* What the user is told (VerdictComplete) and that its file is alive      *)
(* (FileAliveForUser) depend on how far a parser has got: Outcome says     *)
(* what it has found by then, and keeps the file it found in a hold until  *)
(* the user is done with it.  The balance of references turns a hold into  *)
(* a count above zero.                                                     *)
(***************************************************************************)
EXTENDS ProtoParse, FiniteSetTheorems, TLAPS

(* The count, the reports and the order in which a parser's activities end.*)
Counted(p) ==
  /\ refcnt[p] = Activities(p)
  /\ reports[p] = IF call[p] = "over" /\ lookup[p] = "none" THEN 1 ELSE 0
  /\ call[p] = "none" => lookup[p] = "none"
  /\ p \in owing => reports[p] = 1

(* What it takes for the user to be told something and not two things.     *)
Settled(m, e, f) ==
  /\ e = "none" <=> Verdict(m) = "none" /\ (Frame(m) => f # NoFile)
  /\ f # NoFile => Frame(m)

Bare(p) == \A i \in Slots : hold[p][i] = NoFile

(* What a parser has found: nothing while it has not looked or its lookup  *)
(* runs, and then a file, for a frame, or an error.  It holds the file it  *)
(* found and nothing else, and only one found by path may be gone.         *)
Outcome(p) ==
  /\ call[p] = "none" \/ lookup[p] = "running" =>
       err[p] = "none" /\ file[p] = NoFile /\ p \notin late
  /\ lookup[p] = "running" => Frame(src[p]) /\ src[p].param = "path"
  /\ call[p] # "none" /\ lookup[p] = "none" => Settled(src[p], err[p], file[p])
  /\ (p \in owing \/ reports[p] = 0) /\ file[p] # NoFile =>
       \E i \in Slots : hold[p][i] = file[p]
  /\ file[p] = NoFile => Bare(p)
  /\ p \in late => src[p].param = "path"

IInv == /\ TypeOK
        /\ NoLeakedReference
        /\ \A p \in Pars : Counted(p) /\ Outcome(p)

-----------------------------------------------------------------------------
(* There are finitely many holds. *)
LEMMA HoldersFinite ==
  \A f : IsFiniteSet(Holders(f)) /\ Cardinality(Holders(f)) \in Nat
<1> SUFFICES ASSUME NEW f
             PROVE  IsFiniteSet(Holders(f)) /\ Cardinality(Holders(f)) \in Nat
  OBVIOUS
<1>1. IsFiniteSet(Slots)
  BY FS_Interval, ProtoAssumption DEF Slots
<1>2. IsFiniteSet(Pars \X Slots)
  BY <1>1, FS_Product, ProtoAssumption
<1>3. Holders(f) \in SUBSET (Pars \X Slots)
  BY DEF Holders
<1>4. IsFiniteSet(Holders(f))
  BY <1>2, <1>3, FS_Subset
<1> QED
  BY <1>4, FS_CardinalityType

(* upd_proto_parse_hold_ adds one hold, of the file it is given, and the   *)
(* file has one holder more if it is still there.                          *)
LEMMA HoldAdds ==
  ASSUME TypeOK, NEW p \in Pars, NEW f \in Files, Hold(p, f),
         Bare(p), p \notin late
  PROVE  /\ hold' \in [Pars -> [Slots -> Files \cup {NoFile}]]
         /\ \E i \in Slots : hold'[p][i] = f
         /\ \A q \in Pars : q # p => hold'[q] = hold[q]
         /\ late' \subseteq Pars
         /\ \A q \in Pars : q # p => (q \in late' <=> q \in late)
         /\ Alive(f) => late' = late
         /\ \A g \in Files : Cardinality(Holders(g)') =
              IF g = f /\ Alive(f) THEN Cardinality(Holders(g)) + 1
                                   ELSE Cardinality(Holders(g))
<1>1. PICK i \in Slots : /\ hold[p][i] = NoFile
                         /\ hold' = [hold EXCEPT ![p][i] = f]
                         /\ \/ Alive(f) /\ late' = late
                            \/ ~Alive(f) /\ late' = late \cup {p}
  BY DEF Hold
<1>2. hold' \in [Pars -> [Slots -> Files \cup {NoFile}]]
  BY <1>1 DEF TypeOK
<1>3. /\ hold'[p][i] = f
      /\ \A q \in Pars, j \in Slots : q # p \/ j # i => hold'[q][j] = hold[q][j]
      /\ \A q \in Pars : q # p => hold'[q] = hold[q]
  BY <1>1 DEF TypeOK
<1>4. /\ late' \subseteq Pars /\ (Alive(f) => late' = late)
      /\ ~Alive(f) => p \in late'
      /\ \A q \in Pars : q # p => (q \in late' <=> q \in late)
  BY <1>1 DEF TypeOK
<1>5. ASSUME NEW g \in Files, NEW h \in Pars \X Slots
      PROVE  h \in Holders(g)' <=>
               h \in Holders(g) \/ (g = f /\ Alive(f) /\ h = <<p, i>>)
  <2>1. h = <<h[1], h[2]>> /\ h[1] \in Pars /\ h[2] \in Slots
    OBVIOUS
  <2>2. /\ h \in Holders(g) <=> hold[h[1]][h[2]] = g /\ h[1] \notin late
        /\ h \in Holders(g)' <=> hold'[h[1]][h[2]] = g /\ h[1] \notin late'
    BY DEF Holders
  <2>3. CASE h[1] # p
    <3>1. hold'[h[1]][h[2]] = hold[h[1]][h[2]]
      BY <1>3, <2>1, <2>3
    <3>2. h[1] \in late' <=> h[1] \in late
      BY <1>4, <2>1, <2>3
    <3>3. h # <<p, i>>
      BY <2>3
    <3> QED
      BY <2>2, <3>1, <3>2, <3>3
  <2>4. CASE h[1] = p
    <3>1. h \notin Holders(g)
      BY <2>1, <2>2, <2>4, ProtoAssumption DEF Bare
    <3>2. CASE ~Alive(f)
      BY <1>4, <2>2, <2>4, <3>1, <3>2
    <3>3. CASE Alive(f) /\ h = <<p, i>>
      BY <1>3, <1>4, <2>2, <2>4, <3>1, <3>3
    <3>4. CASE Alive(f) /\ h # <<p, i>>
      <4>1. h[2] # i
        BY <2>1, <2>4, <3>4
      <4>2. hold'[h[1]][h[2]] = NoFile
        BY <1>3, <2>1, <2>4, <4>1 DEF Bare
      <4> QED
        BY <2>2, <3>1, <3>4, <4>2, ProtoAssumption
    <3> QED
      BY <3>2, <3>3, <3>4
  <2> QED
    BY <2>3, <2>4
<1>6. ASSUME NEW g \in Files
      PROVE  Cardinality(Holders(g)') =
               IF g = f /\ Alive(f) THEN Cardinality(Holders(g)) + 1
                                    ELSE Cardinality(Holders(g))
  <2>1. <<p, i>> \notin Holders(g) /\ <<p, i>> \in Pars \X Slots
    BY <1>1, ProtoAssumption DEF Holders
  <2>2. Holders(g) \subseteq Pars \X Slots /\ Holders(g)' \subseteq Pars \X Slots
    BY DEF Holders
  <2>3. CASE g = f /\ Alive(f)
    <3>1. Holders(g)' = Holders(g) \cup {<<p, i>>}
      BY <1>5, <2>1, <2>2, <2>3
    <3> QED
      BY <2>1, <2>3, <3>1, HoldersFinite, FS_AddElement
  <2>4. CASE ~(g = f /\ Alive(f))
    <3>1. Holders(g)' = Holders(g)
      BY <1>5, <2>2, <2>4
    <3> QED
      BY <2>4, <3>1
  <2> QED
    BY <2>3, <2>4
<1> QED
  BY <1>2, <1>3, <1>4, <1>6

(* upd_proto_parse_unref_ gives back, of each file, what the parser held.  *)
LEMMA ReleaseDrops ==
  ASSUME TypeOK, NEW p \in Pars, p \notin late, late' = late,
         hold' = [hold EXCEPT ![p] = [i \in Slots |-> NoFile]]
  PROVE  \A f \in Files :
           LET own == {i \in Slots : hold[p][i] = f} IN
             /\ Cardinality(own) \in Nat
             /\ Cardinality(Holders(f)') \in Nat
             /\ Cardinality(Holders(f)') = Cardinality(Holders(f)) - Cardinality(own)
<1> SUFFICES ASSUME NEW f \in Files
             PROVE  LET own == {i \in Slots : hold[p][i] = f} IN
                      /\ Cardinality(own) \in Nat
                      /\ Cardinality(Holders(f)') \in Nat
                      /\ Cardinality(Holders(f)') =
                           Cardinality(Holders(f)) - Cardinality(own)
  OBVIOUS
<1> DEFINE own == {i \in Slots : hold[p][i] = f}
           pairs == {p} \X own
<1>1. IsFiniteSet(own)
  <2>1. IsFiniteSet(Slots)
    BY FS_Interval, ProtoAssumption DEF Slots
  <2> QED
    BY <2>1, FS_Subset
<1>2. Cardinality(own) \in Nat
  BY <1>1, FS_CardinalityType
<1>3. IsFiniteSet(pairs) /\ Cardinality(pairs) = Cardinality(own)
  <2>1. IsFiniteSet({p}) /\ Cardinality({p}) = 1
    BY FS_Singleton
  <2>2. Cardinality(pairs) = 1 * Cardinality(own) /\ IsFiniteSet(pairs)
    BY <1>1, <2>1, FS_Product
  <2> QED
    BY <1>2, <2>2
<1>4. Holders(f)' = Holders(f) \ pairs
  <2>1. ASSUME NEW h \in Pars \X Slots
        PROVE  h \in Holders(f)' <=> h \in Holders(f) /\ h \notin pairs
    <3>1. h = <<h[1], h[2]>> /\ h[1] \in Pars /\ h[2] \in Slots
      OBVIOUS
    <3>2. CASE h[1] = p
      <4>1. hold'[h[1]][h[2]] = NoFile
        BY <3>1, <3>2 DEF TypeOK
      <4>2. h \notin Holders(f)'
        BY <4>1, ProtoAssumption DEF Holders
      <4>3. h \in Holders(f) => h \in pairs
        BY <3>1, <3>2 DEF Holders
      <4> QED
        BY <4>2, <4>3
    <3>3. CASE h[1] # p
      <4>1. hold'[h[1]][h[2]] = hold[h[1]][h[2]]
        BY <3>1, <3>3 DEF TypeOK
      <4>2. h \notin pairs
        BY <3>3
      <4> QED
        BY <4>1, <4>2 DEF Holders
    <3> QED
      BY <3>2, <3>3
  <2> QED
    BY <2>1 DEF Holders
<1>5. pairs = Holders(f) \cap pairs
  BY DEF Holders
<1>6. Cardinality(Holders(f) \ pairs) = Cardinality(Holders(f)) - Cardinality(pairs)
  <2>1. Cardinality(Holders(f) \ pairs) =
          Cardinality(Holders(f)) - Cardinality(Holders(f) \cap pairs)
    BY HoldersFinite, FS_Difference
  <2> QED
    BY <2>1, <1>5
<1>7. Cardinality(Holders(f)') \in Nat
  BY <1>4, HoldersFinite, FS_Difference, FS_CardinalityType
<1> QED
  BY <1>2, <1>3, <1>4, <1>6, <1>7

(* One whose file was gone gives nothing back. *)
LEMMA ReleaseNone ==
  ASSUME TypeOK, NEW p \in Pars, p \in late, late' = late,
         hold' = [hold EXCEPT ![p] = [i \in Slots |-> NoFile]]
  PROVE  \A f : Holders(f)' = Holders(f)
<1>1. ASSUME NEW h \in Pars \X Slots, h[1] \notin late
      PROVE  hold'[h[1]][h[2]] = hold[h[1]][h[2]]
  <2>1. h[1] \in Pars /\ h[1] # p
    BY <1>1
  <2> QED
    BY <2>1 DEF TypeOK
<1> QED
  BY <1>1 DEF Holders

-----------------------------------------------------------------------------
(* The invariant holds at the start: nobody holds anything. *)
LEMMA InitIInv == Init => IInv
<1> SUFFICES ASSUME Init PROVE IInv
  OBVIOUS
<1> USE ProtoAssumption
<1>1. TypeOK
  BY DEF Init, TypeOK
<1>2. NoLeakedReference
  <2>1. ASSUME NEW f \in Files PROVE Holders(f) = {}
    BY DEF Init, Holders
  <2>2. ASSUME NEW f \in Files
        PROVE  refs[f] = Cardinality(Holders(f)) + (IF f \in linked THEN 1 ELSE 0)
    <3>1. refs[f] = 1 /\ f \in linked
      BY DEF Init
    <3>2. Cardinality(Holders(f)) = 0
      BY <2>1, FS_EmptySet
    <3> QED
      BY <3>1, <3>2
  <2> QED
    BY <2>2 DEF NoLeakedReference
<1>3. ASSUME NEW p \in Pars PROVE Counted(p) /\ Outcome(p)
  BY DEF Init, Counted, Outcome, Activities, Bare
<1> QED
  BY <1>1, <1>2, <1>3 DEF IInv

-----------------------------------------------------------------------------
(* What the invariant of one parser reads.                                 *)
Untouched(q) ==
  /\ src'[q] = src[q] /\ call'[q] = call[q] /\ lookup'[q] = lookup[q]
  /\ refcnt'[q] = refcnt[q] /\ err'[q] = err[q] /\ file'[q] = file[q]
  /\ hold'[q] = hold[q] /\ reports'[q] = reports[q]
  /\ (q \in owing' <=> q \in owing) /\ (q \in late' <=> q \in late)

(* A parser nobody touches keeps its invariant. *)
LEMMA Others ==
  ASSUME NEW q \in Pars, Counted(q), Outcome(q), Untouched(q)
  PROVE  Counted(q)' /\ Outcome(q)'
BY DEF Untouched, Counted, Outcome, Activities, Bare

(* References stay balanced when neither they nor holds nor links change.  *)
LEMMA SameBalance ==
  ASSUME NoLeakedReference, UNCHANGED <<hold, late, refs, linked>>
  PROVE  NoLeakedReference'
<1>1. \A f : Holders(f)' = Holders(f)
  BY DEF Holders
<1> QED
  BY <1>1 DEF NoLeakedReference

(* They stay balanced when a file is found and held for the message.       *)
LEMMA FoundBalance ==
  ASSUME TypeOK, NoLeakedReference, UNCHANGED linked,
         NEW p \in Pars, NEW f \in Files, Hold(p, f), Bare(p), p \notin late
  PROVE  NoLeakedReference' /\ refs' \in [Files -> Nat]
<1>1. refs \in [Files -> Nat]
  BY DEF TypeOK
<1>2. \/ Alive(f) /\ refs' = [refs EXCEPT ![f] = @ + 1]
      \/ ~Alive(f) /\ refs' = refs
  BY DEF Hold
<1>3. refs' \in [Files -> Nat]
  <2>1. refs[f] + 1 \in Nat
    BY <1>1
  <2> QED
    BY <1>1, <1>2, <2>1
<1>4. ASSUME NEW g \in Files
      PROVE  refs'[g] = Cardinality(Holders(g)') + (IF g \in linked' THEN 1 ELSE 0)
  <2>1. Cardinality(Holders(g)') =
          IF g = f /\ Alive(f) THEN Cardinality(Holders(g)) + 1
                               ELSE Cardinality(Holders(g))
    BY HoldAdds
  <2>2. Cardinality(Holders(g)) \in Nat
    BY HoldersFinite
  <2>3. refs[g] = Cardinality(Holders(g)) + (IF g \in linked THEN 1 ELSE 0)
    BY DEF NoLeakedReference
  <2>4. refs'[g] = IF g = f /\ Alive(f) THEN refs[g] + 1 ELSE refs[g]
    BY <1>1, <1>2
  <2> QED
    BY <2>1, <2>2, <2>3, <2>4
<1> QED
  BY <1>3, <1>4 DEF NoLeakedReference

(* What an error is. *)
Errors == {"none", "root must be a map", "invalid msg", "unknown interface",
           "unknown command", "invalid param", "subreq failure",
           "file not found"}

LEMMA VerdictType == \A m : Verdict(m) \in Errors
BY DEF Verdict, EncoderError, ObjectError, Errors

(* There is no complaint about a message exactly if it is in order, and    *)
(* for a frame the parser then looks for a file.                           *)
LEMMA VerdictIsWellformed ==
  ASSUME NEW m \in Sources
  PROVE  /\ Verdict(m) = "none" <=> Wellformed(m)
         /\ Frame(m) <=> Wellformed(m) /\ m.cmd = "frame"
<1>1. /\ m.mask \subseteq {"encoder", "object"}
      /\ m.iface \in {"encoder", "object", "other"}
      /\ m.map \in BOOLEAN /\ m.fields \in BOOLEAN
      /\ m.param \in {"none", "invalid", "path", "id", "valid"}
  BY ProtoAssumption
<1>2. EncoderError(m) = "none" <=>
        m.cmd \in Encoder /\ (m.cmd = "frame" => m.param \in {"path", "id"})
  BY DEF EncoderError
<1>3. ObjectError(m) = "none" <=>
        m.cmd \in Object /\ (m.cmd \in {"get", "set"} => m.param # "invalid")
  BY DEF ObjectError
<1>4. /\ m.cmd \in Encoder => m.cmd \notin {"get", "set"}
      /\ m.cmd \in Object => m.cmd # "frame"
      /\ "frame" \in Encoder
  BY DEF Encoder, Object
<1>5. CASE m.iface = "encoder"
  BY <1>1, <1>2, <1>4, <1>5 DEF Verdict, Wellformed, Frame
<1>6. CASE m.iface = "object"
  BY <1>1, <1>3, <1>4, <1>6 DEF Verdict, Wellformed, Frame
<1>7. CASE m.iface = "other"
  BY <1>1, <1>7 DEF Verdict, Wellformed, Frame
<1> QED
  BY <1>1, <1>5, <1>6, <1>7

(* A message that gets a file, which is then held. *)
LEMMA FoundKeeps ==
  ASSUME TypeOK, NoLeakedReference, UNCHANGED linked,
         NEW p \in Pars, Bare(p), p \notin late, NEW f \in Files, Found(p, f)
  PROVE  /\ file' \in [Pars -> Files \cup {NoFile}] /\ err' = err
         /\ hold' \in [Pars -> [Slots -> Files \cup {NoFile}]]
         /\ refs' \in [Files -> Nat] /\ NoLeakedReference'
         /\ late' \subseteq Pars /\ (Alive(f) => late' = late)
         /\ file'[p] = f /\ f # NoFile /\ \E i \in Slots : hold'[p][i] = f
         /\ \A q \in Pars : q # p =>
              /\ file'[q] = file[q] /\ hold'[q] = hold[q]
              /\ q \in late' <=> q \in late
<1>1. Hold(p, f) /\ err' = err /\ file' = [file EXCEPT ![p] = f]
  BY DEF Found
<1>2. file \in [Pars -> Files \cup {NoFile}]
  BY DEF TypeOK
<1>3. f # NoFile
  BY ProtoAssumption
<1>4. /\ hold' \in [Pars -> [Slots -> Files \cup {NoFile}]]
      /\ \E i \in Slots : hold'[p][i] = f
      /\ \A q \in Pars : q # p => hold'[q] = hold[q]
      /\ late' \subseteq Pars /\ (Alive(f) => late' = late)
      /\ \A q \in Pars : q # p => (q \in late' <=> q \in late)
  BY <1>1, HoldAdds
<1>5. NoLeakedReference' /\ refs' \in [Files -> Nat]
  BY <1>1, FoundBalance
<1> QED
  BY <1>1, <1>2, <1>3, <1>4, <1>5

(* A message that gets an error. *)
LEMMA FailedKeeps ==
  ASSUME TypeOK, NoLeakedReference, UNCHANGED linked,
         NEW p \in Pars, NEW e \in Errors, Failed(p, e)
  PROVE  /\ err' \in [Pars -> Errors] /\ err'[p] = e
         /\ file' = file /\ hold' = hold /\ refs' = refs /\ late' = late
         /\ NoLeakedReference'
         /\ \A q \in Pars : q # p => err'[q] = err[q]
<1>1. err \in [Pars -> Errors]
  BY DEF TypeOK, Errors
<1>2. err' = [err EXCEPT ![p] = e] /\ UNCHANGED <<file, hold, late, refs>>
  BY DEF Failed
<1> QED
  BY <1>1, <1>2, SameBalance

(* Giving up one of r counts: the last one reports. *)
LEMMA UnrefCounts ==
  ASSUME TypeOK, NEW p \in Pars, NEW r \in Nat \ {0}, Unref(p, r), reports[p] = 0
  PROVE  /\ refcnt' \in [Pars -> Nat] /\ refcnt'[p] = r - 1
         /\ reports' \in [Pars -> Nat]
         /\ reports'[p] = IF r = 1 THEN 1 ELSE 0
         /\ owing' \subseteq Pars
         /\ p \in owing' <=> r = 1 \/ p \in owing
         /\ \A q \in Pars : q # p =>
              /\ refcnt'[q] = refcnt[q] /\ reports'[q] = reports[q]
              /\ q \in owing' <=> q \in owing
<1>1. refcnt \in [Pars -> Nat] /\ reports \in [Pars -> Nat] /\ owing \subseteq Pars
  BY DEF TypeOK
<1>2. refcnt' = [refcnt EXCEPT ![p] = r - 1] /\ r - 1 \in Nat
  BY DEF Unref
<1>3. CASE r = 1
  <2>1. reports' = [reports EXCEPT ![p] = @ + 1] /\ owing' = owing \cup {p}
    BY <1>3 DEF Unref
  <2> QED
    BY <1>1, <1>2, <1>3, <2>1
<1>4. CASE r # 1
  <2>1. reports' = reports /\ owing' = owing
    BY <1>4 DEF Unref
  <2> QED
    BY <1>1, <1>2, <1>4, <2>1
<1> QED
  BY <1>3, <1>4

(* However a parser comes to its end, it has a file or an error. *)
Tells(p) ==
  \/ \E e \in Errors : Failed(p, e) /\ Settled(src[p], e, NoFile)
  \/ \E f \in Files : /\ Found(p, f) /\ Frame(src[p])
                      /\ Alive(f) \/ src[p].param = "path"

(* What is so when it has come there. *)
Told(p) ==
  /\ err' \in [Pars -> Errors] /\ file' \in [Pars -> Files \cup {NoFile}]
  /\ hold' \in [Pars -> [Slots -> Files \cup {NoFile}]]
  /\ refs' \in [Files -> Nat] /\ NoLeakedReference' /\ late' \subseteq Pars
  /\ Settled(src[p], err'[p], file'[p])
  /\ file'[p] # NoFile => \E i \in Slots : hold'[p][i] = file'[p]
  /\ file'[p] = NoFile => Bare(p)'
  /\ p \in late' => src[p].param = "path"
  /\ \A q \in Pars : q # p =>
       /\ err'[q] = err[q] /\ file'[q] = file[q] /\ hold'[q] = hold[q]
       /\ q \in late' <=> q \in late

LEMMA TellsKeeps ==
  ASSUME TypeOK, NoLeakedReference, UNCHANGED linked,
         NEW p \in Pars, Bare(p), p \notin late,
         err[p] = "none", file[p] = NoFile, Tells(p)
  PROVE  Told(p)
<1>1. /\ err \in [Pars -> Errors] /\ file \in [Pars -> Files \cup {NoFile}]
      /\ hold \in [Pars -> [Slots -> Files \cup {NoFile}]]
      /\ refs \in [Files -> Nat] /\ late \subseteq Pars
  BY DEF TypeOK, Errors
<1>2. ASSUME NEW e \in Errors, Failed(p, e), Settled(src[p], e, NoFile)
      PROVE  Told(p)
  <2>1. /\ err' \in [Pars -> Errors] /\ err'[p] = e
        /\ file' = file /\ hold' = hold /\ refs' = refs /\ late' = late
        /\ NoLeakedReference'
        /\ \A q \in Pars : q # p => err'[q] = err[q]
    BY <1>2, FailedKeeps
  <2>2. Bare(p)'
    BY <2>1 DEF Bare
  <2>3. file'[p] = NoFile
    BY <2>1
  <2>4. Settled(src[p], err'[p], file'[p])
    BY <1>2, <2>1, <2>3
  <2> QED
    BY <1>1, <2>1, <2>2, <2>3, <2>4 DEF Told
<1>3. ASSUME NEW f \in Files, Found(p, f), Frame(src[p]),
             Alive(f) \/ src[p].param = "path"
      PROVE  Told(p)
  <2>1. /\ file' \in [Pars -> Files \cup {NoFile}] /\ err' = err
        /\ hold' \in [Pars -> [Slots -> Files \cup {NoFile}]]
        /\ refs' \in [Files -> Nat] /\ NoLeakedReference'
        /\ late' \subseteq Pars /\ (Alive(f) => late' = late)
        /\ file'[p] = f /\ f # NoFile /\ \E i \in Slots : hold'[p][i] = f
        /\ \A q \in Pars : q # p =>
             /\ file'[q] = file[q] /\ hold'[q] = hold[q]
             /\ q \in late' <=> q \in late
    BY <1>3, FoundKeeps
  <2>2. Settled(src[p], err'[p], file'[p])
    <3>1. Verdict(src[p]) = "none"
      BY <1>3, VerdictIsWellformed DEF TypeOK
    <3>2. err'[p] = "none" /\ file'[p] # NoFile
      BY <2>1
    <3> QED
      BY <1>3, <3>1, <3>2 DEF Settled
  <2>3. file'[p] # NoFile /\ \E i \in Slots : hold'[p][i] = file'[p]
    BY <2>1
  <2>4. p \in late' => src[p].param = "path"
    BY <1>3, <2>1
  <2> QED
    BY <1>1, <2>1, <2>2, <2>3, <2>4 DEF Told
<1> QED
  BY <1>2, <1>3 DEF Tells

-----------------------------------------------------------------------------
(* A parse that is over when it returns. *)
LEMMA OverKeeps ==
  ASSUME IInv, NEW p \in Pars, call[p] = "none",
         call' = [call EXCEPT ![p] = "over"], Unref(p, 1), Tells(p),
         UNCHANGED <<src, lookup, answer, linked>>
  PROVE  IInv'
<1>1. TypeOK /\ NoLeakedReference /\ \A q \in Pars : Counted(q) /\ Outcome(q)
  BY DEF IInv
<1>2. /\ lookup[p] = "none" /\ refcnt[p] = 0 /\ reports[p] = 0 /\ p \notin owing
      /\ err[p] = "none" /\ file[p] = NoFile /\ p \notin late /\ Bare(p)
  BY <1>1 DEF Counted, Outcome, Activities
<1>3. /\ refcnt' \in [Pars -> Nat] /\ refcnt'[p] = 0
      /\ reports' \in [Pars -> Nat] /\ reports'[p] = 1
      /\ owing' \subseteq Pars /\ p \in owing'
      /\ \A q \in Pars : q # p =>
           /\ refcnt'[q] = refcnt[q] /\ reports'[q] = reports[q]
           /\ q \in owing' <=> q \in owing
  BY <1>1, <1>2, UnrefCounts
<1>4. /\ call' \in [Pars -> {"none", "inside", "over"}] /\ call'[p] = "over"
      /\ lookup'[p] = "none"
      /\ \A q \in Pars : q # p => call'[q] = call[q] /\ lookup'[q] = lookup[q]
  BY <1>1, <1>2 DEF TypeOK
<1>5. Told(p)
  BY <1>1, <1>2, TellsKeeps
<1>6. TypeOK'
  BY <1>1, <1>3, <1>4, <1>5 DEF TypeOK, Errors, Told, Told
<1>7. ASSUME NEW q \in Pars PROVE Counted(q)' /\ Outcome(q)'
  <2>1. CASE q = p
    <3>1. Counted(p)'
      BY <1>3, <1>4 DEF Counted, Activities
    <3>2. src'[p] = src[p]
      OBVIOUS
    <3>3. Settled(src[p], err[p], file[p])'
      BY <1>5, <3>2 DEF Told
    <3>4. Outcome(p)'
      BY <1>3, <1>4, <1>5, <3>2, <3>3 DEF Outcome, Told, Bare
    <3> QED
      BY <2>1, <3>1, <3>4
  <2>2. CASE q # p
    <3>1. Untouched(q)
      BY <1>3, <1>4, <1>5, <2>2 DEF Untouched, Told
    <3> QED
      BY <1>1, <3>1, Others
  <2> QED
    BY <2>1, <2>2
<1> QED
  BY <1>5, <1>6, <1>7 DEF IInv, Told

LEMMA AtOnceKeeps ==
  ASSUME IInv, NEW p \in Pars, ParseAtOnce(p)
  PROVE  IInv'
<1> DEFINE m == src[p]
<1>1. TypeOK /\ Counted(p) /\ Outcome(p) /\ m \in Sources
  BY DEF IInv, TypeOK
<1>2. /\ call[p] = "none" /\ call' = [call EXCEPT ![p] = "over"]
      /\ Unref(p, refcnt[p] + 1)
      /\ UNCHANGED <<src, lookup, answer, linked>>
  BY DEF ParseAtOnce
<1>3. refcnt[p] = 0
  BY <1>1, <1>2 DEF Counted, Activities
<1>4. Unref(p, 1)
  BY <1>2, <1>3
<1>5. Tells(p)
  <2>1. CASE ~Frame(m) /\ Failed(p, Verdict(m))
    <3>1. Settled(m, Verdict(m), NoFile)
      BY <2>1 DEF Settled
    <3> QED
      BY <2>1, <3>1, VerdictType DEF Tells
  <2>2. CASE Frame(m) /\ Failed(p, "file not found")
    <3>1. Settled(m, "file not found", NoFile)
      BY <2>2 DEF Settled
    <3> QED
      BY <2>2, <3>1 DEF Tells, Errors
  <2>3. CASE Frame(m) /\ m.id # NoFile /\ Alive(m.id) /\ Found(p, m.id)
    <3>1. m.id \in Files
      BY <1>1, <2>3, ProtoAssumption
    <3> QED
      BY <2>3, <3>1 DEF Tells
  <2> QED
    BY <2>1, <2>2, <2>3 DEF ParseAtOnce
<1> QED
  BY <1>2, <1>4, <1>5, OverKeeps

(* The lookup cannot be started, and its count is given back. *)
LEMMA RefusedKeeps ==
  ASSUME IInv, NEW p \in Pars, ParsePathRefused(p)
  PROVE  IInv'
<1>1. TypeOK /\ Counted(p) /\ Outcome(p)
  BY DEF IInv
<1>2. /\ call[p] = "none" /\ call' = [call EXCEPT ![p] = "over"]
      /\ Frame(src[p]) /\ Failed(p, "subreq failure")
      /\ Unref(p, (refcnt[p] + 2) - 1)
      /\ UNCHANGED <<src, lookup, answer, linked>>
  BY DEF ParsePathRefused
<1>3. refcnt[p] = 0
  <2>1. call[p] = "none"
    BY <1>2
  <2> QED
    BY <1>1, <2>1 DEF Counted, Activities
<1>4. Unref(p, 1)
  <2>1. (refcnt[p] + 2) - 1 = 1
    BY <1>3
  <2> QED
    BY <1>2, <2>1
<1>5. Settled(src[p], "subreq failure", NoFile)
  BY <1>2 DEF Settled
<1>6. Tells(p)
  BY <1>2, <1>5 DEF Tells, Errors
<1> QED
  BY <1>2, <1>4, <1>6, OverKeeps

(* The part of upd_proto_parse that starts a path lookup. *)
LEMMA PathKeeps ==
  ASSUME IInv, NEW p \in Pars, ParsePath(p)
  PROVE  IInv'
<1>1. TypeOK /\ NoLeakedReference /\ \A q \in Pars : Counted(q) /\ Outcome(q)
  BY DEF IInv
<1>2. /\ call[p] = "none" /\ Frame(src[p]) /\ src[p].param = "path"
      /\ call' = [call EXCEPT ![p] = "inside"]
      /\ lookup' = [lookup EXCEPT ![p] = "running"]
      /\ refcnt' = [refcnt EXCEPT ![p] = @ + 2]
      /\ UNCHANGED <<src, answer, err, file, hold, reports, owing, late, linked,
                     refs>>
  BY DEF ParsePath
<1>3. /\ lookup[p] = "none" /\ refcnt[p] = 0 /\ reports[p] = 0 /\ p \notin owing
      /\ err[p] = "none" /\ file[p] = NoFile /\ p \notin late /\ Bare(p)
  BY <1>1, <1>2 DEF Counted, Outcome, Activities
<1>4. /\ call' \in [Pars -> {"none", "inside", "over"}] /\ call'[p] = "inside"
      /\ lookup' \in [Pars -> {"none", "running"}] /\ lookup'[p] = "running"
      /\ refcnt' \in [Pars -> Nat] /\ refcnt'[p] = 2
  <2>1. /\ call \in [Pars -> {"none", "inside", "over"}]
        /\ lookup \in [Pars -> {"none", "running"}]
        /\ refcnt \in [Pars -> Nat]
    BY <1>1 DEF TypeOK
  <2> QED
    BY <1>2, <1>3, <2>1
<1>5. TypeOK'
  BY <1>1, <1>2, <1>4 DEF TypeOK
<1>6. NoLeakedReference'
  BY <1>1, <1>2, SameBalance
<1>7. ASSUME NEW q \in Pars PROVE Counted(q)' /\ Outcome(q)'
  <2>1. CASE q = p
    BY <1>2, <1>3, <1>4, <2>1 DEF Counted, Outcome, Activities, Frame, Bare
  <2>2. CASE q # p
    <3>1. Untouched(q)
      BY <1>1, <1>2, <2>2 DEF Untouched, TypeOK
    <3> QED
      BY <1>1, <3>1, Others
  <2> QED
    BY <2>1, <2>2
<1> QED
  BY <1>5, <1>6, <1>7 DEF IInv

(* upd_proto_parse returns, before or after the callback of the lookup.    *)
LEMMA ReturnsKeeps ==
  ASSUME IInv, NEW p \in Pars, ParseReturns(p)
  PROVE  IInv'
<1>1. TypeOK /\ NoLeakedReference /\ \A q \in Pars : Counted(q) /\ Outcome(q)
  BY DEF IInv
<1>2. /\ call[p] = "inside" /\ call' = [call EXCEPT ![p] = "over"]
      /\ Unref(p, refcnt[p])
      /\ UNCHANGED <<src, lookup, answer, err, file, hold, late, linked, refs>>
  BY DEF ParseReturns
<1>3. /\ refcnt[p] = IF lookup[p] = "running" THEN 2 ELSE 1
      /\ reports[p] = 0 /\ p \notin owing
  BY <1>1, <1>2 DEF Counted, Activities
<1>4. refcnt[p] \in Nat \ {0}
  BY <1>3
<1>5. /\ refcnt' \in [Pars -> Nat] /\ refcnt'[p] = refcnt[p] - 1
      /\ reports' \in [Pars -> Nat]
      /\ reports'[p] = IF refcnt[p] = 1 THEN 1 ELSE 0
      /\ owing' \subseteq Pars
      /\ p \in owing' <=> refcnt[p] = 1 \/ p \in owing
      /\ \A q \in Pars : q # p =>
           /\ refcnt'[q] = refcnt[q] /\ reports'[q] = reports[q]
           /\ q \in owing' <=> q \in owing
  BY <1>1, <1>2, <1>3, <1>4, UnrefCounts
<1>6. /\ call' \in [Pars -> {"none", "inside", "over"}] /\ call'[p] = "over"
      /\ \A q \in Pars : q # p => call'[q] = call[q]
  BY <1>1, <1>2 DEF TypeOK
<1>7. TypeOK'
  BY <1>1, <1>2, <1>5, <1>6 DEF TypeOK
<1>8. NoLeakedReference'
  BY <1>1, <1>2, SameBalance
<1>9. ASSUME NEW q \in Pars PROVE Counted(q)' /\ Outcome(q)'
  <2>1. CASE q = p
    <3>1. lookup[p] \in {"none", "running"}
      BY <1>1 DEF TypeOK
    <3>2. Counted(p)'
      BY <1>2, <1>3, <1>5, <1>6, <3>1 DEF Counted, Activities
    <3>3. Outcome(p)'
      BY <1>1, <1>2, <1>3, <1>5, <1>6, <3>1 DEF Outcome, Bare
    <3> QED
      BY <2>1, <3>2, <3>3
  <2>2. CASE q # p
    <3>1. Untouched(q)
      BY <1>2, <1>5, <1>6, <2>2 DEF Untouched
    <3> QED
      BY <1>1, <3>1, Others
  <2> QED
    BY <2>1, <2>2
<1> QED
  BY <1>7, <1>8, <1>9 DEF IInv

(* The driver names a file, and nothing the parser keeps changes. *)
LEMMA AnsweredKeeps ==
  ASSUME IInv, NEW p \in Pars, LookupAnswered(p)
  PROVE  IInv'
<1>1. TypeOK /\ NoLeakedReference /\ \A q \in Pars : Counted(q) /\ Outcome(q)
  BY DEF IInv
<1>2. /\ UNCHANGED <<src, call, lookup, refcnt, err, file, hold, reports, owing,
                     late, linked, refs>>
      /\ \E f \in linked : answer' = [answer EXCEPT ![p] = f]
  BY DEF LookupAnswered
<1>3. answer' \in [Pars -> Files \cup {NoFile}]
  BY <1>1, <1>2 DEF TypeOK
<1>4. TypeOK'
  BY <1>1, <1>2, <1>3 DEF TypeOK
<1>5. NoLeakedReference'
  BY <1>1, <1>2, SameBalance
<1>6. ASSUME NEW q \in Pars PROVE Counted(q)' /\ Outcome(q)'
  <2>1. Untouched(q)
    BY <1>2 DEF Untouched
  <2> QED
    BY <1>1, <2>1, Others
<1> QED
  BY <1>4, <1>5, <1>6 DEF IInv

(* The lookup reports, before or after upd_proto_parse returns. *)
LEMMA LookupKeeps ==
  ASSUME IInv, NEW p \in Pars, LookupCb(p)
  PROVE  IInv'
<1>1. TypeOK /\ NoLeakedReference /\ \A q \in Pars : Counted(q) /\ Outcome(q)
  BY DEF IInv
<1>2. /\ lookup[p] = "running" /\ lookup' = [lookup EXCEPT ![p] = "none"]
      /\ answer' = [answer EXCEPT ![p] = NoFile]
      /\ \/ answer[p] # NoFile /\ Found(p, answer[p])
         \/ Failed(p, "file not found")
      /\ Unref(p, refcnt[p])
      /\ UNCHANGED <<src, call, linked>>
  BY DEF LookupCb
<1>3. /\ call[p] \in {"inside", "over"}
      /\ Frame(src[p]) /\ src[p].param = "path"
      /\ refcnt[p] = IF call[p] = "inside" THEN 2 ELSE 1
      /\ reports[p] = 0 /\ p \notin owing
      /\ err[p] = "none" /\ file[p] = NoFile /\ p \notin late /\ Bare(p)
  <2>1. call[p] \in {"none", "inside", "over"}
    BY <1>1 DEF TypeOK
  <2>2. Counted(p) /\ Outcome(p) /\ lookup[p] = "running"
    BY <1>1, <1>2
  <2>3. call[p] \in {"inside", "over"}
    BY <2>1, <2>2 DEF Counted
  <2>4. /\ Frame(src[p]) /\ src[p].param = "path"
        /\ err[p] = "none" /\ file[p] = NoFile /\ p \notin late /\ Bare(p)
    BY <2>2 DEF Outcome
  <2>5. refcnt[p] = IF call[p] = "inside" THEN 2 ELSE 1
    BY <2>2 DEF Counted, Activities
  <2>6. reports[p] = 0 /\ p \notin owing
    BY <2>2 DEF Counted
  <2> QED
    BY <2>3, <2>4, <2>5, <2>6
<1>4. refcnt[p] \in Nat \ {0}
  BY <1>3
<1>5. /\ refcnt' \in [Pars -> Nat] /\ refcnt'[p] = refcnt[p] - 1
      /\ reports' \in [Pars -> Nat]
      /\ reports'[p] = IF refcnt[p] = 1 THEN 1 ELSE 0
      /\ owing' \subseteq Pars
      /\ p \in owing' <=> refcnt[p] = 1 \/ p \in owing
      /\ \A q \in Pars : q # p =>
           /\ refcnt'[q] = refcnt[q] /\ reports'[q] = reports[q]
           /\ q \in owing' <=> q \in owing
  BY <1>1, <1>2, <1>3, <1>4, UnrefCounts
<1>6. /\ lookup' \in [Pars -> {"none", "running"}] /\ lookup'[p] = "none"
      /\ answer' \in [Pars -> Files \cup {NoFile}]
      /\ \A q \in Pars : q # p => lookup'[q] = lookup[q]
  BY <1>1, <1>2 DEF TypeOK
<1>7. Tells(p)
  <2>1. CASE answer[p] # NoFile /\ Found(p, answer[p])
    <3>1. answer[p] \in Files
      BY <1>1, <2>1 DEF TypeOK
    <3> QED
      BY <1>3, <2>1, <3>1 DEF Tells
  <2>2. CASE Failed(p, "file not found")
    <3>1. Settled(src[p], "file not found", NoFile)
      BY <1>3 DEF Settled
    <3> QED
      BY <2>2, <3>1 DEF Tells, Errors
  <2> QED
    BY <1>2, <2>1, <2>2
<1>8. Told(p)
  BY <1>1, <1>2, <1>3, <1>7, TellsKeeps
<1>9. TypeOK'
  BY <1>1, <1>2, <1>5, <1>6, <1>8 DEF TypeOK, Errors, Told
<1>10. ASSUME NEW q \in Pars PROVE Counted(q)' /\ Outcome(q)'
  <2>1. CASE q = p
    <3>1. Counted(p)'
      <4>1. call'[p] = call[p]
        BY <1>2
      <4>2. CASE call[p] = "inside"
        BY <1>3, <1>5, <1>6, <4>1, <4>2 DEF Counted, Activities
      <4>3. CASE call[p] = "over"
        BY <1>3, <1>5, <1>6, <4>1, <4>3 DEF Counted, Activities
      <4> QED
        BY <1>3, <4>2, <4>3
    <3>2. src'[p] = src[p] /\ call'[p] = call[p]
      BY <1>2
    <3>3. Settled(src[p], err[p], file[p])'
      BY <1>8, <3>2 DEF Told
    <3>4. Outcome(p)'
      BY <1>3, <1>6, <1>8, <3>2, <3>3 DEF Outcome, Told, Bare
    <3> QED
      BY <2>1, <3>1, <3>4
  <2>2. CASE q # p
    <3>1. Untouched(q)
      BY <1>2, <1>5, <1>6, <1>8, <2>2 DEF Untouched, Told
    <3> QED
      BY <1>1, <3>1, Others
  <2> QED
    BY <2>1, <2>2
<1> QED
  BY <1>8, <1>9, <1>10 DEF IInv, Told

(* The holds are given back when the user is done. *)
LEMMA ReleaseKeeps ==
  ASSUME IInv, NEW p \in Pars, Release(p)
  PROVE  IInv'
<1> DEFINE own(f) == {i \in Slots : hold[p][i] = f}
<1>1. TypeOK /\ NoLeakedReference /\ \A q \in Pars : Counted(q) /\ Outcome(q)
  BY DEF IInv
<1>2. /\ p \in owing /\ owing' = owing \ {p}
      /\ hold' = [hold EXCEPT ![p] = [i \in Slots |-> NoFile]]
      /\ refs' = [f \in Files |-> IF p \in late THEN refs[f]
                                  ELSE refs[f] - Cardinality(own(f))]
      /\ UNCHANGED <<src, call, lookup, answer, refcnt, err, file, reports, late,
                     linked>>
  BY DEF Release
<1>3. reports[p] = 1
  BY <1>1, <1>2 DEF Counted
<1>4. ASSUME NEW f \in Files
      PROVE  /\ refs'[f] = Cardinality(Holders(f)') + (IF f \in linked' THEN 1 ELSE 0)
             /\ refs'[f] \in Nat
  <2>1. refs[f] = Cardinality(Holders(f)) + (IF f \in linked THEN 1 ELSE 0)
    BY <1>1 DEF NoLeakedReference
  <2>2. Cardinality(Holders(f)) \in Nat /\ linked' = linked
    BY <1>2, HoldersFinite
  <2>3. CASE p \in late
    <3>1. Holders(f)' = Holders(f)
      BY <1>1, <1>2, <2>3, ReleaseNone
    <3>2. refs'[f] = refs[f]
      BY <1>2, <2>3
    <3> QED
      BY <2>1, <2>2, <3>1, <3>2
  <2>4. CASE p \notin late
    <3>1. /\ Cardinality(own(f)) \in Nat
          /\ Cardinality(Holders(f)') \in Nat
          /\ Cardinality(Holders(f)') = Cardinality(Holders(f)) - Cardinality(own(f))
      BY <1>1, <1>2, <2>4, ReleaseDrops
    <3>2. refs'[f] = refs[f] - Cardinality(own(f))
      BY <1>2, <2>4
    <3> QED
      BY <2>1, <2>2, <3>1, <3>2
  <2> QED
    BY <2>3, <2>4
<1>5. NoLeakedReference' /\ refs' \in [Files -> Nat]
  BY <1>2, <1>4 DEF NoLeakedReference
<1>6. TypeOK'
  BY <1>1, <1>2, <1>5, ProtoAssumption DEF TypeOK
<1>7. ASSUME NEW q \in Pars PROVE Counted(q)' /\ Outcome(q)'
  <2>1. CASE q = p
    <3>1. Counted(p)'
      BY <1>1, <1>2, <1>3 DEF Counted, Activities
    <3>2. Bare(p)'
      BY <1>1, <1>2 DEF Bare, TypeOK
    <3>3. p \notin owing' /\ reports'[p] # 0
      BY <1>2, <1>3
    <3>4. Outcome(p)'
      BY <1>1, <1>2, <3>2, <3>3 DEF Outcome
    <3> QED
      BY <2>1, <3>1, <3>4
  <2>2. CASE q # p
    <3>1. Untouched(q)
      BY <1>1, <1>2, <2>2 DEF Untouched, TypeOK
    <3> QED
      BY <1>1, <3>1, Others
  <2> QED
    BY <2>1, <2>2
<1> QED
  BY <1>5, <1>6, <1>7 DEF IInv

(* A file is removed: only its directory's reference goes. *)
LEMMA UnlinkKeeps ==
  ASSUME IInv, NEW f \in Files, Unlink(f)
  PROVE  IInv'
<1>1. TypeOK /\ NoLeakedReference /\ \A q \in Pars : Counted(q) /\ Outcome(q)
  BY DEF IInv
<1>2. /\ f \in linked /\ linked' = linked \ {f}
      /\ refs' = [refs EXCEPT ![f] = @ - 1]
      /\ UNCHANGED pvars
  BY DEF Unlink
<1>3. ASSUME NEW g \in Files
      PROVE  /\ refs'[g] = Cardinality(Holders(g)') + (IF g \in linked' THEN 1 ELSE 0)
             /\ refs'[g] \in Nat
  <2>1. Cardinality(Holders(g)) \in Nat /\ Holders(g)' = Holders(g)
    BY <1>2, HoldersFinite DEF Holders, pvars
  <2>2. refs[g] = Cardinality(Holders(g)) + (IF g \in linked THEN 1 ELSE 0)
    BY <1>1 DEF NoLeakedReference
  <2>3. refs'[g] = IF g = f THEN refs[g] - 1 ELSE refs[g]
    BY <1>1, <1>2 DEF TypeOK
  <2> QED
    BY <1>2, <2>1, <2>2, <2>3
<1>4. NoLeakedReference' /\ refs' \in [Files -> Nat]
  <2>1. refs \in [Files -> Nat]
    BY <1>1 DEF TypeOK
  <2> QED
    BY <1>2, <1>3, <2>1 DEF NoLeakedReference
<1>5. TypeOK'
  BY <1>1, <1>2, <1>4 DEF TypeOK, pvars
<1>6. ASSUME NEW q \in Pars PROVE Counted(q)' /\ Outcome(q)'
  <2>1. Untouched(q)
    BY <1>2 DEF Untouched, pvars
  <2> QED
    BY <1>1, <2>1, Others
<1> QED
  BY <1>4, <1>5, <1>6 DEF IInv

(* Every step keeps the invariant. *)
LEMMA NextKeeps == IInv /\ [Next]_vars => IInv'
<1> SUFFICES ASSUME IInv, [Next]_vars PROVE IInv'
  OBVIOUS
<1>1. ASSUME NEW p \in Pars, Handler(p) PROVE IInv'
  BY <1>1, AtOnceKeeps, PathKeeps, RefusedKeeps, ReturnsKeeps, AnsweredKeeps,
     LookupKeeps, ReleaseKeeps DEF Handler
<1>2. ASSUME NEW f \in Files, Unlink(f) PROVE IInv'
  BY <1>2, UnlinkKeeps
<1>3. CASE UNCHANGED vars
  <2>1. TypeOK'
    BY <1>3 DEF IInv, TypeOK, vars
  <2>2. NoLeakedReference'
    BY <1>3, SameBalance DEF IInv, vars
  <2>3. ASSUME NEW q \in Pars PROVE Counted(q)' /\ Outcome(q)'
    <3>1. Untouched(q)
      BY <1>3 DEF Untouched, vars
    <3> QED
      BY <3>1, Others DEF IInv
  <2> QED
    BY <2>1, <2>2, <2>3 DEF IInv
<1> QED
  BY <1>1, <1>2, <1>3 DEF Next

-----------------------------------------------------------------------------
(* The invariant holds whatever parsers do and in whatever order the       *)
(* lookups, the calls and the removals of files come.                      *)
THEOREM Invariance == Safety => []IInv
BY InitIInv, NextKeeps, PTL DEF Safety

(* Every field of a parser and every count of the host keeps its type; in  *)
(* particular no count becomes negative.                                   *)
THEOREM TypeCorrect == Safety => []TypeOK
<1>1. IInv => TypeOK
  BY DEF IInv
<1> QED
  BY <1>1, Invariance, PTL

(* par->refcnt is the number of activities that will still touch the       *)
(* object, in every interleaving of upd_proto_parse and its callback.      *)
THEOREM RefcntIsActivitiesHolds == Safety => []RefcntIsActivities
<1>1. IInv => RefcntIsActivities
  BY DEF IInv, Counted, RefcntIsActivities
<1> QED
  BY <1>1, Invariance, PTL

(* par->cb is called exactly when the call and its lookup are over, once.  *)
THEOREM ReportedOnceAtTheEndHolds == Safety => []ReportedOnceAtTheEnd
<1>1. IInv => ReportedOnceAtTheEnd
  BY DEF IInv, Counted, ReportedOnceAtTheEnd
<1> QED
  BY <1>1, Invariance, PTL

(* The references on a file are those of its directory and of the holds.   *)
THEOREM NoLeakedReferenceHolds == Safety => []NoLeakedReference
<1>1. IInv => NoLeakedReference
  BY DEF IInv
<1> QED
  BY <1>1, Invariance, PTL

(* The file a message names is alive for the whole of par->cb, although    *)
(* others may remove it at any time: only a removal that comes before the  *)
(* hold, between the driver's answer to a lookup by path and its callback, *)
(* can leave the user with a file that is gone (proto.h:243-251).          *)
THEOREM FileAliveForUserHolds == Safety => []FileAliveForUser
<1>1. ASSUME IInv PROVE FileAliveForUser
  <2> SUFFICES ASSUME NEW p \in owing, file[p] # NoFile, ~RemovedBeforeHold(p)
               PROVE  refs[file[p]] > 0
    BY DEF FileAliveForUser, Alive
  <2>1. TypeOK /\ NoLeakedReference
    BY <1>1 DEF IInv
  <2>2. p \in Pars /\ file[p] \in Files
    BY <2>1 DEF TypeOK
  <2>3. Outcome(p)
    BY <1>1, <2>2 DEF IInv
  <2>4. p \notin late
    BY <2>3 DEF Outcome, RemovedBeforeHold
  <2>5. PICK i \in Slots : hold[p][i] = file[p]
    BY <2>3 DEF Outcome
  <2>6. <<p, i>> \in Holders(file[p])
    BY <2>2, <2>4, <2>5 DEF Holders
  <2>7. Cardinality(Holders(file[p])) \in Nat \ {0}
    BY <2>6, HoldersFinite, FS_EmptySet
  <2>8. refs[file[p]] = Cardinality(Holders(file[p]))
                          + (IF file[p] \in linked THEN 1 ELSE 0)
    BY <2>1, <2>2 DEF NoLeakedReference
  <2> QED
    BY <2>7, <2>8
<1> QED
  BY <1>1, Invariance, PTL

(* par->cb is told of no error exactly when the message is in order and    *)
(* comes with the file it needs, whichever return the parser took, and is  *)
(* given a file for nothing but a frame that has no error.                 *)
THEOREM VerdictCompleteHolds == Safety => []VerdictComplete
<1>1. ASSUME IInv PROVE VerdictComplete
  <2> SUFFICES ASSUME NEW p \in Pars, reports[p] > 0
               PROVE  LET m     == src[p]
                          frame == Wellformed(m) /\ m.cmd = "frame"
                      IN  /\ err[p] = "none" <=>
                               Wellformed(m) /\ (frame => file[p] # NoFile)
                          /\ file[p] # NoFile => frame
    BY DEF VerdictComplete
  <2>1. call[p] = "over" /\ lookup[p] = "none"
    BY <1>1 DEF IInv, Counted
  <2>2. Settled(src[p], err[p], file[p])
    BY <1>1, <2>1 DEF IInv, Outcome
  <2>3. /\ Verdict(src[p]) = "none" <=> Wellformed(src[p])
        /\ Frame(src[p]) <=> Wellformed(src[p]) /\ src[p].cmd = "frame"
    BY <1>1, VerdictIsWellformed DEF IInv, TypeOK
  <2> QED
    BY <2>2, <2>3 DEF Settled
<1> QED
  BY <1>1, Invariance, PTL

(* Nothing touches the object after par->cb, where the user frees it. *)
THEOREM UntouchedAfterReportHolds == Safety => UntouchedAfterReport
<1> DEFINE Same(p) == reports[p] > 0 =>
             UNCHANGED <<call[p], lookup[p], refcnt[p], err[p], file[p],
                         reports[p]>>
<1>1. ASSUME IInv, Next, NEW p \in Pars PROVE Same(p)
  <2> SUFFICES ASSUME reports[p] > 0
               PROVE  UNCHANGED <<call[p], lookup[p], refcnt[p], err[p],
                                  file[p], reports[p]>>
    OBVIOUS
  <2>1. TypeOK /\ call[p] = "over" /\ lookup[p] = "none"
    BY <1>1 DEF IInv, Counted
  <2>2. ASSUME NEW q \in Pars, Handler(q), q # p
        PROVE  Same(p)
    <3>1. CASE ParseAtOnce(q)
      BY <2>1, <2>2, <3>1 DEF ParseAtOnce, Unref, Found, Failed, TypeOK
    <3>2. CASE ParsePath(q)
      BY <2>1, <2>2, <3>2 DEF ParsePath, TypeOK
    <3>6. CASE ParsePathRefused(q)
      BY <2>1, <2>2, <3>6 DEF ParsePathRefused, Unref, Failed, TypeOK
    <3>7. CASE LookupAnswered(q)
      BY <3>7 DEF LookupAnswered
    <3>3. CASE ParseReturns(q)
      BY <2>1, <2>2, <3>3 DEF ParseReturns, Unref, TypeOK
    <3>4. CASE LookupCb(q)
      BY <2>1, <2>2, <3>4 DEF LookupCb, Unref, Found, Failed, TypeOK
    <3>5. CASE Release(q)
      BY <3>5 DEF Release
    <3> QED
      BY <2>2, <3>1, <3>2, <3>3, <3>4, <3>5, <3>6, <3>7 DEF Handler
  <2>3. ASSUME Handler(p)
        PROVE  Same(p)
    BY <2>1, <2>3 DEF Handler, ParseAtOnce, ParsePath, ParsePathRefused,
                      ParseReturns, LookupAnswered, LookupCb, Release
  <2>4. ASSUME NEW f \in Files, Unlink(f)
        PROVE  Same(p)
    BY <2>4 DEF Unlink, pvars
  <2> QED
    BY <1>1, <2>2, <2>3, <2>4 DEF Next
<1>2. IInv /\ [Next]_vars => [\A p \in Pars : Same(p)]_vars
  BY <1>1
<1> QED
  BY <1>2, Invariance, PTL DEF Safety, UntouchedAfterReport
=============================================================================
