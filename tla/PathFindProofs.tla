--------------------------- MODULE PathFindProofs ---------------------------
(***************************************************************************)
(* Proofs about PathFind, for any number of lookups, files, names and      *)
(* calls, any host and any other client.                                   *)
(*                                                                         *)
(* OneOutstanding is not inductive: whether Resume may descend depends on  *)
(* what FindCb left in reply, and whether LockGranted may ask for          *)
(* Head(rest) on a lookup with nothing left having reported.  IInv adds    *)
(* those facts, lookup by lookup (Progress), and two about the tree and    *)
(* its locks.  Where a lookup stands in a tree nobody else edits (TrailOf) *)
(* and what it knows of a term it misses (MissOf) are invariants on top of *)
(* it.                                                                     *)
(***************************************************************************)
EXTENDS PathFind, SequenceTheorems, WellFoundedInduction, TLAPS

(* One lookup: it reports once, it has a term to go on with as long as it  *)
(* runs, and it descends only along a link it was told of.                 *)
Progress(p) ==
  /\ reports[p] \in {0, 1}
  /\ p \notin begun => reports[p] = 0
  /\ IF Running(p) THEN rest[p] # <<>> /\ (Waiting(p) \/ Asking(p) \/ Unlocking(p))
                   ELSE Quiet(p)
  /\ Asking(p) => reply[p] = NoFile
  /\ cont[p] = "descend" => /\ reply[p] \in Files
                            /\ <<base[p], Head(rest[p]), reply[p]>> \in links

(* The history of the tree covers the tree. *)
TreeIsLinked ==
  \A d \in Files, n \in Names :
    dir[d][n] # NoFile => <<d, n, dir[d][n]>> \in links

(* A granted shared lock and an exclusive one never meet. *)
HeldExcludesWriter == \A l \in locks : l.st = "held" => l.file # writer

IInv == /\ TypeOK
        /\ \A p \in PFs : Progress(p)
        /\ TreeIsLinked
        /\ HeldExcludesWriter

-----------------------------------------------------------------------------
(* What the invariant of one lookup reads, and so what a step of another   *)
(* one must leave alone: its own fields and its entries at the host.       *)
Untouched(q) ==
  /\ call'[q] = call[q] /\ (q \in begun' <=> q \in begun)
  /\ base'[q] = base[q] /\ rest'[q] = rest[q] /\ reply'[q] = reply[q]
  /\ cont'[q] = cont[q] /\ reports'[q] = reports[q]
  /\ LocksOf(q)' = LocksOf(q) /\ ReqsOf(q)' = ReqsOf(q)

(* A lookup nobody touches keeps its invariant while links only grows.     *)
LEMMA Frame ==
  ASSUME NEW q \in PFs, Progress(q), Untouched(q), links \subseteq links'
  PROVE  Progress(q)'
BY DEF Progress, Untouched, Running, Waiting, Asking, Unlocking, Quiet

(* The invariant holds at the start. *)
LEMMA InitIInv == Init => IInv
<1> SUFFICES ASSUME Init PROVE IInv
  OBVIOUS
<1> USE PathFindAssumption
<1>1. \A d \in Files, n \in Names :
        dir[d][n] # NoFile => dir[d][n] \in Files /\ <<d, n, dir[d][n]>> \in links
  <2> SUFFICES ASSUME NEW d \in Files, NEW n \in Names, dir[d][n] # NoFile
               PROVE  dir[d][n] \in Files /\ <<d, n, dir[d][n]>> \in links
    OBVIOUS
  <2>1. LinkAt(InitLinks, d, n) # {}
    BY DEF Init
  <2>2. PICK l \in LinkAt(InitLinks, d, n) : dir[d][n] = l[3]
    BY <2>1 DEF Init
  <2>3. l \in InitLinks /\ l[1] = d /\ l[2] = n
    BY DEF LinkAt
  <2>4. l \in Files \X Names \X Files
    BY <2>3
  <2>5. l = <<l[1], l[2], l[3]>> /\ l[3] \in Files
    BY <2>4
  <2> QED
    BY <2>2, <2>3, <2>5 DEF Init
<1>2. TypeOK
  <2>1. dir \in [Files -> [Names -> Files \cup {NoFile}]]
    <3>1. \A d \in Files, n \in Names : dir[d][n] \in Files \cup {NoFile}
      BY <1>1
    <3> QED
      BY <3>1 DEF Init
  <2>2. /\ base \in [PFs -> Files \cup {NoFile}]
        /\ rest \in [PFs -> Seq(Names)]
    BY DEF Init
  <2> QED
    BY <2>1, <2>2 DEF Init, TypeOK
<1>3. \A p \in PFs : Progress(p)
  BY DEF Init, Progress, Running, Quiet, Asking, LocksOf, ReqsOf, Lock
<1> QED
  BY <1>1, <1>2, <1>3 DEF IInv, TreeIsLinked, HeldExcludesWriter, Init

-----------------------------------------------------------------------------
(* next_ stands in the directory it is given, when there is one.           *)
LEMMA FileStands ==
  ASSUME NEW f \in Files
  PROVE  f # NoFile /\ StandsOn(f) = f
BY PathFindAssumption DEF StandsOn

(* next_, entered by a lookup with nothing outstanding and a directory to  *)
(* stand in, leaves it waiting for one lock or reported, and nobody else   *)
(* sees it.                                                                *)
LEMMA EnterProgress ==
  ASSUME IInv, NEW p \in PFs, NEW f \in Files, NEW r \in Seq(Names),
         Enter(p, f, r),
         LocksOf(p) = {}, ReqsOf(p) = {}, reports[p] = 0,
         p \in begun', cont'[p] = "none", reqs' = reqs, writer' = writer
  PROVE  /\ base' \in [PFs -> Files \cup {NoFile}]
         /\ rest' \in [PFs -> Seq(Names)]
         /\ reports' \in [PFs -> {0, 1}]
         /\ locks' \subseteq [pf : PFs, file : Files, st : {"pending", "held"}]
         /\ Progress(p)'
         /\ HeldExcludesWriter'
         /\ \A q \in PFs : q # p =>
              /\ base'[q] = base[q] /\ rest'[q] = rest[q]
              /\ reports'[q] = reports[q] /\ LocksOf(q)' = LocksOf(q)
<1> USE DEF IInv, TypeOK
<1>1. f # NoFile /\ StandsOn(f) = f
  BY FileStands
<1>2. base'[p] = f /\ rest'[p] = r /\ ReqsOf(p)' = {}
  BY <1>1 DEF Enter, ReqsOf
<1>3. CASE Report(p) /\ UNCHANGED locks
  <2>1. reports'[p] = 1 /\ LocksOf(p)' = {}
    BY <1>3 DEF Report, LocksOf
  <2>2. Progress(p)'
    BY <1>2, <2>1 DEF Progress, Running, Quiet, Asking, Lock
  <2> QED
    BY <1>1, <1>3, <2>2 DEF Enter, Report, LocksOf, HeldExcludesWriter
<1>4. CASE /\ r # <<>>
           /\ locks' = locks \cup {Lock(p, f, "pending")}
           /\ UNCHANGED reports
  <2>1. LocksOf(p)' = {Lock(p, f, "pending")}
    BY <1>4 DEF LocksOf, Lock
  <2>2. Waiting(p)'
    BY <1>2, <2>1 DEF Waiting
  <2>3. ~Asking(p)'
    BY <1>2, <2>1 DEF Asking, Lock
  <2>4. Progress(p)'
    BY <1>1, <1>2, <1>4, <2>2, <2>3 DEF Progress, Running
  <2> QED
    BY <1>1, <1>4, <2>4 DEF Enter, LocksOf, Lock, HeldExcludesWriter
<1> QED
  BY <1>1, <1>3, <1>4 DEF Enter

(* upd_file_unlock by a lookup that has nothing else outstanding leaves it *)
(* inside that call.                                                       *)
LEMMA UnlockProgress ==
  ASSUME IInv, NEW p \in PFs, NEW l \in locks, NEW next \in {"finish", "descend"},
         Running(p), LocksOf(p) = {l}, ReqsOf(p)' = {}, Unlock(p, l, next),
         UNCHANGED <<begun, base, rest, reports, writer>>,
         next = "descend" => /\ reply'[p] \in Files
                             /\ <<base[p], Head(rest[p]), reply'[p]>> \in links'
  PROVE  /\ cont' \in [PFs -> {"none", "finish", "descend"}]
         /\ locks' \subseteq [pf : PFs, file : Files, st : {"pending", "held"}]
         /\ Progress(p)'
         /\ HeldExcludesWriter'
         /\ \A q \in PFs : q # p =>
              cont'[q] = cont[q] /\ LocksOf(q)' = LocksOf(q)
<1> USE DEF IInv, TypeOK
<1>1. LocksOf(p)' = {} /\ l.pf = p
  BY DEF Unlock, LocksOf
<1>2. cont'[p] = next
  BY DEF Unlock
<1>3. Running(p)' /\ Unlocking(p)' /\ ~Asking(p)'
  BY <1>1, <1>2 DEF Running, Unlocking, Asking, Lock
<1>4. Progress(p)'
  BY <1>2, <1>3 DEF Progress
<1>5. \A q \in PFs : q # p => cont'[q] = cont[q] /\ LocksOf(q)' = LocksOf(q)
  BY <1>1 DEF Unlock, LocksOf
<1> QED
  BY <1>4, <1>5 DEF Unlock, HeldExcludesWriter

-----------------------------------------------------------------------------
(* upd_pathfind keeps the invariant, whether or not it has a root to start *)
(* from.                                                                   *)
LEMMA StartKeeps ==
  ASSUME IInv, NEW p \in PFs, Start(p) PROVE IInv'
<1> USE DEF IInv, TypeOK
<1>1. /\ reports[p] = 0 /\ Quiet(p) /\ p \in begun'
      /\ ~Running(p)
  BY DEF Start, Progress, Running
<1>2. call[p] \in Calls
  OBVIOUS
<1>3. \A q \in PFs : q # p => ReqsOf(q)' = ReqsOf(q) /\ (q \in begun' <=> q \in begun)
  BY DEF Start, ReqsOf
<1>4. CASE NeedsRoot(p) /\ ~call[p].iso
  <2>1. base'[p] = NoFile /\ LocksOf(p)' = {} /\ ReqsOf(p)' = {} /\ cont'[p] = "none"
        /\ reports'[p] = 0
    BY <1>1, <1>4 DEF Start, Quiet, LocksOf, ReqsOf
  <2>2. Progress(p)'
    BY <1>1, <2>1 DEF Progress, Running, Quiet, Asking, Lock
  <2>3. \A q \in PFs : q # p => Untouched(q)
    BY <1>3, <1>4 DEF Start, Untouched, LocksOf
  <2>4. \A q \in PFs : Progress(q)'
    BY <2>2, <2>3, Frame DEF Start
  <2> QED
    BY <1>4, <2>4 DEF Start, TreeIsLinked, HeldExcludesWriter
<1>5. CASE ~(NeedsRoot(p) /\ ~call[p].iso)
  <2> DEFINE f == IF NeedsRoot(p) THEN Root ELSE call[p].base
  <2>1. f \in Files
    BY <1>2, PathFindAssumption DEF NeedsRoot
  <2>2. rest[p] \in Seq(Names)
    OBVIOUS
  <2>3. Enter(p, f, rest[p])
    BY <1>5 DEF Start
  <2>4. LocksOf(p) = {} /\ ReqsOf(p) = {} /\ cont'[p] = "none"
        /\ reqs' = reqs /\ writer' = writer
    BY <1>1 DEF Quiet, Start
  <2> HIDE DEF f
  <2>5. /\ base' \in [PFs -> Files \cup {NoFile}]
        /\ rest' \in [PFs -> Seq(Names)]
        /\ reports' \in [PFs -> {0, 1}]
        /\ locks' \subseteq [pf : PFs, file : Files, st : {"pending", "held"}]
        /\ Progress(p)'
        /\ HeldExcludesWriter'
        /\ \A q \in PFs : q # p =>
             /\ base'[q] = base[q] /\ rest'[q] = rest[q]
             /\ reports'[q] = reports[q] /\ LocksOf(q)' = LocksOf(q)
    BY <1>1, <2>1, <2>2, <2>3, <2>4, EnterProgress
  <2>6. \A q \in PFs : q # p => Untouched(q)
    BY <1>3, <2>5 DEF Start, Untouched
  <2>7. \A q \in PFs : Progress(q)'
    BY <2>5, <2>6, Frame DEF Start
  <2> QED
    BY <2>5, <2>7 DEF Start, TreeIsLinked
<1> QED
  BY <1>4, <1>5
(* A lookup with a lock at the host is running and has this one only.      *)
LEMMA OneLock ==
  ASSUME IInv, NEW p \in PFs, NEW l \in locks, l.pf = p
  PROVE  /\ Running(p) /\ p \in begun /\ rest[p] # <<>> /\ cont[p] = "none"
         /\ LocksOf(p) = {l}
         /\ l.file = base[p] /\ base[p] \in Files
         /\ l.st = "pending" => Waiting(p)
         /\ l.st = "held" => Asking(p) /\ reply[p] = NoFile
<1>1. l \in LocksOf(p) /\ Progress(p) /\ base[p] \in Files \cup {NoFile}
  BY DEF IInv, TypeOK, LocksOf
<1>2. Running(p) /\ p \in begun /\ base[p] \in Files
  BY <1>1 DEF Progress, Quiet, Running
<1>3. rest[p] # <<>> /\ (Waiting(p) \/ Asking(p))
  BY <1>1, <1>2 DEF Progress, Unlocking
<1>4. CASE Waiting(p)
  BY <1>1, <1>2, <1>3, <1>4 DEF Waiting, Lock
<1>5. CASE Asking(p)
  BY <1>1, <1>2, <1>3, <1>5 DEF Progress, Asking, Lock
<1> QED
  BY <1>3, <1>4, <1>5

(* The lock is granted: FIND goes out under it, or the lookup unlocks.     *)
LEMMA LockGrantedKeeps ==
  ASSUME IInv, NEW p \in PFs, LockGranted(p) PROVE IInv'
<1> USE DEF IInv, TypeOK
<1>1. PICK l \in locks :
        /\ l.pf = p /\ l.st = "pending"
        /\ writer # l.file
        /\ reply' = [reply EXCEPT ![p] = NoFile]
        /\ \/ /\ reqs' = reqs \cup {Req(p, base[p], "FIND", Head(rest[p]))}
              /\ locks' = (locks \ {l}) \cup {Lock(p, l.file, "held")}
              /\ UNCHANGED cont
           \/ Faults /\ Unlock(p, l, "finish") /\ UNCHANGED reqs
        /\ UNCHANGED <<call, begun, base, rest, reports, dir, links, writer>>
  BY DEF LockGranted
<1>2. /\ Running(p) /\ rest[p] # <<>> /\ cont[p] = "none" /\ LocksOf(p) = {l}
      /\ l.file = base[p] /\ base[p] \in Files /\ Waiting(p)
  BY <1>1, OneLock
<1>3. ReqsOf(p) = {}
  BY <1>2 DEF Waiting
<1>4. Head(rest[p]) \in Names
  BY <1>2
<1>5. CASE /\ reqs' = reqs \cup {Req(p, base[p], "FIND", Head(rest[p]))}
           /\ locks' = (locks \ {l}) \cup {Lock(p, l.file, "held")}
           /\ UNCHANGED cont
  <2>1. LocksOf(p)' = {Lock(p, base[p], "held")}
    BY <1>2, <1>5 DEF LocksOf, Lock
  <2>2. ReqsOf(p)' = {Req(p, base[p], "FIND", Head(rest[p]))}
    BY <1>3, <1>5 DEF ReqsOf, Req
  <2>3. Asking(p)' /\ Running(p)'
    BY <1>1, <1>2, <1>5, <2>1, <2>2 DEF Asking, Running
  <2>4. Progress(p)'
    BY <1>1, <1>2, <1>5, <2>3 DEF Progress, Running
  <2>5. \A q \in PFs : q # p => Untouched(q)
    BY <1>1, <1>5 DEF Untouched, LocksOf, ReqsOf, Lock, Req
  <2>6. \A q \in PFs : Progress(q)'
    BY <1>1, <2>4, <2>5, Frame
  <2>7. HeldExcludesWriter'
    BY <1>1, <1>5 DEF HeldExcludesWriter, Lock
  <2>8. /\ locks' \subseteq [pf : PFs, file : Files, st : {"pending", "held"}]
        /\ reqs' \subseteq [pf : PFs, file : Files, type : {"FIND", "NEWDIR"},
                            name : Names]
    BY <1>2, <1>4, <1>5 DEF Lock, Req
  <2> QED
    BY <1>1, <1>5, <2>6, <2>7, <2>8 DEF TreeIsLinked
<1>6. CASE Unlock(p, l, "finish") /\ UNCHANGED reqs
  <2>1. ReqsOf(p)' = {}
    BY <1>3, <1>6 DEF ReqsOf
  <2>2. /\ cont' \in [PFs -> {"none", "finish", "descend"}]
        /\ locks' \subseteq [pf : PFs, file : Files, st : {"pending", "held"}]
        /\ Progress(p)'
        /\ HeldExcludesWriter'
        /\ \A q \in PFs : q # p =>
             cont'[q] = cont[q] /\ LocksOf(q)' = LocksOf(q)
    BY <1>1, <1>2, <1>6, <2>1, UnlockProgress
  <2>3. \A q \in PFs : q # p => Untouched(q)
    BY <1>1, <1>6, <2>2 DEF Untouched, ReqsOf
  <2>4. \A q \in PFs : Progress(q)'
    BY <1>1, <2>2, <2>3, Frame
  <2> QED
    BY <1>1, <1>6, <2>2, <2>4 DEF TreeIsLinked
<1> QED
  BY <1>1, <1>5, <1>6

(* The lock is not granted in time: the lookup unlocks and gives up.       *)
LEMMA LockTimedOutKeeps ==
  ASSUME IInv, NEW p \in PFs, LockTimedOut(p) PROVE IInv'
<1> USE DEF IInv, TypeOK
<1>1. PICK l \in locks :
        /\ l.pf = p /\ l.st = "pending"
        /\ Unlock(p, l, "finish")
        /\ UNCHANGED <<call, begun, base, rest, reply, reports,
                       dir, links, reqs, writer>>
  BY DEF LockTimedOut
<1>2. Running(p) /\ LocksOf(p) = {l} /\ Waiting(p)
  BY <1>1, OneLock
<1>3. ReqsOf(p)' = {}
  BY <1>1, <1>2 DEF Waiting, ReqsOf
<1>4. /\ cont' \in [PFs -> {"none", "finish", "descend"}]
      /\ locks' \subseteq [pf : PFs, file : Files, st : {"pending", "held"}]
      /\ Progress(p)'
      /\ HeldExcludesWriter'
      /\ \A q \in PFs : q # p =>
           cont'[q] = cont[q] /\ LocksOf(q)' = LocksOf(q)
  BY <1>1, <1>2, <1>3, UnlockProgress
<1>5. \A q \in PFs : q # p => Untouched(q)
  BY <1>1, <1>4 DEF Untouched, ReqsOf
<1>6. \A q \in PFs : Progress(q)'
  BY <1>1, <1>4, <1>5, Frame
<1> QED
  BY <1>1, <1>4, <1>6 DEF TreeIsLinked

-----------------------------------------------------------------------------
(* A request in flight is the only one of its lookup, which asks for its   *)
(* next term under a held lock.                                            *)
LEMMA OneRequest ==
  ASSUME IInv, NEW p \in PFs, NEW r \in reqs, NEW l \in locks,
         r.pf = p, l.pf = p
  PROVE  /\ Running(p) /\ p \in begun /\ reports[p] = 0
         /\ Asking(p) /\ reply[p] = NoFile /\ cont[p] = "none"
         /\ rest[p] # <<>> /\ Head(rest[p]) \in Names
         /\ LocksOf(p) = {l} /\ ReqsOf(p) = {r}
         /\ l.st = "held" /\ l.file = base[p]
         /\ r.file = base[p] /\ base[p] \in Files /\ r.name = Head(rest[p])
<1>1. /\ r \in ReqsOf(p) /\ l \in LocksOf(p)
      /\ Progress(p) /\ rest[p] \in Seq(Names)
  BY DEF IInv, TypeOK, LocksOf, ReqsOf
<1>2. /\ Running(p) /\ rest[p] # <<>> /\ cont[p] = "none" /\ LocksOf(p) = {l}
      /\ l.file = base[p] /\ base[p] \in Files
  BY OneLock
<1>3. Asking(p)
  BY <1>1, <1>2 DEF Progress, Waiting, Unlocking
<1>4. reply[p] = NoFile /\ Head(rest[p]) \in Names
  BY <1>1, <1>2, <1>3 DEF Progress
<1>5. PICK t \in {"FIND", "NEWDIR"} :
        ReqsOf(p) = {Req(p, base[p], t, Head(rest[p]))}
  BY <1>3 DEF Asking
<1>6. r = Req(p, base[p], t, Head(rest[p]))
  BY <1>1, <1>5
<1> QED
  BY <1>1, <1>2, <1>3, <1>4, <1>5, <1>6 DEF Asking, Lock, Req, Running
(* Taking the one request of a lookup away leaves it none.                 *)
LEMMA RequestGone ==
  ASSUME NEW p \in PFs, NEW r \in reqs, ReqsOf(p) = {r}, r.pf = p,
         reqs' = reqs \ {r}
  PROVE  /\ ReqsOf(p)' = {}
         /\ \A q \in PFs : q # p => ReqsOf(q)' = ReqsOf(q)
BY DEF ReqsOf

(* FIND is answered: descend, create, or give up.                          *)
LEMMA FindCbKeeps ==
  ASSUME IInv, NEW p \in PFs, FindCb(p) PROVE IInv'
<1> USE DEF IInv, TypeOK
<1>1. PICK r \in reqs, l \in locks :
        /\ r.pf = p /\ r.type = "FIND" /\ l.pf = p
        /\ \E f \in {dir[r.file][r.name]} \cup (IF Faults THEN {reply[p]} ELSE {}) :
             /\ reply' = [reply EXCEPT ![p] = f]
             /\ \/ /\ f # NoFile
                   /\ reqs' = reqs \ {r}
                   /\ Unlock(p, l, "descend")
                \/ /\ f = NoFile /\ call[p].create
                   /\ reqs' = (reqs \ {r})
                                \cup {Req(p, base[p], "NEWDIR", Head(rest[p]))}
                   /\ UNCHANGED <<locks, cont>>
                \/ /\ f = NoFile /\ (call[p].create => Faults)
                   /\ reqs' = reqs \ {r}
                   /\ Unlock(p, l, "finish")
        /\ UNCHANGED <<call, begun, base, rest, reports, dir, links, writer>>
  BY DEF FindCb
<1>2. /\ Running(p) /\ Asking(p) /\ reply[p] = NoFile /\ cont[p] = "none"
      /\ rest[p] # <<>> /\ Head(rest[p]) \in Names
      /\ LocksOf(p) = {l} /\ ReqsOf(p) = {r}
      /\ r.file = base[p] /\ base[p] \in Files /\ r.name = Head(rest[p])
  BY <1>1, OneRequest, SMTT(30)
<1>3. PICK f \in {dir[r.file][r.name], reply[p]} :
        /\ reply' = [reply EXCEPT ![p] = f]
        /\ \/ /\ f # NoFile
              /\ reqs' = reqs \ {r}
              /\ Unlock(p, l, "descend")
           \/ /\ f = NoFile
              /\ reqs' = (reqs \ {r})
                           \cup {Req(p, base[p], "NEWDIR", Head(rest[p]))}
              /\ UNCHANGED <<locks, cont>>
           \/ /\ f = NoFile
              /\ reqs' = reqs \ {r}
              /\ Unlock(p, l, "finish")
  BY <1>1
<1>4. /\ f \in Files \cup {NoFile}
      /\ f # NoFile => <<base[p], Head(rest[p]), f>> \in links
  BY <1>2 DEF TreeIsLinked
<1>5. /\ reply' \in [PFs -> Files \cup {NoFile}] /\ reply'[p] = f
      /\ \A q \in PFs : q # p => reply'[q] = reply[q]
  BY <1>3, <1>4
<1>6. ASSUME NEW next \in {"finish", "descend"},
             next = "descend" => f # NoFile,
             reqs' = reqs \ {r}, Unlock(p, l, next)
      PROVE  IInv'
  <2>1. ReqsOf(p)' = {} /\ \A q \in PFs : q # p => ReqsOf(q)' = ReqsOf(q)
    BY <1>1, <1>2, <1>6, RequestGone
  <2>2. next = "descend" => /\ reply'[p] \in Files
                            /\ <<base[p], Head(rest[p]), reply'[p]>> \in links'
    BY <1>1, <1>4, <1>5, <1>6
  <2>3. UNCHANGED <<begun, base, rest, reports, writer>>
    BY <1>1
  <2>4. /\ cont' \in [PFs -> {"none", "finish", "descend"}]
        /\ locks' \subseteq [pf : PFs, file : Files, st : {"pending", "held"}]
        /\ Progress(p)'
        /\ HeldExcludesWriter'
        /\ \A q \in PFs : q # p =>
             cont'[q] = cont[q] /\ LocksOf(q)' = LocksOf(q)
    <3> HIDE DEF IInv, TypeOK
    <3> QED
      BY <1>2, <1>6, <2>1, <2>2, <2>3, UnlockProgress
  <2>5. \A q \in PFs : q # p => Untouched(q)
    BY <1>1, <1>5, <2>1, <2>4 DEF Untouched
  <2>6. \A q \in PFs : Progress(q)'
    BY <1>1, <2>4, <2>5, Frame
  <2> QED
    BY <1>1, <1>5, <1>6, <2>4, <2>6 DEF TreeIsLinked
<1>7. CASE /\ f = NoFile
           /\ reqs' = (reqs \ {r})
                        \cup {Req(p, base[p], "NEWDIR", Head(rest[p]))}
           /\ UNCHANGED <<locks, cont>>
  <2>1. ReqsOf(p)' = {Req(p, base[p], "NEWDIR", Head(rest[p]))}
    BY <1>2, <1>7 DEF ReqsOf, Req
  <2>2. LocksOf(p)' = {l}
    BY <1>2, <1>7 DEF LocksOf
  <2>3. Asking(p)' /\ Running(p)'
    BY <1>1, <1>2, <1>7, <2>1, <2>2 DEF Asking, Running
  <2>4. Progress(p)'
    BY <1>1, <1>2, <1>5, <1>7, <2>3 DEF Progress, Running
  <2>5. \A q \in PFs : q # p => Untouched(q)
    BY <1>1, <1>5, <1>7 DEF Untouched, LocksOf, ReqsOf, Req
  <2>6. \A q \in PFs : Progress(q)'
    BY <1>1, <2>4, <2>5, Frame
  <2>7. reqs' \subseteq [pf : PFs, file : Files, type : {"FIND", "NEWDIR"},
                         name : Names]
    BY <1>2, <1>7 DEF Req
  <2> QED
    BY <1>1, <1>5, <1>7, <2>6, <2>7 DEF TreeIsLinked, HeldExcludesWriter
<1> QED
  BY <1>3, <1>6, <1>7

(* NEWDIR is answered: descend into the new directory or give up.          *)
LEMMA AddCbKeeps ==
  ASSUME IInv, NEW p \in PFs, AddCb(p) PROVE IInv'
<1> USE DEF IInv, TypeOK
<1>1. PICK r \in reqs, l \in locks :
        /\ r.pf = p /\ r.type = "NEWDIR" /\ l.pf = p
        /\ reqs' = reqs \ {r}
        /\ \/ \E f \in Files :
                /\ NewDir(r, f)
                /\ reply' = [reply EXCEPT ![p] = f]
                /\ Unlock(p, l, "descend")
           \/ /\ Unlock(p, l, "finish")
              /\ UNCHANGED <<reply, dir, links>>
        /\ UNCHANGED <<call, begun, base, rest, reports, writer>>
  BY DEF AddCb
<1>2. /\ Running(p) /\ LocksOf(p) = {l} /\ ReqsOf(p) = {r}
      /\ rest[p] # <<>> /\ Head(rest[p]) \in Names
      /\ r.file = base[p] /\ base[p] \in Files /\ r.name = Head(rest[p])
  BY <1>1, OneRequest, SMTT(30)
<1>3. ReqsOf(p)' = {} /\ \A q \in PFs : q # p => ReqsOf(q)' = ReqsOf(q)
  BY <1>1, <1>2, RequestGone
<1>4. PICK next \in {"finish", "descend"} :
        /\ Unlock(p, l, next)
        /\ dir' \in [Files -> [Names -> Files \cup {NoFile}]]
        /\ reply' \in [PFs -> Files \cup {NoFile}]
        /\ links \subseteq links' /\ links' \subseteq Files \X Names \X Files
        /\ TreeIsLinked'
        /\ \A q \in PFs : q # p => reply'[q] = reply[q]
        /\ next = "descend" => /\ reply'[p] \in Files
                               /\ <<base[p], Head(rest[p]), reply'[p]>> \in links'
  <2>1. CASE Unlock(p, l, "finish") /\ UNCHANGED <<reply, dir, links>>
    BY <2>1 DEF TreeIsLinked
  <2>2. ASSUME NEW f \in Files, NewDir(r, f)
        PROVE  /\ dir' \in [Files -> [Names -> Files \cup {NoFile}]]
               /\ links' = links \cup {<<base[p], Head(rest[p]), f>>}
               /\ links' \subseteq Files \X Names \X Files
               /\ TreeIsLinked'
    BY <1>2, <2>2 DEF NewDir, TreeIsLinked
  <2>3. ASSUME NEW f \in Files, NewDir(r, f),
               reply' = [reply EXCEPT ![p] = f], Unlock(p, l, "descend")
        PROVE  /\ Unlock(p, l, "descend")
               /\ dir' \in [Files -> [Names -> Files \cup {NoFile}]]
               /\ reply' \in [PFs -> Files \cup {NoFile}]
               /\ links \subseteq links' /\ links' \subseteq Files \X Names \X Files
               /\ TreeIsLinked'
               /\ \A q \in PFs : q # p => reply'[q] = reply[q]
               /\ reply'[p] \in Files
               /\ <<base[p], Head(rest[p]), reply'[p]>> \in links'
    <3>1. /\ reply' \in [PFs -> Files \cup {NoFile}] /\ reply'[p] = f
          /\ \A q \in PFs : q # p => reply'[q] = reply[q]
      BY <2>3
    <3> QED
      BY <2>2, <2>3, <3>1
  <2> QED
    BY <1>1, <2>1, <2>3
<1>5. /\ cont' \in [PFs -> {"none", "finish", "descend"}]
      /\ locks' \subseteq [pf : PFs, file : Files, st : {"pending", "held"}]
      /\ Progress(p)'
      /\ HeldExcludesWriter'
      /\ \A q \in PFs : q # p =>
           cont'[q] = cont[q] /\ LocksOf(q)' = LocksOf(q)
  BY <1>1, <1>2, <1>3, <1>4, UnlockProgress
<1>6. \A q \in PFs : q # p => Untouched(q)
  BY <1>1, <1>3, <1>4, <1>5 DEF Untouched
<1>7. \A q \in PFs : Progress(q)'
  BY <1>4, <1>5, <1>6, Frame
<1> QED
  BY <1>1, <1>4, <1>5, <1>7
-----------------------------------------------------------------------------
(* A lookup inside upd_file_unlock is running, with a term left and, when  *)
(* it is to descend, the child it was told of.                             *)
LEMMA InsideUnlock ==
  ASSUME IInv, NEW p \in PFs, cont[p] # "none"
  PROVE  /\ Running(p) /\ p \in begun /\ reports[p] = 0 /\ rest[p] # <<>>
         /\ LocksOf(p) = {} /\ ReqsOf(p) = {}
         /\ base[p] \in Files
         /\ cont[p] = "descend" => /\ reply[p] \in Files
                                   /\ <<base[p], Head(rest[p]), reply[p]>> \in links
         /\ Tail(rest[p]) \in Seq(Names)
<1>1. Progress(p) /\ base[p] \in Files \cup {NoFile} /\ rest[p] \in Seq(Names)
  BY DEF IInv, TypeOK
<1>2. Running(p) /\ rest[p] # <<>> /\ Unlocking(p)
  BY <1>1 DEF Progress, Quiet, Waiting, Asking
<1> QED
  BY <1>1, <1>2 DEF Progress, Running, Unlocking

(* What follows upd_file_unlock keeps the invariant.                       *)
LEMMA ResumeKeeps ==
  ASSUME IInv, NEW p \in PFs, Resume(p) PROVE IInv'
<1>1. /\ Running(p) /\ p \in begun /\ reports[p] = 0
      /\ LocksOf(p) = {} /\ ReqsOf(p) = {}
      /\ cont[p] = "descend" => reply[p] \in Files
      /\ Tail(rest[p]) \in Seq(Names)
  BY InsideUnlock DEF Resume
<1>2. /\ cont'[p] = "none" /\ cont' \in [PFs -> {"none", "finish", "descend"}]
      /\ p \in begun' /\ reqs' = reqs /\ writer' = writer
      /\ \A q \in PFs : q # p => cont'[q] = cont[q] /\ ReqsOf(q)' = ReqsOf(q)
  BY <1>1 DEF Resume, IInv, TypeOK, ReqsOf
<1>3. /\ base' \in [PFs -> Files \cup {NoFile}]
      /\ rest' \in [PFs -> Seq(Names)]
      /\ reports' \in [PFs -> {0, 1}]
      /\ locks' \subseteq [pf : PFs, file : Files, st : {"pending", "held"}]
      /\ Progress(p)'
      /\ HeldExcludesWriter'
      /\ \A q \in PFs : q # p =>
           /\ base'[q] = base[q] /\ rest'[q] = rest[q]
           /\ reports'[q] = reports[q] /\ LocksOf(q)' = LocksOf(q)
  <2>1. CASE cont[p] = "descend" /\ Enter(p, reply[p], Tail(rest[p]))
    BY <1>1, <1>2, <2>1, EnterProgress
  <2>2. CASE cont[p] = "finish" /\ Report(p) /\ UNCHANGED <<base, rest, locks>>
    <3>1. reports'[p] = 1 /\ LocksOf(p)' = {} /\ ReqsOf(p)' = {}
      BY <1>1, <1>2, <2>2 DEF Report, IInv, TypeOK, LocksOf, ReqsOf
    <3>2. Progress(p)'
      BY <1>2, <3>1 DEF Progress, Running, Quiet, Asking, Lock
    <3> QED
      BY <1>2, <2>2, <3>1, <3>2 DEF Report, IInv, TypeOK, LocksOf, HeldExcludesWriter
  <2> QED
    BY <2>1, <2>2 DEF Resume
<1>4. \A q \in PFs : q # p => Untouched(q)
  BY <1>2, <1>3 DEF Resume, Untouched
<1>5. \A q \in PFs : Progress(q)'
  BY <1>3, <1>4, Frame DEF Resume, IInv
<1> QED
  BY <1>2, <1>3, <1>5 DEF Resume, IInv, TypeOK, TreeIsLinked

(* The other client touches no lookup, takes no directory somebody holds   *)
(* and only ever removes entries.                                          *)
LEMMA WriterKeeps ==
  ASSUME IInv,
         \/ \E d \in Shared : WriterLock(d)
         \/ \E n \in Names : WriterRemove(n)
         \/ WriterUnlock
  PROVE  IInv'
<1> USE DEF IInv, TypeOK
<1>1. /\ \A q \in PFs : Untouched(q)
      /\ links' = links /\ locks' = locks
  BY DEF WriterLock, WriterRemove, WriterUnlock, Untouched, LocksOf, ReqsOf,
         pvars
<1>2. \A q \in PFs : Progress(q)'
  BY <1>1, Frame
<1>3. CASE \E d \in Shared : WriterLock(d)
  BY <1>2, <1>3, PathFindAssumption
     DEF WriterLock, pvars, TreeIsLinked, HeldExcludesWriter
<1>4. CASE \E n \in Names : WriterRemove(n)
  <2>1. /\ dir' \in [Files -> [Names -> Files \cup {NoFile}]]
        /\ \A d \in Files, m \in Names :
             dir'[d][m] # NoFile => dir'[d][m] = dir[d][m]
    BY <1>4 DEF WriterRemove
  <2>2. TreeIsLinked'
    BY <1>1, <2>1 DEF TreeIsLinked
  <2>3. HeldExcludesWriter'
    BY <1>4 DEF WriterRemove, HeldExcludesWriter
  <2> QED
    BY <1>2, <1>4, <2>1, <2>2, <2>3 DEF WriterRemove, pvars
<1>5. CASE WriterUnlock
  <2>1. HeldExcludesWriter'
    BY <1>5, PathFindAssumption DEF WriterUnlock, HeldExcludesWriter
  <2> QED
    BY <1>2, <1>5, <2>1 DEF WriterUnlock, pvars, TreeIsLinked
<1> QED
  BY <1>3, <1>4, <1>5

(* Every step keeps the invariant. *)
LEMMA NextKeeps == IInv /\ [Next]_vars => IInv'
<1> SUFFICES ASSUME IInv, [Next]_vars PROVE IInv'
  OBVIOUS
<1>1. CASE \E p \in PFs : Handler(p)
  BY <1>1, StartKeeps, LockGrantedKeeps, LockTimedOutKeeps, FindCbKeeps,
     AddCbKeeps, ResumeKeeps DEF Handler, LockCb
<1>2. CASE \/ \E d \in Shared : WriterLock(d)
           \/ \E n \in Names : WriterRemove(n)
           \/ WriterUnlock
  BY <1>2, WriterKeeps
<1>3. CASE UNCHANGED vars
  <2>1. \A q \in PFs : Untouched(q)
    BY <1>3 DEF vars, Untouched, LocksOf, ReqsOf
  <2>2. \A q \in PFs : Progress(q)'
    BY <1>3, <2>1, Frame DEF IInv, vars
  <2> QED
    BY <1>3, <2>2 DEF IInv, TypeOK, TreeIsLinked, HeldExcludesWriter, vars
<1> QED
  BY <1>1, <1>2, <1>3 DEF Next

(* Every reachable state satisfies the invariant. *)
THEOREM Invariance == Safety => []IInv
<1>1. Init => IInv
  BY InitIInv
<1>2. IInv /\ [Next]_vars => IInv'
  BY NextKeeps
<1> QED
  BY <1>1, <1>2, PTL DEF Safety

-----------------------------------------------------------------------------
(* The variables keep their types: no lookup ever stands in NULL with a    *)
(* lock or request there, and none asks for a term it does not have.       *)
THEOREM TypeCorrect == Safety => []TypeOK
<1>1. IInv => TypeOK
  BY DEF IInv
<1> QED
  BY <1>1, Invariance, PTL

(* A running lookup waits for exactly one thing; any other one has nothing *)
(* registered at the host.                                                 *)
THEOREM OneOutstandingHolds == Safety => []OneOutstanding
<1>1. IInv => OneOutstanding
  BY DEF IInv, Progress, OneOutstanding
<1> QED
  BY <1>1, Invariance, PTL

(* No FIND or NEWDIR is in progress in a directory another client holds    *)
(* exclusively.                                                            *)
THEOREM EditsExcludeLookupsHolds == Safety => []EditsExcludeLookups
<1>1. IInv => EditsExcludeLookups
  <2> SUFFICES ASSUME IInv, NEW r \in reqs PROVE r.file # writer
    BY DEF EditsExcludeLookups
  <2>1. r.pf \in PFs /\ r \in ReqsOf(r.pf) /\ Progress(r.pf)
    BY DEF IInv, TypeOK, ReqsOf
  <2>2. Asking(r.pf)
    BY <2>1 DEF Progress, Quiet, Waiting, Unlocking
  <2>3. r.file = base[r.pf] /\ Lock(r.pf, base[r.pf], "held") \in locks
    BY <2>1, <2>2 DEF Asking, LocksOf, Req
  <2> QED
    BY <2>3 DEF IInv, HeldExcludesWriter, Lock
<1> QED
  BY <1>1, Invariance, PTL
(* A lookup that has reported has no lock, request or handler left through *)
(* which the host could come back to it, so its object may be freed.       *)
THEOREM UntouchedAfterReportHolds == Safety => UntouchedAfterReport
<1> DEFINE Kept(p) == UNCHANGED <<base[p], rest[p], reply[p], cont[p], reports[p]>>
<1>1. ASSUME IInv, Next, NEW p \in PFs, reports[p] > 0
      PROVE  Kept(p)
  <2>1. Quiet(p) /\ p \in begun
    <3>1. Progress(p) /\ reports[p] # 0
      BY <1>1 DEF IInv
    <3> QED
      BY <3>1 DEF Progress, Running
  <2>2. ASSUME NEW q \in PFs, Handler(q) PROVE q # p
    <3>1. ~Start(p)
      BY <2>1 DEF Start
    <3>2. ~LockCb(p) /\ ~FindCb(p) /\ ~AddCb(p)
      BY <2>1 DEF Quiet, LocksOf, LockCb, LockGranted, LockTimedOut, FindCb, AddCb
    <3>3. ~Resume(p)
      BY <2>1 DEF Quiet, Resume
    <3> QED
      BY <2>2, <3>1, <3>2, <3>3 DEF Handler
  <2>3. ASSUME NEW q \in PFs, Handler(q) PROVE Kept(p)
    <3>1. q # p
      BY <2>2, <2>3
    <3>2. CASE Start(q)
      BY <1>1, <3>1, <3>2 DEF Start, Enter, StandsOn, Report, IInv, TypeOK
    <3>3. CASE LockCb(q)
      BY <1>1, <3>1, <3>3
         DEF LockCb, LockGranted, LockTimedOut, Unlock, IInv, TypeOK
    <3>4. CASE FindCb(q)
      BY <1>1, <3>1, <3>4 DEF FindCb, Unlock, IInv, TypeOK
    <3>5. CASE AddCb(q)
      BY <1>1, <3>1, <3>5 DEF AddCb, Unlock, IInv, TypeOK
    <3>6. CASE Resume(q)
      BY <1>1, <3>1, <3>6 DEF Resume, Enter, StandsOn, Report, IInv, TypeOK
    <3> QED
      BY <2>3, <3>2, <3>3, <3>4, <3>5, <3>6 DEF Handler
  <2>4. CASE \/ \E d \in Shared : WriterLock(d)
             \/ \E n \in Names : WriterRemove(n)
             \/ WriterUnlock
    BY <2>4 DEF WriterLock, WriterRemove, WriterUnlock, pvars
  <2> QED
    BY <1>1, <2>3, <2>4 DEF Next
<1>2. IInv /\ [Next]_vars => [\A p \in PFs : reports[p] > 0 => Kept(p)]_vars
  BY <1>1
<1> QED
  BY <1>2, Invariance, PTL DEF Safety, UntouchedAfterReport

-----------------------------------------------------------------------------
(* next_ settles the lookup the way the abstract walk does. *)
LEMMA EnterSettles ==
  ASSUME IInv, NEW p \in PFs, NEW f \in Files, NEW r \in Seq(Names),
         Enter(p, f, r), reports[p] = 0
  PROVE  /\ base' = [base EXCEPT ![p] = f]
         /\ rest' = [rest EXCEPT ![p] = r]
         /\ Walking!Settle(p)
<1>1. StandsOn(f) = f
  BY FileStands
<1>2. base' = [base EXCEPT ![p] = f] /\ rest' = [rest EXCEPT ![p] = r]
  BY <1>1 DEF Enter
<1>3. base'[p] = f /\ rest'[p] = r
  BY <1>2 DEF IInv, TypeOK
<1>4. Walking!Settle(p)
  BY <1>3 DEF Enter, Report, Walking!Settle, IInv, TypeOK
<1> QED
  BY <1>2, <1>4

(* Every caller gives an iso, or a base to start a relative path from.     *)
RootsKnown == \A c \in Calls : c.iso \/ (~c.abs /\ c.base # NoFile)

(* Lookups implement the abstract walk: each handler, whatever the host    *)
(* answers, moves one lookup along one link that was made, links one new   *)
(* directory where it stands, gives up, or does nothing the walk can see.  *)
THEOREM ImplementsWalk ==
  ASSUME RootsKnown PROVE Safety => RefinesWalk
<1>1. Init => Walking!WalkInit
  BY PathFindAssumption DEF Init, Walking!WalkInit
<1>2. ASSUME IInv, Next PROVE Walking!WalkNext \/ UNCHANGED Walking!wvars
  <2> USE <1>2
  <2>1. ASSUME NEW p \in PFs, Start(p) PROVE Walking!Begin(p)
    <3> DEFINE f == IF NeedsRoot(p) THEN Root ELSE call[p].base
    <3>1. call[p] \in Calls /\ rest[p] \in Seq(Names)
      BY DEF IInv, TypeOK
    <3>2. f \in Files /\ ~(NeedsRoot(p) /\ ~call[p].iso)
      BY <3>1, PathFindAssumption DEF NeedsRoot, RootsKnown
    <3>3. p \notin begun /\ reports[p] = 0 /\ Enter(p, f, rest[p])
      BY <2>1, <3>2 DEF Start, IInv, Progress
    <3> HIDE DEF f
    <3>4. /\ base' = [base EXCEPT ![p] = f]
          /\ rest' = [rest EXCEPT ![p] = rest[p]]
          /\ Walking!Settle(p)
      BY <3>1, <3>2, <3>3, EnterSettles
    <3>5. rest' = rest
      BY <3>4 DEF IInv, TypeOK
    <3> QED
      BY <2>1, <3>2, <3>3, <3>4, <3>5 DEF Start, Walking!Begin
  <2>2. ASSUME NEW p \in PFs, LockCb(p) \/ FindCb(p)
        PROVE  UNCHANGED Walking!wvars
    BY <2>2 DEF LockCb, LockGranted, LockTimedOut, FindCb, Walking!wvars
  <2>3. ASSUME NEW p \in PFs, AddCb(p)
        PROVE  Walking!Link(p) \/ UNCHANGED Walking!wvars
    <3>1. PICK r \in reqs, l \in locks :
            /\ r.pf = p /\ l.pf = p
            /\ (\E f \in Files : NewDir(r, f)) \/ UNCHANGED links
            /\ UNCHANGED <<begun, base, rest, reports>>
      BY <2>3 DEF AddCb
    <3>2. /\ p \in begun /\ reports[p] = 0 /\ rest[p] # <<>>
          /\ r.file = base[p] /\ r.name = Head(rest[p])
      BY <3>1, OneRequest
    <3>3. CASE \E f \in Files : NewDir(r, f)
      BY <3>1, <3>2, <3>3
         DEF NewDir, NewFile, Walking!Link, Walking!Active
    <3> QED
      BY <3>1, <3>3 DEF Walking!wvars
  <2>4. ASSUME NEW p \in PFs, Resume(p)
        PROVE  Walking!Hop(p) \/ Walking!GiveUp(p)
    <3>1. /\ p \in begun /\ reports[p] = 0 /\ rest[p] # <<>>
          /\ Tail(rest[p]) \in Seq(Names)
          /\ cont[p] = "descend" => /\ reply[p] \in Files
                                    /\ <<base[p], Head(rest[p]), reply[p]>> \in links
      BY <2>4, InsideUnlock DEF Resume
    <3>2. CASE cont[p] = "finish" /\ Report(p) /\ UNCHANGED <<base, rest, locks>>
      BY <2>4, <3>1, <3>2
         DEF Resume, Report, Walking!GiveUp, Walking!Active, IInv, TypeOK
    <3>3. CASE cont[p] = "descend" /\ Enter(p, reply[p], Tail(rest[p]))
      <4>1. /\ base' = [base EXCEPT ![p] = reply[p]]
            /\ rest' = [rest EXCEPT ![p] = Tail(rest[p])]
            /\ Walking!Settle(p)
        BY <3>1, <3>3, EnterSettles
      <4> QED
        BY <2>4, <3>1, <3>3, <4>1 DEF Resume, Walking!Hop, Walking!Active
    <3> QED
      BY <2>4, <3>2, <3>3 DEF Resume
  <2>5. CASE \/ \E d \in Shared : WriterLock(d)
             \/ \E n \in Names : WriterRemove(n)
             \/ WriterUnlock
    BY <2>5 DEF WriterLock, WriterRemove, WriterUnlock, pvars, Walking!wvars
  <2> QED
    BY <2>1, <2>2, <2>3, <2>4, <2>5 DEF Next, Handler, Walking!WalkNext
<1>3. IInv /\ [Next]_vars => [Walking!WalkNext]_(Walking!wvars)
  BY <1>2 DEF vars, Walking!wvars
<1> QED
  BY <1>1, <1>3, Invariance, PTL DEF Safety, RefinesWalk, Walking!WalkSafety

-----------------------------------------------------------------------------
(***************************************************************************)
(* Where a lookup stands.  Resolved speaks of Walk, which follows the path *)
(* from its start in the tree as it is now; a step knows only the last     *)
(* link.  TrailsInv keeps the files passed on the way: a link once made    *)
(* stays while nobody removes entries, so the files stay a trail, and      *)
(* TrailIsWalk shows by a least counterexample that Walk ends where the    *)
(* trail does.                                                             *)
(***************************************************************************)
(* A set of naturals that is not empty has a least element: what the       *)
(* inductions below start from.                                            *)
LEMMA Least ==
  ASSUME NEW T, T \subseteq Nat, T # {}
  PROVE  \E m \in T : \A j \in T : m <= j
<1>1. \E m \in T : \A j \in T : <<j, m>> \notin OpToRel(<, Nat)
  BY NatLessThanWellFounded, WFMin
<1>2. PICK m \in T : \A j \in T : <<j, m>> \notin OpToRel(<, Nat)
  BY <1>1
<1>3. \A j \in T : ~(j < m)
  BY <1>2 DEF OpToRel
<1> QED
  BY <1>3

(* f names the files a lookup has passed: from its start, along the terms  *)
(* it has consumed, to the directory it stands in.                         *)
Consumed(p) == Len(call[p].path) - Len(rest[p])
Passed(f, p) ==
  /\ f[0] = StartOf(p)
  /\ \A i \in 1..Consumed(p) : f[i] = dir[f[i - 1]][call[p].path[i]]
  /\ f[Consumed(p)] = base[p]
OnTrail(p) ==
  /\ Consumed(p) \in Nat
  /\ rest[p] = SubSeq(call[p].path, Consumed(p) + 1, Len(call[p].path))
  /\ \E f \in [0..Consumed(p) -> Files] : Passed(f, p)

(* A lookup about to descend was told of the entry the directory has.      *)
Told(p) == cont[p] = "descend" => reply[p] = dir[base[p]][Head(rest[p])]

TrailInv ==
  /\ writer = NoFile
  /\ \A p \in PFs : /\ p \notin begun => rest[p] = call[p].path
                    /\ p \in begun => OnTrail(p)
                    /\ Told(p)

(* Walk is the function its recursion describes: there is only one.        *)
LEMMA TrailIsWalk ==
  ASSUME NEW p \in PFs, NEW k \in Nat, NEW f \in [0..k -> Files],
         f[0] = StartOf(p),
         \A i \in 1..k : f[i] = dir[f[i - 1]][call[p].path[i]]
  PROVE  Walk(p, k) = f[k]
<1> DEFINE Step(g) == [i \in 0..k |-> IF i = 0 THEN StartOf(p)
                                      ELSE dir[g[i - 1]][call[p].path[i]]]
           to == CHOOSE g : g = Step(g)
<1>1. f = Step(f)
  OBVIOUS
<1>2. to = Step(to)
  BY <1>1
<1>3. Walk(p, k) = to[k]
  BY DEF Walk
<1> HIDE DEF to
<1>4. /\ to[0] = StartOf(p)
      /\ \A i \in 1..k : to[i] = dir[to[i - 1]][call[p].path[i]]
  <2>1. \A i \in 0..k : to[i] = Step(to)[i]
    BY <1>2
  <2> QED
    BY <2>1
<1>5. \A i \in 0..k : to[i] = f[i]
  <2> DEFINE T == {i \in 0..k : to[i] # f[i]}
  <2>1. SUFFICES ASSUME T # {} PROVE FALSE
    OBVIOUS
  <2>2. PICK m \in T : \A j \in T : m <= j
    <3>1. T \subseteq Nat
      OBVIOUS
    <3> QED
      BY <2>1, <3>1, Least
  <2>3. m \in 1..k /\ m - 1 \in 0..k
    BY <1>4
  <2>4. to[m - 1] = f[m - 1]
    BY <2>2, <2>3
  <2> QED
    BY <1>4, <2>3, <2>4
<1> QED
  BY <1>3, <1>5

(* A trail stays one while the tree only gains entries.                    *)
LEMMA TrailStays ==
  ASSUME IInv, NEW p \in PFs, OnTrail(p), p \in begun,
         call'[p] = call[p], base'[p] = base[p], rest'[p] = rest[p],
         \A d \in Files, n \in Names :
           dir[d][n] # NoFile => dir'[d][n] = dir[d][n]
  PROVE  OnTrail(p)'
<1> DEFINE k == Consumed(p)
<1>1. k \in Nat /\ Consumed(p)' = k /\ call[p].path \in Seq(Names)
      /\ rest[p] \in Seq(Names) /\ k <= Len(call[p].path)
  BY PathFindAssumption DEF IInv, TypeOK, Consumed, OnTrail
<1>2. PICK f \in [0..k -> Files] : Passed(f, p)
  BY DEF OnTrail
<1>3. ASSUME NEW i \in 1..k
      PROVE  f[i] = dir'[f[i - 1]][call'[p].path[i]]
  <2>1. f[i] = dir[f[i - 1]][call[p].path[i]]
    BY <1>2 DEF Passed
  <2>2. f[i] \in Files /\ f[i - 1] \in Files /\ call[p].path[i] \in Names
    <3>1. i \in 0..k /\ i - 1 \in 0..k
      BY <1>1
    <3>2. i \in 1..Len(call[p].path)
      BY <1>1
    <3> QED
      BY <1>1, <3>1, <3>2, ElementOfSeq
  <2>3. f[i] # NoFile
    BY <2>2, PathFindAssumption
  <2> QED
    BY <2>1, <2>2, <2>3
<1>4. Passed(f, p)'
  BY <1>1, <1>2, <1>3 DEF Passed, StartOf, NeedsRoot
<1> QED
  BY <1>1, <1>4 DEF OnTrail

(* The end of a sequence, one element on.                                  *)
LEMMA SuffixTail ==
  ASSUME NEW S, NEW q \in Seq(S), NEW r \in Seq(S), NEW k \in Nat, r # <<>>,
         k = Len(q) - Len(r), r = SubSeq(q, k + 1, Len(q))
  PROVE  /\ k + 1 \in 1..Len(q) /\ Head(r) = q[k + 1]
         /\ Len(Tail(r)) = Len(r) - 1
         /\ Tail(r) = SubSeq(q, k + 1 + 1, Len(q))
<1>1. Len(q) \in Nat /\ Len(r) \in Nat /\ Len(r) > 0
  OBVIOUS
<1>2. k + 1 \in 1..Len(q) /\ Len(q) \in k + 1..Len(q)
  BY <1>1
<1>3. Head(r) = q[k + 1] /\ Tail(r) = SubSeq(q, k + 1 + 1, Len(q))
  BY <1>2, HeadTailOfSubSeq
<1> QED
  BY <1>2, <1>3, HeadTailProperties

(* A function on 0..k given one more value.                                *)
Longer(g, m, f) == [i \in 0..m |-> IF i = m THEN f ELSE g[i]]

LEMMA OneMore ==
  ASSUME NEW S, NEW k \in Nat, NEW m, m = k + 1, NEW g \in [0..k -> S], NEW f \in S
  PROVE  Longer(g, m, f) \in [0..m -> S]
<1>1. \A i \in 0..m : i # m => i \in 0..k
  OBVIOUS
<1> QED
  BY <1>1 DEF Longer

(* What a step does to the tree: it gains entries.                         *)
LEMMA TreeGains ==
  ASSUME Shared = {}, IInv, writer = NoFile, [Next]_vars
  PROVE  /\ \A d \in Files, n \in Names :
              dir[d][n] # NoFile => dir'[d][n] = dir[d][n]
         /\ writer' = NoFile /\ call' = call
<1>1. ASSUME NEW p \in PFs, AddCb(p)
      PROVE  /\ \A d \in Files, n \in Names :
                  dir[d][n] # NoFile => dir'[d][n] = dir[d][n]
             /\ writer' = NoFile /\ call' = call
  <2>1. PICK r \in reqs : \/ \E f \in Files : NewDir(r, f)
                         \/ UNCHANGED dir
    BY <1>1 DEF AddCb
  <2>2. CASE UNCHANGED dir
    BY <1>1, <2>2 DEF AddCb
  <2>3. CASE \E f \in Files : NewDir(r, f)
    <3>1. PICK f \in Files : /\ dir[r.file][r.name] = NoFile
                             /\ dir' = [dir EXCEPT ![r.file][r.name] = f]
      BY <2>3 DEF NewDir
    <3>2. dir \in [Files -> [Names -> Files \cup {NoFile}]]
      BY DEF IInv, TypeOK
    <3>3. \A d \in Files, n \in Names :
            dir[d][n] # NoFile => dir'[d][n] = dir[d][n]
      BY <3>1, <3>2
    <3> QED
      BY <1>1, <3>3 DEF AddCb
  <2> QED
    BY <2>1, <2>2, <2>3
<1>2. CASE \E p \in PFs : Start(p) \/ LockCb(p) \/ FindCb(p) \/ Resume(p)
  BY <1>2 DEF Start, LockCb, LockGranted, LockTimedOut, FindCb, Resume
<1>3. ~(\E d \in Shared : WriterLock(d)) /\ ~(\E n \in Names : WriterRemove(n))
      /\ ~WriterUnlock
  BY DEF WriterRemove, WriterUnlock
<1>4. CASE UNCHANGED vars
  BY <1>4 DEF vars
<1> QED
  BY <1>1, <1>2, <1>3, <1>4 DEF Next, Handler

(* Starting a lookup puts it at the beginning of its trail.                *)
LEMMA TrailStarts ==
  ASSUME RootsKnown, IInv, NEW p \in PFs, Start(p), rest[p] = call[p].path
  PROVE  OnTrail(p)'
<1> DEFINE s == StartOf(p)
<1>1. /\ call[p] \in Calls /\ call[p].path \in Seq(Names) /\ rest[p] \in Seq(Names)
      /\ base[p] \in Files \cup {NoFile}
  BY PathFindAssumption DEF IInv, TypeOK
<1>2. s \in Files /\ ~(NeedsRoot(p) /\ ~call[p].iso)
  BY <1>1, PathFindAssumption DEF NeedsRoot, RootsKnown, StartOf
<1>3. base'[p] = s /\ rest'[p] = rest[p] /\ call' = call /\ dir' = dir
  BY <1>2, FileStands DEF Start, Enter, StartOf, IInv, TypeOK
<1>4. Consumed(p)' = 0
  BY <1>1, <1>3 DEF Consumed
<1>5. rest'[p] = SubSeq(call'[p].path, 0 + 1, Len(call'[p].path))
  BY <1>1, <1>3
<1>6. StartOf(p)' = StartOf(p)
  BY <1>3 DEF StartOf, NeedsRoot
<1> HIDE DEF s
<1>7. PICK f \in [0..0 -> Files] : f[0] = s
  <2>1. [i \in 0..0 |-> s] \in [0..0 -> Files] /\ [i \in 0..0 |-> s][0] = s
    BY <1>2
  <2> QED
    BY <2>1
<1>8. Passed(f, p)'
  <2>1. f[0] = StartOf(p)' /\ f[0] = base'[p]
    BY <1>3, <1>6, <1>7 DEF s
  <2>2. 1..0 = {}
    OBVIOUS
  <2> QED
    BY <1>4, <2>1, <2>2 DEF Passed
<1>9. 0 \in Nat /\ call'[p].path = call[p].path
  BY <1>3
<1>10. /\ Consumed(p)' \in Nat
       /\ rest'[p] = SubSeq(call'[p].path, Consumed(p)' + 1, Len(call'[p].path))
       /\ f \in [0..Consumed(p)' -> Files]
  BY <1>4, <1>5, <1>7, <1>9
<1> QED
  BY <1>8, <1>10 DEF OnTrail

(* Stepping into the child the directory has under the next term takes the *)
(* trail one file on.                                                      *)
StepsInto(p, f) ==
  /\ f = dir[base[p]][Head(rest[p])]
  /\ base'[p] = f /\ rest'[p] = Tail(rest[p]) /\ call' = call /\ dir' = dir

LEMMA TrailGoesOn ==
  ASSUME IInv, NEW p \in PFs, OnTrail(p), p \in begun, rest[p] # <<>>,
         NEW f \in Files, StepsInto(p, f)
  PROVE  OnTrail(p)'
<1>1. PICK k \in Nat : k = Consumed(p)
  BY DEF OnTrail
<1>2. PICK path \in Seq(Names) : path = call[p].path
  BY PathFindAssumption DEF IInv, TypeOK
<1>3. /\ rest[p] \in Seq(Names) /\ k = Len(path) - Len(rest[p])
      /\ rest[p] = SubSeq(path, k + 1, Len(path))
  BY <1>1, <1>2 DEF IInv, TypeOK, Consumed, OnTrail
<1>4. /\ k + 1 \in 1..Len(path) /\ Head(rest[p]) = path[k + 1]
      /\ Len(Tail(rest[p])) = Len(rest[p]) - 1
      /\ Tail(rest[p]) = SubSeq(path, k + 1 + 1, Len(path))
  BY <1>3, SuffixTail
<1>5. PICK m \in Nat : m = k + 1
  OBVIOUS
<1>6. PICK g \in [0..k -> Files] : Passed(g, p)
  BY <1>1 DEF OnTrail
<1>7. PICK h \in [0..m -> Files] : h[m] = f /\ \A i \in 0..k : h[i] = g[i]
  <2>1. m = k + 1 /\ m \in 0..m
    BY <1>5
  <2>2. Longer(g, m, f) \in [0..m -> Files]
    BY <2>1, OneMore
  <2>3. Longer(g, m, f)[m] = f
    BY <2>1 DEF Longer
  <2>4. \A i \in 0..k : i \in 0..m /\ i # m
    BY <2>1
  <2>5. \A i \in 0..k : Longer(g, m, f)[i] = g[i]
    BY <2>4 DEF Longer
  <2> QED
    BY <2>2, <2>3, <2>5
<1>8. StartOf(p)' = StartOf(p)
  BY DEF StartOf, NeedsRoot, StepsInto
<1>9. Consumed(p)' = m
  <2>1. Consumed(p)' = Len(path) - Len(Tail(rest[p]))
    BY <1>2 DEF Consumed, StepsInto
  <2>2. Len(path) \in Nat /\ Len(rest[p]) \in Nat
    BY <1>3
  <2>3. ASSUME NEW x \in Nat, NEW y \in Nat, k = x - y
        PROVE  x - (y - 1) = k + 1
    BY <2>3
  <2>4. Len(path) - (Len(rest[p]) - 1) = k + 1
    BY <1>3, <2>2, <2>3
  <2> QED
    BY <1>4, <1>5, <2>1, <2>4, Zenon
<1>10. /\ g[0] = StartOf(p) /\ g[k] = base[p]
       /\ \A i \in 1..k : g[i] = dir[g[i - 1]][path[i]]
  BY <1>1, <1>2, <1>6 DEF Passed
<1>11. ASSUME NEW i \in 1..m
       PROVE  h[i] = dir[h[i - 1]][path[i]]
  <2>1. CASE i = m
    <3>1. i - 1 = k /\ k \in 0..k
      BY <1>5, <2>1
    <3> QED
      BY <1>4, <1>5, <1>7, <1>10, <2>1, <3>1 DEF StepsInto
  <2>2. CASE i # m
    <3>1. i \in 1..k /\ i - 1 \in 0..k /\ i \in 0..k
      BY <1>5, <2>2
    <3> QED
      BY <1>7, <1>10, <3>1
  <2> QED
    BY <2>1, <2>2
<1>12. h[0] = g[0]
  BY <1>7
<1>13. Passed(h, p)'
  BY <1>2, <1>7, <1>8, <1>9, <1>10, <1>11, <1>12 DEF Passed, StepsInto
<1>14. rest'[p] = SubSeq(call'[p].path, m + 1, Len(call'[p].path))
  BY <1>2, <1>4, <1>5 DEF StepsInto
<1> QED
  BY <1>7, <1>9, <1>13, <1>14 DEF OnTrail

(* What is known of one lookup: before it begins, while it walks, and      *)
(* between an answer and the step that follows it.                         *)
TrailOf(p) ==
  /\ p \notin begun => rest[p] = call[p].path
  /\ p \in begun => OnTrail(p)
  /\ Told(p)

(* A lookup that does not move keeps its trail, and what it was told.      *)
LEMMA TrailFrame ==
  ASSUME IInv, NEW q \in PFs, TrailOf(q), (q \in begun' <=> q \in begun),
         call'[q] = call[q], base'[q] = base[q], rest'[q] = rest[q],
         reply'[q] = reply[q], cont'[q] = cont[q],
         \A d \in Files, n \in Names :
           dir[d][n] # NoFile => dir'[d][n] = dir[d][n]
  PROVE  TrailOf(q)'
<1>1. q \in begun => OnTrail(q)'
  BY TrailStays DEF TrailOf
<1>2. Told(q)'
  <2>1. CASE cont[q] = "descend"
    <3>1. reply[q] = dir[base[q]][Head(rest[q])]
      BY <2>1 DEF TrailOf, Told
    <3>2. /\ reply[q] \in Files /\ base[q] \in Files
          /\ rest[q] # <<>> /\ rest[q] \in Seq(Names)
      BY <2>1, InsideUnlock DEF IInv, TypeOK
    <3>3. reply[q] # NoFile /\ Head(rest[q]) \in Names
      BY <3>2, PathFindAssumption
    <3> QED
      BY <3>1, <3>2, <3>3 DEF Told
  <2>2. CASE cont[q] # "descend"
    BY <2>2 DEF Told
  <2> QED
    BY <2>1, <2>2
<1> QED
  BY <1>1, <1>2 DEF TrailOf

(* Unlocking leaves a lookup on its trail, and tells it the truth.         *)
LEMMA TrailHolds ==
  ASSUME IInv, NEW p \in PFs, TrailOf(p), p \in begun, begun' = begun,
         call'[p] = call[p], base'[p] = base[p], rest'[p] = rest[p],
         cont'[p] = "descend" => reply'[p] = dir'[base[p]][Head(rest[p])],
         \A d \in Files, n \in Names :
           dir[d][n] # NoFile => dir'[d][n] = dir[d][n]
  PROVE  TrailOf(p)'
<1>1. OnTrail(p)'
  BY TrailStays DEF TrailOf
<1> QED
  BY <1>1 DEF TrailOf, Told

(* A handler of p leaves every lookup on its trail: its own, because only  *)
(* Start and Resume move it, and the others, because the tree only gains.  *)
LEMMA TrailNext ==
  ASSUME Shared = {}, RootsKnown, IInv, writer = NoFile,
         NEW p \in PFs, Handler(p), NEW q \in PFs, TrailOf(q)
  PROVE  TrailOf(q)'
<1>1. /\ call' = call
      /\ \A d \in Files, n \in Names :
           dir[d][n] # NoFile => dir'[d][n] = dir[d][n]
  BY TreeGains DEF Next
<1>2. CASE q # p
  <2>1. /\ (q \in begun' <=> q \in begun) /\ base'[q] = base[q]
        /\ rest'[q] = rest[q] /\ reply'[q] = reply[q] /\ cont'[q] = cont[q]
    <3>1. CASE Start(p) \/ Resume(p)
      BY <1>2, <3>1 DEF Start, Resume, Enter, StandsOn, IInv, TypeOK
    <3>2. CASE LockCb(p) \/ FindCb(p) \/ AddCb(p)
      BY <1>2, <3>2
         DEF LockCb, LockGranted, LockTimedOut, FindCb, AddCb, Unlock, IInv, TypeOK
    <3> QED
      BY <3>1, <3>2 DEF Handler
  <2> QED
    BY <1>1, <2>1, TrailFrame
<1>3. CASE q = p
  <2>1. CASE Start(p)
    <3>1. p \notin begun /\ p \in begun' /\ cont'[p] = cont[p] /\ cont[p] = "none"
      BY <2>1 DEF Start, IInv, Progress, Running, Quiet
    <3>2. OnTrail(p)'
      BY <1>3, <2>1, <3>1, TrailStarts DEF TrailOf
    <3> QED
      BY <1>3, <3>1, <3>2 DEF TrailOf, Told
  <2>2. CASE LockCb(p)
    <3>1. PICK l \in locks : l.pf = p
      BY <2>2 DEF LockCb, LockGranted, LockTimedOut
    <3>2. p \in begun /\ cont[p] = "none"
      BY <3>1, OneLock
    <3>3. /\ begun' = begun /\ base' = base /\ rest' = rest
          /\ cont'[p] # "descend"
      BY <2>2, <3>2 DEF LockCb, LockGranted, LockTimedOut, Unlock, IInv, TypeOK
    <3> QED
      BY <1>1, <1>3, <3>2, <3>3, TrailHolds
  <2>3. CASE FindCb(p)
    <3>1. PICK r \in reqs, l \in locks, f \in Files \cup {NoFile} :
            /\ r.pf = p /\ l.pf = p
            /\ f \in {dir[r.file][r.name], reply[p]}
            /\ reply' = [reply EXCEPT ![p] = f]
            /\ \/ f # NoFile
               \/ cont' = cont
               \/ Unlock(p, l, "finish")
            /\ UNCHANGED <<begun, base, rest, dir>>
      <4>1. PICK r \in reqs, l \in locks :
              /\ r.pf = p /\ l.pf = p
              /\ \E f \in {dir[r.file][r.name]} \cup (IF Faults THEN {reply[p]} ELSE {}) :
                   /\ reply' = [reply EXCEPT ![p] = f]
                   /\ \/ f # NoFile
                      \/ cont' = cont
                      \/ Unlock(p, l, "finish")
              /\ UNCHANGED <<begun, base, rest, dir>>
        BY <2>3 DEF FindCb
      <4>2. r.file \in Files /\ r.name \in Names
        BY DEF IInv, TypeOK
      <4>3. dir[r.file][r.name] \in Files \cup {NoFile} /\ reply[p] \in Files \cup {NoFile}
        BY <4>2 DEF IInv, TypeOK
      <4> QED
        BY <4>1, <4>3
    <3>2. /\ p \in begun /\ reply[p] = NoFile /\ cont[p] = "none"
          /\ r.file = base[p] /\ r.name = Head(rest[p])
      BY <3>1, OneRequest
    <3>3. cont'[p] = "descend" => reply'[p] = dir'[base[p]][Head(rest[p])]
      <4>1. reply'[p] = f
        BY <3>1 DEF IInv, TypeOK
      <4>2. cont'[p] = "descend" => f # NoFile
        BY <3>1, <3>2 DEF Unlock, IInv, TypeOK
      <4>3. f # NoFile => f = dir'[base[p]][Head(rest[p])]
        BY <3>1, <3>2
      <4> QED
        BY <4>1, <4>2, <4>3
    <3> QED
      BY <1>1, <1>3, <3>1, <3>2, <3>3, TrailHolds
  <2>4. CASE AddCb(p)
    <3>1. PICK r \in reqs, l \in locks :
            /\ r.pf = p /\ l.pf = p
            /\ \/ \E f \in Files : NewDir(r, f) /\ reply' = [reply EXCEPT ![p] = f]
               \/ Unlock(p, l, "finish")
            /\ UNCHANGED <<begun, base, rest>>
      BY <2>4 DEF AddCb
    <3>2. /\ p \in begun /\ cont[p] = "none" /\ base[p] \in Files
          /\ r.file = base[p] /\ r.name = Head(rest[p]) /\ Head(rest[p]) \in Names
      BY <3>1, OneRequest
    <3>3. cont'[p] = "descend" => reply'[p] = dir'[base[p]][Head(rest[p])]
      <4>1. CASE Unlock(p, l, "finish")
        BY <4>1 DEF Unlock, IInv, TypeOK
      <4>2. CASE \E f \in Files : NewDir(r, f) /\ reply' = [reply EXCEPT ![p] = f]
        <5>1. PICK f \in Files : NewDir(r, f) /\ reply' = [reply EXCEPT ![p] = f]
          BY <4>2
        <5>2. reply'[p] = f
          BY <5>1 DEF IInv, TypeOK
        <5>3. dir'[base[p]][Head(rest[p])] = f
          BY <3>2, <5>1 DEF NewDir, IInv, TypeOK
        <5> QED
          BY <5>2, <5>3
      <4> QED
        BY <3>1, <4>1, <4>2
    <3> QED
      BY <1>1, <1>3, <3>1, <3>2, <3>3, TrailHolds
  <2>5. CASE Resume(p)
    <3>1. /\ p \in begun /\ rest[p] # <<>>
          /\ cont[p] = "descend" => reply[p] \in Files
      BY <2>5, InsideUnlock DEF Resume
    <3>2. /\ begun' = begun /\ dir' = dir /\ call' = call
          /\ cont'[p] = "none"
      BY <2>5 DEF Resume, IInv, TypeOK
    <3>3. CASE cont[p] = "finish" /\ UNCHANGED <<base, rest>>
      BY <1>1, <1>3, <3>1, <3>2, <3>3, TrailHolds
    <3>4. CASE cont[p] = "descend" /\ Enter(p, reply[p], Tail(rest[p]))
      <4>1. StepsInto(p, reply[p])
        BY <1>3, <3>1, <3>2, <3>4, FileStands DEF StepsInto, Enter, TrailOf, Told, IInv, TypeOK
      <4>2. OnTrail(p)'
        BY <1>3, <3>1, <3>4, <4>1, TrailGoesOn DEF TrailOf
      <4> QED
        BY <1>3, <3>1, <3>2, <4>2 DEF TrailOf, Told
    <3> QED
      BY <2>5, <3>3, <3>4 DEF Resume
  <2> QED
    BY <2>1, <2>2, <2>3, <2>4, <2>5 DEF Handler
<1> QED
  BY <1>2, <1>3

(* Every lookup is on its trail. *)
TrailsInv == writer = NoFile /\ \A p \in PFs : TrailOf(p)

(* When no other client edits the tree, a lookup stands where the terms    *)
(* consumed so far lead in it, whatever the host refuses and however many  *)
(* lookups create directories meanwhile: a report with nothing left is the *)
(* file the path names.                                                    *)
THEOREM ResolvedHolds ==
  ASSUME Shared = {}, RootsKnown PROVE Safety => []Resolved
<1>1. Init => TrailsInv
  BY DEF Init, TrailsInv, TrailOf, Told
<1>2. IInv /\ TrailsInv /\ [Next]_vars => TrailsInv'
  <2> SUFFICES ASSUME IInv, TrailsInv, [Next]_vars PROVE TrailsInv'
    OBVIOUS
  <2>1. writer' = NoFile
    BY TreeGains DEF TrailsInv
  <2>2. ASSUME NEW q \in PFs PROVE TrailOf(q)'
    <3>1. ASSUME NEW p \in PFs, Handler(p) PROVE TrailOf(q)'
      BY <3>1, TrailNext DEF TrailsInv
    <3>2. CASE UNCHANGED vars
      BY <3>2, TrailFrame DEF vars, TrailsInv
    <3> QED
      BY <3>1, <3>2 DEF Next, WriterRemove, WriterUnlock, TrailsInv
  <2> QED
    BY <2>1, <2>2 DEF TrailsInv
<1>3. IInv /\ TrailsInv => Resolved
  <2> SUFFICES ASSUME IInv, TrailsInv, NEW p \in PFs, p \in begun
               PROVE  /\ rest[p] = SubSeq(call[p].path, Consumed(p) + 1,
                                          Len(call[p].path))
                      /\ base[p] = Walk(p, Consumed(p))
    BY DEF Resolved, Consumed, IInv, TypeOK
  <2>1. OnTrail(p)
    BY DEF TrailsInv, TrailOf
  <2>2. PICK f \in [0..Consumed(p) -> Files] : Passed(f, p)
    BY <2>1 DEF OnTrail
  <2>3. Walk(p, Consumed(p)) = f[Consumed(p)]
    BY <2>1, <2>2, TrailIsWalk DEF OnTrail, Passed
  <2> QED
    BY <2>1, <2>2, <2>3 DEF OnTrail, Passed
<1> QED
  BY <1>1, <1>2, <1>3, Invariance, PTL DEF Safety

-----------------------------------------------------------------------------
(***************************************************************************)
(* What a lookup misses.  A NEWDIR goes out, or a lookup gives up, only    *)
(* after FIND has found nothing, and an entry of the first tree is always  *)
(* found; whatever a lookup then waits for, nobody removes an entry.       *)
(***************************************************************************)
(* A lookup for an entry that was not there at the start; and one that     *)
(* lost the race for it, or had no file left to create.                    *)
Missing(p) == LinkAt(InitLinks, base[p], Head(rest[p])) = {}
Lost(p) ==
  /\ base[p] \in Files /\ Missing(p)
  /\ call[p].create => \/ dir[base[p]][Head(rest[p])] # NoFile
                       \/ NewFile(links) = {}

(* What one lookup waits for, or has reported, is consistent with a miss.  *)
MissOf(p) ==
  /\ \A r \in ReqsOf(p) : r.type = "NEWDIR" => Missing(p)
  /\ cont[p] = "finish" => Lost(p)
  /\ reports[p] > 0 /\ rest[p] # <<>> => Lost(p)

(* Every entry of the first tree is still there. *)
OriginalsStay ==
  \A d \in Files, n \in Names : LinkAt(InitLinks, d, n) # {} => dir[d][n] # NoFile

MissInv == writer = NoFile /\ OriginalsStay /\ \A p \in PFs : MissOf(p)

(* A name taken stays taken, and files used up stay used up.               *)
LEMMA LostStays ==
  ASSUME IInv, NEW p \in PFs, Lost(p), rest[p] # <<>>, links \subseteq links',
         call' = call, base'[p] = base[p], rest'[p] = rest[p],
         \A d \in Files, n \in Names :
           dir[d][n] # NoFile => dir'[d][n] = dir[d][n]
  PROVE  Lost(p)'
<1>1. Head(rest[p]) \in Names
  BY DEF IInv, TypeOK
<1>2. NewFile(links)' \subseteq NewFile(links)
  BY DEF NewFile
<1> QED
  BY <1>1, <1>2 DEF Lost, Missing

(* Nothing takes a link out of the history.                                *)
LEMMA LinksGrow ==
  ASSUME [Next]_vars PROVE links \subseteq links'
<1>1. CASE \E p \in PFs : Start(p) \/ LockCb(p) \/ FindCb(p) \/ Resume(p)
  BY <1>1 DEF Start, LockCb, LockGranted, LockTimedOut, FindCb, Resume
<1>2. CASE \E p \in PFs : AddCb(p)
  BY <1>2 DEF AddCb, NewDir
<1>3. CASE UNCHANGED links
  BY <1>3
<1> QED
  BY <1>1, <1>2, <1>3
     DEF Next, Handler, WriterLock, WriterRemove, WriterUnlock, vars

(* A handler touches its own lookup only.                                  *)
LEMMA OthersUntouched ==
  ASSUME IInv, NEW p \in PFs, Handler(p), NEW q \in PFs, q # p
  PROVE  Untouched(q)
<1> USE DEF IInv, TypeOK
<1>1. CASE Start(p)
  BY <1>1 DEF Start, Enter, StandsOn, Report, Untouched, LocksOf, ReqsOf, Lock
<1>2. CASE Resume(p)
  BY <1>2 DEF Resume, Enter, StandsOn, Report, Untouched, LocksOf, ReqsOf, Lock
<1>3. CASE LockCb(p)
  BY <1>3 DEF LockCb, LockGranted, LockTimedOut, Unlock, Untouched, LocksOf,
              ReqsOf, Lock, Req
<1>4. CASE FindCb(p)
  BY <1>4 DEF FindCb, Unlock, Untouched, LocksOf, ReqsOf, Req
<1>5. CASE AddCb(p)
  BY <1>5 DEF AddCb, Unlock, Untouched, LocksOf, ReqsOf
<1> QED
  BY <1>1, <1>2, <1>3, <1>4, <1>5 DEF Handler

(* A lookup no step touches keeps what it knows of the entry it misses.    *)
LEMMA MissFrame ==
  ASSUME IInv, NEW q \in PFs, MissOf(q), Untouched(q), links \subseteq links',
         call' = call,
         \A d \in Files, n \in Names :
           dir[d][n] # NoFile => dir'[d][n] = dir[d][n]
  PROVE  MissOf(q)'
<1>1. base'[q] = base[q] /\ rest'[q] = rest[q]
  BY DEF Untouched
<1>2. ASSUME cont'[q] = "finish" PROVE Lost(q)'
  <2>1. cont[q] = "finish" /\ rest[q] # <<>>
    BY <1>2, InsideUnlock DEF Untouched
  <2> QED
    BY <1>1, <2>1, LostStays DEF MissOf
<1>3. ASSUME reports'[q] > 0, rest'[q] # <<>> PROVE Lost(q)'
  BY <1>1, <1>3, LostStays DEF MissOf, Untouched
<1>4. Missing(q)' = Missing(q)
  BY <1>1 DEF Missing
<1>5. \A r \in ReqsOf(q)' : r.type = "NEWDIR" => Missing(q)'
  BY <1>4 DEF MissOf, Untouched
<1> QED
  BY <1>2, <1>3, <1>5 DEF MissOf

(* The steps of a lookup itself. *)
LEMMA MissKeeps ==
  ASSUME Faults = FALSE, IInv, IInv', OriginalsStay, NEW p \in PFs, MissOf(p),
         Handler(p), links \subseteq links', call' = call,
         \A d \in Files, n \in Names :
           dir[d][n] # NoFile => dir'[d][n] = dir[d][n]
  PROVE  MissOf(p)'
<1>1. CASE Start(p)
  <2>1. /\ Quiet(p) /\ p \notin begun /\ reports[p] = 0
    BY <1>1 DEF Start, IInv, Progress, Running
  <2>2. ReqsOf(p)' = {} /\ cont'[p] = "none"
    BY <1>1, <2>1 DEF Start, Quiet, ReqsOf
  <2>3. rest'[p] # <<>> => reports'[p] = 0
    BY <1>1, <2>1 DEF Start, Enter, StandsOn, Report, IInv, TypeOK
  <2> QED
    BY <2>2, <2>3 DEF MissOf
<1>2. CASE LockCb(p)
  <2>1. PICK l \in locks :
          /\ l.pf = p /\ l.st = "pending"
          /\ reqs' = reqs \cup {Req(p, base[p], "FIND", Head(rest[p]))}
          /\ UNCHANGED <<base, rest, cont, reports>>
    BY <1>2 DEF LockCb, LockGranted, LockTimedOut
  <2>2. Running(p) /\ cont[p] = "none" /\ Waiting(p)
    BY <2>1, OneLock
  <2>3. ReqsOf(p)' = {Req(p, base[p], "FIND", Head(rest[p]))}
    BY <2>1, <2>2 DEF Waiting, ReqsOf, Req
  <2>4. \A r \in ReqsOf(p)' : r.type # "NEWDIR"
    BY <2>3 DEF Req
  <2> QED
    BY <2>1, <2>2, <2>4 DEF MissOf, Running
<1>3. CASE FindCb(p)
  <2>1. PICK r \in reqs, l \in locks :
          /\ r.pf = p /\ l.pf = p
          /\ \/ dir[r.file][r.name] # NoFile /\ reqs' = reqs \ {r} /\ Unlock(p, l, "descend")
             \/ /\ dir[r.file][r.name] = NoFile /\ UNCHANGED cont
             \/ /\ dir[r.file][r.name] = NoFile /\ ~call[p].create
                /\ reqs' = reqs \ {r}
          /\ UNCHANGED <<base, rest, reports>>
    BY <1>3 DEF FindCb
  <2>2. /\ Running(p) /\ rest[p] # <<>> /\ cont[p] = "none" /\ ReqsOf(p) = {r}
        /\ Head(rest[p]) \in Names
        /\ r.file = base[p] /\ base[p] \in Files /\ r.name = Head(rest[p])
    BY <2>1, OneRequest, SMTT(30)
  <2>3. dir[r.file][r.name] = NoFile => Missing(p)
    BY <2>2 DEF OriginalsStay, Missing
  <2>4. reports'[p] = 0
    BY <2>1, <2>2 DEF Running
  <2>5. base'[p] = base[p] /\ rest'[p] = rest[p] /\ Missing(p)' = Missing(p)
    BY <2>1 DEF Missing
  <2>6. CASE dir[r.file][r.name] # NoFile /\ reqs' = reqs \ {r} /\ Unlock(p, l, "descend")
    <3>1. ReqsOf(p)' = {}
      BY <2>1, <2>2, <2>6, RequestGone
    <3>2. cont'[p] = "descend"
      BY <2>6 DEF Unlock, IInv, TypeOK
    <3> QED
      BY <2>4, <3>1, <3>2 DEF MissOf
  <2>7. CASE dir[r.file][r.name] = NoFile /\ UNCHANGED cont
    BY <2>2, <2>3, <2>4, <2>5, <2>7 DEF MissOf
  <2>8. CASE dir[r.file][r.name] = NoFile /\ ~call[p].create /\ reqs' = reqs \ {r}
    <3>1. ReqsOf(p)' = {}
      BY <2>1, <2>2, <2>8, RequestGone
    <3>2. Lost(p)'
      BY <2>2, <2>3, <2>5, <2>8 DEF Lost
    <3> QED
      BY <2>4, <3>1, <3>2 DEF MissOf
  <2> QED
    BY <2>1, <2>6, <2>7, <2>8
<1>4. CASE AddCb(p)
  <2>1. PICK r \in reqs, l \in locks :
          /\ r.pf = p /\ l.pf = p /\ r.type = "NEWDIR" /\ reqs' = reqs \ {r}
          /\ \/ Unlock(p, l, "descend")
             \/ dir[r.file][r.name] # NoFile \/ NewFile(links) = {}
          /\ UNCHANGED <<base, rest, reports>>
    BY <1>4 DEF AddCb
  <2>2. /\ Running(p) /\ rest[p] # <<>> /\ cont[p] = "none" /\ ReqsOf(p) = {r}
        /\ Head(rest[p]) \in Names
        /\ r.file = base[p] /\ base[p] \in Files /\ r.name = Head(rest[p])
    BY <2>1, OneRequest, SMTT(30)
  <2>3. ReqsOf(p)' = {} /\ reports'[p] = 0
    BY <2>1, <2>2, RequestGone DEF Running
  <2>4. CASE Unlock(p, l, "descend")
    <3>1. cont'[p] = "descend"
      BY <2>4 DEF Unlock, IInv, TypeOK
    <3> QED
      BY <2>3, <3>1 DEF MissOf
  <2>5. CASE dir[r.file][r.name] # NoFile \/ NewFile(links) = {}
    <3>1. Missing(p)
      BY <2>1, <2>2 DEF MissOf
    <3>2. Lost(p)
      BY <2>2, <2>5, <3>1 DEF Lost
    <3>3. Lost(p)'
      BY <2>1, <2>2, <3>2, LostStays
    <3> QED
      BY <2>3, <3>3 DEF MissOf
  <2> QED
    BY <2>1, <2>4, <2>5
<1>5. CASE Resume(p)
  <2>1. /\ reports[p] = 0 /\ rest[p] # <<>> /\ ReqsOf(p) = {}
    BY <1>5, InsideUnlock DEF Resume
  <2>2. ReqsOf(p)' = {} /\ cont'[p] = "none"
    BY <1>5, <2>1 DEF Resume, ReqsOf, IInv, TypeOK
  <2>3. CASE cont[p] = "finish" /\ UNCHANGED <<base, rest>>
    <3>1. Lost(p)'
      BY <2>1, <2>3, LostStays DEF MissOf
    <3> QED
      BY <2>2, <3>1 DEF MissOf
  <2>4. CASE Enter(p, reply[p], Tail(rest[p]))
    <3>1. rest'[p] # <<>> => reports'[p] = 0
      BY <2>1, <2>4 DEF Enter, StandsOn, IInv, TypeOK
    <3> QED
      BY <2>2, <3>1 DEF MissOf
  <2> QED
    BY <1>5, <2>3, <2>4 DEF Resume
<1> QED
  BY <1>1, <1>2, <1>3, <1>4, <1>5 DEF Handler


(* On a host that does not fail and a tree nobody else edits, a lookup     *)
(* that reports a missing term did not overlook an entry of the first      *)
(* tree, and one told to create it lost a race or found no file left.      *)
THEOREM NoFalseMissHolds ==
  ASSUME Shared = {}, Faults = FALSE PROVE Safety => []NoFalseMiss
<1>1. Init => MissInv
  <2> SUFFICES ASSUME Init PROVE MissInv
    OBVIOUS
  <2>1. OriginalsStay
    <3> SUFFICES ASSUME NEW d \in Files, NEW n \in Names,
                        LinkAt(InitLinks, d, n) # {}
                 PROVE  dir[d][n] # NoFile
      BY DEF OriginalsStay
    <3>1. PICK l \in LinkAt(InitLinks, d, n) : dir[d][n] = l[3]
      BY DEF Init
    <3>2. l \in Files \X Names \X Files
      BY PathFindAssumption DEF LinkAt
    <3> QED
      BY <3>1, <3>2, PathFindAssumption
  <2> QED
    BY <2>1 DEF Init, MissInv, MissOf, ReqsOf
<1>2. IInv /\ IInv' /\ MissInv /\ [Next]_vars => MissInv'
  <2> SUFFICES ASSUME IInv, IInv', MissInv, [Next]_vars PROVE MissInv'
    OBVIOUS
  <2>1. /\ writer' = NoFile /\ call' = call /\ links \subseteq links'
        /\ \A d \in Files, n \in Names :
             dir[d][n] # NoFile => dir'[d][n] = dir[d][n]
    BY TreeGains, LinksGrow DEF MissInv
  <2>2. OriginalsStay'
    BY <2>1 DEF MissInv, OriginalsStay
  <2>3. ASSUME NEW q \in PFs PROVE MissOf(q)'
    <3>1. CASE \E p \in PFs : Handler(p)
      <4>1. PICK p \in PFs : Handler(p)
        BY <3>1
      <4>2. CASE q = p
        BY <2>1, <4>1, <4>2, MissKeeps DEF MissInv
      <4>3. CASE q # p
        BY <2>1, <4>1, <4>3, OthersUntouched, MissFrame DEF MissInv
      <4> QED
        BY <4>2, <4>3
    <3>2. CASE UNCHANGED vars
      <4>1. Untouched(q)
        BY <3>2 DEF vars, Untouched, LocksOf, ReqsOf
      <4> QED
        BY <2>1, <4>1, MissFrame DEF MissInv
    <3> QED
      BY <3>1, <3>2 DEF Next, WriterRemove, WriterUnlock, MissInv
  <2> QED
    BY <2>1, <2>2, <2>3 DEF MissInv
<1>3. IInv /\ MissInv => NoFalseMiss
  <2> SUFFICES ASSUME IInv, MissInv, NEW p \in begun, reports[p] > 0, rest[p] # <<>>
               PROVE  Lost(p)
    BY DEF NoFalseMiss, Lost, Missing
  <2> QED
    BY DEF MissInv, MissOf, IInv, TypeOK
<1> QED
  BY <1>1, <1>2, <1>3, Invariance, PTL DEF Safety
=============================================================================
