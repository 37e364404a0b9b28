------------------------------ MODULE PathFind ------------------------------
(***************************************************************************)
(* libupd/pathfind.h: looking a path up, one term at a time, by callbacks. *)
(*                                                                         *)
(* upd_pathfind takes the lock of the directory it stands in, asks the     *)
(* directory's driver for the next term (and, with "create", for a new     *)
(* directory when there is none), releases the lock, steps into the child  *)
(* and starts over.  There is no program counter in the C code: a lookup   *)
(* is wherever the callback it waits for will put it.  So there is none    *)
(* here either: what a lookup waits for is what the host holds for it, an  *)
(* entry of "locks", an entry of "reqs", or the return of upd_file_unlock. *)
(*                                                                         *)
(* The lock service and the directory drivers belong to the host, which is *)
(* another program.  They are modelled from their declarations in libupd.h *)
(* and from the calls made here.  The host may run any other callback from *)
(* inside upd_file_unlock, so every handler that unlocks is cut there in   *)
(* two: the rest of it is the action Resume.                               *)
(*                                                                         *)
(* A path is the sequence of its terms; repeated, leading and trailing     *)
(* slashes only matter through "abs".                                      *)
(***************************************************************************)
EXTENDS Naturals, Sequences

CONSTANTS PFs,       \* the upd_pathfind_t objects
          Files,     \* every file there can ever be
          Names,     \* the terms of paths
          Root,      \* UPD_FILE_ID_ROOT
          NoFile,    \* NULL
          Calls,     \* the argument records lookups are called with
          InitLinks, \* the links of the tree at the start
          Shared,    \* directories other clients lock exclusively and edit
          Faults     \* TRUE if the host may refuse, fail or time out

NewFile(links) == Files \ ({Root} \cup {l[3] : l \in links})

ASSUME PathFindAssumption ==
  /\ Root \in Files
  /\ NoFile \notin Files
  /\ Faults \in BOOLEAN
  /\ Shared \subseteq Files
  /\ InitLinks \subseteq Files \X Names \X Files
  /\ \A k, l \in InitLinks : k[1] = l[1] /\ k[2] = l[2] => k = l
  /\ Calls \subseteq [path   : Seq(Names),
                      abs    : BOOLEAN,                \* path[0] == '/'
                      base   : Files \cup {NoFile},
                      iso    : BOOLEAN,                \* iso is not NULL
                      create : BOOLEAN]

VARIABLES
  call,     \* [PFs -> Calls]: the arguments of each lookup
  begun,    \* lookups upd_pathfind was called for
  base,     \* pf->base
  rest,     \* pf->path and pf->len; pf->term delimits its head
  reply,    \* pf->req.dir.entry.file, as the last answer left it
  cont,     \* what a handler does once upd_file_unlock returns
  reports,  \* how many times pf->cb was called
  dir,      \* the tree: [Files -> [Names -> Files or NoFile]]
  links,    \* every link ever made
  locks,    \* lock objects the host has registered
  reqs,     \* requests the drivers have accepted and not answered
  writer    \* the directory another client holds exclusively, or NoFile

pvars == <<call, begun, base, rest, reply, cont, reports>>
hvars == <<dir, links, locks, reqs, writer>>
vars  == <<call, begun, base, rest, reply, cont, reports,
           dir, links, locks, reqs, writer>>

Lock(p, f, s)   == [pf |-> p, file |-> f, st |-> s]
Req(p, f, t, n) == [pf |-> p, file |-> f, type |-> t, name |-> n]

LinkAt(ls, d, n) == {l \in ls : l[1] = d /\ l[2] = n}

Init ==
  /\ call \in [PFs -> Calls]
  /\ begun = {}
  /\ base = [p \in PFs |-> call[p].base]
  /\ rest = [p \in PFs |-> call[p].path]
  /\ reply = [p \in PFs |-> NoFile]
  /\ cont = [p \in PFs |-> "none"]
  /\ reports = [p \in PFs |-> 0]
  /\ links = InitLinks
  /\ dir = [d \in Files |-> [n \in Names |->
              IF LinkAt(InitLinks, d, n) = {} THEN NoFile
              ELSE (CHOOSE l \in LinkAt(InitLinks, d, n) : TRUE)[3]]]
  /\ locks = {}
  /\ reqs = {}
  /\ writer = NoFile

-----------------------------------------------------------------------------
(* pf->cb(pf): the caller gets the object back and may free it. *)
Report(p) == reports' = [reports EXCEPT ![p] = @ + 1]

(* next_ goes on from the root when it is left without a base: a driver    *)
(* said it made a directory and named none.                                *)
StandsOn(f) == IF f = NoFile THEN Root ELSE f

(* upd_pathfind_next_, called with pf->base = f and the terms r left. *)
Enter(p, f, r) ==
  /\ base' = [base EXCEPT ![p] = StandsOn(f)]
  /\ rest' = [rest EXCEPT ![p] = r]
  /\ \/ r = <<>> /\ Report(p) /\ UNCHANGED locks
     \/ /\ r # <<>>
        /\ locks' = locks \cup {Lock(p, StandsOn(f), "pending")}
        /\ UNCHANGED reports
     \/ r # <<>> /\ Faults /\ Report(p) /\ UNCHANGED locks  \* lock refused

(* The base upd_pathfind looks up when none is left after an absolute path *)
(* dropped it: upd_file_get(pf->iso, UPD_FILE_ID_ROOT).                    *)
NeedsRoot(p) == call[p].abs \/ call[p].base = NoFile

(* upd_pathfind.  upd_file_get must not be given a NULL iso: when it is,   *)
(* there is no base to go on with and the lookup stays without one.        *)
Start(p) ==
  /\ p \notin begun
  /\ begun' = begun \cup {p}
  /\ IF NeedsRoot(p) /\ ~call[p].iso
       THEN base' = [base EXCEPT ![p] = NoFile]
            /\ UNCHANGED <<rest, reports, locks>>
       ELSE Enter(p, IF NeedsRoot(p) THEN Root ELSE call[p].base, rest[p])
  /\ UNCHANGED <<call, reply, cont, dir, links, reqs, writer>>

(* upd_file_unlock(&pf->lock), and what the handler does when it returns. *)
Unlock(p, l, next) ==
  /\ locks' = locks \ {l}
  /\ cont' = [cont EXCEPT ![p] = next]

-----------------------------------------------------------------------------
(* Handlers with a mistake in them, which no specification uses: the       *)
(* properties below must tell each of them from the handler it is named    *)
(* after.                                                                  *)

(* lock->ok is not looked at: FIND goes out without the lock. *)
LockGrantedUnchecked(p) ==
  \E l \in locks :
    /\ l.pf = p /\ l.st = "pending"
    /\ reply' = [reply EXCEPT ![p] = NoFile]
    /\ reqs' = reqs \cup {Req(p, base[p], "FIND", Head(rest[p]))}
    /\ locks' = (locks \ {l}) \cup {Lock(p, l.file, "held")}
    /\ UNCHANGED <<call, begun, base, rest, cont, reports, dir, links, writer>>

(* pf->req is reused without being cleared: the last answer stays in it. *)
LockGrantedStale(p) ==
  \E l \in locks :
    /\ l.pf = p /\ l.st = "pending"
    /\ writer # l.file
    /\ reqs' = reqs \cup {Req(p, base[p], "FIND", Head(rest[p]))}
    /\ locks' = (locks \ {l}) \cup {Lock(p, l.file, "held")}
    /\ UNCHANGED <<call, begun, base, rest, reply, cont, reports,
                   dir, links, writer>>

(* A lock that was not granted is taken to need no unlock. *)
LockTimedOutKept(p) ==
  \E l \in locks :
    /\ l.pf = p /\ l.st = "pending" /\ Faults
    /\ reports' = [reports EXCEPT ![p] = @ + 1]
    /\ UNCHANGED <<call, begun, base, rest, reply, cont,
                   dir, links, locks, reqs, writer>>

(* pf->create is forgotten. *)
FindCbNoCreate(p) ==
  \E r \in reqs, l \in locks :
    /\ r.pf = p /\ r.type = "FIND" /\ l.pf = p
    /\ reply' = [reply EXCEPT ![p] = dir[r.file][r.name]]
    /\ reqs' = reqs \ {r}
    /\ Unlock(p, l, IF reply'[p] = NoFile THEN "finish" ELSE "descend")
    /\ UNCHANGED <<call, begun, base, rest, reports, dir, links, writer>>

(* The term just followed is not taken off the path. *)
ResumeSameTerm(p) ==
  /\ cont[p] # "none"
  /\ cont' = [cont EXCEPT ![p] = "none"]
  /\ \/ cont[p] = "finish" /\ Report(p) /\ UNCHANGED <<base, rest, locks>>
     \/ cont[p] = "descend" /\ Enter(p, reply[p], rest[p])
  /\ UNCHANGED <<call, begun, reply, dir, links, reqs, writer>>

(* A handler unlocks on an error and returns without calling pf->cb. *)
ResumeSilent(p) ==
  /\ cont[p] # "none"
  /\ cont' = [cont EXCEPT ![p] = "none"]
  /\ \/ cont[p] = "finish" /\ UNCHANGED <<base, rest, reports, locks>>
     \/ cont[p] = "descend" /\ Enter(p, reply[p], Tail(rest[p]))
  /\ UNCHANGED <<call, begun, reply, dir, links, reqs, writer>>

(* There is no return after pf->cb on an error: the handler goes on into   *)
(* next_ with no base, which stands for the root.                          *)
ResumeFallsThrough(p) ==
  /\ cont[p] # "none"
  /\ cont' = [cont EXCEPT ![p] = "none"]
  /\ \/ /\ cont[p] = "finish"
        /\ reports' = [reports EXCEPT ![p] = @ + 1]
        /\ base' = [base EXCEPT ![p] = Root]
        /\ locks' = locks \cup {Lock(p, Root, "pending")}
        /\ UNCHANGED rest
     \/ cont[p] = "descend" /\ Enter(p, reply[p], Tail(rest[p]))
  /\ UNCHANGED <<call, begun, reply, dir, links, reqs, writer>>

-----------------------------------------------------------------------------
(* upd_pathfind_lock_cb_ with lock->ok: ask for the next term. *)
LockGranted(p) ==
  \E l \in locks :
    /\ l.pf = p /\ l.st = "pending"
    /\ writer # l.file
    /\ reply' = [reply EXCEPT ![p] = NoFile]
    /\ \/ /\ reqs' = reqs \cup {Req(p, base[p], "FIND", Head(rest[p]))}
          /\ locks' = (locks \ {l}) \cup {Lock(p, l.file, "held")}
          /\ UNCHANGED cont
       \/ Faults /\ Unlock(p, l, "finish") /\ UNCHANGED reqs \* req refused
    /\ UNCHANGED <<call, begun, base, rest, reports, dir, links, writer>>

(* upd_pathfind_lock_cb_ without lock->ok: the lock could not be had in    *)
(* time.  The code unlocks it all the same.                                *)
LockTimedOut(p) ==
  \E l \in locks :
    /\ l.pf = p /\ l.st = "pending"
    /\ Faults
    /\ Unlock(p, l, "finish")
    /\ UNCHANGED <<call, begun, base, rest, reply, reports,
                   dir, links, reqs, writer>>

LockCb(p) == LockGranted(p) \/ LockTimedOut(p)

(* upd_pathfind_find_cb_, entry.file = f.  Only f is looked at, so a       *)
(* driver that fails, leaving the request as it came, and one that finds   *)
(* nothing are the same.                                                   *)
FindCb(p) ==
  \E r \in reqs, l \in locks :
    /\ r.pf = p /\ r.type = "FIND" /\ l.pf = p
    /\ \E f \in {dir[r.file][r.name]} \cup (IF Faults THEN {reply[p]} ELSE {}) :
         /\ reply' = [reply EXCEPT ![p] = f]
         /\ \/ /\ f # NoFile
               /\ reqs' = reqs \ {r}
               /\ Unlock(p, l, "descend")
            \/ /\ f = NoFile /\ call[p].create
               /\ reqs' = (reqs \ {r})
                            \cup {Req(p, base[p], "NEWDIR", Head(rest[p]))}
               /\ UNCHANGED <<locks, cont>>
            \/ /\ f = NoFile /\ (call[p].create => Faults) \* req refused
               /\ reqs' = reqs \ {r}
               /\ Unlock(p, l, "finish")
    /\ UNCHANGED <<call, begun, base, rest, reports, dir, links, writer>>

(* The driver's half of UPD_REQ_DIR_NEWDIR: a new directory f under a name *)
(* that is free.                                                           *)
NewDir(r, f) ==
  /\ dir[r.file][r.name] = NoFile
  /\ f \in NewFile(links)
  /\ dir' = [dir EXCEPT ![r.file][r.name] = f]
  /\ links' = links \cup {<<r.file, r.name, f>>}

(* upd_pathfind_add_cb_: the directory was made, or it was not because the *)
(* name is taken, there is no room for a file, or the driver failed.       *)
AddCb(p) ==
  \E r \in reqs, l \in locks :
    /\ r.pf = p /\ r.type = "NEWDIR" /\ l.pf = p
    /\ reqs' = reqs \ {r}
    /\ \/ \E f \in Files :
            /\ NewDir(r, f)
            /\ reply' = [reply EXCEPT ![p] = f]
            /\ Unlock(p, l, "descend")
       \/ /\ Faults \/ dir[r.file][r.name] # NoFile \/ NewFile(links) = {}
          /\ Unlock(p, l, "finish")
          /\ UNCHANGED <<reply, dir, links>>
    /\ UNCHANGED <<call, begun, base, rest, reports, writer>>

(* What is left of a handler after upd_file_unlock: report, or step into   *)
(* the child and go on with the next term.                                 *)
Resume(p) ==
  /\ cont[p] # "none"
  /\ cont' = [cont EXCEPT ![p] = "none"]
  /\ \/ cont[p] = "finish" /\ Report(p) /\ UNCHANGED <<base, rest, locks>>
     \/ cont[p] = "descend" /\ Enter(p, reply[p], Tail(rest[p]))
  /\ UNCHANGED <<call, begun, reply, dir, links, reqs, writer>>

-----------------------------------------------------------------------------
(* Another client of the host, which takes an exclusive lock (ex = 1) of a *)
(* directory to remove entries from it.                                    *)
WriterLock(d) ==
  /\ writer = NoFile
  /\ \A l \in locks : l.file = d => l.st # "held"
  /\ writer' = d
  /\ UNCHANGED <<pvars, dir, links, locks, reqs>>

WriterRemove(n) ==
  /\ writer # NoFile
  /\ dir[writer][n] # NoFile
  /\ dir' = [dir EXCEPT ![writer][n] = NoFile]
  /\ UNCHANGED <<pvars, links, locks, reqs, writer>>

WriterUnlock ==
  /\ writer # NoFile
  /\ writer' = NoFile
  /\ UNCHANGED <<pvars, dir, links, locks, reqs>>

-----------------------------------------------------------------------------
Handler(p) == Start(p) \/ LockCb(p) \/ FindCb(p) \/ AddCb(p) \/ Resume(p)

Next ==
  \/ \E p \in PFs : Handler(p)
  \/ \E d \in Shared : WriterLock(d)
  \/ \E n \in Names : WriterRemove(n)
  \/ WriterUnlock

(* The host calls back, with an answer or with a failure, for every lock   *)
(* and request it has accepted, and upd_file_unlock returns.               *)
Fairness == \A p \in PFs : /\ WF_vars(LockCb(p))
                           /\ WF_vars(FindCb(p))
                           /\ WF_vars(AddCb(p))
                           /\ WF_vars(Resume(p))

Safety == Init /\ [][Next]_vars
Spec   == Safety /\ Fairness
-----------------------------------------------------------------------------
TypeOK ==
  /\ call \in [PFs -> Calls]
  /\ begun \subseteq PFs
  /\ base \in [PFs -> Files \cup {NoFile}]
  /\ rest \in [PFs -> Seq(Names)]
  /\ reply \in [PFs -> Files \cup {NoFile}]
  /\ cont \in [PFs -> {"none", "finish", "descend"}]
  /\ reports \in [PFs -> {0, 1}]          \* pf->cb is called at most once
  /\ dir \in [Files -> [Names -> Files \cup {NoFile}]]
  /\ links \subseteq Files \X Names \X Files
  /\ locks \subseteq [pf : PFs, file : Files, st : {"pending", "held"}]
  /\ reqs \subseteq [pf : PFs, file : Files, type : {"FIND", "NEWDIR"},
                     name : Names]
  /\ writer \in Files \cup {NoFile}

LocksOf(p) == {l \in locks : l.pf = p}
ReqsOf(p)  == {r \in reqs : r.pf = p}

(* Called with a base to start from, and not reported yet. *)
Running(p) == p \in begun /\ base[p] # NoFile /\ reports[p] = 0

Waiting(p) ==
  /\ LocksOf(p) = {Lock(p, base[p], "pending")}
  /\ ReqsOf(p) = {}
  /\ cont[p] = "none"

Asking(p) ==
  /\ LocksOf(p) = {Lock(p, base[p], "held")}
  /\ \E t \in {"FIND", "NEWDIR"} :
       ReqsOf(p) = {Req(p, base[p], t, Head(rest[p]))}
  /\ cont[p] = "none"

Unlocking(p) ==
  /\ LocksOf(p) = {}
  /\ ReqsOf(p) = {}
  /\ cont[p] # "none"

Quiet(p) ==
  /\ LocksOf(p) = {}
  /\ ReqsOf(p) = {}
  /\ cont[p] = "none"

(* A running lookup waits for exactly one thing, and has the lock of the   *)
(* directory it asks: never zero (it would hang), never two (it would      *)
(* report twice).  One that has not started or has reported left nothing   *)
(* behind: no registered lock or request still points into the object the  *)
(* caller may have freed in pf->cb.  Violating it takes several handlers   *)
(* (pathfind.h:93-193): each unlocks on its own error paths.               *)
OneOutstanding ==
  \A p \in PFs :
    IF Running(p) THEN Waiting(p) \/ Asking(p) \/ Unlocking(p) ELSE Quiet(p)

(* Once pf->cb was called the object is never touched again, neither by a  *)
(* second report nor by the tail of a handler that was inside              *)
(* upd_file_unlock (pathfind.h:142-144, 167-169, 182-187).                 *)
UntouchedAfterReport ==
  [][\A p \in PFs : reports[p] > 0 =>
       UNCHANGED <<base[p], rest[p], reply[p], cont[p], reports[p]>>]_vars

(* While another client holds a directory exclusively no FIND or NEWDIR of *)
(* a lookup is in progress there: the lock covers every request, the one   *)
(* find_cb_ adds included (pathfind.h:110-118, 152-165).                   *)
EditsExcludeLookups == \A r \in reqs : r.file # writer

(* Where following the first k terms of the lookup's path ends, in the     *)
(* tree as it is now.                                                      *)
StartOf(p) == IF NeedsRoot(p) THEN Root ELSE call[p].base
Walk(p, k) ==
  LET to[i \in 0..k] == IF i = 0 THEN StartOf(p)
                        ELSE dir[to[i - 1]][call[p].path[i]]
  IN to[k]

(* With nobody removing entries, a lookup stands where the terms consumed  *)
(* so far lead, and the terms left are the others: after any number of     *)
(* interleaved lookups and creations, a report with nothing left is the    *)
(* file the path names (pathfind.h:172-176, 189-192).                      *)
Resolved ==
  \A p \in begun :
    LET k == Len(call[p].path) - Len(rest[p]) IN
      /\ rest[p] = SubSeq(call[p].path, k + 1, Len(call[p].path))
      /\ base[p] = Walk(p, k)

(* With no failing host and nobody removing entries, a lookup that reports *)
(* a missing term did not overlook an entry that was always there, and one *)
(* told to create it lost a race for the same name: the entry exists by    *)
(* then, or there was no room for a file.  The race is real, because the   *)
(* lock NEWDIR is sent under is a shared one (pathfind.h:110-114).         *)
NoFalseMiss ==
  \A p \in begun :
    reports[p] > 0 /\ rest[p] # <<>> =>
      /\ LinkAt(InitLinks, base[p], Head(rest[p])) = {}
      /\ call[p].create => \/ dir[base[p]][Head(rest[p])] # NoFile
                           \/ NewFile(links) = {}

(* The iso handed to upd_file_get is never NULL: libupd.h declares it      *)
(* HEDLEY_NON_NULL(1).                                                     *)
RootLookupHasIso == \A p \in begun : base[p] # NoFile

(* The lookups implement PathWalk. *)
Walking == INSTANCE PathWalk WITH Walks <- PFs, at <- base, left <- rest

(* Every step of a lookup is a step of the abstract walk or invisible to   *)
(* it, whatever the host refuses and whoever edits the tree.               *)
RefinesWalk == Walking!WalkSafety

(* Every lookup that is called reports, as long as the host keeps calling  *)
(* back: locks that are not granted time out (pathfind.h:121-145).         *)
EveryLookupReports == Walking!WalkLiveness
=============================================================================
