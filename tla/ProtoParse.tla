----------------------------- MODULE ProtoParse -----------------------------
(***************************************************************************)
(* libupd/proto.h: decoding a message and, for "encoder frame", finding    *)
(* the file it names.  A upd_proto_parse_t counts the activities that may  *)
(* still touch it: the call of upd_proto_parse itself and the path lookup  *)
(* it started, whose callback may run before upd_proto_parse returns or    *)
(* long after.  Whichever ends last calls par->cb, where the user frees    *)
(* the object, and then gives back the references on files taken for the   *)
(* user's sake.                                                            *)
(*                                                                         *)
(* The host is external: it keeps files alive while they are referenced,   *)
(* finds them by id, and answers a path lookup with a file of a directory  *)
(* or with none (PathFind models the lookup).  Between that answer and the *)
(* hold the parser takes, the lookup gives its lock back, and whoever is   *)
(* waiting for it may remove the file: nothing in the code looks again.    *)
(***************************************************************************)
EXTENDS Naturals, FiniteSets

CONSTANTS Pars,     \* the upd_proto_parse_t objects
          Files,    \* the files there are at the start
          NoFile,   \* NULL
          Sources,  \* the decoded messages parsers are called with
          HoldMax   \* UPD_PROTO_PARSE_HOLD_MAX

Slots == 1..HoldMax

ASSUME ProtoAssumption ==
  /\ IsFiniteSet(Pars)
  /\ NoFile \notin Files
  /\ HoldMax \in Nat \ {0}
  /\ Sources \subseteq
       [mask   : SUBSET {"encoder", "object"},  \* par->iface
        map    : BOOLEAN,                       \* the root is a map
        fields : BOOLEAN,                       \* and its fields are valid
        iface  : {"encoder", "object", "other"},
        cmd    : {"info", "init", "frame", "finalize",
                  "lock", "lockex", "unlock", "get", "set", "other"},
        param  : {"none", "invalid", "path", "id", "valid"},
        id     : Files \cup {NoFile}]           \* the file an id stands for

VARIABLES
  src,      \* [Pars -> Sources]
  call,     \* the call of upd_proto_parse: "none", "inside" or "over"
  lookup,   \* the path lookup for it: "none" or "running"
  answer,   \* pf->base, once the driver has named a file for the last term
  refcnt,   \* par->refcnt
  err,      \* par->err
  file,     \* par->msg.encoder_frame.file
  hold,     \* par->hold, or the copy of it unref_ has made
  reports,  \* how many times par->cb was called
  owing,    \* parsers whose cb was called and whose holds are not released
  late,     \* history: parsers that held a file when it was gone already
  linked,   \* the files their directory still refers to
  refs      \* the host's reference count of each file

pvars == <<src, call, lookup, answer, refcnt, err, file, hold, reports,
           owing, late>>
vars  == <<src, call, lookup, answer, refcnt, err, file, hold, reports,
           owing, late, linked, refs>>

Alive(f) == refs[f] > 0

Init ==
  /\ src \in [Pars -> Sources]
  /\ call = [p \in Pars |-> "none"]
  /\ lookup = [p \in Pars |-> "none"]
  /\ answer = [p \in Pars |-> NoFile]
  /\ refcnt = [p \in Pars |-> 0]
  /\ err = [p \in Pars |-> "none"]
  /\ file = [p \in Pars |-> NoFile]
  /\ hold = [p \in Pars |-> [i \in Slots |-> NoFile]]
  /\ reports = [p \in Pars |-> 0]
  /\ owing = {} /\ late = {}
  /\ linked = Files
  /\ refs = [f \in Files |-> 1]

-----------------------------------------------------------------------------
(* Steps with a mistake in them, which no specification uses: the          *)
(* properties below must tell each of them from the step it is named       *)
(* after.                                                                  *)

(* refcnt-- instead of --refcnt. *)
UnrefPostfix(p, r) ==
  /\ refcnt' = [refcnt EXCEPT ![p] = r - 1]
  /\ IF r = 0 THEN /\ reports' = [reports EXCEPT ![p] = @ + 1]
                   /\ owing' = owing \cup {p}
              ELSE UNCHANGED <<reports, owing>>

(* There is no return when the count is not 0 yet. *)
UnrefNoReturn(p, r) ==
  /\ refcnt' = [refcnt EXCEPT ![p] = r - 1]
  /\ reports' = [reports EXCEPT ![p] = @ + 1]
  /\ owing' = owing \cup {p}

(* The file is handed over without a hold. *)
FoundNoHold(p, f) ==
  /\ file' = [file EXCEPT ![p] = f]
  /\ UNCHANGED <<err, hold, late, refs>>

(* The return for a param without a valid "file" does not set par->err. *)
EncoderErrorPassed(m) ==
  IF m.cmd \notin {"info", "init", "frame", "finalize"}
    THEN "unknown command" ELSE "none"

(* The lookup is not counted. *)
ParsePathUncounted(p) ==
  /\ call[p] = "none"
  /\ src[p].iface = "encoder" /\ src[p].cmd = "frame" /\ src[p].param = "path"
  /\ call' = [call EXCEPT ![p] = "inside"]
  /\ lookup' = [lookup EXCEPT ![p] = "running"]
  /\ refcnt' = [refcnt EXCEPT ![p] = @ + 1]
  /\ UNCHANGED <<src, answer, err, file, hold, reports, owing, late, linked,
                 refs>>

(* The count of a lookup that could not be started is not taken back. *)
ParsePathRefusedCounted(p) ==
  /\ call[p] = "none"
  /\ src[p].iface = "encoder" /\ src[p].cmd = "frame" /\ src[p].param = "path"
  /\ call' = [call EXCEPT ![p] = "over"]
  /\ err' = [err EXCEPT ![p] = "subreq failure"]
  /\ refcnt' = [refcnt EXCEPT ![p] = @ + 1]
  /\ UNCHANGED <<src, lookup, answer, file, hold, reports, owing, late, linked,
                 refs>>

(* upd_proto_parse returns from a path lookup without giving up its count. *)
ParseReturnsCounted(p) ==
  /\ call[p] = "inside"
  /\ call' = [call EXCEPT ![p] = "over"]
  /\ UNCHANGED <<src, lookup, answer, refcnt, err, file, hold, reports, owing,
                 late, linked, refs>>

(* The references are dropped without upd_file_unref. *)
ReleaseNothing(p) ==
  /\ p \in owing
  /\ owing' = owing \ {p}
  /\ hold' = [hold EXCEPT ![p] = [i \in Slots |-> NoFile]]
  /\ UNCHANGED <<src, call, lookup, answer, refcnt, err, file, reports, late,
                 linked, refs>>

-----------------------------------------------------------------------------
Encoder == {"info", "init", "frame", "finalize"}
Object  == {"lock", "lockex", "unlock", "get", "set"}

(* What upd_proto_parse and the parser of the interface find wrong with a  *)
(* message before any file is looked for, or "none".                       *)
EncoderError(m) ==
  CASE m.cmd \notin Encoder                                -> "unknown command"
    [] m.cmd = "frame" /\ m.param \notin {"path", "id"}    -> "invalid param"
    [] OTHER                                               -> "none"

ObjectError(m) ==
  CASE m.cmd \notin Object                                 -> "unknown command"
    [] m.cmd \in {"get", "set"} /\ m.param = "invalid"     -> "invalid param"
    [] OTHER                                               -> "none"

Verdict(m) ==
  IF ~m.map THEN "root must be a map"
  ELSE IF ~m.fields THEN "invalid msg"
  ELSE IF m.iface = "encoder" /\ "encoder" \in m.mask THEN EncoderError(m)
  ELSE IF m.iface = "object" /\ "object" \in m.mask THEN ObjectError(m)
  ELSE "unknown interface"

(* upd_proto_parse_encoder_ gets as far as the file that a frame names.    *)
Frame(m) ==
  /\ m.map /\ m.fields
  /\ m.iface = "encoder" /\ "encoder" \in m.mask
  /\ m.cmd = "frame" /\ m.param \in {"path", "id"}

(* upd_proto_parse_unref_, when the count is r: the last one reports.      *)
Unref(p, r) ==
  /\ refcnt' = [refcnt EXCEPT ![p] = r - 1]
  /\ IF r = 1 THEN /\ reports' = [reports EXCEPT ![p] = @ + 1]
                   /\ owing' = owing \cup {p}
              ELSE UNCHANGED <<reports, owing>>

(* upd_proto_parse_hold_: the first free slot takes a reference on f.  One *)
(* on a file that is gone counts for nothing, now and when it is given     *)
(* back: what it does to freed memory is not modelled.                     *)
Hold(p, f) ==
  \E i \in Slots :
    /\ hold[p][i] = NoFile
    /\ \A j \in 1..(i - 1) : hold[p][j] # NoFile
    /\ hold' = [hold EXCEPT ![p][i] = f]
    /\ \/ Alive(f) /\ refs' = [refs EXCEPT ![f] = @ + 1] /\ late' = late
       \/ ~Alive(f) /\ refs' = refs /\ late' = late \cup {p}

(* The message gets file f and a hold on it, or the error e. *)
Found(p, f) ==
  /\ file' = [file EXCEPT ![p] = f]
  /\ Hold(p, f)
  /\ UNCHANGED err
Failed(p, e) ==
  /\ err' = [err EXCEPT ![p] = e]
  /\ UNCHANGED <<file, hold, late, refs>>

(* upd_proto_parse for a message that needs no path lookup.  The count     *)
(* goes from 0 to 1 and back.                                              *)
ParseAtOnce(p) ==
  /\ call[p] = "none"
  /\ call' = [call EXCEPT ![p] = "over"]
  /\ LET m == src[p] IN
       \/ ~Frame(m) /\ Failed(p, Verdict(m))
       \/ /\ Frame(m) /\ m.param = "id"
          /\ IF m.id # NoFile /\ Alive(m.id)
               THEN Found(p, m.id)
               ELSE Failed(p, "file not found")
  /\ Unref(p, refcnt[p] + 1)
  /\ UNCHANGED <<src, lookup, answer, linked>>

(* upd_proto_parse for a path, up to the call of upd_pathfind_with_dup: a  *)
(* count for the call and one for the lookup.                              *)
ParsePath(p) ==
  /\ call[p] = "none"
  /\ Frame(src[p]) /\ src[p].param = "path"
  /\ call' = [call EXCEPT ![p] = "inside"]
  /\ lookup' = [lookup EXCEPT ![p] = "running"]
  /\ refcnt' = [refcnt EXCEPT ![p] = @ + 2]
  /\ UNCHANGED <<src, answer, err, file, hold, reports, owing, late, linked,
                 refs>>

(* There is no memory for the lookup, whose count is taken back before the *)
(* call gives up its own.                                                  *)
ParsePathRefused(p) ==
  /\ call[p] = "none"
  /\ Frame(src[p]) /\ src[p].param = "path"
  /\ call' = [call EXCEPT ![p] = "over"]
  /\ Failed(p, "subreq failure")
  /\ Unref(p, (refcnt[p] + 2) - 1)
  /\ UNCHANGED <<src, lookup, answer, linked>>

(* upd_pathfind_with_dup returns into upd_proto_parse, which is done. *)
ParseReturns(p) ==
  /\ call[p] = "inside"
  /\ call' = [call EXCEPT ![p] = "over"]
  /\ Unref(p, refcnt[p])
  /\ UNCHANGED <<src, lookup, answer, err, file, hold, late, linked, refs>>

(* upd_pathfind_find_cb_ for the last term: the driver has named a file of *)
(* the directory, and the lookup is about to give its lock back.           *)
LookupAnswered(p) ==
  /\ lookup[p] = "running" /\ answer[p] = NoFile
  /\ \E f \in linked : answer' = [answer EXCEPT ![p] = f]
  /\ UNCHANGED <<src, call, lookup, refcnt, err, file, hold, reports, owing,
                 late, linked, refs>>

(* upd_proto_encoder_frame_file_pathfind_cb_: the lookup ends at the file  *)
(* it was given, whatever has become of it, or with terms left.            *)
LookupCb(p) ==
  /\ lookup[p] = "running"
  /\ lookup' = [lookup EXCEPT ![p] = "none"]
  /\ answer' = [answer EXCEPT ![p] = NoFile]
  /\ \/ answer[p] # NoFile /\ Found(p, answer[p])
     \/ answer[p] = NoFile /\ Failed(p, "file not found")
  /\ Unref(p, refcnt[p])
  /\ UNCHANGED <<src, call, linked>>

(* par->cb has returned: unref_ gives the references it had copied back. *)
Release(p) ==
  /\ p \in owing
  /\ owing' = owing \ {p}
  /\ hold' = [hold EXCEPT ![p] = [i \in Slots |-> NoFile]]
  /\ refs' = [f \in Files |->
                IF p \in late THEN refs[f]
                ELSE refs[f] - Cardinality({i \in Slots : hold[p][i] = f})]
  /\ UNCHANGED <<src, call, lookup, answer, refcnt, err, file, reports, late,
                 linked>>

(* Somebody removes a file, whose directory then lets go of it. *)
Unlink(f) ==
  /\ f \in linked
  /\ linked' = linked \ {f}
  /\ refs' = [refs EXCEPT ![f] = @ - 1]
  /\ UNCHANGED pvars

-----------------------------------------------------------------------------
Handler(p) == \/ ParseAtOnce(p) \/ ParsePath(p) \/ ParsePathRefused(p)
              \/ ParseReturns(p) \/ LookupAnswered(p) \/ LookupCb(p)
              \/ Release(p)

Next == (\E p \in Pars : Handler(p)) \/ (\E f \in Files : Unlink(f))

(* Calls return, and a path lookup that was started reports (PathFind). *)
Fairness == \A p \in Pars : /\ WF_vars(ParseReturns(p))
                            /\ WF_vars(LookupCb(p))
                            /\ WF_vars(Release(p))

Safety == Init /\ [][Next]_vars
Spec   == Safety /\ Fairness

-----------------------------------------------------------------------------
TypeOK ==
  /\ src \in [Pars -> Sources]
  /\ call \in [Pars -> {"none", "inside", "over"}]
  /\ lookup \in [Pars -> {"none", "running"}]
  /\ answer \in [Pars -> Files \cup {NoFile}]
  /\ refcnt \in [Pars -> Nat]
  /\ err \in [Pars -> {"none", "root must be a map", "invalid msg",
                       "unknown interface", "unknown command",
                       "invalid param", "subreq failure", "file not found"}]
  /\ file \in [Pars -> Files \cup {NoFile}]
  /\ hold \in [Pars -> [Slots -> Files \cup {NoFile}]]
  /\ reports \in [Pars -> Nat]
  /\ owing \subseteq Pars /\ late \subseteq Pars
  /\ linked \subseteq Files
  /\ refs \in [Files -> Nat]

(* The count is the number of activities under way that will touch the     *)
(* object, so it reaches 0 when, and only when, the last of them ends      *)
(* (proto.h:115, 189, 219-222, 286, 295).                                  *)
Activities(p) == (IF call[p] = "inside" THEN 1 ELSE 0)
                   + (IF lookup[p] = "running" THEN 1 ELSE 0)
RefcntIsActivities == \A p \in Pars : refcnt[p] = Activities(p)

(* par->cb is called once, after everything else, and the object, which    *)
(* the user frees there, is not touched any more; only the copy of the     *)
(* holds made before is used (proto.h:224-233).                            *)
ReportedOnceAtTheEnd ==
  \A p \in Pars :
    reports[p] = IF call[p] = "over" /\ lookup[p] = "none" THEN 1 ELSE 0
UntouchedAfterReport ==
  [][\A p \in Pars : reports[p] > 0 =>
       UNCHANGED <<call[p], lookup[p], refcnt[p], err[p], file[p],
                   reports[p]>>]_vars

(* The file of a message is alive for the whole of par->cb, even if it was *)
(* removed after the parser took its hold on it, with one exception: a     *)
(* lookup by path may have been given a file that was removed before that, *)
(* while it gave its lock back, and then the user gets a file that is gone *)
(* (proto.h:243-251, 305-306, 224-233, pathfind.h:172-176).                *)
RemovedBeforeHold(p) == p \in late /\ src[p].param = "path"
FileAliveForUser ==
  \A p \in owing :
    file[p] # NoFile => Alive(file[p]) \/ RemovedBeforeHold(p)

(* The references of the host's files are those of their directory and of  *)
(* the holds not yet released: none leaks and none is given back twice.    *)
Holders(f) == {h \in Pars \X Slots : hold[h[1]][h[2]] = f /\ h[1] \notin late}
NoLeakedReference ==
  \A f \in Files :
    refs[f] = Cardinality(Holders(f)) + (IF f \in linked THEN 1 ELSE 0)

(* The messages upd_proto_parse has no complaint about, said once more and *)
(* without the order in which it looks (proto.h:28-39, 117-186, 268-281,   *)
(* 332-347).                                                               *)
Wellformed(m) ==
  /\ m.map /\ m.fields
  /\ m.iface \in m.mask
  /\ m.cmd \in IF m.iface = "encoder" THEN Encoder ELSE Object
  /\ m.cmd = "frame" => m.param \in {"path", "id"}
  /\ m.cmd \in {"get", "set"} => m.param # "invalid"

(* What the user is told, whichever of a dozen returns the parser took: no *)
(* error for a message that is in order and for which the file it needs    *)
(* was found, an error for any other, and a file for nothing but a frame.  *)
(* So nobody is told neither or both (proto.h:120, 135, 153, 177, 186,     *)
(* 246-251, 269-306, 345).                                                 *)
VerdictComplete ==
  \A p \in Pars : reports[p] > 0 =>
    LET m     == src[p]
        frame == Wellformed(m) /\ m.cmd = "frame"
    IN  /\ err[p] = "none" <=> Wellformed(m) /\ (frame => file[p] # NoFile)
        /\ file[p] # NoFile => frame

(* Every parse that is started reports. *)
EveryParseReports ==
  \A p \in Pars : call[p] # "none" ~> reports[p] > 0 /\ p \notin owing
=============================================================================
