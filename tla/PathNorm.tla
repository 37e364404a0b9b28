------------------------------ MODULE PathNorm ------------------------------
(***************************************************************************)
(* upd_path_normalize: the path is rewritten in place.  Repeated slashes   *)
(* go first; then l walks from the end to the start, and every term found  *)
(* between l and r is kept, or taken out by moving what follows it down,   *)
(* or, being "..", takes out one term further left: up counts those that   *)
(* are still owed.  What is owed at the start comes back as "../".         *)
(*                                                                         *)
(* Pointers are offsets from the start of the path, counted from zero; the *)
(* byte at offset i is buf[i + 1].                                         *)
(***************************************************************************)
EXTENDS Integers, SequencesExt

CONSTANTS MaxLen,   \* bound on the length of a path
          Tame      \* only paths whose last term, without a slash after
                    \* it, is neither "." nor ".."

ASSUME PathAssumption == MaxLen \in Nat /\ Tame \in BOOLEAN

VARIABLES given,    \* the path as it was given
          buf,      \* its bytes now
          pc,       \* what comes next: dedup, scan, done, or wild
          l, r,     \* start and end of the term looked at
          tail,     \* end of the path
          up,       \* terms that ".." still has to take out
          len       \* the length returned

vars == <<given, buf, pc, l, r, tail, up, len>>

Up == <<".", ".">>
Here == <<".">>
NameBytes == {".", "a"}             \* UPD_PATH_NAME_VALID_CHARS
Bytes == NameBytes \cup {"/", "?"}  \* "?": any byte no name may have

(* upd_path_drop_trailing_slash                                            *)
DropTrailingSlash(path) == SelectLastInSeq(path, LAMBDA c : c # "/")

(* upd_path_dirname: the length of the path up to its last term.           *)
Dirname(path) ==
  SelectLastInSubSeq(path, 1, DropTrailingSlash(path), LAMBDA c : c = "/")

LastTerm(path) == SubSeq(path, Dirname(path) + 1, Len(path))

(* A bug: the bytes of a name are not looked at.                           *)
ValidateNameDots(name) == name # <<>> /\ name \notin {Up, Here}

(* A bug: "." and ".." are names like any other.                           *)
ValidateNameBytes(name) ==
  name # <<>> /\ \A i \in DOMAIN name : name[i] \in NameBytes

(* upd_path_validate_name.                                                 *)
ValidateName(name) ==
  /\ name # <<>>
  /\ \A i \in DOMAIN name : name[i] \in NameBytes
  /\ name \notin {Up, Here}

(* What is written after each byte that is read, and at the end: a slash   *)
(* after a slash is not.                                                   *)
Written(path) ==
  LET out[i \in 0..Len(path)] ==
        IF i = 0 THEN <<>>
        ELSE IF path[i] = "/" /\ out[i - 1] # <<>> /\ Last(out[i - 1]) = "/"
               THEN out[i - 1] ELSE Append(out[i - 1], path[i])
  IN out

WithoutRepeats(path) == Written(path)[Len(path)]

(* Terms with a slash after each.                                          *)
Slashed(terms) == FlattenSeq([i \in DOMAIN terms |-> terms[i] \o <<"/">>])

(* new written over the first bytes of old.                                *)
Over(new, old) == new \o SubSeq(old, Len(new) + 1, Len(old))

-----------------------------------------------------------------------------
Init ==
  /\ given \in BoundedSeq(Bytes, MaxLen)
  /\ Tame => LastTerm(given) \notin {Up, Here}
  /\ buf = given
  /\ pc = "dedup"
  /\ l = 0 /\ r = 0 /\ tail = 0 /\ up = 0 /\ len = 0

Return(n) == pc' = "done" /\ len' = n

Dedup ==
  /\ pc = "dedup"
  /\ UNCHANGED <<given, up>>
  /\ LET s == WithoutRepeats(given)
     IN IF given = <<>> THEN Return(0) /\ UNCHANGED <<buf, l, r, tail>>
        ELSE /\ buf' = Over(s, given)
             /\ tail' = Len(s)
             /\ r' = DropTrailingSlash(s)
             /\ l' = r' - 1
             /\ pc' = "scan" /\ UNCHANGED len

AtStart == l = 0 \/ buf[l] = "/"
Term == SubSeq(buf, l + 1, r)

(* Whether the term at l is taken out, and what ".." owes after it.        *)
Skip == Term \in {Up, Here} \/ up > 0

(* A bug: a "." pays for a "..".                                           *)
OwedByHere == IF Term = Up THEN up + 1 ELSE IF up > 0 THEN up - 1 ELSE 0

Owed == CASE Term = Up -> up + 1
          [] Term = Here -> up
          [] OTHER -> IF up > 0 THEN up - 1 ELSE 0

(* A bug: the slash after the term is not counted.                         *)
TakeOutTermOnly ==
  IF tail - r - 1 < 0 THEN pc' = "wild" /\ UNCHANGED <<buf, tail>>
  ELSE /\ buf' = Over(SubSeq(buf, 1, l) \o SubSeq(buf, r + 2, tail), buf)
       /\ tail' = tail - (r - l)
       /\ UNCHANGED pc

(* What follows the term and its slash moves down onto it.  The count is   *)
(* unsigned: when no slash follows the term it is -1, and the copy runs    *)
(* over whatever memory there is.                                          *)
TakeOut ==
  IF tail - r - 1 < 0 THEN pc' = "wild" /\ UNCHANGED <<buf, tail>>
  ELSE /\ buf' = Over(SubSeq(buf, 1, l) \o SubSeq(buf, r + 2, tail), buf)
       /\ tail' = tail - (r - l + 1)
       /\ UNCHANGED pc

Scan ==
  /\ pc = "scan" /\ l >= 0
  /\ l' = l - 1
  /\ r' = IF AtStart THEN l - 1 ELSE r
  /\ IF AtStart /\ r > l
       THEN up' = Owed /\ IF Skip THEN TakeOut ELSE UNCHANGED <<buf, tail, pc>>
       ELSE UNCHANGED <<up, buf, tail, pc>>
  /\ UNCHANGED <<given, len>>

(* An absolute path cannot lead above the root.                            *)
Recover ==
  /\ pc = "scan" /\ l < 0
  /\ UNCHANGED <<given, l, r, tail, up>>
  /\ IF tail > 0 /\ buf[1] = "/" /\ up > 0
       THEN Return(0) /\ UNCHANGED buf
       ELSE LET ups == Slashed([i \in 1..up |-> Up])
            IN /\ buf' = Over(ups \o SubSeq(buf, 1, tail), buf)
               /\ Return(tail + 3 * up)

Next == Dedup \/ Scan \/ Recover
Spec == Init /\ [][Next]_vars
-----------------------------------------------------------------------------
(* A path read from left to right, its terms stacked: "." adds nothing and *)
(* ".." takes the term on top, unless there is none but other ".."s.       *)
Stacked(stack, term) ==
  CASE term \in {<<>>, Here} -> stack
    [] term = Up /\ stack # <<>> /\ Last(stack) # Up -> Front(stack)
    [] OTHER -> Append(stack, term)

(* The stack, and the term under way, after each byte that is read.        *)
Read(at, c) ==
  IF c = "/" THEN [stack |-> Stacked(at.stack, at.now), now |-> <<>>]
             ELSE [stack |-> at.stack, now |-> Append(at.now, c)]

Reading(path) ==
  LET at[i \in 0..Len(path)] ==
        IF i = 0 THEN [stack |-> <<>>, now |-> <<>>] ELSE Read(at[i - 1], path[i])
  IN at

Terms(path) ==
  LET end == Reading(path)[Len(path)] IN Stacked(end.stack, end.now)

Absolute(path) == path # <<>> /\ path[1] = "/"

(* The normal form: the terms left, a slash between and around them where  *)
(* the path had one, and nothing for a path above the root.                *)
Normal(path) ==
  LET terms == Terms(path)
      body == Slashed(terms)
      keep == IF body = <<>> \/ path[Len(path)] = "/" THEN body ELSE Front(body)
  IN IF ~Absolute(path) THEN keep
     ELSE IF terms # <<>> /\ terms[1] = Up THEN <<>> ELSE <<"/">> \o keep

(* Scanning backwards with a counter gives what reading forwards with a    *)
(* stack does.                                                             *)
Normalized == pc = "done" => SubSeq(buf, 1, len) = Normal(given)

(* A path without the slash behind its last term.                          *)
Unslashed(path) ==
  IF path # <<>> /\ Last(path) = "/" THEN Front(path) ELSE path

(* A name is valid only if a path of it alone, with a slash behind it or   *)
(* without, stays as it is and has no other term, so whatever is added to  *)
(* a directory under a valid name can be found by it (path.h:122-138,      *)
(* 79-100).                                                                *)
ValidNamesArePaths ==
  pc = "done" /\ ValidateName(Unslashed(given)) =>
    SubSeq(buf, 1, len) = given /\ Terms(given) = <<Unslashed(given)>>

(* Every ".." that is owed has made the room it will need: nothing is      *)
(* written past the length that was given (test.c:183, "canary check").    *)
RoomForUps == pc # "wild" /\ tail + 3 * up <= Len(given) /\ Len(buf) = Len(given)

(* The same claim for a path of any kind.                                  *)
StaysInside == pc # "wild"
=============================================================================
