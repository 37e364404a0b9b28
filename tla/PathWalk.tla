------------------------------ MODULE PathWalk ------------------------------
(***************************************************************************)
(* What a path lookup promises, without saying how it is carried out: a    *)
(* walk starts at some directory, moves along one link of the file tree    *)
(* per term of its path, may give up at any moment, and reports exactly    *)
(* once.  It knows nothing of locks, requests or callbacks; PathFind is    *)
(* shown to implement it.                                                  *)
(*                                                                         *)
(* links is the history of the tree: every <<directory, name, child>> that *)
(* was ever linked.  A link that has been removed stays in it, because a   *)
(* lookup is allowed to follow a link that has just been removed.          *)
(***************************************************************************)
EXTENDS Naturals, Sequences

CONSTANTS Walks,    \* the lookups
          Files,    \* every file there can ever be
          Names     \* the terms a path is made of

VARIABLES links,    \* every link ever made
          begun,    \* the lookups that have been called
          at,       \* where each lookup stands
          left,     \* the terms each lookup has still to follow
          reports   \* how often each lookup has reported to its caller

wvars == <<links, begun, at, left, reports>>

WalkInit ==
  /\ links \subseteq Files \X Names \X Files
  /\ begun = {}
  /\ reports = [w \in Walks |-> 0]

(* Where a lookup stands after a step: it reports when nothing is left to  *)
(* follow, and it may report early, which is how it gives up.              *)
Settle(w) ==
  \/ reports' = [reports EXCEPT ![w] = 1]
  \/ left'[w] # <<>> /\ UNCHANGED reports

Begin(w) ==
  /\ w \notin begun
  /\ begun' = begun \cup {w}
  /\ \E f \in Files : at' = [at EXCEPT ![w] = f]
  /\ UNCHANGED <<links, left>>
  /\ Settle(w)

Active(w) == w \in begun /\ reports[w] = 0

Hop(w) ==
  /\ Active(w)
  /\ left[w] # <<>>
  /\ \E f \in Files :
       /\ <<at[w], Head(left[w]), f>> \in links
       /\ at' = [at EXCEPT ![w] = f]
  /\ left' = [left EXCEPT ![w] = Tail(@)]
  /\ UNCHANGED <<links, begun>>
  /\ Settle(w)

GiveUp(w) ==
  /\ Active(w)
  /\ reports' = [reports EXCEPT ![w] = 1]
  /\ UNCHANGED <<links, begun, at, left>>

(* A lookup links a new directory only where it stands, under the name it  *)
(* is about to follow.                                                     *)
Link(w) ==
  /\ Active(w)
  /\ left[w] # <<>>
  /\ \E f \in Files :
       /\ \A l \in links : l[3] # f
       /\ links' = links \cup {<<at[w], Head(left[w]), f>>}
  /\ UNCHANGED <<begun, at, left, reports>>

WalkNext == \E w \in Walks : Begin(w) \/ Hop(w) \/ GiveUp(w) \/ Link(w)

WalkSafety == WalkInit /\ [][WalkNext]_wvars

(* Every lookup that is called reports. *)
WalkLiveness == \A w \in Walks : w \in begun ~> reports[w] = 1

WalkSpec == WalkSafety /\ WalkLiveness
=============================================================================
