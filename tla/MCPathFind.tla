----------------------------- MODULE MCPathFind -----------------------------
(***************************************************************************)
(* Instances of PathFind for TLC.  The tree starts as Root with a          *)
(* directory A under the name "a"; F1 and F2 are files that do not exist   *)
(* yet.                                                                    *)
(***************************************************************************)
EXTENDS PathFind, FiniteSets

CONSTANTS A, F1, F2, a, b

FileSet  == {Root, A, F1, F2}
NameSet  == {a, b}
LinkSet  == {<<Root, a, A>>}
NoShared == {}
Edited   == {Root, A}

CallOf(path, abs, from, create) ==
  [path |-> path, abs |-> abs, base |-> from, iso |-> TRUE, create |-> create]

(* Existing and missing terms, at the first and at the second place, with  *)
(* and without creation, from the root and from A, and the empty path.     *)
CleanCalls ==
  {CallOf(<<a>>, TRUE, NoFile, FALSE), CallOf(<<a, b>>, TRUE, A, FALSE),
   CallOf(<<a, b>>, FALSE, NoFile, TRUE), CallOf(<<b>>, FALSE, A, TRUE),
   CallOf(<<b, a>>, FALSE, Root, TRUE), CallOf(<<>>, FALSE, A, FALSE)}

FaultyCalls ==
  {CallOf(<<a, b>>, TRUE, NoFile, FALSE), CallOf(<<a, b>>, FALSE, NoFile, TRUE),
   CallOf(<<b>>, FALSE, A, TRUE), CallOf(<<>>, TRUE, A, FALSE)}

(* A caller that leaves iso out and gives a base, as upd_pathfind allows.  *)
NoIsoCalls ==
  {[path |-> <<p>>, abs |-> s, base |-> A, iso |-> FALSE, create |-> FALSE] :
     p \in {a, b}, s \in BOOLEAN}
=============================================================================
