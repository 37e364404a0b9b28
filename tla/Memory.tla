------------------------------- MODULE Memory -------------------------------
(***************************************************************************)
(* upd_malloc, on which every container of the library rests.  A block is  *)
(* the sequence of its cells and NULL is the empty one: upd_malloc frees a *)
(* block resized to zero and allocates one that was NULL.  The C library   *)
(* decides whether it succeeds; a failed realloc leaves the block as it    *)
(* was, larger than the caller asked for when it was to shrink.            *)
(***************************************************************************)
EXTENDS Naturals, Sequences

CONSTANTS Junk,         \* what a cell holds that nobody has written yet
          GrowFails,    \* whether a larger block may be refused
          ShrinkFails   \* whether a smaller one, or one as large, may be

ASSUME MemoryAssumption == GrowFails \in BOOLEAN /\ ShrinkFails \in BOOLEAN

(* The block b resized to k cells: the cells it keeps, then unwritten ones. *)
Resized(b, k) == [j \in 1..k |-> IF j <= Len(b) THEN b[j] ELSE Junk]

(* Freeing never fails, and neither does asking nothing for a NULL block.  *)
MayFail(b, k) == /\ k > 0
                 /\ IF k > Len(b) THEN GrowFails ELSE ShrinkFails

(* What upd_malloc may answer, and the block it leaves.                    *)
Malloc(b, k) ==
  {[ok |-> TRUE, block |-> Resized(b, k)]}
    \cup {r \in {[ok |-> FALSE, block |-> b]} : MayFail(b, k)}

(* cnt cells moved from offset src to offset dst, as memmove counts them.  *)
Moved(b, dst, src, cnt) ==
  [j \in DOMAIN b |->
     IF dst < j /\ j <= dst + cnt THEN b[j - dst + src] ELSE b[j]]
=============================================================================
