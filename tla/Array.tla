-------------------------------- MODULE Array --------------------------------
(***************************************************************************)
(* upd_array_t: n pointers at the start of a block p.  The block has n     *)
(* cells, or more after a failed shrink, which upd_array_remove ignores.   *)
(* Offsets count from zero, as in C; a cell at offset j is p[j + 1].       *)
(***************************************************************************)
EXTENDS Memory, FiniteSetsExt

CONSTANTS Ptr,      \* the pointers users store
          NULL,     \* the null pointer
          MaxN      \* bound on the elements

ASSUME ArrayAssumption ==
  /\ MaxN \in Nat
  /\ Junk \notin Ptr \cup {NULL}
  /\ NULL \notin Ptr

VARIABLES n,        \* upd_array_t.n
          p,        \* upd_array_t.p, the block
          last      \* the last operation, what it returned and what it gave

vars == <<n, p, last>>

Done(op, ok, got) == last' = [op |-> op, ok |-> ok, got |-> got]

(* Offsets at which x is found; upd_array_find gives the first.            *)
Found(x) == {j \in 0..n-1 : p[j + 1] = x}

(* A bug: the new cells are not set to NULL.                               *)
FilledNot(r, k) == r.block

(* The block r of a successful upd_malloc for k elements, new ones NULL.   *)
Filled(r, k) == [j \in 1..k |-> IF j > n THEN NULL ELSE r.block[j]]

-----------------------------------------------------------------------------
Init == n = 0 /\ p = <<>> /\ last = [op |-> "init", ok |-> TRUE, got |-> NULL]

Resize(k) ==
  \E r \in Malloc(p, k) :
    /\ IF r.ok THEN n' = k /\ p' = Filled(r, k) ELSE UNCHANGED <<n, p>>
    /\ Done("resize", r.ok, NULL)

(* A bug: the move counts one cell too few.                                *)
InsertMovesLess(x, at) ==
  /\ n < MaxN
  /\ \E r \in Malloc(p, n + 1) :
       LET i == Min({at, n})
           moved == Moved(Filled(r, n + 1), i + 1, i, n - i - 1)
       IN /\ IF r.ok
               THEN n' = n + 1 /\ p' = [moved EXCEPT ![i + 1] = x]
               ELSE UNCHANGED <<n, p>>
          /\ Done("insert", r.ok, NULL)

(* upd_array_insert: past the end means at the end.                        *)
Insert(x, at) ==
  /\ n < MaxN
  /\ \E r \in Malloc(p, n + 1) :
       LET i == Min({at, n})
           moved == Moved(Filled(r, n + 1), i + 1, i, n - i)
       IN /\ IF r.ok
               THEN n' = n + 1 /\ p' = [moved EXCEPT ![i + 1] = x]
               ELSE UNCHANGED <<n, p>>
          /\ Done("insert", r.ok, NULL)

(* A bug: the block shrinks without the cells having moved.                *)
CloseUnmoved(i) ==
  \E r \in Malloc(p, n - 1) :
    IF r.ok THEN n' = n - 1 /\ p' = Filled(r, n - 1)
            ELSE UNCHANGED <<n, p>>

(* The cells after offset i move down one, then the block shrinks.  When   *)
(* it cannot, n stays and the last cell is there twice.                    *)
Close(i) ==
  LET moved == Moved(p, i, i + 1, n - i - 1)
  IN \E r \in Malloc(moved, n - 1) :
       IF r.ok THEN n' = n - 1 /\ p' = Filled(r, n - 1)
               ELSE p' = moved /\ UNCHANGED n

(* upd_array_remove: past the end means the last.                          *)
Remove(at) ==
  IF n = 0 THEN Done("remove", FALSE, NULL) /\ UNCHANGED <<n, p>>
  ELSE LET i == Min({at, n - 1})
       IN Close(i) /\ Done("remove", TRUE, p[i + 1])

FindAndRemove(x) ==
  IF Found(x) = {} THEN Done("take", FALSE, NULL) /\ UNCHANGED <<n, p>>
  ELSE Close(Min(Found(x))) /\ Done("take", TRUE, x)

Next ==
  \/ \E k \in 0..MaxN : Resize(k)
  \/ \E x \in Ptr \cup {NULL}, at \in 0..MaxN : Insert(x, at)
  \/ \E at \in 0..MaxN : Remove(at)
  \/ \E x \in Ptr \cup {NULL} : FindAndRemove(x)

Spec == Init /\ [][Next]_vars
-----------------------------------------------------------------------------
(* The elements are cells of the block, and every one has been written:    *)
(* upd_array_find compares them all.                                       *)
TypeOK ==
  /\ n \in 0..MaxN /\ n <= Len(p)
  /\ \A j \in 1..n : p[j] \in Ptr \cup {NULL}
  /\ last.op \in {"init", "resize", "insert", "remove", "take"}
  /\ last.ok \in BOOLEAN /\ last.got \in Ptr \cup {NULL}

(* A removal whose block could not shrink: it succeeds and n stays.        *)
Stuck == last'.op \in {"remove", "take"} /\ last'.ok /\ n' = n

(* Every other step is one of a list: moving the cells by offset and count *)
(* keeps their order, and an operation that fails changes nothing.         *)
List == INSTANCE PtrList WITH list <- SubSeq(p, 1, n)
ListUnlessStuck ==
  List!ListInit /\ [][Stuck \/ List!ListNext]_vars

Elements == {p[j] : j \in 1..n}

(* A removal takes out at most the pointer it gives back, also when the    *)
(* block cannot shrink and n stays as it was.                              *)
NothingLost ==
  [][last'.op \in {"remove", "take"} => Elements \ {last'.got} \subseteq Elements']_vars
=============================================================================
