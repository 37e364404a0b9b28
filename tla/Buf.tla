--------------------------------- MODULE Buf ---------------------------------
(***************************************************************************)
(* upd_buf_t: size bytes at the start of a block ptr, at most max of them  *)
(* unless max is zero.  A block that could not shrink stays larger.  The   *)
(* sum of two sizes is taken not to wrap: no object is that large.         *)
(***************************************************************************)
EXTENDS Memory, SequencesExt

CONSTANTS Chunks,   \* the byte strings users append
          MaxRoom,  \* bound on what they reserve or drop at a time
          MaxSize,  \* bound on the bytes of a buffer without a max
          Limits    \* the values users give to max

ASSUME BufAssumption ==
  /\ MaxRoom \in Nat /\ MaxSize \in Nat /\ Limits \subseteq Nat
  /\ \A c \in Chunks : c \in Seq(Nat)
  /\ Junk \notin Nat

VARIABLES max,      \* upd_buf_t.max
          size,     \* upd_buf_t.size
          ptr,      \* upd_buf_t.ptr, the block
          last      \* the last operation, the bytes it was for, and
                    \* whether it returned anything but NULL

vars == <<max, size, ptr, last>>

Done(op, n, ok) == last' = [op |-> op, n |-> n, ok |-> ok]

Init ==
  /\ max \in Limits
  /\ size = 0 /\ ptr = <<>>
  /\ last = [op |-> "clear", n |-> 0, ok |-> TRUE]

(* A bug: what is there already is not counted.                            *)
FullAlone(n) == max > 0 /\ max < n

Full(n) == max > 0 /\ max < size + n

(* upd_buf_append of n bytes: those of c, which is empty for a reservation *)
(* and leaves them as they are.  What it returns is NULL, too, when the    *)
(* block stays empty.                                                      *)
Grow(op, n, c) ==
  /\ UNCHANGED max
  /\ size + n <= MaxSize
  /\ \/ Full(n) /\ Done(op, n, FALSE) /\ UNCHANGED <<size, ptr>>
     \/ ~Full(n) /\ \E r \in Malloc(ptr, size + n) :
          IF r.ok THEN /\ size' = size + n
                       /\ ptr' = SubSeq(r.block, 1, size + n - Len(c)) \o c
                       /\ Done(op, n, ptr' # <<>>)
                  ELSE Done(op, n, FALSE) /\ UNCHANGED <<size, ptr>>

Append_(c) == Grow("append", Len(c), c)

Reserve(n) == Grow("reserve", n, <<>>)

AtMostSize(n) == IF n > size THEN size ELSE n

(* The block shrinks to n bytes, and stays as it is when it cannot.        *)
Shrink(b, n) == size' = n /\ \E r \in Malloc(b, n) : ptr' = r.block

DropTail(n) ==
  Shrink(ptr, size - AtMostSize(n)) /\ Done("drop_tail", n, TRUE) /\ UNCHANGED max

(* A bug: the bytes are dropped without the others having moved.           *)
DropHeadUnmoved(n) ==
  Shrink(ptr, size - AtMostSize(n)) /\ Done("drop_head", n, TRUE) /\ UNCHANGED max

DropHead(n) ==
  LET k == AtMostSize(n)
  IN /\ Shrink(Moved(ptr, 0, k, size - k), size - k)
     /\ Done("drop_head", n, TRUE) /\ UNCHANGED max

Clear == Shrink(ptr, 0) /\ Done("clear", 0, TRUE) /\ UNCHANGED max

Next ==
  \/ \E c \in Chunks : Append_(c)
  \/ \E n \in 0..MaxRoom : Reserve(n) \/ DropTail(n) \/ DropHead(n)
  \/ Clear

Spec == Init /\ [][Next]_vars
-----------------------------------------------------------------------------
(* The bytes lie within the block, and no more of them than max allows.    *)
TypeOK ==
  /\ max \in Limits /\ size \in Nat /\ ptr \in Seq(Nat \cup {Junk})
  /\ size <= Len(ptr)
  /\ max > 0 => size <= max
  /\ last.op \in {"append", "reserve", "drop_tail", "drop_head", "clear"}
  /\ last.n \in Nat /\ last.ok \in BOOLEAN

(* Whatever the allocator refuses, the buffer is a string of bytes.        *)
String == INSTANCE ByteString WITH bytes <- SubSeq(ptr, 1, size)
ImplementsString == String!StringSpec
=============================================================================
