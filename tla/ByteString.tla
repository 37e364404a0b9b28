----------------------------- MODULE ByteString -----------------------------
(***************************************************************************)
(* What upd_buf_t promises: a string of bytes that grows at its end, by    *)
(* all of what is given or by nothing, and is dropped from either end.     *)
(***************************************************************************)
EXTENDS Naturals, SequencesExt

CONSTANTS Chunks    \* the byte strings users append

VARIABLES bytes,    \* the string
          last      \* the last operation, the bytes it was for, its success

Done(op, n, ok) == last' = [op |-> op, n |-> n, ok |-> ok]

Drops(n) == IF n > Len(bytes) THEN Len(bytes) ELSE n

StringInit == bytes = <<>> /\ last = [op |-> "clear", n |-> 0, ok |-> TRUE]

StringAppend ==
  \E c \in Chunks :
    \/ bytes' = bytes \o c /\ Done("append", Len(c), TRUE)
    \/ UNCHANGED bytes /\ Done("append", Len(c), FALSE)

(* Room for n bytes at the end, of which nothing else is said.             *)
StringReserve(n) ==
  \/ /\ IsPrefix(bytes, bytes') /\ Len(bytes') = Len(bytes) + n
     /\ Done("reserve", n, TRUE)
  \/ UNCHANGED bytes /\ Done("reserve", n, FALSE)

StringDrop(n) ==
  \/ /\ bytes' = SubSeq(bytes, 1, Len(bytes) - Drops(n))
     /\ Done("drop_tail", n, TRUE)
  \/ /\ bytes' = SubSeq(bytes, Drops(n) + 1, Len(bytes))
     /\ Done("drop_head", n, TRUE)

StringClear == bytes' = <<>> /\ Done("clear", 0, TRUE)

StringNext ==
  StringAppend \/ StringReserve(last'.n) \/ StringDrop(last'.n) \/ StringClear

StringSpec == StringInit /\ [][StringNext]_<<bytes, last>>
=============================================================================
