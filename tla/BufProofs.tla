----------------------------- MODULE BufProofs -----------------------------
(***************************************************************************)
(* Proofs about Buf, for buffers of any size and any allocator.            *)
(***************************************************************************)
EXTENDS Buf, SequenceTheorems, TLAPS

Byte == Nat \cup {Junk}

bytes == SubSeq(ptr, 1, size)

-----------------------------------------------------------------------------
(* A function on 1..k is a sequence of length k.                           *)
LEMMA FunctionIsSeq ==
  ASSUME NEW S, NEW k \in Nat, NEW f \in [1..k -> S]
  PROVE  f \in Seq(S) /\ Len(f) = k
OBVIOUS

(* The first m cells as a sequence.                                        *)
LEMMA Prefix ==
  ASSUME NEW S, NEW q, NEW m \in Nat, \A j \in 1..m : q[j] \in S
  PROVE  /\ SubSeq(q, 1, m) \in Seq(S) /\ Len(SubSeq(q, 1, m)) = m
         /\ \A j \in 1..m : SubSeq(q, 1, m)[j] = q[j]
<1>1. 1 \in Int /\ m \in Int /\ m - 1 + 1 = m /\ \A j \in 1..m : 1 + j - 1 = j
  OBVIOUS
<1>2. /\ SubSeq(q, 1, m) \in Seq(S)
      /\ Len(SubSeq(q, 1, m)) = IF 1 <= m THEN m - 1 + 1 ELSE 0
      /\ \A i \in 1..m - 1 + 1 : SubSeq(q, 1, m)[i] = q[1 + i - 1]
  BY <1>1, SubSeqProperties
<1> QED
  BY <1>1, <1>2

(* Resized keeps the cells there are, as many as fit, and the rest is junk. *)
LEMMA ResizedCells ==
  ASSUME NEW S, Junk \in S, NEW b \in Seq(S), NEW k \in Nat
  PROVE  /\ Resized(b, k) \in Seq(S) /\ Len(Resized(b, k)) = k
         /\ \A j \in 1..k : j <= Len(b) => Resized(b, k)[j] = b[j]
<1>1. Len(b) \in Nat /\ \A j \in 1..Len(b) : b[j] \in S
  BY LenProperties
<1>2. \A j \in 1..k : (IF j <= Len(b) THEN b[j] ELSE Junk) \in S
  BY <1>1
<1>3. Resized(b, k) \in [1..k -> S]
  BY <1>2 DEF Resized
<1>4. \A j \in 1..k : j <= Len(b) => Resized(b, k)[j] = b[j]
  BY DEF Resized
<1> QED
  BY <1>3, <1>4, FunctionIsSeq

(* Moved, cell by cell: cnt cells from src on come to lie at dst.          *)
LEMMA MovedCells ==
  ASSUME NEW S, NEW b \in Seq(S), NEW dst \in Nat, NEW src \in Nat, NEW cnt \in Nat,
         src + cnt <= Len(b)
  PROVE  /\ Moved(b, dst, src, cnt) \in Seq(S)
         /\ Len(Moved(b, dst, src, cnt)) = Len(b)
         /\ \A j \in 1..Len(b) :
              Moved(b, dst, src, cnt)[j] =
                IF dst < j /\ j <= dst + cnt THEN b[j - dst + src] ELSE b[j]
<1>1. Len(b) \in Nat /\ DOMAIN b = 1..Len(b) /\ \A j \in 1..Len(b) : b[j] \in S
  BY LenProperties
<1>2. ASSUME NEW j \in 1..Len(b), dst < j, j <= dst + cnt
      PROVE  j - dst + src \in 1..Len(b)
  BY <1>1, <1>2
<1>3. Moved(b, dst, src, cnt) \in [1..Len(b) -> S]
  BY <1>1, <1>2 DEF Moved
<1> QED
  BY <1>1, <1>3, FunctionIsSeq DEF Moved

(* What upd_malloc may have done.                                          *)
LEMMA MallocOutcome ==
  ASSUME NEW b, NEW k, NEW r \in Malloc(b, k)
  PROVE  \/ r = [ok |-> TRUE, block |-> Resized(b, k)]
         \/ r = [ok |-> FALSE, block |-> b]
BY DEF Malloc

LEMMA BufFacts ==
  ASSUME TypeOK
  PROVE  /\ size \in Nat /\ Len(ptr) \in Nat /\ size <= Len(ptr)
         /\ ptr \in Seq(Byte) /\ \A j \in 1..Len(ptr) : ptr[j] \in Byte
BY LenProperties DEF TypeOK, Byte

LEMMA BytesCells ==
  ASSUME TypeOK
  PROVE  /\ bytes \in Seq(Byte) /\ Len(bytes) = size
         /\ \A j \in 1..size : bytes[j] = ptr[j]
<1>1. \A j \in 1..size : ptr[j] \in Byte
  BY BufFacts
<1> QED
  BY <1>1, BufFacts, Prefix DEF bytes

(* What dropping leaves: the first m bytes of a block b. *)
LEMMA ShrinkCells ==
  ASSUME NEW b \in Seq(Byte), NEW m \in 0..Len(b), Shrink(b, m)
  PROVE  /\ size' = m /\ ptr' \in Seq(Byte) /\ m <= Len(ptr')
         /\ bytes' = SubSeq(b, 1, m)
<1>1. PICK r \in Malloc(b, m) : size' = m /\ ptr' = r.block
  BY DEF Shrink
<1>2. m \in Nat /\ Len(b) \in Nat /\ \A j \in 1..m : b[j] \in Byte
  BY LenProperties
<1>3. CASE r = [ok |-> FALSE, block |-> b]
  BY <1>1, <1>2, <1>3 DEF bytes
<1>4. CASE r = [ok |-> TRUE, block |-> Resized(b, m)]
  <2>1. /\ ptr' \in Seq(Byte) /\ Len(ptr') = m
        /\ \A j \in 1..m : j <= Len(b) => ptr'[j] = b[j]
    BY <1>1, <1>2, <1>4, ResizedCells DEF Byte
  <2>2. \A j \in 1..m : ptr'[j] = b[j] /\ ptr'[j] \in Byte
    BY <1>2, <2>1
  <2>3. /\ SubSeq(ptr', 1, m) \in Seq(Byte) /\ Len(SubSeq(ptr', 1, m)) = m
        /\ \A j \in 1..m : SubSeq(ptr', 1, m)[j] = ptr'[j]
    BY <1>2, <2>2, Prefix
  <2>4. /\ SubSeq(b, 1, m) \in Seq(Byte) /\ Len(SubSeq(b, 1, m)) = m
        /\ \A j \in 1..m : SubSeq(b, 1, m)[j] = b[j]
    BY <1>2, Prefix
  <2>5. \A j \in 1..m : SubSeq(ptr', 1, m)[j] = SubSeq(b, 1, m)[j]
    BY <2>2, <2>3, <2>4
  <2>6. SubSeq(ptr', 1, m) = SubSeq(b, 1, m)
    BY <2>3, <2>4, <2>5, SeqEqual
  <2> QED
    BY <1>1, <1>2, <2>1, <2>6 DEF bytes
<1> QED
  BY <1>1, <1>3, <1>4, MallocOutcome

(* What growing leaves. *)
Refused(op, k) ==
  /\ UNCHANGED <<max, size, ptr>>
  /\ last' = [op |-> op, n |-> k, ok |-> FALSE]

Grown(op, k, c) ==
  /\ ~Full(k) /\ size' = size + k /\ max' = max
  /\ ptr' \in Seq(Byte) /\ Len(ptr') = size + k
  /\ \A j \in 1..size : ptr'[j] = ptr[j]
  /\ Len(c) = k => ptr' = bytes \o c
  /\ last' = [op |-> op, n |-> k, ok |-> ptr' # <<>>]

LEMMA GrowCells ==
  ASSUME TypeOK, NEW op, NEW k \in Nat, NEW c \in Seq(Nat), Len(c) <= k,
         Grow(op, k, c)
  PROVE  Refused(op, k) \/ Grown(op, k, c)
<1>1. CASE Full(k)
  BY <1>1 DEF Grow, Done, Refused
<1>2. CASE ~Full(k)
  <2> DEFINE m == size + (k - Len(c))
  <2>1. PICK r \in Malloc(ptr, size + k) :
          IF r.ok THEN /\ size' = size + k
                       /\ ptr' = SubSeq(r.block, 1, m) \o c
                       /\ last' = [op |-> op, n |-> k, ok |-> ptr' # <<>>]
                  ELSE /\ last' = [op |-> op, n |-> k, ok |-> FALSE]
                       /\ UNCHANGED <<size, ptr>>
    BY <1>2 DEF Grow, Done
  <2>2. max' = max
    BY DEF Grow
  <2>3. CASE r = [ok |-> FALSE, block |-> ptr]
    BY <2>1, <2>2, <2>3 DEF Refused
  <2>4. CASE r = [ok |-> TRUE, block |-> Resized(ptr, size + k)]
    <3> DEFINE b == Resized(ptr, size + k)
               a == SubSeq(b, 1, m)
    <3>1. /\ size' = size + k /\ ptr' = a \o c
          /\ last' = [op |-> op, n |-> k, ok |-> ptr' # <<>>]
      BY <2>1, <2>4
    <3>2. /\ b \in Seq(Byte) /\ Len(b) = size + k
          /\ \A j \in 1..size + k : j <= Len(ptr) => b[j] = ptr[j]
      <4>1. Junk \in Byte /\ size + k \in Nat /\ ptr \in Seq(Byte)
        BY BufFacts DEF Byte
      <4> QED
        BY <4>1, ResizedCells
    <3>3. Len(c) \in Nat /\ m \in Nat /\ m + Len(c) = size + k /\ size <= m
      BY BufFacts, LenProperties
    <3> HIDE DEF b, m
    <3>4. \A j \in 1..m : j \in 1..size + k /\ b[j] \in Byte
      BY <3>2, <3>3, BufFacts, LenProperties
    <3>5. a \in Seq(Byte) /\ Len(a) = m /\ \A j \in 1..m : a[j] = b[j]
      BY <3>3, <3>4, Prefix
    <3> HIDE DEF a
    <3>6. c \in Seq(Byte)
      BY DEF Byte
    <3>7. /\ a \o c \in Seq(Byte) /\ Len(a \o c) = m + Len(c)
          /\ \A j \in 1..m + Len(c) : j <= m => (a \o c)[j] = a[j]
      BY <3>5, <3>6, ConcatProperties
    <3>8. \A j \in 1..size : /\ j \in 1..m /\ j \in 1..m + Len(c)
                             /\ j \in 1..size + k /\ j <= Len(ptr)
      BY <3>3, BufFacts
    <3>9. \A j \in 1..size : (a \o c)[j] = ptr[j]
      BY <3>2, <3>5, <3>7, <3>8
    <3>10. ASSUME Len(c) = k PROVE a = bytes
      <4>1. m = size
        BY <3>10, <3>3, BufFacts DEF m
      <4>2. \A j \in 1..size : a[j] = bytes[j]
        BY <3>2, <3>5, <3>8, BytesCells
      <4> QED
        BY <4>1, <4>2, <3>5, BytesCells, SeqEqual
    <3> QED
      BY <1>2, <2>2, <3>1, <3>3, <3>7, <3>9, <3>10 DEF Grown
  <2> QED
    BY <2>1, <2>3, <2>4, MallocOutcome
<1> QED
  BY <1>1, <1>2

-----------------------------------------------------------------------------
(* Each operation keeps the bytes in the block and is one of a string.     *)
Keeps == TypeOK' /\ [String!StringNext]_<<bytes, last>>

LEMMA GrowKeeps ==
  ASSUME TypeOK, NEW op \in {"append", "reserve"}, NEW k \in Nat,
         NEW c \in Seq(Nat), Len(c) <= k, Grow(op, k, c)
  PROVE  TypeOK'
<1>1. CASE Refused(op, k)
  BY <1>1 DEF Refused, TypeOK
<1>2. CASE Grown(op, k, c)
  <2>1. max > 0 => size + k <= max
    BY <1>2, BufFacts, BufAssumption DEF Grown, Full, TypeOK
  <2>2. size' \in Nat /\ size' <= Len(ptr')
    BY <1>2, BufFacts DEF Grown
  <2>3. last'.op \in {"append", "reserve"} /\ last'.n \in Nat /\ last'.ok \in BOOLEAN
    BY <1>2 DEF Grown
  <2> QED
    BY <1>2, <2>1, <2>2, <2>3 DEF Grown, TypeOK, Byte
<1> QED
  BY <1>1, <1>2, GrowCells

LEMMA AppendIsString ==
  ASSUME TypeOK, NEW c \in Chunks, Append_(c) PROVE Keeps
<1>1. c \in Seq(Nat) /\ Len(c) \in Nat /\ Grow("append", Len(c), c)
  BY BufAssumption, LenProperties DEF Append_
<1>2. TypeOK'
  BY <1>1, GrowKeeps
<1>3. CASE Refused("append", Len(c))
  <2>1. bytes' = bytes
    BY <1>3 DEF Refused, bytes
  <2> QED
    BY <1>2, <1>3, <2>1
    DEF Refused, bytes, Keeps, String!StringNext, String!StringAppend, String!Done
<1>4. CASE Grown("append", Len(c), c)
  <2>0. /\ size' = size + Len(c)
        /\ ptr' = bytes \o c
        /\ last' = [op |-> "append", n |-> Len(c), ok |-> ptr' # <<>>]
    BY <1>4 DEF Grown
  <2>1. Len(bytes) = size /\ bytes \in Seq(Byte) /\ c \in Seq(Byte)
    BY <1>1, BytesCells DEF Byte
  <2>2. bytes \o c \in Seq(Byte) /\ Len(bytes \o c) = size + Len(c)
    BY <2>1, ConcatProperties
  <2>3. bytes' = bytes \o c
    BY <2>0, <2>2, SubSeqFull DEF bytes
  <2>4. CASE ptr' # <<>>
    <3>1. last' = [op |-> "append", n |-> Len(c), ok |-> TRUE]
      BY <2>0, <2>4
    <3> QED
      BY <1>2, <2>3, <3>1
      DEF bytes, Keeps, String!StringNext, String!StringAppend, String!Done
  <2>5. CASE ptr' = <<>>
    <3>1. last' = [op |-> "append", n |-> Len(c), ok |-> FALSE]
      BY <2>0, <2>5
    <3>2. size = 0
      BY <1>1, <2>0, <2>2, <2>5, BufFacts
    <3>3. bytes' = bytes
      BY <2>0, <2>1, <2>3, <2>5, <3>2, EmptySeq
    <3> QED
      BY <1>2, <3>1, <3>3
      DEF bytes, Keeps, String!StringNext, String!StringAppend, String!Done
  <2> QED
    BY <2>4, <2>5
<1> QED
  BY <1>1, <1>3, <1>4, GrowCells

LEMMA ReserveIsString ==
  ASSUME TypeOK, NEW k \in Nat, Reserve(k) PROVE Keeps
<1>1. <<>> \in Seq(Nat) /\ Len(<<>>) = 0 /\ Grow("reserve", k, <<>>)
  BY DEF Reserve
<1>2. TypeOK' /\ (Refused("reserve", k) \/ Grown("reserve", k, <<>>))
  <2>1. ASSUME NEW c, c \in Seq(Nat), Len(c) = 0, Grow("reserve", k, c)
        PROVE  TypeOK' /\ (Refused("reserve", k) \/ Grown("reserve", k, c))
    <3>1. Len(c) <= k
      BY <2>1
    <3>2. TypeOK'
      BY <2>1, <3>1, GrowKeeps
    <3> QED
      BY <2>1, <3>1, <3>2, GrowCells
  <2> QED
    BY <1>1, <2>1, Zenon
<1>3. CASE Refused("reserve", k)
  <2>1. bytes' = bytes /\ last'.n = k
    BY <1>3 DEF Refused, bytes
  <2> QED
    BY <1>2, <1>3, <2>1
    DEF Refused, bytes, Keeps, String!StringNext, String!StringReserve, String!Done
<1>4. CASE Grown("reserve", k, <<>>)
  <2>0. /\ size' = size + k
        /\ ptr' \in Seq(Byte) /\ Len(ptr') = size + k
        /\ \A j \in 1..size : ptr'[j] = ptr[j]
        /\ last' = [op |-> "reserve", n |-> k, ok |-> ptr' # <<>>]
    BY <1>4 DEF Grown
  <2>1. bytes' = ptr' /\ last'.n = k
    BY <2>0, SubSeqFull DEF bytes
  <2>2. CASE ptr' # <<>>
    <3>1. last' = [op |-> "reserve", n |-> k, ok |-> TRUE]
      BY <2>0, <2>2
    <3>2. Len(bytes) = size /\ Len(bytes') = size + k /\ size <= size + k
      BY <2>0, <2>1, BytesCells, BufFacts
    <3>3. SubSeq(bytes, 1, size) = SubSeq(bytes', 1, size)
      <4>1. \A j \in 1..size : /\ bytes[j] \in Byte /\ ptr'[j] = bytes[j]
                               /\ ptr'[j] \in Byte
        BY <2>0, BytesCells, BufFacts
      <4>2. /\ SubSeq(bytes, 1, size) \in Seq(Byte)
            /\ Len(SubSeq(bytes, 1, size)) = size
            /\ \A j \in 1..size : SubSeq(bytes, 1, size)[j] = bytes[j]
        BY <4>1, BufFacts, Prefix
      <4>3. /\ SubSeq(ptr', 1, size) \in Seq(Byte)
            /\ Len(SubSeq(ptr', 1, size)) = size
            /\ \A j \in 1..size : SubSeq(ptr', 1, size)[j] = ptr'[j]
        BY <4>1, BufFacts, Prefix
      <4>4. \A j \in 1..size : SubSeq(bytes, 1, size)[j] = SubSeq(ptr', 1, size)[j]
        BY <4>1, <4>2, <4>3
      <4> QED
        BY <2>1, <4>2, <4>3, <4>4, SeqEqual
    <3>4. String!IsPrefix(bytes, bytes') /\ Len(bytes') = Len(bytes) + k
      BY <3>2, <3>3 DEF String!IsPrefix
    <3> QED
      BY <1>2, <2>1, <3>1, <3>4
      DEF bytes, Keeps, String!StringNext, String!StringReserve, String!Done
  <2>3. CASE ptr' = <<>>
    <3>1. last' = [op |-> "reserve", n |-> k, ok |-> FALSE]
      BY <2>0, <2>3
    <3>2. size = 0
      BY <2>0, <2>3, BufFacts, EmptySeq
    <3>3. bytes' = bytes
      BY <2>1, <2>3, <3>2, BytesCells, EmptySeq
    <3> QED
      BY <1>2, <2>1, <3>1, <3>3
      DEF bytes, Keeps, String!StringNext, String!StringReserve, String!Done
  <2> QED
    BY <2>2, <2>3
<1> QED
  BY <1>2, <1>3, <1>4

LEMMA DropFacts ==
  ASSUME TypeOK, NEW k \in Nat
  PROVE  /\ AtMostSize(k) \in 0..size /\ size - AtMostSize(k) \in 0..size
         /\ String!Drops(k) = AtMostSize(k)
BY BufFacts, BytesCells DEF AtMostSize, String!Drops, bytes

(* A shorter buffer is as well typed. *)
LEMMA ShorterKeeps ==
  ASSUME TypeOK, size' \in 0..size, ptr' \in Seq(Byte), size' <= Len(ptr'),
         max' = max, NEW op \in {"drop_tail", "drop_head", "clear"}, NEW k \in Nat,
         last' = [op |-> op, n |-> k, ok |-> TRUE]
  PROVE  TypeOK'
<1>1. max > 0 => size' <= max
  BY BufFacts, BufAssumption DEF TypeOK
<1> QED
  BY <1>1, BufFacts DEF TypeOK, Byte

LEMMA DropTailIsString ==
  ASSUME TypeOK, NEW k \in Nat, DropTail(k) PROVE Keeps
<1> DEFINE m == size - AtMostSize(k)
<1>1. /\ Shrink(ptr, m) /\ max' = max
      /\ last' = [op |-> "drop_tail", n |-> k, ok |-> TRUE]
  BY DEF DropTail, Done
<1>2. m \in 0..size /\ m \in 0..Len(ptr) /\ ptr \in Seq(Byte)
  BY BufFacts, DropFacts
<1>3. /\ Len(bytes) = size /\ String!Drops(k) = AtMostSize(k) /\ last'.n = k
  BY <1>1, BytesCells, DropFacts
<1> HIDE DEF m
<1>4. /\ size' = m /\ ptr' \in Seq(Byte) /\ m <= Len(ptr')
      /\ bytes' = SubSeq(ptr, 1, m)
  BY <1>1, <1>2, ShrinkCells
<1>5. TypeOK'
  BY <1>1, <1>2, <1>4, ShorterKeeps
<1>6. SubSeq(ptr, 1, m) = SubSeq(bytes, 1, m)
  <2>1. m \in Nat /\ \A j \in 1..m : /\ j \in 1..size /\ bytes[j] = ptr[j]
                                     /\ bytes[j] \in Byte /\ ptr[j] \in Byte
    BY <1>2, BufFacts, BytesCells
  <2>2. /\ SubSeq(bytes, 1, m) \in Seq(Byte) /\ Len(SubSeq(bytes, 1, m)) = m
        /\ \A j \in 1..m : SubSeq(bytes, 1, m)[j] = bytes[j]
    BY <2>1, Prefix
  <2>3. /\ SubSeq(ptr, 1, m) \in Seq(Byte) /\ Len(SubSeq(ptr, 1, m)) = m
        /\ \A j \in 1..m : SubSeq(ptr, 1, m)[j] = ptr[j]
    BY <2>1, Prefix
  <2>4. \A j \in 1..m : SubSeq(ptr, 1, m)[j] = SubSeq(bytes, 1, m)[j]
    BY <2>1, <2>2, <2>3
  <2> QED
    BY <2>2, <2>3, <2>4, SeqEqual
<1>7. bytes' = SubSeq(bytes, 1, Len(bytes) - String!Drops(k))
  BY <1>3, <1>4, <1>6, Zenon DEF m
<1> QED
  BY <1>1, <1>3, <1>5, <1>7
  DEF bytes, Keeps, String!StringNext, String!StringDrop, String!Done

LEMMA DropHeadIsString ==
  ASSUME TypeOK, NEW k \in Nat, DropHead(k) PROVE Keeps
<1> DEFINE h == AtMostSize(k)
           m == size - h
           b == Moved(ptr, 0, h, m)
<1>1. /\ Shrink(b, m) /\ max' = max
      /\ last' = [op |-> "drop_head", n |-> k, ok |-> TRUE]
  BY DEF DropHead, Done
<1>2. h \in 0..size /\ m \in 0..size /\ h + m = size /\ size <= Len(ptr)
  BY BufFacts, DropFacts
<1>3. Len(bytes) = size /\ String!Drops(k) = h /\ last'.n = k
  BY <1>1, BytesCells, DropFacts
<1> HIDE DEF h, m
<1>4. /\ b \in Seq(Byte) /\ Len(b) = Len(ptr)
      /\ \A j \in 1..m : b[j] = ptr[j + h]
  <2>1. h \in Nat /\ m \in Nat /\ 0 \in Nat /\ h + m <= Len(ptr) /\ ptr \in Seq(Byte)
    BY <1>2, BufFacts
  <2>2. /\ b \in Seq(Byte) /\ Len(b) = Len(ptr)
        /\ \A j \in 1..Len(ptr) :
             b[j] = IF 0 < j /\ j <= 0 + m THEN ptr[j - 0 + h] ELSE ptr[j]
    BY <2>1, MovedCells
  <2>3. \A j \in 1..m : j \in 1..Len(ptr) /\ 0 < j /\ j <= 0 + m /\ j - 0 + h = j + h
    BY <1>2, BufFacts
  <2> QED
    BY <2>2, <2>3
<1>5. m \in 0..Len(b)
  BY <1>2, <1>4, BufFacts
<1> HIDE DEF b
<1>6. /\ size' = m /\ ptr' \in Seq(Byte) /\ m <= Len(ptr')
      /\ bytes' = SubSeq(b, 1, m)
  BY <1>1, <1>4, <1>5, ShrinkCells
<1>7. TypeOK'
  BY <1>1, <1>2, <1>6, ShorterKeeps
<1>8. SubSeq(b, 1, m) = SubSeq(bytes, h + 1, size)
  <2>1. m \in Nat /\ \A j \in 1..m : b[j] \in Byte
    BY <1>2, <1>4, <1>5, LenProperties
  <2>2. /\ SubSeq(b, 1, m) \in Seq(Byte) /\ Len(SubSeq(b, 1, m)) = m
        /\ \A j \in 1..m : SubSeq(b, 1, m)[j] = b[j]
    BY <2>1, Prefix
  <2>3. h + 1 \in Int /\ size \in Int /\ \A i \in h + 1..size : bytes[i] \in Byte
    BY <1>2, BufFacts, BytesCells
  <2>4. /\ SubSeq(bytes, h + 1, size) \in Seq(Byte)
        /\ Len(SubSeq(bytes, h + 1, size))
             = IF h + 1 <= size THEN size - (h + 1) + 1 ELSE 0
        /\ \A i \in 1..size - (h + 1) + 1 :
             SubSeq(bytes, h + 1, size)[i] = bytes[(h + 1) + i - 1]
    BY <2>3, SubSeqProperties
  <2>5. /\ m = size - (h + 1) + 1
        /\ (IF h + 1 <= size THEN size - (h + 1) + 1 ELSE 0) = m
    BY <1>2, BufFacts
  <2>6. \A i \in 1..m : /\ (h + 1) + i - 1 = i + h
                        /\ i + h \in 1..size /\ bytes[i + h] = ptr[i + h]
    BY <1>2, BufFacts, BytesCells
  <2>7. \A i \in 1..m : SubSeq(b, 1, m)[i] = SubSeq(bytes, h + 1, size)[i]
    BY <1>4, <2>2, <2>4, <2>5, <2>6
  <2>8. Len(SubSeq(bytes, h + 1, size)) = m
    BY <2>4, <2>5
  <2> QED
    BY <2>2, <2>4, <2>7, <2>8, SeqEqual
<1>9. bytes' = SubSeq(bytes, String!Drops(k) + 1, Len(bytes))
  BY <1>3, <1>6, <1>8, Zenon
<1> QED
  BY <1>1, <1>3, <1>7, <1>9
  DEF bytes, Keeps, String!StringNext, String!StringDrop, String!Done

LEMMA ClearIsString ==
  ASSUME TypeOK, Clear PROVE Keeps
<1>1. /\ Shrink(ptr, 0) /\ max' = max
      /\ last' = [op |-> "clear", n |-> 0, ok |-> TRUE]
  BY DEF Clear, Done
<1>2. 0 \in 0..size /\ 0 \in 0..Len(ptr) /\ ptr \in Seq(Byte)
  BY BufFacts
<1>3. /\ size' = 0 /\ ptr' \in Seq(Byte) /\ 0 <= Len(ptr')
      /\ bytes' = SubSeq(ptr, 1, 0)
  BY <1>1, <1>2, ShrinkCells
<1>4. TypeOK'
  BY <1>1, <1>2, <1>3, ShorterKeeps
<1>5. bytes' = <<>>
  BY <1>3, SubSeqEmpty
<1> QED
  BY <1>1, <1>4, <1>5
  DEF bytes, Keeps, String!StringNext, String!StringClear, String!Done

-----------------------------------------------------------------------------
LEMMA NextKeeps ==
  ASSUME TypeOK, [Next]_vars PROVE Keeps
<1>1. CASE UNCHANGED vars
  BY <1>1 DEF vars, TypeOK, Keeps, bytes
<1>2. CASE \E c \in Chunks : Append_(c)
  BY <1>2, AppendIsString
<1>3. CASE \E k \in 0..MaxRoom : Reserve(k) \/ DropTail(k) \/ DropHead(k)
  <2>1. \A k \in 0..MaxRoom : k \in Nat
    BY BufAssumption
  <2> QED
    BY <1>3, <2>1, ReserveIsString, DropTailIsString, DropHeadIsString
<1>4. CASE Clear
  BY <1>4, ClearIsString
<1> QED
  BY <1>1, <1>2, <1>3, <1>4 DEF Next

(* The bytes of a buffer are in its block, and max bounds them, whatever   *)
(* its users do and the allocator refuses (buf.h:22-69).                   *)
THEOREM TypeCorrect == Spec => []TypeOK
<1>1. Init => TypeOK
  BY BufAssumption DEF Init, TypeOK
<1>2. TypeOK /\ [Next]_vars => TypeOK'
  BY NextKeeps DEF Keeps
<1> QED
  BY <1>1, <1>2, PTL DEF Spec

(* A buffer is a string of bytes that grows by all it is given or by       *)
(* nothing and is dropped from either end (buf.h:22-69).                   *)
THEOREM ImplementsStringHolds == Spec => ImplementsString
<1>1. Init => String!StringInit
  <2>1. Init => SubSeq(ptr, 1, size) = <<>>
    BY SubSeqEmpty DEF Init
  <2> QED
    BY <2>1 DEF Init, String!StringInit
<1>2. TypeOK /\ [Next]_vars => [String!StringNext]_<<bytes, last>>
  BY NextKeeps DEF Keeps
<1> QED
  BY <1>1, <1>2, TypeCorrect, PTL
  DEF Spec, ImplementsString, String!StringSpec, bytes
=============================================================================
