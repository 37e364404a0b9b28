------------------------------- MODULE Tensor -------------------------------
(***************************************************************************)
(* libupd/tensor.h: how many numbers a tensor has, and how many of them    *)
(* the conversions to 16 bits convert, whose loops are unrolled: a pass    *)
(* converts Unroll numbers, and the switch enters the first of them late.  *)
(***************************************************************************)
EXTENDS Naturals, Sequences

CONSTANTS SizeMax,  \* SIZE_MAX
          Unroll    \* 8

ASSUME TensorAssumption ==
  /\ Unroll \in Nat \ {0}
  /\ SizeMax \in Nat
  /\ (SizeMax + 1) % Unroll = 0

Size(n) == n % (SizeMax + 1)

(* upd_tensor_count_scalars: n, after each turn of its loop. *)
Counting(reso) ==
  LET n[i \in 0..Len(reso)] == IF i = 0 THEN 1 ELSE Size(n[i - 1] * reso[i])
  IN n

CountScalars(reso) == Counting(reso)[Len(reso)]

(* A bug: the passes are counted rounding down. *)
PassesDown(n) == IF n \div Unroll = 0 THEN SizeMax + 1 ELSE n \div Unroll

(* do ... while (--i), i being a size_t that starts at (n+7)/8. *)
Passes(n) == LET i == Size(n + Unroll - 1) \div Unroll
             IN IF i = 0 THEN SizeMax + 1 ELSE i

(* switch (n%8) *)
FirstPass(n) == IF n % Unroll = 0 THEN Unroll ELSE n % Unroll

(* upd_tensor_conv_f32_to_u16 and upd_tensor_conv_f64_to_u16. *)
Converted(n) == FirstPass(n) + Unroll * (Passes(n) - 1)
=============================================================================
