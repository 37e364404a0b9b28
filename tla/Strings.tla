------------------------------ MODULE Strings ------------------------------
(***************************************************************************)
(* libupd/str.h: strings are bytes and a length, or end at a NUL byte.     *)
(* The comparisons are those of utf8.h, which stop at the first NUL byte   *)
(* of both whatever length they are given.                                 *)
(***************************************************************************)
EXTENDS Naturals, SequencesExt

CONSTANTS NUL,   \* the byte 0
          Fold   \* a set of pairs: upper case letters and their lower case

Lower(c) == IF \E p \in Fold : p[1] = c
              THEN (CHOOSE p \in Fold : p[1] = c)[2] ELSE c

(* utf8ncmp(s, t, n) = 0, and utf8ncasecmp(s, t, n) = 0. *)
Ends(s, t, i) == s[i] = NUL /\ t[i] = NUL
SameBytes(s, t, n) ==
  \A i \in 1..n : s[i] = t[i] \/ \E j \in 1..(i - 1) : Ends(s, t, j)
SameLetters(s, t, n) ==
  \A i \in 1..n : Lower(s[i]) = Lower(t[i]) \/ \E j \in 1..(i - 1) : Ends(s, t, j)

(* A bug: the lengths are not compared. *)
StreqPrefix(s, t) == Len(s) <= Len(t) /\ SameBytes(s, t, Len(s))

(* upd_streq, upd_strcaseq, and with a C string, which has no NUL byte,    *)
(* for s, upd_streq_c and upd_strcaseq_c.                                  *)
Streq(s, t)    == Len(s) = Len(t) /\ SameBytes(s, t, Len(s))
Strcaseq(s, t) == Len(s) = Len(t) /\ SameLetters(s, t, Len(s))

(* upd_str_switch and upd_strcase_switch: which of the cases it is, or 0.  *)
StrSwitch(str, cases)     == SelectInSeq(cases, LAMBDA c : Streq(c, str))
StrcaseSwitch(str, cases) == SelectInSeq(cases, LAMBDA c : Strcaseq(c, str))
=============================================================================
