------------------------------- MODULE MCBuf -------------------------------
EXTENDS Buf

(* Strings of one and of several bytes, and the empty one.                 *)
MCChunks == {<<>>, <<1>>, <<2, 3>>, <<3, 2, 1>>}
=============================================================================
