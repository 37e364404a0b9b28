---------------------------- MODULE MCProtoParse ----------------------------
(* Instances of ProtoParse for TLC. *)
EXTENDS ProtoParse

CONSTANTS f1, f2

FileSet == {f1, f2}
Both    == {"encoder", "object"}

Msg(iface, cmd, param, id) ==
  [mask |-> Both, map |-> TRUE, fields |-> TRUE, iface |-> iface,
   cmd |-> cmd, param |-> param, id |-> id]

(* Frames by path and by id, of a file and of none, next to messages that  *)
(* need no file and messages with each of the errors found before.         *)
FrameSources ==
  {Msg("encoder", "frame", "path", NoFile), Msg("encoder", "frame", "id", f1),
   Msg("encoder", "frame", "id", NoFile),   Msg("encoder", "frame", "none", f1),
   Msg("encoder", "frame", "invalid", f1),  Msg("encoder", "get", "none", NoFile),
   Msg("encoder", "init", "none", NoFile),  Msg("object", "get", "valid", NoFile),
   Msg("object", "set", "invalid", NoFile), Msg("object", "frame", "path", NoFile),
   Msg("other", "frame", "path", NoFile),
   [Msg("encoder", "frame", "id", f1) EXCEPT !.map = FALSE, !.fields = FALSE],
   [Msg("object", "lock", "none", f1) EXCEPT !.fields = FALSE],
   [Msg("encoder", "frame", "path", f1) EXCEPT !.mask = {"object"}]}
=============================================================================
