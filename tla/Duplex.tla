------------------------------- MODULE Duplex -------------------------------
(***************************************************************************)
(* One file between the two halves of libupd/msgpack.h: a client writes    *)
(* requests to it and reads replies with an upd_msgpack_recv_t; the file's *)
(* driver serves both with an upd_msgpack_t.                               *)
(*                                                                         *)
(* MsgpackRecv assumes a stream that grows, tells of it and answers reads. *)
(* Here MsgpackServer's steps take the place of that assumption: a reply   *)
(* is what makes the stream grow, and a read is upd_msgpack_handle.        *)
(***************************************************************************)
EXTENDS MsgpackServer

CONSTANTS PerMsg,     \* chunks in a reply
          MaxEvents,  \* bound: update events on their way at once
          MaxWrites,  \* bound: writes that have not been answered
          Faults      \* TRUE if the receiver's unpacker or a reply may be bad

ASSUME DuplexAssumption ==
  /\ PerMsg \in Nat \ {0}
  /\ MaxEvents \in Nat
  /\ MaxWrites \in Nat
  /\ Faults \in BOOLEAN

VARIABLES life, ok, busy, reading, pending, req, turn, events,
          written, taken, fed, delivered

receiver == <<life, ok, busy, reading, pending, req, turn, events,
              written, taken, fed, delivered>>
vars == <<server, receiver>>

(* At most one reply per request, and one to a request that is none. *)
Recv == INSTANCE MsgpackRecv WITH Refusals <- FALSE,
                                  MaxChunks <- PerMsg * (MaxSent + 1)

Init == ServerInit /\ Recv!Init

-----------------------------------------------------------------------------
(* The client writes n chunks with upd_req_with_dup: the copy is its own   *)
(* until the answer, or is freed at once when the write is refused.        *)
ClientWrite(n) ==
  /\ writes < MaxWrites
  /\ Write(n) \/ WriteRefused(n)
  /\ UNCHANGED receiver

(* req->cb frees the copy. *)
ClientAnswered == WriteAnswered /\ UNCHANGED receiver

(* The user of the server, whose driver triggers the file's watchers when  *)
(* a reply has been packed.                                                *)
ServerPop   == Pop /\ UNCHANGED receiver
ServerReply == Reply(PerMsg) /\ Recv!Write(PerMsg)

(* A read of the receiver is handled at the server. *)
ServeRead ==
  /\ req = "queued"
  /\ req' = "served"
  /\ taken' = taken + out
  /\ HandleRead
  /\ UNCHANGED <<life, ok, busy, reading, pending, turn, events,
                 written, fed, delivered>>

(* The answer.  The server refuses and fails no read: what may be bad is   *)
(* what it brought.                                                        *)
ReadCb ==
  /\ Recv!ReadMessage \/ Recv!ReadPart \/ (Recv!ReadFailed /\ taken' = taken)
  /\ UNCHANGED server

Open       == up /\ Recv!Open /\ UNCHANGED server
WatchCb    == Recv!WatchCb /\ UNCHANGED server
UserNext   == Recv!UserNext /\ UNCHANGED server
UserDeinit == Recv!UserDeinit /\ UNCHANGED server

(* The receiver has a reference to the file from init to deinit, and the   *)
(* driver goes with the file.                                              *)
CloseServer ==
  /\ life # "open"
  /\ ServerDeinit
  /\ UNCHANGED receiver

-----------------------------------------------------------------------------
Next ==
  \/ \E n \in 1..MaxSent : ClientWrite(n)
  \/ ClientAnswered
  \/ ServerPop \/ ServerReply \/ ServeRead
  \/ ReadCb \/ Open \/ WatchCb \/ UserNext \/ UserDeinit
  \/ CloseServer

(* As in MsgpackRecv, with the server's user for the driver: it pops when  *)
(* called and packs the replies it owes.                                   *)
Fairness ==
  /\ WF_vars(ServerPop) /\ WF_vars(ServerReply) /\ WF_vars(ServeRead)
  /\ WF_vars(WatchCb) /\ WF_vars(ReadCb) /\ WF_vars(ok /\ UserNext)

Spec == Init /\ [][Next]_vars /\ Fairness

-----------------------------------------------------------------------------
(* What MsgpackRecv assumes of the other end is true of this server: its   *)
(* replies reach the file with an event, and a read gets all that was      *)
(* written and not read yet (msgpack.h:259-268).                           *)
RefinesRecv == Recv!Safety

(* Against this server, which refuses no read, the assertion of            *)
(* upd_msgpack_recv_deinit holds.                                          *)
DeinitAssertion == Recv!DeinitAssertion

(* Every request the server has accepted is answered, whatever the writes  *)
(* come in the middle of, and the client gets the answer unless it closes  *)
(* or gives up, or the input was bad (msgpack.h:243-273, 450-502).         *)
RequestsAnswered ==
  \A n \in 1..(MaxSent \div PerReq) :
    life = "open" /\ sent >= PerReq * n
      ~> delivered >= n \/ life # "open" \/ (turn /\ ~ok) \/ lost
=============================================================================
