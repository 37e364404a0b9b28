----------------------------- MODULE MsgpackRecv -----------------------------
(***************************************************************************)
(* upd_msgpack_recv_t (libupd/msgpack.h): the receiving end of a stream of *)
(* msgpack messages.  It reads the stream's file when its user asks for    *)
(* the next message and when the file reports an update, feeds what it     *)
(* reads to an unpacker and hands messages to the user one at a time.      *)
(*                                                                         *)
(* The bytes of the stream are cut into chunks and a message is PerMsg     *)
(* chunks long, so counters tell all there is to know: chunks written to   *)
(* the file, taken from it by the answer to a read, fed to the unpacker,   *)
(* and messages delivered.  Order is kept by construction; what can go     *)
(* wrong is that the receiver sleeps while there is something to deliver,  *)
(* or that it uses its only request object twice at once.                  *)
(***************************************************************************)
EXTENDS Naturals

CONSTANTS PerMsg,     \* chunks in a message
          MaxChunks,  \* bound: chunks ever written
          MaxEvents,  \* bound: update events on their way at once
          Faults,     \* TRUE if a read, the unpacker or a message may be bad
          Refusals    \* TRUE if the driver may refuse a read request

ASSUME RecvAssumption ==
  /\ PerMsg \in Nat \ {0}
  /\ MaxChunks \in Nat
  /\ MaxEvents \in Nat
  /\ Faults \in BOOLEAN
  /\ Refusals \in BOOLEAN

VARIABLES
  life,       \* "new", "open", "closed", or "aborted" by a failed assertion
  ok,         \* recv->ok
  busy,       \* recv->busy
  reading,    \* recv->reading
  pending,    \* recv->pending
  req,        \* recv->req at the driver: "none", "queued" or "served"
  turn,       \* TRUE from recv->cb until the user calls in again
  events,     \* UPD_FILE_UPDATE events the host has yet to deliver
  written,    \* chunks written to the file
  taken,      \* chunks a served read has taken from it
  fed,        \* chunks fed to recv->upk
  delivered   \* messages handed to the user

data == <<written, taken, fed, delivered>>
vars == <<life, ok, busy, reading, pending, req, turn, events,
          written, taken, fed, delivered>>

Init ==
  /\ life = "new"
  /\ ok = FALSE /\ busy = FALSE /\ reading = FALSE /\ pending = FALSE
  /\ req = "none"
  /\ turn = FALSE
  /\ events = 0
  /\ written = 0 /\ taken = 0 /\ fed = 0 /\ delivered = 0

-----------------------------------------------------------------------------
(* recv->cb(recv): it is the user's turn. *)
Report(good) == ok' = good /\ turn' = TRUE

(* upd_msgpack_recv_next.  When the driver refuses the request the flags   *)
(* stay as if it had not.                                                  *)
RecvNext ==
  /\ busy' = TRUE
  /\ reading' = TRUE
  /\ pending' = FALSE
  /\ \/ req' = "queued" /\ turn' = FALSE /\ UNCHANGED ok
     \/ Refusals /\ req' = "none" /\ Report(FALSE)

-----------------------------------------------------------------------------
(* Handlers with a mistake in them, which no specification uses: the       *)
(* properties below must tell each of them from the handler it is named    *)
(* after.                                                                  *)

(* reading is reset on the way out, after the second read was sent. *)
ReadPartResetLast ==
  /\ req = "served" /\ taken < PerMsg * (delivered + 1)
  /\ fed' = taken
  /\ busy' = pending /\ pending' = FALSE /\ reading' = FALSE
  /\ req' = IF pending THEN "queued" ELSE "none"
  /\ UNCHANGED <<life, ok, turn, events, written, taken, delivered>>

(* An update that finds the receiver busy is not remembered. *)
WatchCbForgets ==
  /\ life = "open" /\ events > 0
  /\ events' = events - 1
  /\ \/ busy /\ UNCHANGED <<ok, busy, reading, pending, req, turn>>
     \/ ~busy /\ RecvNext
  /\ UNCHANGED <<life, data>>

(* busy is cleared before the message is handed over. *)
ReadMessageIdle ==
  /\ req = "served" /\ taken >= PerMsg * (delivered + 1)
  /\ req' = "none" /\ reading' = FALSE /\ busy' = FALSE
  /\ fed' = taken
  /\ delivered' = delivered + 1
  /\ Report(TRUE)
  /\ UNCHANGED <<life, pending, events, written, taken>>

(* There is no "else": busy is cleared with the second read under way. *)
ReadPartNoElse ==
  /\ req = "served" /\ taken < PerMsg * (delivered + 1)
  /\ fed' = taken
  /\ busy' = FALSE /\ pending' = FALSE
  /\ reading' = pending
  /\ req' = IF pending THEN "queued" ELSE "none"
  /\ UNCHANGED <<life, ok, turn, events, written, taken, delivered>>

(* pending is not looked at. *)
ReadPartSleeps ==
  /\ req = "served" /\ taken < PerMsg * (delivered + 1)
  /\ fed' = taken
  /\ busy' = FALSE /\ reading' = FALSE /\ req' = "none"
  /\ UNCHANGED <<life, ok, pending, turn, events, written, taken, delivered>>

(* reading is reset only after a good result. *)
ReadFailedReading ==
  /\ req = "served" /\ Faults
  /\ req' = "none"
  /\ taken' \in {fed, taken}
  /\ Report(FALSE)
  /\ UNCHANGED <<life, busy, reading, pending, events, written, fed, delivered>>

(* recv_deinit is called at any time and asserts nothing. *)
UserDeinitAnyTime ==
  /\ life = "open"
  /\ life' = "closed"
  /\ turn' = FALSE
  /\ events' = 0
  /\ UNCHANGED <<ok, busy, reading, pending, req, data>>

-----------------------------------------------------------------------------
(* upd_msgpack_recv_init, which watches the file, then the first read of a *)
(* user who does not know the stream to be empty.  An init that fails      *)
(* leaves nothing behind.                                                  *)
Open ==
  /\ life = "new"
  /\ life' = "open"
  /\ \/ RecvNext
     \/ written = 0 /\ UNCHANGED <<ok, busy, reading, pending, req, turn>>
  /\ UNCHANGED <<events, data>>

(* upd_msgpack_recv_watch_cb_ for an UPD_FILE_UPDATE. *)
WatchCb ==
  /\ life = "open"
  /\ events > 0
  /\ events' = events - 1
  /\ \/ busy /\ pending' = TRUE /\ UNCHANGED <<ok, busy, reading, req, turn>>
     \/ ~busy /\ RecvNext
  /\ UNCHANGED <<life, data>>

(* The whole message is in the unpacker: MSGPACK_UNPACK_SUCCESS. *)
Complete == taken >= PerMsg * (delivered + 1)

(* upd_msgpack_recv_read_cb_ has a message for the user. *)
ReadMessage ==
  /\ req = "served" /\ Complete
  /\ req' = "none" /\ reading' = FALSE
  /\ fed' = taken
  /\ delivered' = delivered + 1
  /\ Report(TRUE)
  /\ UNCHANGED <<life, busy, pending, events, written, taken>>

(* It has only a part of one, MSGPACK_UNPACK_CONTINUE: read again if the   *)
(* file was updated meanwhile, otherwise sleep until it is.                *)
ReadPart ==
  /\ req = "served" /\ ~Complete
  /\ fed' = taken
  /\ \/ pending /\ RecvNext
     \/ /\ ~pending
        /\ busy' = FALSE /\ reading' = FALSE /\ req' = "none"
        /\ UNCHANGED <<ok, pending, turn>>
  /\ UNCHANGED <<life, events, written, taken, delivered>>

(* ABORT: the driver failed and took nothing from the file, or it did and  *)
(* then the buffer or the message is bad, and what was taken is lost.      *)
ReadFailed ==
  /\ req = "served" /\ Faults
  /\ req' = "none" /\ reading' = FALSE
  /\ taken' \in {fed, taken}
  /\ Report(FALSE)
  /\ UNCHANGED <<life, busy, pending, events, written, fed, delivered>>

ReadCb == ReadMessage \/ ReadPart \/ ReadFailed

-----------------------------------------------------------------------------
(* The user, done with a message, asks for the next one, or it tries again *)
(* after a failure that lost nothing.                                      *)
UserNext ==
  /\ life = "open" /\ turn
  /\ ok \/ taken = fed
  /\ RecvNext
  /\ UNCHANGED <<life, events, data>>

(* upd_msgpack_recv_deinit, by a user whose turn it is or who finds the    *)
(* receiver asleep.  assert(!recv->reading) comes first.  The watch is     *)
(* gone with it, so events on their way reach nobody.                      *)
UserDeinit ==
  /\ life = "open" /\ (turn \/ ~busy)
  /\ life' = IF reading THEN "aborted" ELSE "closed"
  /\ turn' = FALSE
  /\ events' = 0
  /\ UNCHANGED <<ok, busy, reading, pending, req, data>>

(* The driver of the file: data arrives and the watchers are told, or they *)
(* are told for another reason (n = 0); a queued read gets all there is,   *)
(* without waiting for more, as upd_msgpack_handle answers it.             *)
Write(n) ==
  /\ written + n <= MaxChunks
  /\ written' = written + n
  /\ IF life = "open" THEN events < MaxEvents /\ events' = events + 1
                      ELSE n > 0 /\ UNCHANGED events
  /\ UNCHANGED <<life, ok, busy, reading, pending, req, turn,
                 taken, fed, delivered>>

Serve ==
  /\ req = "queued"
  /\ req' = "served"
  /\ taken' = written
  /\ UNCHANGED <<life, ok, busy, reading, pending, turn, events,
                 written, fed, delivered>>

-----------------------------------------------------------------------------
Next ==
  \/ Open \/ WatchCb \/ ReadCb
  \/ UserNext \/ UserDeinit
  \/ \E n \in 0..MaxChunks : Write(n)
  \/ Serve

(* The host delivers events, the driver answers the reads it accepted, and *)
(* the user asks for the next message after each one it was given; after a *)
(* failure it need not.                                                    *)
Fairness ==
  /\ WF_vars(WatchCb) /\ WF_vars(Serve) /\ WF_vars(ReadCb)
  /\ WF_vars(ok /\ UserNext)

Safety == Init /\ [][Next]_vars
Spec   == Safety /\ Fairness

-----------------------------------------------------------------------------
(* Chunks are in the file before they are read, and fed before a message   *)
(* that they make up is handed over.                                       *)
InOrder == PerMsg * delivered <= fed /\ fed <= taken /\ taken <= written

(* The values the variables take.  While the request is at the driver      *)
(* "reading" says so, which deinit relies on (msgpack.h:297, 317, 466).    *)
TypeOK ==
  /\ life \in {"new", "open", "closed", "aborted"}
  /\ ok \in BOOLEAN /\ busy \in BOOLEAN
  /\ reading \in BOOLEAN /\ pending \in BOOLEAN
  /\ req \in {"none", "queued", "served"}
  /\ turn \in BOOLEAN
  /\ events \in Nat
  /\ written \in Nat /\ taken \in Nat /\ fed \in Nat /\ delivered \in Nat
  /\ req # "none" => reading
  /\ InOrder

(* The receiver has one upd_req_t.  Whoever may call upd_msgpack_recv_next *)
(* (the watch callback when not busy, the user in its turn) finds it free, *)
(* so a request in flight is never overwritten (msgpack.h:306-319, 455).   *)
SingleRead == ~busy \/ turn => req = "none"

(* Data in the file is never forgotten: an update event is on its way, or  *)
(* a read that will take it is queued, or the receiver remembers to read   *)
(* again, or the user is about to ask (msgpack.h:316-318, 455-459, 488).   *)
NoLostWakeup ==
  life = "open" /\ written > taken =>
    \/ events > 0
    \/ busy /\ (req = "queued" \/ pending \/ turn)

(* A sleeping receiver has no whole message left in its unpacker and no    *)
(* answer it has not fed to it: a read that brings several messages does   *)
(* not strand the later ones (msgpack.h:479-493).                          *)
NoStrandedMessage ==
  life = "open" /\ ~busy => taken = fed /\ fed < PerMsg * (delivered + 1)

(* recv_deinit is never reached with a read in flight, whose answer would  *)
(* be written to a destroyed receiver.                                     *)
NoReadOutlives == life \in {"closed", "aborted"} => req = "none"

(* assert(!recv->reading) in upd_msgpack_recv_deinit holds whenever a user *)
(* who was called back, or finds the receiver asleep, calls it.            *)
DeinitAssertion == life # "aborted"

(* Every whole message written is delivered, or the user gave up. *)
AllDelivered ==
  \A n \in 1..MaxChunks :
    life = "open" /\ written >= PerMsg * n
      ~> delivered >= n \/ life # "open" \/ (turn /\ ~ok)
=============================================================================
