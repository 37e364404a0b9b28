---------------------------- MODULE MsgpackServer ----------------------------
(***************************************************************************)
(* upd_msgpack_t (libupd/msgpack.h): the serving end of a stream of        *)
(* msgpack messages.  A driver hands its file's write and read requests to *)
(* upd_msgpack_handle: what is written goes to an unpacker, whose memory   *)
(* is kept in an account, and the driver's own code (the "user" here) is   *)
(* called to pop requests and pack replies, which the next read takes away.*)
(*                                                                         *)
(* A request is PerReq chunks of bytes long and counters stand for the     *)
(* bytes, as in MsgpackRecv.  The unpacker is external; so is the user,    *)
(* who works on one request at a time and is busy from the call until a    *)
(* pop finds none.                                                         *)
(*                                                                         *)
(* The module has no specification of its own: its actions are one half of *)
(* those of Duplex.                                                        *)
(***************************************************************************)
EXTENDS Integers

CONSTANTS PerReq,      \* chunks in a request
          Base,        \* the account at the start: 1024
          MaxMem,      \* mpk->maxmem
          SizeMax,     \* SIZE_MAX
          Cumulative,  \* the unpacker reports a part again with what follows
          MaxSent,     \* bound: chunks of requests ever accepted
          MaxRefused,  \* bound: writes ever refused
          BadInput     \* TRUE if requests may be bad or not fit in memory

ASSUME ServerAssumption ==
  /\ PerReq \in Nat \ {0}
  /\ SizeMax \in Nat
  /\ Base \in 0..SizeMax
  /\ MaxMem \in 0..SizeMax
  /\ Cumulative \in BOOLEAN
  /\ MaxSent \in Nat
  /\ MaxRefused \in Nat
  /\ BadInput \in BOOLEAN

VARIABLES
  mem,      \* mpk->mem
  held,     \* chunks in mpk->upk
  parsed,   \* those of them the unpacker has seen: a part of a request
  drift,    \* history: chunks reported to have been parsed once too often
  lost,     \* TRUE once the unpacker has given up on its input
  broken,   \* mpk->broken
  working,  \* mpk->busy, which the user sets and clears
  job,      \* the user: "idle", about to "pop", or at "work" on a request
  out,      \* chunks of replies in mpk->out
  sent,     \* chunks of requests accepted
  popped,   \* requests popped
  writes,   \* accepted writes whose req->cb has not been called
  refused,  \* refused writes
  up        \* FALSE once the server is gone

server == <<mem, held, parsed, drift, lost, broken, working, job, out,
            sent, popped, writes, refused, up>>

(* A bug: the subtraction is one of integers, not of size_t. *)
MinusUnbounded(a, b) == a - b

Plus(a, b)  == (a + b) % (SizeMax + 1)
Minus(a, b) == (a + (SizeMax + 1) - b) % (SizeMax + 1)

(* upd_msgpack_init. *)
ServerInit ==
  /\ mem = Base
  /\ held = 0 /\ parsed = 0 /\ drift = 0 /\ lost = FALSE
  /\ broken = FALSE /\ working = FALSE
  /\ job = "idle"
  /\ out = 0
  /\ sent = 0 /\ popped = 0 /\ writes = 0 /\ refused = 0
  /\ up = TRUE

-----------------------------------------------------------------------------
(* Steps with a mistake in them, which no specification uses: the          *)
(* properties must tell each of them from the step it is named after.      *)

(* The account is charged before there is room for the data. *)
WriteRefusedCharged(n) ==
  /\ up /\ refused < MaxRefused
  /\ Plus(mem, n) > MaxMem \/ BadInput
  /\ refused' = refused + 1
  /\ mem' = Plus(mem, n)
  /\ UNCHANGED <<held, parsed, drift, lost, broken, working, job, out,
                 sent, popped, writes, up>>

(* Nobody is called when something is in the unpacker already. *)
CalledIfEmpty == ~working /\ held = 0

(* One pop per call: the user rests after a reply. *)
ReplyAndRest(k) ==
  /\ job = "work"
  /\ out' = out + k
  /\ job' = "idle" /\ working' = FALSE
  /\ UNCHANGED <<mem, held, parsed, drift, lost, broken,
                 sent, popped, writes, refused, up>>

(* The reply is sent from the buffer, which then keeps it. *)
HandleReadKeeps == UNCHANGED server

-----------------------------------------------------------------------------
(* mpk->cb is called, which sets mpk->busy, unless it is set. *)
Called == ~working

(* upd_msgpack_handle for a write of n chunks that fit: they go to the     *)
(* unpacker and the user is called, unless busy.                           *)
Write(n) ==
  /\ up
  /\ Plus(mem, n) <= MaxMem
  /\ sent + n <= MaxSent
  /\ mem' = Plus(mem, n)
  /\ held' = held + n /\ sent' = sent + n
  /\ writes' = writes + 1
  /\ working' = (working \/ Called)
  /\ job' = IF Called THEN "pop" ELSE job
  /\ UNCHANGED <<parsed, drift, lost, broken, out, popped, refused, up>>

(* It is over the limit, or the unpacker's buffer cannot grow: the request *)
(* is refused, and if it was sent with upd_req_with_dup the copy is freed. *)
WriteRefused(n) ==
  /\ up /\ refused < MaxRefused
  /\ Plus(mem, n) > MaxMem \/ BadInput
  /\ refused' = refused + 1
  /\ UNCHANGED <<mem, held, parsed, drift, lost, broken, working, job, out,
                 sent, popped, writes, up>>

(* mpk->cb has returned, or was not called: req->cb, where the writer of a *)
(* copied request frees it.  The user may have done anything meanwhile, or *)
(* nothing yet.                                                            *)
WriteAnswered ==
  /\ writes > 0
  /\ writes' = writes - 1
  /\ UNCHANGED <<mem, held, parsed, drift, lost, broken, working, job, out,
                 sent, popped, refused, up>>

-----------------------------------------------------------------------------
(* What msgpack_unpacker_next_with_size adds to "consumed" when it has got *)
(* as far as the k-th chunk of a request, and what of it had been reported *)
(* before.                                                                 *)
Reported(k) == IF Cumulative THEN k ELSE k - parsed
Repeated    == IF Cumulative THEN parsed ELSE 0

(* The user is told that there is nothing to do. *)
Rest == job' = "idle" /\ working' = FALSE

(* upd_msgpack_pop finds a request, MSGPACK_UNPACK_SUCCESS. *)
PopMessage ==
  /\ job = "pop" /\ ~lost /\ held >= PerReq
  /\ mem' = Minus(mem, Reported(PerReq))
  /\ drift' = drift + Repeated
  /\ held' = held - PerReq /\ parsed' = 0
  /\ popped' = popped + 1
  /\ job' = "work"
  /\ UNCHANGED <<lost, broken, working, out, sent, writes,
                 refused, up>>

(* It finds nothing or a part of one, MSGPACK_UNPACK_CONTINUE. *)
PopPart ==
  /\ job = "pop" /\ ~lost /\ held < PerReq
  /\ mem' = Minus(mem, Reported(held))
  /\ drift' = drift + Repeated
  /\ parsed' = held
  /\ Rest
  /\ UNCHANGED <<held, lost, broken, out, sent, popped, writes,
                 refused, up>>

(* The input is bad: MSGPACK_UNPACK_PARSE_ERROR, now and for ever. *)
PopBad ==
  /\ job = "pop" /\ held > 0 /\ (lost \/ BadInput)
  /\ lost' = TRUE /\ broken' = TRUE
  /\ Rest
  /\ UNCHANGED <<mem, held, parsed, drift, out, sent, popped, writes,
                 refused, up>>

(* The unpacker reports an error that pop has no case for.  pop falls off  *)
(* its end and what it returns is undefined: the user may be told that     *)
(* there is a request.                                                     *)
PopUnlisted ==
  /\ job = "pop" /\ held > 0 /\ ~lost /\ BadInput
  /\ lost' = TRUE
  /\ Rest \/ (job' = "work" /\ UNCHANGED working)
  /\ UNCHANGED <<mem, held, parsed, drift, broken, out, sent, popped, writes,
                 refused, up>>

Pop == PopMessage \/ PopPart \/ PopBad \/ PopUnlisted

(* The user has packed a reply of k chunks and goes on to the next request.*)
Reply(k) ==
  /\ job = "work"
  /\ out' = out + k
  /\ job' = "pop"
  /\ UNCHANGED <<mem, held, parsed, drift, lost, broken, working,
                 sent, popped, writes, refused, up>>

(* upd_msgpack_handle for a read, which gets all there is. *)
HandleRead ==
  /\ up
  /\ out' = 0
  /\ UNCHANGED <<mem, held, parsed, drift, lost, broken, working, job,
                 sent, popped, writes, refused, up>>

(* upd_msgpack_deinit, by a driver whose user is idle and whose callers    *)
(* have been answered.                                                     *)
ServerDeinit ==
  /\ up /\ job = "idle" /\ writes = 0
  /\ up' = FALSE
  /\ held' = 0 /\ parsed' = 0 /\ out' = 0
  /\ UNCHANGED <<mem, drift, lost, broken, working, job,
                 sent, popped, writes, refused>>

-----------------------------------------------------------------------------
TypeOK ==
  /\ mem \in 0..SizeMax
  /\ held \in Nat /\ parsed \in 0..(PerReq - 1)
  /\ drift \in Nat /\ lost \in BOOLEAN
  /\ broken \in BOOLEAN /\ working \in BOOLEAN
  /\ job \in {"idle", "pop", "work"}
  /\ out \in Nat /\ sent \in Nat /\ popped \in Nat
  /\ writes \in Nat /\ refused \in Nat
  /\ up \in BOOLEAN

(* No whole request waits in the unpacker while the user is idle, whoever  *)
(* wrote when: a write that finds the user busy calls nobody, so what it   *)
(* brought must be popped at the end of the work (msgpack.h:252-254).      *)
NoStrandedRequest == ~working /\ ~lost => held < PerReq

(* The account is what the unpacker holds, less all that was reported once *)
(* too often, as a size_t: whatever interleaving of writes, refusals and   *)
(* pops, and whichever way the unpacker reports the parts of a request.    *)
(* With an unpacker that never repeats itself drift stays 0 and maxmem     *)
(* limits what is held; with one that does, each split request leaves the  *)
(* account lower for good (msgpack.h:211-222, 226-228).                    *)
AccountExact ==
  up /\ ~lost => mem = (Base + held - parsed - drift) % (SizeMax + 1)
=============================================================================
