-------------------------- MODULE MsgpackRecvProofs --------------------------
(***************************************************************************)
(* Proofs about MsgpackRecv, for messages of any length, streams of any    *)
(* length and any number of events on their way, with every failure and    *)
(* refusal the model allows.                                               *)
(*                                                                         *)
(* The safety properties speak of busy, turn and the request separately;   *)
(* what makes them inductive is how the three hang together: exactly while *)
(* the receiver is busy, either a read is in flight or it is the user's    *)
(* turn (OneHand), and it falls asleep only with an unpacker that holds no *)
(* whole message (Drained).                                                *)
(***************************************************************************)
EXTENDS MsgpackRecv, TLAPS

(* A busy receiver waits for its read or for its user, never for both and  *)
(* never for neither; an idle one for neither.                             *)
OneHand ==
  /\ req # "none" => busy /\ ~turn /\ life = "open"
  /\ turn => busy /\ req = "none" /\ life = "open"
  /\ busy /\ life = "open" => req # "none" \/ turn

(* Nothing has happened to a receiver that is not open yet. *)
Unborn == life = "new" => ~busy /\ ~pending /\ taken = 0

(* An idle receiver has fed all it took and holds less than a message. *)
Drained == ~busy => taken = fed /\ fed < PerMsg * (delivered + 1)

IInv == TypeOK /\ OneHand /\ Unborn /\ Drained /\ NoLostWakeup

-----------------------------------------------------------------------------
(* upd_msgpack_recv_next puts the receiver in one of the two hands and     *)
(* keeps the types.                                                        *)
LEMMA RecvNextTakes ==
  ASSUME TypeOK, RecvNext
  PROVE  /\ busy' /\ reading' /\ ~pending'
         /\ \/ req' = "queued" /\ ~turn'
            \/ req' = "none" /\ turn'
         /\ ok' \in BOOLEAN /\ busy' \in BOOLEAN /\ reading' \in BOOLEAN
         /\ pending' \in BOOLEAN /\ turn' \in BOOLEAN
         /\ req' \in {"none", "queued", "served"}
BY DEF TypeOK, RecvNext, Report

(* The invariant holds at the start. *)
LEMMA InitIInv == Init => IInv
<1> SUFFICES ASSUME Init PROVE IInv
  OBVIOUS
<1>1. 0 < PerMsg * (0 + 1) /\ PerMsg * 0 = 0
  BY RecvAssumption
<1>2. InOrder
  BY <1>1 DEF Init, InOrder
<1>3. TypeOK
  BY <1>2 DEF Init, TypeOK
<1>4. Drained
  BY <1>1 DEF Init, Drained
<1> QED
  BY <1>3, <1>4 DEF Init, IInv, OneHand, Unborn, NoLostWakeup

(* Only writes, reads and answers move chunks, each of them in order.      *)
LEMMA OrderKept == ASSUME TypeOK, [Next]_vars PROVE InOrder'
<1> USE DEF TypeOK, InOrder
<1>1. CASE UNCHANGED data
  <2>1. PerMsg * delivered' = PerMsg * delivered
    BY <1>1 DEF data
  <2> QED
    BY <1>1, <2>1 DEF data
<1>2. CASE ReadMessage
  BY <1>2 DEF ReadMessage, Complete
<1>3. CASE UNCHANGED <<written, delivered>> /\ fed' \in {fed, taken} /\ taken' \in {fed, taken}
            /\ fed' <= taken'
  <2>1. PerMsg * delivered' = PerMsg * delivered
    BY <1>3
  <2> QED
    BY <1>3, <2>1, RecvAssumption
<1>4. CASE \E n \in 0..MaxChunks : Write(n)
  <2>1. PICK n \in 0..MaxChunks : Write(n)
    BY <1>4
  <2>2. UNCHANGED <<taken, fed, delivered>>
    BY <2>1 DEF Write
  <2>3. PerMsg * delivered' = PerMsg * delivered
    BY <2>2
  <2>4. taken' <= written'
    <3>1. written' = written + n /\ n \in Nat /\ written \in Nat /\ taken \in Nat
      BY <2>1, RecvAssumption DEF Write
    <3>2. taken <= written
      OBVIOUS
    <3> QED
      BY <2>2, <3>1, <3>2
  <2> QED
    BY <2>2, <2>3, <2>4
<1>5. CASE Serve
  <2>1. UNCHANGED <<written, fed, delivered>> /\ taken' = written
    BY <1>5 DEF Serve
  <2>2. PerMsg * delivered' = PerMsg * delivered
    BY <2>1
  <2> QED
    BY <2>1, <2>2
<1>6. CASE Open \/ WatchCb \/ UserNext \/ UserDeinit \/ UNCHANGED vars
  BY <1>1, <1>6 DEF Open, WatchCb, UserNext, UserDeinit, vars, data
<1>7. CASE ReadPart \/ ReadFailed
  <2>1. UNCHANGED <<written, delivered>> /\ fed' \in {fed, taken}
          /\ taken' \in {fed, taken} /\ fed' <= taken'
    <3>1. CASE ReadPart
      BY <1>7, <3>1 DEF ReadPart
    <3>2. CASE ReadFailed
      BY <1>7, <3>2 DEF ReadFailed
    <3> QED
      BY <1>7, <3>1, <3>2
  <2> QED
    BY <1>3, <2>1
<1> QED
  BY <1>2, <1>4, <1>5, <1>6, <1>7 DEF Next, ReadCb

(* Every step keeps it. *)
LEMMA NextKeeps == IInv /\ [Next]_vars => IInv'
<1> SUFFICES ASSUME IInv, [Next]_vars PROVE IInv'
  OBVIOUS
<1>0. InOrder'
  BY OrderKept DEF IInv
<1> USE RecvAssumption, <1>0
    DEF IInv, TypeOK, OneHand, Unborn, Drained, NoLostWakeup
<1>1. CASE Open
  <2>1. CASE RecvNext
    BY <1>1, <2>1, RecvNextTakes DEF Open, data
  <2>2. CASE written = 0 /\ UNCHANGED <<ok, busy, reading, pending, req, turn>>
    BY <1>1, <2>2 DEF Open, data
  <2> QED
    BY <1>1, <2>1, <2>2 DEF Open
<1>2. CASE WatchCb
  <2>1. events' \in Nat
    BY <1>2 DEF WatchCb
  <2>2. CASE busy /\ pending' = TRUE /\ UNCHANGED <<ok, busy, reading, req, turn>>
    BY <1>2, <2>1, <2>2 DEF WatchCb, data
  <2>3. CASE ~busy /\ RecvNext
    BY <1>2, <2>1, <2>3, RecvNextTakes DEF WatchCb, data
  <2> QED
    BY <1>2, <2>2, <2>3 DEF WatchCb
<1>3. CASE ReadMessage
  <2>1. busy' /\ life' = "open" /\ turn' /\ req' = "none"
    BY <1>3 DEF ReadMessage, Report
  <2>2. delivered' \in Nat /\ fed' \in Nat /\ ok' \in BOOLEAN /\ turn' \in BOOLEAN
    BY <1>3 DEF ReadMessage, Report
  <2> QED
    BY <1>3, <2>1, <2>2 DEF ReadMessage
<1>4. CASE ReadPart
  <2>1. fed' < PerMsg * (delivered' + 1) /\ fed' = taken' /\ taken' \in Nat
    BY <1>4 DEF ReadPart, Complete
  <2>2. CASE pending /\ RecvNext
    BY <1>4, <2>1, <2>2, RecvNextTakes DEF ReadPart
  <2>3. CASE /\ ~pending
             /\ busy' = FALSE /\ reading' = FALSE /\ req' = "none"
             /\ UNCHANGED <<ok, pending, turn>>
    BY <1>4, <2>1, <2>3 DEF ReadPart
  <2> QED
    BY <1>4, <2>2, <2>3 DEF ReadPart
<1>5. CASE ReadFailed
  BY <1>5 DEF ReadFailed, Report
<1>6. CASE UserNext
  BY <1>6, RecvNextTakes DEF UserNext, data
<1>7. CASE UserDeinit
  BY <1>7 DEF UserDeinit, data
<1>8. CASE \E n \in 0..MaxChunks : Write(n)
  <2>1. PICK n \in 0..MaxChunks : Write(n)
    BY <1>8
  <2>2. written' \in Nat /\ events' \in Nat /\ (life = "open" => events' > 0)
    BY <2>1 DEF Write
  <2> QED
    BY <2>1, <2>2 DEF Write
<1>9. CASE Serve
  BY <1>9 DEF Serve
<1>10. CASE UNCHANGED vars
  BY <1>10 DEF vars
<1> QED
  BY <1>1, <1>2, <1>3, <1>4, <1>5, <1>6, <1>7, <1>8, <1>9, <1>10
     DEF Next, ReadCb

(* Every reachable state satisfies the invariant. *)
THEOREM Invariance == Safety => []IInv
<1>1. Init => IInv
  BY InitIInv
<1>2. IInv /\ [Next]_vars => IInv'
  BY NextKeeps
<1> QED
  BY <1>1, <1>2, PTL DEF Safety

-----------------------------------------------------------------------------
(* The variables keep their types. *)
THEOREM TypeCorrect == Safety => []TypeOK
<1>1. IInv => TypeOK
  BY DEF IInv
<1> QED
  BY <1>1, Invariance, PTL

(* The one request object is free whenever somebody may send it. *)
THEOREM SingleReadHolds == Safety => []SingleRead
<1>1. IInv => SingleRead
  BY DEF IInv, OneHand, SingleRead
<1> QED
  BY <1>1, Invariance, PTL

(* Whatever is in the file, something will make the receiver read it. *)
THEOREM NoLostWakeupHolds == Safety => []NoLostWakeup
<1>1. IInv => NoLostWakeup
  BY DEF IInv
<1> QED
  BY <1>1, Invariance, PTL

(* A sleeping receiver has delivered every whole message it has read. *)
THEOREM NoStrandedMessageHolds == Safety => []NoStrandedMessage
<1>1. IInv => NoStrandedMessage
  BY DEF IInv, Drained, NoStrandedMessage
<1> QED
  BY <1>1, Invariance, PTL

(* No read is in flight once the receiver is destroyed. *)
THEOREM NoReadOutlivesHolds == Safety => []NoReadOutlives
<1>1. IInv => NoReadOutlives
  BY DEF IInv, OneHand, NoReadOutlives
<1> QED
  BY <1>1, Invariance, PTL

-----------------------------------------------------------------------------
(* Without refusals the flag "reading" tells the truth. *)
ReadingIsInFlight == (reading => req # "none") /\ life # "aborted"

LEMMA ReadingStarts == Init => ReadingIsInFlight
BY DEF Init, ReadingIsInFlight

LEMMA ReadingKept ==
  ASSUME Refusals = FALSE, IInv, ReadingIsInFlight, [Next]_vars
  PROVE  ReadingIsInFlight'
<1> USE DEF ReadingIsInFlight
<1>1. CASE Open \/ WatchCb \/ UserNext \/ ReadPart
  <2>1. ~Refusals
    OBVIOUS
  <2>2. RecvNext => req' = "queued"
    BY <2>1 DEF RecvNext
  <2>3. life' # "aborted"
    BY <1>1 DEF Open, WatchCb, UserNext, ReadPart
  <2> QED
    BY <1>1, <2>2, <2>3 DEF Open, WatchCb, UserNext, ReadPart
<1>2. CASE ReadMessage \/ ReadFailed
  BY <1>2 DEF ReadMessage, ReadFailed
<1>3. CASE UserDeinit
  BY <1>3 DEF UserDeinit, IInv, OneHand
<1>4. CASE (\E n \in 0..MaxChunks : Write(n)) \/ Serve
  BY <1>4 DEF Write, Serve
<1>5. CASE UNCHANGED vars
  BY <1>5 DEF vars
<1> QED
  BY <1>1, <1>2, <1>3, <1>4, <1>5 DEF Next, ReadCb

(* The assertion of upd_msgpack_recv_deinit can fail only after a driver   *)
(* refused a read request: nothing else leaves "reading" behind.           *)
THEOREM DeinitAssertionHolds ==
  ASSUME Refusals = FALSE PROVE Safety => []DeinitAssertion
<1>1. IInv /\ ReadingIsInFlight /\ [Next]_vars => ReadingIsInFlight'
  BY ReadingKept
<1>2. ReadingIsInFlight => DeinitAssertion
  BY DEF ReadingIsInFlight, DeinitAssertion
<1> QED
  BY <1>1, <1>2, ReadingStarts, Invariance, PTL DEF Safety
=============================================================================
