---------------------------- MODULE DuplexProofs ----------------------------
(***************************************************************************)
(* Proofs about Duplex, for requests and replies of any length, any limit  *)
(* on memory and any number of writes.                                     *)
(*                                                                         *)
(* The server's properties need to know that its user is busy exactly      *)
(* while it has something to do (Employed); the account needs arithmetic   *)
(* modulo SIZE_MAX+1 (Shift).  That the server is the stream MsgpackRecv   *)
(* assumes needs one fact about both ends: what is written to the file and *)
(* not taken from it is in the server's buffer (InTransit).                *)
(***************************************************************************)
EXTENDS Duplex, TLAPS

Employed == working = (job # "idle")

InTransit == up => written = taken + out

Counters == written \in Nat /\ taken \in Nat /\ fed \in Nat
              /\ delivered \in Nat /\ events \in Nat

IInv == TypeOK /\ Employed /\ NoStrandedRequest

-----------------------------------------------------------------------------
(* Remainders of sums and differences are sizes. *)
LEMMA PlusIsSize ==
  ASSUME NEW a \in Nat, NEW b \in Nat PROVE Plus(a, b) \in 0..SizeMax
BY ServerAssumption DEF Plus

LEMMA MinusIsSize ==
  ASSUME NEW a \in Nat, NEW b \in Int PROVE Minus(a, b) \in 0..SizeMax
BY ServerAssumption DEF Minus

(* A step of the receiver's half leaves the server alone. *)
LEMMA ServerKeeps == IInv /\ UNCHANGED server => IInv'
BY DEF IInv, TypeOK, Employed, NoStrandedRequest, server

LEMMA WriteKeeps ==
  ASSUME NEW n \in 1..MaxSent, IInv, Write(n) \/ WriteRefused(n) PROVE IInv'
<1> USE ServerAssumption DEF IInv, TypeOK, Employed, NoStrandedRequest
<1>1. CASE Write(n)
  <2>1. mem' \in 0..SizeMax
    BY <1>1, PlusIsSize DEF Write
  <2>2. working' = TRUE
    <3>1. CASE working
      BY <1>1, <3>1 DEF Write
    <3>2. CASE ~working
      BY <1>1, <3>2 DEF Write, Called
    <3> QED
      BY <3>1, <3>2
  <2>3. job' \in {"pop", "work"}
    BY <1>1 DEF Write, Called
  <2>4. held' \in Nat /\ sent' \in Nat /\ writes' \in Nat
    BY <1>1 DEF Write
  <2> QED
    BY <1>1, <2>1, <2>2, <2>3, <2>4 DEF Write
<1>2. CASE WriteRefused(n)
  BY <1>2 DEF WriteRefused
<1> QED
  BY <1>1, <1>2

LEMMA PopKeeps == ASSUME IInv, Pop PROVE IInv'
<1> USE ServerAssumption DEF IInv, TypeOK, Employed, NoStrandedRequest
<1>1. /\ mem \in Nat /\ Reported(PerReq) \in Int /\ Reported(held) \in Int
      /\ Repeated \in Nat
  BY DEF Reported, Repeated
<1>2. CASE PopMessage
  <2>1. mem' \in 0..SizeMax
    BY <1>1, <1>2, MinusIsSize DEF PopMessage
  <2>2. held' \in Nat /\ parsed' \in 0..(PerReq - 1) /\ popped' \in Nat
    BY <1>2 DEF PopMessage
  <2>3. drift' \in Nat
    BY <1>1, <1>2 DEF PopMessage
  <2> QED
    BY <1>2, <2>1, <2>2, <2>3 DEF PopMessage
<1>3. CASE PopPart
  <2>1. mem' \in 0..SizeMax
    BY <1>1, <1>3, MinusIsSize DEF PopPart
  <2>2. parsed' \in 0..(PerReq - 1) /\ held' < PerReq
    BY <1>3 DEF PopPart
  <2>3. drift' \in Nat /\ working' = FALSE /\ job' = "idle"
    BY <1>1, <1>3 DEF PopPart, Rest
  <2>4. UNCHANGED <<held, lost, broken, out, sent, popped, writes, refused, up>>
    BY <1>3 DEF PopPart
  <2> QED
    BY <2>1, <2>2, <2>3, <2>4
<1>4. CASE PopBad
  BY <1>4 DEF PopBad, Rest
<1>5. CASE PopUnlisted
  BY <1>5 DEF PopUnlisted, Rest
<1> QED
  BY <1>2, <1>3, <1>4, <1>5 DEF Pop

LEMMA OtherServerStepsKeep ==
  ASSUME IInv, WriteAnswered \/ Reply(PerMsg) \/ HandleRead \/ ServerDeinit
  PROVE  IInv'
<1> USE ServerAssumption, DuplexAssumption
    DEF IInv, TypeOK, Employed, NoStrandedRequest
<1>1. CASE WriteAnswered
  BY <1>1 DEF WriteAnswered
<1>2. CASE Reply(PerMsg)
  BY <1>2 DEF Reply
<1>3. CASE HandleRead
  BY <1>3 DEF HandleRead
<1>4. CASE ServerDeinit
  <2>1. parsed' \in 0..(PerReq - 1) /\ held' = 0 /\ out' = 0 /\ up' = FALSE
    BY <1>4 DEF ServerDeinit
  <2>2. held' \in Nat /\ held' < PerReq /\ out' \in Nat
    BY <2>1
  <2> QED
    BY <1>4, <2>1, <2>2 DEF ServerDeinit
<1> QED
  BY <1>1, <1>2, <1>3, <1>4

(* Every step of the composition keeps the server's invariant. *)
LEMMA NextKeeps == IInv /\ [Next]_vars => IInv'
<1> SUFFICES ASSUME IInv, [Next]_vars PROVE IInv'
  OBVIOUS
<1>1. CASE \E n \in 1..MaxSent : ClientWrite(n)
  BY <1>1, WriteKeeps DEF ClientWrite
<1>2. CASE ServerPop
  BY <1>2, PopKeeps DEF ServerPop
<1>3. CASE ClientAnswered \/ ServerReply \/ ServeRead \/ CloseServer
  BY <1>3, OtherServerStepsKeep
     DEF ClientAnswered, ServerReply, ServeRead, CloseServer
<1>4. CASE ReadCb \/ Open \/ WatchCb \/ UserNext \/ UserDeinit
  BY <1>4, ServerKeeps DEF ReadCb, Open, WatchCb, UserNext, UserDeinit
<1>5. CASE UNCHANGED vars
  BY <1>5, ServerKeeps DEF vars
<1> QED
  BY <1>1, <1>2, <1>3, <1>4, <1>5 DEF Next

THEOREM Invariance == Spec => []IInv
<1>1. Init => IInv
  <2> SUFFICES ASSUME Init PROVE IInv
    OBVIOUS
  <2>1. mem \in 0..SizeMax /\ parsed \in 0..(PerReq - 1) /\ held < PerReq
    BY ServerAssumption DEF Init, ServerInit
  <2> QED
    BY <2>1 DEF Init, ServerInit, IInv, TypeOK, Employed, NoStrandedRequest
<1> QED
  BY <1>1, NextKeeps, PTL DEF Spec

(* The variables of the server keep their types. *)
THEOREM TypeCorrect == Spec => []TypeOK
<1>1. IInv => TypeOK
  BY DEF IInv
<1> QED
  BY <1>1, Invariance, PTL

(* An idle server has popped every whole request. *)
THEOREM NoStrandedRequestHolds == Spec => []NoStrandedRequest
<1>1. IInv => NoStrandedRequest
  BY DEF IInv
<1> QED
  BY <1>1, Invariance, PTL

-----------------------------------------------------------------------------
(* The server is the stream MsgpackRecv assumes. *)

RP == INSTANCE MsgpackRecvProofs WITH Refusals <- FALSE,
                                      MaxChunks <- PerMsg * (MaxSent + 1)

LEMMA RecvAssumptionHolds == RP!RecvAssumption
<1>1. PerMsg * (MaxSent + 1) \in Nat
  BY ServerAssumption, DuplexAssumption
<1> QED
  BY <1>1, DuplexAssumption DEF RP!RecvAssumption

(* What is known of the two ends together. *)
Stream == IInv /\ InTransit /\ RP!IInv /\ RP!ReadingIsInFlight

LEMMA StartsAsRecv == Init => Recv!Init
BY DEF Init

LEMMA StepsAsRecv ==
  ASSUME Stream, [Next]_vars PROVE [Recv!Next]_Recv!vars
<1> USE DEF Stream
<1>1. CASE (\E n \in 1..MaxSent : ClientWrite(n)) \/ ClientAnswered
             \/ ServerPop \/ CloseServer \/ UNCHANGED vars
  <2>1. UNCHANGED receiver
    BY <1>1 DEF ClientWrite, ClientAnswered, ServerPop, CloseServer, vars
  <2> QED
    BY <2>1 DEF receiver, Recv!vars
<1>2. CASE ServerReply
  <2>1. written \in Nat /\ PerMsg \in Nat
    BY DuplexAssumption DEF RP!IInv, RP!TypeOK
  <2>2. Recv!Write(PerMsg)
    BY <1>2 DEF ServerReply
  <2>3. written + PerMsg <= PerMsg * (MaxSent + 1)
    BY <2>2 DEF Recv!Write
  <2>4. PerMsg \in 0..(PerMsg * (MaxSent + 1))
    BY <2>1, <2>3, ServerAssumption
  <2> QED
    BY <2>2, <2>4 DEF Recv!Next
<1>3. CASE ServeRead
  <2>1. taken' = written
    BY <1>3 DEF ServeRead, HandleRead, InTransit
  <2>2. Recv!Serve
    BY <1>3, <2>1 DEF ServeRead, Recv!Serve
  <2> QED
    BY <2>2 DEF Recv!Next
<1>4. CASE ReadCb
  BY <1>4 DEF ReadCb, Recv!Next, Recv!ReadCb
<1>5. CASE Open \/ WatchCb \/ UserNext \/ UserDeinit
  BY <1>5 DEF Open, WatchCb, UserNext, UserDeinit, Recv!Next
<1> QED
  BY <1>1, <1>2, <1>3, <1>4, <1>5 DEF Next

(* The receiver of Duplex is the one the proofs are about. *)
LEMMA SameReceiver == [Recv!Next]_Recv!vars => [RP!Next]_RP!vars
BY DEF Recv!Next, RP!Next, Recv!vars, RP!vars, Recv!Open, RP!Open,
       Recv!WatchCb, RP!WatchCb, Recv!ReadCb, RP!ReadCb, Recv!ReadMessage,
       RP!ReadMessage, Recv!ReadPart, RP!ReadPart, Recv!ReadFailed,
       RP!ReadFailed, Recv!UserNext, RP!UserNext, Recv!UserDeinit,
       RP!UserDeinit, Recv!Write, RP!Write, Recv!Serve, RP!Serve,
       Recv!RecvNext, RP!RecvNext, Recv!Report, RP!Report, Recv!Complete,
       RP!Complete, Recv!data, RP!data

LEMMA RecvStaysSound ==
  ASSUME Stream, [Next]_vars PROVE RP!IInv' /\ RP!ReadingIsInFlight'
<1>1. [RP!Next]_RP!vars
  BY StepsAsRecv, SameReceiver
<1> QED
  BY <1>1, RP!NextKeeps, RP!ReadingKept, RecvAssumptionHolds DEF Stream

(* A reply goes into the buffer and the file at once, and a read takes     *)
(* both away.                                                              *)
LEMMA TransitKept == ASSUME Stream, [Next]_vars PROVE InTransit'
<1> USE DuplexAssumption DEF Stream, InTransit
<1>1. written \in Nat /\ taken \in Nat /\ out \in Nat
  BY DEF IInv, TypeOK, RP!IInv, RP!TypeOK
<1>2. CASE ServerReply
  BY <1>1, <1>2 DEF ServerReply, Reply, Recv!Write
<1>3. CASE ServeRead
  BY <1>1, <1>3 DEF ServeRead, HandleRead
<1>4. CASE ReadCb
  <2>1. UNCHANGED <<up, out, written, taken>>
    BY <1>4 DEF ReadCb, server, Recv!ReadMessage, Recv!ReadPart, Recv!ReadFailed
  <2> QED
    BY <2>1
<1>5. CASE Open \/ WatchCb \/ UserNext \/ UserDeinit
  <2>1. UNCHANGED <<up, out, written, taken>>
    BY <1>5 DEF Open, WatchCb, UserNext, UserDeinit, server, Recv!Open,
       Recv!WatchCb, Recv!UserNext, Recv!UserDeinit, Recv!data
  <2> QED
    BY <2>1
<1>6. CASE (\E n \in 1..MaxSent : ClientWrite(n)) \/ ClientAnswered
             \/ ServerPop \/ UNCHANGED vars
  <2>1. UNCHANGED <<up, out, written, taken>>
    BY <1>6 DEF ClientWrite, Write, WriteRefused, ClientAnswered, WriteAnswered,
       ServerPop, Pop, PopMessage, PopPart, PopBad, PopUnlisted, vars,
       server, receiver
  <2> QED
    BY <2>1
<1>7. CASE CloseServer
  BY <1>7 DEF CloseServer, ServerDeinit
<1> QED
  BY <1>2, <1>3, <1>4, <1>5, <1>6, <1>7 DEF Next

LEMMA StreamInvariance == Spec => []Stream
<1>1. Init => RP!IInv /\ RP!ReadingIsInFlight
  <2>1. Init => RP!Init
    BY DEF Init, Recv!Init, RP!Init
  <2> QED
    BY <2>1, RP!InitIInv, RP!ReadingStarts, RecvAssumptionHolds
<1>2. Init => InTransit
  BY DEF Init, ServerInit, Recv!Init, InTransit
<1>3. IInv /\ InTransit /\ RP!IInv /\ RP!ReadingIsInFlight /\ [Next]_vars
        => InTransit' /\ RP!IInv' /\ RP!ReadingIsInFlight'
  BY RecvStaysSound, TransitKept DEF Stream
<1> QED
  BY <1>1, <1>2, <1>3, Invariance, PTL DEF Spec, Stream

(* Whatever MsgpackRecv shows of a receiver is true of one that reads from *)
(* this server: the server is the stream it assumes, and refuses no read.  *)
THEOREM RefinesRecvHolds == Spec => RefinesRecv
<1>1. Stream /\ [Next]_vars => [Recv!Next]_Recv!vars
  BY StepsAsRecv
<1> QED
  BY <1>1, StartsAsRecv, StreamInvariance, PTL DEF Spec, RefinesRecv, Recv!Safety

(* The assertion of upd_msgpack_recv_deinit holds against this server. *)
THEOREM DeinitAssertionHolds == Spec => []DeinitAssertion
<1>1. Stream => DeinitAssertion
  BY DEF Stream, RP!ReadingIsInFlight, DeinitAssertion, Recv!DeinitAssertion
<1> QED
  BY <1>1, StreamInvariance, PTL

-----------------------------------------------------------------------------
(* The account. *)

(* Division with a remainder, and that there is one way to do it. *)
LEMMA Division ==
  ASSUME NEW m \in Nat \ {0}, NEW x \in Int
  PROVE  x % m \in 0..(m - 1) /\ x \div m \in Int /\ x = m * (x \div m) + (x % m)
OBVIOUS

LEMMA OneRemainder ==
  ASSUME NEW m \in Nat \ {0}, NEW q \in Int, NEW r \in 0..(m - 1)
  PROVE  (m * q + r) % m = r
<1> DEFINE x == m * q + r
           p == x \div m
           s == x % m
<1>1. x \in Int /\ p \in Int /\ s \in 0..(m - 1) /\ x = m * p + s
  BY Division
<1>2. m * q + r = m * p + s
  BY <1>1
<1> HIDE DEF x, p, s
<1>3. m * (q - p) = s - r
  BY <1>1, <1>2
<1>4. q - p <= 0
  <2>1. SUFFICES ASSUME q - p >= 1 PROVE FALSE
    BY <1>1
  <2>2. m * (q - p) >= m
    BY <1>1, <2>1
  <2> QED
    BY <1>1, <1>3, <2>2
<1>5. q - p >= 0
  <2>1. SUFFICES ASSUME q - p <= -1 PROVE FALSE
    BY <1>1
  <2>2. m * (q - p) <= -m
    BY <1>1, <2>1
  <2> QED
    BY <1>1, <1>3, <2>2
<1>6. q = p
  BY <1>1, <1>4, <1>5
<1>7. s = r
  BY <1>1, <1>3, <1>6
<1> QED
  BY <1>7 DEF x, s

(* A sum may be reduced on the way. *)
LEMMA Shift ==
  ASSUME NEW m \in Nat \ {0}, NEW x \in Int, NEW y \in Int
  PROVE  ((x % m) + y) % m = (x + y) % m
<1> DEFINE r == x % m
           q == x \div m
           z == r + y
           p == z \div m
           s == z % m
<1>1. r \in 0..(m - 1) /\ q \in Int /\ x = m * q + r
  BY Division
<1>2. z \in Int
  BY <1>1
<1>3. s \in 0..(m - 1) /\ p \in Int /\ z = m * p + s
  <2> HIDE DEF z
  <2> QED
    BY <1>2, Division
<1> HIDE DEF r, q, p, s
<1>4. x + y = m * q + z
  BY <1>1
<1>5. m * (q + p) = m * q + m * p
  BY <1>1, <1>3
<1>6. x + y = m * (q + p) + s
  <2> HIDE DEF z
  <2> QED
    BY <1>1, <1>2, <1>3, <1>4, <1>5
<1>7. q + p \in Int
  BY <1>1, <1>3
<1>8. (m * (q + p) + s) % m = s
  BY <1>3, <1>7, OneRemainder
<1> QED
  BY <1>6, <1>8 DEF s, z, r

(* What Plus and Minus do to a count that is kept modulo SIZE_MAX+1. *)
LEMMA PlusShifts ==
  ASSUME NEW x \in Int, NEW n \in Nat
  PROVE  Plus(x % (SizeMax + 1), n) = (x + n) % (SizeMax + 1)
<1>1. SizeMax + 1 \in Nat \ {0}
  BY ServerAssumption
<1> QED
  BY <1>1, Shift DEF Plus

LEMMA MinusShifts ==
  ASSUME NEW x \in Int, NEW n \in Int
  PROVE  Minus(x % (SizeMax + 1), n) = (x - n) % (SizeMax + 1)
<1> DEFINE m == SizeMax + 1
           y == x - n
<1>1. m \in Nat \ {0} /\ y \in Int
  BY ServerAssumption
<1>2. x % m \in 0..(m - 1)
  BY <1>1, Division
<1>3. y % m \in 0..(m - 1)
  BY <1>1, Division
<1> HIDE DEF m, y
<1>4. m - n \in Int
  BY <1>1
<1>5. ((x % m) + (m - n)) % m = (x + (m - n)) % m
  BY <1>1, <1>4, Shift
<1>6. (x % m) + m - n = (x % m) + (m - n) /\ x + (m - n) = y + m
  BY <1>1, <1>2 DEF y
<1>7. ((y % m) + m) % m = (y + m) % m
  <2>1. m \in Int
    BY <1>1
  <2> QED
    BY <1>1, <2>1, Shift
<1>8. (y % m) + m = m * 1 + (y % m)
  BY <1>1, <1>3
<1>9. (m * 1 + (y % m)) % m = y % m
  BY <1>1, <1>3, OneRemainder
<1> QED
  BY <1>5, <1>6, <1>7, <1>8, <1>9 DEF Minus, m, y

(* The equation of the account is kept by every step: a write adds what it *)
(* brings, and a pop takes off what the unpacker reports, of which what it *)
(* repeats is noted.                                                       *)
LEMMA AccountKept ==
  ASSUME IInv, AccountExact, [Next]_vars PROVE AccountExact'
<1> USE ServerAssumption
<1> DEFINE balance == Base + held - parsed - drift
<1>1. /\ held \in Int /\ parsed \in Int /\ drift \in Int /\ Base \in Int
      /\ PerReq \in Int /\ balance \in Int
  BY DEF IInv, TypeOK
<1>2. up /\ ~lost => mem = balance % (SizeMax + 1)
  BY DEF AccountExact
<1>3. CASE \E n \in 1..MaxSent : ClientWrite(n)
  <2>1. PICK n \in 1..MaxSent : ClientWrite(n)
    BY <1>3
  <2>2. CASE Write(n)
    <3>1. /\ held' = held + n /\ mem' = Plus(mem, n)
          /\ UNCHANGED <<parsed, drift, lost, up>>
      BY <2>2 DEF Write
    <3>2. n \in Nat
      BY <2>1
    <3>3. balance' = balance + n
      BY <1>1, <3>1, <3>2
    <3> HIDE DEF balance
    <3>4. Plus(balance % (SizeMax + 1), n) = balance' % (SizeMax + 1)
      BY <1>1, <3>2, <3>3, PlusShifts
    <3>5. up' /\ ~lost' => mem' = balance' % (SizeMax + 1)
      BY <1>2, <3>1, <3>4
    <3> QED
      BY <3>5 DEF AccountExact, balance
  <2>3. CASE WriteRefused(n)
    BY <2>3 DEF WriteRefused, AccountExact
  <2> QED
    BY <2>1, <2>2, <2>3 DEF ClientWrite
<1>4. ASSUME NEW k \in Int, Reported(k) = k - parsed + Repeated,
             mem' = Minus(mem, Reported(k)), drift' = drift + Repeated,
             held' - parsed' = held - k,
             held' \in Int, parsed' \in Int, UNCHANGED <<lost, up>>
      PROVE  AccountExact'
  <2>1. Repeated \in Int /\ Reported(k) \in Int
    BY <1>1, <1>4 DEF Repeated
  <2>2. balance' = balance - Reported(k)
    <3>1. balance' = Base + (held' - parsed') - (drift + Repeated)
      BY <1>1, <1>4, <2>1
    <3>2. balance' = Base + (held - k) - (drift + Repeated)
      BY <1>4, <3>1
    <3>3. Reported(k) = k - parsed + Repeated /\ k \in Int
      BY <1>4
    <3>4. balance = Base + held - parsed - drift
      OBVIOUS
    <3> HIDE DEF balance
    <3> QED
      BY <1>1, <2>1, <3>2, <3>3, <3>4
  <2> HIDE DEF balance
  <2>3. Minus(balance % (SizeMax + 1), Reported(k)) = balance' % (SizeMax + 1)
    BY <1>1, <2>1, <2>2, MinusShifts
  <2>4. up' /\ ~lost' => mem' = balance' % (SizeMax + 1)
    BY <1>2, <1>4, <2>3
  <2> QED
    BY <2>4 DEF AccountExact, balance
<1>5. ASSUME NEW k \in Int PROVE Reported(k) = k - parsed + Repeated
  BY <1>1 DEF Reported, Repeated
<1>6. CASE PopMessage
  <2>1. /\ held' = held - PerReq /\ parsed' = 0
        /\ mem' = Minus(mem, Reported(PerReq)) /\ drift' = drift + Repeated
        /\ UNCHANGED <<lost, up>>
    BY <1>6 DEF PopMessage
  <2>2. held' \in Int /\ parsed' \in Int /\ held' - parsed' = held - PerReq
    BY <1>1, <2>1
  <2> QED
    BY <1>1, <1>4, <1>5, <2>1, <2>2
<1>7. CASE PopPart
  <2>1. /\ held' = held /\ parsed' = held
        /\ mem' = Minus(mem, Reported(held)) /\ drift' = drift + Repeated
        /\ UNCHANGED <<lost, up>>
    BY <1>7 DEF PopPart
  <2>2. held' \in Int /\ parsed' \in Int /\ held' - parsed' = held - held
    BY <1>1, <2>1
  <2> QED
    BY <1>1, <1>4, <1>5, <2>1, <2>2
<1>8. CASE PopBad \/ PopUnlisted
  BY <1>8 DEF PopBad, PopUnlisted, AccountExact
<1>9. CASE ClientAnswered \/ ServerReply \/ ServeRead
  BY <1>9 DEF ClientAnswered, WriteAnswered, ServerReply, Reply, ServeRead,
     HandleRead, AccountExact
<1>10. CASE CloseServer
  BY <1>10 DEF CloseServer, ServerDeinit, AccountExact
<1>11. CASE ReadCb \/ Open \/ WatchCb \/ UserNext \/ UserDeinit \/ UNCHANGED vars
  <2>1. UNCHANGED server
    BY <1>11 DEF ReadCb, Open, WatchCb, UserNext, UserDeinit, vars
  <2> QED
    BY <2>1 DEF server, AccountExact
<1> QED
  BY <1>3, <1>6, <1>7, <1>8, <1>9, <1>10, <1>11 DEF Next, ServerPop, Pop

(* The account is, modulo SIZE_MAX+1, what the unpacker holds less what it *)
(* has reported more than once, for either way of reporting and however    *)
(* many bytes are sent.                                                    *)
THEOREM AccountExactHolds == Spec => []AccountExact
<1>1. Init => AccountExact
  <2> SUFFICES ASSUME Init PROVE mem = (Base + held - parsed - drift) % (SizeMax + 1)
    BY DEF AccountExact
  <2>1. SizeMax + 1 \in Nat \ {0} /\ Base \in 0..((SizeMax + 1) - 1)
    BY ServerAssumption
  <2>2. ((SizeMax + 1) * 0 + Base) % (SizeMax + 1) = Base
    BY <2>1, OneRemainder
  <2>3. Base + 0 - 0 - 0 = (SizeMax + 1) * 0 + Base
    BY <2>1
  <2> QED
    BY <2>2, <2>3 DEF Init, ServerInit
<1>2. IInv /\ AccountExact /\ [Next]_vars => AccountExact'
  BY AccountKept
<1> QED
  BY <1>1, <1>2, Invariance, PTL DEF Spec

(* If the unpacker reports every byte once, nothing drifts, and what it    *)
(* holds has been sent.                                                    *)
Sound == drift = 0 /\ parsed <= held /\ held <= sent /\ sent <= MaxSent

LEMMA SoundKept ==
  ASSUME Cumulative = FALSE, IInv, Sound, [Next]_vars PROVE Sound'
<1> USE ServerAssumption DEF Sound
<1>1. /\ held \in Nat /\ parsed \in 0..(PerReq - 1) /\ sent \in Nat
      /\ drift \in Nat /\ MaxSent \in Nat /\ PerReq \in Nat
  BY DEF IInv, TypeOK
<1>2. CASE \E n \in 1..MaxSent : ClientWrite(n)
  <2>1. PICK n \in 1..MaxSent : ClientWrite(n)
    BY <1>2
  <2> QED
    BY <1>1, <2>1 DEF ClientWrite, Write, WriteRefused
<1>3. CASE PopMessage \/ PopPart
  BY <1>1, <1>3 DEF PopMessage, PopPart, Repeated
<1>4. CASE PopBad \/ PopUnlisted
  BY <1>4 DEF PopBad, PopUnlisted
<1>5. CASE ClientAnswered \/ ServerReply \/ ServeRead
  BY <1>5 DEF ClientAnswered, WriteAnswered, ServerReply, Reply, ServeRead,
     HandleRead
<1>6. CASE CloseServer
  BY <1>1, <1>6 DEF CloseServer, ServerDeinit
<1>7. CASE ReadCb \/ Open \/ WatchCb \/ UserNext \/ UserDeinit \/ UNCHANGED vars
  <2>1. UNCHANGED server
    BY <1>7 DEF ReadCb, Open, WatchCb, UserNext, UserDeinit, vars
  <2> QED
    BY <2>1 DEF server
<1> QED
  BY <1>2, <1>3, <1>4, <1>5, <1>6, <1>7 DEF Next, ServerPop, Pop

Held == up /\ ~lost => mem = Base + held - parsed

(* With such an unpacker, and fewer bytes sent than a size_t counts, the   *)
(* account is what is held and no remainder of it (msgpack.h:211-228).     *)
THEOREM AccountIsHeld ==
  ASSUME Cumulative = FALSE, Base + MaxSent <= SizeMax PROVE Spec => []Held
<1>1. Init => Sound
  BY ServerAssumption DEF Init, ServerInit, Sound
<1>2. IInv /\ Sound /\ [Next]_vars => Sound'
  BY SoundKept
<1>3. IInv /\ Sound /\ AccountExact => Held
  <2> SUFFICES ASSUME IInv, Sound, AccountExact, up, ~lost
               PROVE  mem = Base + held - parsed
    BY DEF Held
  <2> DEFINE r == Base + held - parsed
  <2>1. r \in 0..((SizeMax + 1) - 1) /\ SizeMax + 1 \in Nat \ {0}
    BY ServerAssumption DEF IInv, TypeOK, Sound
  <2>2. Base + held - parsed - drift = r
    BY <2>1, ServerAssumption DEF IInv, TypeOK, Sound
  <2>3. mem = r % (SizeMax + 1)
    BY <2>2 DEF AccountExact
  <2> HIDE DEF r
  <2>4. ((SizeMax + 1) * 0 + r) % (SizeMax + 1) = r
    BY <2>1, OneRemainder
  <2>5. (SizeMax + 1) * 0 + r = r
    BY <2>1
  <2> QED
    BY <2>3, <2>4, <2>5 DEF r
<1> QED
  BY <1>1, <1>2, <1>3, Invariance, AccountExactHolds, PTL DEF Spec
=============================================================================
