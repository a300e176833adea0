----------------------------- MODULE UdpSocketProofs ----------------------------
(***************************************************************************)
(* What Send took is written in order and once, for any peers, any limit of *)
(* a datagram and any number of sends and errors, and never while its       *)
(* memory may be freed.                                                     *)
(*                                                                         *)
(* Neither is inductive: a completion cuts as many buffers as the operation *)
(* had from the front of in_writing_buf_, which is right only because there *)
(* is one operation, and it has what in_writing_buf_ has.                   *)
(*                                                                         *)
(* Then the lists in memory: however Push, Cut and operator= set pointers,  *)
(* each list has the buffers that UdpSocket says, and frees them once.      *)
(***************************************************************************)
EXTENDS BufferList, SequenceTheorems, FiniteSetTheorems,
        WellFoundedInduction, TLAPS

Operation == [peer : Peer, bufs : Buffers]

(* The operation in progress has what is in in_writing_buf_, and nothing is *)
(* left there when no write is in progress.                                 *)
Pump ==
  /\ ~in_writing => in_flight = <<>> /\ in_writing_buf = <<>>
  /\ in_flight # <<>> =>
       in_flight = <<[peer |-> in_writing_peer, bufs |-> in_writing_buf]>>
  /\ in_writing_buf # <<>> => in_writing_peer \in Peer

(* What the socket still has for p. *)
Pending(waiting, bufs, peer, p) ==
  (IF peer = p THEN bufs ELSE <<>>) \o waiting[p]

(* The two parts of NothingLost that wait, put together. *)
Kept ==
  \A p \in Peer :
    sent[p] = wire[p] \o Pending(write_bufs, in_writing_buf, in_writing_peer, p)

PumpInv == TypeOK /\ Pump /\ Kept

LEMMA NoBuffersType ==
  <<>> \in Buffers /\ NoBuffers \in [Peer -> Buffers]
BY EmptySeq DEF Buffers, NoBuffers

(* Equations under a name, so that the provers instantiate them at once. *)
Associates(s, t, u) == (s \o t) \o u = s \o (t \o u)

AppendsLast(done, first, rest, b) ==
  done \o (first \o Append(rest, b)) = Append(done \o (first \o rest), b)

LEMMA Associative == \A s, t, u \in Buffers : Associates(s, t, u)
<1>1. \A S : \A s, t, u \in Seq(S) : Associates(s, t, u)
  BY ConcatAssociative, Zenon DEF Associates
<1>2. QED
  BY <1>1, Zenon DEF Buffers

LEMMA PendingType ==
  ASSUME NEW waiting \in [Peer -> Buffers], NEW bufs \in Buffers, NEW peer,
         NEW p \in Peer
  PROVE  Pending(waiting, bufs, peer, p) \in Buffers
<1>1. (IF peer = p THEN bufs ELSE <<>>) \in Buffers
  BY NoBuffersType
<1>2. QED
  BY <1>1, ConcatProperties DEF Pending, Buffers

LEMMA EmptyPending ==
  ASSUME NEW waiting \in [Peer -> Buffers], NEW peer, NEW p \in Peer
  PROVE  Pending(waiting, <<>>, peer, p) = waiting[p]
BY ConcatEmptySeq DEF Pending, Buffers

LEMMA OneOperation ==
  ASSUME NEW o \in Operation
  PROVE  /\ <<o>> \in Seq(Operation)
         /\ Append(<<>>, o) = <<o>>
         /\ Tail(<<o>>) = <<>> /\ Head(<<o>>) = o /\ <<o>> # <<>>
OBVIOUS

LEMMA InitPump == Init => PumpInv
<1> SUFFICES ASSUME Init PROVE PumpInv
  OBVIOUS
<1>1. TypeOK
  BY NoBuffersType, EmptySeq DEF Init, TypeOK
<1>2. Pump
  BY DEF Init, Pump
<1>3. Kept
  <2> SUFFICES ASSUME NEW p \in Peer
               PROVE  sent[p] = wire[p] \o Pending(write_bufs, in_writing_buf,
                                                   in_writing_peer, p)
    BY DEF Kept
  <2>1. Pending(write_bufs, in_writing_buf, in_writing_peer, p) = <<>>
    BY NoBuffersType, EmptyPending DEF Init, NoBuffers
  <2>2. sent[p] = <<>> /\ wire[p] = <<>>
    BY DEF Init, NoBuffers
  <2>3. QED
    BY <2>1, <2>2, NoBuffersType, ConcatEmptySeq DEF Buffers
<1>4. QED
  BY <1>1, <1>2, <1>3 DEF PumpInv

(* TryStartWrite moves buffers, in order, from what waits to what is        *)
(* written, and starts the one operation. *)
LEMMA TryStartKeeps ==
  ASSUME NEW waiting \in [Peer -> Buffers], NEW bufs \in Buffers,
         in_writing_peer \in Peer \cup {NoPeer},
         bufs # <<>> => in_writing_peer \in Peer,
         TryStartWrite(waiting, bufs, <<>>)
  PROVE  /\ write_bufs' \in [Peer -> Buffers]
         /\ in_writing_buf' \in Buffers
         /\ in_writing_peer' \in Peer \cup {NoPeer}
         /\ in_writing' \in BOOLEAN
         /\ in_flight' \in Seq(Operation)
         /\ Pump'
         /\ \A p \in Peer :
              Pending(write_bufs, in_writing_buf, in_writing_peer, p)'
                = Pending(waiting, bufs, in_writing_peer, p)
<1>1. ASSUME NEW left \in [Peer -> Buffers], NEW b \in Buffers,
             NEW peer \in Peer, StartWrite(left, b, peer, <<>>)
      PROVE  /\ write_bufs' \in [Peer -> Buffers]
             /\ in_writing_buf' \in Buffers
             /\ in_writing_peer' \in Peer \cup {NoPeer}
             /\ in_writing' \in BOOLEAN
             /\ in_flight' \in Seq(Operation)
             /\ Pump'
  <2> DEFINE o == [peer |-> peer, bufs |-> b]
  <2>1. o \in Operation
    BY DEF Operation
  <2>2. /\ write_bufs' = left /\ in_writing_buf' = b
        /\ in_writing_peer' = peer /\ in_writing' = TRUE
        /\ in_flight' = Append(<<>>, o)
    BY <1>1 DEF StartWrite
  <2>3. in_flight' = <<[peer |-> in_writing_peer', bufs |-> in_writing_buf']>>
    BY <2>1, <2>2, OneOperation
  <2>4. in_flight' \in Seq(Operation)
    BY <2>1, <2>2, OneOperation
  <2>5. QED
    BY <2>2, <2>3, <2>4 DEF Pump
<1>2. CASE bufs # <<>> /\ StartWrite(waiting, bufs, in_writing_peer, <<>>)
  <2>1. in_writing_peer \in Peer
    BY <1>2
  <2>2. /\ write_bufs' = waiting /\ in_writing_buf' = bufs
        /\ in_writing_peer' = in_writing_peer
    BY <1>2 DEF StartWrite
  <2>3. \A p \in Peer :
          Pending(write_bufs, in_writing_buf, in_writing_peer, p)'
            = Pending(waiting, bufs, in_writing_peer, p)
    BY <2>2 DEF Pending
  <2>4. QED
    BY <1>1, <1>2, <2>1, <2>3
<1>3. ASSUME bufs = <<>>, NEW q \in Peer,
             StartWrite([waiting EXCEPT ![q] = <<>>], waiting[q], q, <<>>)
      PROVE  /\ write_bufs' \in [Peer -> Buffers]
             /\ in_writing_buf' \in Buffers
             /\ in_writing_peer' \in Peer \cup {NoPeer}
             /\ in_writing' \in BOOLEAN
             /\ in_flight' \in Seq(Operation)
             /\ Pump'
             /\ \A p \in Peer :
                  Pending(write_bufs, in_writing_buf, in_writing_peer, p)'
                    = Pending(waiting, bufs, in_writing_peer, p)
  <2> DEFINE left == [waiting EXCEPT ![q] = <<>>]
  <2>1. left \in [Peer -> Buffers] /\ waiting[q] \in Buffers
    BY NoBuffersType
  <2>2. /\ write_bufs' = left /\ in_writing_buf' = waiting[q]
        /\ in_writing_peer' = q
    BY <1>3 DEF StartWrite
  <2>3. ASSUME NEW p \in Peer
        PROVE  Pending(left, waiting[q], q, p)
                 = Pending(waiting, bufs, in_writing_peer, p)
    <3>1. Pending(waiting, bufs, in_writing_peer, p) = waiting[p]
      BY <1>3, EmptyPending
    <3>2. CASE p = q
      <4>1. Pending(left, waiting[q], q, p) = waiting[q] \o <<>>
        BY <3>2 DEF Pending
      <4>2. QED
        BY <2>1, <3>1, <3>2, <4>1, ConcatEmptySeq DEF Buffers
    <3>3. CASE p # q
      <4>1. Pending(left, waiting[q], q, p) = <<>> \o waiting[p]
        BY <3>3 DEF Pending
      <4>2. waiting[p] \in Buffers
        OBVIOUS
      <4>3. QED
        BY <3>1, <4>1, <4>2, ConcatEmptySeq DEF Buffers
    <3>4. QED
      BY <3>2, <3>3
  <2>4. \A p \in Peer :
          Pending(write_bufs, in_writing_buf, in_writing_peer, p)'
            = Pending(waiting, bufs, in_writing_peer, p)
    <3> HIDE DEF left
    <3>1. QED
      BY <2>2, <2>3 DEF Pending
  <2>5. QED
    BY <1>1, <1>3, <2>1, <2>4
<1>4. CASE /\ bufs = <<>> /\ waiting = NoBuffers
           /\ write_bufs' = waiting /\ in_writing_buf' = bufs
           /\ in_writing' = FALSE /\ in_flight' = <<>>
           /\ UNCHANGED in_writing_peer
  <2>1. in_flight' \in Seq(Operation)
    BY <1>4, EmptySeq
  <2>2. Pump'
    BY <1>4 DEF Pump
  <2>3. \A p \in Peer :
          Pending(write_bufs, in_writing_buf, in_writing_peer, p)'
            = Pending(waiting, bufs, in_writing_peer, p)
    BY <1>4 DEF Pending
  <2>4. QED
    BY <1>4, <2>1, <2>2, <2>3
<1>5. QED
  BY <1>2, <1>3, <1>4 DEF TryStartWrite

(* A buffer that is put at the end of what waits is at the end of all. *)
LEMMA AppendLast ==
  \A done, first, rest \in Buffers : \A b \in Nat :
    AppendsLast(done, first, rest, b)
<1> SUFFICES ASSUME NEW done \in Buffers, NEW first \in Buffers,
                    NEW rest \in Buffers, NEW b \in Nat
             PROVE  AppendsLast(done, first, rest, b)
  OBVIOUS
<1> DEFINE mid == first \o rest
           last == <<b>>
<1>1. last \in Buffers
  BY DEF Buffers
<1>2. Append(rest, b) = rest \o last
  BY AppendIsConcat DEF Buffers
<1>3. mid \in Buffers
  BY ConcatProperties DEF Buffers
<1>4. done \o mid \in Buffers
  BY <1>3, ConcatProperties DEF Buffers
<1> HIDE DEF mid, last
<1>5. Associates(first, rest, last) /\ Associates(done, mid, last)
  BY <1>1, <1>3, Associative, Zenon
<1>6. first \o (rest \o last) = mid \o last
  BY <1>5 DEF Associates, mid
<1>7. done \o (mid \o last) = (done \o mid) \o last
  BY <1>5 DEF Associates
<1>8. Append(done \o mid, b) = (done \o mid) \o last
  BY <1>4, AppendIsConcat DEF Buffers, last
<1>9. done \o (first \o Append(rest, b)) = Append(done \o mid, b)
  BY <1>2, <1>6, <1>7, <1>8
<1>10. QED
  BY <1>9 DEF AppendsLast, mid

LEMMA SendPump ==
  ASSUME PumpInv, NEW q \in Peer, Send(q)
  PROVE  PumpInv'
<1> DEFINE waiting == [write_bufs EXCEPT ![q] = Append(@, sends + 1)]
<1>1. /\ write_bufs \in [Peer -> Buffers] /\ in_writing_buf \in Buffers
      /\ in_writing_peer \in Peer \cup {NoPeer}
      /\ in_flight \in Seq(Operation)
      /\ sends + 1 \in Nat /\ in_writing \in BOOLEAN
      /\ sent \in [Peer -> Buffers] /\ wire \in [Peer -> Buffers]
  BY DEF PumpInv, TypeOK, Operation
<1>2. \A p \in Peer, s \in Buffers : Append(s, sends + 1) \in Buffers
  BY <1>1, AppendProperties DEF Buffers
<1>3. waiting \in [Peer -> Buffers]
  BY <1>1, <1>2
<1>4. /\ sent' = [sent EXCEPT ![q] = Append(@, sends + 1)]
      /\ sends' = sends + 1 /\ Put(waiting)
      /\ UNCHANGED <<opened, closed, reading, gave_up, wire, errors, reads>>
  BY DEF Send
<1>5. sent' \in [Peer -> Buffers]
  BY <1>1, <1>2, <1>4
<1> HIDE DEF waiting
<1>6. /\ write_bufs' \in [Peer -> Buffers]
      /\ in_writing_buf' \in Buffers
      /\ in_writing_peer' \in Peer \cup {NoPeer}
      /\ in_writing' \in BOOLEAN
      /\ in_flight' \in Seq(Operation)
      /\ Pump'
      /\ \A p \in Peer :
           Pending(write_bufs, in_writing_buf, in_writing_peer, p)'
             = Pending(waiting, in_writing_buf, in_writing_peer, p)
  <2>1. CASE in_writing
    <3>1. write_bufs' = waiting
          /\ UNCHANGED <<in_writing_buf, in_writing_peer, in_writing, in_flight>>
      BY <1>4, <2>1 DEF Put
    <3>2. Pump'
      BY <3>1 DEF PumpInv, Pump
    <3>3. \A p \in Peer :
            Pending(write_bufs, in_writing_buf, in_writing_peer, p)'
              = Pending(waiting, in_writing_buf, in_writing_peer, p)
      BY <3>1 DEF Pending
    <3>4. QED
      BY <1>1, <1>3, <3>1, <3>2, <3>3
  <2>2. CASE ~in_writing
    <3>1. in_flight = <<>> /\ in_writing_buf = <<>>
      BY <2>2 DEF PumpInv, Pump
    <3>2. TryStartWrite(waiting, in_writing_buf, <<>>)
      BY <1>4, <2>2, <3>1 DEF Put
    <3>3. QED
      BY <1>1, <1>3, <3>1, <3>2, TryStartKeeps
  <2>3. QED
    BY <2>1, <2>2
<1>7. TypeOK'
  BY <1>1, <1>4, <1>5, <1>6 DEF PumpInv, TypeOK, Operation
<1>8. Kept'
  <2>1. ASSUME NEW p \in Peer
        PROVE  sent'[p] = wire[p] \o Pending(waiting, in_writing_buf,
                                             in_writing_peer, p)
    <3>1. sent[p] = wire[p] \o Pending(write_bufs, in_writing_buf,
                                       in_writing_peer, p)
      BY DEF PumpInv, Kept
    <3>2. sent'[p] = IF p = q THEN Append(sent[p], sends + 1) ELSE sent[p]
      BY <1>1, <1>4
    <3>3. wire[p] \in Buffers
      BY <1>1
    <3> DEFINE first == IF in_writing_peer = p THEN in_writing_buf ELSE <<>>
    <3>4. first \in Buffers /\ write_bufs[p] \in Buffers
      BY <1>1, NoBuffersType
    <3>5. /\ Pending(write_bufs, in_writing_buf, in_writing_peer, p)
               = first \o write_bufs[p]
          /\ Pending(waiting, in_writing_buf, in_writing_peer, p)
               = first \o waiting[p]
      BY DEF Pending
    <3> HIDE DEF first
    <3>6. waiting[p] = IF p = q THEN Append(write_bufs[p], sends + 1)
                       ELSE write_bufs[p]
      BY <1>1 DEF waiting
    <3>7. wire[p] \o (first \o Append(write_bufs[p], sends + 1))
            = Append(wire[p] \o (first \o write_bufs[p]), sends + 1)
      <4>1. AppendsLast(wire[p], first, write_bufs[p], sends + 1)
        BY <1>1, <3>3, <3>4, AppendLast, Zenon
      <4>2. QED
        BY <4>1 DEF AppendsLast
    <3>8. QED
      BY <3>1, <3>2, <3>5, <3>6, <3>7
  <2>2. ASSUME NEW p \in Peer
        PROVE  sent'[p] = wire'[p] \o
                 Pending(write_bufs', in_writing_buf', in_writing_peer', p)
    BY <1>4, <1>6, <2>1, <2>2 DEF Pending
  <2>3. QED
    BY <2>2 DEF Kept, Pending
<1>9. QED
  BY <1>6, <1>7, <1>8 DEF PumpInv

(* The operation in progress. *)
LEMMA InFlight ==
  ASSUME PumpInv, in_flight # <<>>
  PROVE  /\ in_writing_peer \in Peer
         /\ in_writing_buf \in Buffers
         /\ Head(in_flight) = [peer |-> in_writing_peer, bufs |-> in_writing_buf]
         /\ Tail(in_flight) = <<>>
<1> DEFINE o == [peer |-> in_writing_peer, bufs |-> in_writing_buf]
<1>1. in_flight = <<o>> /\ in_flight \in Seq(Operation)
  BY DEF PumpInv, Pump, TypeOK, Operation
<1>2. in_flight[1] \in Operation
  BY <1>1, ElementOfSeq
<1>3. o \in Operation
  BY <1>1, <1>2
<1>4. in_writing_peer \in Peer
  BY <1>3 DEF Operation
<1>5. in_writing_buf \in Buffers
  BY DEF PumpInv, TypeOK
<1> HIDE DEF o
<1>6. Head(in_flight) = o /\ Tail(in_flight) = <<>>
  BY <1>1, <1>3, OneOperation
<1>7. QED
  BY <1>4, <1>5, <1>6 DEF o

(* A write that completes cuts all that it wrote, which is all there is. *)
LEMMA WrittenStarts ==
  ASSUME PumpInv, Written
  PROVE  /\ wire' = [wire EXCEPT ![in_writing_peer] = @ \o in_writing_buf]
         /\ TryStartWrite(write_bufs, <<>>, <<>>)
         /\ UNCHANGED <<opened, closed, reading, gave_up, sent, sends, errors,
                        reads>>
<1> DEFINE bufs == in_writing_buf
           peer == in_writing_peer
<1>1. /\ bufs \in Buffers
      /\ Head(in_flight) = [peer |-> peer, bufs |-> bufs]
      /\ Tail(in_flight) = <<>>
  BY InFlight DEF Written
<1>2. /\ wire' = [wire EXCEPT ![peer] = @ \o bufs]
      /\ TryStartWrite(write_bufs, Cut(bufs, Len(bufs)), <<>>)
      /\ UNCHANGED <<opened, closed, reading, gave_up, sent, sends, errors,
                     reads>>
  <2> DEFINE w == Head(in_flight)
  <2>1. w.peer = peer /\ w.bufs = bufs
    BY <1>1
  <2>2. /\ wire' = [wire EXCEPT ![w.peer] = @ \o w.bufs]
        /\ WriteCallback(Len(w.bufs))
        /\ UNCHANGED <<opened, closed, reading, gave_up, sent, sends, errors,
                       reads>>
    BY DEF Written
  <2> HIDE DEF w
  <2>3. TryStartWrite(write_bufs, Cut(bufs, Len(bufs)), <<>>)
    BY <1>1, <2>1, <2>2 DEF WriteCallback
  <2>4. QED
    BY <2>1, <2>2, <2>3
<1>3. Cut(bufs, Len(bufs)) = <<>>
  <2>1. Len(bufs) \in Nat
    BY <1>1, LenProperties DEF Buffers
  <2>2. Len(bufs) < Len(bufs) + 1 /\ Len(bufs) \in Int /\ Len(bufs) + 1 \in Int
    BY <2>1
  <2>3. QED
    BY <2>2, SubSeqEmpty DEF Cut
<1>4. QED
  BY <1>2, <1>3

LEMMA WrittenPump == PumpInv /\ Written => PumpInv'
<1> SUFFICES ASSUME PumpInv, Written PROVE PumpInv'
  OBVIOUS
<1>1. /\ write_bufs \in [Peer -> Buffers] /\ in_writing_buf \in Buffers
      /\ in_writing_peer \in Peer
      /\ sent \in [Peer -> Buffers] /\ wire \in [Peer -> Buffers]
      /\ Head(in_flight) = [peer |-> in_writing_peer, bufs |-> in_writing_buf]
      /\ Tail(in_flight) = <<>>
  BY InFlight DEF PumpInv, TypeOK, Written
<1> DEFINE bufs == in_writing_buf
           peer == in_writing_peer
<1>2. /\ wire' = [wire EXCEPT ![peer] = @ \o bufs]
      /\ TryStartWrite(write_bufs, <<>>, <<>>)
      /\ UNCHANGED <<opened, closed, reading, gave_up, sent, sends, errors,
                     reads>>
  BY WrittenStarts
<1>4. /\ write_bufs' \in [Peer -> Buffers]
      /\ in_writing_buf' \in Buffers
      /\ in_writing_peer' \in Peer \cup {NoPeer}
      /\ in_writing' \in BOOLEAN
      /\ in_flight' \in Seq(Operation)
      /\ Pump'
      /\ \A p \in Peer :
           Pending(write_bufs, in_writing_buf, in_writing_peer, p)'
             = Pending(write_bufs, <<>>, in_writing_peer, p)
  BY <1>1, <1>2, NoBuffersType, TryStartKeeps
<1>5. wire' \in [Peer -> Buffers]
  <2>1. \A s \in Buffers : s \o bufs \in Buffers
    BY <1>1, ConcatProperties DEF Buffers
  <2>2. QED
    BY <1>1, <1>2, <2>1
<1>6. TypeOK'
  BY <1>1, <1>2, <1>4, <1>5 DEF PumpInv, TypeOK, Operation
<1>7. ASSUME NEW p \in Peer
      PROVE  sent[p] = wire'[p] \o write_bufs[p]
  <2> DEFINE first == IF peer = p THEN bufs ELSE <<>>
             done == wire[p]
             rest == write_bufs[p]
  <2>1. done \in Buffers /\ rest \in Buffers /\ first \in Buffers
    BY <1>1, NoBuffersType
  <2>2. sent[p] = done \o (first \o rest)
    BY DEF PumpInv, Kept, Pending
  <2>3. wire'[p] = done \o first
    <3>1. CASE peer = p
      BY <1>1, <1>2, <3>1
    <3>2. CASE peer # p
      <4>1. done \o <<>> = done
        BY <2>1, ConcatEmptySeq DEF Buffers
      <4>2. QED
        BY <1>1, <1>2, <3>2, <4>1
    <3>3. QED
      BY <3>1, <3>2
  <2> HIDE DEF first, done, rest
  <2>4. (done \o first) \o rest = done \o (first \o rest)
    <3>1. Associates(done, first, rest)
      BY <2>1, Associative, Zenon
    <3>2. QED
      BY <3>1 DEF Associates
  <2>5. QED
    BY <2>2, <2>3, <2>4 DEF rest
<1>8. Kept'
  <2>1. ASSUME NEW p \in Peer
        PROVE  Pending(write_bufs, <<>>, in_writing_peer, p) = write_bufs[p]
    BY <1>1, EmptyPending
  <2>2. ASSUME NEW p \in Peer
        PROVE  sent'[p] = wire'[p] \o
                 Pending(write_bufs', in_writing_buf', in_writing_peer', p)
    <3>1. Pending(write_bufs', in_writing_buf', in_writing_peer', p)
            = write_bufs[p]
      BY <1>4, <2>1 DEF Pending
    <3>2. QED
      BY <1>2, <1>7, <3>1
  <2>3. QED
    BY <2>2 DEF Kept, Pending
<1>9. QED
  BY <1>4, <1>6, <1>8 DEF PumpInv

LEMMA FailedPump == PumpInv /\ WriteFailed => PumpInv'
<1> SUFFICES ASSUME PumpInv, WriteFailed PROVE PumpInv'
  OBVIOUS
<1>1. /\ write_bufs \in [Peer -> Buffers] /\ in_writing_buf \in Buffers
      /\ in_writing_peer \in Peer /\ in_flight # <<>>
      /\ Tail(in_flight) = <<>>
      /\ errors \in Nat /\ closed \in BOOLEAN /\ gave_up \in BOOLEAN
  BY InFlight DEF PumpInv, TypeOK, WriteFailed
<1>2. UNCHANGED <<opened, reading, sent, wire, sends, reads>>
  BY DEF WriteFailed
<1>3. errors' \in Nat /\ closed' \in BOOLEAN /\ gave_up' \in BOOLEAN
  BY <1>1 DEF WriteFailed, CloseIf
<1>4. Cut(in_writing_buf, 0) = in_writing_buf
  BY <1>1, SubSeqFull DEF Cut, Buffers
<1>5. /\ write_bufs' \in [Peer -> Buffers]
      /\ in_writing_buf' \in Buffers
      /\ in_writing_peer' \in Peer \cup {NoPeer}
      /\ in_writing' \in BOOLEAN
      /\ in_flight' \in Seq(Operation)
      /\ Pump'
      /\ \A p \in Peer :
           Pending(write_bufs, in_writing_buf, in_writing_peer, p)'
             = Pending(write_bufs, in_writing_buf, in_writing_peer, p)
  <2>1. CASE WriteCallback(0)
    <3>1. TryStartWrite(write_bufs, in_writing_buf, <<>>)
      BY <1>1, <1>4, <2>1 DEF WriteCallback
    <3>2. QED
      BY <1>1, <3>1, TryStartKeeps
  <2>2. CASE /\ in_flight' = Tail(in_flight)
             /\ UNCHANGED <<write_bufs, in_writing_buf, in_writing_peer,
                            in_writing>>
    <3>1. in_flight' = <<>> /\ in_flight' \in Seq(Operation)
      BY <1>1, <2>2, EmptySeq
    <3>2. in_writing \in BOOLEAN /\ in_writing
      BY <1>1 DEF PumpInv, TypeOK, Pump
    <3>3. Pump'
      BY <1>1, <2>2, <3>1, <3>2 DEF Pump
    <3>4. QED
      BY <1>1, <2>2, <3>1, <3>2, <3>3 DEF Pending
  <2>3. QED
    BY <2>1, <2>2 DEF WriteFailed
<1>6. TypeOK'
  BY <1>2, <1>3, <1>5 DEF PumpInv, TypeOK, Operation
<1>7. Kept'
  BY <1>2, <1>5 DEF PumpInv, Kept
<1>8. QED
  BY <1>5, <1>6, <1>7 DEF PumpInv

LEMMA AbortedPump == PumpInv /\ WriteAborted => PumpInv'
<1> SUFFICES ASSUME PumpInv, WriteAborted PROVE PumpInv'
  OBVIOUS
<1>1. in_flight # <<>> /\ Tail(in_flight) = <<>> /\ in_writing
  BY InFlight DEF WriteAborted, PumpInv, Pump
<1>2. in_flight' = <<>>
      /\ UNCHANGED <<opened, closed, write_bufs, in_writing_buf,
                     in_writing_peer, in_writing, reading, gave_up, sent,
                     wire, sends, errors, reads>>
  BY <1>1 DEF WriteAborted
<1>3. TypeOK'
  BY <1>2, EmptySeq DEF PumpInv, TypeOK
<1>4. Pump'
  BY <1>1, <1>2 DEF PumpInv, Pump
<1>5. Kept'
  BY <1>2 DEF PumpInv, Kept, Pending
<1>6. QED
  BY <1>3, <1>4, <1>5 DEF PumpInv

LEMMA NextPump == PumpInv /\ [Next]_vars => PumpInv'
<1> SUFFICES ASSUME PumpInv, [Next]_vars PROVE PumpInv'
  OBVIOUS
<1>1. ASSUME UNCHANGED <<writeVars, sent, wire, sends>>,
             opened' \in BOOLEAN, closed' \in BOOLEAN, reading' \in BOOLEAN,
             gave_up' \in BOOLEAN, errors' \in Nat, reads' \in Nat
      PROVE  PumpInv'
  <2>1. TypeOK'
    BY <1>1 DEF PumpInv, TypeOK, writeVars
  <2>2. Pump' /\ Kept'
    BY <1>1 DEF PumpInv, Pump, Kept, Pending, writeVars
  <2>3. QED
    BY <2>1, <2>2 DEF PumpInv
<1>2. /\ opened \in BOOLEAN /\ closed \in BOOLEAN /\ reading \in BOOLEAN
      /\ gave_up \in BOOLEAN /\ errors \in Nat /\ reads \in Nat
  BY DEF PumpInv, TypeOK
<1>3. CASE Open \/ Close \/ Read \/ ReadStops \/ ReadAborted \/ UNCHANGED vars
  <2>1. UNCHANGED <<writeVars, sent, wire, sends, gave_up>>
    BY <1>3 DEF Open, Close, Read, ReadStops, ReadAborted, vars, writeVars
  <2>2. /\ opened' \in BOOLEAN /\ closed' \in BOOLEAN /\ reading' \in BOOLEAN
        /\ errors' \in Nat /\ reads' \in Nat
    <3>1. CASE Open
      BY <1>2, <3>1 DEF Open
    <3>2. CASE Close
      BY <1>2, <3>2 DEF Close, CloseIf
    <3>3. CASE Read
      BY <1>2, <3>3 DEF Read, CloseIf
    <3>4. CASE ReadStops
      <4>1. closed' \in BOOLEAN
        BY <1>2, <3>4, Zenon DEF ReadStops, CloseIf
      <4>2. errors' = errors + 1 /\ reading' = FALSE
            /\ UNCHANGED <<opened, reads>>
        BY <3>4 DEF ReadStops
      <4>3. errors' \in Nat
        BY <1>2, <4>2
      <4>4. QED
        BY <1>2, <4>1, <4>2, <4>3
    <3>5. CASE ReadAborted
      BY <1>2, <3>5 DEF ReadAborted, ReadAfterAbort
    <3>6. CASE UNCHANGED vars
      BY <1>2, <3>6 DEF vars
    <3>7. QED
      BY <1>3, <3>1, <3>2, <3>3, <3>4, <3>5, <3>6
  <2>3. QED
    BY <1>1, <1>2, <2>1, <2>2
<1>4. QED
  BY <1>3, SendPump, WrittenPump, FailedPump, AbortedPump DEF Next

LEMMA PumpCorrect == Spec => []PumpInv
<1>1. PumpInv /\ [Next]_vars => PumpInv'
  BY NextPump
<1>2. QED
  BY <1>1, InitPump, PTL DEF Spec

LEMMA PumpSafe == PumpInv => TypeOK /\ NothingLost /\ BuffersOutliveWrite
<1>1. PumpInv => NothingLost
  <2> SUFFICES ASSUME PumpInv, NEW p \in Peer
               PROVE  sent[p] = wire[p]
                        \o (IF in_writing_peer = p THEN in_writing_buf ELSE <<>>)
                        \o write_bufs[p]
    BY DEF NothingLost
  <2> DEFINE first == IF in_writing_peer = p THEN in_writing_buf ELSE <<>>
  <2>1. wire[p] \in Buffers /\ first \in Buffers /\ write_bufs[p] \in Buffers
    BY NoBuffersType DEF PumpInv, TypeOK
  <2>2. sent[p] = wire[p] \o (first \o write_bufs[p])
    BY DEF PumpInv, Kept, Pending
  <2> HIDE DEF first
  <2>3. Associates(wire[p], first, write_bufs[p])
    BY <2>1, Associative, Zenon
  <2>4. QED
    BY <2>2, <2>3 DEF first, Associates
<1>2. PumpInv => BuffersOutliveWrite
  <2> SUFFICES ASSUME PumpInv, in_flight # <<>>
               PROVE  /\ Len(in_flight) = 1
                      /\ in_flight[1] = [peer |-> in_writing_peer,
                                         bufs |-> in_writing_buf]
    BY DEF BuffersOutliveWrite
  <2>1. in_flight = <<[peer |-> in_writing_peer, bufs |-> in_writing_buf]>>
    BY DEF PumpInv, Pump
  <2>2. QED
    BY <2>1
<1>3. QED
  BY <1>1, <1>2 DEF PumpInv

(* The lists of buffers, the operations and the counters of AsioUDP keep    *)
(* their types: at all times an operation is for a peer that was sent to.   *)
THEOREM SocketTypeCorrect == Spec => []TypeOK
  BY PumpSafe, PumpCorrect, PTL

(* What Send took for a peer is on the wire, in progress or waiting, in     *)
(* this order and once, also when writes fail and are written again         *)
(* (AsioUDP::TryStartWrite, WriteCallback, BufferList::Cut).                *)
THEOREM NothingIsLost == Spec => []NothingLost
  BY PumpSafe, PumpCorrect, PTL

(* One write at most is in progress, and in_writing_buf_ keeps its buffers  *)
(* until it has completed, after Close too (TryStartWrite, WriteCallback).  *)
THEOREM BuffersAreHeld == Spec => []BuffersOutliveWrite
  BY PumpSafe, PumpCorrect, PTL

---------------------------------------------------------------------------
(* The least of a set of numbers, by which one argues from each Buffer of a *)
(* list to the next: there is no first at which two chains differ.          *)
Before == {p \in Nat \X Nat : p[1] < p[2]}

LEMMA LeastNumber ==
  ASSUME NEW S \in SUBSET Nat, S # {}
  PROVE  \E m \in S : \A k \in S : m <= k
<1>1. OpToRel(<, Nat) = Before
  BY DEF OpToRel, Before
<1>2. IsWellFoundedOn(Before, Nat)
  BY <1>1, NatLessThanWellFounded
<1>3. \E m \in S : \A k \in S : ~(<<k, m>> \in Before)
  BY <1>2, WFMin
<1>4. \A k, m \in Nat : <<k, m>> \notin Before => m <= k
  <2> SUFFICES ASSUME NEW k \in Nat, NEW m \in Nat, k < m
               PROVE  <<k, m>> \in Before
    OBVIOUS
  <2>1. <<k, m>> \in Nat \X Nat /\ <<k, m>>[1] < <<k, m>>[2]
    OBVIOUS
  <2>2. QED
    BY <2>1 DEF Before
<1>5. QED
  BY <1>3, <1>4

(* An iterator goes one way. *)
LEMMA GoesOneWay ==
  ASSUME NEW m, NEW b, NEW s \in Seq(Heap(m)), NEW t \in Seq(Heap(m)),
         GoesThrough(m, b, s), GoesThrough(m, b, t)
  PROVE  s = t
<1> DEFINE Differ == {i \in 1..Len(s) : i <= Len(t) /\ s[i] # t[i]}
<1>1. /\ Len(s) \in Nat /\ Len(t) \in Nat
      /\ \A i \in 1..Len(s) : s[i] \in Heap(m)
      /\ \A i \in 1..Len(t) : t[i] \in Heap(m)
  BY ElementOfSeq, LenProperties
<1>2. /\ \A i \in 1..Len(s) : s[i] = IF i = 1 THEN b ELSE m.next[s[i-1]]
      /\ \A i \in 1..Len(t) : t[i] = IF i = 1 THEN b ELSE m.next[t[i-1]]
      /\ (IF Len(s) = 0 THEN b ELSE m.next[s[Len(s)]]) \notin Heap(m)
      /\ (IF Len(t) = 0 THEN b ELSE m.next[t[Len(t)]]) \notin Heap(m)
  BY <1>1 DEF GoesThrough, Pointer
<1>3. Differ = {}
  <2> SUFFICES ASSUME Differ # {} PROVE FALSE
    OBVIOUS
  <2>1. PICK i \in Differ : \A k \in Differ : i <= k
    <3>1. Differ \subseteq Nat
      OBVIOUS
    <3>2. QED
      BY <3>1, LeastNumber
  <2>2. CASE i = 1
    BY <1>1, <1>2, <2>2
  <2>3. CASE i # 1
    <3>1. i - 1 \in 1..Len(s) /\ i - 1 <= Len(t) /\ i - 1 \notin Differ
      BY <1>1, <2>1, <2>3
    <3>2. s[i-1] = t[i-1]
      BY <3>1
    <3>3. i \in 1..Len(s) /\ i \in 1..Len(t) /\ s[i] # t[i]
      BY <1>1
    <3>4. s[i] = m.next[s[i-1]] /\ t[i] = m.next[t[i-1]]
      BY <1>2, <2>3, <3>3
    <3>5. QED
      BY <3>2, <3>3, <3>4
  <2>4. QED
    BY <2>2, <2>3
<1>4. \A i \in 1..Len(s) : i <= Len(t) => s[i] = t[i]
  BY <1>3
<1> HIDE DEF Differ
<1>5. Len(s) = Len(t)
  <2>1. CASE Len(s) < Len(t)
    <3>1. Len(s) + 1 \in 1..Len(t)
      BY <1>1, <2>1
    <3>2. t[Len(s) + 1] = IF Len(s) = 0 THEN b ELSE m.next[t[Len(s)]]
      BY <1>1, <1>2, <3>1
    <3>3. Len(s) # 0 => t[Len(s)] = s[Len(s)]
      BY <1>1, <1>4, <2>1
    <3>4. QED
      BY <1>1, <1>2, <3>1, <3>2, <3>3
  <2>2. CASE Len(t) < Len(s)
    <3>1. Len(t) + 1 \in 1..Len(s)
      BY <1>1, <2>2
    <3>2. s[Len(t) + 1] = IF Len(t) = 0 THEN b ELSE m.next[s[Len(t)]]
      BY <1>1, <1>2, <3>1
    <3>3. Len(t) # 0 => t[Len(t)] = s[Len(t)]
      BY <1>1, <1>4, <2>2
    <3>4. QED
      BY <1>1, <1>2, <3>1, <3>2, <3>3
  <2>3. QED
    BY <1>1, <2>1, <2>2
<1>6. QED
  BY <1>1, <1>4, <1>5, SeqEqual

(* Each Buffer of a list leads to the next, and the last to none. *)
Linked(m, l, s) ==
  /\ s \in Buffers
  /\ m.head[l] = IF Len(s) = 0 THEN Null ELSE s[1]
  /\ \A i \in 1..Len(s) :
       /\ s[i] \in Heap(m)
       /\ m.next[s[i]] = IF i = Len(s) THEN Null ELSE s[i + 1]

LEMMA LinkedGoes ==
  ASSUME NEW m, NEW l, NEW s, Linked(m, l, s), Null \notin Heap(m)
  PROVE  /\ s \in Seq(Heap(m))
         /\ GoesThrough(m, m.head[l], s)
<1>1. /\ s \in Seq(Nat) /\ Len(s) \in Nat
      /\ s = [i \in 1..Len(s) |-> s[i]]
  BY LenProperties DEF Linked, Buffers
<1>2. \A i \in 1..Len(s) : s[i] \in Heap(m)
  BY DEF Linked
<1>3. s \in Seq(Heap(m))
  BY <1>1, <1>2
<1>4. ToSet(s) \subseteq Heap(m)
  BY <1>1, <1>2 DEF ToSet
<1>5. \A i \in 1..Len(s) : s[i] = Pointer(m, m.head[l], s, i - 1)
  <2> SUFFICES ASSUME NEW i \in 1..Len(s)
               PROVE  s[i] = Pointer(m, m.head[l], s, i - 1)
    OBVIOUS
  <2>1. CASE i = 1
    BY <1>1, <2>1 DEF Linked, Pointer
  <2>2. CASE i # 1
    <3>1. i - 1 \in 1..Len(s) /\ i - 1 # Len(s) /\ i - 1 + 1 = i /\ i - 1 # 0
      BY <1>1, <2>2
    <3>2. m.next[s[i - 1]] = s[i - 1 + 1]
      BY <3>1 DEF Linked
    <3>3. QED
      BY <3>1, <3>2 DEF Pointer
  <2>3. QED
    BY <2>1, <2>2
<1>6. Pointer(m, m.head[l], s, Len(s)) = Null
  BY <1>1 DEF Linked, Pointer
<1>7. QED
  BY <1>3, <1>4, <1>5, <1>6 DEF GoesThrough

(* What the memory says is what the list holds. *)
LEMMA ChainIs ==
  ASSUME NEW m, NEW l, NEW s, Linked(m, l, s), Null \notin Heap(m),
         IsFiniteSet(Heap(m)),
         \A i, j \in 1..Len(s) : s[i] = s[j] => i = j
  PROVE  Chain(m, l) = s
<1>1. s \in Seq(Heap(m)) /\ GoesThrough(m, m.head[l], s)
  BY LinkedGoes
<1>2. Len(s) \in Nat /\ s \in [1..Len(s) -> Heap(m)]
  BY <1>1, LenProperties
<1>3. s \in Injection(1..Len(s), Heap(m))
  BY <1>2 DEF Injection, IsInjective
<1>4. Cardinality(1..Len(s)) = Len(s)
  BY <1>2, FS_Interval
<1>5. /\ Cardinality(Heap(m)) \in Nat
      /\ Len(s) <= Cardinality(Heap(m))
  BY <1>3, <1>4, FS_Injection, FS_CardinalityType
<1>6. s \in SeqOf(Heap(m), Cardinality(Heap(m)))
  BY <1>2, <1>5 DEF SeqOf
<1>7. \A t \in SeqOf(Heap(m), Cardinality(Heap(m))) : t \in Seq(Heap(m))
  BY <1>5 DEF SeqOf
<1>8. \A t \in SeqOf(Heap(m), Cardinality(Heap(m))) :
        GoesThrough(m, m.head[l], t) => t = s
  BY <1>1, <1>7, GoesOneWay
<1>9. QED
  BY <1>1, <1>6, <1>8 DEF Chain

(* Pointers into lists and Buffers, and memory in which n Buffers at most   *)
(* have been allocated.                                                     *)
Addresses == {HeadOf(l) : l \in List} \cup {NextOf(b) : b \in Nat}

Memory(n) ==
  [next : UNION {[S -> Nat] : S \in SUBSET (1..n)},
   head : [List -> Nat], tail : [List -> Addresses]]

(* Memory m has the lists of c: no Buffer twice, and no Buffer besides.     *)
Apart(c) ==
  \A k, l \in List : \A i \in 1..Len(c[k]), j \in 1..Len(c[l]) :
    c[k][i] = c[l][j] => k = l /\ i = j

Owns(m, c) ==
  \A b \in Heap(m) : \E l \in List : \E i \in 1..Len(c[l]) : b = c[l][i]

EndOf(p, s) == IF Len(s) = 0 THEN HeadOf(p) ELSE NextOf(s[Len(s)])

Holds(m, c, n) ==
  /\ m \in Memory(n)
  /\ \A l \in List : Linked(m, l, c[l])
  /\ Apart(c) /\ Owns(m, c)
  /\ \A p \in Peer : m.tail[p] = EndOf(p, c[p])

LEMMA MemoryType ==
  ASSUME NEW n \in Nat, NEW m \in Memory(n)
  PROVE  /\ Heap(m) \subseteq 1..n /\ Null \notin Heap(m)
         /\ IsFiniteSet(Heap(m))
         /\ m.next \in [Heap(m) -> Nat]
         /\ m.head \in [List -> Nat] /\ m.tail \in [List -> Addresses]
         /\ m = [next |-> m.next, head |-> m.head, tail |-> m.tail]
<1>1. m.next \in UNION {[S -> Nat] : S \in SUBSET (1..n)}
  BY DEF Memory
<1>2. PICK S \in SUBSET (1..n) : m.next \in [S -> Nat]
  BY <1>1
<1>3. Heap(m) = S /\ m.next \in [Heap(m) -> Nat]
  BY <1>2 DEF Heap
<1>4. IsFiniteSet(1..n)
  BY FS_Interval
<1>5. IsFiniteSet(Heap(m))
  BY <1>3, <1>4, FS_Subset
<1>6. QED
  BY <1>3, <1>5 DEF Memory, Null

LEMMA StoredNext ==
  ASSUME NEW f, NEW h, NEW t, NEW a, NEW b
  PROVE  [[next |-> f, head |-> h, tail |-> t] EXCEPT !.next[a] = b]
           = [next |-> [f EXCEPT ![a] = b], head |-> h, tail |-> t]
OBVIOUS

(* The two places where Push writes: r is m with Buffer b after those of s. *)
HasPushed(r, m, p, s, b) ==
  /\ r \in Memory(b)
  /\ Heap(r) = Heap(m) \cup {b}
  /\ r.next[b] = Null
  /\ r.tail = [m.tail EXCEPT ![p] = NextOf(b)]
  /\ IF Len(s) = 0
     THEN /\ r.head = [m.head EXCEPT ![p] = b]
          /\ \A a \in Heap(m) : r.next[a] = m.next[a]
     ELSE /\ r.head = m.head
          /\ \A a \in Heap(m) :
               r.next[a] = IF a = s[Len(s)] THEN b ELSE m.next[a]

LEMMA PushedIs ==
  ASSUME NEW n \in Nat, NEW m \in Memory(n), NEW p \in Peer,
         NEW s \in Buffers, Linked(m, p, s), m.tail[p] = EndOf(p, s)
  PROVE  HasPushed(Pushed(m, p, n + 1), m, p, s, n + 1)
<1> DEFINE b == n + 1
           new == Allocated(m, b)
           r == Pushed(m, p, b)
           next == [c \in Heap(m) \cup {b} |-> IF c = b THEN Null ELSE m.next[c]]
<1>1. /\ Heap(m) \subseteq 1..n
      /\ m.next \in [Heap(m) -> Nat]
      /\ m.head \in [List -> Nat] /\ m.tail \in [List -> Addresses]
      /\ m = [next |-> m.next, head |-> m.head, tail |-> m.tail]
  BY MemoryType
<1>2. b \in Nat /\ b \notin Heap(m) /\ p \in List
      /\ Heap(m) \cup {b} \in SUBSET (1..n+1)
  BY <1>1 DEF List
<1>3. new = [next |-> next, head |-> m.head, tail |-> m.tail]
  BY <1>1 DEF Allocated, Heap
<1>4. NextOf(b) \in Addresses
  BY <1>2 DEF Addresses
<1>5. [m.tail EXCEPT ![p] = NextOf(b)] \in [List -> Addresses]
  BY <1>1, <1>4
<1>6. next \in [Heap(m) \cup {b} -> Nat]
  BY <1>1 DEF Null
<1>7. ASSUME NEW f \in [Heap(m) \cup {b} -> Nat], NEW h \in [List -> Nat],
             r = [next |-> f, head |-> h,
                  tail |-> [m.tail EXCEPT ![p] = NextOf(b)]]
      PROVE  /\ r \in Memory(n + 1)
             /\ Heap(r) = Heap(m) \cup {b}
  <2>1. f \in UNION {[S -> Nat] : S \in SUBSET (1..n+1)}
    BY <1>2
  <2>2. DOMAIN f = Heap(m) \cup {b}
    OBVIOUS
  <2>3. QED
    BY <1>5, <1>7, <2>1, <2>2 DEF Memory, Heap
<1>8. CASE Len(s) = 0
  <2>1. m.tail[p] = HeadOf(p)
    BY <1>8 DEF EndOf
  <2>2. Stored(new, m.tail[p], b)
          = [next |-> next, head |-> [m.head EXCEPT ![p] = b],
             tail |-> m.tail]
    BY <1>3, <2>1 DEF Stored, HeadOf
  <2>3. r = [next |-> next, head |-> [m.head EXCEPT ![p] = b],
             tail |-> [m.tail EXCEPT ![p] = NextOf(b)]]
    BY <2>2 DEF Pushed
  <2>4. [m.head EXCEPT ![p] = b] \in [List -> Nat]
    BY <1>1, <1>2
  <2>5. r \in Memory(n + 1) /\ Heap(r) = Heap(m) \cup {b}
    BY <1>6, <1>7, <2>3, <2>4
  <2>6. next[b] = Null /\ \A a \in Heap(m) : next[a] = m.next[a]
    BY <1>2
  <2>7. QED
    BY <1>8, <2>3, <2>5, <2>6 DEF HasPushed
<1>9. CASE Len(s) # 0
  <2> DEFINE last == s[Len(s)]
             f == [next EXCEPT ![last] = b]
  <2>1. m.tail[p] = NextOf(last) /\ last \in Heap(m)
    <3>1. Len(s) \in 1..Len(s)
      BY <1>9, LenProperties DEF Buffers
    <3>2. QED
      BY <1>9, <3>1 DEF EndOf, Linked
  <2> HIDE DEF last
  <2>2. Heap(new) = Heap(m) \cup {b}
    BY <1>3 DEF Heap
  <2>3. f \in [Heap(m) \cup {b} -> Nat]
    BY <1>2, <1>6
  <2>4. /\ f[b] = Null
        /\ \A a \in Heap(m) : f[a] = IF a = last THEN b ELSE m.next[a]
    BY <1>2, <2>1
  <2> HIDE DEF next
  <2>5. Stored(new, m.tail[p], b)
          = [next |-> f, head |-> m.head, tail |-> m.tail]
    <3>1. NextOf(last).in = "buffer" /\ NextOf(last).buffer = last
      BY DEF NextOf
    <3>2. last \in Heap(new)
      BY <2>1, <2>2
    <3>3. Stored(new, NextOf(last), b) = [new EXCEPT !.next[last] = b]
      BY <3>1, <3>2 DEF Stored
    <3>4. QED
      BY <1>3, <2>1, <3>3, StoredNext
  <2> HIDE DEF f, new
  <2>6. r = [next |-> f, head |-> m.head,
             tail |-> [m.tail EXCEPT ![p] = NextOf(b)]]
    BY <2>5 DEF Pushed, new
  <2>7. r \in Memory(n + 1) /\ Heap(r) = Heap(m) \cup {b}
    BY <1>1, <1>7, <2>3, <2>6
  <2>8. /\ r.next = f /\ r.head = m.head
        /\ r.tail = [m.tail EXCEPT ![p] = NextOf(b)]
    BY <2>6
  <2> HIDE DEF r
  <2>9. QED
    BY <1>9, <2>4, <2>7, <2>8 DEF last, r, HasPushed
<1>10. QED
  BY <1>8, <1>9

LEMMA HoldsType ==
  ASSUME NEW n \in Nat, NEW m, NEW c, Holds(m, c, n)
  PROVE  /\ \A l \in List : /\ c[l] \in Buffers /\ Len(c[l]) \in Nat
                            /\ \A i \in 1..Len(c[l]) : c[l][i] \in Heap(m)
         /\ m \in Memory(n) /\ Heap(m) \subseteq 1..n
BY MemoryType, LenProperties DEF Holds, Linked, Buffers

(* Push of a Buffer that is new. *)
LEMMA PushedHolds ==
  ASSUME NEW n \in Nat, NEW m, NEW c \in [List -> Buffers], Holds(m, c, n),
         NEW p \in Peer
  PROVE  Holds(Pushed(m, p, n + 1), [c EXCEPT ![p] = Append(@, n + 1)], n + 1)
<1> DEFINE b == n + 1
           r == Pushed(m, p, b)
           d == [c EXCEPT ![p] = Append(@, b)]
           s == c[p]
           k == Len(s)
<1>1. /\ \A l \in List : /\ c[l] \in Buffers /\ Len(c[l]) \in Nat
                         /\ \A i \in 1..Len(c[l]) : c[l][i] \in Heap(m)
      /\ m \in Memory(n) /\ Heap(m) \subseteq 1..n
  BY HoldsType
<1>2. b \in Nat /\ b \notin Heap(m) /\ p \in List /\ k \in Nat
      /\ m.tail \in [List -> Addresses] /\ m.head \in [List -> Nat]
  BY <1>1, MemoryType DEF List
<1>3. /\ r \in Memory(b)
      /\ Heap(r) = Heap(m) \cup {b}
      /\ r.next[b] = Null
      /\ r.tail = [m.tail EXCEPT ![p] = NextOf(b)]
      /\ IF k = 0
         THEN /\ r.head = [m.head EXCEPT ![p] = b]
              /\ \A a \in Heap(m) : r.next[a] = m.next[a]
         ELSE /\ r.head = m.head
              /\ \A a \in Heap(m) :
                   r.next[a] = IF a = s[k] THEN b ELSE m.next[a]
  <2>1. s \in Buffers /\ Linked(m, p, s) /\ m.tail[p] = EndOf(p, s)
    BY <1>1, <1>2 DEF Holds
  <2>2. HasPushed(r, m, p, s, b)
    BY <1>1, <1>2, <2>1, PushedIs
  <2>3. QED
    BY <2>2 DEF HasPushed
<1>4. /\ d[p] \in Buffers /\ Len(d[p]) = k + 1
      /\ d[p][k + 1] = b /\ \A i \in 1..k : d[p][i] = s[i]
  <2>1. s \in Seq(Nat)
    BY <1>1, <1>2 DEF Buffers
  <2>2. Append(s, b) \in Seq(Nat)
        /\ Len(Append(s, b)) = k + 1
        /\ Append(s, b)[k + 1] = b
        /\ \A i \in 1..k : Append(s, b)[i] = s[i]
    BY <1>2, <2>1, AppendProperties
  <2>3. d[p] = Append(s, b)
    BY <1>2
  <2>4. QED
    BY <2>2, <2>3 DEF Buffers
<1>5. \A l \in List : l # p => d[l] = c[l]
  OBVIOUS
<1>6. /\ Apart(c) /\ Owns(m, c)
      /\ \A l \in List : Linked(m, l, c[l])
      /\ \A q \in Peer : m.tail[q] = EndOf(q, c[q])
  BY DEF Holds
<1> HIDE DEF r, d, b, s
<1>7. ASSUME NEW l \in List
      PROVE  Linked(r, l, d[l])
  <2>1. CASE l # p
    <3>1. d[l] = c[l] /\ r.head[l] = m.head[l]
      BY <1>2, <1>3, <1>5, <2>1
    <3>2. ASSUME NEW i \in 1..Len(c[l])
          PROVE  c[l][i] \in Heap(r) /\ r.next[c[l][i]] = m.next[c[l][i]]
      <4>1. c[l][i] \in Heap(m)
        BY <1>1
      <4>2. k # 0 => c[l][i] # s[k]
        <5>1. k # 0 => k \in 1..Len(c[p]) /\ s[k] = c[p][k]
          BY <1>2 DEF s
        <5>2. QED
          BY <1>2, <1>6, <2>1, <5>1 DEF Apart
      <4>3. QED
        BY <1>3, <4>1, <4>2
    <3>3. Linked(m, l, c[l])
      BY <1>6
    <3>4. QED
      BY <3>1, <3>2, <3>3 DEF Linked
  <2>2. CASE l = p
    <3> DEFINE t == d[p]
    <3>1. /\ m.head[p] = IF k = 0 THEN Null ELSE s[1]
          /\ \A i \in 1..k : /\ s[i] \in Heap(m)
                             /\ m.next[s[i]] = IF i = k THEN Null ELSE s[i + 1]
      BY <1>2, <1>6 DEF Linked, s
    <3>2. r.head[p] = t[1]
      BY <1>2, <1>3, <1>4, <3>1
    <3>3. ASSUME NEW i \in 1..k + 1
          PROVE  /\ t[i] \in Heap(r)
                 /\ r.next[t[i]] = IF i = k + 1 THEN Null ELSE t[i + 1]
      <4>1. CASE i = k + 1
        BY <1>3, <1>4, <4>1
      <4>2. CASE i = k
        <5>1. k \in 1..k /\ k # 0 /\ i # k + 1
          BY <1>2, <4>2
        <5>2. t[i] = s[k] /\ t[i + 1] = b
          BY <1>4, <4>2, <5>1
        <5>3. QED
          BY <1>3, <3>1, <5>1, <5>2
      <4>3. CASE i < k
        <5>1. i \in 1..k /\ i + 1 \in 1..k /\ k \in 1..k /\ k # 0
              /\ i # k /\ i # k + 1
          BY <1>2, <4>3
        <5>2. t[i] = s[i] /\ t[i + 1] = s[i + 1]
          BY <1>4, <5>1
        <5>3. s[i] # s[k]
          BY <1>2, <1>6, <5>1 DEF Apart, s
        <5>4. QED
          BY <1>3, <3>1, <5>1, <5>2, <5>3
      <4>4. QED
        BY <1>2, <4>1, <4>2, <4>3
    <3>4. QED
      BY <1>2, <1>4, <2>2, <3>2, <3>3 DEF Linked
  <2>3. QED
    BY <2>1, <2>2
<1>8. \A l \in List : \A i \in 1..Len(d[l]) :
        \/ l = p /\ i = k + 1 /\ d[l][i] = b
        \/ i \in 1..Len(c[l]) /\ d[l][i] = c[l][i] /\ d[l][i] # b
  BY <1>1, <1>2, <1>4, <1>5 DEF s
<1>9. Apart(d)
  BY <1>6, <1>8 DEF Apart
<1>10. \A l \in List : \A i \in 1..Len(c[l]) :
         i \in 1..Len(d[l]) /\ d[l][i] = c[l][i]
  BY <1>1, <1>2, <1>4, <1>5 DEF s
<1>11. Owns(r, d)
  <2>1. ASSUME NEW a \in Heap(m)
        PROVE  \E l \in List : \E i \in 1..Len(d[l]) : a = d[l][i]
    BY <1>6, <1>10 DEF Owns
  <2>2. p \in List /\ k + 1 \in 1..Len(d[p]) /\ b = d[p][k + 1]
    BY <1>2, <1>4
  <2>3. QED
    BY <1>3, <2>1, <2>2 DEF Owns
<1>12. ASSUME NEW q \in Peer
       PROVE  r.tail[q] = EndOf(q, d[q])
  <2>1. q \in List
    BY DEF List
  <2>2. CASE q = p
    BY <1>2, <1>3, <1>4, <2>2 DEF EndOf
  <2>3. CASE q # p
    BY <1>2, <1>3, <1>5, <1>6, <2>1, <2>3
  <2>4. QED
    BY <2>2, <2>3
<1>13. QED
  BY <1>3, <1>7, <1>9, <1>11, <1>12 DEF Holds, r, d, b

LEMMA TailSetIs ==
  ASSUME NEW n \in Nat, NEW m \in Memory(n), NEW l \in List
  PROVE  /\ TailSet(m, l) \in Memory(n)
         /\ TailSet(m, l).next = m.next /\ TailSet(m, l).head = m.head
         /\ \A k \in List \ {l} : TailSet(m, l).tail[k] = m.tail[k]
         /\ m.head[l] = Null => TailSet(m, l).tail[l] = HeadOf(l)
<1> DEFINE r == [m EXCEPT !.tail[l] = HeadOf(l)]
<1>1. /\ m.tail \in [List -> Addresses] /\ HeadOf(l) \in Addresses
      /\ m = [next |-> m.next, head |-> m.head, tail |-> m.tail]
  BY MemoryType DEF Addresses
<1>2. r = [next |-> m.next, head |-> m.head,
           tail |-> [m.tail EXCEPT ![l] = HeadOf(l)]]
  BY <1>1
<1>3. [m.tail EXCEPT ![l] = HeadOf(l)] \in [List -> Addresses]
  BY <1>1
<1>4. r \in Memory(n)
  BY <1>2, <1>3 DEF Memory
<1>5. TailSet(m, l) = IF m.head[l] = Null THEN r ELSE m
  BY DEF TailSet
<1>6. /\ r.next = m.next /\ r.head = m.head
      /\ r.tail = [m.tail EXCEPT ![l] = HeadOf(l)]
  BY <1>2
<1> HIDE DEF r
<1>7. CASE m.head[l] = Null
  BY <1>1, <1>4, <1>5, <1>6, <1>7
<1>8. CASE m.head[l] # Null
  BY <1>5, <1>8
<1>9. QED
  BY <1>7, <1>8

(* The list of p becomes what is written, and the list of p is empty. *)
LEMMA MovedHolds ==
  ASSUME NEW n \in Nat, NEW m, NEW c \in [List -> Buffers], Holds(m, c, n),
         c[Writing] = <<>>, NEW p \in Peer
  PROVE  Holds(Moved(m, p), [c EXCEPT ![Writing] = c[p], ![p] = <<>>], n)
<1> DEFINE w == Writing
           head == Swapped(m.head, w, p)
           tail == Swapped(m.tail, w, p)
           r0 == [m EXCEPT !.head = Swapped(@, w, p), !.tail = Swapped(@, w, p)]
           r1 == TailSet(r0, w)
           r == TailSet(r1, p)
           d == [c EXCEPT ![w] = c[p], ![p] = <<>>]
<1>1. /\ w \in List /\ p \in List /\ w # p
      /\ m \in Memory(n)
      /\ m.head \in [List -> Nat] /\ m.tail \in [List -> Addresses]
      /\ m = [next |-> m.next, head |-> m.head, tail |-> m.tail]
  BY HoldsType, MemoryType, ListAssumption DEF List
<1>2. /\ \A l \in List : Linked(m, l, c[l])
      /\ Apart(c) /\ Owns(m, c)
      /\ \A q \in Peer : m.tail[q] = EndOf(q, c[q])
  BY DEF Holds
<1>3. head \in [List -> Nat] /\ tail \in [List -> Addresses]
  BY <1>1 DEF Swapped
<1>4. r0 = [next |-> m.next, head |-> head, tail |-> tail]
  <2> DEFINE half == [m EXCEPT !.head = head]
  <2>1. half = [next |-> m.next, head |-> head, tail |-> m.tail]
    BY <1>1
  <2>2. r0 = [half EXCEPT !.tail = Swapped(half.tail, w, p)]
    OBVIOUS
  <2> HIDE DEF half, head
  <2>3. QED
    BY <2>1, <2>2
<1>5. r0 \in Memory(n) /\ r0.next = m.next /\ r0.head = head /\ r0.tail = tail
  BY <1>1, <1>3, <1>4 DEF Memory
<1> HIDE DEF r0, head, tail
<1>6. /\ r1 \in Memory(n) /\ r1.next = m.next /\ r1.head = head
      /\ \A k \in List \ {w} : r1.tail[k] = tail[k]
  <2>1. r0 \in Memory(n) /\ w \in List
    BY <1>1, <1>5
  <2>2. /\ r1 \in Memory(n) /\ r1.next = r0.next /\ r1.head = r0.head
        /\ \A k \in List \ {w} : r1.tail[k] = r0.tail[k]
    BY <2>1, TailSetIs, Zenon
  <2>3. QED
    BY <1>5, <2>2
<1>7. /\ r \in Memory(n) /\ r.next = m.next /\ r.head = head
      /\ \A k \in List \ {p} : r.tail[k] = r1.tail[k]
      /\ head[p] = Null => r.tail[p] = HeadOf(p)
  BY <1>1, <1>6, TailSetIs
<1>8. Moved(m, p) = r
  BY DEF Moved, r0
<1>9. m.head[w] = Null
  BY <1>1, <1>2 DEF Linked
<1>10. head[w] = m.head[p] /\ head[p] = Null
       /\ \A k \in List : k # w /\ k # p => head[k] = m.head[k]
  BY <1>1, <1>9 DEF head, Swapped
<1>11. d[w] = c[p] /\ d[p] = <<>>
       /\ \A k \in List : k # w /\ k # p => d[k] = c[k]
  BY <1>1
<1>12. \A q \in Peer : q # p => tail[q] = m.tail[q] /\ q \in List /\ q # w
  BY <1>1, ListAssumption DEF List, tail, Swapped
<1> HIDE DEF r1, r, d
<1>13. \A l \in List : Linked(r, l, d[l])
  <2> SUFFICES ASSUME NEW l \in List PROVE Linked(r, l, d[l])
    OBVIOUS
  <2>1. Heap(r) = Heap(m)
    BY <1>7 DEF Heap
  <2>2. CASE l = p
    BY <1>7, <1>10, <1>11, <2>2, NoBuffersType DEF Linked
  <2>3. CASE l = w
    BY <1>1, <1>2, <1>7, <1>10, <1>11, <2>1, <2>3 DEF Linked
  <2>4. CASE l # p /\ l # w
    BY <1>2, <1>7, <1>10, <1>11, <2>1, <2>4 DEF Linked
  <2>5. QED
    BY <2>2, <2>3, <2>4
<1>14. Apart(d)
  <2> DEFINE of(l) == IF l = w THEN p ELSE l
  <2>1. \A l \in List : \A i \in 1..Len(d[l]) :
          l # p /\ of(l) \in List /\ of(l) # w /\ d[l] = c[of(l)]
    BY <1>1, <1>11
  <2>2. \A k, l \in List : k # p /\ l # p /\ of(k) = of(l) => k = l
    OBVIOUS
  <2> HIDE DEF of
  <2>3. QED
    BY <1>2, <2>1, <2>2 DEF Apart
<1>15. Owns(r, d)
  <2> SUFFICES ASSUME NEW b \in Heap(r)
               PROVE  \E l \in List : \E i \in 1..Len(d[l]) : b = d[l][i]
    BY DEF Owns
  <2>1. b \in Heap(m)
    BY <1>7 DEF Heap
  <2>2. PICK l \in List : \E i \in 1..Len(c[l]) : b = c[l][i]
    BY <1>2, <2>1 DEF Owns
  <2>3. CASE l = p
    BY <1>1, <1>11, <2>2, <2>3
  <2>4. CASE l = w
    BY <2>2, <2>4
  <2>5. CASE l # p /\ l # w
    BY <1>11, <2>2, <2>5
  <2>6. QED
    BY <2>3, <2>4, <2>5
<1>16. \A q \in Peer : r.tail[q] = EndOf(q, d[q])
  <2> SUFFICES ASSUME NEW q \in Peer PROVE r.tail[q] = EndOf(q, d[q])
    OBVIOUS
  <2>1. CASE q = p
    BY <1>7, <1>10, <1>11, <2>1 DEF EndOf
  <2>2. CASE q # p
    BY <1>2, <1>6, <1>7, <1>11, <1>12, <2>2
  <2>3. QED
    BY <2>1, <2>2
<1>17. QED
  BY <1>7, <1>8, <1>13, <1>14, <1>15, <1>16 DEF Holds, d

(* Cut of all that was written. *)
LEMMA CutHolds ==
  ASSUME NEW n \in Nat, NEW m, NEW c \in [List -> Buffers], Holds(m, c, n)
  PROVE  Holds(CutOff(m, Len(c[Writing])), [c EXCEPT ![Writing] = <<>>], n)
<1> DEFINE w == Writing
           s == c[w]
           k == Len(s)
           r == CutOff(m, k)
           d == [c EXCEPT ![w] = <<>>]
           kept == Heap(m) \ ToSet(s)
<1>1. /\ w \in List /\ \A q \in Peer : q \in List /\ q # w
      /\ m \in Memory(n) /\ Heap(m) \subseteq 1..n /\ Null \notin Heap(m)
      /\ IsFiniteSet(Heap(m)) /\ m.next \in [Heap(m) -> Nat]
      /\ m.head \in [List -> Nat] /\ m.tail \in [List -> Addresses]
      /\ m = [next |-> m.next, head |-> m.head, tail |-> m.tail]
  BY HoldsType, MemoryType, ListAssumption DEF List
<1>2. /\ s \in Seq(Nat) /\ k \in Nat
      /\ \A l \in List : /\ Len(c[l]) \in Nat
                         /\ \A i \in 1..Len(c[l]) : c[l][i] \in Heap(m)
      /\ \A b : b \in ToSet(s) <=> \E i \in 1..k : b = s[i]
  BY <1>1, HoldsType, LenProperties DEF Buffers, ToSet
<1>3. /\ \A l \in List : Linked(m, l, c[l])
      /\ Apart(c) /\ Owns(m, c)
      /\ \A q \in Peer : m.tail[q] = EndOf(q, c[q])
  BY DEF Holds
<1>4. d[w] = <<>> /\ \A l \in List : l # w => d[l] = c[l]
  BY <1>1
<1>5. Chain(m, w) = s
  BY <1>1, <1>3, ChainIs DEF Apart
<1>6. SubSeq(Chain(m, w), 1, k) = s
  BY <1>2, <1>5, SubSeqFull
<1>7. CASE k = 0
  <2>1. s = <<>> /\ r = m
    BY <1>2, <1>7, EmptySeq DEF CutOff
  <2>2. d = c
    BY <1>1, <2>1
  <2>3. QED
    BY <2>1, <2>2
<1>8. CASE k # 0
  <2> DEFINE head == [m.head EXCEPT ![w] = Null]
             next == [b \in kept |-> m.next[b]]
             m1 == [m EXCEPT !.head[w] = m.next[Last(s)]]
  <2>1. m.next[Last(s)] = Null
    <3>1. Last(s) = s[k] /\ k \in 1..k
      BY <1>2, <1>8 DEF Last
    <3>2. QED
      BY <1>1, <1>3, <3>1 DEF Linked
  <2>2. m1 = [next |-> m.next, head |-> head, tail |-> m.tail]
    BY <1>1, <2>1
  <2>3. r = Freed(m1, ToSet(s))
    BY <1>6, <1>8 DEF CutOff
  <2>4. head \in [List -> Nat] /\ next \in [kept -> Nat]
        /\ kept \in SUBSET (1..n)
    BY <1>1 DEF Null
  <2>5. /\ head[w] = Null /\ \A l \in List : l # w => head[l] = m.head[l]
        /\ \A b \in kept : next[b] = m.next[b]
        /\ DOMAIN next = kept
    BY <1>1
  <2>6. Heap(m1) = Heap(m) /\ m1.next = m.next
    BY <2>2 DEF Heap
  <2>7. Freed(m1, ToSet(s)) = [m1 EXCEPT !.next = next]
    BY <2>6 DEF Freed
  <2> HIDE DEF next, head, m1, r
  <2>8. r = [next |-> next, head |-> head, tail |-> m.tail]
    BY <2>2, <2>3, <2>7
  <2>9. /\ r \in Memory(n) /\ Heap(r) = kept
        /\ r.next = next /\ r.head = head /\ r.tail = m.tail
    <3>1. [next |-> next, head |-> head, tail |-> m.tail] \in Memory(n)
      BY <1>1, <2>4 DEF Memory
    <3>2. r.next = next /\ r.head = head /\ r.tail = m.tail
      BY <2>8
    <3>3. QED
      BY <2>5, <2>8, <3>1, <3>2 DEF Heap
  <2>10. \A l \in List : l # w => \A i \in 1..Len(c[l]) : c[l][i] \in kept
    <3> SUFFICES ASSUME NEW l \in List, l # w, NEW i \in 1..Len(c[l]),
                        c[l][i] \in ToSet(s)
                 PROVE  FALSE
      BY <1>2
    <3>1. PICK j \in 1..k : c[l][i] = s[j]
      BY <1>2
    <3>2. QED
      BY <1>1, <1>3, <3>1 DEF Apart
  <2>11. ASSUME NEW l \in List
         PROVE  Linked(r, l, d[l])
    <3>1. CASE l = w
      BY <1>4, <2>5, <2>9, <3>1, NoBuffersType DEF Linked
    <3>2. CASE l # w
      <4>1. Linked(m, l, c[l]) /\ d[l] = c[l] /\ r.head[l] = m.head[l]
        BY <1>3, <1>4, <2>5, <2>9, <3>2
      <4>2. \A i \in 1..Len(c[l]) :
              c[l][i] \in Heap(r) /\ r.next[c[l][i]] = m.next[c[l][i]]
        BY <2>5, <2>9, <2>10, <3>2
      <4>3. QED
        BY <4>1, <4>2 DEF Linked
    <3>3. QED
      BY <3>1, <3>2
  <2>12. Apart(d)
    <3>1. \A l \in List : \A i \in 1..Len(d[l]) : l # w /\ d[l] = c[l]
      BY <1>4
    <3>2. QED
      BY <1>3, <3>1 DEF Apart
  <2>13. Owns(r, d)
    <3> SUFFICES ASSUME NEW b \in kept
                 PROVE  \E l \in List : \E i \in 1..Len(d[l]) : b = d[l][i]
      BY <2>9 DEF Owns
    <3>1. PICK l \in List : \E i \in 1..Len(c[l]) : b = c[l][i]
      BY <1>3 DEF Owns
    <3>2. l # w
      BY <1>2, <3>1
    <3>3. QED
      BY <1>4, <3>1, <3>2
  <2>14. \A q \in Peer : r.tail[q] = EndOf(q, d[q])
    BY <1>1, <1>3, <1>4, <2>9
  <2>15. QED
    BY <2>9, <2>11, <2>12, <2>13, <2>14 DEF Holds, r
<1>9. QED
  BY <1>7, <1>8

(* The contents of all lists. *)
Lists(bufs, waiting) == [l \in List |-> IF l = Writing THEN bufs ELSE waiting[l]]

LEMMA ListsType ==
  ASSUME NEW waiting \in [Peer -> Buffers], NEW bufs \in Buffers
  PROVE  /\ Lists(bufs, waiting) \in [List -> Buffers]
         /\ Lists(bufs, waiting)[Writing] = bufs
         /\ \A p \in Peer : Lists(bufs, waiting)[p] = waiting[p]
         /\ Writing \in List /\ \A p \in Peer : p \in List /\ p # Writing
BY ListAssumption DEF Lists, List

(* TryStartWrite does with the lists what UdpSocket says. *)
LEMMA StartedHolds ==
  ASSUME NEW n \in Nat, NEW m, NEW waiting \in [Peer -> Buffers],
         NEW bufs \in Buffers, Holds(m, Lists(bufs, waiting), n),
         NEW flight, TryStartWrite(waiting, bufs, flight)
  PROVE  Holds(Started(m), Lists(in_writing_buf', write_bufs'), n)
<1> DEFINE c == Lists(bufs, waiting)
<1>1. /\ c \in [List -> Buffers] /\ c[Writing] = bufs
      /\ \A p \in Peer : c[p] = waiting[p] /\ p \in List /\ p # Writing
      /\ Writing \in List
  BY ListsType
<1>2. /\ \A l \in List : /\ Len(c[l]) \in Nat
                         /\ \A i \in 1..Len(c[l]) : c[l][i] \in Heap(m)
                         /\ Linked(m, l, c[l])
      /\ Null \notin Heap(m)
  BY HoldsType, MemoryType DEF Holds
<1>3. \A l \in List : m.head[l] = Null <=> c[l] = <<>>
  <2> SUFFICES ASSUME NEW l \in List PROVE m.head[l] = Null <=> c[l] = <<>>
    OBVIOUS
  <2>1. m.head[l] = IF Len(c[l]) = 0 THEN Null ELSE c[l][1]
    BY <1>2 DEF Linked
  <2>2. c[l] = <<>> <=> Len(c[l]) = 0
    BY <1>1, EmptySeq DEF Buffers
  <2>3. Len(c[l]) # 0 => c[l][1] # Null
    <3>1. Len(c[l]) # 0 => 1 \in 1..Len(c[l])
      BY <1>2
    <3>2. QED
      BY <1>2, <3>1
  <2>4. QED
    BY <2>1, <2>2, <2>3
<1>4. CASE bufs # <<>> /\ StartWrite(waiting, bufs, in_writing_peer, flight)
  <2>1. m.head[Writing] # Null
    BY <1>1, <1>3, <1>4
  <2>2. Started(m) = m
    BY <2>1 DEF Started
  <2>3. in_writing_buf' = bufs /\ write_bufs' = waiting
    BY <1>4 DEF StartWrite
  <2>4. QED
    BY <2>2, <2>3
<1>5. ASSUME bufs = <<>>, NEW p \in Peer, waiting[p] # <<>>,
             StartWrite([waiting EXCEPT ![p] = <<>>], waiting[p], p, flight)
      PROVE  Holds(Started(m), Lists(in_writing_buf', write_bufs'), n)
  <2>1. m.head[Writing] = Null /\ m.head[p] # Null
    BY <1>1, <1>3, <1>5
  <2>2. /\ in_writing_buf' = waiting[p] /\ in_writing_peer' = p
        /\ write_bufs' = [waiting EXCEPT ![p] = <<>>]
    BY <1>5 DEF StartWrite
  <2>3. Started(m) = Moved(m, p)
    BY <2>1, <2>2 DEF Started
  <2>4. Lists(waiting[p], [waiting EXCEPT ![p] = <<>>])
          = [c EXCEPT ![Writing] = c[p], ![p] = <<>>]
    BY <1>1 DEF Lists, List
  <2> HIDE DEF c
  <2>5. Holds(Moved(m, p), [c EXCEPT ![Writing] = c[p], ![p] = <<>>], n)
    BY <1>1, <1>5, MovedHolds DEF c
  <2>6. QED
    BY <2>2, <2>3, <2>4, <2>5
<1>6. CASE /\ bufs = <<>> /\ waiting = NoBuffers
           /\ write_bufs' = waiting /\ in_writing_buf' = bufs
  <2>1. \A p \in Peer : m.head[p] = Null
    BY <1>1, <1>3, <1>6 DEF NoBuffers
  <2>2. Started(m) = m
    BY <2>1 DEF Started
  <2>3. QED
    BY <1>6, <2>2
<1>7. QED
  BY <1>4, <1>5, <1>6 DEF TryStartWrite

(* What the memory holds, and that nothing is left when the socket is gone. *)
ListInv ==
  /\ PumpInv
  /\ in_flight # <<>> => in_writing_buf # <<>>
  /\ destroyed \in BOOLEAN
  /\ IF destroyed THEN Heap(mem) = {} /\ closed /\ in_flight = <<>> /\ ~reading
     ELSE Holds(mem, Lists(in_writing_buf, write_bufs), sends)

LEMMA InitLists == ListInit => ListInv
<1> SUFFICES ASSUME ListInit PROVE ListInv
  OBVIOUS
<1> DEFINE c == Lists(<<>>, NoBuffers)
<1>1. PumpInv /\ in_flight = <<>> /\ sends = 0 /\ destroyed = FALSE
      /\ in_writing_buf = <<>> /\ write_bufs = NoBuffers
  BY InitPump DEF ListInit, Init
<1>2. /\ mem = [next |-> <<>>, head |-> [l \in List |-> Null],
                tail |-> [l \in List |-> HeadOf(l)]]
  BY DEF ListInit
<1>3. \A l \in List : c[l] = <<>>
  BY DEF Lists, NoBuffers, List
<1>4. <<>> \in [{} -> Nat]
  OBVIOUS
<1>5. <<>> \in UNION {[S -> Nat] : S \in SUBSET (1..0)}
  BY <1>4
<1>6. /\ [l \in List |-> Null] \in [List -> Nat]
      /\ [l \in List |-> HeadOf(l)] \in [List -> Addresses]
  BY DEF Null, Addresses
<1>7. mem \in Memory(0) /\ Heap(mem) = {}
  <2>1. DOMAIN <<>> = {}
    BY <1>4
  <2>2. mem.next = <<>>
    BY <1>2
  <2>3. mem \in Memory(0)
    BY <1>2, <1>5, <1>6 DEF Memory
  <2>4. QED
    BY <2>1, <2>2, <2>3 DEF Heap
<1>8. /\ \A l \in List : mem.head[l] = Null
      /\ \A p \in Peer : mem.tail[p] = HeadOf(p)
  BY <1>2 DEF List
<1>9. \A l \in List : Linked(mem, l, c[l])
  BY <1>3, <1>8, NoBuffersType DEF Linked
<1>10. Apart(c) /\ Owns(mem, c) /\ \A p \in Peer : mem.tail[p] = EndOf(p, c[p])
  BY <1>3, <1>7, <1>8 DEF Apart, Owns, EndOf, List
<1>11. Holds(mem, c, 0)
  BY <1>7, <1>9, <1>10 DEF Holds
<1>12. QED
  BY <1>1, <1>11 DEF ListInv

(* What is written is not empty. *)
LEMMA StartsSomething ==
  ASSUME NEW waiting, NEW bufs, TryStartWrite(waiting, bufs, <<>>),
         in_flight' # <<>>
  PROVE  in_writing_buf' # <<>>
BY DEF TryStartWrite, StartWrite

LEMMA SendLists ==
  ASSUME ListInv, NEW p \in Peer, ListSend(p)
  PROVE  ListInv'
<1> DEFINE b == sends + 1
           waiting == [write_bufs EXCEPT ![p] = Append(@, b)]
           m == Pushed(mem, p, b)
<1>1. /\ sends \in Nat /\ write_bufs \in [Peer -> Buffers]
      /\ in_writing_buf \in Buffers
      /\ ~in_writing => in_flight = <<>>
      /\ in_writing \in BOOLEAN
  BY DEF ListInv, PumpInv, Pump, TypeOK
<1>2. ~destroyed /\ Holds(mem, Lists(in_writing_buf, write_bufs), sends)
  BY DEF ListInv, ListSend, Send
<1>3. sends' = b /\ Put(waiting) /\ destroyed' = destroyed
      /\ mem' = IF in_writing THEN m ELSE Started(m)
  BY DEF ListSend, Send
<1>4. PumpInv'
  BY SendPump DEF ListInv, ListSend
<1>5. b \in Nat /\ waiting \in [Peer -> Buffers]
  <2>1. b \in Nat
    BY <1>1
  <2>2. \A s \in Buffers : Append(s, b) \in Buffers
    BY <2>1, AppendProperties DEF Buffers
  <2>3. QED
    BY <1>1, <2>1, <2>2
<1>6. Lists(in_writing_buf, waiting)
        = [Lists(in_writing_buf, write_bufs) EXCEPT ![p] = Append(@, b)]
  BY <1>1, ListAssumption DEF Lists, List
<1> HIDE DEF b, waiting
<1>7. Holds(m, Lists(in_writing_buf, waiting), b)
  <2> DEFINE c == Lists(in_writing_buf, write_bufs)
  <2>1. c \in [List -> Buffers] /\ Holds(mem, c, sends)
    BY <1>1, <1>2, ListsType
  <2> HIDE DEF c
  <2>2. Holds(Pushed(mem, p, sends + 1),
              [c EXCEPT ![p] = Append(@, sends + 1)], sends + 1)
    BY <1>1, <2>1, PushedHolds
  <2>3. QED
    BY <1>6, <2>2 DEF b, c
<1> HIDE DEF m
<1>8. /\ Holds(mem', Lists(in_writing_buf', write_bufs'), b)
      /\ in_flight' # <<>> => in_writing_buf' # <<>>
  <2>1. CASE in_writing
    <3>1. write_bufs' = waiting
          /\ UNCHANGED <<in_writing_buf, in_flight>> /\ mem' = m
      BY <1>3, <2>1 DEF Put
    <3>2. QED
      BY <1>7, <3>1 DEF ListInv
  <2>2. CASE ~in_writing
    <3>1. TryStartWrite(waiting, in_writing_buf, <<>>) /\ mem' = Started(m)
      BY <1>1, <1>3, <2>2 DEF Put
    <3>2. Holds(Started(m), Lists(in_writing_buf', write_bufs'), b)
      BY <1>1, <1>5, <1>7, <3>1, StartedHolds
    <3>3. QED
      BY <3>1, <3>2, StartsSomething
  <2>3. QED
    BY <2>1, <2>2
<1>9. QED
  BY <1>2, <1>3, <1>4, <1>8 DEF ListInv

LEMMA WrittenLists ==
  ASSUME ListInv, ListWritten
  PROVE  ListInv'
<1> DEFINE k == Len(in_writing_buf)
           m == CutOff(mem, k)
<1>1. /\ sends \in Nat /\ write_bufs \in [Peer -> Buffers]
      /\ in_writing_buf \in Buffers
      /\ in_flight # <<>> /\ sends' = sends
  BY DEF ListInv, PumpInv, TypeOK, ListWritten, Written
<1>2. ~destroyed /\ Holds(mem, Lists(in_writing_buf, write_bufs), sends)
  BY <1>1 DEF ListInv
<1>3. in_flight[1].bufs = in_writing_buf
  <2>1. in_flight = <<[peer |-> in_writing_peer, bufs |-> in_writing_buf]>>
    BY <1>1 DEF ListInv, PumpInv, Pump
  <2>2. QED
    BY <2>1
<1>4. mem' = Started(m) /\ destroyed' = destroyed
  BY <1>3 DEF ListWritten
<1>5. PumpInv'
  BY WrittenPump DEF ListInv, ListWritten
<1>6. TryStartWrite(write_bufs, <<>>, <<>>)
  BY WrittenStarts DEF ListInv, ListWritten
<1>7. Holds(m, Lists(<<>>, write_bufs), sends)
  <2> DEFINE c == Lists(in_writing_buf, write_bufs)
  <2>1. c \in [List -> Buffers] /\ c[Writing] = in_writing_buf
    BY <1>1, ListsType
  <2>2. Lists(<<>>, write_bufs) = [c EXCEPT ![Writing] = <<>>]
    BY <1>1 DEF Lists, List
  <2> HIDE DEF c
  <2>3. Holds(CutOff(mem, Len(c[Writing])), [c EXCEPT ![Writing] = <<>>], sends)
    BY <1>1, <1>2, <2>1, CutHolds DEF c
  <2>4. QED
    BY <2>1, <2>2, <2>3
<1> HIDE DEF m
<1>8. Holds(Started(m), Lists(in_writing_buf', write_bufs'), sends)
  BY <1>1, <1>6, <1>7, StartedHolds, NoBuffersType
<1>9. in_flight' # <<>> => in_writing_buf' # <<>>
  BY <1>6, StartsSomething
<1>10. QED
  BY <1>1, <1>2, <1>4, <1>5, <1>8, <1>9 DEF ListInv

LEMMA FailedLists ==
  ASSUME ListInv, ListWriteFailed
  PROVE  ListInv'
<1>1. /\ in_writing_buf # <<>> /\ in_writing_buf \in Buffers
      /\ in_flight # <<>> /\ UNCHANGED <<sends, mem, destroyed>>
      /\ Tail(in_flight) = <<>>
  BY InFlight DEF ListInv, PumpInv, TypeOK, ListWriteFailed, WriteFailed
<1>2. PumpInv'
  BY FailedPump DEF ListInv, ListWriteFailed
<1>3. Cut(in_writing_buf, 0) = in_writing_buf
  BY <1>1, SubSeqFull DEF Cut, Buffers
<1>4. UNCHANGED <<in_writing_buf, write_bufs>>
  <2>1. CASE WriteCallback(0)
    <3>1. TryStartWrite(write_bufs, in_writing_buf, <<>>)
      BY <1>1, <1>3, <2>1 DEF WriteCallback
    <3>2. QED
      BY <1>1, <3>1 DEF TryStartWrite, StartWrite
  <2>2. CASE UNCHANGED <<write_bufs, in_writing_buf>>
    BY <2>2
  <2>3. QED
    BY <2>1, <2>2 DEF ListWriteFailed, WriteFailed
<1>5. QED
  BY <1>1, <1>2, <1>4 DEF ListInv

LEMMA NextLists == ListInv /\ [ListNext]_listVars => ListInv'
<1> SUFFICES ASSUME ListInv, [ListNext]_listVars PROVE ListInv'
  OBVIOUS
<1>1. ASSUME [Next]_vars,
             UNCHANGED <<mem, destroyed, in_writing_buf, write_bufs, sends>>,
             in_flight' # <<>> => in_flight # <<>>,
             destroyed => UNCHANGED <<closed, in_flight, reading>>
      PROVE  ListInv'
  <2>1. PumpInv'
    BY <1>1, NextPump DEF ListInv
  <2>2. QED
    BY <1>1, <2>1 DEF ListInv
<1>2. CASE /\ \/ ~destroyed /\ Open
              \/ Close \/ Read \/ ReadStops \/ ReadAborted
           /\ UNCHANGED <<mem, destroyed>>
  <2>1. [Next]_vars
    BY <1>2 DEF Next
  <2>2. UNCHANGED <<in_writing_buf, write_bufs, sends, in_flight>>
    BY <1>2 DEF Open, Close, Read, ReadStops, ReadAborted, writeVars
  <2>3. destroyed => closed /\ ~reading /\ closed \in BOOLEAN
    BY DEF ListInv, PumpInv, TypeOK
  <2>4. destroyed => UNCHANGED <<closed, in_flight, reading>>
    BY <1>2, <2>3 DEF Close, Read, ReadStops, ReadAborted
  <2>5. QED
    BY <1>1, <1>2, <2>1, <2>2, <2>4
<1>3. CASE WriteAborted /\ UNCHANGED <<mem, destroyed>>
  <2>1. in_flight # <<>> /\ [Next]_vars
        /\ UNCHANGED <<in_writing_buf, write_bufs, sends>>
    BY <1>3 DEF WriteAborted, Next
  <2>2. ~destroyed
    BY <2>1 DEF ListInv
  <2>3. QED
    BY <1>1, <1>3, <2>1, <2>2
<1>4. CASE Destroy
  <2>1. /\ ~destroyed /\ destroyed' = TRUE
        /\ closed /\ in_flight = <<>> /\ ~reading
        /\ UNCHANGED vars
        /\ mem' = Freed(mem, UNION {ToSet(Chain(mem, l)) : l \in List})
    BY <1>4 DEF Destroy, Owned
  <2>2. PumpInv'
    BY <2>1, NextPump DEF ListInv
  <2> DEFINE c == Lists(in_writing_buf, write_bufs)
  <2>3. Holds(mem, c, sends) /\ sends \in Nat
    BY <2>1 DEF ListInv, PumpInv, TypeOK
  <2>4. /\ Null \notin Heap(mem) /\ IsFiniteSet(Heap(mem))
        /\ mem = [next |-> mem.next, head |-> mem.head, tail |-> mem.tail]
    BY <2>3, HoldsType, MemoryType
  <2>5. \A l \in List : Chain(mem, l) = c[l] /\ Len(c[l]) \in Nat
                        /\ DOMAIN c[l] = 1..Len(c[l])
    <3> SUFFICES ASSUME NEW l \in List
                 PROVE  /\ Chain(mem, l) = c[l] /\ Len(c[l]) \in Nat
                        /\ DOMAIN c[l] = 1..Len(c[l])
      OBVIOUS
    <3>1. Linked(mem, l, c[l])
          /\ \A i, j \in 1..Len(c[l]) : c[l][i] = c[l][j] => i = j
      BY <2>3 DEF Holds, Apart
    <3>2. Chain(mem, l) = c[l]
      BY <2>4, <3>1, ChainIs
    <3>3. QED
      BY <3>1, <3>2, LenProperties DEF Linked, Buffers
  <2> HIDE DEF c
  <2> DEFINE all == UNION {ToSet(Chain(mem, l)) : l \in List}
  <2>6. ASSUME NEW b \in Heap(mem)
        PROVE  b \in all
    <3>1. PICK l \in List : \E i \in 1..Len(c[l]) : b = c[l][i]
      BY <2>3 DEF Holds, Owns
    <3>2. b \in ToSet(Chain(mem, l))
      BY <2>5, <3>1 DEF ToSet
    <3>3. QED
      BY <3>2
  <2>7. Heap(mem) \ all = {}
    BY <2>6
  <2> HIDE DEF all
  <2>8. Heap(Freed(mem, all)) = {}
    <3>1. Freed(mem, all).next = [b \in Heap(mem) \ all |-> mem.next[b]]
      BY <2>4 DEF Freed
    <3>2. QED
      BY <2>7, <3>1 DEF Heap
  <2>9. QED
    BY <2>1, <2>2, <2>8 DEF ListInv, all, vars, writeVars
<1>5. CASE UNCHANGED listVars
  BY <1>1, <1>5 DEF listVars, vars, writeVars
<1>6. QED
  BY <1>2, <1>3, <1>4, <1>5, SendLists, WrittenLists, FailedLists DEF ListNext

LEMMA ListsCorrect == ListSpec => []ListInv
<1>1. ListInv /\ [ListNext]_listVars => ListInv'
  BY NextLists
<1>2. QED
  BY <1>1, InitLists, PTL DEF ListSpec

LEMMA ListStep == [ListNext]_listVars => [Next]_vars
<1> SUFFICES ASSUME [ListNext]_listVars PROVE [Next]_vars
  OBVIOUS
<1>1. CASE UNCHANGED listVars
  BY <1>1 DEF listVars
<1>2. CASE ListNext
  BY <1>2 DEF ListNext, Next, ListSend, ListWritten, ListWriteFailed, Destroy
<1>3. QED
  BY <1>1, <1>2

(* What the lists in memory are made to do is what UdpSocket does, and so   *)
(* is safe: the safety part of the refinement (the calls of BufferList in   *)
(* AsioUDP::Send and WriteCallback change nothing else).                    *)
THEOREM ListsImplementSocket == ListSpec => Init /\ [][Next]_vars
<1>1. ListInit => Init
  BY DEF ListInit
<1>2. QED
  BY <1>1, ListStep, PTL DEF ListSpec

(* With its lists in memory AsioUDP loses nothing either, and holds what it *)
(* writes (AsioUDP::Send, WriteCallback, BufferList).                       *)
THEOREM ListedSocketIsSafe ==
  ListSpec => [](TypeOK /\ NothingLost /\ BuffersOutliveWrite)
<1>1. ListInv => TypeOK /\ NothingLost /\ BuffersOutliveWrite
  BY PumpSafe DEF ListInv
<1>2. QED
  BY <1>1, ListsCorrect, PTL

(* The iterators of each list go through what was pushed to it and not cut, *)
(* for any number of Buffers (BufferList::Push, Cut, operator=).            *)
THEOREM ListsAreRight == ListSpec => []ListsAgree
<1>1. ListInv => ListsAgree
  <2> SUFFICES ASSUME ListInv, ~destroyed, NEW l \in List
               PROVE  GoesThrough(mem, mem.head[l], Contents(l))
    BY DEF ListsAgree
  <2> DEFINE c == Lists(in_writing_buf, write_bufs)
  <2>1. Holds(mem, c, sends) /\ sends \in Nat
    BY DEF ListInv, PumpInv, TypeOK
  <2>2. Linked(mem, l, c[l]) /\ Null \notin Heap(mem)
    BY <2>1, HoldsType, MemoryType DEF Holds
  <2>3. c[l] = Contents(l)
    BY DEF Lists, Contents
  <2>4. QED
    BY <2>2, <2>3, LinkedGoes
<1>2. QED
  BY <1>1, ListsCorrect, PTL

(* A Buffer that Push takes goes behind the last of its peer, and its       *)
(* address is not written to memory that was freed (BufferList::Push, Cut). *)
THEOREM TailsAreLast == ListSpec => []TailIsLast
<1>1. ListInv => TailIsLast
  <2> SUFFICES ASSUME ListInv, ~destroyed, NEW p \in Peer
               PROVE  mem.tail[p] = IF mem.head[p] = Null THEN HeadOf(p)
                                    ELSE NextOf(Last(Contents(p)))
    BY DEF TailIsLast
  <2> DEFINE s == write_bufs[p]
  <2>1. /\ Holds(mem, Lists(in_writing_buf, write_bufs), sends)
        /\ sends \in Nat
        /\ write_bufs \in [Peer -> Buffers] /\ in_writing_buf \in Buffers
    BY DEF ListInv, PumpInv, TypeOK
  <2>2. /\ Lists(in_writing_buf, write_bufs)[p] = s
        /\ p \in List /\ p # Writing
    BY <2>1, ListsType
  <2>3. /\ Linked(mem, p, s) /\ mem.tail[p] = EndOf(p, s)
        /\ Null \notin Heap(mem) /\ Len(s) \in Nat
        /\ \A i \in 1..Len(s) : s[i] \in Heap(mem)
    BY <2>1, <2>2, HoldsType, MemoryType DEF Holds
  <2>4. Contents(p) = s
    BY <2>2 DEF Contents
  <2> HIDE DEF s
  <2>5. Len(s) # 0 => s[1] # Null
    <3>1. Len(s) # 0 => 1 \in 1..Len(s)
      BY <2>3
    <3>2. QED
      BY <2>3, <3>1
  <2>6. mem.head[p] = Null <=> Len(s) = 0
    BY <2>3, <2>5 DEF Linked
  <2>7. QED
    BY <2>3, <2>4, <2>6 DEF EndOf, Last
<1>2. QED
  BY <1>1, ListsCorrect, PTL

(* Each Buffer is of one list, which frees it; none is left when the socket *)
(* is destroyed, nor freed while it is written (BufferList::Cut, Clear).    *)
THEOREM NothingIsLeaked == ListSpec => []NothingLeaks
<1>1. ListInv => NothingLeaks
  <2> SUFFICES ASSUME ListInv PROVE NothingLeaks
    OBVIOUS
  <2> DEFINE c == Lists(in_writing_buf, write_bufs)
  <2>1. /\ sends \in Nat /\ destroyed \in BOOLEAN
        /\ write_bufs \in [Peer -> Buffers] /\ in_writing_buf \in Buffers
    BY DEF ListInv, PumpInv, TypeOK
  <2>2. CASE destroyed
    <3>1. Heap(mem) = {} /\ in_flight = <<>>
      BY <2>2 DEF ListInv
    <3>2. \A i \in DOMAIN in_flight : FALSE
      BY <3>1
    <3>3. QED
      BY <2>2, <3>1, <3>2 DEF NothingLeaks
  <2>3. CASE ~destroyed
    <3>1. Holds(mem, c, sends)
      BY <2>3 DEF ListInv
    <3>2. \A l \in List : /\ c[l] = Contents(l)
                          /\ c[l] \in Buffers
                          /\ \A i \in 1..Len(c[l]) : c[l][i] \in Heap(mem)
      BY <2>1, <3>1, HoldsType DEF Lists, Contents
    <3>3. \A l \in List : ToSet(Contents(l)) = {c[l][i] : i \in 1..Len(c[l])}
      BY <3>2, LenProperties DEF ToSet, Buffers
    <3> HIDE DEF c
    <3>4. Heap(mem) = UNION {ToSet(Contents(l)) : l \in List}
      <4>1. ASSUME NEW b \in Heap(mem)
            PROVE  \E l \in List : b \in ToSet(Contents(l))
        <5>1. PICK l \in List : \E i \in 1..Len(c[l]) : b = c[l][i]
          BY <3>1 DEF Holds, Owns
        <5>2. QED
          BY <3>3, <5>1
      <4>2. \A l \in List : ToSet(Contents(l)) \subseteq Heap(mem)
        BY <3>2, <3>3
      <4>3. QED
        BY <4>1, <4>2
    <3>5. ASSUME NEW k \in List, NEW l \in List, k # l
          PROVE  ToSet(Contents(k)) \cap ToSet(Contents(l)) = {}
      <4>1. Apart(c)
        BY <3>1 DEF Holds
      <4>2. QED
        BY <3>3, <3>5, <4>1 DEF Apart
    <3>6. ASSUME NEW i \in DOMAIN in_flight
          PROVE  ToSet(in_flight[i].bufs) \subseteq Heap(mem)
      <4> DEFINE o == [peer |-> in_writing_peer, bufs |-> in_writing_buf]
      <4>1. in_flight = <<o>>
        <5>1. in_flight # <<>>
          BY <3>6
        <5>2. QED
          BY <5>1 DEF ListInv, PumpInv, Pump
      <4>2. in_flight[i] = o
        BY <3>6, <4>1
      <4>3. in_flight[i].bufs = Contents(Writing) /\ Writing \in List
        BY <4>2 DEF Contents, List
      <4>4. QED
        BY <3>2, <3>3, <4>3
    <3>7. QED
      BY <2>3, <3>4, <3>5, <3>6 DEF NothingLeaks
  <2>4. QED
    BY <2>1, <2>2, <2>3
<1>2. QED
  BY <1>1, ListsCorrect, PTL
=============================================================================
