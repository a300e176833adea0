------------------------------- MODULE KcpLinkOrder ------------------------------
(***************************************************************************)
(* InOrderDelivery of KcpLink, for every value of its constants, by         *)
(* OrderInv: what numbers the fragments of the messages have, and where     *)
(* their copies are.  With KcpLinkProofs this makes all of IInv inductive,  *)
(* and a link implement the safety part of MessageChannel.  A pair of       *)
(* streams implements a link.                                               *)
(***************************************************************************)
EXTENDS KcpStream, KcpLinkProofs, SequenceTheorems

LEMMA InitOrder == Init => OrderInv
<1> SUFFICES ASSUME Init PROVE OrderInv
  OBVIOUS
<1>1. /\ \A e \in Endpoint :
           /\ sent[e] = <<>> /\ stream[e] = <<>> /\ delivered[e] = <<>>
           /\ snd_queue[e] = <<>> /\ rcv_queue[e] = <<>> /\ input[e] = <<>>
           /\ snd_nxt[e] = 0 /\ rcv_nxt[e] = 0
           /\ snd_buf[e] = {} /\ rcv_buf[e] = {} /\ net[e] = {}
           /\ Peer(e) \in Endpoint
  BY PeerFacts DEF Init
<1>2. MessagesWellFormed /\ StreamIsSent /\ QueueIsStream
  BY <1>1 DEF MessagesWellFormed, StreamIsSent, LaidOut, QueueIsStream
<1>3. NumbersKept /\ ReceivedInOrder
  BY <1>1 DEF NumbersKept, PushesTrue, ReceivedInOrder, ConsumedCount
<1>4. ConsumedIsDelivered /\ InOrderDelivery
  BY <1>1 DEF ConsumedIsDelivered, ConsumedCount, InOrderDelivery
<1>5. QED
  BY <1>2, <1>3, <1>4 DEF OrderInv

(* The types that the proofs below need, of one endpoint. *)
LEMMA EndTypes ==
  ASSUME TypeOK, NEW e \in Endpoint
  PROVE  /\ snd_nxt[e] \in Nat /\ rcv_nxt[e] \in Nat
         /\ stream[e] \in Seq(Fragment) /\ Len(stream[e]) \in Nat
         /\ snd_queue[e] \in Seq(Fragment) /\ Len(snd_queue[e]) \in Nat
         /\ rcv_queue[e] \in Seq(Fragment) /\ Len(rcv_queue[e]) \in Nat
         /\ sent[e] \in Seq(Seq(Fragment)) /\ Len(sent[e]) \in Nat
         /\ delivered[e] \in Seq(Seq(Fragment)) /\ Len(delivered[e]) \in Nat
         /\ \A k \in 1..Len(sent[e]) : /\ sent[e][k] \in Seq(Fragment)
                                       /\ Len(sent[e][k]) \in Nat
         /\ snd_buf[e] \in SUBSET SendSegment
         /\ rcv_buf[e] \in SUBSET RecvSegment
<1>1. /\ snd_nxt[e] \in Nat /\ rcv_nxt[e] \in Nat
      /\ stream[e] \in Seq(Fragment)
      /\ snd_queue[e] \in Seq(Fragment)
      /\ rcv_queue[e] \in Seq(Fragment)
      /\ sent[e] \in Seq(Seq(Fragment))
      /\ delivered[e] \in Seq(Seq(Fragment))
      /\ snd_buf[e] \in SUBSET SendSegment
      /\ rcv_buf[e] \in SUBSET RecvSegment
  BY DEF TypeOK
<1>2. /\ Len(stream[e]) \in Nat /\ Len(snd_queue[e]) \in Nat
      /\ Len(rcv_queue[e]) \in Nat
  BY <1>1
<1>3. Len(sent[e]) \in Nat /\ Len(delivered[e]) \in Nat
  BY <1>1
<1>4. \A k \in 1..Len(sent[e]) : /\ sent[e][k] \in Seq(Fragment)
                                 /\ Len(sent[e][k]) \in Nat
  <2>1. \A k \in 1..Len(sent[e]) : sent[e][k] \in Seq(Fragment)
    BY <1>1
  <2>2. QED
    BY <2>1
<1>5. QED
  BY <1>1, <1>2, <1>3, <1>4

(* The loop that fills rcv_queue goes on with the peer's stream where the   *)
(* queue ends, because the segments of rcv_buf have their true numbers.     *)
LEMMA MovesInOrder ==
  ASSUME TypeOK, NEW e \in Endpoint, NEW buf \in SUBSET RecvSegment,
         NEW queue \in Seq(Fragment), NEW n, Moves(e, buf, queue, n),
         \A s \in buf : Numbers(Peer(e), s.sn, s.frag),
         rcv_nxt[e] <= snd_nxt[Peer(e)],
         NEW start \in Nat, start + Len(queue) = rcv_nxt[e],
         \A i \in 1..Len(queue) : queue[i] = stream[Peer(e)][start + i]
  PROVE  /\ rcv_nxt'[e] <= snd_nxt[Peer(e)]
         /\ rcv_nxt'[e] - Len(rcv_queue'[e]) = start
         /\ \A i \in 1..Len(rcv_queue'[e]) :
              rcv_queue'[e][i] = stream[Peer(e)][start + i]
         /\ \A s \in rcv_buf'[e] : Numbers(Peer(e), s.sn, s.frag)
         /\ \A x \in Endpoint : x # e => /\ rcv_nxt'[x] = rcv_nxt[x]
                                         /\ rcv_buf'[x] = rcv_buf[x]
                                         /\ rcv_queue'[x] = rcv_queue[x]
<1>1. /\ n \in Nat
      /\ rcv_nxt'[e] = rcv_nxt[e] + n
      /\ rcv_buf'[e] = {s \in buf : s.sn >= rcv_nxt[e] + n}
      /\ Len(rcv_queue'[e]) = Len(queue) + n
      /\ \A i \in 1..Len(queue) : rcv_queue'[e][i] = queue[i]
      /\ \A x \in Endpoint : x # e => /\ rcv_nxt'[x] = rcv_nxt[x]
                                      /\ rcv_buf'[x] = rcv_buf[x]
                                      /\ rcv_queue'[x] = rcv_queue[x]
  BY DEF Moves, TypeOK
<1>2. /\ rcv_nxt[e] \in Nat
      /\ snd_nxt[Peer(e)] \in Nat
      /\ Len(queue) \in Nat
  BY PeerFacts, EndTypes
<1>3. ASSUME NEW i \in 1..n
      PROVE  /\ rcv_nxt[e] + i - 1 < snd_nxt[Peer(e)]
             /\ rcv_queue'[e][Len(queue) + i] = stream[Peer(e)][rcv_nxt[e] + i]
  <2>1. PICK s \in buf : /\ s.sn = rcv_nxt[e] + i - 1
                         /\ rcv_queue'[e][Len(queue) + i] = s.frag
    BY DEF Moves
  <2>2. rcv_nxt[e] + i - 1 + 1 = rcv_nxt[e] + i
    BY <1>1, <1>2
  <2>3. QED
    BY <2>1, <2>2 DEF Numbers
<1>4. rcv_nxt'[e] <= snd_nxt[Peer(e)]
  <2>1. CASE n = 0
    BY <1>1, <1>2, <2>1
  <2>2. CASE n > 0
    <3>1. rcv_nxt[e] + n - 1 < snd_nxt[Peer(e)]
      BY <1>1, <1>3, <2>2
    <3>2. QED
      BY <1>1, <1>2, <3>1
  <2>3. QED
    BY <1>1, <2>1, <2>2
<1>5. ASSUME NEW i \in 1..Len(rcv_queue'[e])
      PROVE  rcv_queue'[e][i] = stream[Peer(e)][start + i]
  <2>1. CASE i <= Len(queue)
    BY <1>1, <1>2, <2>1
  <2>2. CASE i > Len(queue)
    <3>1. /\ i - Len(queue) \in 1..n
          /\ Len(queue) + (i - Len(queue)) = i
          /\ rcv_nxt[e] + (i - Len(queue)) = start + i
      <4>1. n \in Nat /\ Len(queue) \in Nat /\ i \in Nat /\ rcv_nxt[e] \in Nat
        BY <1>1, <1>2
      <4>2. i > Len(queue) /\ i <= Len(queue) + n
        BY <1>1, <2>2
      <4>3. i - Len(queue) \in 1..n /\ Len(queue) + (i - Len(queue)) = i
        BY <4>1, <4>2
      <4>4. rcv_nxt[e] + (i - Len(queue)) = start + i
        BY <4>1
      <4>5. QED
        BY <4>3, <4>4
    <3>2. QED
      BY <1>3, <3>1
  <2>3. QED
    BY <1>1, <1>2, <2>1, <2>2
<1>6. QED
  BY <1>1, <1>2, <1>4, <1>5

(* What ikcp_recv returns is the next message of the peer, whole: the       *)
(* fragments that ikcp_peeksize counts are in the queue, and only the last  *)
(* of them has frg = 0.                                                     *)
LEMMA RecvDelivers ==
  ASSUME TypeOK, OrderInv, NEW e \in Endpoint, rcv_queue[e] # <<>>,
         Complete(rcv_queue[e]), NEW n \in 1..Len(rcv_queue[e]),
         MergesTo(rcv_queue[e], n)
  PROVE  /\ Len(delivered[e]) + 1 <= Len(sent[Peer(e)])
         /\ SubSeq(rcv_queue[e], 1, n) = sent[Peer(e)][Len(delivered[e]) + 1]
         /\ n = Len(sent[Peer(e)][Len(delivered[e]) + 1])
         /\ MessageAt(sent[Peer(e)], stream[Peer(e)], Len(delivered[e]) + 1,
                      ConsumedCount(e))
<1> DEFINE p == Peer(e)
           queue == rcv_queue[e]
           k == Len(delivered[e]) + 1
           start == ConsumedCount(e)
           m == sent[p][k]
<1>1. /\ p \in Endpoint
      /\ rcv_nxt[e] \in Nat /\ snd_nxt[p] \in Nat
      /\ queue \in Seq(Fragment) /\ Len(queue) \in Nat /\ Len(queue) > 0
      /\ Len(stream[p]) \in Nat
      /\ k \in Nat /\ k > 0
      /\ Len(snd_queue[p]) \in Nat
      /\ Len(sent[p]) \in Nat
  BY PeerFacts, EndTypes
<1>2. /\ start >= 0 /\ start = rcv_nxt[e] - Len(queue)
      /\ rcv_nxt[e] <= snd_nxt[p]
      /\ snd_nxt[p] + Len(snd_queue[p]) = Len(stream[p])
      /\ \A i \in 1..Len(queue) : queue[i] = stream[p][start + i]
  BY <1>1 DEF OrderInv, ReceivedInOrder, QueueIsStream, ConsumedCount
<1>3. start \in Nat /\ start < Len(stream[p])
  <2>1. start \in Nat /\ start < rcv_nxt[e]
    BY <1>1, <1>2
  <2>2. snd_nxt[p] <= Len(stream[p])
    BY <1>1, <1>2
  <2>3. QED
    BY <1>1, <1>2, <2>1, <2>2
<1>4. k <= Len(sent[p]) /\ stream[p][start + 1] = m[1]
  <2>1. Len(delivered[e]) < Len(sent[p]) /\ stream[p][start + 1] = m[1]
    BY <1>1, <1>3 DEF OrderInv, ConsumedIsDelivered
  <2>2. QED
    BY <1>1, <2>1
<1>5. /\ m \in Seq(Fragment) /\ Len(m) \in Nat
      /\ Len(m) > 0
      /\ \A j \in 1..Len(m) : m[j].msg = k /\ m[j].frg = Len(m) - j
  <2>1. k \in 1..Len(sent[p])
    BY <1>1, <1>4
  <2>2. m \in Seq(Fragment) /\ Len(m) \in Nat
    BY <1>1, <2>1, EndTypes
  <2>3. QED
    BY <1>1, <2>1, <2>2 DEF OrderInv, MessagesWellFormed, WellFormed
<1>6. MessageAt(sent[p], stream[p], k, start)
  <2>1. start + 1 \in 1..Len(stream[p])
    BY <1>1, <1>3
  <2>2. stream[p][start + 1].msg = k /\ stream[p][start + 1].frg = Len(m) - 1
    BY <1>4, <1>5
  <2>3. MessageAt(sent[p], stream[p], stream[p][start + 1].msg,
                 StartOf(sent[p], stream[p], start + 1))
    BY <1>1, <2>1 DEF OrderInv, StreamIsSent, LaidOut
  <2>4. StartOf(sent[p], stream[p], start + 1) = start
    BY <1>3, <1>5, <2>2 DEF StartOf
  <2>5. QED
    BY <2>2, <2>3, <2>4
<1>7. /\ Len(m) <= Len(queue)
      /\ \A j \in 1..Len(m) : queue[j] = m[j]
  <2>1. queue[1] = m[1]
    BY <1>1, <1>2, <1>4
  <2>2. queue[1].frg = Len(m) - 1
    BY <1>5, <2>1
  <2>3. Len(m) <= Len(queue)
    BY <1>1, <1>5, <2>2 DEF Complete
  <2>4. \A j \in 1..Len(m) : stream[p][start + j] = m[j]
    BY <1>6 DEF MessageAt
  <2>5. ASSUME NEW j \in 1..Len(m)
        PROVE  queue[j] = m[j]
    <3>1. j \in 1..Len(queue)
      BY <1>1, <1>5, <2>3
    <3>2. QED
      BY <1>2, <2>4, <3>1
  <2>6. QED
    BY <2>3, <2>5
<1>8. n = Len(m)
  <2>1. \A j \in 1..Len(m) : queue[j].frg = Len(m) - j
    BY <1>5, <1>7
  <2>2. /\ \A i \in 1..n-1 : queue[i].frg # 0
        /\ queue[n].frg = 0 \/ n = Len(queue)
    BY DEF MergesTo
  <2>3. ~(n > Len(m))
    <3>1. queue[Len(m)].frg = 0
      <4>1. Len(m) \in 1..Len(m) /\ Len(m) - Len(m) = 0
        BY <1>5
      <4>2. QED
        BY <2>1, <4>1
    <3>2. n > Len(m) => Len(m) \in 1..n-1
      BY <1>5
    <3>3. QED
      BY <2>2, <3>1, <3>2
  <2>4. ~(n < Len(m))
    <3>1. ASSUME n < Len(m)
          PROVE  queue[n].frg = Len(m) - n /\ Len(m) - n # 0 /\ n # Len(queue)
      <4>1. n \in Nat /\ n \in 1..Len(m)
        BY <1>1, <1>5, <3>1
      <4>2. Len(m) - n # 0 /\ n # Len(queue)
        BY <1>1, <1>5, <1>7, <3>1, <4>1
      <4>3. QED
        BY <2>1, <4>1, <4>2
    <3>2. QED
      BY <2>2, <3>1
  <2>5. QED
    BY <1>1, <1>5, <2>3, <2>4
<1>9. SubSeq(queue, 1, n) = m
  <2>1. /\ SubSeq(queue, 1, n) \in Seq(Fragment)
        /\ Len(SubSeq(queue, 1, n)) = n
        /\ \A j \in 1..n : SubSeq(queue, 1, n)[j] = queue[j]
    BY <1>1
  <2>2. QED
    BY <1>5, <1>7, <1>8, <2>1, SeqEqual
<1>10. QED
  BY <1>4, <1>6, <1>8, <1>9

(* A message that is added at the end of the stream leaves the others where *)
(* they are. *)
LEMMA LaidOutGrows ==
  ASSUME NEW msgs \in Seq(Seq(Fragment)), NEW strm \in Seq(Fragment),
         NEW m \in Seq(Fragment), WellFormed(m, Len(msgs) + 1), LaidOut(msgs, strm)
  PROVE  LaidOut(Append(msgs, m), strm \o m)
<1> DEFINE ms == Append(msgs, m)
           st == strm \o m
<1>0. /\ Len(m) > 0
      /\ \A j \in 1..Len(m) : m[j].msg = Len(msgs) + 1 /\ m[j].frg = Len(m) - j
  BY DEF WellFormed
<1>1. /\ Len(msgs) \in Nat /\ Len(strm) \in Nat /\ Len(m) \in Nat
      /\ \A k \in 1..Len(msgs) : Len(msgs[k]) \in Nat
  <2>1. \A k \in 1..Len(msgs) : msgs[k] \in Seq(Fragment)
    OBVIOUS
  <2>2. QED
    BY <2>1
<1>2. /\ Len(ms) = Len(msgs) + 1
      /\ \A k \in 1..Len(msgs) : ms[k] = msgs[k]
      /\ ms[Len(msgs) + 1] = m
  BY AppendProperties
<1>3. /\ Len(st) = Len(strm) + Len(m)
      /\ \A i \in 1..Len(strm) : st[i] = strm[i]
      /\ \A j \in 1..Len(m) : st[Len(strm) + j] = m[j]
  OBVIOUS
<1> HIDE DEF ms, st
<1>4. Len(st) > 0 /\ st[1] = ms[1][1]
  <2>1. CASE Len(msgs) = 0
    BY <1>0, <1>1, <1>2, <1>3, <2>1 DEF LaidOut
  <2>2. CASE Len(msgs) > 0
    BY <1>1, <1>2, <1>3, <2>2 DEF LaidOut
  <2>3. QED
    BY <1>1, <2>1, <2>2
<1>5. ASSUME NEW i \in 1..Len(strm)
      PROVE  /\ st[i].msg \in 1..Len(ms)
             /\ MessageAt(ms, st, st[i].msg, StartOf(ms, st, i))
  <2> DEFINE k == strm[i].msg
             start == StartOf(msgs, strm, i)
             end == start + Len(msgs[k])
  <2>1. k \in 1..Len(msgs) /\ MessageAt(msgs, strm, k, start)
    BY DEF LaidOut
  <2>2. st[i] = strm[i] /\ ms[k] = msgs[k] /\ Len(msgs[k]) \in Nat
    BY <1>1, <1>2, <1>3, <2>1
  <2>3. StartOf(ms, st, i) = start
    BY <2>2 DEF StartOf
  <2>4. start \in Nat
    <3>1. strm[i] \in Fragment
      OBVIOUS
    <3>2. strm[i].frg \in Nat
      BY <3>1 DEF Fragment
    <3>3. start \in Int
      BY <2>2, <3>2 DEF StartOf
    <3>4. start >= 0
      BY <2>1 DEF MessageAt
    <3>5. QED
      BY <3>3, <3>4
  <2> HIDE DEF k, start
  <2>5. /\ end \in Nat /\ end = start + Len(msgs[k])
        /\ end <= Len(strm)
        /\ \A j \in 1..Len(msgs[k]) : strm[start + j] = msgs[k][j]
        /\ IF end = Len(strm) THEN k = Len(msgs)
           ELSE k < Len(msgs) /\ strm[end + 1] = msgs[k + 1][1]
    <3>1. end \in Nat
      BY <2>2, <2>4
    <3>2. QED
      BY <2>1, <3>1 DEF MessageAt
  <2> HIDE DEF end
  <2>6. ASSUME NEW j \in 1..Len(msgs[k])
        PROVE  st[start + j] = msgs[k][j]
    <3>1. start + j \in 1..Len(strm)
      <4>1. j \in Nat /\ j >= 1 /\ j <= Len(msgs[k])
        BY <2>2
      <4>2. end = start + Len(msgs[k]) /\ end <= Len(strm)
        BY <2>5
      <4>3. QED
        BY <1>1, <2>2, <2>4, <4>1, <4>2
    <3>2. QED
      BY <1>3, <2>5, <3>1
  <2>7. k < Len(ms) /\ end < Len(st) /\ st[end + 1] = ms[k + 1][1]
    <3>1. CASE end = Len(strm)
      <4>1. k = Len(msgs)
        BY <2>5, <3>1
      <4>2. st[end + 1] = m[1] /\ end < Len(st)
        BY <1>0, <1>1, <1>3, <3>1
      <4>3. QED
        BY <1>1, <1>2, <4>1, <4>2
    <3>2. CASE end # Len(strm)
      <4>1. k < Len(msgs) /\ strm[end + 1] = msgs[k + 1][1]
        BY <2>5, <3>2
      <4>2. k + 1 \in 1..Len(msgs) /\ k < Len(ms)
        BY <1>1, <1>2, <2>1, <4>1
      <4>3. end + 1 \in 1..Len(strm) /\ end < Len(st)
        <5>1. end \in Nat /\ end <= Len(strm)
          BY <2>5
        <5>2. /\ Len(strm) \in Nat /\ Len(m) \in Nat
              /\ Len(st) = Len(strm) + Len(m)
          BY <1>1, <1>3
        <5>3. QED
          BY <3>2, <5>1, <5>2
      <4>4. QED
        BY <1>2, <1>3, <4>1, <4>2, <4>3
    <3>3. QED
      BY <3>1, <3>2
  <2>8. MessageAt(ms, st, k, start)
    <3>1. end = start + Len(ms[k]) /\ end # Len(st) /\ end <= Len(st)
      <4>1. end = start + Len(ms[k])
        BY <2>2, <2>5
      <4>2. end \in Nat /\ Len(st) \in Nat /\ end < Len(st)
        BY <1>1, <1>3, <2>5, <2>7
      <4>3. QED
        BY <4>1, <4>2
    <3>2. QED
      BY <2>2, <2>4, <2>6, <2>7, <3>1 DEF MessageAt
  <2>9. QED
    BY <1>1, <1>2, <2>1, <2>2, <2>3, <2>8 DEF k
<1>6. ASSUME NEW i \in 1..Len(st), i > Len(strm)
      PROVE  /\ st[i].msg \in 1..Len(ms)
             /\ MessageAt(ms, st, st[i].msg, StartOf(ms, st, i))
  <2> DEFINE j == i - Len(strm)
  <2>1. j \in 1..Len(m) /\ st[i] = m[j]
    <3>1. i \in Nat /\ i <= Len(strm) + Len(m)
      BY <1>1, <1>3
    <3>2. j \in 1..Len(m) /\ Len(strm) + j = i
      BY <1>1, <1>6, <3>1
    <3>3. QED
      BY <1>3, <3>2
  <2>2. st[i].msg = Len(msgs) + 1 /\ st[i].frg = Len(m) - j
    BY <1>0, <2>1
  <2>3. StartOf(ms, st, i) = Len(strm)
    <3>1. ms[st[i].msg] = m
      BY <1>2, <2>2
    <3>2. StartOf(ms, st, i) = i - (Len(m) - (Len(m) - j))
      BY <2>2, <3>1 DEF StartOf
    <3>3. QED
      BY <1>1, <1>6, <3>2
  <2>4. MessageAt(ms, st, Len(msgs) + 1, Len(strm))
    BY <1>1, <1>2, <1>3 DEF MessageAt
  <2>5. QED
    BY <1>1, <1>2, <2>2, <2>3, <2>4
<1>7. LaidOut(ms, st)
  <2>1. \A i \in 1..Len(st) : /\ st[i].msg \in 1..Len(ms)
                              /\ MessageAt(ms, st, st[i].msg, StartOf(ms, st, i))
    BY <1>1, <1>3, <1>5, <1>6
  <2>2. QED
    BY <1>1, <1>2, <1>4, <2>1 DEF LaidOut
<1>8. QED
  BY <1>7 DEF ms, st

(***************************************************************************)
(* Steps.                                                                   *)
(***************************************************************************)

(* A fragment that has a number keeps it. *)
StreamKept ==
  \A e \in Endpoint :
    /\ snd_nxt[e] <= snd_nxt'[e]
    /\ \A i \in 1..snd_nxt[e] : stream'[e][i] = stream[e][i]

LEMMA NumbersStay ==
  ASSUME TypeOK, TypeOK', StreamKept, NEW e \in Endpoint, NEW sn \in Nat,
         NEW frag, Numbers(e, sn, frag)
  PROVE  Numbers(e, sn, frag)'
<1>1. snd_nxt[e] \in Nat /\ snd_nxt'[e] \in Nat
  BY DEF TypeOK
<1>2. sn + 1 \in 1..snd_nxt[e] /\ sn < snd_nxt'[e]
  BY <1>1 DEF StreamKept, Numbers
<1>3. QED
  BY <1>2 DEF StreamKept, Numbers

LEMMA PushesStay ==
  ASSUME TypeOK, TypeOK', StreamKept, NEW e \in Endpoint,
         NEW segs \in Seq(Segment), PushesTrue(e, segs)
  PROVE  PushesTrue(e, segs)'
<1>1. Peer(e) \in Endpoint
  BY PeerFacts
<1>2. ASSUME NEW i \in 1..Len(segs), segs[i].cmd = "PUSH"
      PROVE  Numbers(Peer(e), segs[i].sn, segs[i].frag)'
  <2>1. segs[i].sn \in Nat
    <3>1. segs[i] \in Segment
      OBVIOUS
    <3>2. QED
      BY <3>1 DEF Segment
  <2>2. Numbers(Peer(e), segs[i].sn, segs[i].frag)
    BY <1>2 DEF PushesTrue
  <2>3. QED
    BY <1>1, <2>1, <2>2, NumbersStay
<1>3. QED
  BY <1>2 DEF PushesTrue

(* NumbersKept after a step: it is enough that what the step puts in a      *)
(* buffer or on the network was numbered so before, or is now.              *)
LEMMA NumbersStep ==
  ASSUME TypeOK, TypeOK', StreamKept,
         \A e \in Endpoint :
           /\ \A s \in snd_buf'[e] :
                Numbers(e, s.sn, s.frag) \/ Numbers(e, s.sn, s.frag)'
           /\ \A s \in rcv_buf'[e] : Numbers(Peer(e), s.sn, s.frag)
           /\ \A d \in net'[e] : PushesTrue(e, d) \/ PushesTrue(e, d)'
           /\ PushesTrue(e, input'[e])
  PROVE  NumbersKept'
<1> SUFFICES ASSUME NEW e \in Endpoint
             PROVE  /\ \A s \in snd_buf'[e] : Numbers(e, s.sn, s.frag)'
                    /\ \A s \in rcv_buf'[e] : Numbers(Peer(e), s.sn, s.frag)'
                    /\ \A d \in net'[e] : PushesTrue(e, d)'
                    /\ PushesTrue(e, input[e])'
  BY DEF NumbersKept
<1>1. \A s \in snd_buf'[e] : Numbers(e, s.sn, s.frag)'
  <2>1. \A s \in snd_buf'[e] : s.sn \in Nat
    BY DEF TypeOK, SendSegment
  <2>2. QED
    BY <2>1, NumbersStay
<1>2. \A s \in rcv_buf'[e] : Numbers(Peer(e), s.sn, s.frag)'
  <2>1. \A s \in rcv_buf'[e] : s.sn \in Nat
    BY DEF TypeOK, RecvSegment
  <2>2. QED
    BY <2>1, PeerFacts, NumbersStay
<1>3. \A d \in net'[e] : PushesTrue(e, d)'
  <2>1. \A d \in net'[e] : d \in Seq(Segment)
    BY DEF TypeOK
  <2>2. QED
    BY <2>1, PushesStay
<1>4. PushesTrue(e, input[e])'
  <2>1. input'[e] \in Seq(Segment)
    BY DEF TypeOK
  <2>2. \A segs \in Seq(Segment) : PushesTrue(e, segs) => PushesTrue(e, segs)'
    BY PushesStay
  <2>3. QED
    BY <2>1, <2>2 DEF PushesTrue
<1>5. QED
  BY <1>1, <1>2, <1>3, <1>4

(* The receivers after a step that leaves them alone, and delivers nothing. *)
LEMMA ReceiversStay ==
  ASSUME TypeOK, TypeOK', OrderInv, StreamKept,
         UNCHANGED <<rcv_nxt, rcv_queue>>
  PROVE  ReceivedInOrder'
<1> SUFFICES ASSUME NEW e \in Endpoint
             PROVE  /\ rcv_nxt'[e] <= snd_nxt'[Peer(e)]
                    /\ ConsumedCount(e)' >= 0
                    /\ \A i \in 1..Len(rcv_queue'[e]) :
                         rcv_queue'[e][i] = stream'[Peer(e)][ConsumedCount(e)' + i]
  BY DEF ReceivedInOrder
<1> DEFINE p == Peer(e)
<1>1. /\ p \in Endpoint
      /\ rcv_nxt[e] \in Nat /\ snd_nxt[p] \in Nat /\ snd_nxt'[p] \in Nat
      /\ Len(rcv_queue[e]) \in Nat
  BY PeerFacts, EndTypes DEF TypeOK
<1>2. /\ rcv_nxt[e] <= snd_nxt[p]
      /\ ConsumedCount(e) >= 0
      /\ \A i \in 1..Len(rcv_queue[e]) :
           rcv_queue[e][i] = stream[p][ConsumedCount(e) + i]
  BY DEF OrderInv, ReceivedInOrder
<1>3. ConsumedCount(e)' = ConsumedCount(e)
  BY DEF ConsumedCount
<1>4. \A i \in 1..Len(rcv_queue[e]) : ConsumedCount(e) + i \in 1..snd_nxt[p]
  BY <1>1, <1>2 DEF ConsumedCount
<1>5. rcv_nxt'[e] <= snd_nxt'[p]
  <2>1. snd_nxt[p] <= snd_nxt'[p] /\ rcv_nxt'[e] = rcv_nxt[e]
    BY <1>1 DEF StreamKept
  <2>2. QED
    BY <1>1, <1>2, <2>1
<1>6. \A i \in 1..Len(rcv_queue[e]) :
        rcv_queue[e][i] = stream'[p][ConsumedCount(e) + i]
  BY <1>1, <1>2, <1>4 DEF StreamKept
<1>7. QED
  BY <1>2, <1>3, <1>5, <1>6

(* A step that is no ikcp_send and numbers nothing. *)
LEMMA StreamUnchanged ==
  ASSUME TypeOK, UNCHANGED <<snd_nxt, stream>>
  PROVE  /\ StreamKept
         /\ \A e \in Endpoint : \A segs : PushesTrue(e, segs)' <=> PushesTrue(e, segs)
BY DEF TypeOK, StreamKept, PushesTrue, Numbers

(* A step that is no ikcp_send leaves the messages alone. *)
LEMMA SentUnchanged ==
  ASSUME OrderInv, UNCHANGED <<sent, stream>>
  PROVE  MessagesWellFormed' /\ StreamIsSent'
BY DEF OrderInv, MessagesWellFormed, StreamIsSent

LEMMA QueueUnchanged ==
  ASSUME OrderInv, UNCHANGED <<snd_queue, snd_nxt, stream>>
  PROVE  QueueIsStream'
BY DEF OrderInv, QueueIsStream

(* A step that is no ikcp_recv delivers nothing. *)
LEMMA DeliveredUnchanged ==
  ASSUME OrderInv, UNCHANGED <<sent, stream, delivered>>,
         \A e \in Endpoint : ConsumedCount(e)' = ConsumedCount(e)
  PROVE  ConsumedIsDelivered' /\ InOrderDelivery'
BY PeerFacts DEF OrderInv, ConsumedIsDelivered, InOrderDelivery

(* A step of ikcp_input or of the network that gives the receiver nothing:  *)
(* it is enough that what it puts in a buffer was numbered so before.       *)
LEMMA QuietStep ==
  ASSUME TypeOK, TypeOK', OrderInv,
         UNCHANGED <<snd_queue, snd_nxt, rcv_nxt, rcv_buf, rcv_queue, sent,
                     stream, delivered>>,
         \A e \in Endpoint :
           /\ \A s \in snd_buf'[e] : Numbers(e, s.sn, s.frag)
           /\ \A d \in net'[e] : PushesTrue(e, d)
           /\ PushesTrue(e, input'[e])
  PROVE  OrderInv'
<1>1. StreamKept
  BY StreamUnchanged
<1>2. \A e \in Endpoint : \A s \in rcv_buf'[e] : Numbers(Peer(e), s.sn, s.frag)
  BY DEF OrderInv, NumbersKept
<1>3. NumbersKept'
  BY <1>1, <1>2, NumbersStep
<1>4. ReceivedInOrder'
  BY <1>1, ReceiversStay
<1>5. ConsumedIsDelivered' /\ InOrderDelivery'
  BY DeliveredUnchanged DEF ConsumedCount
<1>6. QED
  BY <1>3, <1>4, <1>5, SentUnchanged, QueueUnchanged DEF OrderInv

LEMMA SendOrder ==
  ASSUME TypeOK, TypeOK', OrderInv, NEW e \in Endpoint,
         NEW size \in MessageSizes, Send(e, size)
  PROVE  OrderInv'
<1> DEFINE k == Len(sent[e]) + 1
           m == Fragments(k, size)
<1>1. /\ m \in Seq(Fragment) /\ Len(m) \in Nat /\ Len(m) > 0
      /\ WellFormed(m, k)
  <2>1. k \in Nat /\ size \in Nat
    BY EndTypes, MessageAssumption
  <2> HIDE DEF k
  <2>2. /\ m \in Seq(Fragment) /\ Len(m) = FragmentCount(size)
        /\ FragmentCount(size) \in Nat /\ FragmentCount(size) > 0
        /\ \A j \in 1..FragmentCount(size) :
             m[j].msg = k /\ m[j].frg = FragmentCount(size) - j
    BY <2>1, FragmentsFacts
  <2> HIDE DEF m
  <2>3. QED
    BY <2>2 DEF WellFormed
<1>2. /\ snd_queue' = [snd_queue EXCEPT ![e] = @ \o m]
      /\ sent' = [sent EXCEPT ![e] = Append(@, m)]
      /\ stream' = [stream EXCEPT ![e] = @ \o m]
      /\ UNCHANGED <<snd_buf, snd_una, snd_nxt, rcv_nxt, rcv_buf, rcv_queue,
                     input, net, delivered>>
  BY DEF Send, recvVars, inputVars
<1> HIDE DEF m
<1>3. /\ snd_queue'[e] = snd_queue[e] \o m
      /\ sent'[e] = Append(sent[e], m)
      /\ stream'[e] = stream[e] \o m
      /\ \A x \in Endpoint : x # e => /\ snd_queue'[x] = snd_queue[x]
                                      /\ sent'[x] = sent[x]
                                      /\ stream'[x] = stream[x]
  BY <1>2 DEF TypeOK
<1>4. /\ sent[e] \in Seq(Seq(Fragment)) /\ Len(sent[e]) \in Nat
      /\ stream[e] \in Seq(Fragment) /\ Len(stream[e]) \in Nat
      /\ snd_queue[e] \in Seq(Fragment) /\ Len(snd_queue[e]) \in Nat
      /\ snd_nxt[e] \in Nat
  BY EndTypes
<1>5. /\ Len(sent'[e]) = k
      /\ \A j \in 1..Len(sent[e]) : sent'[e][j] = sent[e][j]
      /\ sent'[e][k] = m
  BY <1>1, <1>3, <1>4, AppendProperties
<1>6. /\ Len(stream'[e]) = Len(stream[e]) + Len(m)
      /\ \A i \in 1..Len(stream[e]) : stream'[e][i] = stream[e][i]
      /\ \A j \in 1..Len(m) : stream'[e][Len(stream[e]) + j] = m[j]
  BY <1>1, <1>3, <1>4
<1>7. /\ Len(snd_queue'[e]) = Len(snd_queue[e]) + Len(m)
      /\ \A i \in 1..Len(snd_queue[e]) : snd_queue'[e][i] = snd_queue[e][i]
      /\ \A j \in 1..Len(m) : snd_queue'[e][Len(snd_queue[e]) + j] = m[j]
  BY <1>1, <1>3, <1>4
<1>8. /\ snd_nxt[e] + Len(snd_queue[e]) = Len(stream[e])
      /\ \A i \in 1..Len(snd_queue[e]) :
           snd_queue[e][i] = stream[e][snd_nxt[e] + i]
  BY DEF OrderInv, QueueIsStream
<1>9. StreamKept
  <2>1. ASSUME NEW x \in Endpoint
        PROVE  /\ snd_nxt[x] <= snd_nxt'[x]
               /\ \A i \in 1..snd_nxt[x] : stream'[x][i] = stream[x][i]
    <3>1. snd_nxt'[x] = snd_nxt[x] /\ snd_nxt[x] \in Nat
      BY <1>2, EndTypes
    <3>2. CASE x = e
      <4>1. snd_nxt[e] <= Len(stream[e])
        BY <1>4, <1>8
      <4>2. \A i \in 1..snd_nxt[e] : i \in 1..Len(stream[e])
        BY <1>4, <4>1
      <4>3. QED
        BY <1>6, <3>1, <3>2, <4>2
    <3>3. CASE x # e
      BY <1>3, <3>1, <3>3
    <3>4. QED
      BY <3>2, <3>3
  <2>2. QED
    BY <2>1 DEF StreamKept
<1>10. MessagesWellFormed'
  <2>1. ASSUME NEW x \in Endpoint, NEW j \in 1..Len(sent'[x])
        PROVE  WellFormed(sent'[x][j], j)
    <3>1. CASE x = e /\ j = k
      BY <1>1, <1>5, <3>1
    <3>2. CASE x = e /\ j # k
      <4>1. j \in 1..Len(sent[e])
        BY <1>4, <1>5, <3>2
      <4>2. sent'[e][j] = sent[e][j]
        BY <1>5, <4>1
      <4>3. QED
        BY <3>2, <4>1, <4>2 DEF OrderInv, MessagesWellFormed
    <3>3. CASE x # e
      BY <1>3, <3>3 DEF OrderInv, MessagesWellFormed
    <3>4. QED
      BY <3>1, <3>2, <3>3
  <2>2. QED
    BY <2>1 DEF MessagesWellFormed
<1>11. StreamIsSent'
  <2>1. LaidOut(sent'[e], stream'[e])
    <3>1. LaidOut(sent[e], stream[e])
      BY DEF OrderInv, StreamIsSent
    <3>2. QED
      BY <1>1, <1>3, <1>4, <3>1, LaidOutGrows
  <2>2. \A x \in Endpoint : x # e => LaidOut(sent'[x], stream'[x])
    BY <1>3 DEF OrderInv, StreamIsSent
  <2>3. QED
    BY <2>1, <2>2 DEF StreamIsSent
<1>12. QueueIsStream'
  <2>1. ASSUME NEW i \in 1..Len(snd_queue'[e])
        PROVE  snd_queue'[e][i] = stream'[e][snd_nxt[e] + i]
    <3>1. CASE i <= Len(snd_queue[e])
      <4>1. i \in 1..Len(snd_queue[e]) /\ snd_nxt[e] + i \in 1..Len(stream[e])
        BY <1>4, <1>8, <3>1
      <4>2. QED
        BY <1>6, <1>7, <1>8, <4>1
    <3>2. CASE i > Len(snd_queue[e])
      <4> DEFINE j == i - Len(snd_queue[e])
      <4>1. i \in Nat /\ i <= Len(snd_queue[e]) + Len(m)
        BY <1>1, <1>4, <1>7
      <4>2. /\ j \in 1..Len(m)
            /\ i = Len(snd_queue[e]) + j
        BY <1>1, <1>4, <3>2, <4>1
      <4>3. snd_nxt[e] + i = Len(stream[e]) + j
        <5>1. /\ Len(stream[e]) = snd_nxt[e] + Len(snd_queue[e])
              /\ Len(snd_queue[e]) \in Nat /\ snd_nxt[e] \in Nat
          BY <1>4, <1>8
        <5>2. QED
          BY <4>1, <5>1
      <4> HIDE DEF j
      <4>4. QED
        BY <1>6, <1>7, <4>2, <4>3
    <3>3. QED
      BY <1>4, <3>1, <3>2
  <2>2. snd_nxt'[e] + Len(snd_queue'[e]) = Len(stream'[e])
    <3>1. snd_nxt'[e] = snd_nxt[e]
      BY <1>2
    <3>2. /\ Len(snd_queue'[e]) = Len(snd_queue[e]) + Len(m)
          /\ Len(stream'[e]) = Len(stream[e]) + Len(m)
      BY <1>6, <1>7
    <3>3. snd_nxt[e] + Len(snd_queue[e]) = Len(stream[e])
      BY <1>8
    <3>4. QED
      <4>1. /\ Len(snd_queue[e]) \in Nat /\ snd_nxt[e] \in Nat
            /\ Len(m) \in Nat
        BY <1>1, <1>4
      <4>2. snd_nxt[e] + (Len(snd_queue[e]) + Len(m)) =
              (snd_nxt[e] + Len(snd_queue[e])) + Len(m)
        BY <4>1
      <4>3. snd_nxt'[e] + Len(snd_queue'[e]) =
              snd_nxt[e] + (Len(snd_queue[e]) + Len(m))
        BY <3>1, <3>2
      <4>4. (snd_nxt[e] + Len(snd_queue[e])) + Len(m) = Len(stream'[e])
        BY <3>2, <3>3
      <4>5. QED
        BY <4>2, <4>3, <4>4
  <2>3. \A x \in Endpoint : x # e =>
          /\ snd_nxt'[x] + Len(snd_queue'[x]) = Len(stream'[x])
          /\ \A i \in 1..Len(snd_queue'[x]) :
               snd_queue'[x][i] = stream'[x][snd_nxt'[x] + i]
    <3> SUFFICES ASSUME NEW x \in Endpoint, x # e
                 PROVE  /\ snd_nxt'[x] + Len(snd_queue'[x]) = Len(stream'[x])
                        /\ \A i \in 1..Len(snd_queue'[x]) :
                             snd_queue'[x][i] = stream'[x][snd_nxt'[x] + i]
      OBVIOUS
    <3>1. /\ snd_nxt[x] + Len(snd_queue[x]) = Len(stream[x])
          /\ \A i \in 1..Len(snd_queue[x]) :
               snd_queue[x][i] = stream[x][snd_nxt[x] + i]
      BY DEF OrderInv, QueueIsStream
    <3>2. /\ snd_nxt'[x] = snd_nxt[x]
          /\ snd_queue'[x] = snd_queue[x]
          /\ stream'[x] = stream[x]
      BY <1>2, <1>3
    <3>3. QED
      BY <3>1, <3>2
  <2>4. QED
    BY <1>2, <2>1, <2>2, <2>3 DEF QueueIsStream
<1>13. NumbersKept'
  BY <1>2, <1>9, NumbersStep DEF OrderInv, NumbersKept
<1>14. ReceivedInOrder'
  BY <1>2, <1>9, ReceiversStay
<1>15. ConsumedIsDelivered'
  <2>1. ASSUME NEW x \in Endpoint
        PROVE  LET p == Peer(x)
                   n == Len(delivered[x])
                   c == ConsumedCount(x)
               IN  IF c = Len(stream'[p]) THEN n = Len(sent'[p])
                   ELSE n < Len(sent'[p]) /\ stream'[p][c + 1] = sent'[p][n + 1][1]
    <3> DEFINE p == Peer(x)
               n == Len(delivered[x])
               c == ConsumedCount(x)
    <3>1. IF c = Len(stream[p]) THEN n = Len(sent[p])
          ELSE n < Len(sent[p]) /\ stream[p][c + 1] = sent[p][n + 1][1]
      BY DEF OrderInv, ConsumedIsDelivered
    <3>2. CASE p # e
      BY <1>3, <3>1, <3>2, PeerFacts
    <3>3. CASE p = e
      <4>1. c \in Nat /\ c <= Len(stream[e]) /\ n \in Nat
        <5>1. /\ rcv_nxt[x] \in Nat /\ Len(rcv_queue[x]) \in Nat
              /\ Len(delivered[x]) \in Nat
          BY EndTypes
        <5>2. rcv_nxt[x] <= snd_nxt[e] /\ c >= 0
          BY <3>3 DEF OrderInv, ReceivedInOrder
        <5>3. QED
          BY <1>4, <1>8, <5>1, <5>2 DEF ConsumedCount
      <4> HIDE DEF c, n
      <4>2. CASE c = Len(stream[e])
        <5>1. n = Len(sent[e]) /\ n + 1 = k
          BY <3>1, <3>3, <4>2
        <5>2. stream'[e][c + 1] = m[1] /\ c < Len(stream'[e])
          BY <1>1, <1>4, <1>6, <4>2
        <5>3. n < Len(sent'[e]) /\ sent'[e][n + 1] = m
          BY <1>4, <1>5, <5>1
        <5>4. QED
          BY <3>3, <5>2, <5>3 DEF c, n
      <4>3. CASE c # Len(stream[e])
        <5>0. n < Len(sent[e]) /\ stream[e][c + 1] = sent[e][n + 1][1]
          BY <3>1, <3>3, <4>3
        <5>1. /\ n + 1 \in 1..Len(sent[e]) /\ c + 1 \in 1..Len(stream[e])
              /\ stream[e][c + 1] = sent[e][n + 1][1]
          <6>1. /\ Len(sent[e]) \in Nat /\ Len(stream[e]) \in Nat
                /\ n \in Nat /\ c \in Nat /\ c <= Len(stream[e])
            BY <1>4, <4>1
          <6>2. n + 1 \in 1..Len(sent[e]) /\ c + 1 \in 1..Len(stream[e])
            BY <4>3, <5>0, <6>1
          <6>3. QED
            BY <5>0, <6>2
        <5>2. /\ stream'[e][c + 1] = stream[e][c + 1]
              /\ sent'[e][n + 1] = sent[e][n + 1]
          BY <1>5, <1>6, <5>1
        <5>3. n < Len(sent'[e])
          BY <1>4, <1>5, <4>1, <5>1
        <5>4. c # Len(stream'[e])
          BY <1>1, <1>4, <1>6, <4>1, <5>1
        <5>5. QED
          BY <3>3, <5>1, <5>2, <5>3, <5>4 DEF c, n
      <4>4. QED
        BY <4>2, <4>3
    <3>4. QED
      BY <3>2, <3>3
  <2>2. \A x \in Endpoint : ConsumedCount(x)' = ConsumedCount(x)
    BY <1>2 DEF ConsumedCount
  <2>3. delivered' = delivered
    BY <1>2
  <2>4. QED
    BY <2>1, <2>2, <2>3 DEF ConsumedIsDelivered
<1>16. InOrderDelivery'
  <2>1. ASSUME NEW x \in Endpoint
        PROVE  /\ Len(delivered[x]) <= Len(sent'[Peer(x)])
               /\ \A i \in 1..Len(delivered[x]) :
                    delivered[x][i] = sent'[Peer(x)][i]
    <3>1. /\ Len(delivered[x]) <= Len(sent[Peer(x)])
          /\ \A i \in 1..Len(delivered[x]) : delivered[x][i] = sent[Peer(x)][i]
          /\ Len(delivered[x]) \in Nat
      BY EndTypes DEF OrderInv, InOrderDelivery
    <3>2. CASE Peer(x) # e
      BY <1>3, <3>1, <3>2, PeerFacts
    <3>3. CASE Peer(x) = e
      BY <1>4, <1>5, <3>1, <3>3
    <3>4. QED
      BY <3>2, <3>3
  <2>2. QED
    BY <1>2, <2>1 DEF InOrderDelivery
<1>17. QED
  BY <1>10, <1>11, <1>12, <1>13, <1>14, <1>15, <1>16 DEF OrderInv


(* ikcp_recv. *)
LEMMA RecvOrder ==
  ASSUME TypeOK, TypeOK', OrderInv, NEW e \in Endpoint, Recv(e)
  PROVE  OrderInv'
<1> DEFINE p == Peer(e)
           queue == rcv_queue[e]
           k == Len(delivered[e]) + 1
           start == ConsumedCount(e)
<1>1. PICK n \in 1..Len(queue) :
        /\ MergesTo(queue, n)
        /\ delivered' = [delivered EXCEPT ![e] = Append(@, SubSeq(queue, 1, n))]
        /\ MoveAvailable(e, rcv_buf[e], SubSeq(queue, n + 1, Len(queue)))
  BY DEF Recv
<1>2. /\ queue # <<>> /\ Complete(queue)
      /\ UNCHANGED <<snd_queue, snd_buf, snd_una, snd_nxt, input, net, sent,
                     stream>>
  BY DEF Recv, sendVars, inputVars
<1> DEFINE rest == SubSeq(queue, n + 1, Len(queue))
           m == sent[p][k]
<1>3. /\ k <= Len(sent[p])
      /\ SubSeq(queue, 1, n) = m
      /\ n = Len(m)
      /\ MessageAt(sent[p], stream[p], k, start)
  BY <1>1, <1>2, RecvDelivers
<1>4. /\ p \in Endpoint
      /\ rcv_nxt[e] \in Nat /\ snd_nxt[p] \in Nat
      /\ queue \in Seq(Fragment) /\ Len(queue) \in Nat
      /\ rcv_buf[e] \in SUBSET RecvSegment
      /\ delivered[e] \in Seq(Seq(Fragment)) /\ Len(delivered[e]) \in Nat
      /\ Len(sent[p]) \in Nat
  BY PeerFacts, EndTypes
<1>5. /\ start >= 0 /\ start = rcv_nxt[e] - Len(queue)
      /\ rcv_nxt[e] <= snd_nxt[p]
      /\ \A i \in 1..Len(queue) : queue[i] = stream[p][start + i]
  BY <1>4 DEF OrderInv, ReceivedInOrder, ConsumedCount
<1>6. /\ rest \in Seq(Fragment)
      /\ Len(rest) = Len(queue) - n
      /\ \A i \in 1..Len(rest) : rest[i] = queue[n + i]
  BY <1>4
<1> HIDE DEF rest, start, k
<1>7. PICK moved : Moves(e, rcv_buf[e], rest, moved)
  BY <1>1, <1>4, <1>6, MoveAvailableFacts DEF rest
<1>8. /\ rcv_nxt'[e] <= snd_nxt[p]
      /\ rcv_nxt'[e] - Len(rcv_queue'[e]) = start + n
      /\ \A i \in 1..Len(rcv_queue'[e]) :
           rcv_queue'[e][i] = stream[p][start + n + i]
      /\ \A s \in rcv_buf'[e] : Numbers(p, s.sn, s.frag)
      /\ \A x \in Endpoint : x # e => /\ rcv_nxt'[x] = rcv_nxt[x]
                                      /\ rcv_buf'[x] = rcv_buf[x]
                                      /\ rcv_queue'[x] = rcv_queue[x]
  <2>1. /\ start + n \in Nat
        /\ start + n + Len(rest) = rcv_nxt[e]
    <3>1. n \in Nat /\ Len(queue) \in Nat /\ rcv_nxt[e] \in Nat
      BY <1>4
    <3>2. /\ start >= 0 /\ start = rcv_nxt[e] - Len(queue)
          /\ Len(rest) = Len(queue) - n
      BY <1>5, <1>6
    <3>3. start \in Nat /\ Len(rest) \in Int
      BY <3>1, <3>2
    <3>4. start + n \in Nat
      BY <3>1, <3>3
    <3> DEFINE nxt == rcv_nxt[e]
               len == Len(queue)
               left == Len(rest)
    <3> HIDE DEF nxt, len, left
    <3>5. (start + n) + left = nxt
      <4>1. n \in Nat /\ len \in Nat /\ nxt \in Nat
        BY <3>1 DEF nxt, len
      <4>2. start = nxt - len /\ left = len - n
        BY <3>2 DEF nxt, len, left
      <4>3. QED
        BY <4>1, <4>2
    <3>6. QED
      BY <3>4, <3>5 DEF nxt, left
  <2>2. \A i \in 1..Len(rest) : rest[i] = stream[p][start + n + i]
    <3> SUFFICES ASSUME NEW i \in 1..Len(rest)
                 PROVE  rest[i] = stream[p][start + n + i]
      OBVIOUS
    <3>1. n + i \in 1..Len(queue) /\ start + (n + i) = start + n + i
      <4>1. n \in Nat /\ i \in Nat /\ Len(queue) \in Nat
        BY <1>4, <1>6
      <4>2. start \in Int /\ i <= Len(queue) - n
        BY <1>4, <1>5, <1>6
      <4>3. QED
        BY <4>1, <4>2
    <3>2. QED
      BY <1>5, <1>6, <3>1
  <2>3. \A s \in rcv_buf[e] : Numbers(p, s.sn, s.frag)
    BY DEF OrderInv, NumbersKept
  <2>4. rcv_nxt[e] <= snd_nxt[p] /\ rest \in Seq(Fragment)
    BY <1>5, <1>6
  <2> DEFINE from == start + n
             buf == rcv_buf[e]
  <2>5. /\ from \in Nat /\ buf \in SUBSET RecvSegment
        /\ from + Len(rest) = rcv_nxt[e]
        /\ \A i \in 1..Len(rest) : rest[i] = stream[p][from + i]
        /\ \A s \in buf : Numbers(p, s.sn, s.frag)
        /\ Moves(e, buf, rest, moved)
    BY <1>4, <1>7, <2>1, <2>2, <2>3
  <2> HIDE DEF from, buf
  <2>6. /\ rcv_nxt'[e] <= snd_nxt[p]
        /\ rcv_nxt'[e] - Len(rcv_queue'[e]) = from
        /\ \A i \in 1..Len(rcv_queue'[e]) :
             rcv_queue'[e][i] = stream[p][from + i]
        /\ \A s \in rcv_buf'[e] : Numbers(p, s.sn, s.frag)
        /\ \A x \in Endpoint : x # e => /\ rcv_nxt'[x] = rcv_nxt[x]
                                        /\ rcv_buf'[x] = rcv_buf[x]
                                        /\ rcv_queue'[x] = rcv_queue[x]
    BY <2>4, <2>5, MovesInOrder
  <2>7. QED
    BY <2>6 DEF from
<1>9. StreamKept
  BY <1>2, StreamUnchanged
<1>10. NumbersKept'
  BY <1>2, <1>8, <1>9, NumbersStep DEF OrderInv, NumbersKept
<1>11. ReceivedInOrder'
  <2>1. ConsumedCount(e)' = start + n
    BY <1>8 DEF ConsumedCount
  <2>2. \A x \in Endpoint : x # e =>
          /\ rcv_nxt'[x] <= snd_nxt'[Peer(x)]
          /\ ConsumedCount(x)' = ConsumedCount(x)
          /\ ConsumedCount(x) >= 0
          /\ \A i \in 1..Len(rcv_queue'[x]) :
               rcv_queue'[x][i] = stream[Peer(x)][ConsumedCount(x) + i]
    BY <1>2, <1>8 DEF OrderInv, ReceivedInOrder, ConsumedCount
  <2>3. start + n >= 0
    BY <1>4, <1>5
  <2>4. QED
    BY <1>2, <1>8, <2>1, <2>2, <2>3 DEF ReceivedInOrder
<1>12. /\ delivered'[e] = Append(delivered[e], m)
       /\ \A x \in Endpoint : x # e => delivered'[x] = delivered[x]
  BY <1>1, <1>3 DEF TypeOK
<1>13. m \in Seq(Fragment)
  <2>1. SubSeq(queue, 1, n) \in Seq(Fragment)
    BY <1>4
  <2>2. QED
    BY <1>3, <2>1
<1>14. /\ Len(delivered'[e]) = k
       /\ \A i \in 1..Len(delivered[e]) : delivered'[e][i] = delivered[e][i]
       /\ delivered'[e][k] = m
  BY <1>4, <1>12, <1>13, AppendProperties DEF k
<1>15. ConsumedIsDelivered'
  <2>1. ConsumedCount(e)' = start + n
    BY <1>8 DEF ConsumedCount
  <2>2. IF start + n = Len(stream[p]) THEN k = Len(sent[p])
        ELSE k < Len(sent[p]) /\ stream[p][start + n + 1] = sent[p][k + 1][1]
    BY <1>3 DEF MessageAt
  <2>3. \A x \in Endpoint : x # e => ConsumedCount(x)' = ConsumedCount(x)
    BY <1>8 DEF ConsumedCount
  <2>4. ASSUME NEW x \in Endpoint
        PROVE  (LET q == Peer(x)
                    j == Len(delivered[x])
                IN  IF ConsumedCount(x) = Len(stream[q]) THEN j = Len(sent[q])
                    ELSE /\ j < Len(sent[q])
                         /\ stream[q][ConsumedCount(x) + 1] = sent[q][j + 1][1])'
    <3>1. CASE x = e
      BY <1>2, <1>14, <2>1, <2>2, <3>1
    <3>2. CASE x # e
      BY <1>2, <1>12, <2>3, <3>2 DEF OrderInv, ConsumedIsDelivered
    <3>3. QED
      BY <3>1, <3>2
  <2>5. QED
    BY <2>4 DEF ConsumedIsDelivered
<1>16. InOrderDelivery'
  <2>1. /\ Len(delivered'[e]) <= Len(sent[p])
        /\ \A i \in 1..Len(delivered'[e]) : delivered'[e][i] = sent[p][i]
    <3>1. \A i \in 1..Len(delivered[e]) : delivered[e][i] = sent[p][i]
      BY DEF OrderInv, InOrderDelivery
    <3>2. \A i \in 1..k : i \in 1..Len(delivered[e]) \/ i = k
      BY <1>4 DEF k
    <3>3. QED
      BY <1>3, <1>14, <3>1, <3>2
  <2>2. \A x \in Endpoint : x # e =>
          /\ Len(delivered'[x]) <= Len(sent[Peer(x)])
          /\ \A i \in 1..Len(delivered'[x]) :
               delivered'[x][i] = sent[Peer(x)][i]
    BY <1>12 DEF OrderInv, InOrderDelivery
  <2>3. QED
    BY <1>2, <2>1, <2>2 DEF InOrderDelivery
<1>17. QED
  BY <1>2, <1>10, <1>11, <1>15, <1>16, SentUnchanged, QueueUnchanged
     DEF OrderInv

(* The network hands a datagram to ikcp_input.  What another stream joined  *)
(* to it is foreign, and pushes nothing. *)
LEMMA ReceiveOrder ==
  ASSUME TypeOK, TypeOK', OrderInv, NEW e \in Endpoint, NEW d \in net[e],
         Receive(e, d)
  PROVE  OrderInv'
<1>1. UNCHANGED <<snd_queue, snd_nxt, snd_buf, rcv_nxt, rcv_buf, rcv_queue,
                  sent, stream, delivered>>
  BY DEF Receive, sendVars, recvVars, history
<1>2. \A x \in Endpoint : net'[x] \subseteq net[x]
  <2>1. net' = net \/ net' = [net EXCEPT ![e] = net[e] \ {d}]
    BY DEF Receive
  <2>2. net \in [Endpoint -> SUBSET Seq(Segment)]
    BY DEF TypeOK
  <2>3. ASSUME NEW x \in Endpoint, NEW g \in net'[x]
        PROVE  g \in net[x]
    BY <2>1, <2>2
  <2>4. QED
    BY <2>3
<1>3. ASSUME NEW x \in Endpoint
      PROVE  PushesTrue(x, input'[x])
  <2>1. PICK rest \in Behind : input' = [input EXCEPT ![e] = d \o rest]
    BY DEF Receive
  <2>2. CASE x = e
    <3>1. input'[x] = d \o rest
      BY <2>1, <2>2 DEF TypeOK
    <3>2. d \in Seq(Segment) /\ PushesTrue(e, d)
      BY DEF TypeOK, OrderInv, NumbersKept
    <3>3. \A i \in 1..Len(d \o rest) :
            IF i \in 1..Len(d) THEN (d \o rest)[i] = d[i]
            ELSE (d \o rest)[i] = Foreign
      BY <3>2, BehindFacts
    <3>4. Foreign.cmd # "PUSH"
      BY DEF Foreign
    <3>5. QED
      BY <2>2, <3>1, <3>2, <3>3, <3>4 DEF PushesTrue
  <2>3. CASE x # e
    BY <2>1, <2>3 DEF TypeOK, OrderInv, NumbersKept
  <2>4. QED
    BY <2>2, <2>3
<1>4. QED
  BY <1>1, <1>2, <1>3, QuietStep DEF OrderInv, NumbersKept

(* A segment that is left in snd_buf by ikcp_input was there, with its      *)
(* fragment; and the segments that are left to parse were there. *)
LEMMA InputSegmentOrder ==
  ASSUME TypeInv, OrderInv, NEW e \in Endpoint, input[e] # <<>>,
         NEW buf \in SUBSET SendSegment, InputSegment(e, buf),
         \A s \in buf : \E t \in snd_buf[e] : t.sn = s.sn /\ t.frag = s.frag
  PROVE  /\ UNCHANGED <<snd_queue, snd_nxt, sent, stream, delivered>>
         /\ \A x \in Endpoint :
              /\ \A s \in snd_buf'[x] : Numbers(x, s.sn, s.frag)
              /\ \A d \in net'[x] : PushesTrue(x, d)
              /\ PushesTrue(x, input'[x])
<1>1. /\ UNCHANGED <<snd_queue, snd_nxt, net, sent, stream, delivered>>
      /\ snd_buf' = [snd_buf EXCEPT ![e] = buf]
      /\ input' = [input EXCEPT ![e] = Tail(input[e])]
  BY DEF InputSegment, history
<1>2. /\ \A x \in Endpoint : /\ \A s \in snd_buf[x] : Numbers(x, s.sn, s.frag)
                             /\ \A d \in net[x] : PushesTrue(x, d)
                             /\ PushesTrue(x, input[x])
  BY DEF OrderInv, NumbersKept
<1>3. \A s \in buf : Numbers(e, s.sn, s.frag)
  BY <1>2 DEF Numbers
<1>4. PushesTrue(e, Tail(input[e]))
  <2>1. /\ Len(input[e]) \in Nat
        /\ Len(Tail(input[e])) = Len(input[e]) - 1
        /\ \A i \in 1..Len(Tail(input[e])) : Tail(input[e])[i] = input[e][i + 1]
    BY HeadType
  <2>2. \A i \in 1..Len(Tail(input[e])) : i + 1 \in 1..Len(input[e])
    BY <2>1
  <2>3. QED
    BY <1>2, <2>1, <2>2 DEF PushesTrue
<1>5. ASSUME NEW x \in Endpoint
      PROVE  /\ \A s \in snd_buf'[x] : Numbers(x, s.sn, s.frag)
             /\ PushesTrue(x, input'[x])
  <2>1. CASE x = e
    <3>1. snd_buf'[x] = buf /\ input'[x] = Tail(input[e])
      BY <1>1, <2>1 DEF TypeInv, TypeOK
    <3>2. QED
      BY <1>3, <1>4, <2>1, <3>1
  <2>2. CASE x # e
    <3>1. snd_buf'[x] = snd_buf[x] /\ input'[x] = input[x]
      BY <1>1, <2>2 DEF TypeInv, TypeOK
    <3>2. QED
      BY <1>2, <3>1
  <2>3. QED
    BY <2>1, <2>2
<1>6. QED
  BY <1>1, <1>2, <1>5

(* ikcp_parse_una and ikcp_parse_ack change no number and no data. *)
LEMMA ParsesKeep ==
  ASSUME NEW buf \in SUBSET SendSegment, NEW una, NEW sn \in Nat, NEW nxt \in Nat
  PROVE  /\ ParseUna(buf, una) \subseteq buf
         /\ \A s \in ParseAck(buf, sn, nxt) :
              \E t \in buf : t.sn = s.sn /\ t.frag = s.frag
<1> DEFINE Skipped(s) == [s EXCEPT !.fastack = Min2(@ + 1, FastResend)]
           found == \E s \in buf : s.sn = sn
           f == [s \in buf |-> IF found /\ s.sn > sn THEN s ELSE Skipped(s)]
<1>1. \A s \in buf : f[s].sn = s.sn /\ f[s].frag = s.frag
  BY DEF SendSegment
<1>2. \/ ParseAck(buf, sn, nxt) = buf
      \/ ParseAck(buf, sn, nxt) = {f[s] : s \in {t \in buf : t.sn # sn}}
  BY DEF ParseAck
<1> HIDE DEF f
<1>3. \A s \in ParseAck(buf, sn, nxt) :
        \E t \in buf : t.sn = s.sn /\ t.frag = s.frag
  BY <1>1, <1>2
<1>4. QED
  BY <1>3 DEF ParseUna

LEMMA InputAckOrder ==
  ASSUME TypeInv, TypeInv', OrderInv, NEW e \in Endpoint, InputAck(e)
  PROVE  OrderInv'
<1> DEFINE h == Head(input[e])
           kept == ParseUna(snd_buf[e], h.una)
           buf == ParseAck(kept, h.sn, snd_nxt[e])
<1>1. input[e] # <<>> /\ InputSegment(e, buf)
  BY DEF InputAck, NextIs
<1>2. h.sn \in Nat /\ snd_nxt[e] \in Nat
  BY <1>1, HeadType DEF TypeInv, TypeOK
<1>3. snd_buf[e] \in SUBSET SendSegment /\ IsFiniteSet(snd_buf[e])
  BY DEF TypeInv, TypeOK, SndBufFinite
<1> HIDE DEF h
<1>4. /\ kept \in SUBSET SendSegment /\ IsFiniteSet(kept)
      /\ kept \subseteq snd_buf[e]
  BY <1>2, <1>3, ParseUnaType, ParsesKeep
<1> HIDE DEF kept
<1>5. /\ buf \in SUBSET SendSegment
      /\ \A s \in buf : \E t \in snd_buf[e] : t.sn = s.sn /\ t.frag = s.frag
  <2>1. buf \in SUBSET SendSegment
    BY <1>2, <1>4, ParseAckType
  <2>2. \A s \in buf : \E t \in kept : t.sn = s.sn /\ t.frag = s.frag
    BY <1>2, <1>4, ParsesKeep
  <2>3. QED
    BY <1>4, <2>1, <2>2
<1> HIDE DEF buf
<1>6. UNCHANGED <<rcv_nxt, rcv_buf, rcv_queue>>
  BY DEF InputAck, recvVars
<1>7. QED
  BY <1>1, <1>5, <1>6, InputSegmentOrder, QuietStep DEF TypeInv

LEMMA InputProbeOrder ==
  ASSUME TypeInv, TypeInv', OrderInv, NEW e \in Endpoint,
         InputWask(e) \/ InputWins(e)
  PROVE  OrderInv'
<1> DEFINE buf == ParseUna(snd_buf[e], Head(input[e]).una)
<1>1. input[e] # <<>> /\ InputSegment(e, buf)
  BY DEF InputWask, InputWins, NextIs
<1>2. /\ buf \in SUBSET SendSegment
      /\ \A s \in buf : \E t \in snd_buf[e] : t.sn = s.sn /\ t.frag = s.frag
  BY DEF TypeInv, TypeOK, ParseUna
<1> HIDE DEF buf
<1>3. UNCHANGED <<rcv_nxt, rcv_buf, rcv_queue>>
  BY DEF InputWask, InputWins, recvVars
<1>4. QED
  BY <1>1, <1>2, <1>3, InputSegmentOrder, QuietStep DEF TypeInv

LEMMA InputForeignOrder ==
  ASSUME TypeInv, TypeInv', OrderInv, NEW e \in Endpoint, InputForeign(e)
  PROVE  OrderInv'
<1>1. UNCHANGED <<snd_queue, snd_nxt, snd_buf, rcv_nxt, rcv_buf, rcv_queue,
                  net, sent, stream, delivered>>
  BY DEF InputForeign, sendVars, recvVars, history
<1>2. \A x \in Endpoint : PushesTrue(x, input'[x])
  <2>1. \A x \in Endpoint : input'[x] = input[x] \/ input'[x] = <<>>
    BY DEF InputForeign, TypeInv, TypeOK
  <2>2. \A x \in Endpoint : PushesTrue(x, <<>>)
    BY DEF PushesTrue
  <2>3. QED
    BY <2>1, <2>2 DEF OrderInv, NumbersKept
<1>3. QED
  BY <1>1, <1>2, QuietStep DEF TypeInv, OrderInv, NumbersKept

(* A pushed segment carries the fragment that its number stands for, so     *)
(* that ikcp_parse_data may put it in rcv_buf under that number. *)
LEMMA InputPushOrder ==
  ASSUME TypeInv, TypeInv', OrderInv, NEW e \in Endpoint, InputPush(e)
  PROVE  OrderInv'
<1> DEFINE h == Head(input[e])
           buf == ParseUna(snd_buf[e], h.una)
           p == Peer(e)
<1>1. input[e] # <<>> /\ h.cmd = "PUSH" /\ InputSegment(e, buf)
  BY DEF InputPush, NextIs
<1>2. /\ buf \in SUBSET SendSegment
      /\ \A s \in buf : \E t \in snd_buf[e] : t.sn = s.sn /\ t.frag = s.frag
  BY DEF TypeInv, TypeOK, ParseUna
<1> HIDE DEF buf
<1>3. /\ UNCHANGED <<snd_queue, snd_nxt, sent, stream, delivered>>
      /\ \A x \in Endpoint :
           /\ \A s \in snd_buf'[x] : Numbers(x, s.sn, s.frag)
           /\ \A d \in net'[x] : PushesTrue(x, d)
           /\ PushesTrue(x, input'[x])
  BY <1>1, <1>2, InputSegmentOrder
<1>4. CASE UNCHANGED recvVars
  BY <1>3, <1>4, QuietStep DEF TypeInv, recvVars
<1>5. CASE MoveAvailable(e, ParseData(e, h), rcv_queue[e])
  <2>1. h \in Segment /\ Numbers(p, h.sn, h.frag)
    <3>1. h = input[e][1] /\ h \in Segment /\ 1 \in 1..Len(input[e])
      BY <1>1, HeadType
    <3>2. PushesTrue(e, input[e])
      BY DEF OrderInv, NumbersKept
    <3>3. QED
      BY <1>1, <3>1, <3>2 DEF PushesTrue
  <2> HIDE DEF h
  <2>2. /\ ParseData(e, h) \in SUBSET RecvSegment
        /\ rcv_queue[e] \in Seq(Fragment)
    BY <2>1, ParseDataType, EndTypes DEF TypeInv
  <2>3. \A s \in ParseData(e, h) : Numbers(p, s.sn, s.frag)
    BY <2>1 DEF ParseData, OrderInv, NumbersKept
  <2>4. /\ rcv_nxt[e] <= snd_nxt[p]
        /\ ConsumedCount(e) \in Nat
        /\ ConsumedCount(e) + Len(rcv_queue[e]) = rcv_nxt[e]
        /\ \A i \in 1..Len(rcv_queue[e]) :
             rcv_queue[e][i] = stream[p][ConsumedCount(e) + i]
    <3>1. rcv_nxt[e] \in Nat /\ Len(rcv_queue[e]) \in Nat
      BY EndTypes DEF TypeInv
    <3>2. QED
      BY <3>1 DEF OrderInv, ReceivedInOrder, ConsumedCount
  <2>5. PICK n : Moves(e, ParseData(e, h), rcv_queue[e], n)
    BY <1>5, <2>2, MoveAvailableFacts DEF TypeInv
  <2>6. /\ rcv_nxt'[e] <= snd_nxt[p]
        /\ rcv_nxt'[e] - Len(rcv_queue'[e]) = ConsumedCount(e)
        /\ \A i \in 1..Len(rcv_queue'[e]) :
             rcv_queue'[e][i] = stream[p][ConsumedCount(e) + i]
        /\ \A s \in rcv_buf'[e] : Numbers(p, s.sn, s.frag)
        /\ \A x \in Endpoint : x # e => /\ rcv_nxt'[x] = rcv_nxt[x]
                                        /\ rcv_buf'[x] = rcv_buf[x]
                                        /\ rcv_queue'[x] = rcv_queue[x]
    BY <2>2, <2>3, <2>4, <2>5, MovesInOrder DEF TypeInv
  <2>7. \A x \in Endpoint : ConsumedCount(x)' = ConsumedCount(x)
    BY <2>6 DEF ConsumedCount
  <2>8. NumbersKept'
    <3>1. \A x \in Endpoint : \A s \in rcv_buf'[x] : Numbers(Peer(x), s.sn, s.frag)
      BY <2>6 DEF OrderInv, NumbersKept
    <3>2. StreamKept
      BY <1>3, StreamUnchanged DEF TypeInv
    <3>3. QED
      BY <1>3, <3>1, <3>2, NumbersStep DEF TypeInv
  <2>9. ReceivedInOrder'
    <3>1. \A x \in Endpoint : x # e =>
            /\ rcv_nxt'[x] <= snd_nxt[Peer(x)]
            /\ ConsumedCount(x) >= 0
            /\ \A i \in 1..Len(rcv_queue'[x]) :
                 rcv_queue'[x][i] = stream[Peer(x)][ConsumedCount(x) + i]
      BY <2>6 DEF OrderInv, ReceivedInOrder
    <3>2. ConsumedCount(e) >= 0
      BY <2>4
    <3>3. QED
      BY <1>3, <2>6, <2>7, <3>1, <3>2 DEF ReceivedInOrder
  <2>10. ConsumedIsDelivered' /\ InOrderDelivery'
    BY <1>3, <2>7, DeliveredUnchanged
  <2>11. QED
    BY <1>3, <2>8, <2>9, <2>10, SentUnchanged, QueueUnchanged DEF OrderInv
<1>6. QED
  BY <1>4, <1>5 DEF InputPush

(* The fragments that leave snd_queue get the numbers that their places in  *)
(* the stream give them. *)
LEMMA UpdateNumbers ==
  ASSUME TypeInv, OrderInv, NEW e \in Endpoint,
         snd_nxt'[e] = snd_nxt[e] + NumberedCount(e), stream' = stream
  PROVE  \A s \in snd_buf[e] \cup Numbered(e) : Numbers(e, s.sn, s.frag)'
<1>1. /\ NumberedCount(e) \in Nat /\ snd_nxt[e] \in Nat
      /\ NumberedCount(e) <= Len(snd_queue[e]) /\ Len(snd_queue[e]) \in Nat
  BY NumberedFacts, EndTypes DEF TypeInv
<1>2. ASSUME NEW s \in snd_buf[e]
      PROVE  Numbers(e, s.sn, s.frag)'
  <2>1. Numbers(e, s.sn, s.frag) /\ s.sn \in Nat
    BY DEF OrderInv, NumbersKept, TypeInv, TypeOK, SendSegment
  <2>2. QED
    BY <1>1, <2>1 DEF Numbers
<1>3. ASSUME NEW s \in Numbered(e)
      PROVE  Numbers(e, s.sn, s.frag)'
  <2>1. PICK i \in 1..NumberedCount(e) :
          s.sn = snd_nxt[e] + i - 1 /\ s.frag = snd_queue[e][i]
    BY DEF Numbered
  <2>2. i \in 1..Len(snd_queue[e]) /\ s.sn + 1 = snd_nxt[e] + i
    BY <1>1, <2>1
  <2>3. snd_queue[e][i] = stream[e][snd_nxt[e] + i]
    BY <2>2 DEF OrderInv, QueueIsStream
  <2>4. s.sn < snd_nxt'[e]
    BY <1>1, <2>1
  <2>5. QED
    BY <2>1, <2>2, <2>3, <2>4 DEF Numbers
<1>4. QED
  BY <1>2, <1>3

LEMMA UpdateOrder ==
  ASSUME TypeInv, TypeInv', OrderInv, NEW e \in Endpoint, NEW due \in DueSets(e),
         NEW ask \in ProbeDue(e), NEW lossless, Update(e, due, ask, lossless)
  PROVE  OrderInv'
<1> DEFINE buf == snd_buf[e] \cup Numbered(e)
           moved == NumberedCount(e)
           left == SubSeq(snd_queue[e], moved + 1, Len(snd_queue[e]))
<1>1. /\ UNCHANGED <<rcv_nxt, rcv_buf, rcv_queue, input, sent, stream, delivered>>
      /\ snd_queue' = [snd_queue EXCEPT ![e] = left]
      /\ snd_nxt' = [snd_nxt EXCEPT ![e] = @ + moved]
      /\ snd_buf' = [snd_buf EXCEPT ![e] = {Transmitted(s, due) : s \in buf}]
  BY DEF Update, recvVars, inputVars, history
<1>2. /\ snd_queue'[e] = left
      /\ snd_nxt'[e] = snd_nxt[e] + moved
      /\ snd_buf'[e] = {Transmitted(s, due) : s \in buf}
      /\ \A x \in Endpoint : x # e => /\ snd_queue'[x] = snd_queue[x]
                                      /\ snd_nxt'[x] = snd_nxt[x]
                                      /\ snd_buf'[x] = snd_buf[x]
  BY <1>1 DEF TypeInv, TypeOK
<1>3. /\ moved \in Nat /\ moved <= Len(snd_queue[e])
      /\ snd_nxt[e] \in Nat
      /\ snd_queue[e] \in Seq(Fragment) /\ Len(snd_queue[e]) \in Nat
  BY NumberedFacts, EndTypes DEF TypeInv
<1>4. \A s \in buf : Numbers(e, s.sn, s.frag)'
  BY <1>1, <1>2, UpdateNumbers
<1>5. StreamKept
  <2>1. ASSUME NEW x \in Endpoint
        PROVE  snd_nxt[x] <= snd_nxt'[x]
    <3>1. snd_nxt[x] \in Nat
      BY EndTypes DEF TypeInv
    <3>2. QED
      BY <1>2, <1>3, <3>1
  <2>2. QED
    BY <1>1, <2>1 DEF StreamKept
<1>6. QueueIsStream'
  <2> HIDE DEF moved
  <2>1. /\ Len(left) = Len(snd_queue[e]) - moved
        /\ \A i \in 1..Len(left) : left[i] = snd_queue[e][moved + i]
    <3>1. Len(left) = Len(snd_queue[e]) - moved
      BY <1>3
    <3>2. \A i \in 1..Len(left) : left[i] = snd_queue[e][moved + i]
      BY <1>3, <3>1
    <3>3. QED
      BY <3>1, <3>2
  <2> HIDE DEF left
  <2>2. /\ snd_nxt[e] + Len(snd_queue[e]) = Len(stream[e])
        /\ \A i \in 1..Len(snd_queue[e]) :
             snd_queue[e][i] = stream[e][snd_nxt[e] + i]
    BY DEF OrderInv, QueueIsStream
  <2>3. ASSUME NEW i \in 1..Len(left)
        PROVE  left[i] = stream[e][snd_nxt[e] + moved + i]
    <3>1. /\ moved + i \in 1..Len(snd_queue[e])
          /\ snd_nxt[e] + (moved + i) = snd_nxt[e] + moved + i
      BY <1>3, <2>1
    <3>2. QED
      BY <2>1, <2>2, <3>1
  <2>4. snd_nxt[e] + moved + Len(left) = Len(stream[e])
    BY <1>3, <2>1, <2>2
  <2>5. \A x \in Endpoint : x # e =>
          /\ snd_nxt'[x] + Len(snd_queue'[x]) = Len(stream[x])
          /\ \A i \in 1..Len(snd_queue'[x]) :
               snd_queue'[x][i] = stream[x][snd_nxt'[x] + i]
    BY <1>2 DEF OrderInv, QueueIsStream
  <2>6. QED
    BY <1>1, <1>2, <2>3, <2>4, <2>5 DEF QueueIsStream
<1> HIDE DEF left
<1>7. ASSUME NEW x \in Endpoint, NEW s \in snd_buf'[x]
      PROVE  Numbers(x, s.sn, s.frag) \/ Numbers(x, s.sn, s.frag)'
  <2>1. CASE x = e
    <3>1. PICK t \in buf : s = Transmitted(t, due)
      BY <1>2, <2>1
    <3>2. s.sn = t.sn /\ s.frag = t.frag
      BY <3>1 DEF Transmitted
    <3>3. QED
      BY <1>4, <2>1, <3>2
  <2>2. CASE x # e
    BY <1>2, <2>2 DEF OrderInv, NumbersKept
  <2>3. QED
    BY <2>1, <2>2
<1>8. ASSUME NEW x \in Endpoint, NEW d \in net'[x]
      PROVE  PushesTrue(x, d) \/ PushesTrue(x, d)'
  <2>1. PICK q, sending : Sends(e, q, sending)
    BY UpdateFacts
  <2>2. d \in net[x] \/ (x = Peer(e) /\ d \in sending)
    BY <2>1, PeerFacts DEF Sends, TypeInv, TypeOK
  <2>3. CASE d \in net[x]
    BY <2>3 DEF OrderInv, NumbersKept
  <2>4. CASE x = Peer(e) /\ d \in sending
    <3>1. d \in Seq(Encodable(e, q))
      BY <2>1, <2>4 DEF Sends
    <3>2. \A i \in 1..Len(d) : d[i] \in Encodable(e, q)
      BY <3>1
    <3>3. \A i \in DOMAIN q : Numbers(e, q[i].sn, q[i].frag)'
      BY <1>4, <2>1 DEF Sends
    <3>4. \A i \in 1..Len(d) : d[i].cmd = "PUSH" =>
            \E j \in DOMAIN q : d[i].sn = q[j].sn /\ d[i].frag = q[j].frag
      BY <3>2 DEF Encodable
    <3>5. \A i \in 1..Len(d) : d[i].cmd = "PUSH" =>
            Numbers(e, d[i].sn, d[i].frag)'
      BY <3>3, <3>4 DEF Numbers
    <3>6. Peer(x) = e
      BY <2>4, PeerFacts
    <3>7. QED
      BY <3>5, <3>6 DEF PushesTrue
  <2>5. QED
    BY <2>2, <2>3, <2>4
<1>9. NumbersKept'
  BY <1>1, <1>5, <1>7, <1>8, NumbersStep DEF TypeInv, OrderInv, NumbersKept
<1>10. ReceivedInOrder'
  BY <1>1, <1>5, ReceiversStay DEF TypeInv
<1>11. ConsumedIsDelivered' /\ InOrderDelivery'
  BY <1>1, DeliveredUnchanged DEF ConsumedCount
<1>12. QED
  BY <1>1, <1>6, <1>9, <1>10, <1>11, SentUnchanged DEF OrderInv

LEMMA NextOrder == TypeInv /\ TypeInv' /\ OrderInv /\ [Next]_vars => OrderInv'
<1> SUFFICES ASSUME TypeInv, TypeInv', OrderInv, [Next]_vars PROVE OrderInv'
  OBVIOUS
<1>0. TypeOK /\ TypeOK'
  BY DEF TypeInv
<1>1. ASSUME NEW e \in Endpoint, NEW size \in MessageSizes, Send(e, size)
      PROVE  OrderInv'
  BY <1>0, <1>1, SendOrder
<1>2. ASSUME NEW e \in Endpoint, Recv(e)
      PROVE  OrderInv'
  BY <1>0, <1>2, RecvOrder
<1>3. ASSUME NEW e \in Endpoint, NEW d \in net[e], Receive(e, d)
      PROVE  OrderInv'
  BY <1>0, <1>3, ReceiveOrder
<1>4. ASSUME NEW e \in Endpoint, InputAck(e)
      PROVE  OrderInv'
  BY <1>4, InputAckOrder
<1>5. ASSUME NEW e \in Endpoint, InputPush(e)
      PROVE  OrderInv'
  BY <1>5, InputPushOrder
<1>6. ASSUME NEW e \in Endpoint, InputWask(e) \/ InputWins(e)
      PROVE  OrderInv'
  BY <1>6, InputProbeOrder
<1>7. ASSUME NEW e \in Endpoint, NEW due \in DueSets(e), NEW ask \in ProbeDue(e),
             Update(e, due, ask, FALSE)
      PROVE  OrderInv'
  BY <1>7, UpdateOrder
<1>8. ASSUME NEW e \in Endpoint, InputForeign(e)
      PROVE  OrderInv'
  BY <1>8, InputForeignOrder
<1>9. CASE UNCHANGED vars
  <2>1. UNCHANGED <<snd_queue, snd_nxt, snd_buf, rcv_nxt, rcv_buf, rcv_queue,
                    input, net, sent, stream, delivered>>
    BY <1>9 DEF vars
  <2>2. QED
    BY <1>0, <2>1, QuietStep DEF OrderInv, NumbersKept
<1>10. QED
  BY <1>1, <1>2, <1>3, <1>4, <1>5, <1>6, <1>7, <1>8, <1>9 DEF Next

LEMMA OrderCorrect == Spec => [](TypeInv /\ OrderInv)
<1>1. Init => TypeInv /\ OrderInv
  BY InitType, InitOrder
<1>2. TypeInv /\ OrderInv /\ [Next]_vars => (TypeInv /\ OrderInv)'
  BY NextType, NextOrder
<1>3. QED
  BY <1>1, <1>2, PTL DEF Spec

(* Whatever the network loses, repeats or reorders, ikcp_recv returns the   *)
(* messages that ikcp_send took at the other end, whole, each once and in   *)
(* order. *)
THEOREM DeliveredInOrder == Spec => []InOrderDelivery
<1>1. TypeInv /\ OrderInv => InOrderDelivery
  BY DEF OrderInv
<1>2. QED
  BY <1>1, OrderCorrect, PTL

(* The whole invariant that the runs check. *)
THEOREM InductiveInvariant == Spec => []IInv
<1>1. (TypeInv /\ OrderInv) /\ (TypeInv /\ SafeInv) /\ (TypeInv /\ WindowsTrack)
        => IInv
  BY DEF TypeInv, SafeInv, IInv
<1>2. QED
  BY <1>1, OrderCorrect, SafeCorrect, WindowsCorrect, PTL

(***************************************************************************)
(* The abstract specification.                                              *)
(***************************************************************************)

(* ikcp_send puts a message in the channel. *)
LEMMA SendSends ==
  ASSUME TypeOK, NEW e \in Endpoint, NEW size \in MessageSizes, Send(e, size)
  PROVE  Channel!Next
<1> DEFINE m == Fragments(Len(sent[e]) + 1, size)
<1>1. Len(sent[e]) + 1 \in 1..MaxSent[e]
  <2>1. Len(sent[e]) \in Nat /\ MaxSent[e] \in Nat
    BY EndTypes, BoundAssumption
  <2>2. QED
    BY <2>1 DEF Send
<1>2. m \in Messages
  BY <1>1 DEF Messages
<1>3. /\ sent' = [sent EXCEPT ![e] = Append(@, m)]
      /\ delivered' = delivered
  BY DEF Send
<1> HIDE DEF m
<1>4. QED
  BY <1>2, <1>3 DEF Channel!Next, Channel!Send

(* ikcp_recv delivers the next message of the other end. *)
LEMMA RecvReceives ==
  ASSUME TypeOK, OrderInv, NEW e \in Endpoint, Recv(e)
  PROVE  Channel!Next
<1> DEFINE queue == rcv_queue[e]
<1>1. PICK n \in 1..Len(queue) :
        /\ MergesTo(queue, n)
        /\ delivered' = [delivered EXCEPT ![e] = Append(@, SubSeq(queue, 1, n))]
  BY DEF Recv
<1>2. queue # <<>> /\ Complete(queue) /\ sent' = sent
  BY DEF Recv
<1>3. /\ Len(delivered[e]) + 1 <= Len(sent[Peer(e)])
      /\ SubSeq(queue, 1, n) = sent[Peer(e)][Len(delivered[e]) + 1]
  BY <1>1, <1>2, RecvDelivers
<1>4. Channel!Other(e) = Peer(e)
  BY DEF Channel!Other, Peer
<1>5. Channel!Deliver(e)
  BY <1>1, <1>2, <1>3, <1>4 DEF Channel!Deliver
<1>6. QED
  BY <1>5 DEF Channel!Next

LEMMA ChannelStep ==
  TypeInv /\ OrderInv /\ [Next]_vars => [Channel!Next]_(Channel!vars)
<1> SUFFICES ASSUME TypeInv, OrderInv, [Next]_vars
             PROVE  Channel!Next \/ UNCHANGED <<sent, delivered>>
  BY DEF Channel!vars
<1>1. ASSUME NEW e \in Endpoint, NEW size \in MessageSizes, Send(e, size)
      PROVE  Channel!Next
  BY <1>1, SendSends DEF TypeInv
<1>2. ASSUME NEW e \in Endpoint, Recv(e)
      PROVE  Channel!Next
  BY <1>2, RecvReceives DEF TypeInv
<1>3. ASSUME NEW e \in Endpoint,
             \/ \E d \in net[e] : Receive(e, d)
             \/ Input(e)
             \/ \E due \in DueSets(e), ask \in ProbeDue(e) :
                  Update(e, due, ask, FALSE)
      PROVE  UNCHANGED <<sent, delivered>>
  BY <1>3 DEF Receive, Input, InputAck, InputPush, InputWask, InputWins,
              InputForeign, InputSegment, Update, history
<1>4. CASE UNCHANGED vars
  BY <1>4 DEF vars
<1>5. QED
  BY <1>1, <1>2, <1>3, <1>4 DEF Next, Input

(* The safety part of ImplementsChannel: a link whose network loses,        *)
(* repeats and reorders datagrams delivers as a channel does that does none *)
(* of it. *)
THEOREM LinkIsChannel == Spec => Channel!Spec
<1>1. Init => Channel!Init
  BY DEF Init, Channel!Init
<1>2. QED
  BY <1>1, ChannelStep, OrderCorrect, PTL DEF Spec, Channel!Spec

-----------------------------------------------------------------------------
(* A pair of streams drives its control blocks only in ways that KcpLink    *)
(* allows, so that what is proved of KcpLink holds of streams.              *)

(* Every step of a stream is a call on its control block, or none. *)
LEMMA StreamStep == [StreamNext]_streamVars => [Next]_vars
<1> SUFFICES ASSUME [StreamNext]_streamVars PROVE [Next]_vars
  OBVIOUS
<1>1. ASSUME NEW e \in Endpoint, NEW size \in MessageSizes, Write(e, size)
      PROVE  Next
  BY <1>1 DEF Write, Next
<1>2. ASSUME NEW e \in Endpoint, NEW d \in net[e], OnRecvUDP(e, d)
      PROVE  Next
  BY <1>2 DEF OnRecvUDP, Next
<1>3. ASSUME NEW e \in Endpoint, InputTaken(e)
      PROVE  Next
  BY <1>3 DEF InputTaken, Next
<1>4. ASSUME NEW e \in Endpoint, InputFailed(e)
      PROVE  Next
  BY <1>4 DEF InputFailed, Next
<1>5. ASSUME NEW e \in Endpoint, TryRecv(e)
      PROVE  Next
  BY <1>5 DEF TryRecv, Next
<1>6. ASSUME NEW e \in Endpoint, TryRecvEnds(e)
      PROVE  UNCHANGED vars
  BY <1>6 DEF TryRecvEnds
<1>7. ASSUME NEW e \in Endpoint, NEW due \in DueSets(e), NEW ask \in ProbeDue(e),
             OnRun(e, due, ask, FALSE)
      PROVE  Next
  BY <1>7 DEF OnRun, Next
<1>8. CASE UNCHANGED streamVars
  BY <1>8 DEF streamVars
<1>9. QED
  BY <1>1, <1>2, <1>3, <1>4, <1>5, <1>6, <1>7, <1>8 DEF StreamNext

(* KCPStream implements the interface of ikcp.h as KcpLink has it: the calls *)
(* of OnRecvUDP, TryRecvKCP, Write and OnRun, in the order in which their    *)
(* thread makes them, are calls that a user of a control block may make.     *)
THEOREM StreamImplementsLink == StreamSpec => Spec
<1>1. StreamInit => Init
  BY DEF StreamInit
<1>2. QED
  BY <1>1, StreamStep, PTL DEF StreamSpec, Spec

(* No datagram, joined with those of other streams or not, makes a stream    *)
(* free a segment that its peer does not have, overfill its buffers, or      *)
(* give OnRecvKCP something else than the next message of its peer.          *)
THEOREM StreamsAreSafe ==
  StreamSpec => [](NothingDropped /\ BuffersBounded /\ InOrderDelivery)
BY StreamImplementsLink, NothingIsDropped, BuffersAreBounded, DeliveredInOrder,
   PTL

(* Two streams that write and take datagrams as kcp_stream.cc has it are a   *)
(* channel that delivers messages whole, once and in order. *)
THEOREM StreamIsChannel == StreamSpec => Channel!Spec
BY StreamImplementsLink, LinkIsChannel
=============================================================================
