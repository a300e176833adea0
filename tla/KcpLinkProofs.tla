----------------------------- MODULE KcpLinkProofs -----------------------------
(***************************************************************************)
(* Proofs about KcpLink, for every value of its constants.                  *)
(***************************************************************************)
EXTENDS KcpLinkInv, FiniteSetTheorems, TLAPS

(***************************************************************************)
(* Constants.                                                               *)
(***************************************************************************)

(* The other end of the link: an endpoint, not e, whose peer is e. *)
LEMMA PeerFacts ==
  ASSUME NEW e \in Endpoint
  PROVE  /\ Peer(e) \in Endpoint
         /\ Peer(e) # e
         /\ Peer(Peer(e)) = e
         /\ \A x \in Endpoint : x = e \/ x = Peer(e)
<1>1. PICK x \in Endpoint, y \in Endpoint : x # y /\ Endpoint = {x, y}
  BY EndpointAssumption
<1>2. Peer(e) \in Endpoint /\ Peer(e) # e
  BY <1>1 DEF Peer
<1>3. \A z \in Endpoint : z = e \/ z = Peer(e)
  BY <1>1, <1>2
<1>4. Peer(Peer(e)) \in Endpoint /\ Peer(Peer(e)) # Peer(e)
  BY <1>1, <1>2 DEF Peer
<1>5. QED
  BY <1>2, <1>3, <1>4

(* An mss is at least 26 bytes. *)
LEMMA MssFacts == Mss \in Nat /\ Mss > 0
BY MtuAssumption DEF Mss, IKCP_OVERHEAD

(* ikcp_send makes at least one fragment, each of at most one mss, and the  *)
(* countdown ends at 0.                                                     *)
LEMMA FragmentsFacts ==
  ASSUME NEW msg \in Nat, NEW size \in Nat
  PROVE  /\ Fragments(msg, size) \in Seq(Fragment)
         /\ Len(Fragments(msg, size)) = FragmentCount(size)
         /\ FragmentCount(size) \in Nat
         /\ FragmentCount(size) > 0
         /\ \A i \in 1..FragmentCount(size) :
              /\ Fragments(msg, size)[i].msg = msg
              /\ Fragments(msg, size)[i].frg = FragmentCount(size) - i
<1> DEFINE count == FragmentCount(size)
<1>0. Mss \in Nat /\ Mss > 0
  BY MssFacts
<1>1. /\ count \in Nat
      /\ count > 0
      /\ count = 1 \/ (count - 1) * Mss < size
  <2>1. CASE size <= Mss
    BY <2>1 DEF FragmentCount
  <2>2. CASE ~(size <= Mss)
    <3> DEFINE q == (size + Mss - 1) \div Mss
    <3>1. count = q
      BY <2>2 DEF FragmentCount
    <3>2. q \in Nat /\ q * Mss <= size + Mss - 1 /\ size + Mss - 1 < q * Mss + Mss
      BY <1>0
    <3>3. q # 0
      BY <1>0, <2>2, <3>2
    <3>4. (q - 1) * Mss = q * Mss - Mss
      BY <1>0, <3>2
    <3> HIDE DEF q
    <3>5. QED
      BY <1>0, <3>1, <3>2, <3>3, <3>4
  <2>3. QED
    BY <2>1, <2>2
<1> HIDE DEF count
<1>2. ASSUME NEW i \in 1..count
      PROVE  Min2(Mss, size - (i - 1) * Mss) \in 0..Mss
  <2>1. (i - 1) * Mss <= (count - 1) * Mss
    BY <1>0, <1>1
  <2>2. (i - 1) * Mss \in Nat /\ (count - 1) * Mss \in Nat
    BY <1>0, <1>1
  <2>3. (i - 1) * Mss <= size
    <3>1. CASE count = 1
      BY <1>0, <3>1
    <3>2. CASE (count - 1) * Mss < size
      BY <2>1, <2>2, <3>2
    <3>3. QED
      BY <1>1, <3>1, <3>2
  <2>4. QED
    BY <1>0, <2>2, <2>3 DEF Min2
<1>3. Fragments(msg, size) =
        [i \in 1..count |-> [msg |-> msg, frg |-> count - i,
                             len |-> Min2(Mss, size - (i - 1) * Mss)]]
  BY DEF Fragments, count
<1>4. \A i \in 1..count : Fragments(msg, size)[i] \in Fragment
  BY <1>1, <1>2, <1>3 DEF Fragment
<1>5. Fragments(msg, size) \in Seq(Fragment) /\ Len(Fragments(msg, size)) = count
  BY <1>1, <1>3, <1>4
<1>6. QED
  BY <1>1, <1>3, <1>5 DEF count

(***************************************************************************)
(* Operators.                                                               *)
(***************************************************************************)

(* ikcp_output only sends segments that ikcp_flush encoded. *)
LEMMA DatagramsFacts ==
  ASSUME NEW S, NEW segs \in Seq(S), NEW d \in Datagrams(segs)
  PROVE  /\ d \in Seq(S)
         /\ \A i \in 1..Len(d) : \E j \in 1..Len(segs) : d[i] = segs[j]
<1>1. PICK i \in 1..Len(segs), j \in 1..Len(segs) :
        d = SubSeq(segs, i, j) /\ IsDatagram(segs, i, j)
  BY DEF Datagrams
<1>2. i <= j
  BY <1>1 DEF IsDatagram
<1>3. QED
  BY <1>1, <1>2

LEMMA GrowWindowType ==
  ASSUME NEW c \in Congestion, NEW wnd \in Nat
  PROVE  GrowWindow(c, wnd) \in Congestion
<1> DEFINE base == Max2(c.incr, Mss)
           incr == IF c.cwnd < c.ssthresh THEN c.incr + Mss
                   ELSE base + (Mss * Mss) \div base + Mss \div 16
           cwnd == IF c.cwnd < c.ssthresh \/ (c.cwnd + 1) * Mss <= incr
                   THEN c.cwnd + 1 ELSE c.cwnd
<1>1. Mss \in Nat /\ Mss > 0
  BY MssFacts
<1>2. c.cwnd \in Nat /\ c.incr \in Nat /\ c.ssthresh \in Nat
  BY DEF Congestion
<1>3. base \in Nat /\ base > 0
  BY <1>1, <1>2 DEF Max2
<1>4. Mss * Mss \in Nat /\ Mss \div 16 \in Nat /\ wnd * Mss \in Nat
  BY <1>1
<1> HIDE DEF base
<1>5. (Mss * Mss) \div base \in Nat
  BY <1>3, <1>4
<1>6. incr \in Nat
  BY <1>1, <1>2, <1>3, <1>4, <1>5
<1> HIDE DEF incr
<1>7. cwnd \in Nat /\ Min2(cwnd, wnd) \in Nat
  BY <1>2 DEF Min2
<1> HIDE DEF cwnd
<1>8. GrowWindow(c, wnd) =
        IF c.cwnd >= wnd THEN c
        ELSE [cwnd |-> Min2(cwnd, wnd),
              incr |-> IF cwnd > wnd THEN wnd * Mss ELSE incr,
              ssthresh |-> c.ssthresh]
  BY DEF GrowWindow, cwnd, incr, base
<1>9. QED
  BY <1>2, <1>4, <1>6, <1>7, <1>8 DEF Congestion

LEMMA BackOffType ==
  ASSUME NEW c \in Congestion, NEW overtaken \in BOOLEAN, NEW expired \in BOOLEAN,
         NEW inflight \in Int, NEW window \in Int
  PROVE  BackOff(c, overtaken, expired, inflight, window) \in Congestion
<1> DEFINE halved == Max2(inflight \div 2, IKCP_THRESH_MIN)
           fast == [ssthresh |-> halved, cwnd |-> halved + FastResend,
                    incr |-> (halved + FastResend) * Mss]
           slow == [ssthresh |-> Max2(window \div 2, IKCP_THRESH_MIN),
                    cwnd |-> 1, incr |-> Mss]
           after == IF expired THEN slow ELSE IF overtaken THEN fast ELSE c
<1>1. Mss \in Nat
  BY MssFacts
<1>2. halved \in Nat /\ slow.ssthresh \in Nat
  BY DEF Max2, IKCP_THRESH_MIN
<1>3. (halved + FastResend) \in Nat
  BY <1>2, WindowAssumption
<1> HIDE DEF halved
<1>4. (halved + FastResend) * Mss \in Nat
  BY <1>1, <1>3
<1>5. fast \in Congestion
  BY <1>2, <1>3, <1>4 DEF Congestion
<1>6. slow \in Congestion
  BY <1>1, <1>2 DEF Congestion
<1> HIDE DEF fast, slow
<1>7. after \in Congestion
  BY <1>5, <1>6
<1> HIDE DEF after
<1>8. BackOff(c, overtaken, expired, inflight, window) =
        IF after.cwnd >= 1 THEN after
        ELSE [cwnd |-> 1, incr |-> Mss, ssthresh |-> after.ssthresh]
  BY DEF BackOff, after, fast, slow, halved
<1>9. QED
  BY <1>1, <1>7, <1>8 DEF Congestion

(***************************************************************************)
(* Types.                                                                   *)
(***************************************************************************)

TypeInv == TypeOK /\ SndBufFinite

LEMMA InitType == Init => TypeInv
BY FS_EmptySet
   DEF Init, TypeInv, TypeOK, SndBufFinite, Congestion, IKCP_WND_RCV,
       IKCP_THRESH_INIT

(* What MoveAvailable leaves when it moves n segments of buf to queue,      *)
(* without the CHOOSE of its definition.                                    *)
Moves(e, buf, queue, n) ==
  /\ n \in Nat
  /\ n <= Room(queue)
  /\ rcv_nxt' = [rcv_nxt EXCEPT ![e] = @ + n]
  /\ rcv_buf' = [rcv_buf EXCEPT ![e] = {s \in buf : s.sn >= rcv_nxt[e] + n}]
  /\ rcv_queue' \in [Endpoint -> Seq(Fragment)]
  /\ \A x \in Endpoint : x # e => rcv_queue'[x] = rcv_queue[x]
  /\ Len(rcv_queue'[e]) = Len(queue) + n
  /\ \A i \in 1..Len(queue) : rcv_queue'[e][i] = queue[i]
  /\ \A i \in 1..n : \E s \in buf : /\ s.sn = rcv_nxt[e] + i - 1
                                    /\ rcv_queue'[e][Len(queue) + i] = s.frag

LEMMA MoveAvailableFacts ==
  ASSUME TypeOK, NEW e \in Endpoint, NEW buf \in SUBSET RecvSegment,
         NEW queue \in Seq(Fragment), MoveAvailable(e, buf, queue)
  PROVE  \E n : Moves(e, buf, queue, n)
<1> DEFINE Frag(sn) == (CHOOSE s \in buf : s.sn = sn).frag
<1>1. PICK n \in 0..Room(queue) :
        /\ \A i \in 0..n-1 : \E s \in buf : s.sn = rcv_nxt[e] + i
        /\ rcv_nxt' = [rcv_nxt EXCEPT ![e] = @ + n]
        /\ rcv_buf' = [rcv_buf EXCEPT
                         ![e] = {s \in buf : s.sn >= rcv_nxt[e] + n}]
        /\ rcv_queue' = [rcv_queue EXCEPT
                           ![e] = queue \o
                                  [i \in 1..n |-> Frag(rcv_nxt[e] + i - 1)]]
  BY DEF MoveAvailable
<1>2. n \in Nat /\ n <= Room(queue) /\ rcv_nxt[e] \in Nat
  BY WindowAssumption DEF TypeOK, Room, Max2
<1>3. ASSUME NEW i \in 1..n
      PROVE  \E s \in buf : /\ s.sn = rcv_nxt[e] + i - 1
                            /\ Frag(rcv_nxt[e] + i - 1) = s.frag
  <2>1. i - 1 \in 0..n-1 /\ rcv_nxt[e] + (i - 1) = rcv_nxt[e] + i - 1
    BY <1>2
  <2>2. \E s \in buf : s.sn = rcv_nxt[e] + i - 1
    BY <1>1, <2>1
  <2>3. QED
    BY <2>2
<1>4. \A i \in 1..n : Frag(rcv_nxt[e] + i - 1) \in Fragment
  BY <1>3 DEF RecvSegment
<1> DEFINE moved == [i \in 1..n |-> Frag(rcv_nxt[e] + i - 1)]
<1>5. moved \in Seq(Fragment) /\ Len(moved) = n
  BY <1>2, <1>4
<1>6. rcv_queue' = [rcv_queue EXCEPT ![e] = queue \o moved]
  BY <1>1
<1>7. \A i \in 1..n : moved[i] = Frag(rcv_nxt[e] + i - 1)
  OBVIOUS
<1> HIDE DEF moved, Frag
<1>8. /\ queue \o moved \in Seq(Fragment)
      /\ Len(queue \o moved) = Len(queue) + n
      /\ \A i \in 1..Len(queue) : (queue \o moved)[i] = queue[i]
      /\ \A i \in 1..n : (queue \o moved)[Len(queue) + i] = moved[i]
  BY <1>2, <1>5
<1>9. rcv_queue'[e] = queue \o moved
  BY <1>6 DEF TypeOK
<1>10. rcv_queue' \in [Endpoint -> Seq(Fragment)]
  BY <1>6, <1>8 DEF TypeOK
<1>11. \A x \in Endpoint : x # e => rcv_queue'[x] = rcv_queue[x]
  BY <1>6 DEF TypeOK
<1>12. \A i \in 1..n : \E s \in buf : /\ s.sn = rcv_nxt[e] + i - 1
                                      /\ moved[i] = s.frag
  BY <1>3, <1>7
<1>13. /\ Len(rcv_queue'[e]) = Len(queue) + n
       /\ \A i \in 1..Len(queue) : rcv_queue'[e][i] = queue[i]
       /\ \A i \in 1..n :
            \E s \in buf : /\ s.sn = rcv_nxt[e] + i - 1
                           /\ rcv_queue'[e][Len(queue) + i] = s.frag
  BY <1>8, <1>9, <1>12
<1>14. Moves(e, buf, queue, n)
  BY <1>1, <1>2, <1>10, <1>11, <1>13 DEF Moves
<1>15. QED
  BY <1>14

LEMMA MoveAvailableType ==
  ASSUME TypeOK, NEW e \in Endpoint, NEW buf \in SUBSET RecvSegment,
         NEW queue \in Seq(Fragment), MoveAvailable(e, buf, queue)
  PROVE  /\ rcv_nxt' \in [Endpoint -> Nat]
         /\ rcv_buf' \in [Endpoint -> SUBSET RecvSegment]
         /\ rcv_queue' \in [Endpoint -> Seq(Fragment)]
<1>1. PICK n : Moves(e, buf, queue, n)
  BY MoveAvailableFacts
<1>2. rcv_nxt' \in [Endpoint -> Nat]
  BY <1>1 DEF TypeOK, Moves
<1>3. rcv_buf' = [rcv_buf EXCEPT ![e] = {s \in buf : s.sn >= rcv_nxt[e] + n}]
  BY <1>1 DEF Moves
<1>4. {s \in buf : s.sn >= rcv_nxt[e] + n} \in SUBSET RecvSegment
  OBVIOUS
<1>5. rcv_buf' \in [Endpoint -> SUBSET RecvSegment]
  BY <1>3, <1>4 DEF TypeOK
<1>6. QED
  BY <1>1, <1>2, <1>5 DEF Moves

LEMMA SendType ==
  ASSUME TypeInv, NEW e \in Endpoint, NEW size \in MessageSizes, Send(e, size)
  PROVE  TypeInv'
<1> DEFINE message == Fragments(Len(sent[e]) + 1, size)
<1>1. Len(sent[e]) + 1 \in Nat /\ size \in Nat
  BY MessageAssumption DEF TypeInv, TypeOK
<1>2. message \in Seq(Fragment)
  BY <1>1, FragmentsFacts
<1> HIDE DEF message
<1>3. /\ snd_queue' = [snd_queue EXCEPT ![e] = @ \o message]
      /\ sent' = [sent EXCEPT ![e] = Append(@, message)]
      /\ stream' = [stream EXCEPT ![e] = @ \o message]
      /\ UNCHANGED <<snd_buf, snd_una, snd_nxt, rcv_nxt, rcv_buf, rcv_queue,
                     acklist, rmt_wnd, probe, probe_wait, cong, dead, input,
                     input_una, net, delivered>>
  BY DEF Send, message, recvVars, inputVars
<1>4. /\ snd_queue' \in [Endpoint -> Seq(Fragment)]
      /\ stream' \in [Endpoint -> Seq(Fragment)]
  BY <1>2, <1>3 DEF TypeInv, TypeOK
<1>5. sent' \in [Endpoint -> Seq(Seq(Fragment))]
  BY <1>2, <1>3 DEF TypeInv, TypeOK
<1>6. QED
  BY <1>3, <1>4, <1>5 DEF TypeInv, TypeOK, SndBufFinite

LEMMA RecvType ==
  ASSUME TypeInv, NEW e \in Endpoint, Recv(e)
  PROVE  TypeInv'
<1> DEFINE queue == rcv_queue[e]
<1>1. PICK n \in 1..Len(queue) :
        /\ delivered' = [delivered EXCEPT ![e] = Append(@, SubSeq(queue, 1, n))]
        /\ MoveAvailable(e, rcv_buf[e], SubSeq(queue, n + 1, Len(queue)))
  BY DEF Recv
<1>2. queue \in Seq(Fragment) /\ rcv_buf[e] \in SUBSET RecvSegment
  BY DEF TypeInv, TypeOK
<1>3. /\ SubSeq(queue, 1, n) \in Seq(Fragment)
      /\ SubSeq(queue, n + 1, Len(queue)) \in Seq(Fragment)
  BY <1>2
<1>4. delivered' \in [Endpoint -> Seq(Seq(Fragment))]
  BY <1>1, <1>3 DEF TypeInv, TypeOK
<1>5. /\ rcv_nxt' \in [Endpoint -> Nat]
      /\ rcv_buf' \in [Endpoint -> SUBSET RecvSegment]
      /\ rcv_queue' \in [Endpoint -> Seq(Fragment)]
  BY <1>1, <1>2, <1>3, MoveAvailableType DEF TypeInv
<1>7. probe' \in [Endpoint -> BOOLEAN]
  BY DEF Recv, TypeInv, TypeOK
<1>8. UNCHANGED <<snd_queue, snd_buf, snd_una, snd_nxt, acklist, rmt_wnd,
                  probe_wait, cong, dead, input, input_una, net, sent, stream>>
  BY DEF Recv, sendVars, inputVars
<1>9. QED
  BY <1>4, <1>5, <1>7, <1>8 DEF TypeInv, TypeOK, SndBufFinite

(* What may follow a datagram that arrives: a foreign segment or nothing.   *)
LEMMA BehindFacts ==
  ASSUME NEW d \in Seq(Segment), NEW rest \in Behind
  PROVE  /\ d \o rest \in Seq(Segment)
         /\ \A i \in 1..Len(d \o rest) :
              IF i \in 1..Len(d) THEN (d \o rest)[i] = d[i]
              ELSE (d \o rest)[i] = Foreign
<1>1. Foreign \in Segment
  BY MssFacts DEF Foreign, Segment, Command, NoFragment, Fragment
<1>2. rest = <<>> \/ rest = <<Foreign>>
  BY DEF Behind
<1>3. rest \in Seq(Segment) /\ \A i \in 1..Len(rest) : rest[i] = Foreign
  <2>1. CASE rest = <<>>
    BY <2>1
  <2>2. CASE rest = <<Foreign>>
    <3> HIDE DEF Foreign
    <3>1. <<Foreign>> \in Seq(Segment) /\ Len(<<Foreign>>) = 1
      BY <1>1
    <3>2. \A i \in 1..1 : <<Foreign>>[i] = Foreign
      OBVIOUS
    <3>3. QED
      BY <2>2, <3>1, <3>2
  <2>3. QED
    BY <1>2, <2>1, <2>2
<1>4. d \o rest \in Seq(Segment) /\ Len(d \o rest) = Len(d) + Len(rest)
  BY <1>3
<1>5. ASSUME NEW i \in 1..Len(d \o rest)
      PROVE  IF i \in 1..Len(d) THEN (d \o rest)[i] = d[i]
             ELSE (d \o rest)[i] = Foreign
  <2>1. CASE i \in 1..Len(d)
    BY <1>3, <2>1
  <2>2. CASE i \notin 1..Len(d)
    <3>1. i - Len(d) \in 1..Len(rest)
      BY <1>3, <1>4, <2>2
    <3>2. (d \o rest)[i] = rest[i - Len(d)]
      BY <1>3, <1>4, <2>2, <3>1
    <3>3. QED
      BY <1>3, <2>2, <3>1, <3>2
  <2>3. QED
    BY <2>1, <2>2
<1>6. QED
  BY <1>4, <1>5

LEMMA ReceiveType ==
  ASSUME TypeInv, NEW e \in Endpoint, NEW d \in net[e], Receive(e, d)
  PROVE  TypeInv'
<1>1. d \in Seq(Segment)
  BY DEF TypeInv, TypeOK
<1>2. input' \in [Endpoint -> Seq(Segment)] /\ input_una' \in [Endpoint -> Nat]
  <2>1. PICK rest \in Behind : input' = [input EXCEPT ![e] = d \o rest]
    BY DEF Receive
  <2>2. d \o rest \in Seq(Segment)
    BY <1>1, BehindFacts
  <2>3. QED
    BY <2>1, <2>2 DEF Receive, TypeInv, TypeOK
<1>3. net' \in [Endpoint -> SUBSET Seq(Segment)]
  <2>1. net[e] \ {d} \in SUBSET Seq(Segment)
    BY DEF TypeInv, TypeOK
  <2>2. net' = net \/ net' = [net EXCEPT ![e] = net[e] \ {d}]
    BY DEF Receive
  <2>3. QED
    BY <2>1, <2>2 DEF TypeInv, TypeOK
<1>4. QED
  BY <1>2, <1>3
     DEF Receive, TypeInv, TypeOK, SndBufFinite, sendVars, recvVars, history

(* The image of a finite set. *)
LEMMA ImageFinite ==
  ASSUME NEW S, IsFiniteSet(S), NEW f
  PROVE  IsFiniteSet({f[x] : x \in S})
<1> DEFINE T == {f[x] : x \in S}
           g == [x \in S |-> f[x]]
<1>1. g \in Surjection(S, T)
  BY DEF Surjection
<1>2. QED
  BY <1>1, FS_Surjection

LEMMA ParseUnaType ==
  ASSUME NEW buf \in SUBSET SendSegment, IsFiniteSet(buf), NEW una
  PROVE  /\ ParseUna(buf, una) \in SUBSET SendSegment
         /\ IsFiniteSet(ParseUna(buf, una))
BY FS_Subset DEF ParseUna

LEMMA ParseAckType ==
  ASSUME NEW buf \in SUBSET SendSegment, IsFiniteSet(buf), NEW sn \in Nat,
         NEW nxt \in Nat
  PROVE  /\ ParseAck(buf, sn, nxt) \in SUBSET SendSegment
         /\ IsFiniteSet(ParseAck(buf, sn, nxt))
<1> DEFINE Skipped(s) == [s EXCEPT !.fastack = Min2(@ + 1, FastResend)]
           found == \E s \in buf : s.sn = sn
           rest == {t \in buf : t.sn # sn}
           f == [s \in rest |-> IF found /\ s.sn > sn THEN s ELSE Skipped(s)]
<1>1. CASE sn >= nxt \/ \A s \in buf : s.sn > sn
  BY <1>1 DEF ParseAck
<1>2. CASE ~(sn >= nxt \/ \A s \in buf : s.sn > sn)
  <2>1. ParseAck(buf, sn, nxt) = {f[s] : s \in rest}
    BY <1>2 DEF ParseAck
  <2>2. \A s \in rest : Skipped(s) \in SendSegment
    BY WindowAssumption DEF SendSegment, Min2
  <2>3. \A s \in rest : f[s] \in SendSegment
    BY <2>2
  <2>4. IsFiniteSet(rest)
    BY FS_Subset
  <2> HIDE DEF f, rest
  <2>5. IsFiniteSet({f[s] : s \in rest})
    BY <2>4, ImageFinite
  <2>6. QED
    BY <2>1, <2>3, <2>5
<1>3. QED
  BY <1>1, <1>2

(* The segment that ikcp_input is about to parse. *)
LEMMA HeadType ==
  ASSUME TypeInv, NEW e \in Endpoint, input[e] # <<>>
  PROVE  /\ Head(input[e]) = input[e][1]
         /\ Head(input[e]) \in Segment
         /\ Head(input[e]).sn \in Nat
         /\ Head(input[e]).una \in Nat
         /\ Head(input[e]).wnd \in Nat
         /\ Head(input[e]).frag \in Fragment
         /\ Tail(input[e]) \in Seq(Segment)
         /\ Len(Tail(input[e])) = Len(input[e]) - 1
         /\ Len(input[e]) \in Nat /\ Len(input[e]) > 0
         /\ \A i \in 1..Len(Tail(input[e])) : Tail(input[e])[i] = input[e][i + 1]
<1>1. input[e] \in Seq(Segment)
  BY DEF TypeInv, TypeOK
<1>2. Len(input[e]) \in Nat /\ Len(input[e]) > 0
  BY <1>1
<1>3. Head(input[e]) = input[e][1] /\ input[e][1] \in Segment
  BY <1>1, <1>2
<1>4. /\ Tail(input[e]) \in Seq(Segment)
      /\ Len(Tail(input[e])) = Len(input[e]) - 1
      /\ \A i \in 1..Len(Tail(input[e])) : Tail(input[e])[i] = input[e][i + 1]
  BY <1>1, <1>2
<1>5. \A x \in Segment :
        x.sn \in Nat /\ x.una \in Nat /\ x.wnd \in Nat /\ x.frag \in Fragment
  BY DEF Segment
<1>6. QED
  BY <1>2, <1>3, <1>4, <1>5

(* The variables that InputSegment sets keep their types. *)
LEMMA InputSegmentType ==
  ASSUME TypeInv, NEW e \in Endpoint, NEW buf \in SUBSET SendSegment,
         IsFiniteSet(buf), input[e] # <<>>, InputSegment(e, buf)
  PROVE  /\ snd_buf' \in [Endpoint -> SUBSET SendSegment]
         /\ SndBufFinite'
         /\ snd_una' \in [Endpoint -> Nat]
         /\ rmt_wnd' \in [Endpoint -> Nat]
         /\ input' \in [Endpoint -> Seq(Segment)]
         /\ input_una' \in [Endpoint -> Nat]
         /\ cong' \in [Endpoint -> Congestion]
         /\ UNCHANGED <<snd_queue, snd_nxt, probe_wait, dead, net, sent, stream,
                        delivered>>
<1>1. /\ Head(input[e]) \in Segment
      /\ Tail(input[e]) \in Seq(Segment)
      /\ Head(input[e]).wnd \in Nat
  BY HeadType
<1>2. /\ snd_buf' \in [Endpoint -> SUBSET SendSegment]
      /\ SndBufFinite'
  BY DEF InputSegment, TypeInv, TypeOK, SndBufFinite
<1>3. snd_una' \in [Endpoint -> Nat]
  <2>1. PICK una \in {snd_nxt[e]} \cup {s.sn : s \in buf} :
          snd_una' = [snd_una EXCEPT ![e] = una]
    BY DEF InputSegment
  <2>2. una \in Nat
    BY DEF TypeInv, TypeOK, SendSegment
  <2>3. QED
    BY <2>1, <2>2 DEF TypeInv, TypeOK
<1>4. rmt_wnd' \in [Endpoint -> Nat] /\ input' \in [Endpoint -> Seq(Segment)]
  BY <1>1 DEF InputSegment, TypeInv, TypeOK
<1>5. input_una' \in [Endpoint -> Nat]
  <2>1. input_una' = input_una \/ input_una' = [input_una EXCEPT ![e] = 0]
    BY DEF InputSegment
  <2>2. input_una \in [Endpoint -> Nat] /\ 0 \in Nat
    BY DEF TypeInv, TypeOK
  <2>3. QED
    BY <2>1, <2>2
<1>6. cong' \in [Endpoint -> Congestion]
  <2>1. GrowWindow(cong[e], Head(input[e]).wnd) \in Congestion
    BY <1>1, GrowWindowType DEF TypeInv, TypeOK
  <2>2. \/ cong' = cong
        \/ cong' = [cong EXCEPT ![e] = cong[e]]
        \/ cong' = [cong EXCEPT ![e] = GrowWindow(cong[e], Head(input[e]).wnd)]
    BY DEF InputSegment
  <2>3. QED
    BY <2>1, <2>2 DEF TypeInv, TypeOK
<1>7. QED
  BY <1>2, <1>3, <1>4, <1>5, <1>6 DEF InputSegment, history

LEMMA InputAckType ==
  ASSUME TypeInv, NEW e \in Endpoint, InputAck(e)
  PROVE  TypeInv'
<1> DEFINE s == Head(input[e])
           buf == ParseAck(ParseUna(snd_buf[e], s.una), s.sn, snd_nxt[e])
<1>1. input[e] # <<>> /\ InputSegment(e, buf)
  BY DEF InputAck, NextIs
<1>2. s.sn \in Nat /\ snd_nxt[e] \in Nat
  BY <1>1, HeadType DEF TypeInv, TypeOK
<1>3. snd_buf[e] \in SUBSET SendSegment /\ IsFiniteSet(snd_buf[e])
  BY DEF TypeInv, TypeOK, SndBufFinite
<1>4. /\ ParseUna(snd_buf[e], s.una) \in SUBSET SendSegment
      /\ IsFiniteSet(ParseUna(snd_buf[e], s.una))
  BY <1>3, ParseUnaType
<1> HIDE DEF s
<1>5. buf \in SUBSET SendSegment /\ IsFiniteSet(buf)
  BY <1>2, <1>4, ParseAckType
<1> HIDE DEF buf
<1>6. UNCHANGED <<rcv_nxt, rcv_buf, rcv_queue, acklist, probe>>
  BY DEF InputAck, recvVars
<1>7. QED
  BY <1>1, <1>5, <1>6, InputSegmentType DEF TypeInv, TypeOK

LEMMA ParseDataType ==
  ASSUME TypeInv, NEW e \in Endpoint, NEW s \in Segment
  PROVE  ParseData(e, s) \in SUBSET RecvSegment
BY DEF TypeInv, TypeOK, ParseData, RecvSegment, Segment

LEMMA InputPushType ==
  ASSUME TypeInv, NEW e \in Endpoint, InputPush(e)
  PROVE  TypeInv'
<1> DEFINE s == Head(input[e])
           buf == ParseUna(snd_buf[e], s.una)
<1>1. input[e] # <<>> /\ InputSegment(e, buf)
  BY DEF InputPush, NextIs
<1>2. s \in Segment /\ s.sn \in Nat
  BY <1>1, HeadType
<1>3. snd_buf[e] \in SUBSET SendSegment /\ IsFiniteSet(snd_buf[e])
  BY DEF TypeInv, TypeOK, SndBufFinite
<1>4. buf \in SUBSET SendSegment /\ IsFiniteSet(buf)
  BY <1>3, ParseUnaType
<1>5. acklist' \in [Endpoint -> Seq(Nat)]
  <2>1. acklist' = acklist \/ acklist' = [acklist EXCEPT ![e] = Append(@, s.sn)]
    BY DEF InputPush
  <2>2. Append(acklist[e], s.sn) \in Seq(Nat)
    BY <1>2 DEF TypeInv, TypeOK
  <2> HIDE DEF s
  <2>3. QED
    BY <2>1, <2>2 DEF TypeInv, TypeOK
<1>6. /\ rcv_nxt' \in [Endpoint -> Nat]
      /\ rcv_buf' \in [Endpoint -> SUBSET RecvSegment]
      /\ rcv_queue' \in [Endpoint -> Seq(Fragment)]
  <2>1. CASE UNCHANGED recvVars
    BY <2>1 DEF recvVars, TypeInv, TypeOK
  <2>2. CASE MoveAvailable(e, ParseData(e, s), rcv_queue[e])
    <3>1. ParseData(e, s) \in SUBSET RecvSegment /\ rcv_queue[e] \in Seq(Fragment)
      BY <1>2, ParseDataType DEF TypeInv, TypeOK
    <3>2. QED
      BY <2>2, <3>1, MoveAvailableType DEF TypeInv
  <2>3. QED
    BY <2>1, <2>2 DEF InputPush
<1> HIDE DEF buf
<1>7. probe' = probe
  BY DEF InputPush
<1>8. QED
  BY <1>1, <1>4, <1>5, <1>6, <1>7, InputSegmentType DEF TypeInv, TypeOK

LEMMA InputProbeType ==
  ASSUME TypeInv, NEW e \in Endpoint, InputWask(e) \/ InputWins(e)
  PROVE  TypeInv'
<1> DEFINE buf == ParseUna(snd_buf[e], Head(input[e]).una)
<1>1. input[e] # <<>> /\ InputSegment(e, buf)
  BY DEF InputWask, InputWins, NextIs
<1>2. snd_buf[e] \in SUBSET SendSegment /\ IsFiniteSet(snd_buf[e])
  BY DEF TypeInv, TypeOK, SndBufFinite
<1>3. buf \in SUBSET SendSegment /\ IsFiniteSet(buf)
  BY <1>2, ParseUnaType
<1> HIDE DEF buf
<1>4. /\ UNCHANGED <<rcv_nxt, rcv_buf, rcv_queue, acklist>>
      /\ probe' \in [Endpoint -> BOOLEAN]
  BY DEF InputWask, InputWins, recvVars, TypeInv, TypeOK
<1>5. QED
  BY <1>1, <1>3, <1>4, InputSegmentType DEF TypeInv, TypeOK

LEMMA InputForeignType ==
  ASSUME TypeInv, NEW e \in Endpoint, InputForeign(e)
  PROVE  TypeInv'
<1>1. input' \in [Endpoint -> Seq(Segment)] /\ input_una' \in [Endpoint -> Nat]
  BY DEF InputForeign, TypeInv, TypeOK
<1>2. QED
  BY <1>1 DEF InputForeign, TypeInv, TypeOK, SndBufFinite, sendVars, recvVars,
              history

(* The segments that a flush of e may encode when it sends those of q. *)
Encodable(e, q) ==
  {x \in Segment :
     /\ x.una = rcv_nxt[e]
     /\ x.cmd = "ACK" => \E i \in 1..Len(acklist[e]) : x.sn = acklist[e][i]
     /\ x.cmd = "PUSH" => \E i \in DOMAIN q : x.sn = q[i].sn /\ x.frag = q[i].frag}

LEMMA FlushedFacts ==
  ASSUME TypeInv, NEW e \in Endpoint, NEW ask \in BOOLEAN,
         NEW q \in Seq(SendSegment)
  PROVE  Flushed(e, ask, q) \in Seq(Encodable(e, q))
<1> DEFINE T == Encodable(e, q)
<1>1. /\ Advertised(e) \in Nat
      /\ rcv_nxt[e] \in Nat
      /\ NoFragment \in Fragment
      /\ acklist[e] \in Seq(Nat)
  <2>1. Unused(e) \in Nat
    BY WindowAssumption DEF TypeInv, TypeOK, Unused, Max2
  <2>2. NoFragment \in Fragment
    BY MssFacts DEF NoFragment, Fragment
  <2>3. QED
    BY <2>1, <2>2 DEF Advertised, TypeInv, TypeOK
<1>2. ASSUME NEW cmd \in Command, NEW sn \in Nat, NEW frag \in Fragment,
             cmd = "ACK" => \E i \in 1..Len(acklist[e]) : sn = acklist[e][i],
             cmd = "PUSH" => \E i \in DOMAIN q : sn = q[i].sn /\ frag = q[i].frag
      PROVE  Outgoing(e, cmd, sn, frag) \in T
  <2>1. Outgoing(e, cmd, sn, frag) \in Segment
    BY <1>1 DEF Outgoing, Segment
  <2>2. QED
    BY <1>2, <2>1 DEF Outgoing, Encodable
<1> HIDE DEF T
<1>3. Acks(e) \in Seq(T)
  <2>1. ASSUME NEW i \in 1..Len(acklist[e])
        PROVE  Outgoing(e, "ACK", acklist[e][i], NoFragment) \in T
    <3>1. acklist[e][i] \in Nat /\ "ACK" \in Command /\ "ACK" # "PUSH"
      BY <1>1 DEF Command
    <3>2. QED
      BY <1>1, <1>2, <3>1
  <2>2. Len(acklist[e]) \in Nat
    BY <1>1
  <2>3. QED
    BY <2>1, <2>2 DEF Acks
<1>4. Probes(e, ask) \in Seq(T)
  <2>1. /\ Outgoing(e, "WASK", 0, NoFragment) \in T
        /\ Outgoing(e, "WINS", 0, NoFragment) \in T
    BY <1>1, <1>2 DEF Command
  <2>2. QED
    BY <2>1 DEF Probes
<1>5. Pushes(e, q) \in Seq(T)
  <2>1. \A i \in 1..Len(q) : q[i] \in SendSegment
    OBVIOUS
  <2>2. \A i \in 1..Len(q) : Outgoing(e, "PUSH", q[i].sn, q[i].frag) \in T
    BY <1>2, <2>1 DEF Command, SendSegment
  <2>3. QED
    BY <2>2 DEF Pushes
<1>6. Acks(e) \o Probes(e, ask) \in Seq(T)
  BY <1>3, <1>4
<1>7. Flushed(e, ask, q) \in Seq(T)
  BY <1>5, <1>6 DEF Flushed
<1>8. QED
  BY <1>7 DEF T

(* The fragments that the window lets leave snd_queue. *)
LEMMA NumberedFacts ==
  ASSUME TypeInv, NEW e \in Endpoint
  PROVE  /\ NumberedCount(e) \in Nat
         /\ NumberedCount(e) <= Len(snd_queue[e])
         /\ Numbered(e) \in SUBSET SendSegment
         /\ IsFiniteSet(Numbered(e))
<1>1. /\ snd_queue[e] \in Seq(Fragment) /\ Len(snd_queue[e]) \in Nat
      /\ snd_una[e] \in Nat /\ snd_nxt[e] \in Nat
  BY DEF TypeInv, TypeOK
<1>2. SendWindow(e) \in Nat
  BY WindowAssumption DEF SendWindow, Min2, TypeInv, TypeOK, Congestion
<1>3. NumberedCount(e) \in Nat /\ NumberedCount(e) <= Len(snd_queue[e])
  BY <1>1, <1>2 DEF NumberedCount, Min2, Max2
<1> DEFINE f == [i \in 1..NumberedCount(e) |->
                   [sn |-> snd_nxt[e] + i - 1, frag |-> snd_queue[e][i],
                    xmit |-> 0, fastack |-> 0]]
<1>4. \A i \in 1..NumberedCount(e) : f[i] \in SendSegment
  BY <1>1, <1>3 DEF SendSegment
<1>5. Numbered(e) = {f[i] : i \in 1..NumberedCount(e)}
  BY DEF Numbered
<1> HIDE DEF f
<1>6. IsFiniteSet(1..NumberedCount(e))
  BY <1>3, FS_Interval
<1>7. IsFiniteSet({f[i] : i \in 1..NumberedCount(e)})
  BY <1>6, ImageFinite
<1>8. QED
  BY <1>3, <1>4, <1>5, <1>7

(* A flush of e gives the network the datagrams of sending, made of the     *)
(* segments of q and of acknowledgements and probes.                        *)
Sends(e, q, sending) ==
  /\ q \in Seq(SendSegment)
  /\ \A i \in DOMAIN q : q[i] \in snd_buf[e] \cup Numbered(e)
  /\ sending \in SUBSET Seq(Encodable(e, q))
  /\ net' = [net EXCEPT ![Peer(e)] = @ \cup sending]

LEMMA UpdateFacts ==
  ASSUME TypeInv, NEW e \in Endpoint, NEW due \in DueSets(e),
         NEW ask \in ProbeDue(e), NEW lossless, Update(e, due, ask, lossless)
  PROVE  LET buf == snd_buf[e] \cup Numbered(e) IN
         /\ buf \in SUBSET SendSegment
         /\ IsFiniteSet(buf)
         /\ \E q, sending : Sends(e, q, sending)
<1> DEFINE buf == snd_buf[e] \cup Numbered(e)
           resend == {s \in buf : NeedsSend(s, due)}
<1>1. buf \in SUBSET SendSegment /\ IsFiniteSet(buf)
  BY NumberedFacts, FS_Union DEF TypeInv, TypeOK, SndBufFinite
<1>2. PICK q \in InOrder(resend) :
        Transmit(e, Datagrams(Flushed(e, ask, q)), lossless)
  BY DEF Update
<1> HIDE DEF buf
<1>3. IsFiniteSet(resend)
  BY <1>1, FS_Subset
<1>4. Cardinality(resend) \in Nat
  BY <1>3, FS_CardinalityType
<1>5. q \in [1..Cardinality(resend) -> resend]
  BY <1>2 DEF InOrder
<1>6. q \in Seq(SendSegment) /\ \A i \in DOMAIN q : q[i] \in buf
  <2>1. resend \in SUBSET buf
    OBVIOUS
  <2> HIDE DEF resend
  <2>2. q \in Seq(resend)
    BY <1>4, <1>5
  <2>3. \A i \in DOMAIN q : q[i] \in resend
    BY <1>5
  <2>4. q \in [1..Cardinality(resend) -> SendSegment]
    BY <1>1, <1>5, <2>1
  <2>5. QED
    BY <1>4, <2>1, <2>3, <2>4
<1>7. ask \in BOOLEAN
  BY DEF ProbeDue
<1>8. Flushed(e, ask, q) \in Seq(Encodable(e, q))
  BY <1>6, <1>7, FlushedFacts
<1>9. Datagrams(Flushed(e, ask, q)) \in SUBSET Seq(Encodable(e, q))
  BY <1>8, DatagramsFacts
<1>10. PICK lost \in SUBSET Datagrams(Flushed(e, ask, q)) :
         net' = [net EXCEPT ![Peer(e)] =
                   @ \cup (Datagrams(Flushed(e, ask, q)) \ lost)]
  BY <1>2 DEF Transmit
<1>11. Sends(e, q, Datagrams(Flushed(e, ask, q)) \ lost)
  BY <1>6, <1>9, <1>10 DEF Sends, buf
<1>12. QED
  BY <1>1, <1>11 DEF buf

LEMMA UpdateType ==
  ASSUME TypeInv, NEW e \in Endpoint, NEW due \in DueSets(e),
         NEW ask \in ProbeDue(e), NEW lossless, Update(e, due, ask, lossless)
  PROVE  TypeInv'
<1> DEFINE buf == snd_buf[e] \cup Numbered(e)
           moved == NumberedCount(e)
           f == [s \in buf |-> Transmitted(s, due)]
<1>1. buf \in SUBSET SendSegment /\ IsFiniteSet(buf)
  BY UpdateFacts
<1>2. moved \in Nat /\ moved <= Len(snd_queue[e])
  BY NumberedFacts
<1>3. net' \in [Endpoint -> SUBSET Seq(Segment)]
  <2>1. PICK q, sending : Sends(e, q, sending)
    BY UpdateFacts
  <2>2. sending \in SUBSET Seq(Segment)
    <3>1. Encodable(e, q) \in SUBSET Segment
      BY DEF Encodable
    <3>2. QED
      BY <2>1, <3>1 DEF Sends
  <2>3. QED
    BY <2>1, <2>2, PeerFacts DEF Sends, TypeInv, TypeOK
<1>4. snd_buf' = [snd_buf EXCEPT ![e] = {f[s] : s \in buf}]
  BY DEF Update
<1>5. \A s \in buf : f[s] \in SendSegment
  BY <1>1, WindowAssumption DEF Transmitted, SendSegment, Min2
<1> HIDE DEF f, buf
<1>6. IsFiniteSet({f[s] : s \in buf})
  BY <1>1, ImageFinite
<1> DEFINE after == {f[s] : s \in buf}
<1>7. /\ snd_buf' \in [Endpoint -> SUBSET SendSegment]
      /\ SndBufFinite'
  <2>1. after \in SUBSET SendSegment /\ IsFiniteSet(after)
    BY <1>5, <1>6
  <2>2. snd_buf' = [snd_buf EXCEPT ![e] = after]
    BY <1>4
  <2> HIDE DEF after
  <2>3. QED
    BY <2>1, <2>2 DEF TypeInv, TypeOK, SndBufFinite
<1>8. /\ snd_queue' \in [Endpoint -> Seq(Fragment)]
      /\ snd_nxt' \in [Endpoint -> Nat]
  <2>1. SubSeq(snd_queue[e], moved + 1, Len(snd_queue[e])) \in Seq(Fragment)
    BY <1>2 DEF TypeInv, TypeOK
  <2>2. snd_nxt[e] + moved \in Nat
    BY <1>2 DEF TypeInv, TypeOK
  <2>3. /\ snd_queue' = [snd_queue EXCEPT ![e] =
                           SubSeq(snd_queue[e], moved + 1, Len(snd_queue[e]))]
        /\ snd_nxt' = [snd_nxt EXCEPT ![e] = snd_nxt[e] + moved]
    BY DEF Update
  <2> HIDE DEF moved
  <2>4. QED
    BY <2>1, <2>2, <2>3 DEF TypeInv, TypeOK
<1>9. cong' \in [Endpoint -> Congestion]
  <2> DEFINE sending == {s \in snd_buf[e] \cup Numbered(e) : NeedsSend(s, due)}
             overtaken == \E s \in sending : Overtaken(s, due)
             expired == \E s \in sending : Expired(s, due)
             inflight == snd_nxt[e] + moved - snd_una[e]
             backed == BackOff(cong[e], overtaken, expired, inflight,
                              SendWindow(e))
  <2>1. inflight \in Int
    BY <1>2 DEF TypeInv, TypeOK
  <2>2. SendWindow(e) \in Int
    BY WindowAssumption DEF SendWindow, Min2, TypeInv, TypeOK, Congestion
  <2>3. cong[e] \in Congestion
    BY DEF TypeInv, TypeOK
  <2>4. overtaken \in BOOLEAN /\ expired \in BOOLEAN
    OBVIOUS
  <2>5. cong' = [cong EXCEPT ![e] = backed]
    BY DEF Update
  <2> HIDE DEF overtaken, expired, inflight
  <2>6. backed \in Congestion
    BY <2>1, <2>2, <2>3, <2>4, BackOffType
  <2> HIDE DEF backed
  <2>7. QED
    BY <2>5, <2>6 DEF TypeInv, TypeOK
<1>10. /\ acklist' \in [Endpoint -> Seq(Nat)]
       /\ probe' \in [Endpoint -> BOOLEAN]
       /\ probe_wait' \in [Endpoint -> BOOLEAN]
       /\ dead' \in [Endpoint -> BOOLEAN]
  BY DEF Update, TypeInv, TypeOK
<1>11. UNCHANGED <<snd_una, rcv_nxt, rcv_buf, rcv_queue, rmt_wnd, input,
                   input_una, sent, stream, delivered>>
  BY DEF Update, recvVars, inputVars, history
<1>12. QED
  BY <1>3, <1>7, <1>8, <1>9, <1>10, <1>11 DEF TypeInv, TypeOK

LEMMA NextType == TypeInv /\ [Next]_vars => TypeInv'
<1> SUFFICES ASSUME TypeInv, [Next]_vars PROVE TypeInv'
  OBVIOUS
<1>1. ASSUME NEW e \in Endpoint, NEW size \in MessageSizes, Send(e, size)
      PROVE  TypeInv'
  BY <1>1, SendType
<1>2. ASSUME NEW e \in Endpoint, Recv(e)
      PROVE  TypeInv'
  BY <1>2, RecvType
<1>3. ASSUME NEW e \in Endpoint, NEW d \in net[e], Receive(e, d)
      PROVE  TypeInv'
  BY <1>3, ReceiveType
<1>4. ASSUME NEW e \in Endpoint, InputAck(e)
      PROVE  TypeInv'
  BY <1>4, InputAckType
<1>5. ASSUME NEW e \in Endpoint, InputPush(e)
      PROVE  TypeInv'
  BY <1>5, InputPushType
<1>6. ASSUME NEW e \in Endpoint, InputWask(e) \/ InputWins(e)
      PROVE  TypeInv'
  BY <1>6, InputProbeType
<1>7. ASSUME NEW e \in Endpoint, NEW due \in DueSets(e), NEW ask \in ProbeDue(e),
             Update(e, due, ask, FALSE)
      PROVE  TypeInv'
  BY <1>7, UpdateType
<1>8. ASSUME NEW e \in Endpoint, InputForeign(e)
      PROVE  TypeInv'
  BY <1>8, InputForeignType
<1>9. CASE UNCHANGED vars
  BY <1>9 DEF vars, TypeInv, TypeOK, SndBufFinite
<1>10. QED
  BY <1>1, <1>2, <1>3, <1>4, <1>5, <1>6, <1>7, <1>8, <1>9 DEF Next

(* Every variable keeps its type: in particular no window computation of    *)
(* ikcp_flush or ikcp_input goes below zero.                                *)
THEOREM TypeCorrect == Spec => []TypeOK
<1>1. Spec => []TypeInv
  BY InitType, NextType, PTL DEF Spec
<1>2. TypeInv => TypeOK
  BY DEF TypeInv
<1>3. QED
  BY <1>1, <1>2, PTL

(***************************************************************************)
(* NothingDropped and BuffersBounded.  AckInv and WindowInv, which make the *)
(* two inductive, do not mention the contents of the messages.              *)
(***************************************************************************)

SafeInv == AckInv /\ WindowInv

LEMMA InitSafe == Init => SafeInv
<1> SUFFICES ASSUME Init PROVE SafeInv
  OBVIOUS
<1>1. AckInv
  BY DEF Init, AckInv, AcksTrue, NothingDropped
<1>2. WindowInv
  BY WindowAssumption DEF Init, WindowInv, BuffersBounded
<1>3. QED
  BY <1>1, <1>2 DEF SafeInv

(* What has reached an endpoint stays reached. *)
ReceivedKept ==
  \A e \in Endpoint :
    /\ rcv_nxt[e] <= rcv_nxt'[e]
    /\ \A sn \in Nat : Received(e, sn) => Received(e, sn)'

(* The windows of a receiver, from BuffersBounded. *)
ReceiverBounded ==
  \A e \in Endpoint :
    /\ Len(rcv_queue[e]) <= RcvWnd
    /\ \A s \in rcv_buf[e] : s.sn \in rcv_nxt[e]..rcv_nxt[e] + RcvWnd - 1

LEMMA MoveAvailableKeeps ==
  ASSUME TypeOK, ReceiverBounded, NEW e \in Endpoint,
         NEW buf \in SUBSET RecvSegment, rcv_buf[e] \subseteq buf,
         \A s \in buf : s.sn \in rcv_nxt[e]..rcv_nxt[e] + RcvWnd - 1,
         NEW queue \in Seq(Fragment), Len(queue) <= RcvWnd,
         MoveAvailable(e, buf, queue)
  PROVE  /\ ReceivedKept
         /\ ReceiverBounded'
         /\ \A s \in buf : Received(e, s.sn)'
<1>1. PICK n : Moves(e, buf, queue, n)
  BY MoveAvailableFacts
<1>2. /\ n \in Nat
      /\ n <= RcvWnd - Len(queue)
      /\ rcv_nxt'[e] = rcv_nxt[e] + n
      /\ rcv_buf'[e] = {s \in buf : s.sn >= rcv_nxt[e] + n}
      /\ Len(rcv_queue'[e]) = Len(queue) + n
  BY <1>1, WindowAssumption DEF Moves, Room, Max2, TypeOK
<1>3. \A x \in Endpoint : x # e => /\ rcv_nxt'[x] = rcv_nxt[x]
                                   /\ rcv_buf'[x] = rcv_buf[x]
                                   /\ rcv_queue'[x] = rcv_queue[x]
  BY <1>1 DEF Moves, TypeOK
<1>4. /\ rcv_nxt[e] \in Nat
      /\ RcvWnd \in Nat
      /\ \A s \in buf : s.sn \in Nat
      /\ \A x \in Endpoint : rcv_nxt[x] \in Nat
  BY WindowAssumption DEF TypeOK, RecvSegment
<1>5. \A s \in buf : Received(e, s.sn)'
  BY <1>2, <1>4 DEF Received
<1>6. ReceivedKept
  <2>1. ASSUME NEW x \in Endpoint, NEW sn \in Nat, Received(x, sn)
        PROVE  Received(x, sn)'
    <3>1. CASE x = e
      <4>1. CASE sn < rcv_nxt[e]
        BY <1>2, <1>4, <3>1, <4>1 DEF Received
      <4>2. CASE \E s \in rcv_buf[e] : s.sn = sn
        BY <1>5, <3>1, <4>2
      <4>3. QED
        BY <2>1, <3>1, <4>1, <4>2 DEF Received
    <3>2. CASE x # e
      BY <1>3, <2>1, <3>2 DEF Received
    <3>3. QED
      BY <3>1, <3>2
  <2>2. \A x \in Endpoint : rcv_nxt[x] <= rcv_nxt'[x]
    BY <1>2, <1>3, <1>4
  <2>3. QED
    BY <2>1, <2>2 DEF ReceivedKept
<1>7. ReceiverBounded'
  <2>1. Len(rcv_queue'[e]) <= RcvWnd
    BY <1>2, <1>4
  <2>2. \A s \in rcv_buf'[e] : s.sn \in rcv_nxt'[e]..rcv_nxt'[e] + RcvWnd - 1
    BY <1>2, <1>4
  <2>3. QED
    BY <1>3, <2>1, <2>2 DEF ReceiverBounded
<1>8. QED
  BY <1>5, <1>6, <1>7

(* A step keeps SafeInv when what it sends and reads is true of the state   *)
(* before it, and it drops no segment that has not arrived.                 *)
LEMMA SafeStep ==
  ASSUME TypeInv, TypeInv', SafeInv, ReceivedKept, ReceiverBounded',
         (\A e \in Endpoint : \A i \in 1..Len(acklist[e]) :
            Received(e, acklist[e][i]))',
         \A e \in Endpoint : \A d \in net'[e] : AcksTrue(e, d),
         \A e \in Endpoint : AcksTrue(e, input'[e]),
         \A e \in Endpoint :
           /\ snd_nxt'[e] - snd_una'[e] \in 0..SndWnd
           /\ \A s \in snd_buf'[e] : s.sn \in snd_una'[e]..snd_nxt'[e] - 1
           /\ \A sn \in 0..snd_nxt'[e]-1 :
                (\E s \in snd_buf'[e] : s.sn = sn) \/ Received(Peer(e), sn)
  PROVE  SafeInv'
<1>1. \A e \in Endpoint : \A segs \in Seq(Segment) :
        AcksTrue(e, segs) => AcksTrue(e, segs)'
  <2> SUFFICES ASSUME NEW e \in Endpoint, NEW segs \in Seq(Segment),
                      AcksTrue(e, segs)
               PROVE  AcksTrue(e, segs)'
    OBVIOUS
  <2>1. Peer(e) \in Endpoint
    BY PeerFacts
  <2>2. rcv_nxt[Peer(e)] \in Nat /\ rcv_nxt'[Peer(e)] \in Nat
    BY <2>1 DEF TypeInv, TypeOK
  <2>3. ASSUME NEW i \in 1..Len(segs)
        PROVE  /\ segs[i].una <= rcv_nxt'[Peer(e)]
               /\ segs[i].cmd = "ACK" => Received(Peer(e), segs[i].sn)'
    <3>1. segs[i].una \in Nat /\ segs[i].sn \in Nat
      <4>1. segs[i] \in Segment
        OBVIOUS
      <4>2. QED
        BY <4>1 DEF Segment
    <3>2. /\ segs[i].una <= rcv_nxt[Peer(e)]
          /\ segs[i].cmd = "ACK" => Received(Peer(e), segs[i].sn)
      BY DEF AcksTrue
    <3>3. QED
      BY <2>1, <2>2, <3>1, <3>2 DEF ReceivedKept
  <2>4. QED
    BY <2>3 DEF AcksTrue
<1>2. \A e \in Endpoint : \A d \in net'[e] : AcksTrue(e, d)'
  <2>1. \A e \in Endpoint : \A d \in net'[e] : d \in Seq(Segment)
    BY DEF TypeInv, TypeOK
  <2>2. QED
    BY <1>1, <2>1
<1>3. \A e \in Endpoint : AcksTrue(e, input[e])'
  <2>1. \A e \in Endpoint : input'[e] \in Seq(Segment)
    BY DEF TypeInv, TypeOK
  <2>2. QED
    BY <1>1, <2>1 DEF AcksTrue
<1>4. NothingDropped'
  <2>1. \A e \in Endpoint : Peer(e) \in Endpoint /\ snd_nxt'[e] \in Nat
    BY PeerFacts DEF TypeInv, TypeOK
  <2>2. \A e \in Endpoint : \A sn \in 0..snd_nxt'[e]-1 :
          (\E s \in snd_buf'[e] : s.sn = sn) \/ Received(Peer(e), sn)'
    BY <2>1 DEF ReceivedKept
  <2>3. QED
    BY <2>2 DEF NothingDropped
<1>5. AckInv'
  BY <1>2, <1>3, <1>4 DEF AckInv
<1>6. WindowInv'
  BY DEF WindowInv, BuffersBounded, ReceiverBounded
<1>7. QED
  BY <1>5, <1>6 DEF SafeInv
(* The part of WindowInv and NothingDropped that is about the sender. *)
SenderSafe(e) ==
  /\ snd_nxt[e] - snd_una[e] \in 0..SndWnd
  /\ \A s \in snd_buf[e] : s.sn \in snd_una[e]..snd_nxt[e] - 1
  /\ \A sn \in 0..snd_nxt[e]-1 :
       (\E s \in snd_buf[e] : s.sn = sn) \/ Received(Peer(e), sn)

LEMMA SafeFacts ==
  ASSUME SafeInv
  PROVE  /\ ReceiverBounded
         /\ \A e \in Endpoint :
              /\ SenderSafe(e)
              /\ \A d \in net[e] : AcksTrue(e, d)
              /\ AcksTrue(e, input[e])
              /\ \A i \in 1..Len(acklist[e]) : Received(e, acklist[e][i])
BY DEF SafeInv, AckInv, WindowInv, BuffersBounded, NothingDropped,
       ReceiverBounded, SenderSafe

(* A step that leaves the receivers alone. *)
LEMMA ReceiversUnchanged ==
  ASSUME TypeOK, SafeInv, UNCHANGED <<rcv_nxt, rcv_buf, rcv_queue>>
  PROVE  ReceivedKept /\ ReceiverBounded'
BY SafeFacts DEF TypeOK, ReceivedKept, Received, ReceiverBounded

(* A step that leaves the senders alone. *)
LEMMA SendersUnchanged ==
  ASSUME SafeInv, UNCHANGED <<snd_una, snd_nxt, snd_buf>>
  PROVE  \A e \in Endpoint :
           /\ snd_nxt'[e] - snd_una'[e] \in 0..SndWnd
           /\ \A s \in snd_buf'[e] : s.sn \in snd_una'[e]..snd_nxt'[e] - 1
           /\ \A sn \in 0..snd_nxt'[e]-1 :
                (\E s \in snd_buf'[e] : s.sn = sn) \/ Received(Peer(e), sn)
BY SafeFacts DEF SenderSafe

LEMMA SendSafe ==
  ASSUME TypeInv, TypeInv', SafeInv, NEW e \in Endpoint,
         NEW size \in MessageSizes, Send(e, size)
  PROVE  SafeInv'
<1>1. UNCHANGED <<snd_buf, snd_una, snd_nxt, rcv_nxt, rcv_buf, rcv_queue,
                  acklist, net, input>>
  BY DEF Send, recvVars, inputVars
<1>2. ReceivedKept /\ ReceiverBounded'
  BY <1>1, ReceiversUnchanged DEF TypeInv
<1>3. \A x \in Endpoint :
        /\ \A d \in net'[x] : AcksTrue(x, d)
        /\ AcksTrue(x, input'[x])
  BY <1>1, SafeFacts
<1>4. \A x \in Endpoint : (\A i \in 1..Len(acklist[x]) :
                             Received(x, acklist[x][i]))'
  BY <1>1, SafeFacts DEF Received
<1>5. QED
  BY <1>1, <1>2, <1>3, <1>4, SendersUnchanged, SafeStep

LEMMA RecvSafe ==
  ASSUME TypeInv, TypeInv', SafeInv, NEW e \in Endpoint, Recv(e)
  PROVE  SafeInv'
<1> DEFINE queue == rcv_queue[e]
<1>1. PICK n \in 1..Len(queue) :
        MoveAvailable(e, rcv_buf[e], SubSeq(queue, n + 1, Len(queue)))
  BY DEF Recv
<1>2. queue \in Seq(Fragment) /\ rcv_buf[e] \in SUBSET RecvSegment
  BY DEF TypeInv, TypeOK
<1>3. /\ Len(queue) <= RcvWnd
      /\ \A s \in rcv_buf[e] : s.sn \in rcv_nxt[e]..rcv_nxt[e] + RcvWnd - 1
  BY SafeFacts DEF ReceiverBounded
<1>4. /\ SubSeq(queue, n + 1, Len(queue)) \in Seq(Fragment)
      /\ Len(SubSeq(queue, n + 1, Len(queue))) <= RcvWnd
  BY <1>2, <1>3, WindowAssumption
<1>5. ReceivedKept /\ ReceiverBounded'
  BY <1>1, <1>2, <1>3, <1>4, SafeFacts, MoveAvailableKeeps DEF TypeInv
<1>6. UNCHANGED <<snd_buf, snd_una, snd_nxt, acklist, net, input>>
  BY DEF Recv, sendVars, inputVars
<1>7. \A x \in Endpoint :
        /\ \A d \in net'[x] : AcksTrue(x, d)
        /\ AcksTrue(x, input'[x])
  BY <1>6, SafeFacts
<1>8. \A x \in Endpoint : (\A i \in 1..Len(acklist[x]) :
                             Received(x, acklist[x][i]))'
  <2>1. \A x \in Endpoint : \A i \in 1..Len(acklist[x]) : acklist[x][i] \in Nat
    <3>1. \A x \in Endpoint : acklist[x] \in Seq(Nat)
      BY DEF TypeInv, TypeOK
    <3>2. QED
      BY <3>1
  <2>2. \A x \in Endpoint : \A i \in 1..Len(acklist[x]) :
          /\ Received(x, acklist[x][i])
          /\ \A sn \in Nat : Received(x, sn) => Received(x, sn)'
    BY <1>5, SafeFacts DEF ReceivedKept
  <2>3. \A x \in Endpoint : \A i \in 1..Len(acklist[x]) :
          acklist[x][i] < rcv_nxt'[x] \/ \E s \in rcv_buf'[x] : s.sn = acklist[x][i]
    BY <2>1, <2>2 DEF Received
  <2>4. QED
    BY <1>6, <2>3 DEF Received
<1>9. QED
  BY <1>5, <1>6, <1>7, <1>8, SendersUnchanged, SafeStep

(* A foreign segment acknowledges nothing. *)
LEMMA ForeignTrue ==
  ASSUME TypeInv, NEW e \in Endpoint, NEW d \in net[e], AcksTrue(e, d),
         NEW rest \in Behind
  PROVE  AcksTrue(e, d \o rest)
<1>1. d \in Seq(Segment) /\ rcv_nxt[Peer(e)] \in Nat
  BY PeerFacts DEF TypeInv, TypeOK
<1>2. Foreign.una = 0 /\ Foreign.cmd # "ACK"
  BY DEF Foreign
<1>3. \A i \in 1..Len(d \o rest) :
        IF i \in 1..Len(d) THEN (d \o rest)[i] = d[i]
        ELSE (d \o rest)[i] = Foreign
  BY <1>1, BehindFacts
<1>4. QED
  BY <1>1, <1>2, <1>3 DEF AcksTrue

LEMMA ReceiveSafe ==
  ASSUME TypeInv, TypeInv', SafeInv, NEW e \in Endpoint, NEW d \in net[e],
         Receive(e, d)
  PROVE  SafeInv'
<1>1. UNCHANGED <<snd_buf, snd_una, snd_nxt, rcv_nxt, rcv_buf, rcv_queue,
                  acklist>>
  BY DEF Receive, sendVars, recvVars
<1>2. ReceivedKept /\ ReceiverBounded'
  BY <1>1, ReceiversUnchanged DEF TypeInv
<1>3. \A x \in Endpoint : net'[x] \subseteq net[x]
  <2>1. net' = net \/ net' = [net EXCEPT ![e] = net[e] \ {d}]
    BY DEF Receive
  <2>2. net \in [Endpoint -> SUBSET Seq(Segment)]
    BY DEF TypeInv, TypeOK
  <2>3. ASSUME NEW x \in Endpoint, NEW g \in net'[x]
        PROVE  g \in net[x]
    BY <2>1, <2>2
  <2>4. QED
    BY <2>3
<1>4. \A x \in Endpoint : AcksTrue(x, input'[x])
  <2>1. PICK rest \in Behind : input' = [input EXCEPT ![e] = d \o rest]
    BY DEF Receive
  <2>2. AcksTrue(e, d \o rest)
    BY SafeFacts, ForeignTrue
  <2>3. \A x \in Endpoint :
          input'[x] = input[x] \/ (x = e /\ input'[x] = d \o rest)
    BY <2>1 DEF TypeInv, TypeOK
  <2>4. QED
    BY <2>2, <2>3, SafeFacts
<1>5. \A x \in Endpoint :
        /\ \A g \in net'[x] : AcksTrue(x, g)
        /\ AcksTrue(x, input'[x])
  BY <1>3, <1>4, SafeFacts
<1>6. \A x \in Endpoint : (\A i \in 1..Len(acklist[x]) :
                             Received(x, acklist[x][i]))'
  BY <1>1, SafeFacts DEF Received
<1>7. QED
  BY <1>1, <1>2, <1>5, <1>6, SendersUnchanged, SafeStep

(* ikcp_parse_una drops nothing that is not before una. *)
LEMMA ParseUnaKeeps ==
  ASSUME NEW buf \in SUBSET SendSegment, NEW una \in Nat
  PROVE  \A t \in buf : t.sn < una \/ t \in ParseUna(buf, una)
BY DEF ParseUna, SendSegment

(* ikcp_parse_ack drops no segment but sn. *)
LEMMA ParseAckKeeps ==
  ASSUME NEW buf \in SUBSET SendSegment, NEW sn \in Nat, NEW nxt \in Nat
  PROVE  /\ \A s \in ParseAck(buf, sn, nxt) : \E t \in buf : t.sn = s.sn
         /\ \A t \in buf : t.sn # sn =>
              \E s \in ParseAck(buf, sn, nxt) : s.sn = t.sn
<1> DEFINE Skipped(s) == [s EXCEPT !.fastack = Min2(@ + 1, FastResend)]
           found == \E s \in buf : s.sn = sn
           f == [s \in buf |-> IF found /\ s.sn > sn THEN s ELSE Skipped(s)]
<1>1. \A s \in buf : f[s].sn = s.sn
  BY DEF SendSegment
<1>2. \/ ParseAck(buf, sn, nxt) = buf
      \/ ParseAck(buf, sn, nxt) = {f[s] : s \in {t \in buf : t.sn # sn}}
  BY DEF ParseAck
<1> HIDE DEF f
<1>3. QED
  BY <1>1, <1>2

(* What ikcp_input does for a segment leaves the sender safe when buf, what *)
(* it leaves of snd_buf, lacks only segments that have arrived.             *)
LEMMA InputSegmentKeeps ==
  ASSUME TypeInv, SafeInv, NEW e \in Endpoint, input[e] # <<>>,
         NEW buf \in SUBSET SendSegment, InputSegment(e, buf),
         \A s \in buf : \E t \in snd_buf[e] : t.sn = s.sn,
         \A t \in snd_buf[e] : (\E s \in buf : s.sn = t.sn)
                               \/ Received(Peer(e), t.sn)
  PROVE  /\ \A x \in Endpoint : AcksTrue(x, input'[x])
         /\ \A x \in Endpoint :
              /\ snd_nxt'[x] - snd_una'[x] \in 0..SndWnd
              /\ \A s \in snd_buf'[x] : s.sn \in snd_una'[x]..snd_nxt'[x] - 1
              /\ \A sn \in 0..snd_nxt'[x]-1 :
                   (\E s \in snd_buf'[x] : s.sn = sn) \/ Received(Peer(x), sn)
<1>1. PICK una \in {snd_nxt[e]} \cup {s.sn : s \in buf} :
        /\ FirstUnacked(buf, snd_nxt[e], una)
        /\ snd_una' = [snd_una EXCEPT ![e] = una]
  BY DEF InputSegment
<1>2. /\ snd_buf' = [snd_buf EXCEPT ![e] = buf]
      /\ snd_nxt' = snd_nxt
      /\ input' = [input EXCEPT ![e] = Tail(input[e])]
  BY DEF InputSegment
<1>3. \A x \in Endpoint : SenderSafe(x)
  BY SafeFacts
<1>4. /\ snd_una[e] \in Nat /\ snd_nxt[e] \in Nat
      /\ \A s \in snd_buf[e] : s.sn \in Nat
      /\ SndWnd \in Nat
  BY WindowAssumption DEF TypeInv, TypeOK, SendSegment
<1>5. \A s \in buf : s.sn \in snd_una[e]..snd_nxt[e]-1
  BY <1>3 DEF SenderSafe
<1>6. una \in snd_una[e]..snd_nxt[e] /\ \A s \in buf : s.sn >= una
  <2>1. CASE buf = {}
    BY <1>1, <1>3, <1>4, <2>1 DEF FirstUnacked, SenderSafe
  <2>2. CASE buf # {}
    BY <1>1, <1>4, <1>5, <2>2 DEF FirstUnacked
  <2>3. QED
    BY <2>1, <2>2
<1>7. \A sn \in 0..snd_nxt[e]-1 :
        (\E s \in buf : s.sn = sn) \/ Received(Peer(e), sn)
  BY <1>3 DEF SenderSafe
<1>8. ASSUME NEW x \in Endpoint
      PROVE  /\ snd_nxt'[x] - snd_una'[x] \in 0..SndWnd
             /\ \A s \in snd_buf'[x] : s.sn \in snd_una'[x]..snd_nxt'[x] - 1
             /\ \A sn \in 0..snd_nxt'[x]-1 :
                  (\E s \in snd_buf'[x] : s.sn = sn) \/ Received(Peer(x), sn)
  <2>1. CASE x = e
    <3>1. snd_nxt'[x] = snd_nxt[e] /\ snd_una'[x] = una /\ snd_buf'[x] = buf
      BY <1>1, <1>2, <2>1 DEF TypeInv, TypeOK
    <3>2. snd_nxt[e] - una \in 0..SndWnd
      BY <1>3, <1>4, <1>6 DEF SenderSafe
    <3>3. \A s \in buf : s.sn \in una..snd_nxt[e]-1
      BY <1>4, <1>5, <1>6
    <3>4. QED
      BY <1>7, <2>1, <3>1, <3>2, <3>3
  <2>2. CASE x # e
    <3>1. /\ snd_nxt'[x] = snd_nxt[x]
          /\ snd_una'[x] = snd_una[x]
          /\ snd_buf'[x] = snd_buf[x]
      BY <1>1, <1>2, <2>2 DEF TypeInv, TypeOK
    <3>2. QED
      BY <1>3, <3>1 DEF SenderSafe
  <2>3. QED
    BY <2>1, <2>2
<1>9. ASSUME NEW x \in Endpoint
      PROVE  AcksTrue(x, input'[x])
  <2>1. CASE x = e
    <3>1. input'[x] = Tail(input[e]) /\ input[e] \in Seq(Segment)
      BY <1>2, <2>1 DEF TypeInv, TypeOK
    <3>2. /\ Len(Tail(input[e])) = Len(input[e]) - 1
          /\ \A i \in 1..Len(Tail(input[e])) :
               Tail(input[e])[i] = input[e][i + 1]
      BY <3>1
    <3>3. Len(input[e]) \in Nat /\ AcksTrue(e, input[e])
      BY <3>1, SafeFacts
    <3>4. AcksTrue(e, Tail(input[e]))
      BY <3>2, <3>3 DEF AcksTrue
    <3>5. QED
      BY <2>1, <3>1, <3>4
  <2>2. CASE x # e
    BY <1>2, <2>2, SafeFacts DEF TypeInv, TypeOK
  <2>3. QED
    BY <2>1, <2>2
<1>10. QED
  BY <1>8, <1>9

(* The segment that is parsed is true. *)
LEMMA HeadTrue ==
  ASSUME TypeInv, SafeInv, NEW e \in Endpoint, input[e] # <<>>
  PROVE  /\ Head(input[e]).una \in Nat
         /\ Head(input[e]).sn \in Nat
         /\ Head(input[e]).una <= rcv_nxt[Peer(e)]
         /\ Head(input[e]).cmd = "ACK" => Received(Peer(e), Head(input[e]).sn)
<1>1. input[e] \in Seq(Segment) /\ Head(input[e]) = input[e][1] /\ Len(input[e]) >= 1
  BY DEF TypeInv, TypeOK
<1>2. AcksTrue(e, input[e])
  BY SafeFacts
<1>3. 1 \in 1..Len(input[e])
  BY <1>1
<1>4. Head(input[e]) \in Segment
  BY HeadType
<1>5. QED
  BY <1>1, <1>2, <1>3, <1>4 DEF AcksTrue, Segment

(* What ikcp_parse_una drops has arrived. *)
LEMMA UnaKeeps ==
  ASSUME TypeInv, SafeInv, NEW e \in Endpoint, input[e] # <<>>
  PROVE  LET buf == ParseUna(snd_buf[e], Head(input[e]).una) IN
         /\ buf \in SUBSET SendSegment
         /\ \A s \in buf : s \in snd_buf[e]
         /\ \A t \in snd_buf[e] : t \in buf \/ Received(Peer(e), t.sn)
<1>1. snd_buf[e] \in SUBSET SendSegment /\ rcv_nxt[Peer(e)] \in Nat
  BY PeerFacts DEF TypeInv, TypeOK
<1>2. \A t \in snd_buf[e] : t.sn \in Nat
  BY <1>1 DEF SendSegment
<1>3. \A t \in snd_buf[e] : t.sn < Head(input[e]).una
                            \/ t \in ParseUna(snd_buf[e], Head(input[e]).una)
  BY <1>1, HeadTrue, ParseUnaKeeps
<1>4. QED
  BY <1>1, <1>2, <1>3, HeadTrue DEF ParseUna, Received

(* The acknowledgements that wait stay true when nothing received is lost.  *)
LEMMA AcksKept ==
  ASSUME TypeInv, SafeInv, ReceivedKept, acklist' = acklist
  PROVE  \A x \in Endpoint : (\A i \in 1..Len(acklist[x]) :
                                Received(x, acklist[x][i]))'
<1>1. \A x \in Endpoint : acklist[x] \in Seq(Nat)
  BY DEF TypeInv, TypeOK
<1>2. \A x \in Endpoint : \A i \in 1..Len(acklist[x]) : acklist[x][i] \in Nat
  BY <1>1
<1>3. \A x \in Endpoint : \A i \in 1..Len(acklist[x]) :
        acklist[x][i] < rcv_nxt'[x] \/ \E s \in rcv_buf'[x] : s.sn = acklist[x][i]
  BY <1>2, SafeFacts DEF ReceivedKept, Received
<1>4. QED
  BY <1>3 DEF Received

LEMMA InputAckSafe ==
  ASSUME TypeInv, TypeInv', SafeInv, NEW e \in Endpoint, InputAck(e)
  PROVE  SafeInv'
<1> DEFINE h == Head(input[e])
           kept == ParseUna(snd_buf[e], h.una)
           buf == ParseAck(kept, h.sn, snd_nxt[e])
<1>1. input[e] # <<>> /\ h.cmd = "ACK" /\ InputSegment(e, buf)
  BY DEF InputAck, NextIs
<1>2. /\ h.sn \in Nat
      /\ snd_nxt[e] \in Nat
      /\ Received(Peer(e), h.sn)
  BY <1>1, HeadTrue DEF TypeInv, TypeOK
<1>3. /\ kept \in SUBSET SendSegment
      /\ \A s \in kept : s \in snd_buf[e]
      /\ \A t \in snd_buf[e] : t \in kept \/ Received(Peer(e), t.sn)
  BY <1>1, UnaKeeps
<1>4. IsFiniteSet(kept)
  BY ParseUnaType DEF TypeInv, TypeOK, SndBufFinite
<1> HIDE DEF kept, h
<1>5. buf \in SUBSET SendSegment
  BY <1>2, <1>3, <1>4, ParseAckType
<1>6. /\ \A s \in buf : \E t \in kept : t.sn = s.sn
      /\ \A t \in kept : t.sn # h.sn => \E s \in buf : s.sn = t.sn
  BY <1>2, <1>3, ParseAckKeeps
<1> HIDE DEF buf
<1>7. /\ \A s \in buf : \E t \in snd_buf[e] : t.sn = s.sn
      /\ \A t \in snd_buf[e] : (\E s \in buf : s.sn = t.sn)
                               \/ Received(Peer(e), t.sn)
  BY <1>2, <1>3, <1>6
<1>8. /\ \A x \in Endpoint : AcksTrue(x, input'[x])
      /\ \A x \in Endpoint :
           /\ snd_nxt'[x] - snd_una'[x] \in 0..SndWnd
           /\ \A s \in snd_buf'[x] : s.sn \in snd_una'[x]..snd_nxt'[x] - 1
           /\ \A sn \in 0..snd_nxt'[x]-1 :
                (\E s \in snd_buf'[x] : s.sn = sn) \/ Received(Peer(x), sn)
  BY <1>1, <1>5, <1>7, InputSegmentKeeps
<1>9. UNCHANGED <<rcv_nxt, rcv_buf, rcv_queue, acklist, net>>
  BY <1>1 DEF InputAck, InputSegment, recvVars
<1>10. ReceivedKept /\ ReceiverBounded'
  BY <1>9, ReceiversUnchanged DEF TypeInv
<1>11. \A x \in Endpoint : \A d \in net'[x] : AcksTrue(x, d)
  BY <1>9, SafeFacts
<1>12. QED
  BY <1>8, <1>9, <1>10, <1>11, AcksKept, SafeStep

LEMMA InputProbeSafe ==
  ASSUME TypeInv, TypeInv', SafeInv, NEW e \in Endpoint,
         InputWask(e) \/ InputWins(e)
  PROVE  SafeInv'
<1> DEFINE buf == ParseUna(snd_buf[e], Head(input[e]).una)
<1>1. input[e] # <<>> /\ InputSegment(e, buf)
  BY DEF InputWask, InputWins, NextIs
<1>2. /\ buf \in SUBSET SendSegment
      /\ \A s \in buf : \E t \in snd_buf[e] : t.sn = s.sn
      /\ \A t \in snd_buf[e] : (\E s \in buf : s.sn = t.sn)
                               \/ Received(Peer(e), t.sn)
  BY <1>1, UnaKeeps
<1> HIDE DEF buf
<1>3. UNCHANGED <<rcv_nxt, rcv_buf, rcv_queue, acklist, net>>
  BY <1>1 DEF InputWask, InputWins, InputSegment, recvVars
<1>4. ReceivedKept /\ ReceiverBounded'
  BY <1>3, ReceiversUnchanged DEF TypeInv
<1>5. \A x \in Endpoint : \A d \in net'[x] : AcksTrue(x, d)
  BY <1>3, SafeFacts
<1>6. QED
  BY <1>1, <1>2, <1>3, <1>4, <1>5, InputSegmentKeeps, AcksKept, SafeStep

LEMMA InputForeignSafe ==
  ASSUME TypeInv, TypeInv', SafeInv, NEW e \in Endpoint, InputForeign(e)
  PROVE  SafeInv'
<1>1. UNCHANGED <<snd_buf, snd_una, snd_nxt, rcv_nxt, rcv_buf, rcv_queue,
                  acklist, net>>
  BY DEF InputForeign, sendVars, recvVars
<1>2. ReceivedKept /\ ReceiverBounded'
  BY <1>1, ReceiversUnchanged DEF TypeInv
<1>3. \A x \in Endpoint : AcksTrue(x, input'[x])
  <2>1. \A x \in Endpoint : input'[x] = input[x] \/ input'[x] = <<>>
    BY DEF InputForeign, TypeInv, TypeOK
  <2>2. \A x \in Endpoint : AcksTrue(x, <<>>)
    BY DEF AcksTrue
  <2>3. QED
    BY <2>1, <2>2, SafeFacts
<1>4. \A x \in Endpoint : \A d \in net'[x] : AcksTrue(x, d)
  BY <1>1, SafeFacts
<1>5. QED
  BY <1>1, <1>2, <1>3, <1>4, SendersUnchanged, AcksKept, SafeStep

LEMMA InputPushSafe ==
  ASSUME TypeInv, TypeInv', SafeInv, NEW e \in Endpoint, InputPush(e)
  PROVE  SafeInv'
<1> DEFINE h == Head(input[e])
           buf == ParseUna(snd_buf[e], h.una)
<1>1. input[e] # <<>> /\ InputSegment(e, buf)
  BY DEF InputPush, NextIs
<1>2. /\ buf \in SUBSET SendSegment
      /\ \A s \in buf : \E t \in snd_buf[e] : t.sn = s.sn
      /\ \A t \in snd_buf[e] : (\E s \in buf : s.sn = t.sn)
                               \/ Received(Peer(e), t.sn)
  BY <1>1, UnaKeeps
<1> HIDE DEF buf
<1>3. net' = net
  BY <1>1 DEF InputSegment
<1>4. h \in Segment /\ h.sn \in Nat /\ rcv_nxt[e] \in Nat /\ RcvWnd \in Nat
  BY <1>1, HeadType, WindowAssumption DEF TypeInv, TypeOK
<1>5. /\ ReceivedKept
      /\ ReceiverBounded'
      /\ Acknowledges(e, h.sn) =>
           h.sn < rcv_nxt'[e] \/ \E r \in rcv_buf'[e] : r.sn = h.sn
  <2>1. CASE Acknowledges(e, h.sn) /\ h.sn >= rcv_nxt[e]
    <3>1. MoveAvailable(e, ParseData(e, h), rcv_queue[e])
      BY <2>1 DEF InputPush
    <3>2. /\ ParseData(e, h) \in SUBSET RecvSegment
          /\ rcv_queue[e] \in Seq(Fragment)
          /\ rcv_buf[e] \subseteq ParseData(e, h)
      BY <1>4, ParseDataType DEF TypeInv, TypeOK, ParseData
    <3>3. \A s \in ParseData(e, h) :
            s.sn \in rcv_nxt[e]..rcv_nxt[e] + RcvWnd - 1
      BY <1>4, <2>1, SafeFacts DEF ParseData, Acknowledges, ReceiverBounded
    <3>4. \E s \in ParseData(e, h) : s.sn = h.sn
      <4>1. [sn |-> h.sn, frag |-> h.frag].sn = h.sn
        OBVIOUS
      <4>2. QED
        BY <4>1 DEF ParseData
    <3>5. Len(rcv_queue[e]) <= RcvWnd
      BY SafeFacts DEF ReceiverBounded
    <3>6. /\ ReceivedKept
          /\ ReceiverBounded'
          /\ \A s \in ParseData(e, h) : Received(e, s.sn)'
      BY <3>1, <3>2, <3>3, <3>5, SafeFacts, MoveAvailableKeeps DEF TypeInv
    <3>7. \A s \in ParseData(e, h) :
            s.sn < rcv_nxt'[e] \/ \E r \in rcv_buf'[e] : r.sn = s.sn
      BY <3>6 DEF Received
    <3>8. h.sn < rcv_nxt'[e] \/ \E r \in rcv_buf'[e] : r.sn = h.sn
      BY <3>4, <3>7
    <3>9. QED
      BY <3>6, <3>8
  <2>2. CASE ~(Acknowledges(e, h.sn) /\ h.sn >= rcv_nxt[e])
    <3>1. UNCHANGED <<rcv_nxt, rcv_buf, rcv_queue>>
      BY <2>2 DEF InputPush, recvVars
    <3>2. ReceivedKept /\ ReceiverBounded'
      BY <3>1, ReceiversUnchanged DEF TypeInv
    <3>3. Acknowledges(e, h.sn) => h.sn < rcv_nxt'[e]
      BY <1>4, <2>2, <3>1
    <3>4. QED
      BY <3>2, <3>3
  <2>3. QED
    BY <2>1, <2>2
<1>6. \A x \in Endpoint : (\A i \in 1..Len(acklist[x]) :
                             Received(x, acklist[x][i]))'
  <2>1. CASE acklist' = acklist
    BY <1>5, <2>1, AcksKept
  <2>2. CASE acklist' # acklist
    <3>1. /\ acklist' = [acklist EXCEPT ![e] = Append(acklist[e], h.sn)]
          /\ Acknowledges(e, h.sn)
      BY <2>2 DEF InputPush
    <3>2. h.sn < rcv_nxt'[e] \/ \E r \in rcv_buf'[e] : r.sn = h.sn
      BY <1>5, <3>1
    <3> HIDE DEF h
    <3>3. ASSUME NEW x \in Endpoint, NEW i \in 1..Len(acklist'[x])
          PROVE  \/ acklist'[x][i] < rcv_nxt'[x]
                 \/ \E r \in rcv_buf'[x] : r.sn = acklist'[x][i]
      <4>1. acklist[x] \in Seq(Nat)
        BY DEF TypeInv, TypeOK
      <4>2. acklist'[x] = IF x = e THEN Append(acklist[x], h.sn) ELSE acklist[x]
        BY <3>1 DEF TypeInv, TypeOK
      <4>3. \/ i \in 1..Len(acklist[x]) /\ acklist'[x][i] = acklist[x][i]
            \/ x = e /\ acklist'[x][i] = h.sn
        BY <1>4, <4>1, <4>2
      <4>4. CASE i \in 1..Len(acklist[x]) /\ acklist'[x][i] = acklist[x][i]
        <5>1. acklist[x][i] \in Nat /\ Received(x, acklist[x][i])
          BY <4>1, <4>4, SafeFacts
        <5>2. QED
          BY <1>5, <4>4, <5>1 DEF ReceivedKept, Received
      <4>5. QED
        BY <3>2, <4>3, <4>4
    <3>4. QED
      BY <3>3 DEF Received
  <2>3. QED
    BY <2>1, <2>2
<1>7. \A x \in Endpoint : \A d \in net'[x] : AcksTrue(x, d)
  BY <1>3, SafeFacts
<1>8. QED
  BY <1>1, <1>2, <1>5, <1>6, <1>7, InputSegmentKeeps, SafeStep

(* ikcp_flush sends nothing that is not true, to the other end. *)
LEMMA FlushTrue ==
  ASSUME TypeInv, SafeInv, NEW e \in Endpoint, NEW due \in DueSets(e),
         NEW ask \in ProbeDue(e), NEW lossless, Update(e, due, ask, lossless)
  PROVE  \A x \in Endpoint : \A d \in net'[x] : AcksTrue(x, d)
<1>1. PICK q, sending : Sends(e, q, sending)
  BY UpdateFacts
<1>2. ASSUME NEW d \in sending
      PROVE  AcksTrue(Peer(e), d)
  <2>1. d \in Seq(Encodable(e, q))
    BY <1>1 DEF Sends
  <2>2. \A i \in 1..Len(d) : d[i] \in Encodable(e, q)
    BY <2>1
  <2>3. \A i \in 1..Len(acklist[e]) : Received(e, acklist[e][i])
    BY SafeFacts
  <2>4. Peer(Peer(e)) = e /\ rcv_nxt[e] \in Nat
    BY PeerFacts DEF TypeInv, TypeOK
  <2>5. QED
    BY <2>2, <2>3, <2>4 DEF Encodable, AcksTrue
<1>3. \A x \in Endpoint : \A d \in net'[x] :
        d \in net[x] \/ (x = Peer(e) /\ d \in sending)
  BY <1>1, PeerFacts DEF Sends, TypeInv, TypeOK
<1>4. QED
  BY <1>2, <1>3, SafeFacts

(* The fragments that leave snd_queue get the numbers from snd_nxt on, and  *)
(* stay within snd_wnd. *)
LEMMA NumberedSafe ==
  ASSUME TypeInv, SafeInv, NEW e \in Endpoint
  PROVE  /\ \A s \in Numbered(e) :
              s.sn \in snd_nxt[e]..snd_nxt[e] + NumberedCount(e) - 1
         /\ \A sn \in snd_nxt[e]..snd_nxt[e] + NumberedCount(e) - 1 :
              \E s \in Numbered(e) : s.sn = sn
         /\ snd_nxt[e] + NumberedCount(e) - snd_una[e] \in 0..SndWnd
<1>1. NumberedCount(e) \in Nat /\ snd_nxt[e] \in Nat /\ snd_una[e] \in Nat
  BY NumberedFacts DEF TypeInv, TypeOK
<1> DEFINE f == [i \in 1..NumberedCount(e) |->
                   [sn |-> snd_nxt[e] + i - 1, frag |-> snd_queue[e][i],
                    xmit |-> 0, fastack |-> 0]]
<1>2. \A i \in 1..NumberedCount(e) : f[i].sn = snd_nxt[e] + i - 1
  OBVIOUS
<1>3. Numbered(e) = {f[i] : i \in 1..NumberedCount(e)}
  BY DEF Numbered
<1> HIDE DEF f
<1>4. \A s \in Numbered(e) :
        s.sn \in snd_nxt[e]..snd_nxt[e] + NumberedCount(e) - 1
  BY <1>1, <1>2, <1>3
<1>5. ASSUME NEW sn \in snd_nxt[e]..snd_nxt[e] + NumberedCount(e) - 1
      PROVE  \E s \in Numbered(e) : s.sn = sn
  <2>1. sn - snd_nxt[e] + 1 \in 1..NumberedCount(e)
    BY <1>1
  <2>2. f[sn - snd_nxt[e] + 1].sn = sn
    BY <1>1, <1>2, <2>1
  <2>3. QED
    BY <1>3, <2>1, <2>2
<1>6. snd_nxt[e] + NumberedCount(e) - snd_una[e] \in 0..SndWnd
  <2>1. SendWindow(e) \in Nat /\ SendWindow(e) <= SndWnd
    BY WindowAssumption DEF SendWindow, Min2, TypeInv, TypeOK, Congestion
  <2>2. Len(snd_queue[e]) \in Nat
    BY DEF TypeInv, TypeOK
  <2>3. NumberedCount(e) <= Max2(0, snd_una[e] + SendWindow(e) - snd_nxt[e])
    BY <1>1, <2>1, <2>2 DEF NumberedCount, Min2, Max2
  <2>4. snd_nxt[e] - snd_una[e] \in 0..SndWnd
    BY SafeFacts DEF SenderSafe
  <2>5. QED
    BY <1>1, <2>1, <2>3, <2>4, WindowAssumption DEF Max2
<1>7. QED
  BY <1>4, <1>5, <1>6

LEMMA UpdateSafe ==
  ASSUME TypeInv, TypeInv', SafeInv, NEW e \in Endpoint, NEW due \in DueSets(e),
         NEW ask \in ProbeDue(e), NEW lossless, Update(e, due, ask, lossless)
  PROVE  SafeInv'
<1> DEFINE buf == snd_buf[e] \cup Numbered(e)
           moved == NumberedCount(e)
           f == [s \in buf |-> Transmitted(s, due)]
<1>1. UNCHANGED <<snd_una, rcv_nxt, rcv_buf, rcv_queue, input>>
  BY DEF Update, recvVars, inputVars
<1>2. acklist' = [acklist EXCEPT ![e] = <<>>]
  BY DEF Update
<1>3. /\ snd_buf' = [snd_buf EXCEPT ![e] = {f[s] : s \in buf}]
      /\ snd_nxt' = [snd_nxt EXCEPT ![e] = @ + moved]
  BY DEF Update
<1>4. \A s \in buf : f[s].sn = s.sn
  BY DEF Transmitted
<1>5. ReceivedKept /\ ReceiverBounded'
  BY <1>1, ReceiversUnchanged DEF TypeInv
<1>6. \A x \in Endpoint : (\A i \in 1..Len(acklist[x]) :
                             Received(x, acklist[x][i]))'
  <2>1. acklist \in [Endpoint -> Seq(Nat)]
    BY DEF TypeInv, TypeOK
  <2>2. ASSUME NEW x \in Endpoint, NEW i \in 1..Len(acklist'[x])
        PROVE  /\ acklist'[x][i] = acklist[x][i]
               /\ Received(x, acklist[x][i])
    <3>1. x # e /\ acklist'[x] = acklist[x]
      BY <1>2, <2>1
    <3>2. QED
      BY <3>1, SafeFacts
  <2>3. QED
    BY <1>1, <2>2 DEF Received
<1>7. \A x \in Endpoint : SenderSafe(x)
  BY SafeFacts
<1>8. /\ snd_nxt[e] \in Nat /\ snd_una[e] \in Nat /\ moved \in Nat
      /\ \A s \in snd_buf[e] : s.sn \in Nat
  <2>1. moved \in Nat
    BY NumberedFacts
  <2>2. snd_nxt[e] \in Nat /\ snd_una[e] \in Nat
    BY DEF TypeInv, TypeOK
  <2>3. \A s \in snd_buf[e] : s.sn \in Nat
    BY DEF TypeInv, TypeOK, SendSegment
  <2>4. QED
    BY <2>1, <2>2, <2>3
<1>9. /\ \A s \in Numbered(e) : s.sn \in snd_nxt[e]..snd_nxt[e] + moved - 1
      /\ \A sn \in snd_nxt[e]..snd_nxt[e] + moved - 1 :
           \E s \in Numbered(e) : s.sn = sn
      /\ snd_nxt[e] + moved - snd_una[e] \in 0..SndWnd
  BY NumberedSafe
<1>10. snd_nxt[e] - snd_una[e] >= 0
  BY <1>7 DEF SenderSafe
<1>11. \A s \in buf : s.sn \in snd_una[e]..snd_nxt[e] + moved - 1
  BY <1>7, <1>8, <1>9, <1>10 DEF SenderSafe
<1>12. ASSUME NEW sn \in 0..snd_nxt[e] + moved - 1
       PROVE  (\E s \in buf : s.sn = sn) \/ Received(Peer(e), sn)
  <2>1. CASE sn < snd_nxt[e]
    BY <1>7, <1>8, <2>1 DEF SenderSafe
  <2>2. CASE sn >= snd_nxt[e]
    BY <1>8, <1>9, <2>2
  <2>3. QED
    BY <1>8, <2>1, <2>2
<1> HIDE DEF f, buf, moved
<1>13. ASSUME NEW x \in Endpoint
       PROVE  /\ snd_nxt'[x] - snd_una'[x] \in 0..SndWnd
              /\ \A s \in snd_buf'[x] : s.sn \in snd_una'[x]..snd_nxt'[x] - 1
              /\ \A sn \in 0..snd_nxt'[x]-1 :
                   (\E s \in snd_buf'[x] : s.sn = sn) \/ Received(Peer(x), sn)
  <2>1. CASE x = e
    <3>1. /\ snd_buf'[x] = {f[s] : s \in buf}
          /\ snd_nxt'[x] = snd_nxt[e] + moved
          /\ snd_una'[x] = snd_una[e]
      BY <1>1, <1>3, <2>1 DEF TypeInv, TypeOK
    <3>2. \A s \in snd_buf'[x] : s.sn \in snd_una[e]..snd_nxt[e] + moved - 1
      BY <1>4, <1>11, <3>1
    <3>3. \A sn \in 0..snd_nxt[e] + moved - 1 :
            (\E s \in snd_buf'[x] : s.sn = sn) \/ Received(Peer(e), sn)
      BY <1>4, <1>12, <3>1
    <3>4. snd_nxt'[x] - snd_una'[x] \in 0..SndWnd
      BY <1>8, <1>9, <3>1
    <3>5. \A s \in snd_buf'[x] : s.sn \in snd_una'[x]..snd_nxt'[x] - 1
      BY <1>8, <3>1, <3>2
    <3>6. \A sn \in 0..snd_nxt'[x]-1 :
            (\E s \in snd_buf'[x] : s.sn = sn) \/ Received(Peer(x), sn)
      BY <1>8, <2>1, <3>1, <3>3
    <3>7. QED
      BY <3>4, <3>5, <3>6
  <2>2. CASE x # e
    <3>1. /\ snd_buf'[x] = snd_buf[x]
          /\ snd_nxt'[x] = snd_nxt[x]
          /\ snd_una'[x] = snd_una[x]
      BY <1>1, <1>3, <2>2 DEF TypeInv, TypeOK
    <3>2. QED
      BY <1>7, <3>1 DEF SenderSafe
  <2>3. QED
    BY <2>1, <2>2
<1>14. \A x \in Endpoint : AcksTrue(x, input'[x])
  BY <1>1, SafeFacts
<1>15. QED
  BY <1>5, <1>6, <1>13, <1>14, FlushTrue, SafeStep

LEMMA NextSafe == TypeInv /\ TypeInv' /\ SafeInv /\ [Next]_vars => SafeInv'
<1> SUFFICES ASSUME TypeInv, TypeInv', SafeInv, [Next]_vars PROVE SafeInv'
  OBVIOUS
<1>1. ASSUME NEW e \in Endpoint, NEW size \in MessageSizes, Send(e, size)
      PROVE  SafeInv'
  BY <1>1, SendSafe
<1>2. ASSUME NEW e \in Endpoint, Recv(e)
      PROVE  SafeInv'
  BY <1>2, RecvSafe
<1>3. ASSUME NEW e \in Endpoint, NEW d \in net[e], Receive(e, d)
      PROVE  SafeInv'
  BY <1>3, ReceiveSafe
<1>4. ASSUME NEW e \in Endpoint, InputAck(e)
      PROVE  SafeInv'
  BY <1>4, InputAckSafe
<1>5. ASSUME NEW e \in Endpoint, InputPush(e)
      PROVE  SafeInv'
  BY <1>5, InputPushSafe
<1>6. ASSUME NEW e \in Endpoint, InputWask(e) \/ InputWins(e)
      PROVE  SafeInv'
  BY <1>6, InputProbeSafe
<1>7. ASSUME NEW e \in Endpoint, NEW due \in DueSets(e), NEW ask \in ProbeDue(e),
             Update(e, due, ask, FALSE)
      PROVE  SafeInv'
  BY <1>7, UpdateSafe
<1>8. ASSUME NEW e \in Endpoint, InputForeign(e)
      PROVE  SafeInv'
  BY <1>8, InputForeignSafe
<1>9. CASE UNCHANGED vars
  BY <1>9 DEF vars, SafeInv, AckInv, AcksTrue, NothingDropped, Received,
              WindowInv, BuffersBounded
<1>10. QED
  BY <1>1, <1>2, <1>3, <1>4, <1>5, <1>6, <1>7, <1>8, <1>9 DEF Next

LEMMA SafeCorrect == Spec => [](TypeInv /\ SafeInv)
<1>1. Init => TypeInv /\ SafeInv
  BY InitType, InitSafe
<1>2. TypeInv /\ SafeInv /\ [Next]_vars => (TypeInv /\ SafeInv)'
  BY NextType, NextSafe
<1>3. QED
  BY <1>1, <1>2, PTL DEF Spec

(* No datagram that the network loses, reorders or repeats makes            *)
(* ikcp_input free a segment that has not arrived: ikcp_parse_una and       *)
(* ikcp_parse_ack only drop what the peer has in rcv_buf or rcv_queue.      *)
THEOREM NothingIsDropped == Spec => []NothingDropped
<1>1. TypeInv /\ SafeInv => NothingDropped
  BY DEF SafeInv, AckInv
<1>2. QED
  BY <1>1, SafeCorrect, PTL

(* The queues of a control block stay within snd_wnd and rcv_wnd, whatever  *)
(* window the peer goes by. *)
THEOREM BuffersAreBounded == Spec => []BuffersBounded
<1>1. TypeInv /\ SafeInv => BuffersBounded
  BY DEF SafeInv, WindowInv
<1>2. QED
  BY <1>1, SafeCorrect, PTL

(***************************************************************************)
(* The congestion window.  CwndTracksIncr needs ssthresh to be 2 or more,   *)
(* so that congestion avoidance adds less than a segment to incr.           *)
(***************************************************************************)

(* Bytes of n segments. *)
LEMMA SegmentBytes ==
  ASSUME NEW n \in Nat
  PROVE  /\ n * Mss \in Nat
         /\ (n + 1) * Mss = n * Mss + Mss
         /\ (n + 2) * Mss = n * Mss + Mss + Mss
BY MssFacts

(* What a congestion avoidance step adds to incr is less than a segment. *)
LEMMA AvoidanceStep ==
  ASSUME NEW m \in Nat, m > 0, NEW base \in Nat, base >= 2 * m
  PROVE  /\ (m * m) \div base + m \div 16 \in Nat
         /\ (m * m) \div base + m \div 16 < m
<1> DEFINE q == (m * m) \div base
<1>1. m * m \in Nat /\ base > 0
  OBVIOUS
<1>2. q \in Nat /\ q * base <= m * m
  BY <1>1
<1> HIDE DEF q
<1>3. q * (2 * m) <= q * base
  BY <1>2
<1>4. (2 * q) * m <= m * m
  BY <1>2, <1>3
<1>5. ~(2 * q > m)
  <2>1. ASSUME 2 * q > m
        PROVE  (2 * q) * m >= (m + 1) * m
    BY <1>2, <2>1
  <2>2. (m + 1) * m = m * m + m
    OBVIOUS
  <2>3. QED
    BY <1>1, <1>2, <1>4, <2>1, <2>2
<1>6. m \div 16 \in Nat /\ 16 * (m \div 16) <= m
  OBVIOUS
<1> DEFINE r == m \div 16
<1> HIDE DEF r
<1>7. q + r \in Nat /\ q + r < m
  <2>1. r \in Nat /\ 16 * r <= m
    BY <1>6 DEF r
  <2>2. QED
    BY <1>2, <1>5, <2>1
<1>8. QED
  BY <1>7 DEF q, r

(* ikcp_input keeps cwnd and incr in step when it grows them. *)
LEMMA GrowWindowTracks ==
  ASSUME NEW c \in Congestion, Tracks(c), NEW wnd \in Nat
  PROVE  Tracks(GrowWindow(c, wnd))
<1> DEFINE base == Max2(c.incr, Mss)
           incr == IF c.cwnd < c.ssthresh THEN c.incr + Mss
                   ELSE base + (Mss * Mss) \div base + Mss \div 16
           cwnd == IF c.cwnd < c.ssthresh \/ (c.cwnd + 1) * Mss <= incr
                   THEN c.cwnd + 1 ELSE c.cwnd
           old == c.cwnd * Mss
<1>1. Mss \in Nat /\ Mss > 0
  BY MssFacts
<1>2. c.cwnd \in Nat /\ c.incr \in Nat /\ c.ssthresh \in Nat
  BY DEF Congestion
<1>3. /\ old \in Nat
      /\ (c.cwnd + 1) * Mss = old + Mss
      /\ (c.cwnd + 2) * Mss = old + Mss + Mss
  BY <1>2, SegmentBytes
<1>4. old <= c.incr /\ c.incr < old + Mss /\ c.ssthresh >= 2
  BY <1>3 DEF Tracks, IKCP_THRESH_MIN
<1>5. /\ cwnd \in {c.cwnd, c.cwnd + 1}
      /\ cwnd * Mss <= incr
      /\ incr < (cwnd + 1) * Mss
  <2>1. CASE c.cwnd < c.ssthresh
    <3>1. cwnd = c.cwnd + 1 /\ incr = c.incr + Mss
      BY <2>1
    <3>2. (cwnd + 1) * Mss = old + Mss + Mss
      <4>1. cwnd + 1 = c.cwnd + 2
        BY <1>2, <3>1
      <4>2. QED
        BY <1>3, <4>1
    <3> HIDE DEF incr, cwnd, old
    <3>3. old + Mss <= c.incr + Mss /\ c.incr + Mss < old + Mss + Mss
      BY <1>1, <1>2, <1>3, <1>4
    <3>4. QED
      BY <1>3, <3>1, <3>2, <3>3
  <2>2. CASE ~(c.cwnd < c.ssthresh)
    <3> DEFINE more == (Mss * Mss) \div base + Mss \div 16
    <3>1. c.cwnd >= 2
      BY <1>2, <1>4, <2>2
    <3>2. 2 * Mss <= old
      BY <1>1, <1>2, <3>1
    <3> HIDE DEF old
    <3>3. base = c.incr /\ base \in Nat /\ base >= 2 * Mss
      BY <1>1, <1>2, <1>3, <1>4, <3>2 DEF Max2
    <3> HIDE DEF base
    <3>4. more \in Nat /\ more < Mss
      BY <1>1, <3>3, AvoidanceStep
    <3>5. incr = base + more
      <4>1. (Mss * Mss) \div base \in Nat /\ Mss \div 16 \in Nat
        BY <1>1, <3>3
      <4>2. QED
        BY <2>2, <3>3, <4>1
    <3> HIDE DEF incr, more
    <3>6. /\ incr \in Nat
          /\ old <= incr /\ incr < old + Mss + Mss
      BY <1>1, <1>2, <1>3, <1>4, <3>3, <3>4, <3>5
    <3>7. CASE (c.cwnd + 1) * Mss <= incr
      <4>1. cwnd = c.cwnd + 1
        BY <3>7
      <4>2. (cwnd + 1) * Mss = old + Mss + Mss
        <5>1. cwnd + 1 = c.cwnd + 2
          BY <1>2, <4>1
        <5>2. QED
          BY <1>3, <5>1
      <4>3. QED
        BY <3>6, <3>7, <4>1, <4>2
    <3>8. CASE ~((c.cwnd + 1) * Mss <= incr)
      <4>1. cwnd = c.cwnd
        BY <2>2, <3>8
      <4>2. incr < old + Mss
        BY <1>1, <1>3, <3>6, <3>8
      <4>3. QED
        BY <1>3, <3>6, <4>1, <4>2 DEF old
    <3>9. QED
      BY <3>7, <3>8
  <2>3. QED
    BY <2>1, <2>2
<1> HIDE DEF incr, cwnd
<1>6. GrowWindow(c, wnd) =
        IF c.cwnd >= wnd THEN c
        ELSE [cwnd |-> Min2(cwnd, wnd),
              incr |-> IF cwnd > wnd THEN wnd * Mss ELSE incr,
              ssthresh |-> c.ssthresh]
  BY DEF GrowWindow, cwnd, incr
<1>7. CASE c.cwnd >= wnd
  BY <1>6, <1>7
<1>8. CASE ~(c.cwnd >= wnd)
  <2>1. ~(cwnd > wnd) /\ Min2(cwnd, wnd) = cwnd
    BY <1>2, <1>5, <1>8 DEF Min2
  <2>2. GrowWindow(c, wnd) =
          [cwnd |-> cwnd, incr |-> incr, ssthresh |-> c.ssthresh]
    BY <1>6, <1>8, <2>1
  <2>3. QED
    BY <1>5, <2>2 DEF Tracks
<1>9. QED
  BY <1>7, <1>8

(* ikcp_flush keeps them in step when it backs off. *)
LEMMA BackOffTracks ==
  ASSUME NEW c \in Congestion, Tracks(c), NEW overtaken \in BOOLEAN,
         NEW expired \in BOOLEAN, NEW inflight \in Int, NEW window \in Int
  PROVE  Tracks(BackOff(c, overtaken, expired, inflight, window))
<1> DEFINE halved == Max2(inflight \div 2, IKCP_THRESH_MIN)
           fast == [ssthresh |-> halved, cwnd |-> halved + FastResend,
                    incr |-> (halved + FastResend) * Mss]
           slow == [ssthresh |-> Max2(window \div 2, IKCP_THRESH_MIN),
                    cwnd |-> 1, incr |-> Mss]
           after == IF expired THEN slow ELSE IF overtaken THEN fast ELSE c
<1>1. /\ Mss \in Nat /\ Mss > 0 /\ 1 * Mss = Mss
      /\ (1 + 1) * Mss = Mss + Mss
  BY MssFacts
<1>2. /\ halved \in Nat /\ halved >= IKCP_THRESH_MIN
      /\ slow.ssthresh >= IKCP_THRESH_MIN
  BY DEF Max2, IKCP_THRESH_MIN
<1>3. halved + FastResend \in Nat
  BY <1>2, WindowAssumption
<1>4. Tracks(fast)
  <2> DEFINE wnd == halved + FastResend
  <2> HIDE DEF halved, wnd
  <2>1. wnd * Mss \in Nat /\ (wnd + 1) * Mss = wnd * Mss + Mss
    BY <1>3, SegmentBytes DEF wnd
  <2>2. wnd * Mss <= wnd * Mss /\ wnd * Mss < (wnd + 1) * Mss
    BY <1>1, <2>1
  <2>3. fast.cwnd = wnd /\ fast.incr = wnd * Mss /\ fast.ssthresh = halved
    BY DEF wnd
  <2> HIDE DEF fast
  <2>4. QED
    BY <1>2, <2>2, <2>3 DEF Tracks
<1>5. Tracks(slow)
  <2>1. slow.cwnd = 1 /\ slow.incr = Mss
    OBVIOUS
  <2> HIDE DEF slow
  <2>2. QED
    BY <1>1, <1>2, <2>1 DEF Tracks
<1> HIDE DEF fast, slow
<1>6. Tracks(after)
  BY <1>4, <1>5
<1> HIDE DEF after
<1>7. BackOff(c, overtaken, expired, inflight, window) =
        IF after.cwnd >= 1 THEN after
        ELSE [cwnd |-> 1, incr |-> Mss, ssthresh |-> after.ssthresh]
  BY DEF BackOff, after, fast, slow, halved
<1>8. Tracks([cwnd |-> 1, incr |-> Mss, ssthresh |-> after.ssthresh])
  BY <1>1, <1>6 DEF Tracks
<1>9. QED
  BY <1>6, <1>7, <1>8

(* A step sets the congestion window of one endpoint at most, and leaves it  *)
(* in step. *)
LEMMA OneTracks ==
  ASSUME TypeOK, WindowsTrack, NEW e \in Endpoint, NEW c, Tracks(c),
         cong' = cong \/ cong' = [cong EXCEPT ![e] = c]
  PROVE  WindowsTrack'
<1>1. \A x \in Endpoint : cong'[x] \in {cong[x], c}
  BY DEF TypeOK
<1>2. QED
  BY <1>1 DEF WindowsTrack

LEMMA InputSegmentTracks ==
  ASSUME TypeInv, WindowsTrack, NEW e \in Endpoint, NEW buf, input[e] # <<>>,
         InputSegment(e, buf)
  PROVE  WindowsTrack'
<1> DEFINE grown == GrowWindow(cong[e], Head(input[e]).wnd)
<1>1. cong[e] \in Congestion /\ Tracks(cong[e])
  BY DEF TypeInv, TypeOK, WindowsTrack
<1>2. Tracks(grown)
  BY <1>1, HeadType, GrowWindowTracks
<1>3. \/ cong' = cong
      \/ cong' = [cong EXCEPT ![e] = cong[e]]
      \/ cong' = [cong EXCEPT ![e] = grown]
  BY DEF InputSegment
<1> HIDE DEF grown
<1>4. QED
  BY <1>1, <1>2, <1>3, OneTracks DEF TypeInv

LEMMA UpdateTracks ==
  ASSUME TypeInv, WindowsTrack, NEW e \in Endpoint, NEW due, NEW ask,
         NEW lossless, Update(e, due, ask, lossless)
  PROVE  WindowsTrack'
<1> DEFINE sending == {s \in snd_buf[e] \cup Numbered(e) : NeedsSend(s, due)}
           overtaken == \E s \in sending : Overtaken(s, due)
           expired == \E s \in sending : Expired(s, due)
           inflight == snd_nxt[e] + NumberedCount(e) - snd_una[e]
           backed == BackOff(cong[e], overtaken, expired, inflight,
                            SendWindow(e))
<1>1. inflight \in Int
  <2>1. NumberedCount(e) \in Nat
    BY NumberedFacts
  <2>2. snd_nxt[e] \in Nat /\ snd_una[e] \in Nat
    BY DEF TypeInv, TypeOK
  <2>3. QED
    BY <2>1, <2>2
<1>2. SendWindow(e) \in Int
  BY WindowAssumption DEF SendWindow, Min2, TypeInv, TypeOK, Congestion
<1>3. cong[e] \in Congestion /\ Tracks(cong[e])
  BY DEF TypeInv, TypeOK, WindowsTrack
<1>4. overtaken \in BOOLEAN /\ expired \in BOOLEAN
  OBVIOUS
<1>5. cong' = [cong EXCEPT ![e] = backed]
  BY DEF Update
<1> HIDE DEF overtaken, expired, inflight
<1>6. Tracks(backed)
  BY <1>1, <1>2, <1>3, <1>4, BackOffTracks
<1> HIDE DEF backed
<1>7. QED
  BY <1>5, <1>6, OneTracks DEF TypeInv

LEMMA NextTracks == TypeInv /\ WindowsTrack /\ [Next]_vars => WindowsTrack'
<1> SUFFICES ASSUME TypeInv, WindowsTrack, [Next]_vars PROVE WindowsTrack'
  OBVIOUS
<1>1. ASSUME NEW e \in Endpoint,
             \/ \E size \in MessageSizes : Send(e, size)
             \/ Recv(e)
             \/ \E d \in net[e] : Receive(e, d)
             \/ InputForeign(e)
      PROVE  UNCHANGED cong
  BY <1>1 DEF Send, Recv, Receive, InputForeign, sendVars
<1>2. ASSUME NEW e \in Endpoint,
             InputAck(e) \/ InputPush(e) \/ InputWask(e) \/ InputWins(e)
      PROVE  WindowsTrack'
  <2>1. input[e] # <<>>
    BY <1>2 DEF InputAck, InputPush, InputWask, InputWins, NextIs
  <2>2. PICK buf : InputSegment(e, buf)
    BY <1>2 DEF InputAck, InputPush, InputWask, InputWins
  <2>3. QED
    BY <2>1, <2>2, InputSegmentTracks
<1>3. ASSUME NEW e \in Endpoint, NEW due \in DueSets(e),
             NEW ask \in ProbeDue(e), Update(e, due, ask, FALSE)
      PROVE  WindowsTrack'
  BY <1>3, UpdateTracks
<1>4. CASE UNCHANGED cong
  BY <1>4 DEF WindowsTrack
<1>5. CASE UNCHANGED vars
  BY <1>4, <1>5 DEF vars
<1>6. QED
  BY <1>1, <1>2, <1>3, <1>4, <1>5 DEF Next

LEMMA WindowsCorrect == Spec => [](TypeInv /\ WindowsTrack)
<1>1. Init => WindowsTrack
  BY MssFacts DEF Init, WindowsTrack, Tracks, IKCP_THRESH_INIT, IKCP_THRESH_MIN
<1>2. QED
  BY <1>1, InitType, NextType, NextTracks, PTL DEF Spec

(* Slow start, congestion avoidance, fast retransmission and timeouts all   *)
(* leave cwnd the number of whole segments in incr (ikcp_input, ikcp_flush), *)
(* for every mtu and every FastResend. *)
THEOREM WindowTracksIncr == Spec => []CwndTracksIncr
<1>1. WindowsTrack => CwndTracksIncr
  BY DEF WindowsTrack, Tracks, CwndTracksIncr
<1>2. QED
  BY <1>1, WindowsCorrect, PTL
=============================================================================
