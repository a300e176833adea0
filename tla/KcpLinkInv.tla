------------------------------- MODULE KcpLinkInv -------------------------------
(***************************************************************************)
(* The inductive invariant of KcpLink, in named parts.  It says where every *)
(* copy of a fragment may be, and that every acknowledgement is true.       *)
(***************************************************************************)
EXTENDS KcpLink

(* Message number k of an endpoint, as ikcp_send cuts it. *)
WellFormed(m, k) ==
  /\ Len(m) > 0
  /\ \A j \in 1..Len(m) : m[j].msg = k /\ m[j].frg = Len(m) - j

MessagesWellFormed ==
  \A e \in Endpoint : \A k \in 1..Len(sent[e]) : WellFormed(sent[e][k], k)

(* How many fragments of the stream strm come before the message of msgs    *)
(* that its fragment i is of: frg tells how far the message's end is.       *)
StartOf(msgs, strm, i) == i - (Len(msgs[strm[i].msg]) - strm[i].frg)

(* Message k is the stretch of the stream that follows start, and the next  *)
(* message, if there is one, comes right after it.                          *)
MessageAt(msgs, strm, k, start) ==
  LET m == msgs[k]
      end == start + Len(m)
  IN  /\ start >= 0
      /\ end <= Len(strm)
      /\ \A j \in 1..Len(m) : strm[start + j] = m[j]
      /\ IF end = Len(strm) THEN k = Len(msgs)
         ELSE k < Len(msgs) /\ strm[end + 1] = msgs[k + 1][1]

(* The stream strm is the fragments of the messages msgs, in order. *)
LaidOut(msgs, strm) ==
  /\ IF Len(msgs) = 0 THEN Len(strm) = 0
     ELSE Len(strm) > 0 /\ strm[1] = msgs[1][1]
  /\ \A i \in 1..Len(strm) :
       /\ strm[i].msg \in 1..Len(msgs)
       /\ MessageAt(msgs, strm, strm[i].msg, StartOf(msgs, strm, i))

StreamIsSent == \A e \in Endpoint : LaidOut(sent[e], stream[e])

(* snd_queue is the end of the stream that has no numbers yet. *)
QueueIsStream ==
  \A e \in Endpoint :
    /\ snd_nxt[e] + Len(snd_queue[e]) = Len(stream[e])
    /\ \A i \in 1..Len(snd_queue[e]) :
         snd_queue[e][i] = stream[e][snd_nxt[e] + i]

(* sn is the number e gave to frag. *)
Numbers(e, sn, frag) == sn < snd_nxt[e] /\ frag = stream[e][sn + 1]

(* A fragment keeps its number in the buffers of both ends and on its way.  *)
(* (The segments are those that e is about to parse.)                       *)
PushesTrue(e, segs) ==
  \A i \in 1..Len(segs) :
    segs[i].cmd = "PUSH" => Numbers(Peer(e), segs[i].sn, segs[i].frag)

NumbersKept ==
  \A e \in Endpoint :
    /\ \A s \in snd_buf[e] : Numbers(e, s.sn, s.frag)
    /\ \A s \in rcv_buf[e] : Numbers(Peer(e), s.sn, s.frag)
    /\ \A d \in net[e] : PushesTrue(e, d)
    /\ PushesTrue(e, input[e])

(* rcv_queue is the stretch of the peer's stream that ends at rcv_nxt. *)
ConsumedCount(e) == rcv_nxt[e] - Len(rcv_queue[e])

ReceivedInOrder ==
  \A e \in Endpoint :
    /\ rcv_nxt[e] <= snd_nxt[Peer(e)]
    /\ ConsumedCount(e) >= 0
    /\ \A i \in 1..Len(rcv_queue[e]) :
         rcv_queue[e][i] = stream[Peer(e)][ConsumedCount(e) + i]

(* What ikcp_recv has taken from it is the messages delivered. *)
ConsumedIsDelivered ==
  \A e \in Endpoint :
    LET p == Peer(e)
        k == Len(delivered[e])
    IN  IF ConsumedCount(e) = Len(stream[p]) THEN k = Len(sent[p])
        ELSE /\ k < Len(sent[p])
             /\ stream[p][ConsumedCount(e) + 1] = sent[p][k + 1][1]

OrderInv ==
  /\ MessagesWellFormed
  /\ StreamIsSent
  /\ QueueIsStream
  /\ NumbersKept
  /\ ReceivedInOrder
  /\ ConsumedIsDelivered
  /\ InOrderDelivery

(* What e is told by the segments of segs, its peer has received. *)
AcksTrue(e, segs) ==
  \A i \in 1..Len(segs) :
    /\ segs[i].una <= rcv_nxt[Peer(e)]
    /\ segs[i].cmd = "ACK" => Received(Peer(e), segs[i].sn)

AckInv ==
  /\ \A e \in Endpoint :
       /\ \A i \in 1..Len(acklist[e]) : Received(e, acklist[e][i])
       /\ \A d \in net[e] : AcksTrue(e, d)
       /\ AcksTrue(e, input[e])
  /\ NothingDropped

(* The segments not acknowledged are between snd_una and snd_nxt. *)
WindowInv ==
  /\ BuffersBounded
  /\ \A e \in Endpoint : \A s \in snd_buf[e] :
       s.sn \in snd_una[e]..snd_nxt[e]-1

(* snd_buf is a list. *)
SndBufFinite == \A e \in Endpoint : IsFiniteSet(snd_buf[e])

(* cwnd and incr are in step, and ssthresh is 2 or more, so that congestion *)
(* avoidance adds less than a segment to incr.                              *)
Tracks(c) ==
  /\ c.cwnd * Mss <= c.incr
  /\ c.incr < (c.cwnd + 1) * Mss
  /\ c.ssthresh >= IKCP_THRESH_MIN

WindowsTrack == \A e \in Endpoint : Tracks(cong[e])

IInv ==
  /\ TypeOK /\ SndBufFinite
  /\ OrderInv
  /\ AckInv /\ WindowInv
  /\ WindowsTrack
=============================================================================
