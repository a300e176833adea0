-------------------------------- MODULE KcpLink --------------------------------
(***************************************************************************)
(* Two KCP control blocks (ikcpcb, src/src/ikcp.c) with the same conv, at   *)
(* the two ends of a UDP path that may lose, reorder and repeat datagrams.  *)
(*                                                                         *)
(* Actions are the calls a user of the library makes on a control block:   *)
(*   Send    ikcp_send                                                      *)
(*   Recv    ikcp_recv                                                      *)
(*   Update  ikcp_update, when it calls ikcp_flush                          *)
(*   Receive and the Input* actions   ikcp_input, a segment at a time       *)
(*                                                                         *)
(* A control block is not shared between threads and ikcp_input calls      *)
(* nothing outside it, so nothing else happens while a datagram is being    *)
(* parsed: every other action waits until no input is left.                 *)
(*                                                                         *)
(* Time is abstract.  A retransmission or probe timer that is armed may be  *)
(* found due at any Update, so every order in which real timers can expire  *)
(* is a behaviour of this module.  The round-trip estimate, which only      *)
(* sets how long timers run, is left out.                                  *)
(***************************************************************************)
EXTENDS KcpSegment, FiniteSets

CONSTANTS
  Endpoint,      \* the two ends of the link
  SndWnd,        \* kcp->snd_wnd
  RcvWnd,        \* kcp->rcv_wnd
  NoCwnd,        \* kcp->nocwnd # 0: no congestion window
  FastResend,    \* kcp->fastresend: 0 turns fast retransmission off
  DeadLink,      \* kcp->dead_link
  Redeliver,     \* whether the network may deliver a datagram again
  Joined,        \* whether the socket joins datagrams of several streams
  MessageSizes,  \* sizes of the messages that are sent
  MaxSent,       \* bound: messages that each endpoint sends
  MaxNet,        \* bound: datagrams on their way to an endpoint
  MaxAcks,       \* bound: acknowledgements that wait for the next flush
  MaxNumbered    \* bound: the numbers whose timers the fairness is about

ASSUME EndpointAssumption ==
  \E x, y \in Endpoint : x # y /\ Endpoint = {x, y}

ASSUME WindowAssumption ==
  /\ SndWnd \in Nat \ {0}
  /\ RcvWnd \in Nat \ {0}
  /\ NoCwnd \in BOOLEAN
  /\ FastResend \in Nat
  /\ DeadLink \in Nat \ {0}

ASSUME MessageAssumption == MessageSizes \subseteq Nat

ASSUME BoundAssumption ==
  /\ Redeliver \in BOOLEAN
  /\ Joined \in BOOLEAN
  /\ MaxSent \in [Endpoint -> Nat]
  /\ MaxNet \in [Endpoint -> Nat]
  /\ MaxAcks \in Nat
  /\ MaxNumbered \in Nat

IKCP_WND_RCV == 32
IKCP_THRESH_INIT == 2
IKCP_THRESH_MIN == 2

Peer(e) == CHOOSE p \in Endpoint : p # e

VARIABLES
  snd_queue,   \* fragments that have no number yet
  snd_buf,     \* segments sent and not acknowledged
  snd_una,     \* the first number not acknowledged
  snd_nxt,     \* the next number to give to a fragment
  rcv_nxt,     \* the next number that rcv_queue expects
  rcv_buf,     \* segments received that rcv_queue could not take yet
  rcv_queue,   \* fragments in order, for ikcp_recv
  acklist,     \* numbers to acknowledge at the next flush
  rmt_wnd,     \* the window the peer advertised last
  probe,       \* IKCP_ASK_TELL: the next flush tells our window
  probe_wait,  \* the window probe timer is running
  cong,        \* cwnd, incr and ssthresh
  dead,        \* kcp->state = -1
  input,       \* what is left of the datagram ikcp_input is parsing
  input_una,   \* snd_una when ikcp_input was called
  net,         \* datagrams on their way to an endpoint
  sent,        \* history: the messages ikcp_send took
  stream,      \* history: their fragments, the one numbered n at n + 1
  delivered    \* history: the messages ikcp_recv returned

sendVars == <<snd_queue, snd_buf, snd_una, snd_nxt>>
recvVars == <<rcv_nxt, rcv_buf, rcv_queue>>
inputVars == <<input, input_una>>
history == <<sent, stream, delivered>>
vars == <<snd_queue, snd_buf, snd_una, snd_nxt, rcv_nxt, rcv_buf, rcv_queue,
          acklist, rmt_wnd, probe, probe_wait, cong, dead, input, input_una,
          net, sent, stream, delivered>>

(* An entry of snd_buf: xmit saturates at DeadLink, fastack at FastResend,  *)
(* beyond which their values make no difference.                            *)
SendSegment == [sn : Nat, frag : Fragment, xmit : Nat, fastack : Nat]
RecvSegment == [sn : Nat, frag : Fragment]
Congestion == [cwnd : Nat, incr : Nat, ssthresh : Nat]

TypeOK ==
  /\ snd_queue \in [Endpoint -> Seq(Fragment)]
  /\ snd_buf \in [Endpoint -> SUBSET SendSegment]
  /\ snd_una \in [Endpoint -> Nat]
  /\ snd_nxt \in [Endpoint -> Nat]
  /\ rcv_nxt \in [Endpoint -> Nat]
  /\ rcv_buf \in [Endpoint -> SUBSET RecvSegment]
  /\ rcv_queue \in [Endpoint -> Seq(Fragment)]
  /\ acklist \in [Endpoint -> Seq(Nat)]
  /\ rmt_wnd \in [Endpoint -> Nat]
  /\ probe \in [Endpoint -> BOOLEAN]
  /\ probe_wait \in [Endpoint -> BOOLEAN]
  /\ cong \in [Endpoint -> Congestion]
  /\ dead \in [Endpoint -> BOOLEAN]
  /\ input \in [Endpoint -> Seq(Segment)]
  /\ input_una \in [Endpoint -> Nat]
  /\ net \in [Endpoint -> SUBSET Seq(Segment)]
  /\ sent \in [Endpoint -> Seq(Seq(Fragment))]
  /\ stream \in [Endpoint -> Seq(Fragment)]
  /\ delivered \in [Endpoint -> Seq(Seq(Fragment))]

(* ikcp_create, ikcp_wndsize and ikcp_nodelay on both ends. *)
Init ==
  /\ snd_queue = [e \in Endpoint |-> <<>>]
  /\ snd_buf = [e \in Endpoint |-> {}]
  /\ snd_una = [e \in Endpoint |-> 0]
  /\ snd_nxt = [e \in Endpoint |-> 0]
  /\ rcv_nxt = [e \in Endpoint |-> 0]
  /\ rcv_buf = [e \in Endpoint |-> {}]
  /\ rcv_queue = [e \in Endpoint |-> <<>>]
  /\ acklist = [e \in Endpoint |-> <<>>]
  /\ rmt_wnd = [e \in Endpoint |-> IKCP_WND_RCV]
  /\ probe = [e \in Endpoint |-> FALSE]
  /\ probe_wait = [e \in Endpoint |-> FALSE]
  /\ cong = [e \in Endpoint |->
               [cwnd |-> 0, incr |-> 0, ssthresh |-> IKCP_THRESH_INIT]]
  /\ dead = [e \in Endpoint |-> FALSE]
  /\ input = [e \in Endpoint |-> <<>>]
  /\ input_una = [e \in Endpoint |-> 0]
  /\ net = [e \in Endpoint |-> {}]
  /\ sent = [e \in Endpoint |-> <<>>]
  /\ stream = [e \in Endpoint |-> <<>>]
  /\ delivered = [e \in Endpoint |-> <<>>]

(* No call of ikcp_input is under way. *)
Idle == \A e \in Endpoint : input[e] = <<>>

-----------------------------------------------------------------------------
(* Sending and receiving messages. *)

(* ikcp_send: the fragments of the message go to the tail of snd_queue. *)
Send(e, size) ==
  LET message == Fragments(Len(sent[e]) + 1, size) IN
  /\ Idle
  /\ Len(sent[e]) < MaxSent[e]
  /\ Sendable(size)
  /\ snd_queue' = [snd_queue EXCEPT ![e] = @ \o message]
  /\ sent' = [sent EXCEPT ![e] = Append(@, message)]
  /\ stream' = [stream EXCEPT ![e] = @ \o message]
  /\ UNCHANGED <<snd_buf, snd_una, snd_nxt, recvVars, acklist, rmt_wnd, probe,
                 probe_wait, cong, dead, inputVars, net, delivered>>

(* A mutant: <= for < where nrcv_que is compared with rcv_wnd. *)
RoomOver(queue) == Max2(0, RcvWnd + 1 - Len(queue))

(* How many segments the queue can take. *)
Room(queue) == Max2(0, RcvWnd - Len(queue))

(* The loop that ends ikcp_recv and ikcp_parse_data: with buf and queue     *)
(* the lists as they are then, move to the queue the segments of buf that   *)
(* come next, n of them, until one is missing or the queue is full.         *)
MoveAvailable(e, buf, queue) ==
  LET Has(sn) == \E s \in buf : s.sn = sn
      Frag(sn) == (CHOOSE s \in buf : s.sn = sn).frag
  IN  \E n \in 0..Room(queue) :
        /\ \A i \in 0..n-1 : Has(rcv_nxt[e] + i)
        /\ n < Room(queue) => ~Has(rcv_nxt[e] + n)
        /\ rcv_nxt' = [rcv_nxt EXCEPT ![e] = @ + n]
        /\ rcv_buf' = [rcv_buf EXCEPT
                         ![e] = {s \in buf : s.sn >= rcv_nxt[e] + n}]
        /\ rcv_queue' = [rcv_queue EXCEPT
                           ![e] = queue \o
                                  [i \in 1..n |-> Frag(rcv_nxt[e] + i - 1)]]

(* The merge loop of ikcp_recv stops after n fragments of queue. *)
MergesTo(queue, n) ==
  /\ \A i \in 1..n-1 : queue[i].frg # 0
  /\ queue[n].frg = 0 \/ n = Len(queue)

(* A mutant: the comparison of ikcp_peeksize without its + 1. *)
CompleteTooSoon(queue) == Len(queue) >= queue[1].frg

(* ikcp_peeksize: the whole of the next message is in the queue. *)
Complete(queue) == Len(queue) >= queue[1].frg + 1

(* ikcp_recv, with a buffer as large as ikcp_peeksize says.  When it takes  *)
(* the queue from full to not full it has the peer told at the next flush.  *)
Recv(e) ==
  LET queue == rcv_queue[e] IN
  /\ Idle
  /\ queue # <<>>
  /\ Complete(queue)
  /\ \E n \in 1..Len(queue) :
       /\ MergesTo(queue, n)
       /\ delivered' = [delivered EXCEPT ![e] = Append(@, SubSeq(queue, 1, n))]
       /\ MoveAvailable(e, rcv_buf[e], SubSeq(queue, n + 1, Len(queue)))
  /\ probe' = [probe EXCEPT
                 ![e] = @ \/ (Len(queue) >= RcvWnd
                              /\ Len(rcv_queue'[e]) < RcvWnd)]
  /\ UNCHANGED <<sendVars, acklist, rmt_wnd, probe_wait, cong, dead, inputVars,
                 net, sent, stream>>

-----------------------------------------------------------------------------
(* ikcp_input. *)

PushCount(d) == Cardinality({i \in DOMAIN d : d[i].cmd = "PUSH"})

(* What follows a datagram in the one it arrives in.  WriteBuffers::GetBufs *)
(* joins all that waits for a peer, of whichever stream of the socket.      *)
Behind == IF Joined THEN {<<>>, <<Foreign>>} ELSE {<<>>}

(* The network hands datagram d to ikcp_input, which notes snd_una.  It     *)
(* may keep a copy for later.                                               *)
Receive(e, d) ==
  /\ Idle
  /\ Len(acklist[e]) + PushCount(d) <= MaxAcks
  /\ \E rest \in Behind : input' = [input EXCEPT ![e] = d \o rest]
  /\ input_una' = [input_una EXCEPT ![e] = snd_una[e]]
  /\ \/ net' = [net EXCEPT ![e] = @ \ {d}]
     \/ Redeliver /\ UNCHANGED net
  /\ UNCHANGED <<sendVars, recvVars, acklist, rmt_wnd, probe, probe_wait, cong,
                 dead, history>>

(* A mutant: una taken for the last number that has arrived. *)
ParseUnaInclusive(buf, una) == {s \in buf : s.sn > una}

(* ikcp_parse_una: everything before una has arrived. *)
ParseUna(buf, una) == {s \in buf : s.sn >= una}

(* ikcp_parse_ack: sn has arrived, and every segment that the loop passes   *)
(* before it finds sn was skipped once more.  When sn is not in the buffer  *)
(* any more the loop passes all of them, the later ones too.                *)
ParseAck(buf, sn, nxt) ==
  LET Skipped(s) == [s EXCEPT !.fastack = Min2(@ + 1, FastResend)]
      found == \E s \in buf : s.sn = sn
  IN  IF sn >= nxt \/ \A s \in buf : s.sn > sn
      THEN buf
      ELSE {IF found /\ s.sn > sn THEN s ELSE Skipped(s) :
              s \in {t \in buf : t.sn # sn}}

(* ikcp_shrink_buf: una is the number of the first segment of buf, or nxt.  *)
FirstUnacked(buf, nxt, una) ==
  IF buf = {} THEN una = nxt
  ELSE /\ \E s \in buf : s.sn = una
       /\ \A s \in buf : s.sn >= una

(* A mutant: slow start that grows cwnd and not incr. *)
GrowCwndAlone(c, wnd) ==
  IF c.cwnd >= wnd THEN c
  ELSE [cwnd |-> c.cwnd + 1, incr |-> c.incr, ssthresh |-> c.ssthresh]

(* The end of ikcp_input when it has moved snd_una: the congestion window   *)
(* c grows by a slow start or a congestion avoidance step, up to wnd.       *)
GrowWindow(c, wnd) ==
  LET base == Max2(c.incr, Mss)
      incr == IF c.cwnd < c.ssthresh THEN c.incr + Mss
              ELSE base + (Mss * Mss) \div base + Mss \div 16
      cwnd == IF c.cwnd < c.ssthresh \/ (c.cwnd + 1) * Mss <= incr
              THEN c.cwnd + 1 ELSE c.cwnd
  IN  IF c.cwnd >= wnd THEN c
      ELSE [cwnd |-> Min2(cwnd, wnd),
            incr |-> IF cwnd > wnd THEN wnd * Mss ELSE incr,
            ssthresh |-> c.ssthresh]

(* What ikcp_input does for every segment, buf being the segments of        *)
(* snd_buf that it leaves, and for the last one at its return.              *)
InputSegment(e, buf) ==
  LET rest == Tail(input[e])
      wnd == Head(input[e]).wnd
  IN  /\ snd_buf' = [snd_buf EXCEPT ![e] = buf]
      /\ \E una \in {snd_nxt[e]} \cup {s.sn : s \in buf} :
           /\ FirstUnacked(buf, snd_nxt[e], una)
           /\ snd_una' = [snd_una EXCEPT ![e] = una]
      /\ rmt_wnd' = [rmt_wnd EXCEPT ![e] = wnd]
      /\ input' = [input EXCEPT ![e] = rest]
      /\ IF rest # <<>>
         THEN UNCHANGED <<input_una, cong>>
         ELSE /\ input_una' = [input_una EXCEPT ![e] = 0]
              /\ cong' = [cong EXCEPT
                            ![e] = IF snd_una'[e] > input_una[e]
                                   THEN GrowWindow(@, wnd) ELSE @]
      /\ UNCHANGED <<snd_queue, snd_nxt, probe_wait, dead, net, history>>

(* The next segment to parse is a cmd. *)
NextIs(e, cmd) == input[e] # <<>> /\ Head(input[e]).cmd = cmd

InputAck(e) ==
  LET s == Head(input[e]) IN
  /\ NextIs(e, "ACK")
  /\ InputSegment(e, ParseAck(ParseUna(snd_buf[e], s.una), s.sn, snd_nxt[e]))
  /\ UNCHANGED <<recvVars, acklist, probe>>

(* A mutant: a segment received before is not acknowledged again. *)
AcknowledgesOnce(e, sn) == rcv_nxt[e] <= sn /\ sn < rcv_nxt[e] + RcvWnd

(* The window a pushed segment has to be in to be acknowledged. *)
Acknowledges(e, sn) == sn < rcv_nxt[e] + RcvWnd

(* rcv_buf[e] with s, if ikcp_parse_data does not find its number there. *)
ParseData(e, s) ==
  IF \E r \in rcv_buf[e] : r.sn = s.sn THEN rcv_buf[e]
  ELSE rcv_buf[e] \cup {[sn |-> s.sn, frag |-> s.frag]}

InputPush(e) ==
  LET s == Head(input[e]) IN
  /\ NextIs(e, "PUSH")
  /\ InputSegment(e, ParseUna(snd_buf[e], s.una))
  /\ IF Acknowledges(e, s.sn)
     THEN acklist' = [acklist EXCEPT ![e] = Append(@, s.sn)]
     ELSE UNCHANGED acklist
  /\ IF Acknowledges(e, s.sn) /\ s.sn >= rcv_nxt[e]
     THEN MoveAvailable(e, ParseData(e, s), rcv_queue[e])
     ELSE UNCHANGED recvVars
  /\ UNCHANGED probe

InputWask(e) ==
  /\ NextIs(e, "WASK")
  /\ InputSegment(e, ParseUna(snd_buf[e], Head(input[e]).una))
  /\ probe' = [probe EXCEPT ![e] = TRUE]
  /\ UNCHANGED <<recvVars, acklist>>

InputWins(e) ==
  /\ NextIs(e, "WINS")
  /\ InputSegment(e, ParseUna(snd_buf[e], Head(input[e]).una))
  /\ UNCHANGED <<recvVars, acklist, probe>>

(* A segment of another conv: ikcp_input returns -1 at once.  What it did   *)
(* for the segments before stays done; the congestion window does not grow. *)
InputForeign(e) ==
  /\ NextIs(e, "FOREIGN")
  /\ input' = [input EXCEPT ![e] = <<>>]
  /\ input_una' = [input_una EXCEPT ![e] = 0]
  /\ UNCHANGED <<sendVars, recvVars, acklist, rmt_wnd, probe, probe_wait, cong,
                 dead, net, history>>

-----------------------------------------------------------------------------
(* ikcp_flush, called by ikcp_update. *)

(* ikcp_wnd_unused, and the 16 bits of it that ikcp_encode_seg writes. *)
Unused(e) == Max2(0, RcvWnd - Len(rcv_queue[e]))
Advertised(e) == Unused(e) % 65536

(* A mutant: una tells of one segment more than has been received. *)
OutgoingNext(e, cmd, sn, frag) ==
  [cmd |-> cmd, sn |-> sn, wnd |-> Advertised(e), una |-> rcv_nxt[e] + 1,
   frag |-> frag]

(* A segment of the flush.  (WASK and WINS carry whatever sn was written    *)
(* last; ikcp_input does not read it.)                                      *)
Outgoing(e, cmd, sn, frag) ==
  [cmd |-> cmd, sn |-> sn, wnd |-> Advertised(e), una |-> rcv_nxt[e],
   frag |-> frag]

Acks(e) ==
  [i \in 1..Len(acklist[e]) |-> Outgoing(e, "ACK", acklist[e][i], NoFragment)]

(* A mutant: the window of the peer is never asked for. *)
ProbesTellOnly(e, ask) ==
  IF probe[e] THEN <<Outgoing(e, "WINS", 0, NoFragment)>> ELSE <<>>

(* WASK when ask, WINS when the peer is to be told our window. *)
Probes(e, ask) ==
  (IF ask THEN <<Outgoing(e, "WASK", 0, NoFragment)>> ELSE <<>>) \o
  (IF probe[e] THEN <<Outgoing(e, "WINS", 0, NoFragment)>> ELSE <<>>)

(* q is a sequence of segments of snd_buf. *)
Pushes(e, q) ==
  [i \in DOMAIN q |-> Outgoing(e, "PUSH", q[i].sn, q[i].frag)]

(* Everything a flush encodes, in its order. *)
Flushed(e, ask, q) == Acks(e) \o Probes(e, ask) \o Pushes(e, q)

(* cwnd, the local variable of ikcp_flush. *)
SendWindow(e) ==
  LET wnd == Min2(SndWnd, rmt_wnd[e]) IN
  IF NoCwnd THEN wnd ELSE Min2(cong[e].cwnd, wnd)

(* How many fragments the window lets leave snd_queue, and as what. *)
NumberedCount(e) ==
  Min2(Len(snd_queue[e]), Max2(0, snd_una[e] + SendWindow(e) - snd_nxt[e]))

(* A mutant: snd_nxt is the last number given. *)
NumberedFromLast(e) ==
  {[sn |-> snd_nxt[e] + i - 2, frag |-> snd_queue[e][i],
    xmit |-> 0, fastack |-> 0] : i \in 1..NumberedCount(e)}

(* Those fragments as they enter snd_buf. *)
Numbered(e) ==
  {[sn |-> snd_nxt[e] + i - 1, frag |-> snd_queue[e][i],
    xmit |-> 0, fastack |-> 0] : i \in 1..NumberedCount(e)}

(* Why a segment of snd_buf is sent: for the first time, because its        *)
(* retransmission timer is due, or because enough later ones arrived.       *)
First(s) == s.xmit = 0
Expired(s, due) == ~First(s) /\ s.sn \in due
Overtaken(s, due) ==
  ~First(s) /\ s.sn \notin due /\ FastResend > 0 /\ s.fastack >= FastResend
(* A mutant: only fast retransmission sends a segment again. *)
NeedsSendOnce(s, due) == First(s) \/ Overtaken(s, due)

NeedsSend(s, due) == First(s) \/ Expired(s, due) \/ Overtaken(s, due)

Transmitted(s, due) ==
  [sn |-> s.sn,
   frag |-> s.frag,
   xmit |-> IF NeedsSend(s, due) THEN Min2(s.xmit + 1, DeadLink) ELSE s.xmit,
   fastack |-> IF Overtaken(s, due) THEN 0 ELSE s.fastack]

(* The segments of S in the order of their numbers, as snd_buf holds them. *)
InOrder(S) ==
  {q \in [1..Cardinality(S) -> S] :
     \A i, j \in DOMAIN q : i < j => q[i].sn < q[j].sn}

(* The end of ikcp_flush, from the congestion window c: overtaken and       *)
(* expired say whether it sent a segment again for that reason.             *)
BackOff(c, overtaken, expired, inflight, window) ==
  LET halved == Max2(inflight \div 2, IKCP_THRESH_MIN)
      fast == [ssthresh |-> halved, cwnd |-> halved + FastResend,
               incr |-> (halved + FastResend) * Mss]
      slow == [ssthresh |-> Max2(window \div 2, IKCP_THRESH_MIN),
               cwnd |-> 1, incr |-> Mss]
      after == IF expired THEN slow ELSE IF overtaken THEN fast ELSE c
  IN  IF after.cwnd >= 1 THEN after
      ELSE [cwnd |-> 1, incr |-> Mss, ssthresh |-> after.ssthresh]

(* The network takes some of the datagrams that ikcp_output is given, as    *)
(* many as MaxNet lets it hold, and loses the others.                       *)
Transmit(e, out, lossless) ==
  \E lost \in SUBSET out :
    /\ lossless => lost = {}
    /\ net' = [net EXCEPT ![Peer(e)] = @ \cup (out \ lost)]
    /\ Cardinality(net'[Peer(e)]) <= MaxNet[Peer(e)]

(* One ikcp_flush.  The retransmission timers of the numbers in due and,    *)
(* when ask, the window probe timer have expired.                           *)
Update(e, due, ask, lossless) ==
  LET buf == snd_buf[e] \cup Numbered(e)
      moved == NumberedCount(e)
      sending == {s \in buf : NeedsSend(s, due)}
  IN  /\ Idle
      /\ \E q \in InOrder(sending) :
           Transmit(e, Datagrams(Flushed(e, ask, q)), lossless)
      /\ acklist' = [acklist EXCEPT ![e] = <<>>]
      /\ probe' = [probe EXCEPT ![e] = FALSE]
      /\ probe_wait' = [probe_wait EXCEPT ![e] = (rmt_wnd[e] = 0)]
      /\ snd_queue' = [snd_queue EXCEPT ![e] = SubSeq(@, moved + 1, Len(@))]
      /\ snd_nxt' = [snd_nxt EXCEPT ![e] = @ + moved]
      /\ snd_buf' = [snd_buf EXCEPT ![e] = {Transmitted(s, due) : s \in buf}]
      /\ dead' = [dead EXCEPT
                    ![e] = @ \/ \E s \in sending : s.xmit + 1 >= DeadLink]
      /\ cong' = [cong EXCEPT
                    ![e] = BackOff(@, \E s \in sending : Overtaken(s, due),
                                   \E s \in sending : Expired(s, due),
                                   snd_nxt[e] + moved - snd_una[e],
                                   SendWindow(e))]
      /\ UNCHANGED <<snd_una, recvVars, rmt_wnd, inputVars, history>>

(* The timers that may have expired at an update. *)
DueSets(e) == SUBSET {s.sn : s \in snd_buf[e]}
ProbeDue(e) == {FALSE, rmt_wnd[e] = 0 /\ probe_wait[e]}

-----------------------------------------------------------------------------
Input(e) ==
  InputAck(e) \/ InputPush(e) \/ InputWask(e) \/ InputWins(e) \/ InputForeign(e)

Next ==
  \E e \in Endpoint :
    \/ \E size \in MessageSizes : Send(e, size)
    \/ Recv(e)
    \/ \E d \in net[e] : Receive(e, d)
    \/ InputAck(e)
    \/ InputPush(e)
    \/ InputWask(e)
    \/ InputWins(e)
    \/ InputForeign(e)
    \/ \E due \in DueSets(e), ask \in ProbeDue(e) : Update(e, due, ask, FALSE)

Spec == Init /\ [][Next]_vars

(***************************************************************************)
(* Fairness, where the network does not repeat datagrams for ever.          *)
(*                                                                         *)
(* ikcp_input runs to its end.  The program calls ikcp_recv whenever a      *)
(* message is complete, and ikcp_update for ever (KCPStream::OnRun runs     *)
(* itself again after at most the interval).  Every timer expires in the    *)
(* end, again and again while it is armed, and an update that is repeated   *)
(* is not lost by the network every time; what the network keeps arrives.   *)
(* All of these wait for the end of an ikcp_input, hence SF.                *)
(***************************************************************************)

(* An update that is not lost and that sends number n again. *)
Resend(e, n) ==
  \E due \in DueSets(e), ask \in ProbeDue(e) :
    n \in due /\ Update(e, due, ask, TRUE)

(* An update that is not lost and that asks for the peer's window. *)
AskWindow(e) ==
  \E due \in DueSets(e) : TRUE \in ProbeDue(e) /\ Update(e, due, TRUE, TRUE)

(* An update that is not lost and that answers the peer. *)
Answer(e) ==
  /\ acklist[e] # <<>> \/ probe[e]
  /\ \E due \in DueSets(e), ask \in ProbeDue(e) : Update(e, due, ask, TRUE)

Senders == {e \in Endpoint : MaxSent[e] > 0}
Receivers == {e \in Endpoint : MaxSent[Peer(e)] > 0}

(* Resend is fair for the numbers below MaxNumbered. *)
Fairness ==
  /\ \A e \in Endpoint : WF_vars(Input(e))
  /\ \A e \in Endpoint : SF_vars(\E d \in net[e] : Receive(e, d))
  /\ \A e \in Receivers : SF_vars(Recv(e)) /\ SF_vars(Answer(e))
  /\ \A e \in Senders :
       /\ WF_vars(\E due \in DueSets(e) : Update(e, due, FALSE, FALSE))
       /\ SF_vars(AskWindow(e))
       /\ \A n \in 0..MaxNumbered-1 : SF_vars(Resend(e, n))

FairSpec == Spec /\ Fairness

-----------------------------------------------------------------------------
(* Properties. *)

(* ikcp_recv returns the messages ikcp_send took at the other end, whole,   *)
(* each once and in order, whatever the network does.                       *)
InOrderDelivery ==
  \A e \in Endpoint :
    /\ Len(delivered[e]) <= Len(sent[Peer(e)])
    /\ \A i \in 1..Len(delivered[e]) : delivered[e][i] = sent[Peer(e)][i]

(* Number sn has reached e. *)
Received(e, sn) == sn < rcv_nxt[e] \/ \E s \in rcv_buf[e] : s.sn = sn

(* A fragment that has a number is in snd_buf, from where it is sent again, *)
(* until the peer has it: neither an ack nor an una makes ikcp_input drop a *)
(* segment that has not arrived.                                            *)
NothingDropped ==
  \A e \in Endpoint : \A sn \in 0..snd_nxt[e]-1 :
    (\E s \in snd_buf[e] : s.sn = sn) \/ Received(Peer(e), sn)

(* The buffers stay within the windows that ikcp_wndsize set, at a receiver *)
(* whose peer may go by a window advertised long ago.                       *)
BuffersBounded ==
  \A e \in Endpoint :
    /\ snd_nxt[e] - snd_una[e] \in 0..SndWnd
    /\ Len(rcv_queue[e]) <= RcvWnd
    /\ \A s \in rcv_buf[e] : s.sn \in rcv_nxt[e]..rcv_nxt[e] + RcvWnd - 1

(* cwnd is incr in whole segments: every place that sets one of the two     *)
(* keeps the other in step.                                                 *)
CwndTracksIncr ==
  \A e \in Endpoint :
    /\ cong[e].cwnd * Mss <= cong[e].incr
    /\ cong[e].incr < (cong[e].cwnd + 1) * Mss

(* The abstract specification, with the messages this module can send. *)
Messages ==
  UNION {{Fragments(n, size) : n \in 1..MaxSent[e], size \in MessageSizes} :
           e \in Endpoint}

Channel == INSTANCE MessageChannel WITH Message <- Messages

(* Every message is delivered in the end, in order, although the network    *)
(* loses datagrams and the windows close. *)
ImplementsChannel == Channel!FairSpec

(* A sender does not retransmit for ever: what it has numbered is           *)
(* acknowledged in the end, even when the first acknowledgement was lost.   *)
SenderDrains ==
  \A e \in Endpoint : (snd_buf[e] # {}) ~> (snd_buf[e] = {})

(* A closed window does not stay closed: the update ikcp_recv asks for may  *)
(* be lost, the window probes make up for it.                               *)
WindowReopens ==
  \A e \in Endpoint : (rmt_wnd[e] = 0) ~> (rmt_wnd[e] > 0)

(* A message that ikcp_send accepts (it returns 0) is delivered.  (ikcp.h    *)
(* says of ikcp_send: "user/upper level send, returns below zero for        *)
(* error".) *)
AcceptedIsDelivered ==
  \A e \in Endpoint : \A n \in 1..MaxSent[e] :
    (Len(sent[e]) >= n) ~> (Len(delivered[Peer(e)]) >= n)
=============================================================================
