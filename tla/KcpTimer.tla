-------------------------------- MODULE KcpTimer -------------------------------
(***************************************************************************)
(* The clockwork of one KCP control block: the timers of ikcp_update,       *)
(* ikcp_check and ikcp_flush (src/src/ikcp.c), driven by KCPStream::OnRun   *)
(* (src/src/kcp_stream.cc), which the executor calls at the time that its   *)
(* previous call asked for, or up to Jitter later.                          *)
(*                                                                         *)
(* KcpLink lets a timer expire whenever it likes.  Here a timer is what it  *)
(* is in the code, a stamp compared with the clock, and what is abstract is *)
(* the rest: how many fragments the windows let a flush take, and whether   *)
(* the peer answers, are up to the environment.                             *)
(*                                                                         *)
(* now is the time itself.  The code only sees Now32(now).                  *)
(***************************************************************************)
EXTENDS SerialTime

CONSTANTS
  Interval,     \* kcp->interval
  Slap,         \* 10000 in ikcp_update and ikcp_check
  NoDelay,      \* kcp->nodelay # 0
  MinRto,       \* kcp->rx_minrto
  FastResend,   \* kcp->fastresend, 0 when there is no fast retransmission
  IKCP_RTO_DEF, IKCP_RTO_MAX, IKCP_PROBE_INIT, IKCP_PROBE_LIMIT,
  Jitter,       \* the executor calls OnRun at most this late
  StartTime,    \* times at which the stream may be opened
  MaxTime,      \* bound: the time at which the clock stops
  MaxSegments   \* bound: segments sent in all

ASSUME TimerAssumption ==
  /\ {Interval, MinRto, IKCP_RTO_DEF, IKCP_RTO_MAX, IKCP_PROBE_INIT,
      IKCP_PROBE_LIMIT} \subseteq Nat \ {0}
  /\ NoDelay \in BOOLEAN
  /\ FastResend \in Nat
  /\ Jitter \in Nat
  /\ Slap \in Nat
  /\ Interval < Slap /\ Slap < Half
  /\ Interval + Jitter < Half
  /\ IKCP_PROBE_INIT <= IKCP_PROBE_LIMIT
  /\ StartTime \subseteq Nat
  /\ MaxTime \in Nat
  /\ MaxSegments \in Nat

Min2(x, y) == IF x < y THEN x ELSE y
Max2(x, y) == IF x > y THEN x ELSE y

VARIABLES
  now,          \* the time
  wake,         \* when the executor is to call OnRun
  current,      \* kcp->current
  updated,      \* kcp->updated
  ts_flush,     \* kcp->ts_flush
  snd_buf,      \* the timers of the segments that are not acknowledged
  snd_nxt,      \* kcp->snd_nxt: how many segments have been sent
  closed,       \* kcp->rmt_wnd = 0
  probe_wait,   \* kcp->probe_wait
  ts_probe,     \* kcp->ts_probe
  rtt,          \* kcp->rx_srtt, rx_rttval and rx_rto
  answers,      \* transmissions whose acknowledgement may still come
  last_flush,   \* history: when ikcp_flush ran last
  last_probe,   \* history: when the window was found closed or probed last
  true_rtt      \* history: the true round-trip times of the samples

kcpVars == <<current, updated, ts_flush, snd_buf, snd_nxt, probe_wait, ts_probe,
             answers, last_flush, last_probe>>
vars == <<now, wake, current, updated, ts_flush, snd_buf, snd_nxt, closed,
          probe_wait, ts_probe, rtt, answers, last_flush, last_probe, true_rtt>>

(* sent is the time, which the code does not keep, of the last transmission. *)
Timer == [sn : Nat, xmit : Nat, fastack : Nat, rto : Nat, resendts : Stamp,
          sent : Nat]

TypeOK ==
  /\ now \in Nat
  /\ wake \in Nat
  /\ current \in Stamp
  /\ updated \in BOOLEAN
  /\ ts_flush \in Stamp
  /\ snd_buf \in SUBSET Timer
  /\ snd_nxt \in Nat
  /\ closed \in BOOLEAN
  /\ probe_wait \in Nat
  /\ ts_probe \in Stamp
  /\ rtt \in [srtt : Nat, rttval : Nat, rto : Nat]
  /\ answers \in SUBSET [sn : Nat, ts : Stamp, sent : Nat]
  /\ last_flush \in Nat
  /\ last_probe \in Nat
  /\ true_rtt \in [least : Nat, most : Nat]

(* KCPStream::Open: ikcp_create, and DispatchTask has OnRun called at once. *)
Init ==
  /\ now \in StartTime
  /\ wake = now
  /\ current = 0
  /\ updated = FALSE
  /\ ts_flush = Interval % Modulus
  /\ snd_buf = {}
  /\ snd_nxt = 0
  /\ closed = FALSE
  /\ probe_wait = 0
  /\ ts_probe = 0
  /\ rtt = [srtt |-> 0, rttval |-> 0, rto |-> IKCP_RTO_DEF]
  /\ answers = {}
  /\ last_flush = now
  /\ last_probe = now
  /\ true_rtt = [least |-> MaxTime, most |-> 0]

(* Time passes.  The executor does not let it pass wake by more than Jitter. *)
Tick ==
  /\ now < MaxTime
  /\ now < wake + Jitter
  /\ now' = now + 1
  /\ UNCHANGED <<wake, kcpVars, closed, rtt, true_rtt>>

-----------------------------------------------------------------------------
(* ikcp_check. *)

(* How far stamp cur is past ts_flush. *)
Slapped(cur) == TimeDiff(cur, ts_flush)

(* ikcp_update is to be called now: a flush or a retransmission is due, or  *)
(* the clock has jumped.                                                    *)
DueNow(cur) ==
  \/ ~updated
  \/ Slapped(cur) >= 0
  \/ Slapped(cur) < -Slap
  \/ \E s \in snd_buf : TimeDiff(s.resendts, cur) <= 0

(* A mutant: tm_flush is left out. *)
PacketDelays(cur) ==
  {Interval} \cup {TimeDiff(s.resendts, cur) : s \in snd_buf}

(* What limits the delay when nothing is due. *)
Delays(cur) ==
  {Interval, TimeDiff(ts_flush, cur)}
    \cup {TimeDiff(s.resendts, cur) : s \in snd_buf}

(* ikcp_check(kcp, cur) returns cur + delay. *)
Check(cur, delay) ==
  IF DueNow(cur) THEN delay = 0
  ELSE delay \in Delays(cur) /\ \A d \in Delays(cur) : delay <= d

-----------------------------------------------------------------------------
(* ikcp_flush, as far as it depends on time. *)

(* The delay added to the first timeout only. *)
RtoMin == IF NoDelay THEN 0 ELSE rtt.rto \div 8

(* A segment that is sent for the first time. *)
FirstSent(sn, cur) ==
  [sn |-> sn, xmit |-> 1, fastack |-> 0, rto |-> rtt.rto,
   resendts |-> After(cur, rtt.rto + RtoMin), sent |-> now]

(* A mutant: the stamps compared as unsigned numbers. *)
ExpiredRaw(s, cur) == cur >= s.resendts

(* A mutant: a timer expires after its stamp, not at it. *)
ExpiredLate(s, cur) == TimeDiff(cur, s.resendts) > 0

(* The retransmission timer of s has expired. *)
Expired(s, cur) == TimeDiff(cur, s.resendts) >= 0

(* A segment that is sent again: its timeout grows. *)
Resent(s, cur) ==
  LET rto == s.rto + (IF NoDelay THEN rtt.rto \div 2 ELSE rtt.rto) IN
  [sn |-> s.sn, xmit |-> s.xmit + 1, fastack |-> s.fastack, rto |-> rto,
   resendts |-> After(cur, rto), sent |-> now]

(* s is not due, but later segments have been acknowledged FastResend times *)
(* since it was sent: it is taken for lost. *)
Overtaken(s, cur) ==
  ~Expired(s, cur) /\ FastResend > 0 /\ s.fastack >= FastResend

(* A segment that is sent again before its timeout, which starts anew. *)
FastResent(s, cur) ==
  [sn |-> s.sn, xmit |-> s.xmit + 1, fastack |-> 0, rto |-> s.rto,
   resendts |-> After(cur, s.rto), sent |-> now]

(* probe_wait after a probe. *)
NextProbeWait ==
  LET wait == Max2(probe_wait, IKCP_PROBE_INIT)
  IN  Min2(wait + wait \div 2, IKCP_PROBE_LIMIT)

(* A mutant: a probe is due after its stamp, not at it. *)
ProbeDueLate(cur) == TimeDiff(cur, ts_probe) > 0

(* The next probe is due. *)
ProbeDue(cur) == TimeDiff(cur, ts_probe) >= 0

(* The window probe timer, when the window is found closed. *)
Probe(cur) ==
  \/ /\ ~closed
     /\ probe_wait' = 0 /\ ts_probe' = 0
     /\ last_probe' = now
  \/ /\ closed /\ probe_wait = 0
     /\ probe_wait' = IKCP_PROBE_INIT
     /\ ts_probe' = After(cur, IKCP_PROBE_INIT)
     /\ last_probe' = now
  \/ /\ closed /\ probe_wait # 0
     /\ ProbeDue(cur)
     /\ probe_wait' = NextProbeWait
     /\ ts_probe' = After(cur, NextProbeWait)
     /\ last_probe' = now
  \/ /\ closed /\ probe_wait # 0
     /\ ~ProbeDue(cur)
     /\ UNCHANGED <<probe_wait, ts_probe, last_probe>>

(* One ikcp_flush, which takes n of the segments not sent yet; a window of  *)
(* zero lets it take none.                                                  *)
Flush(cur, n) ==
  LET expired == {s \in snd_buf : Expired(s, cur)}
      overtaken == {s \in snd_buf : Overtaken(s, cur)}
      fresh == {FirstSent(snd_nxt + i, cur) : i \in 0..n-1}
      again == {Resent(s, cur) : s \in expired}
                 \cup {FastResent(s, cur) : s \in overtaken}
  IN  /\ Probe(cur)
      /\ snd_buf' =
           (snd_buf \ (expired \cup overtaken)) \cup again \cup fresh
      /\ snd_nxt' = snd_nxt + n
      /\ answers' = answers \cup
           {[sn |-> s.sn, ts |-> cur, sent |-> now] : s \in again \cup fresh}
      /\ last_flush' = now

-----------------------------------------------------------------------------
(* KCPStream::OnRun and ikcp_update. *)

(* ts_flush as ikcp_update finds it, or sets it when it is of no use. *)
FlushBase(cur) ==
  IF ~updated \/ Slapped(cur) >= Slap \/ Slapped(cur) < -Slap THEN cur
  ELSE ts_flush

(* ts_flush after a flush: an interval after the last, or after now when    *)
(* that has passed too.                                                     *)
NextFlush(cur) ==
  LET next == After(FlushBase(cur), Interval) IN
  IF TimeDiff(cur, next) >= 0 THEN After(cur, Interval) ELSE next

(* ikcp_update *)
Update(cur) ==
  /\ current' = cur
  /\ updated' = TRUE
  /\ IF TimeDiff(cur, FlushBase(cur)) >= 0
     THEN /\ ts_flush' = NextFlush(cur)
          /\ \E n \in 0..MaxSegments - snd_nxt :
                (closed => n = 0) /\ Flush(cur, n)
     ELSE /\ ts_flush' = FlushBase(cur)
          /\ UNCHANGED <<snd_buf, snd_nxt, probe_wait, ts_probe, answers,
                         last_flush, last_probe>>

(* KCPStream::OnRun, which the executor runs when wake has come.  Its       *)
(* result is when it wants to run again.                                    *)
OnRun ==
  LET cur == Now32(now) IN
  /\ now >= wake
  /\ \E delay \in {0} \cup Delays(cur) :
       /\ Check(cur, delay)
       /\ IF delay <= 0
          THEN Update(cur) /\ wake' = now + 1
          ELSE wake' = now + delay /\ UNCHANGED kcpVars
  /\ UNCHANGED <<now, closed, rtt, true_rtt>>

-----------------------------------------------------------------------------
(* ikcp_input: an acknowledgement, and the window that segments advertise.  *)

Bounded(lower, x, upper) == Min2(Max2(lower, x), upper)

(* A mutant: the first sample is averaged with 0. *)
SmoothedFromZero(srtt, sample) == Max2(1, (7 * srtt + sample) \div 8)

(* rx_srtt after a sample.  No estimate yet is an estimate of 0. *)
Smoothed(srtt, sample) ==
  IF srtt = 0 THEN sample
  ELSE Max2(1, (7 * srtt + sample) \div 8)

(* ikcp_update_ack *)
UpdateAck(r, sample) ==
  LET srtt == Smoothed(r.srtt, sample)
      delta == IF sample < r.srtt THEN r.srtt - sample ELSE sample - r.srtt
      rttval == IF r.srtt = 0 THEN sample \div 2
                ELSE (3 * r.rttval + delta) \div 4
  IN  [srtt |-> srtt,
       rttval |-> rttval,
       rto |-> Bounded(MinRto, srtt + Max2(1, 4 * rttval), IKCP_RTO_MAX)]

(* ikcp_parse_una: what is left when all segments below una have arrived. *)
ParseUna(una) == {s \in snd_buf : s.sn >= una}

(* ikcp_parse_ack: sn has arrived, and the segments before it in the queue  *)
(* have been overtaken once more; all of them, when sn is no longer there,  *)
(* unless it is below snd_una, the first segment of the queue. *)
ParseAck(buf, sn) ==
  LET overtaken == {s \in buf : s.sn < sn \/ \A t \in buf : t.sn # sn} IN
  IF \A s \in buf : sn < s.sn THEN buf
  ELSE {s \in buf : s.sn # sn /\ s \notin overtaken}
         \cup {[s EXCEPT !.fastack = @ + 1] : s \in overtaken}

(* The acknowledgement of transmission a arrives.  kcp->current, with which *)
(* the round-trip time is taken, is the time of the last ikcp_update.       *)
InputAck(a, una) ==
  LET sample == TimeDiff(current, a.ts)
      elapsed == now - a.sent
  IN  /\ answers' = answers \ {a}
      /\ snd_buf' = ParseAck(ParseUna(una), a.sn)
      /\ IF sample >= 0
         THEN /\ rtt' = UpdateAck(rtt, sample)
              /\ true_rtt' = [least |-> Min2(true_rtt.least, elapsed),
                              most |-> Max2(true_rtt.most, elapsed)]
         ELSE UNCHANGED <<rtt, true_rtt>>
      /\ UNCHANGED <<now, wake, current, updated, ts_flush, snd_nxt, closed,
                     probe_wait, ts_probe, last_flush, last_probe>>

(* A segment that advertises a window of zero, or no longer of zero. *)
InputWindow(una) ==
  /\ updated
  /\ closed' = ~closed
  /\ snd_buf' = ParseUna(una)
  /\ last_probe' = IF closed THEN last_probe ELSE now
  /\ UNCHANGED <<now, wake, current, updated, ts_flush, snd_nxt,
                 probe_wait, ts_probe, rtt, answers, last_flush, true_rtt>>

(* The peer acknowledges only what has been sent. *)
Next ==
  \/ Tick
  \/ OnRun
  \/ \E a \in answers, una \in 0..snd_nxt : InputAck(a, una)
  \/ \E una \in 0..snd_nxt : InputWindow(una)

Spec == Init /\ [][Next]_vars

-----------------------------------------------------------------------------
(* Properties. *)

(* The control block is flushed every Interval, give or take the jitter of  *)
(* the executor, also when the clock comes round.                           *)
FlushedOnTime == now - last_flush <= Interval + Jitter

(* How long after its last transmission s is to be sent again. *)
Timeout(s) == s.rto + (IF s.xmit = 1 /\ ~NoDelay THEN s.rto \div 8 ELSE 0)

(* A segment that is not acknowledged is sent again within an Interval (and *)
(* the jitter) of its timeout.                                              *)
ResentOnTime ==
  \A s \in snd_buf : now - s.sent < Timeout(s) + Interval + Jitter

(* No segment is sent again before its timeout, except by fast              *)
(* retransmission: when that is on and later segments were acknowledged     *)
(* FastResend times since it was sent.                                      *)
NotResentEarly ==
  [][\A s \in snd_buf, t \in snd_buf' :
       s.sn = t.sn /\ t.xmit > s.xmit =>
         \/ now - s.sent >= s.rto
         \/ FastResend > 0 /\ s.fastack >= FastResend]_vars

(* While the window is closed the peer is asked for it: the first time      *)
(* IKCP_PROBE_INIT after the flush that found it closed, later at most      *)
(* IKCP_PROBE_LIMIT apart.                                                  *)
ProbedOnTime ==
  closed => now - last_probe < IKCP_PROBE_LIMIT + Interval + Jitter

(* The estimate is at most the longest true round trip, and at least the    *)
(* shortest but for the age that kcp->current may have.                     *)
EstimateIsTrue ==
  true_rtt.least <= true_rtt.most =>
    /\ rtt.srtt <= true_rtt.most
    /\ rtt.rttval <= true_rtt.most
    /\ rtt.srtt >= true_rtt.least - (Interval + Jitter)
=============================================================================
