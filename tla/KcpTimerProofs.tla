---------------------------- MODULE KcpTimerProofs -----------------------------
(***************************************************************************)
(* The types of KcpTimer, and the rhythm of its flushes, for every         *)
(* interval, jitter and width of the clock.                                 *)
(*                                                                         *)
(* FlushedOnTime is not inductive: it holds because ts_flush is the stamp   *)
(* of a time that is an Interval or less after the last flush, and because  *)
(* the executor was asked to call again by then.                            *)
(***************************************************************************)
EXTENDS KcpTimer, SerialTimeProofs

LEMMA Numbers ==
  /\ Interval \in Nat /\ Interval > 0
  /\ MinRto \in Nat /\ IKCP_RTO_DEF \in Nat /\ IKCP_RTO_MAX \in Nat
  /\ IKCP_PROBE_INIT \in Nat /\ IKCP_PROBE_LIMIT \in Nat
  /\ Jitter \in Nat /\ Slap \in Nat /\ MaxTime \in Nat /\ MaxSegments \in Nat
  /\ Half \in Nat /\ Half > 0
  /\ Interval < Slap /\ Slap < Half /\ Interval + Jitter < Half
  /\ NoDelay \in BOOLEAN
BY TimerAssumption, HalfAssumption

LEMMA StampType == \A t \in Nat : t % Modulus \in Stamp
BY StampOf

LEMMA AfterType ==
  ASSUME NEW s \in Stamp, NEW d \in Nat
  PROVE  After(s, d) \in Stamp
<1>1. s + d \in Nat
  BY ModulusFacts DEF Stamp
<1>2. QED
  BY <1>1, StampType DEF After

LEMMA DiffType ==
  ASSUME NEW s \in Stamp, NEW t \in Stamp
  PROVE  TimeDiff(s, t) \in Int
BY ModulusFacts DEF TimeDiff, Stamp

LEMMA HalfOf == \A n \in Nat : /\ n \div 2 \in Nat /\ n \div 4 \in Nat
                               /\ n \div 8 \in Nat
OBVIOUS

-----------------------------------------------------------------------------
(* Types. *)

TypeInv == TypeOK /\ \A a \in answers : a.sent <= now

LEMMA InitType == Init => TypeInv
<1> SUFFICES ASSUME Init PROVE TypeInv
  OBVIOUS
<1>1. now \in Nat /\ Interval % Modulus \in Stamp /\ 0 \in Stamp
  BY Numbers, TimerAssumption, StampType, ModulusFacts DEF Init, Stamp
<1>2. QED
  BY <1>1, Numbers DEF Init, TypeInv, TypeOK

LEMMA ProbeType ==
  ASSUME TypeInv, NEW cur \in Stamp, Probe(cur)
  PROVE  probe_wait' \in Nat /\ ts_probe' \in Stamp /\ last_probe' \in Nat
<1>1. NextProbeWait \in Nat
  BY Numbers, HalfOf DEF NextProbeWait, Min2, Max2, TypeInv, TypeOK
<1>2. /\ After(cur, NextProbeWait) \in Stamp
      /\ After(cur, IKCP_PROBE_INIT) \in Stamp
  BY <1>1, Numbers, AfterType
<1>3. 0 \in Stamp
  BY ModulusFacts DEF Stamp
<1> HIDE DEF NextProbeWait
<1>4. QED
  BY <1>1, <1>2, <1>3, Numbers DEF Probe, TypeInv, TypeOK

LEMMA SentType ==
  ASSUME TypeInv, NEW cur \in Stamp, NEW s \in Timer, NEW sn \in Nat
  PROVE  /\ FirstSent(sn, cur) \in Timer /\ Resent(s, cur) \in Timer
         /\ FastResent(s, cur) \in Timer
<1>1. /\ rtt.rto \in Nat /\ now \in Nat
      /\ s.rto \in Nat /\ s.xmit \in Nat /\ s.sn \in Nat /\ s.fastack \in Nat
  BY DEF TypeInv, TypeOK, Timer
<1>2. RtoMin \in Nat
  BY <1>1, HalfOf DEF RtoMin
<1>3. After(cur, rtt.rto + RtoMin) \in Stamp /\ After(cur, s.rto) \in Stamp
  BY <1>1, <1>2, AfterType
<1>4. FirstSent(sn, cur) \in Timer
  BY <1>1, <1>3 DEF FirstSent, Timer
<1>5. FastResent(s, cur) \in Timer
  BY <1>1, <1>3 DEF FastResent, Timer
<1> DEFINE rto == s.rto + (IF NoDelay THEN rtt.rto \div 2 ELSE rtt.rto)
<1>6. rto \in Nat
  BY <1>1, HalfOf
<1> HIDE DEF rto
<1>7. After(cur, rto) \in Stamp
  BY <1>6, AfterType
<1>8. [sn |-> s.sn, xmit |-> s.xmit + 1, fastack |-> s.fastack, rto |-> rto,
       resendts |-> After(cur, rto), sent |-> now] \in Timer
  BY <1>1, <1>6, <1>7 DEF Timer
<1>9. QED
  BY <1>4, <1>5, <1>8 DEF Resent, rto

(* The segments that one flush sends again, and those it leaves alone. *)
Again(cur) ==
  {Resent(s, cur) : s \in {u \in snd_buf : Expired(u, cur)}}
    \cup {FastResent(s, cur) : s \in {u \in snd_buf : Overtaken(u, cur)}}

Alone(cur) ==
  {s \in snd_buf : ~Expired(s, cur) /\ ~Overtaken(s, cur)}

(* The segments that a flush sends for the first time. *)
Fresh(cur, n) == {FirstSent(snd_nxt + i, cur) : i \in 0..n-1}

LEMMA FlushParts ==
  ASSUME NEW cur, NEW n, Flush(cur, n)
  PROVE  /\ snd_buf' = Alone(cur) \cup Again(cur) \cup Fresh(cur, n)
         /\ snd_nxt' = snd_nxt + n
         /\ answers' = answers \cup
              {[sn |-> s.sn, ts |-> cur, sent |-> now] :
                 s \in Again(cur) \cup Fresh(cur, n)}
         /\ last_flush' = now
<1> DEFINE expired == {s \in snd_buf : Expired(s, cur)}
           overtaken == {s \in snd_buf : Overtaken(s, cur)}
<1>1. snd_buf \ (expired \cup overtaken) = Alone(cur)
  BY DEF Alone
<1>2. QED
  BY <1>1 DEF Flush, Again, Fresh

LEMMA FlushType ==
  ASSUME TypeInv, NEW cur \in Stamp, NEW n \in Nat, Flush(cur, n), now' = now
  PROVE  /\ snd_buf' \in SUBSET Timer /\ snd_nxt' \in Nat
         /\ answers' \in SUBSET [sn : Nat, ts : Stamp, sent : Nat]
         /\ \A a \in answers' : a.sent <= now'
         /\ last_flush' = now
<1> DEFINE new == Again(cur) \cup Fresh(cur, n)
<1>1. snd_buf \in SUBSET Timer /\ snd_nxt \in Nat /\ now \in Nat
  BY DEF TypeInv, TypeOK
<1>2. Again(cur) \in SUBSET Timer
  BY <1>1, SentType DEF Again
<1>3. Fresh(cur, n) \in SUBSET Timer
  <2> SUFFICES ASSUME NEW i \in 0..n-1
               PROVE  FirstSent(snd_nxt + i, cur) \in Timer
    BY DEF Fresh
  <2>1. snd_nxt + i \in Nat
    BY <1>1
  <2>2. [sn |-> 0, xmit |-> 0, fastack |-> 0, rto |-> 0, resendts |-> cur,
         sent |-> 0] \in Timer
    BY DEF Timer
  <2>3. QED
    BY <2>1, <2>2, SentType
<1>4. /\ snd_buf' = Alone(cur) \cup new
      /\ snd_nxt' = snd_nxt + n
      /\ answers' = answers \cup
           {[sn |-> s.sn, ts |-> cur, sent |-> now] : s \in new}
      /\ last_flush' = now
  BY FlushParts
<1>5. Alone(cur) \in SUBSET Timer
  BY <1>1 DEF Alone
<1>6. new \in SUBSET Timer
  BY <1>2, <1>3
<1> HIDE DEF new
<1>7. \A s \in new : [sn |-> s.sn, ts |-> cur, sent |-> now]
                        \in [sn : Nat, ts : Stamp, sent : Nat]
  BY <1>1, <1>6 DEF Timer
<1>8. /\ answers' \in SUBSET [sn : Nat, ts : Stamp, sent : Nat]
      /\ \A a \in answers' : a.sent <= now
  BY <1>1, <1>4, <1>7 DEF TypeInv, TypeOK
<1>9. QED
  BY <1>1, <1>4, <1>5, <1>6, <1>8

(* How many segments a flush may take is a number. *)
LEMMA TakenType ==
  ASSUME TypeInv, NEW n \in 0..MaxSegments - snd_nxt
  PROVE  n \in Nat
BY Numbers DEF TypeInv, TypeOK

(* s and t are the same segment, sent at the same time: they differ in      *)
(* fastack at most. *)
SameTimer(s, t) ==
  /\ s.sn = t.sn /\ s.xmit = t.xmit /\ s.rto = t.rto
  /\ s.resendts = t.resendts /\ s.sent = t.sent

(* No segment of buf is new, and none has been sent since. *)
Kept(buf) == \A t \in buf : t \in Timer /\ \E s \in snd_buf : SameTimer(s, t)

LEMMA SameIsKept ==
  ASSUME snd_buf \subseteq Timer
  PROVE  Kept(snd_buf)
BY DEF Kept, SameTimer

(* ikcp_parse_una and ikcp_parse_ack take segments away and count. *)
LEMMA ParseKeeps ==
  ASSUME snd_buf \subseteq Timer, NEW una, NEW sn
  PROVE  Kept(ParseUna(una)) /\ Kept(ParseAck(ParseUna(una), sn))
<1>1. ParseUna(una) \subseteq snd_buf
  BY DEF ParseUna
<1>2. Kept(ParseUna(una))
  BY <1>1 DEF Kept, SameTimer
<1>3. ASSUME NEW s \in snd_buf
      PROVE  /\ [s EXCEPT !.fastack = @ + 1] \in Timer
             /\ SameTimer(s, [s EXCEPT !.fastack = @ + 1])
  BY DEF SameTimer, Timer
<1>4. ASSUME NEW t \in ParseAck(ParseUna(una), sn)
      PROVE  \/ t \in ParseUna(una)
             \/ \E s \in ParseUna(una) : t = [s EXCEPT !.fastack = @ + 1]
  BY DEF ParseAck
<1>5. ASSUME NEW t \in ParseAck(ParseUna(una), sn)
      PROVE  t \in Timer /\ \E s \in snd_buf : SameTimer(s, t)
  <2>1. CASE t \in ParseUna(una)
    BY <1>2, <2>1 DEF Kept
  <2>2. CASE t \notin ParseUna(una)
    <3>1. PICK s \in snd_buf : t = [s EXCEPT !.fastack = @ + 1]
      BY <1>1, <1>4, <2>2
    <3>2. QED
      BY <1>3, <3>1
  <2>3. QED
    BY <2>1, <2>2
<1>6. QED
  BY <1>2, <1>5 DEF Kept

(* What a step other than OnRun leaves of the segments in flight. *)
LEMMA InputKeeps ==
  ASSUME snd_buf \subseteq Timer, [Next]_vars, ~OnRun
  PROVE  Kept(snd_buf') /\ UNCHANGED snd_nxt
<1>1. CASE Tick \/ UNCHANGED vars
  BY <1>1, SameIsKept DEF Tick, kcpVars, vars
<1>2. ASSUME NEW a \in answers, NEW una \in 0..snd_nxt, InputAck(a, una)
      PROVE  Kept(snd_buf') /\ UNCHANGED snd_nxt
  BY <1>2, ParseKeeps DEF InputAck
<1>3. ASSUME NEW una \in 0..snd_nxt, InputWindow(una)
      PROVE  Kept(snd_buf') /\ UNCHANGED snd_nxt
  BY <1>3, ParseKeeps DEF InputWindow
<1>4. QED
  BY <1>1, <1>2, <1>3 DEF Next

LEMMA UpdateAckType ==
  ASSUME NEW r \in [srtt : Nat, rttval : Nat, rto : Nat], NEW sample \in Nat
  PROVE  /\ UpdateAck(r, sample) \in [srtt : Nat, rttval : Nat, rto : Nat]
         /\ UpdateAck(r, sample).rto > 0
<1> DEFINE srtt == Smoothed(r.srtt, sample)
           delta == IF sample < r.srtt THEN r.srtt - sample ELSE sample - r.srtt
           rttval == IF r.srtt = 0 THEN sample \div 2
                     ELSE (3 * r.rttval + delta) \div 4
<1>1. srtt \in Nat
  BY HalfOf DEF Smoothed, Max2
<1>2. delta \in Nat
  OBVIOUS
<1>3. rttval \in Nat
  <2> HIDE DEF delta
  <2>1. 3 * r.rttval + delta \in Nat
    BY <1>2
  <2>2. QED
    BY <2>1, HalfOf
<1> HIDE DEF srtt, rttval
<1> DEFINE rto == Bounded(MinRto, srtt + Max2(1, 4 * rttval), IKCP_RTO_MAX)
<1>4. rto \in Nat /\ rto > 0
  <2>1. srtt + Max2(1, 4 * rttval) \in Nat
    BY <1>1, <1>3 DEF Max2
  <2>2. /\ MinRto \in Nat /\ MinRto > 0
        /\ IKCP_RTO_MAX \in Nat /\ IKCP_RTO_MAX > 0
    BY TimerAssumption
  <2>3. QED
    BY <2>1, <2>2 DEF Bounded, Min2, Max2
<1> HIDE DEF rto
<1>5. QED
  BY <1>1, <1>3, <1>4 DEF UpdateAck, srtt, rttval, rto

LEMMA NextFlushType ==
  ASSUME TypeInv, NEW cur \in Stamp
  PROVE  FlushBase(cur) \in Stamp /\ NextFlush(cur) \in Stamp
<1>1. FlushBase(cur) \in Stamp
  BY DEF FlushBase, TypeInv, TypeOK
<1>2. After(FlushBase(cur), Interval) \in Stamp /\ After(cur, Interval) \in Stamp
  BY <1>1, Numbers, AfterType
<1>3. QED
  BY <1>1, <1>2 DEF NextFlush

LEMMA UpdateType ==
  ASSUME TypeInv, NEW cur \in Stamp, Update(cur), now' = now, wake' \in Nat,
         UNCHANGED <<closed, rtt, true_rtt>>
  PROVE  TypeInv'
<1>1. current' \in Stamp /\ updated' \in BOOLEAN
  BY DEF Update
<1>2. CASE TimeDiff(cur, FlushBase(cur)) >= 0
  <2>1. PICK n \in 0..MaxSegments - snd_nxt : Flush(cur, n)
    BY <1>2 DEF Update
  <2>1a. n \in Nat
    BY TakenType
  <2>2. ts_flush' \in Stamp
    BY <1>2, NextFlushType DEF Update
  <2>3. probe_wait' \in Nat /\ ts_probe' \in Stamp /\ last_probe' \in Nat
    BY <2>1, ProbeType DEF Flush
  <2>4. /\ snd_buf' \in SUBSET Timer /\ snd_nxt' \in Nat
        /\ answers' \in SUBSET [sn : Nat, ts : Stamp, sent : Nat]
        /\ \A a \in answers' : a.sent <= now'
        /\ last_flush' = now
    BY <2>1, <2>1a, FlushType
  <2>5. QED
    BY <1>1, <2>2, <2>3, <2>4 DEF TypeInv, TypeOK
<1>3. CASE ~(TimeDiff(cur, FlushBase(cur)) >= 0)
  <2>1. ts_flush' \in Stamp
    BY <1>3, NextFlushType DEF Update
  <2>2. UNCHANGED <<snd_buf, snd_nxt, probe_wait, ts_probe, answers, last_flush,
                    last_probe>>
    BY <1>3 DEF Update
  <2>3. QED
    BY <1>1, <2>1, <2>2 DEF TypeInv, TypeOK
<1>4. QED
  BY <1>2, <1>3

(* The delays that ikcp_check chooses from. *)
LEMMA DelayType ==
  ASSUME TypeInv, NEW cur \in Stamp
  PROVE  Delays(cur) \subseteq Int
<1>1. \A s \in snd_buf : s.resendts \in Stamp
  BY DEF TypeInv, TypeOK, Timer
<1>2. ts_flush \in Stamp
  BY DEF TypeInv, TypeOK
<1>3. QED
  BY <1>1, <1>2, Numbers, DiffType DEF Delays

LEMMA CurType == TypeInv => Now32(now) \in Stamp
BY StampType DEF Now32, TypeInv, TypeOK

LEMMA NextType == TypeInv /\ [Next]_vars => TypeInv'
<1> SUFFICES ASSUME TypeInv, [Next]_vars PROVE TypeInv'
  OBVIOUS
<1>1. CASE Tick
  BY <1>1 DEF Tick, kcpVars, TypeInv, TypeOK
<1>2. CASE OnRun
  <2> DEFINE cur == Now32(now)
  <2>1. cur \in Stamp
    BY CurType
  <2>2. PICK delay \in {0} \cup Delays(cur) :
          IF delay <= 0
          THEN Update(cur) /\ wake' = now + 1
          ELSE wake' = now + delay /\ UNCHANGED kcpVars
    BY <1>2 DEF OnRun
  <2>3. UNCHANGED <<now, closed, rtt, true_rtt>>
    BY <1>2 DEF OnRun
  <2> HIDE DEF cur
  <2>4. delay \in Int
    BY <2>1, DelayType
  <2>5. CASE delay <= 0
    <3>1. wake' \in Nat
      BY <2>2, <2>5 DEF TypeInv, TypeOK
    <3>2. QED
      BY <2>1, <2>2, <2>3, <2>5, <3>1, UpdateType
  <2>6. CASE ~(delay <= 0)
    <3>1. wake' \in Nat
      BY <2>2, <2>4, <2>6 DEF TypeInv, TypeOK
    <3>2. QED
      BY <2>2, <2>3, <2>6, <3>1 DEF kcpVars, TypeInv, TypeOK
  <2>7. QED
    BY <2>5, <2>6
<1>3. ASSUME NEW a \in answers, NEW una \in 0..snd_nxt, InputAck(a, una)
      PROVE  TypeInv'
  <2> DEFINE sample == TimeDiff(current, a.ts)
             elapsed == now - a.sent
  <2>1. a.ts \in Stamp /\ a.sent \in Nat /\ a.sent <= now /\ current \in Stamp
        /\ now \in Nat
    BY DEF TypeInv, TypeOK
  <2>2. sample \in Int /\ elapsed \in Nat
    BY <2>1, DiffType
  <2>3. /\ answers' = answers \ {a}
        /\ snd_buf' = ParseAck(ParseUna(una), a.sn)
        /\ IF sample >= 0
           THEN /\ rtt' = UpdateAck(rtt, sample)
                /\ true_rtt' = [least |-> Min2(true_rtt.least, elapsed),
                                most |-> Max2(true_rtt.most, elapsed)]
           ELSE UNCHANGED <<rtt, true_rtt>>
        /\ UNCHANGED <<now, wake, current, updated, ts_flush, snd_nxt, closed,
                       probe_wait, ts_probe, last_flush, last_probe>>
    BY <1>3 DEF InputAck
  <2> HIDE DEF sample, elapsed
  <2>4. rtt \in [srtt : Nat, rttval : Nat, rto : Nat]
        /\ true_rtt \in [least : Nat, most : Nat]
    BY DEF TypeInv, TypeOK
  <2>5. rtt' \in [srtt : Nat, rttval : Nat, rto : Nat]
    <3>1. CASE sample >= 0
      <4>1. sample \in Nat
        BY <2>2, <3>1
      <4>2. QED
        BY <2>3, <2>4, <3>1, <4>1, UpdateAckType
    <3>2. CASE ~(sample >= 0)
      BY <2>3, <2>4, <3>2
    <3>3. QED
      BY <3>1, <3>2
  <2>6. true_rtt' \in [least : Nat, most : Nat]
    BY <2>2, <2>3, <2>4 DEF Min2, Max2
  <2>7. snd_buf' \subseteq Timer
    BY <2>3, ParseKeeps DEF Kept, TypeInv, TypeOK
  <2>8. QED
    BY <2>3, <2>5, <2>6, <2>7 DEF TypeInv, TypeOK
<1>4. ASSUME NEW una \in 0..snd_nxt, InputWindow(una)
      PROVE  TypeInv'
  <2>1. snd_buf' \subseteq Timer
    BY <1>4, ParseKeeps DEF InputWindow, Kept, TypeInv, TypeOK
  <2>2. QED
    BY <1>4, <2>1 DEF InputWindow, TypeInv, TypeOK
<1>5. CASE UNCHANGED vars
  BY <1>5 DEF vars, TypeInv, TypeOK
<1>6. QED
  BY <1>1, <1>2, <1>3, <1>4, <1>5 DEF Next

(* Every variable of KcpTimer keeps its type: the stamps that ikcp_update   *)
(* and ikcp_flush compute stay within the width of the clock.               *)
THEOREM TimerTypeCorrect == Spec => []TypeOK
<1>1. TypeInv => TypeOK
  BY DEF TypeInv
<1>2. QED
  BY InitType, NextType, <1>1, PTL DEF Spec

-----------------------------------------------------------------------------
(* The rhythm of the flushes. *)

(* ts_flush stands for the time due. *)
FlushDue(due) ==
  /\ ts_flush = Now32(due)
  /\ last_flush < due
  /\ wake <= due

Rhythm ==
  /\ last_flush <= now
  /\ now <= wake + Jitter
  /\ updated => \E due \in 0..last_flush + Interval : FlushDue(due)
  /\ ~updated => wake = last_flush

RhythmInv == TypeInv /\ Rhythm

LEMMA RhythmInit == Init => Rhythm
<1> SUFFICES ASSUME Init PROVE Rhythm
  OBVIOUS
<1>1. /\ now \in Nat /\ wake = now /\ last_flush = now /\ updated = FALSE
  BY TimerAssumption DEF Init
<1>2. QED
  BY <1>1, Numbers DEF Rhythm

(* A flush: the next one is due an Interval or less from now. *)
LEMMA FlushKeeps ==
  ASSUME now \in Nat, updated' = TRUE, now' = now, wake' = now + 1,
         last_flush' = now,
         NEW due \in Nat, due <= now + Interval, now < due,
         ts_flush' = Now32(due)
  PROVE  Rhythm'
<1>1. last_flush' <= now' /\ now' <= wake' + Jitter
  BY Numbers
<1>2. due \in 0..last_flush' + Interval
  BY Numbers
<1>3. FlushDue(due)'
  BY DEF FlushDue
<1>4. QED
  BY <1>1, <1>2, <1>3 DEF Rhythm

(* ikcp_update at time now, when it finds ts_flush of no use. *)
LEMMA RestartKeeps ==
  ASSUME TypeInv, Update(Now32(now)), FlushBase(Now32(now)) = Now32(now),
         now' = now, wake' = now + 1
  PROVE  Rhythm'
<1> DEFINE cur == Now32(now)
<1>1. now \in Nat
  BY DEF TypeInv, TypeOK
<1>2. TimeDiff(cur, cur) = 0
  BY <1>1, Numbers, DiffExact
<1>3. After(cur, Interval) = Now32(now + Interval)
  BY <1>1, Numbers, AfterExact
<1>4. TimeDiff(cur, Now32(now + Interval)) = -Interval
  BY <1>1, Numbers, DiffExact
<1>5. NextFlush(cur) = Now32(now + Interval)
  BY <1>3, <1>4, Numbers DEF NextFlush
<1>6. /\ updated' = TRUE
      /\ ts_flush' = NextFlush(cur)
      /\ \E n \in 0..MaxSegments - snd_nxt : Flush(cur, n)
  BY <1>2 DEF Update
<1> HIDE DEF cur
<1>7. last_flush' = now
  BY <1>6 DEF Flush
<1>8. QED
  BY <1>1, <1>5, <1>6, <1>7, Numbers, FlushKeeps

(* The jitter only adds to a bound. *)
LEMMA JitterAdds ==
  ASSUME NEW x \in Int, NEW y \in Int, x <= y
  PROVE  x <= y + Jitter
BY Numbers

(* OnRun when ts_flush stands for due. *)
LEMMA RunKeeps ==
  ASSUME RhythmInv, OnRun, updated,
         NEW due \in Nat, due <= last_flush + Interval, FlushDue(due)
  PROVE  Rhythm'
<1> DEFINE cur == Now32(now)
<1>1. /\ now \in Nat /\ wake \in Nat /\ last_flush \in Nat
      /\ now >= wake /\ now <= wake + Jitter /\ last_flush <= now
      /\ last_flush < due /\ wake <= due /\ ts_flush = Now32(due)
      /\ now' = now
  BY DEF RhythmInv, TypeInv, TypeOK, Rhythm, FlushDue, OnRun
<1>2. now - due <= Jitter /\ due - now <= Interval
  BY <1>1, Numbers
<1>3. TimeDiff(cur, ts_flush) = now - due
  BY <1>1, <1>2, Numbers, DiffExact
<1>4. TimeDiff(ts_flush, cur) = due - now
  BY <1>1, <1>2, Numbers, DiffExact
<1>5. PICK delay \in {0} \cup Delays(cur) :
        /\ Check(cur, delay)
        /\ IF delay <= 0
           THEN Update(cur) /\ wake' = now + 1
           ELSE wake' = now + delay /\ UNCHANGED kcpVars
  BY DEF OnRun
<1>6. cur \in Stamp /\ Delays(cur) \subseteq Int /\ delay \in Int
  BY <1>5, CurType, DelayType DEF RhythmInv
<1>7. ASSUME UNCHANGED <<ts_flush, last_flush, updated>>,
             wake' \in Int, wake' <= due, now <= wake'
      PROVE  Rhythm'
  <2>1. FlushDue(due)'
    BY <1>1, <1>7 DEF FlushDue
  <2>2. due \in 0..last_flush' + Interval
    BY <1>1, <1>7, Numbers
  <2>3. last_flush' = last_flush /\ updated' = updated
    BY <1>7
  <2>4. last_flush' <= now' /\ now' <= wake' + Jitter
    <3>1. now \in Int /\ now' = now /\ last_flush <= now
      BY <1>1
    <3>2. wake' \in Int /\ now <= wake'
      BY <1>7
    <3>3. now <= wake' + Jitter
      BY <3>1, <3>2, JitterAdds
    <3>4. QED
      BY <2>3, <3>1, <3>3
  <2>5. QED
    BY <2>1, <2>2, <2>3, <2>4 DEF Rhythm
<1>8. CASE ~(delay <= 0)
  <2>1. ~DueNow(cur)
    BY <1>5, <1>8 DEF Check
  <2>2. delay <= TimeDiff(ts_flush, cur)
    BY <1>5, <2>1 DEF Check, Delays
  <2>3. wake' = now + delay /\ UNCHANGED <<ts_flush, last_flush, updated>>
    BY <1>5, <1>8 DEF kcpVars
  <2>4. QED
    BY <1>1, <1>4, <1>6, <1>7, <1>8, <2>2, <2>3
<1>9. CASE delay <= 0 /\ now < due
  <2>1. Slapped(cur) = now - due
    BY <1>3 DEF Slapped
  <2>2. FlushBase(cur) = ts_flush
    <3> HIDE DEF cur
    <3>1. ~(Slapped(cur) >= Slap) /\ ~(Slapped(cur) < -Slap)
      BY <1>1, <1>2, <1>9, <2>1, Numbers
    <3>2. QED
      BY <3>1 DEF FlushBase
  <2>3. ~(TimeDiff(cur, FlushBase(cur)) >= 0)
    BY <1>1, <1>3, <1>9, <2>2
  <2>4. UNCHANGED <<ts_flush, last_flush, updated>> /\ wake' = now + 1
    BY <1>5, <1>9, <2>2, <2>3 DEF Update
  <2>5. QED
    BY <1>1, <1>7, <1>9, <2>4
<1>10. CASE delay <= 0 /\ now >= due
  <2>1. Update(cur) /\ wake' = now + 1
    BY <1>5, <1>10
  <2>2. CASE FlushBase(cur) = cur
    BY <1>1, <2>1, <2>2, RestartKeeps DEF RhythmInv
  <2>3. CASE FlushBase(cur) # cur
    <3>1. FlushBase(cur) = ts_flush
      BY <2>3 DEF FlushBase
    <3>2. After(ts_flush, Interval) = Now32(due + Interval)
      BY <1>1, Numbers, AfterExact
    <3>3. TimeDiff(cur, Now32(due + Interval)) = now - (due + Interval)
      BY <1>1, <1>2, <1>10, Numbers, DiffExact
    <3>4. After(cur, Interval) = Now32(now + Interval)
      BY <1>1, Numbers, AfterExact
    <3>5. /\ updated' = TRUE
          /\ ts_flush' = NextFlush(cur)
          /\ \E n \in 0..MaxSegments - snd_nxt : Flush(cur, n)
      BY <1>1, <1>3, <1>10, <2>1, <3>1 DEF Update
    <3>6. last_flush' = now
      BY <3>5 DEF Flush
    <3>7. CASE now >= due + Interval
      <4>1. ts_flush' = Now32(now + Interval)
        BY <1>1, <3>1, <3>2, <3>3, <3>4, <3>5, <3>7, Numbers DEF NextFlush
      <4>2. QED
        BY <1>1, <2>1, <3>5, <3>6, <4>1, Numbers, FlushKeeps
    <3>8. CASE now < due + Interval
      <4>1. ts_flush' = Now32(due + Interval)
        BY <1>1, <3>1, <3>2, <3>3, <3>5, <3>8, Numbers DEF NextFlush
      <4>2. due + Interval \in Nat /\ due + Interval <= now + Interval
        BY <1>1, <1>10, Numbers
      <4>3. QED
        BY <1>1, <2>1, <3>5, <3>6, <3>8, <4>1, <4>2, FlushKeeps
    <3>9. QED
      BY <1>1, <3>7, <3>8, Numbers
  <2>4. QED
    BY <2>2, <2>3
<1>11. QED
  BY <1>1, <1>8, <1>9, <1>10

LEMMA RhythmNext == RhythmInv /\ [Next]_vars => Rhythm'
<1> SUFFICES ASSUME RhythmInv, [Next]_vars PROVE Rhythm'
  OBVIOUS
<1>1. now \in Nat /\ wake \in Nat /\ last_flush \in Nat /\ updated \in BOOLEAN
  BY DEF RhythmInv, TypeInv, TypeOK
<1>2. ASSUME UNCHANGED <<wake, updated, ts_flush, last_flush>>,
             now' \in Nat, last_flush <= now', now' <= wake + Jitter
      PROVE  Rhythm'
  BY <1>2 DEF RhythmInv, Rhythm, FlushDue
<1>3. CASE Tick
  <2>1. /\ UNCHANGED <<wake, updated, ts_flush, last_flush>>
        /\ now' = now + 1 /\ now < wake + Jitter
    BY <1>3 DEF Tick, kcpVars
  <2>2. last_flush <= now
    BY DEF RhythmInv, Rhythm
  <2>3. QED
    BY <1>1, <1>2, <2>1, <2>2, Numbers
<1>4. CASE OnRun /\ updated
  <2>1. PICK due \in 0..last_flush + Interval : FlushDue(due)
    BY <1>4 DEF RhythmInv, Rhythm
  <2>2. due \in Nat /\ due <= last_flush + Interval
    BY <1>1, <2>1, Numbers
  <2>3. QED
    BY <1>4, <2>1, <2>2, RunKeeps
<1>5. CASE OnRun /\ ~updated
  <2>1. DueNow(Now32(now)) /\ FlushBase(Now32(now)) = Now32(now)
    BY <1>5 DEF DueNow, FlushBase
  <2>2. Update(Now32(now)) /\ wake' = now + 1 /\ now' = now
    BY <1>5, <2>1 DEF OnRun, Check
  <2>3. QED
    BY <2>1, <2>2, RestartKeeps DEF RhythmInv
<1>6. CASE \/ \E a \in answers, una \in 0..snd_nxt : InputAck(a, una)
           \/ \E una \in 0..snd_nxt : InputWindow(una)
           \/ UNCHANGED vars
  <2>1. UNCHANGED <<wake, updated, ts_flush, last_flush, now>>
    BY <1>6 DEF InputAck, InputWindow, vars
  <2>2. last_flush <= now /\ now <= wake + Jitter
    BY DEF RhythmInv, Rhythm
  <2>3. QED
    BY <1>1, <1>2, <2>1, <2>2
<1>7. QED
  BY <1>1, <1>3, <1>4, <1>5, <1>6 DEF Next

LEMMA RhythmOnTime == RhythmInv => FlushedOnTime
<1> SUFFICES ASSUME RhythmInv PROVE FlushedOnTime
  OBVIOUS
<1>1. now \in Nat /\ wake \in Nat /\ last_flush \in Nat /\ updated \in BOOLEAN
      /\ now <= wake + Jitter
  BY DEF RhythmInv, TypeInv, TypeOK, Rhythm
<1>2. wake <= last_flush + Interval
  <2>1. CASE updated
    <3>1. PICK due \in 0..last_flush + Interval : FlushDue(due)
      BY <2>1 DEF RhythmInv, Rhythm
    <3>2. QED
      BY <1>1, <3>1, Numbers DEF FlushDue
  <2>2. CASE ~updated
    BY <1>1, <2>2, Numbers DEF RhythmInv, Rhythm
  <2>3. QED
    BY <1>1, <2>1, <2>2
<1>3. QED
  BY <1>1, <1>2, Numbers DEF FlushedOnTime

(* However the calls fall and wherever the clock comes round, the control   *)
(* block is flushed within an Interval, and the lateness of the executor,   *)
(* of the last time (ikcp_update, ikcp_check, KCPStream::OnRun).            *)
THEOREM FlushesKeepTime == Spec => []FlushedOnTime
<1>1. Init => RhythmInv
  BY InitType, RhythmInit DEF RhythmInv
<1>2. RhythmInv /\ [Next]_vars => RhythmInv'
  BY NextType, RhythmNext DEF RhythmInv
<1>3. QED
  BY <1>1, <1>2, RhythmOnTime, PTL DEF Spec

LEMMA RhythmCorrect == Spec => []RhythmInv
<1>1. Init => RhythmInv
  BY InitType, RhythmInit DEF RhythmInv
<1>2. RhythmInv /\ [Next]_vars => RhythmInv'
  BY NextType, RhythmNext DEF RhythmInv
<1>3. QED
  BY <1>1, <1>2, PTL DEF Spec

-----------------------------------------------------------------------------
(* Retransmissions and window probes.  A stamp in the future may be taken   *)
(* for one in the past when it is half a clock away, and then fires early;  *)
(* but one that has passed, within the time between two flushes, is always  *)
(* seen.  So the timers are late at most, never lost, however large the     *)
(* timeout of a segment has grown.                                          *)

(* resendts stands for the time at which s is to be sent again, and the     *)
(* last flush, at the time flushed, was before it.                          *)
ResendDue(s, flushed) ==
  /\ s.xmit > 0 /\ s.rto > 0
  /\ s.resendts = Now32(s.sent + Timeout(s))
  /\ flushed < s.sent + Timeout(s)

(* The stamp ts stands for a time after the flush at the time flushed, and  *)
(* at most IKCP_PROBE_LIMIT after probed.                                   *)
ProbeBy(ts, flushed, probed) ==
  \E due \in Nat : /\ ts = Now32(due)
                   /\ flushed < due
                   /\ due <= probed + IKCP_PROBE_LIMIT

Deadlines ==
  /\ rtt.rto > 0
  /\ \A s \in snd_buf : ResendDue(s, last_flush)
  /\ last_probe <= now
  /\ probe_wait # 0 => ProbeBy(ts_probe, last_flush, last_probe)
  /\ closed /\ probe_wait = 0 => last_flush <= last_probe

DeadlineInv == RhythmInv /\ Deadlines

LEMMA DeadlineInit == Init => Deadlines
<1> SUFFICES ASSUME Init PROVE Deadlines
  OBVIOUS
<1>1. now \in Nat /\ IKCP_RTO_DEF > 0
  BY TimerAssumption DEF Init
<1>2. QED
  BY <1>1 DEF Init, Deadlines

(* A time that has passed since the last flush is seen to have passed. *)
LEMMA PassedIsSeen ==
  ASSUME RhythmInv, NEW due \in Nat, last_flush < due, due <= now
  PROVE  TimeDiff(Now32(now), Now32(due)) >= 0
<1>1. now \in Nat /\ last_flush \in Nat
  BY DEF RhythmInv, TypeInv, TypeOK
<1>2. now - last_flush <= Interval + Jitter
  BY RhythmOnTime DEF FlushedOnTime
<1>3. now - due < Half /\ due - now <= Half
  BY <1>1, <1>2, Numbers
<1>4. TimeDiff(Now32(now), Now32(due)) = now - due
  BY <1>1, <1>3, DiffExact
<1>5. QED
  BY <1>1, <1>4

LEMMA TimeoutType ==
  ASSUME NEW s \in Timer, s.rto > 0
  PROVE  Timeout(s) \in Nat /\ Timeout(s) > 0
<1>1. s.rto \in Nat /\ s.rto \div 8 \in Nat
  BY HalfOf DEF Timer
<1>2. QED
  BY <1>1 DEF Timeout

(* A segment that a flush sends has its deadline after the flush. *)
LEMMA SentDue ==
  ASSUME TypeInv, NEW s \in Timer, s.sent = now, s.xmit > 0, s.rto > 0,
         s.resendts = After(Now32(now), Timeout(s))
  PROVE  ResendDue(s, now)
<1>1. now \in Nat
  BY DEF TypeInv, TypeOK
<1>2. Timeout(s) \in Nat /\ Timeout(s) > 0
  BY TimeoutType
<1>3. s.resendts = Now32(s.sent + Timeout(s))
  BY <1>1, <1>2, AfterExact
<1>4. now < now + Timeout(s)
  BY <1>1, <1>2
<1>5. QED
  BY <1>3, <1>4 DEF ResendDue

LEMMA FreshDue ==
  ASSUME TypeInv, rtt.rto > 0, NEW sn \in Nat
  PROVE  ResendDue(FirstSent(sn, Now32(now)), now)
<1> DEFINE s == FirstSent(sn, Now32(now))
<1>1. s \in Timer
  <2>1. [sn |-> 0, xmit |-> 0, fastack |-> 0, rto |-> 0,
         resendts |-> Now32(now), sent |-> 0] \in Timer
    BY CurType DEF Timer
  <2>2. QED
    BY <2>1, CurType, SentType
<1>2. s.xmit = 1 /\ s.rto = rtt.rto /\ s.sent = now
      /\ s.resendts = After(Now32(now), rtt.rto + RtoMin)
  BY DEF FirstSent
<1>3. rtt.rto \in Nat /\ rtt.rto \div 8 \in Nat
  BY HalfOf DEF TypeInv, TypeOK
<1> HIDE DEF s
<1>4. Timeout(s) = rtt.rto + RtoMin
  BY <1>2, <1>3, Numbers DEF Timeout, RtoMin
<1>5. QED
  BY <1>1, <1>2, <1>4, SentDue DEF s

LEMMA AgainDue ==
  ASSUME TypeInv, rtt.rto > 0, NEW s \in Timer, s.xmit > 0, s.rto > 0
  PROVE  ResendDue(Resent(s, Now32(now)), now)
<1> DEFINE rto == s.rto + (IF NoDelay THEN rtt.rto \div 2 ELSE rtt.rto)
           t == Resent(s, Now32(now))
<1>1. t \in Timer
  BY CurType, SentType DEF Timer
<1>2. s.rto \in Nat /\ s.xmit \in Nat /\ rtt.rto \in Nat
      /\ rtt.rto \div 2 \in Nat
  BY HalfOf DEF TypeInv, TypeOK, Timer
<1>3. t.xmit = s.xmit + 1 /\ t.rto = rto /\ t.sent = now
      /\ t.resendts = After(Now32(now), rto)
  BY DEF Resent, Timer
<1>4. rto > 0
  BY <1>2
<1> HIDE DEF t, rto
<1>5. t.xmit > 0 /\ t.xmit # 1
  BY <1>2, <1>3
<1>6. rto \in Nat
  BY <1>1, <1>3 DEF Timer
<1>7. Timeout(t) = rto
  BY <1>3, <1>5, <1>6 DEF Timeout
<1>8. QED
  BY <1>1, <1>3, <1>4, <1>5, <1>7, SentDue DEF t

(* A segment sent again early waits for its timeout once more. *)
LEMMA FastDue ==
  ASSUME TypeInv, NEW s \in Timer, s.xmit > 0, s.rto > 0
  PROVE  ResendDue(FastResent(s, Now32(now)), now)
<1> DEFINE t == FastResent(s, Now32(now))
<1>1. t \in Timer
  BY CurType, SentType DEF Timer
<1>2. s.rto \in Nat /\ s.xmit \in Nat
  BY DEF Timer
<1>3. t.xmit = s.xmit + 1 /\ t.rto = s.rto /\ t.sent = now
      /\ t.resendts = After(Now32(now), s.rto)
  BY DEF FastResent, Timer
<1> HIDE DEF t
<1>4. t.xmit > 0 /\ t.xmit # 1
  BY <1>2, <1>3
<1>5. Timeout(t) = s.rto
  BY <1>2, <1>3, <1>4 DEF Timeout
<1>6. QED
  BY <1>1, <1>3, <1>4, <1>5, SentDue DEF t

(* ikcp_flush: the segments that it leaves alone are not due yet. *)
LEMMA FlushDeadlines ==
  ASSUME DeadlineInv, NEW n \in Nat, Flush(Now32(now), n)
  PROVE  \A s \in snd_buf' : ResendDue(s, now)
<1> DEFINE cur == Now32(now)
<1>1. /\ TypeInv /\ rtt.rto > 0
      /\ \A s \in snd_buf : ResendDue(s, last_flush) /\ s \in Timer
      /\ snd_nxt \in Nat /\ now \in Nat
  BY DEF DeadlineInv, Deadlines, RhythmInv, TypeInv, TypeOK
<1>2. snd_buf' = Alone(cur) \cup Again(cur) \cup Fresh(cur, n)
  BY FlushParts
<1>3. ASSUME NEW s \in snd_buf, ~Expired(s, cur)
      PROVE  ResendDue(s, now)
  <2> DEFINE due == s.sent + Timeout(s)
  <2>1. ResendDue(s, last_flush) /\ s \in Timer
    BY <1>1
  <2>2. /\ s.xmit > 0 /\ s.rto > 0
        /\ s.resendts = Now32(due)
        /\ last_flush < due
    BY <2>1 DEF ResendDue
  <2>3. due \in Nat
    BY <2>1, <2>2, TimeoutType DEF Timer
  <2> HIDE DEF due
  <2>4. ~(TimeDiff(cur, Now32(due)) >= 0)
    BY <1>3, <2>2 DEF Expired
  <2>5. ~(due <= now)
    BY <2>2, <2>3, <2>4, PassedIsSeen DEF DeadlineInv
  <2>6. now < due
    BY <1>1, <2>3, <2>5
  <2>7. QED
    BY <2>2, <2>6 DEF ResendDue, due
<1>4. ASSUME NEW i \in 0..n-1
      PROVE  ResendDue(FirstSent(snd_nxt + i, cur), now)
  <2>1. snd_nxt + i \in Nat
    BY <1>1
  <2>2. QED
    BY <1>1, <2>1, FreshDue
<1>5. ASSUME NEW s \in snd_buf
      PROVE  ResendDue(Resent(s, cur), now) /\ ResendDue(FastResent(s, cur), now)
  BY <1>1, AgainDue, FastDue DEF ResendDue
<1>6. \A s \in Alone(cur) : ResendDue(s, now)
  BY <1>3 DEF Alone
<1>7. \A s \in Again(cur) : ResendDue(s, now)
  BY <1>5 DEF Again
<1>8. \A s \in Fresh(cur, n) : ResendDue(s, now)
  BY <1>4 DEF Fresh
<1>9. QED
  BY <1>2, <1>6, <1>7, <1>8

LEMMA ProbeWaitBounded ==
  ASSUME TypeInv
  PROVE  /\ NextProbeWait \in Nat /\ NextProbeWait > 0
         /\ NextProbeWait <= IKCP_PROBE_LIMIT
         /\ IKCP_PROBE_INIT > 0 /\ IKCP_PROBE_INIT <= IKCP_PROBE_LIMIT
<1>1. /\ IKCP_PROBE_INIT \in Nat /\ IKCP_PROBE_INIT > 0
      /\ IKCP_PROBE_LIMIT \in Nat /\ IKCP_PROBE_LIMIT > 0
      /\ IKCP_PROBE_INIT <= IKCP_PROBE_LIMIT
  BY TimerAssumption
<1> DEFINE wait == Max2(probe_wait, IKCP_PROBE_INIT)
<1>2. wait \in Nat /\ wait > 0
  BY <1>1 DEF Max2, TypeInv, TypeOK
<1> HIDE DEF wait
<1>3. wait \div 2 \in Nat
  BY <1>2, HalfOf
<1>4. wait + wait \div 2 \in Nat /\ wait + wait \div 2 > 0
  BY <1>2, <1>3
<1>5. NextProbeWait = Min2(wait + wait \div 2, IKCP_PROBE_LIMIT)
  BY DEF NextProbeWait, wait
<1>6. QED
  BY <1>1, <1>4, <1>5 DEF Min2

(* A probe, or a window just found closed, puts the next probe in the       *)
(* future. *)
LEMMA ProbeAhead ==
  ASSUME NEW t \in Nat, NEW wait \in Nat, wait > 0, wait <= IKCP_PROBE_LIMIT
  PROVE  ProbeBy(After(Now32(t), wait), t, t)
<1>1. After(Now32(t), wait) = Now32(t + wait)
  BY AfterExact
<1>2. t + wait \in Nat /\ t < t + wait /\ t + wait <= t + IKCP_PROBE_LIMIT
  BY Numbers
<1>3. QED
  BY <1>1, <1>2 DEF ProbeBy

(* ikcp_flush: the window probe timer. *)
LEMMA FlushProbes ==
  ASSUME DeadlineInv, Probe(Now32(now))
  PROVE  /\ last_probe' <= now
         /\ probe_wait' # 0 => ProbeBy(ts_probe', now, last_probe')
         /\ closed => probe_wait' # 0
<1> DEFINE cur == Now32(now)
<1>1. TypeInv /\ now \in Nat /\ last_probe \in Nat /\ last_probe <= now
      /\ last_flush \in Nat
  BY DEF DeadlineInv, Deadlines, RhythmInv, TypeInv, TypeOK
<1>2. /\ ProbeBy(After(cur, NextProbeWait), now, now)
      /\ ProbeBy(After(cur, IKCP_PROBE_INIT), now, now)
      /\ IKCP_PROBE_INIT # 0 /\ NextProbeWait # 0
  BY <1>1, Numbers, ProbeWaitBounded, ProbeAhead
<1>3. CASE closed /\ probe_wait # 0 /\ ~ProbeDue(cur)
  <2>1. UNCHANGED <<probe_wait, ts_probe, last_probe>>
    BY <1>3 DEF Probe
  <2>2. PICK due \in Nat : /\ ts_probe = Now32(due)
                          /\ last_flush < due
                          /\ due <= last_probe + IKCP_PROBE_LIMIT
    BY <1>3 DEF DeadlineInv, Deadlines, ProbeBy
  <2> HIDE DEF cur
  <2>4. ~(TimeDiff(cur, ts_probe) >= 0)
    BY <1>3 DEF ProbeDue
  <2>5. ~(due <= now)
    BY <2>2, <2>4, PassedIsSeen DEF DeadlineInv, cur
  <2>6. now < due
    BY <1>1, <2>5
  <2>7. ProbeBy(ts_probe, now, last_probe)
    BY <2>2, <2>6 DEF ProbeBy
  <2>8. QED
    BY <1>1, <1>3, <2>1, <2>7
<1>4. CASE ~(closed /\ probe_wait # 0 /\ ~ProbeDue(cur))
  <2> HIDE DEF cur
  <2>1. last_probe' = now
    BY <1>4 DEF Probe, cur
  <2>2. \/ ~closed /\ probe_wait' = 0
        \/ probe_wait' = IKCP_PROBE_INIT /\ ts_probe' = After(cur, IKCP_PROBE_INIT)
        \/ probe_wait' = NextProbeWait /\ ts_probe' = After(cur, NextProbeWait)
    BY <1>4 DEF Probe, cur
  <2>3. QED
    BY <1>1, <1>2, <2>1, <2>2
<1>5. QED
  BY <1>3, <1>4

(* The step of a call that does not flush, and leaves the timers alone or    *)
(* takes some away. *)
LEMMA QuietDeadlines ==
  ASSUME DeadlineInv, rtt.rto' > 0, Kept(snd_buf'),
         UNCHANGED <<last_flush, probe_wait, ts_probe>>,
         now' >= now, last_probe' >= last_probe, last_probe' <= now',
         last_probe' \in Nat,
         closed' /\ probe_wait = 0 => last_flush <= last_probe'
  PROVE  Deadlines'
<1>1. last_probe \in Nat
  BY DEF DeadlineInv, RhythmInv, TypeInv, TypeOK
<1>2. ASSUME NEW t \in snd_buf'
      PROVE  ResendDue(t, last_flush)
  <2>1. PICK s \in snd_buf : SameTimer(s, t)
    BY DEF Kept
  <2>2. ResendDue(s, last_flush)
    BY DEF DeadlineInv, Deadlines
  <2>3. QED
    BY <2>1, <2>2 DEF SameTimer, ResendDue, Timeout
<1>3. probe_wait # 0 => ProbeBy(ts_probe, last_flush, last_probe')
  <2> SUFFICES ASSUME probe_wait # 0
               PROVE  ProbeBy(ts_probe, last_flush, last_probe')
    OBVIOUS
  <2>1. PICK due \in Nat : /\ ts_probe = Now32(due)
                          /\ last_flush < due
                          /\ due <= last_probe + IKCP_PROBE_LIMIT
    BY DEF DeadlineInv, Deadlines, ProbeBy
  <2>2. \A p, q \in Nat : p <= q /\ due <= p + IKCP_PROBE_LIMIT
                          => due <= q + IKCP_PROBE_LIMIT
    BY Numbers
  <2>3. due <= last_probe' + IKCP_PROBE_LIMIT
    BY <1>1, <2>1, <2>2
  <2>4. QED
    BY <2>1, <2>3 DEF ProbeBy
<1>4. QED
  BY <1>2, <1>3 DEF Deadlines

LEMMA TickDeadlines == DeadlineInv /\ Tick => Deadlines'
<1> SUFFICES ASSUME DeadlineInv, Tick PROVE Deadlines'
  OBVIOUS
<1>1. /\ now' = now + 1
      /\ UNCHANGED <<rtt, snd_buf, last_flush, probe_wait, ts_probe, last_probe,
                     closed>>
  BY DEF Tick, kcpVars
<1>2. now \in Nat /\ last_probe \in Nat
  BY DEF DeadlineInv, RhythmInv, TypeInv, TypeOK
<1>3. rtt.rto > 0 /\ last_probe <= now
      /\ (closed /\ probe_wait = 0 => last_flush <= last_probe)
  BY DEF DeadlineInv, Deadlines
<1>4. now' >= now /\ last_probe' >= last_probe /\ last_probe' <= now'
  BY <1>1, <1>2, <1>3
<1>5. Kept(snd_buf')
  BY <1>1, SameIsKept DEF DeadlineInv, RhythmInv, TypeInv, TypeOK
<1>6. QED
  BY <1>1, <1>2, <1>3, <1>4, <1>5, QuietDeadlines

LEMMA RunDeadlines == DeadlineInv /\ OnRun => Deadlines'
<1> SUFFICES ASSUME DeadlineInv, OnRun PROVE Deadlines'
  OBVIOUS
<1> DEFINE cur == Now32(now)
<1>1. /\ UNCHANGED <<now, closed, rtt>>
      /\ Update(cur) \/ UNCHANGED kcpVars
  BY DEF OnRun
<1>2. /\ now \in Nat /\ last_probe \in Nat /\ rtt.rto > 0
      /\ last_probe <= now
      /\ (closed /\ probe_wait = 0 => last_flush <= last_probe)
  BY DEF DeadlineInv, Deadlines, RhythmInv, TypeInv, TypeOK
<1>3. CASE UNCHANGED <<snd_buf, probe_wait, ts_probe, last_flush, last_probe>>
  <2>1. now' >= now /\ last_probe' >= last_probe /\ last_probe' <= now'
    BY <1>1, <1>2, <1>3
  <2>2. Kept(snd_buf')
    BY <1>3, SameIsKept DEF DeadlineInv, RhythmInv, TypeInv, TypeOK
  <2>3. QED
    BY <1>1, <1>2, <1>3, <2>1, <2>2, QuietDeadlines
<1>4. ASSUME NEW n \in 0..MaxSegments - snd_nxt, Flush(cur, n)
      PROVE  Deadlines'
  <2>0. n \in Nat
    BY TakenType DEF DeadlineInv, RhythmInv
  <2>1. \A s \in snd_buf' : ResendDue(s, now)
    BY <1>4, <2>0, FlushDeadlines
  <2>2. Probe(cur) /\ last_flush' = now
    BY <1>4 DEF Flush
  <2>3. /\ last_probe' <= now
        /\ probe_wait' # 0 => ProbeBy(ts_probe', now, last_probe')
        /\ closed => probe_wait' # 0
    BY <2>2, FlushProbes
  <2>4. QED
    BY <1>1, <1>2, <2>1, <2>2, <2>3 DEF Deadlines
<1>5. QED
  BY <1>1, <1>3, <1>4 DEF Update, kcpVars

LEMMA AckDeadlines ==
  ASSUME DeadlineInv, NEW a \in answers, NEW una \in 0..snd_nxt,
         InputAck(a, una)
  PROVE  Deadlines'
<1> DEFINE sample == TimeDiff(current, a.ts)
<1>1. /\ now \in Nat /\ last_probe \in Nat /\ rtt.rto > 0
      /\ last_probe <= now
      /\ (closed /\ probe_wait = 0 => last_flush <= last_probe)
      /\ current \in Stamp /\ a.ts \in Stamp
      /\ rtt \in [srtt : Nat, rttval : Nat, rto : Nat]
  BY DEF DeadlineInv, Deadlines, RhythmInv, TypeInv, TypeOK
<1>2. /\ snd_buf' = ParseAck(ParseUna(una), a.sn)
      /\ IF sample >= 0 THEN rtt' = UpdateAck(rtt, sample) ELSE UNCHANGED rtt
      /\ UNCHANGED <<now, closed, probe_wait, ts_probe, last_flush, last_probe>>
  BY DEF InputAck
<1>3. sample \in Int
  BY <1>1, DiffType
<1> HIDE DEF sample
<1>4. rtt.rto' > 0
  <2>1. CASE sample >= 0
    <3>1. sample \in Nat
      BY <1>3, <2>1
    <3>2. UpdateAck(rtt, sample).rto > 0
      BY <1>1, <3>1, UpdateAckType
    <3>3. QED
      BY <1>2, <2>1, <3>2
  <2>2. CASE ~(sample >= 0)
    BY <1>1, <1>2, <2>2
  <2>3. QED
    BY <2>1, <2>2
<1>5. now' >= now /\ last_probe' >= last_probe /\ last_probe' <= now'
      /\ last_probe' \in Nat
  BY <1>1, <1>2
<1>6. Kept(snd_buf')
  BY <1>2, ParseKeeps DEF DeadlineInv, RhythmInv, TypeInv, TypeOK
<1>7. QED
  BY <1>1, <1>2, <1>4, <1>5, <1>6, QuietDeadlines

LEMMA WindowDeadlines ==
  ASSUME DeadlineInv, NEW una \in 0..snd_nxt, InputWindow(una)
  PROVE  Deadlines'
<1>1. /\ now \in Nat /\ last_probe \in Nat /\ last_flush \in Nat
      /\ rtt.rto > 0 /\ last_probe <= now
      /\ (closed /\ probe_wait = 0 => last_flush <= last_probe)
      /\ closed \in BOOLEAN /\ last_flush <= now
  BY DEF DeadlineInv, Deadlines, RhythmInv, Rhythm, TypeInv, TypeOK
<1>2. /\ closed' = ~closed
      /\ last_probe' = IF closed THEN last_probe ELSE now
      /\ snd_buf' = ParseUna(una)
      /\ UNCHANGED <<now, rtt, last_flush, probe_wait, ts_probe>>
  BY DEF InputWindow
<1>3. now' >= now /\ last_probe' >= last_probe /\ last_probe' <= now'
      /\ last_probe' \in Nat
  BY <1>1, <1>2
<1>4. closed' => last_flush <= last_probe'
  BY <1>1, <1>2
<1>5. Kept(snd_buf')
  BY <1>2, ParseKeeps DEF DeadlineInv, RhythmInv, TypeInv, TypeOK
<1>6. QED
  BY <1>1, <1>2, <1>3, <1>4, <1>5, QuietDeadlines

LEMMA DeadlineNext == DeadlineInv /\ [Next]_vars => Deadlines'
<1> SUFFICES ASSUME DeadlineInv, [Next]_vars PROVE Deadlines'
  OBVIOUS
<1>1. CASE UNCHANGED vars
  BY <1>1 DEF vars, DeadlineInv, Deadlines
<1>2. QED
  BY <1>1, TickDeadlines, RunDeadlines, AckDeadlines, WindowDeadlines DEF Next

LEMMA DeadlinesCorrect == Spec => []DeadlineInv
<1>1. Init => Deadlines
  BY DeadlineInit
<1>2. RhythmInv /\ Deadlines /\ [Next]_vars => Deadlines'
  BY DeadlineNext DEF DeadlineInv
<1>3. RhythmInv /\ Deadlines => DeadlineInv
  BY DEF DeadlineInv
<1>4. QED
  BY <1>1, <1>2, <1>3, RhythmCorrect, PTL DEF Spec

LEMMA DeadlinesKept == DeadlineInv => ResentOnTime /\ ProbedOnTime
<1> SUFFICES ASSUME DeadlineInv PROVE ResentOnTime /\ ProbedOnTime
  OBVIOUS
<1>1. /\ now \in Nat /\ last_flush \in Nat /\ last_probe \in Nat
      /\ probe_wait \in Nat /\ snd_buf \subseteq Timer
  BY DEF DeadlineInv, RhythmInv, TypeInv, TypeOK
<1>2. now - last_flush <= Interval + Jitter
  BY RhythmOnTime DEF DeadlineInv, FlushedOnTime
<1>3. ASSUME NEW s \in snd_buf
      PROVE  now - s.sent < Timeout(s) + Interval + Jitter
  <2>1. ResendDue(s, last_flush) /\ s \in Timer
    BY <1>1 DEF DeadlineInv, Deadlines
  <2>2. Timeout(s) \in Nat /\ s.sent \in Nat
    BY <2>1, TimeoutType DEF ResendDue, Timer
  <2>3. last_flush < s.sent + Timeout(s)
    BY <2>1 DEF ResendDue
  <2>4. QED
    BY <1>1, <1>2, <2>2, <2>3, Numbers
<1>4. ASSUME closed
      PROVE  now - last_probe < IKCP_PROBE_LIMIT + Interval + Jitter
  <2>1. CASE probe_wait = 0
    <3>1. last_flush <= last_probe /\ IKCP_PROBE_LIMIT > 0
      BY <1>4, <2>1, TimerAssumption DEF DeadlineInv, Deadlines
    <3>2. QED
      BY <1>1, <1>2, <3>1, Numbers
  <2>2. CASE probe_wait # 0
    <3>1. PICK due \in Nat : /\ last_flush < due
                            /\ due <= last_probe + IKCP_PROBE_LIMIT
      BY <2>2 DEF DeadlineInv, Deadlines, ProbeBy
    <3>2. QED
      BY <1>1, <1>2, <3>1, Numbers
  <2>3. QED
    BY <2>1, <2>2
<1>5. QED
  BY <1>3, <1>4 DEF ResentOnTime, ProbedOnTime

(* A segment that is not acknowledged is sent again within an Interval, and *)
(* the lateness of the executor, of its timeout, wherever the clock comes   *)
(* round and however large the timeout has grown (ikcp_flush).              *)
THEOREM ResendsKeepTime == Spec => []ResentOnTime
BY DeadlinesCorrect, DeadlinesKept, PTL

(* While the peer's window is closed, it is asked for it again within the   *)
(* longest wait between two probes, an Interval and the lateness of the     *)
(* executor (ikcp_flush), also when it opens and closes in between.         *)
THEOREM ProbesKeepTime == Spec => []ProbedOnTime
BY DeadlinesCorrect, DeadlinesKept, PTL

-----------------------------------------------------------------------------
(* The estimate of the round trip.  A sample is taken with kcp->current,     *)
(* the time of the last ikcp_update, and is the difference of two stamps:   *)
(* never more than the true round trip, and as long as the run is shorter   *)
(* than one turn of the clock, less by at most the age of kcp->current.     *)

ShortRun == \A t \in StartTime : MaxTime - t < Modulus

(* Nothing in flight is older than the stream. *)
Younger(start) ==
  /\ start <= now
  /\ now - start < Modulus
  /\ \A a \in answers : start <= a.sent

(* current stands for a time since the last flush. *)
CurrentIs(c) == c \in last_flush..now /\ current = Now32(c)

Stamped ==
  /\ \E start \in StartTime : Younger(start)
  /\ answers # {} => \E c \in Nat : CurrentIs(c)
  /\ \A a \in answers : a.ts = Now32(a.sent) /\ a.sent <= last_flush

StampedInv == RhythmInv /\ Stamped

LEMMA StampedInit == ShortRun /\ Init => Stamped
<1> SUFFICES ASSUME ShortRun, Init PROVE Stamped
  OBVIOUS
<1>1. now \in StartTime /\ now \in Nat /\ answers = {} /\ 0 < Modulus
  BY TimerAssumption, ModulusFacts DEF Init
<1>2. Younger(now)
  BY <1>1 DEF Younger
<1>3. QED
  BY <1>1, <1>2 DEF Stamped

LEMMA StampedTick == ShortRun /\ StampedInv /\ Tick => Stamped'
<1> SUFFICES ASSUME ShortRun, StampedInv, Tick PROVE Stamped'
  OBVIOUS
<1>1. now' = now + 1 /\ now < MaxTime
      /\ UNCHANGED <<current, answers, last_flush>>
  BY DEF Tick, kcpVars
<1>2. now \in Nat /\ last_flush \in Nat /\ Modulus \in Nat
  BY ModulusFacts DEF StampedInv, RhythmInv, TypeInv, TypeOK
<1>3. PICK start \in StartTime : Younger(start)
  BY DEF StampedInv, Stamped
<1>4. start \in Nat /\ MaxTime \in Nat /\ MaxTime - start < Modulus
  BY TimerAssumption DEF ShortRun
<1>5. Younger(start)'
  BY <1>1, <1>2, <1>3, <1>4 DEF Younger
<1>6. ASSUME NEW c \in Nat, CurrentIs(c)
      PROVE  CurrentIs(c)'
  BY <1>1, <1>2, <1>6 DEF CurrentIs
<1>7. (answers # {} => \E c \in Nat : CurrentIs(c))'
  BY <1>1, <1>6 DEF StampedInv, Stamped
<1>8. (\A a \in answers : a.ts = Now32(a.sent) /\ a.sent <= last_flush)'
  BY <1>1 DEF StampedInv, Stamped
<1>9. QED
  BY <1>5, <1>7, <1>8 DEF Stamped

LEMMA StampedRun == StampedInv /\ OnRun => Stamped'
<1> SUFFICES ASSUME StampedInv, OnRun PROVE Stamped'
  OBVIOUS
<1> DEFINE cur == Now32(now)
<1>1. now' = now /\ (Update(cur) \/ UNCHANGED kcpVars)
  BY DEF OnRun
<1>2. now \in Nat /\ last_flush \in Nat /\ last_flush <= now
  BY DEF StampedInv, RhythmInv, Rhythm, TypeInv, TypeOK
<1>2a. PICK t \in Nat : t = now
  BY <1>2
<1>3. PICK start \in StartTime : Younger(start)
  BY DEF StampedInv, Stamped
<1>4. CASE UNCHANGED kcpVars
  BY <1>1, <1>4 DEF kcpVars, StampedInv, Stamped, Younger, CurrentIs
<1>5. CASE Update(cur) /\ UNCHANGED <<answers, last_flush>>
  <2>1. CurrentIs(t)'
    BY <1>2a, <1>1, <1>2, <1>5 DEF Update, CurrentIs
  <2>2. Younger(start)'
    BY <1>1, <1>3, <1>5 DEF Younger
  <2>3. \A a \in answers : a.ts = Now32(a.sent) /\ a.sent <= last_flush
    BY DEF StampedInv, Stamped
  <2>4. \E c \in Nat : CurrentIs(c)'
    BY <2>1
  <2>5. QED
    BY <1>5, <2>2, <2>3, <2>4 DEF Stamped
<1>6. ASSUME Update(cur), NEW n, Flush(cur, n)
      PROVE  Stamped'
  <2> DEFINE sent == {[sn |-> s.sn, ts |-> cur, sent |-> now] :
                        s \in Again(cur) \cup Fresh(cur, n)}
  <2>1. answers' = answers \cup sent /\ last_flush' = now
    BY <1>6, FlushParts
  <2>2. \A a \in sent : a.ts = cur /\ a.sent = now
    OBVIOUS
  <2> HIDE DEF sent
  <2>3. start <= now
    BY <1>3 DEF Younger
  <2>4. Younger(start)'
    BY <1>1, <1>3, <2>1, <2>2, <2>3 DEF Younger
  <2>5. ASSUME NEW a \in answers'
        PROVE  a.ts = Now32(a.sent) /\ a.sent <= now
    <3>1. CASE a \in sent
      BY <1>2, <2>2, <3>1
    <3>2. CASE a \in answers
      BY <3>2 DEF StampedInv, Stamped, RhythmInv, TypeInv
    <3>3. QED
      BY <2>1, <3>1, <3>2
  <2>6. CurrentIs(t)'
    BY <1>2a, <1>1, <1>2, <1>6, <2>1 DEF Update, CurrentIs
  <2>7. \E c \in Nat : CurrentIs(c)'
    BY <2>6
  <2>8. QED
    BY <2>1, <2>4, <2>5, <2>7 DEF Stamped
<1>7. QED
  BY <1>1, <1>4, <1>5, <1>6 DEF Update

LEMMA StampedNext == ShortRun /\ StampedInv /\ [Next]_vars => Stamped'
<1> SUFFICES ASSUME ShortRun, StampedInv, [Next]_vars PROVE Stamped'
  OBVIOUS
<1>1. ASSUME UNCHANGED <<now, current, last_flush>>, answers' \subseteq answers
      PROVE  Stamped'
  BY <1>1 DEF StampedInv, Stamped, Younger, CurrentIs
<1>2. CASE \/ \E a \in answers, una \in 0..snd_nxt : InputAck(a, una)
           \/ \E una \in 0..snd_nxt : InputWindow(una)
           \/ UNCHANGED vars
  BY <1>1, <1>2 DEF InputAck, InputWindow, vars
<1>3. QED
  BY <1>2, StampedTick, StampedRun DEF Next

LEMMA StampedCorrect ==
  ASSUME ShortRun
  PROVE  Spec => []StampedInv
<1>1. Init => Stamped
  BY StampedInit
<1>2. RhythmInv /\ Stamped /\ [Next]_vars => Stamped'
  BY StampedNext DEF StampedInv
<1>3. RhythmInv /\ Stamped => StampedInv
  BY DEF StampedInv
<1>4. QED
  BY <1>1, <1>2, <1>3, RhythmCorrect, PTL DEF Spec

(* A sample that ikcp_input accepts is at most the true round trip, and at  *)
(* most an Interval and the lateness of the executor less. *)
LEMMA SampleIsTrue ==
  ASSUME StampedInv, NEW a \in answers, TimeDiff(current, a.ts) >= 0
  PROVE  /\ TimeDiff(current, a.ts) \in Nat
         /\ TimeDiff(current, a.ts) <= now - a.sent
         /\ now - a.sent - (Interval + Jitter) <= TimeDiff(current, a.ts)
<1> DEFINE d == TimeDiff(current, a.ts)
<1>1. /\ now \in Nat /\ last_flush \in Nat /\ a.sent \in Nat
      /\ a.ts \in Stamp /\ current \in Stamp
  BY DEF StampedInv, RhythmInv, TypeInv, TypeOK
<1>2. now - last_flush <= Interval + Jitter
  BY RhythmOnTime DEF StampedInv, FlushedOnTime
<1>3. PICK c \in Nat : CurrentIs(c)
  BY DEF StampedInv, Stamped
<1>4. a.ts = Now32(a.sent) /\ a.sent <= last_flush
  BY DEF StampedInv, Stamped
<1>5. c <= now /\ last_flush <= c /\ d = TimeDiff(Now32(c), Now32(a.sent))
  BY <1>1, <1>3, <1>4 DEF CurrentIs
<1>6. PICK start \in StartTime : Younger(start)
  BY DEF StampedInv, Stamped
<1>7. start \in Nat /\ start <= a.sent /\ now - start < Modulus
  BY <1>6, TimerAssumption DEF Younger
<1>8. d \in Int /\ d >= 0
  BY <1>1, DiffType
<1> HIDE DEF d
<1>9. a.sent <= c /\ c - a.sent < Modulus
  BY <1>1, <1>4, <1>5, <1>7, ModulusFacts
<1>10. d = c - a.sent
  BY <1>1, <1>5, <1>8, <1>9, DiffBelow
<1>11. d \in Nat /\ d <= now - a.sent /\ now - a.sent - (Interval + Jitter) <= d
  BY <1>1, <1>2, <1>5, <1>8, <1>10, Numbers
<1>12. QED
  BY <1>11 DEF d

(* ikcp_update_ack: averages of samples lie between the least and the most. *)
LEMMA SmoothedBetween ==
  ASSUME NEW r \in [srtt : Nat, rttval : Nat, rto : Nat], NEW sample \in Nat,
         NEW most \in Nat, NEW least \in Int,
         r.srtt <= most, r.rttval <= most, sample <= most,
         least <= sample, r.srtt # 0 => least <= r.srtt
  PROVE  LET q == UpdateAck(r, sample) IN
         /\ q.srtt <= most /\ q.rttval <= most
         /\ least <= q.srtt
         /\ q.srtt = 0 => q.rttval = 0
<1> DEFINE srtt == Smoothed(r.srtt, sample)
           delta == IF sample < r.srtt THEN r.srtt - sample ELSE sample - r.srtt
           rttval == IF r.srtt = 0 THEN sample \div 2
                     ELSE (3 * r.rttval + delta) \div 4
<1>1. r.srtt \in Nat /\ r.rttval \in Nat
  OBVIOUS
<1>2. UpdateAck(r, sample).srtt = srtt /\ UpdateAck(r, sample).rttval = rttval
  BY DEF UpdateAck
<1>3. CASE r.srtt = 0
  <2>1. srtt = sample /\ rttval = sample \div 2
    BY <1>3 DEF Smoothed
  <2>2. sample \div 2 \in Nat /\ sample \div 2 <= sample
    OBVIOUS
  <2> HIDE DEF srtt, rttval
  <2>3. QED
    BY <1>2, <2>1, <2>2
<1>4. CASE r.srtt # 0
  <2>1. srtt = Max2(1, (7 * r.srtt + sample) \div 8)
    BY <1>4 DEF Smoothed
  <2>2. rttval = (3 * r.rttval + delta) \div 4
    BY <1>4
  <2>3. delta \in Nat /\ delta <= most
    BY <1>1
  <2> HIDE DEF srtt, rttval, delta
  <2> DEFINE x == 7 * r.srtt + sample
             y == 3 * r.rttval + delta
  <2>4. x \in Nat /\ x <= 8 * most /\ 8 * least <= x
    BY <1>1, <1>4
  <2>5. y \in Nat /\ y <= 4 * most
    BY <1>1, <2>3
  <2> HIDE DEF x, y
  <2>6. x \div 8 \in Nat /\ x \div 8 <= most /\ least <= x \div 8
    BY <2>4
  <2>7. y \div 4 \in Nat /\ y \div 4 <= most
    BY <2>5
  <2>8. srtt = Max2(1, x \div 8) /\ rttval = y \div 4
    BY <2>1, <2>2 DEF x, y
  <2>9. most >= 1
    BY <1>1, <1>4
  <2>10. srtt >= 1 /\ srtt <= most /\ least <= srtt
    BY <2>6, <2>8, <2>9 DEF Max2
  <2>11. srtt # 0
    BY <2>6, <2>8 DEF Max2
  <2>12. QED
    BY <1>2, <2>7, <2>8, <2>10, <2>11
<1>5. QED
  BY <1>3, <1>4

Estimate ==
  /\ rtt.srtt <= true_rtt.most /\ rtt.rttval <= true_rtt.most
  /\ rtt.srtt = 0 => rtt.rttval = 0
  /\ rtt.srtt # 0 \/ true_rtt.least <= true_rtt.most
       => true_rtt.least - (Interval + Jitter) <= rtt.srtt

LEMMA EstimateInit == Init => Estimate
<1> SUFFICES ASSUME Init PROVE Estimate
  OBVIOUS
<1>1. rtt.srtt = 0 /\ rtt.rttval = 0
      /\ true_rtt.most = 0 /\ true_rtt.least = MaxTime
  BY DEF Init
<1>2. QED
  BY <1>1, Numbers DEF Estimate

LEMMA EstimateAck ==
  ASSUME StampedInv, Estimate, NEW a \in answers, NEW una \in 0..snd_nxt,
         InputAck(a, una)
  PROVE  Estimate'
<1> DEFINE sample == TimeDiff(current, a.ts)
           elapsed == now - a.sent
           late == Interval + Jitter
<1>1. IF sample >= 0
      THEN /\ rtt' = UpdateAck(rtt, sample)
           /\ true_rtt' = [least |-> Min2(true_rtt.least, elapsed),
                           most |-> Max2(true_rtt.most, elapsed)]
      ELSE UNCHANGED <<rtt, true_rtt>>
  BY DEF InputAck
<1>2. CASE ~(sample >= 0)
  BY <1>1, <1>2 DEF Estimate
<1>3. CASE sample >= 0
  <2>1. sample \in Nat /\ sample <= elapsed /\ elapsed - late <= sample
    BY <1>3, SampleIsTrue
  <2>2. /\ rtt \in [srtt : Nat, rttval : Nat, rto : Nat]
        /\ true_rtt \in [least : Nat, most : Nat]
        /\ now \in Nat /\ a.sent \in Nat /\ a.sent <= now
    BY DEF StampedInv, RhythmInv, TypeInv, TypeOK
  <2>3. late \in Nat
    BY Numbers
  <2>4. elapsed \in Nat
    BY <2>2
  <2> HIDE DEF sample, elapsed, late
  <2> DEFINE most == Max2(true_rtt.most, elapsed)
             low == Min2(true_rtt.least, elapsed)
             least == low - late
  <2>5. /\ most \in Nat /\ true_rtt.most <= most /\ elapsed <= most
        /\ low \in Nat /\ low <= true_rtt.least /\ low <= elapsed
    BY <2>2, <2>4 DEF Max2, Min2
  <2>6. true_rtt'.most = most /\ true_rtt'.least = low
    BY <1>1, <1>3
  <2> HIDE DEF most, low
  <2>7. least \in Int /\ least <= sample /\ sample <= most
    BY <2>1, <2>3, <2>4, <2>5
  <2>8. rtt.srtt <= most /\ rtt.rttval <= most
    BY <2>2, <2>5 DEF Estimate
  <2>9. ASSUME rtt.srtt # 0
        PROVE  least <= rtt.srtt
    <3>1. true_rtt.least - late <= rtt.srtt
      BY <2>9 DEF Estimate, late
    <3>2. QED
      BY <2>2, <2>3, <2>5, <3>1
  <2> HIDE DEF least
  <2> DEFINE q == UpdateAck(rtt, sample)
  <2>10. /\ q.srtt <= most /\ q.rttval <= most /\ least <= q.srtt
         /\ q.srtt = 0 => q.rttval = 0
    BY <2>1, <2>2, <2>5, <2>7, <2>8, <2>9, SmoothedBetween
  <2>11. rtt' = q
    BY <1>1, <1>3
  <2> HIDE DEF q
  <2>12. QED
    BY <2>6, <2>10, <2>11 DEF Estimate, least, late
<1>4. QED
  BY <1>2, <1>3

LEMMA EstimateNext == StampedInv /\ Estimate /\ [Next]_vars => Estimate'
<1> SUFFICES ASSUME StampedInv, Estimate, [Next]_vars PROVE Estimate'
  OBVIOUS
<1>1. CASE UNCHANGED <<rtt, true_rtt>>
  BY <1>1 DEF Estimate
<1>2. QED
  BY <1>1, EstimateAck DEF Next, Tick, OnRun, InputWindow, vars

LEMMA EstimateHolds == StampedInv /\ Estimate => EstimateIsTrue
BY DEF Estimate, EstimateIsTrue

(* The estimate of the round trip (ikcp_update_ack) is at most the longest  *)
(* true one, and at least the shortest but for the age of kcp->current, as  *)
(* long as no acknowledgement comes a whole turn of the clock late.         *)
THEOREM EstimatesAreTrue ==
  ASSUME ShortRun
  PROVE  Spec => []EstimateIsTrue
<1>1. Spec => []StampedInv
  BY StampedCorrect
<1>2. Init => Estimate
  BY EstimateInit
<1>3. StampedInv /\ Estimate /\ [Next]_vars => Estimate'
  BY EstimateNext
<1>4. StampedInv /\ Estimate => EstimateIsTrue
  BY EstimateHolds
<1>5. QED
  BY <1>1, <1>2, <1>3, <1>4, PTL DEF Spec

-----------------------------------------------------------------------------
(* No segment is sent again too early but by fast retransmission, unless    *)
(* its timeout has grown beyond half a turn of the clock: then its stamp    *)
(* looks like one that has passed.                                          *)

TimeoutsShort == \A s \in snd_buf : Timeout(s) <= Half

(* A number belongs to one segment. *)
Unique(buf) == \A s, t \in buf : s.sn = t.sn => s = t

Numbered ==
  /\ \A s \in snd_buf : s.sn < snd_nxt /\ s.sent <= now
  /\ Unique(snd_buf)

NumberedInv == DeadlineInv /\ Numbered

(* What a flush makes of s. *)
Flushed(s, cur) ==
  IF Expired(s, cur) THEN Resent(s, cur)
  ELSE IF Overtaken(s, cur) THEN FastResent(s, cur)
  ELSE s

LEMMA FlushedIs ==
  ASSUME snd_buf \subseteq Timer, NEW cur,
         NEW t \in Alone(cur) \cup Again(cur)
  PROVE  \E s \in snd_buf : /\ t = Flushed(s, cur) /\ t.sn = s.sn
                            /\ t = s \/ t.sent = now
<1>1. ASSUME NEW s \in snd_buf
      PROVE  /\ Resent(s, cur).sn = s.sn /\ Resent(s, cur).sent = now
             /\ FastResent(s, cur).sn = s.sn /\ FastResent(s, cur).sent = now
  BY DEF Resent, FastResent, Timer
<1>2. CASE t \in Alone(cur)
  BY <1>2 DEF Alone, Flushed
<1>3. ASSUME NEW s \in snd_buf, Expired(s, cur), t = Resent(s, cur)
      PROVE  t = Flushed(s, cur) /\ t.sn = s.sn /\ t.sent = now
  BY <1>1, <1>3 DEF Flushed
<1>4. ASSUME NEW s \in snd_buf, Overtaken(s, cur), t = FastResent(s, cur)
      PROVE  t = Flushed(s, cur) /\ t.sn = s.sn /\ t.sent = now
  BY <1>1, <1>4 DEF Flushed, Overtaken
<1>5. QED
  BY <1>2, <1>3, <1>4 DEF Again

LEMMA FreshIs ==
  ASSUME NEW cur, NEW n, NEW t \in Fresh(cur, n)
  PROVE  \E i \in 0..n-1 : /\ t = FirstSent(snd_nxt + i, cur)
                           /\ t.sn = snd_nxt + i /\ t.sent = now
BY DEF Fresh, FirstSent

LEMMA FlushNumbers ==
  ASSUME NumberedInv, NEW n \in Nat, Flush(Now32(now), n), now' = now
  PROVE  Numbered'
<1> DEFINE cur == Now32(now)
           old == Alone(cur) \cup Again(cur)
           fresh == Fresh(cur, n)
<1>1. /\ snd_nxt \in Nat /\ now \in Nat /\ snd_buf \subseteq Timer
      /\ \A s \in snd_buf : s.sn \in Nat /\ s.sn < snd_nxt /\ s.sent <= now
      /\ \A s, t \in snd_buf : s.sn = t.sn => s = t
  BY DEF NumberedInv, Numbered, Unique, DeadlineInv, RhythmInv, TypeInv,
         TypeOK, Timer
<1>2. snd_buf' = old \cup fresh /\ snd_nxt' = snd_nxt + n
  BY FlushParts
<1>3. \A t \in old : \E s \in snd_buf : /\ t = Flushed(s, cur) /\ t.sn = s.sn
                                        /\ t = s \/ t.sent = now
  BY <1>1, FlushedIs
<1>4. \A t \in fresh : \E i \in 0..n-1 : /\ t = FirstSent(snd_nxt + i, cur)
                                         /\ t.sn = snd_nxt + i /\ t.sent = now
  BY FreshIs
<1> HIDE DEF old, fresh, cur
<1>5. \A t \in old : t.sn \in Nat /\ t.sn < snd_nxt /\ t.sent <= now
  BY <1>1, <1>3
<1>6. ASSUME NEW t \in fresh
      PROVE  /\ t.sn \in Nat /\ snd_nxt <= t.sn /\ t.sn < snd_nxt + n
             /\ t.sent <= now
  <2>1. PICK i \in 0..n-1 : t.sn = snd_nxt + i /\ t.sent = now
    BY <1>4
  <2>2. QED
    BY <1>1, <2>1
<1>7. \A s \in snd_buf' : s.sn < snd_nxt' /\ s.sent <= now'
  BY <1>1, <1>2, <1>5, <1>6
<1>8. ASSUME NEW s \in snd_buf', NEW t \in snd_buf', s.sn = t.sn
      PROVE  s = t
  <2>1. CASE s \in fresh /\ t \in fresh
    <3>1. PICK i \in 0..n-1 : s = FirstSent(snd_nxt + i, cur)
                             /\ s.sn = snd_nxt + i
      BY <1>4, <2>1
    <3>2. PICK j \in 0..n-1 : t = FirstSent(snd_nxt + j, cur)
                             /\ t.sn = snd_nxt + j
      BY <1>4, <2>1
    <3>3. i = j
      BY <1>1, <1>8, <3>1, <3>2
    <3>4. QED
      BY <3>1, <3>2, <3>3
  <2>2. CASE s \in old /\ t \in old
    BY <1>1, <1>3, <1>8, <2>2
  <2>3. ~(s \in old /\ t \in fresh) /\ ~(s \in fresh /\ t \in old)
    BY <1>1, <1>5, <1>6, <1>8
  <2>4. QED
    BY <1>2, <2>1, <2>2, <2>3
<1>9. QED
  BY <1>7, <1>8 DEF Numbered, Unique

(* Counting acknowledgements leaves the numbers unique. *)
LEMMA ParseUnique ==
  ASSUME snd_buf \subseteq Timer, Unique(snd_buf), NEW una, NEW sn
  PROVE  Unique(ParseUna(una)) /\ Unique(ParseAck(ParseUna(una), sn))
<1> DEFINE buf == ParseUna(una)
           overtaken == {s \in buf : s.sn < sn \/ \A t \in buf : t.sn # sn}
<1>1. buf \subseteq snd_buf
  BY DEF ParseUna
<1>2. Unique(buf)
  BY <1>1 DEF Unique
<1>3. ParseAck(buf, sn) = IF \A s \in buf : sn < s.sn THEN buf
                          ELSE {s \in buf : s.sn # sn /\ s \notin overtaken}
                            \cup {[s EXCEPT !.fastack = @ + 1] : s \in overtaken}
  BY DEF ParseAck
<1>4. \A s \in buf : [s EXCEPT !.fastack = @ + 1].sn = s.sn
  BY <1>1 DEF Timer
<1>5. overtaken \subseteq buf
  OBVIOUS
<1> HIDE DEF buf, overtaken
<1>6. ASSUME \A s \in buf : sn < s.sn
      PROVE  Unique(ParseAck(buf, sn))
  BY <1>2, <1>3, <1>6
<1>7. ASSUME ~(\A s \in buf : sn < s.sn)
      PROVE  Unique(ParseAck(buf, sn))
  <2>1. ASSUME NEW t \in ParseAck(buf, sn)
        PROVE  \E s \in buf : /\ t.sn = s.sn
                              /\ t = IF s \in overtaken
                                     THEN [s EXCEPT !.fastack = @ + 1] ELSE s
    <3>1. CASE t \in buf /\ t \notin overtaken
      BY <3>1
    <3>2. CASE \E s \in overtaken : t = [s EXCEPT !.fastack = @ + 1]
      BY <1>4, <1>5, <3>2
    <3>3. QED
      BY <1>3, <1>7, <3>1, <3>2
  <2>2. QED
    BY <1>2, <2>1 DEF Unique
<1>8. QED
  BY <1>2, <1>6, <1>7 DEF buf

LEMMA NumberedNext == NumberedInv /\ [Next]_vars => Numbered'
<1> SUFFICES ASSUME NumberedInv, [Next]_vars PROVE Numbered'
  OBVIOUS
<1>1. /\ now \in Nat /\ snd_buf \subseteq Timer
      /\ \A s \in snd_buf : s.sn < snd_nxt /\ s.sent \in Nat /\ s.sent <= now
      /\ Unique(snd_buf)
  BY DEF NumberedInv, Numbered, DeadlineInv, RhythmInv, TypeInv, TypeOK, Timer
<1>2. CASE OnRun
  <2> DEFINE cur == Now32(now)
  <2>1. now' = now /\ (Update(cur) \/ UNCHANGED kcpVars)
    BY <1>2 DEF OnRun
  <2>2. ASSUME NEW n \in 0..MaxSegments - snd_nxt, Flush(cur, n)
        PROVE  Numbered'
    <3>1. n \in Nat
      BY TakenType DEF NumberedInv, DeadlineInv, RhythmInv
    <3>2. QED
      BY <2>1, <2>2, <3>1, FlushNumbers
  <2>3. CASE UNCHANGED <<snd_buf, snd_nxt>>
    BY <1>1, <2>1, <2>3 DEF Numbered
  <2>4. QED
    BY <2>1, <2>2, <2>3 DEF Update, kcpVars
<1>3. CASE ~OnRun
  <2>1. Kept(snd_buf') /\ UNCHANGED snd_nxt
    BY <1>1, <1>3, InputKeeps
  <2>2. now' \in {now, now + 1}
    BY <1>3 DEF Next, Tick, InputAck, InputWindow, vars
  <2>3. \A s \in snd_buf' : s.sn < snd_nxt' /\ s.sent <= now'
    BY <1>1, <2>1, <2>2 DEF Kept, SameTimer
  <2>4. Unique(snd_buf')
    BY <1>1, <1>3, ParseUnique
       DEF Next, Tick, InputAck, InputWindow, kcpVars, vars
  <2>5. QED
    BY <2>3, <2>4 DEF Numbered, Unique
<1>4. QED
  BY <1>2, <1>3

LEMMA NumberedCorrect == Spec => []NumberedInv
<1>1. Init => Numbered
  BY DEF Init, Numbered, Unique
<1>2. DeadlineInv /\ Numbered /\ [Next]_vars => Numbered'
  BY NumberedNext DEF NumberedInv
<1>3. DeadlineInv /\ Numbered => NumberedInv
  BY DEF NumberedInv
<1>4. QED
  BY <1>1, <1>2, <1>3, DeadlinesCorrect, PTL DEF Spec

(* A stamp at most half a turn ahead is not taken for one that has passed. *)
LEMMA NotSeenEarly ==
  ASSUME NumberedInv, NEW s \in snd_buf, Timeout(s) <= Half,
         Expired(s, Now32(now))
  PROVE  now - s.sent >= s.rto
<1>1. /\ ResendDue(s, last_flush) /\ s \in Timer /\ s.sent <= now
      /\ now \in Nat
  BY DEF NumberedInv, Numbered, DeadlineInv, Deadlines, RhythmInv, TypeInv,
         TypeOK
<1>2. /\ s.sent \in Nat /\ s.rto \in Nat /\ s.rto > 0
      /\ s.resendts = Now32(s.sent + Timeout(s))
  BY <1>1 DEF ResendDue, Timer
<1> DEFINE due == s.sent + Timeout(s)
<1>3. Timeout(s) \in Nat /\ s.rto <= Timeout(s) /\ due \in Nat
  <2>1. s.rto \div 8 \in Nat
    BY <1>2, HalfOf
  <2>2. Timeout(s) \in Nat /\ s.rto <= Timeout(s)
    BY <1>2, <2>1 DEF Timeout
  <2>3. QED
    BY <1>2, <2>2
<1>4. TimeDiff(Now32(now), Now32(due)) >= 0
  BY <1>2 DEF Expired
<1>5. CASE due <= now
  BY <1>1, <1>2, <1>3, <1>5
<1>6. CASE ~(due <= now)
  <2>1. now - due < Half /\ due - now <= Half /\ now - due < 0
    BY <1>1, <1>2, <1>3, <1>6, Numbers
  <2> HIDE DEF due
  <2>2. TimeDiff(Now32(now), Now32(due)) = now - due
    BY <1>1, <1>3, <2>1, DiffExact
  <2>3. FALSE
    BY <1>1, <1>3, <1>4, <2>1, <2>2
  <2>4. QED
    BY <2>3
<1>7. QED
  BY <1>5, <1>6

(* s is sent again at its timeout or because it was overtaken. *)
InTime(s) ==
  \/ now - s.sent >= s.rto
  \/ FastResend > 0 /\ s.fastack >= FastResend

NotEarly ==
  \A s \in snd_buf, t \in snd_buf' :
    s.sn = t.sn /\ t.xmit > s.xmit => InTime(s)

(* A segment that was not sent again gives nothing to show. *)
LEMMA KeptNotEarly ==
  ASSUME NumberedInv, Kept(snd_buf')
  PROVE  NotEarly
<1> SUFFICES ASSUME NEW s \in snd_buf, NEW t \in snd_buf', s.sn = t.sn,
                    t.xmit > s.xmit
             PROVE  FALSE
  BY DEF NotEarly
<1>1. PICK u \in snd_buf : SameTimer(u, t)
  BY DEF Kept
<1>2. u = s
  BY <1>1 DEF NumberedInv, Numbered, Unique, SameTimer
<1>3. s.xmit \in Nat /\ t.xmit = s.xmit
  BY <1>1, <1>2 DEF SameTimer, NumberedInv, DeadlineInv, RhythmInv, TypeInv,
                    TypeOK, Timer
<1>4. QED
  BY <1>3

LEMMA FlushNotEarly ==
  ASSUME NumberedInv, TimeoutsShort, NEW n \in Nat, Flush(Now32(now), n)
  PROVE  NotEarly
<1> DEFINE cur == Now32(now)
<1> SUFFICES ASSUME NEW s \in snd_buf, NEW t \in snd_buf',
                    s.sn = t.sn, t.xmit > s.xmit
             PROVE  InTime(s)
  BY DEF NotEarly
<1>1. /\ snd_nxt \in Nat /\ snd_buf \subseteq Timer
      /\ \A u \in snd_buf : u \in Timer /\ u.sn < snd_nxt
      /\ \A u, v \in snd_buf : u.sn = v.sn => u = v
  BY DEF NumberedInv, Numbered, Unique, DeadlineInv, RhythmInv, TypeInv, TypeOK
<1>2. t \in Alone(cur) \cup Again(cur) \cup Fresh(cur, n)
  BY FlushParts
<1>3. CASE t \in Alone(cur) \cup Again(cur)
  <2>1. PICK u \in snd_buf : t = Flushed(u, cur) /\ t.sn = u.sn
    BY <1>1, <1>3, FlushedIs
  <2>2. u = s
    BY <1>1, <2>1
  <2>3. CASE Expired(s, cur)
    BY <2>3, NotSeenEarly DEF TimeoutsShort, InTime
  <2>4. CASE Overtaken(s, cur)
    BY <2>4 DEF Overtaken, InTime
  <2>5. CASE ~Expired(s, cur) /\ ~Overtaken(s, cur)
    <3>1. t = s
      BY <2>1, <2>2, <2>5 DEF Flushed
    <3>2. s.xmit \in Nat
      BY <1>1 DEF Timer
    <3>3. QED
      BY <3>1, <3>2
  <2>6. QED
    BY <2>3, <2>4, <2>5
<1>4. CASE t \in Fresh(cur, n)
  <2>1. PICK i \in 0..n-1 : t.sn = snd_nxt + i
    BY <1>4, FreshIs
  <2>2. s.sn \in Nat /\ s.sn < snd_nxt
    BY <1>1 DEF Timer
  <2>3. FALSE
    BY <1>1, <2>1, <2>2
  <2>4. QED
    BY <2>3
<1>5. QED
  BY <1>2, <1>3, <1>4

LEMMA NextNotEarly == NumberedInv /\ TimeoutsShort /\ [Next]_vars => NotEarly
<1> SUFFICES ASSUME NumberedInv, TimeoutsShort, [Next]_vars PROVE NotEarly
  OBVIOUS
<1>1. snd_buf \subseteq Timer /\ TypeInv
  BY DEF NumberedInv, DeadlineInv, RhythmInv, TypeInv, TypeOK
<1>2. CASE OnRun
  <2>1. Update(Now32(now)) \/ UNCHANGED kcpVars
    BY <1>2 DEF OnRun
  <2>2. CASE UNCHANGED snd_buf
    BY <1>1, <2>2, SameIsKept, KeptNotEarly
  <2>3. ASSUME NEW n \in 0..MaxSegments - snd_nxt, Flush(Now32(now), n)
        PROVE  NotEarly
    BY <1>1, <2>3, TakenType, FlushNotEarly
  <2>4. QED
    BY <2>1, <2>2, <2>3 DEF Update, kcpVars
<1>3. CASE ~OnRun
  BY <1>1, <1>3, InputKeeps, KeptNotEarly
<1>4. QED
  BY <1>2, <1>3

(* As long as no timeout has grown beyond half a turn of the clock, no      *)
(* segment is sent again before its timeout (ikcp_flush), except by fast    *)
(* retransmission: a stamp ahead is not taken for one that has passed.      *)
THEOREM ResendsAreNotEarly == Spec /\ []TimeoutsShort => NotResentEarly
<1>1. NumberedInv /\ TimeoutsShort /\ [Next]_vars
        => [\A s \in snd_buf, t \in snd_buf' :
              s.sn = t.sn /\ t.xmit > s.xmit =>
                \/ now - s.sent >= s.rto
                \/ FastResend > 0 /\ s.fastack >= FastResend]_vars
  BY NextNotEarly DEF NotEarly, InTime
<1>2. QED
  BY <1>1, NumberedCorrect, PTL DEF Spec, NotResentEarly
=============================================================================
