---------------------------- MODULE TaskTimerProofs ----------------------------
(***************************************************************************)
(* No task is run late as long as the clock does not come round, for any    *)
(* number of tasks, delays and slack.                                       *)
(*                                                                         *)
(* RunOnTime is not inductive: a task is on time because the timer was set  *)
(* for a task that was due no later, or was set before this one came and    *)
(* then for no longer than MaxDelay.                                        *)
(***************************************************************************)
EXTENDS TaskTimer, SerialTimeProofs

(* The clock stops before a stamp comes round. *)
NoWrap == MaxTime + MaxDelay < Modulus

(* The timer and the tasks it is for. *)
Punctual ==
  /\ now <= MaxTime /\ loop_now <= now
  /\ now <= ready + Slack /\ ready <= now + MaxDelay + Slack
  /\ running => ready <= loop_now
  /\ \A e \in tasks : /\ e.at = e.due
                      /\ e.due <= now + MaxDelay
                      /\ e.due <= MaxTime + MaxDelay
                      /\ ready < e.due + MaxDelay + Slack

IInv == TypeOK /\ Punctual

LEMMA Numbers ==
  /\ MaxDelay \in Nat /\ MaxDelay > 0 /\ kWaitForPrecision \in Nat
  /\ Slack \in Nat /\ MaxTime \in Nat /\ Half \in Nat /\ Half > 0
  /\ MaxDelay + 2 * Slack < Half
  /\ StartTime \subseteq 0..MaxTime
BY TaskAssumption, HalfAssumption

(* The invariant says that every task is on time. *)
LEMMA OnTime == IInv => RunOnTime
BY Numbers DEF IInv, TypeOK, Punctual, RunOnTime, Entry

LEMMA InitInv == Init => IInv
<1> SUFFICES ASSUME Init PROVE IInv
  OBVIOUS
<1>1. now \in Nat /\ now <= MaxTime
  BY Numbers DEF Init
<1>2. QED
  <2>1. TypeOK
    BY <1>1 DEF Init, TypeOK
  <2>2. Punctual
    BY <1>1, Numbers DEF Init, Punctual
  <2>3. QED
    BY <2>1, <2>2 DEF IInv

(* The entry of a task that has just run. *)
LEMMA AgainType ==
  ASSUME NoWrap, NEW key \in Task, NEW t \in 0..MaxTime,
         NEW delay \in 1..MaxDelay
  PROVE  /\ Again(key, t, delay) \in Entry
         /\ Again(key, t, delay).at = t + delay
         /\ Again(key, t, delay).due = t + delay
<1>1. t \in Nat /\ delay \in Nat /\ t + delay \in 0..Modulus-1
  BY Numbers, ModulusFacts DEF NoWrap
<1>2. After(Now32(t), delay) = Now32(t + delay)
  BY <1>1, AfterExact
<1>3. Now32(t + delay) = t + delay
  BY <1>1, ModulusFacts DEF Now32
<1>4. QED
  BY <1>1, <1>2, <1>3 DEF Again, Entry, Stamp

(* RunTasks reckons right how long it is until a task is due. *)
LEMMA WaitExact ==
  ASSUME NoWrap, IInv, running, NEW e \in tasks
  PROVE  Wait(e) = e.due - loop_now
<1>1. e.at = e.due /\ e.due \in Nat /\ e.due < Modulus
  BY Numbers, ModulusFacts DEF NoWrap, IInv, TypeOK, Punctual, Entry
<1>2. Now32(e.due) = e.at
  BY <1>1, ModulusFacts DEF Now32
<1>3. /\ loop_now \in Nat /\ now \in Nat
      /\ e.due - loop_now < Half /\ loop_now - e.due <= Half
  BY <1>1, Numbers DEF IInv, TypeOK, Punctual
<1>4. TimeDiff(Now32(e.due), Now32(loop_now)) = e.due - loop_now
  BY <1>1, <1>3, DiffExact
<1>5. QED
  BY <1>2, <1>4 DEF Wait

(* The timer is set in time for every task. *)
LEMMA SleepInv ==
  ASSUME NoWrap, IInv, Sleep
  PROVE  IInv'
<1>1. /\ now \in Nat /\ loop_now \in Nat /\ ready \in Nat
      /\ loop_now <= now /\ now <= loop_now + Slack
      /\ running /\ running' = FALSE /\ UNCHANGED <<now, tasks, loop_now>>
  BY Numbers DEF Sleep, IInv, TypeOK, Punctual
<1>2. CASE tasks = {} /\ ready' = NextCall(0)
  <2>1. ready' = now
    BY <1>2, Numbers DEF NextCall
  <2>2. QED
    <3>1. TypeOK'
      BY <1>1, <2>1 DEF IInv, TypeOK
    <3>2. Punctual'
      BY <1>1, <1>2, <2>1, Numbers DEF IInv, Punctual
    <3>3. QED
      BY <3>1, <3>2 DEF IInv
<1>3. ASSUME NEW e \in tasks, First(e), ~Due(e), ready' = NextCall(Wait(e))
      PROVE  IInv'
  <2>1. e.due \in Nat /\ e.due <= now + MaxDelay
    BY DEF IInv, TypeOK, Punctual, Entry
  <2>2. Wait(e) = e.due - loop_now /\ e.due > loop_now
    BY <1>1, <1>3, <2>1, WaitExact DEF Due
  <2>3. /\ ready' \in Nat
        /\ now <= ready' + Slack /\ ready' <= now + MaxDelay + Slack
        /\ ready' < e.due + MaxDelay + Slack
    BY <1>1, <1>3, <2>1, <2>2, Numbers DEF NextCall
  <2>4. \A other \in tasks : e.due <= other.due
    BY <1>3 DEF First, IInv, Punctual
  <2>5. ASSUME NEW other \in tasks
        PROVE  ready' < other.due + MaxDelay + Slack
    <3>1. other.due \in Nat /\ e.due <= other.due
      BY <2>4 DEF IInv, TypeOK, Entry
    <3>2. QED
      BY <2>1, <2>3, <3>1, Numbers
  <2>6. QED
    BY <1>1, <2>3, <2>5 DEF Sleep, IInv, TypeOK, Punctual
<1>4. QED
  BY <1>2, <1>3 DEF Sleep

(* A task that runs asks for a time after this turn of the loop. *)
LEMMA RunInv ==
  ASSUME NoWrap, IInv, NEW e \in tasks, RunTask(e)
  PROVE  IInv'
<1>1. /\ now \in Nat /\ loop_now \in 0..MaxTime /\ ready \in Nat
      /\ loop_now <= now /\ running /\ ready <= loop_now
      /\ e.key \in Task /\ UNCHANGED <<now, ready, running, loop_now>>
  BY Numbers DEF RunTask, IInv, TypeOK, Punctual, Entry
<1>2. CASE tasks' = tasks \ {e}
  BY <1>2 DEF RunTask, IInv, TypeOK, Punctual
<1>3. ASSUME NEW delay \in 1..MaxDelay,
             tasks' = (tasks \ {e}) \cup {Again(e.key, loop_now, delay)}
      PROVE  IInv'
  <2> DEFINE new == Again(e.key, loop_now, delay)
  <2>1. /\ new \in Entry /\ new.at = loop_now + delay
        /\ new.due = loop_now + delay
    BY <1>1, AgainType
  <2>2. /\ new.at = new.due /\ new.due <= now + MaxDelay
        /\ new.due <= MaxTime + MaxDelay
        /\ ready < new.due + MaxDelay + Slack
    BY <1>1, <2>1, Numbers
  <2>3. tasks' \subseteq tasks \cup {new}
    BY <1>3
  <2> HIDE DEF new
  <2>4. QED
    BY <1>1, <2>1, <2>2, <2>3 DEF IInv, TypeOK, Punctual
<1>4. QED
  BY <1>2, <1>3 DEF RunTask

(* However long the timer has been set for, a new task is not late. *)
LEMMA DispatchInv ==
  ASSUME NoWrap, IInv, NEW key \in Task, NEW delay \in 1..MaxDelay,
         DispatchTask(key, delay)
  PROVE  IInv'
<1> DEFINE new == Again(key, now, delay)
<1>1. now \in 0..MaxTime /\ ready \in Nat /\ ready <= now + MaxDelay + Slack
  BY DEF IInv, TypeOK, Punctual
<1>2. new \in Entry /\ new.at = now + delay /\ new.due = now + delay
  BY <1>1, AgainType
<1>3. /\ new.at = new.due /\ new.due <= now + MaxDelay
      /\ new.due <= MaxTime + MaxDelay
      /\ ready < new.due + MaxDelay + Slack
  BY <1>1, <1>2, Numbers
<1>4. tasks' = tasks \cup {new} /\ UNCHANGED <<now, ready, running, loop_now>>
  BY DEF DispatchTask
<1> HIDE DEF new
<1>5. QED
  BY <1>2, <1>3, <1>4 DEF IInv, TypeOK, Punctual

LEMMA TickInv ==
  ASSUME NoWrap, IInv, Tick
  PROVE  IInv'
<1>1. /\ now \in Nat /\ loop_now \in Nat /\ ready \in Nat
      /\ now' = now + 1 /\ now' <= MaxTime /\ now' <= ready + Slack
      /\ UNCHANGED <<tasks, ready, running, loop_now>>
  BY Numbers DEF Tick, IInv, TypeOK
<1>2. \A e \in tasks : e.due \in Nat
  BY DEF IInv, TypeOK, Entry
<1>3. QED
  BY <1>1, <1>2, Numbers DEF IInv, TypeOK, Punctual

LEMMA NextInv ==
  ASSUME NoWrap, IInv, [Next]_vars
  PROVE  IInv'
<1>1. CASE UNCHANGED vars
  BY <1>1 DEF vars, IInv, TypeOK, Punctual
<1>2. CASE Tick
  BY <1>2, TickInv
<1>3. ASSUME NEW key \in Task, NEW delay \in 1..MaxDelay,
             DispatchTask(key, delay)
      PROVE  IInv'
  BY <1>3, DispatchInv
<1>4. ASSUME NEW key \in Task, CancelTask(key)
      PROVE  IInv'
  BY <1>4 DEF CancelTask, IInv, TypeOK, Punctual
<1>5. CASE StartTimer
  BY <1>5, Numbers DEF StartTimer, IInv, TypeOK, Punctual
<1>6. ASSUME NEW e \in tasks, RunTask(e)
      PROVE  IInv'
  BY <1>6, RunInv
<1>7. CASE Sleep
  BY <1>7, SleepInv
<1>8. QED
  BY <1>1, <1>2, <1>3, <1>4, <1>5, <1>6, <1>7 DEF Next

(* A task is run within MaxDelay + 2 * Slack of the time it asked for, as   *)
(* long as the clock does not come round.                                   *)
THEOREM RunsKeepTime ==
  ASSUME NoWrap
  PROVE  Spec => []RunOnTime
<1>1. Init => IInv
  BY InitInv
<1>2. IInv /\ [Next]_vars => IInv'
  BY NextInv
<1>3. IInv => RunOnTime
  BY OnTime
<1>4. QED
  BY <1>1, <1>2, <1>3, PTL DEF Spec

-----------------------------------------------------------------------------
(* What holds wherever the clock comes round: types, and that no task runs  *)
(* early.  A stamp ahead is never half a clock ahead, for the time that the *)
(* loop goes by is at most Slack old.                                       *)

Ahead ==
  /\ loop_now <= now /\ now <= ready + Slack
  /\ running => ready <= loop_now
  /\ \A e \in tasks : e.at = Now32(e.due) /\ e.due <= now + MaxDelay
  /\ \A e, f \in tasks : e.key = f.key => e = f

AheadInv == TypeOK /\ Ahead

LEMMA AheadInit == Init => AheadInv
<1> SUFFICES ASSUME Init PROVE AheadInv
  OBVIOUS
<1>1. now \in Nat /\ Slack \in Nat
  BY Numbers DEF Init
<1>2. TypeOK
  BY <1>1 DEF Init, TypeOK
<1>3. loop_now = now /\ ready = now /\ now <= now + Slack /\ now <= now
  BY <1>1 DEF Init
<1>4. tasks = {} /\ running = FALSE
  BY DEF Init
<1>5. QED
  BY <1>2, <1>3, <1>4 DEF AheadInv, Ahead

LEMMA AgainStamp ==
  ASSUME NEW key \in Task, NEW t \in Nat, NEW delay \in 1..MaxDelay
  PROVE  /\ Again(key, t, delay) \in Entry
         /\ Again(key, t, delay).key = key
         /\ Again(key, t, delay).at = Now32(Again(key, t, delay).due)
         /\ Again(key, t, delay).due = t + delay
<1>1. delay \in Nat /\ t + delay \in Nat
  BY Numbers
<1>2. After(Now32(t), delay) = Now32(t + delay)
  BY <1>1, AfterExact
<1>3. Now32(t + delay) \in Stamp
  BY <1>1, StampOf DEF Now32
<1>4. QED
  BY <1>1, <1>2, <1>3 DEF Again, Entry

LEMMA AheadSleep == AheadInv /\ Sleep => AheadInv'
<1> SUFFICES ASSUME AheadInv, Sleep PROVE AheadInv'
  OBVIOUS
<1>1. /\ now \in Nat /\ loop_now \in Nat /\ tasks \in SUBSET Entry
      /\ UNCHANGED <<now, tasks, loop_now>> /\ running' = FALSE
  BY DEF AheadInv, TypeOK, Sleep
<1>2. ASSUME NEW d \in Int
      PROVE  NextCall(d) \in Nat /\ NextCall(d) >= now
  BY <1>1, <1>2, Numbers DEF NextCall
<1>3. PICK d \in Int : ready' = NextCall(d)
  <2>1. ASSUME NEW e \in tasks, ready' = NextCall(Wait(e))
        PROVE  \E d \in Int : ready' = NextCall(d)
    <3>1. e.at \in Stamp /\ Now32(loop_now) \in Stamp
      BY <1>1, StampOf DEF Entry, Now32
    <3>2. Wait(e) \in Int
      BY <3>1, ModulusFacts DEF Wait, TimeDiff, Stamp
    <3>3. QED
      BY <2>1, <3>2
  <2>2. QED
    BY <2>1 DEF Sleep
<1>4. ready' \in Nat /\ now <= ready'
  BY <1>1, <1>2, <1>3
<1>5. now <= ready' + Slack
  <2>1. Slack \in Nat
    BY Numbers
  <2>2. \A n, r \in Nat : n <= r => n <= r + Slack
    BY <2>1
  <2>3. QED
    BY <1>1, <1>4, <2>2
<1>6. QED
  BY <1>1, <1>4, <1>5 DEF AheadInv, TypeOK, Ahead

LEMMA AheadAgain ==
  ASSUME AheadInv, NEW key \in Task, NEW t \in Nat, t <= now,
         NEW delay \in 1..MaxDelay, NEW rest \in SUBSET tasks,
         \A e \in rest : e.key # key,
         tasks' = rest \cup {Again(key, t, delay)},
         UNCHANGED <<now, ready, running, loop_now>>
  PROVE  AheadInv'
<1> DEFINE new == Again(key, t, delay)
<1>1. /\ new \in Entry /\ new.key = key /\ new.at = Now32(new.due)
      /\ new.due = t + delay
  BY AgainStamp
<1>2. now \in Nat /\ delay \in Nat /\ delay <= MaxDelay
  BY Numbers DEF AheadInv, TypeOK
<1> HIDE DEF new
<1>3. new.due <= now + MaxDelay
  BY <1>1, <1>2, Numbers
<1>4. tasks' = rest \cup {new}
  BY DEF new
<1>5. TypeOK'
  BY <1>1, <1>4 DEF AheadInv, TypeOK
<1>6. \A e \in tasks' : e.at = Now32(e.due) /\ e.due <= now + MaxDelay
  BY <1>1, <1>3, <1>4 DEF AheadInv, Ahead
<1>7. \A e, f \in tasks' : e.key = f.key => e = f
  BY <1>1, <1>4 DEF AheadInv, Ahead
<1>8. QED
  BY <1>5, <1>6, <1>7 DEF AheadInv, Ahead

LEMMA AheadNext == AheadInv /\ [Next]_vars => AheadInv'
<1> SUFFICES ASSUME AheadInv, [Next]_vars PROVE AheadInv'
  OBVIOUS
<1>1. /\ now \in Nat /\ ready \in Nat /\ loop_now \in Nat
      /\ loop_now <= now /\ now <= ready + Slack
      /\ \A e \in tasks : e \in Entry /\ e.due \in Nat
                          /\ e.due <= now + MaxDelay
  BY DEF AheadInv, TypeOK, Ahead, Entry
<1>2. CASE Tick
  <2>1. /\ now' = now + 1 /\ now < ready + Slack
        /\ UNCHANGED <<tasks, ready, running, loop_now>>
    BY <1>2 DEF Tick
  <2>2. now' \in Nat /\ loop_now <= now' /\ now' <= ready + Slack
    BY <1>1, <2>1, Numbers
  <2>3. \A e \in tasks : e.due <= now' + MaxDelay
    BY <1>1, <2>1, Numbers
  <2>4. QED
    BY <2>1, <2>2, <2>3 DEF AheadInv, TypeOK, Ahead
<1>3. ASSUME NEW key \in Task, NEW delay \in 1..MaxDelay,
             DispatchTask(key, delay)
      PROVE  AheadInv'
  <2>1. /\ tasks' = tasks \cup {Again(key, now, delay)}
        /\ UNCHANGED <<now, ready, running, loop_now>>
        /\ \A e \in tasks : e.key # key
    BY <1>3 DEF DispatchTask, Keys
  <2>2. QED
    BY <1>1, <2>1, AheadAgain
<1>4. ASSUME NEW key \in Task, CancelTask(key)
      PROVE  AheadInv'
  BY <1>4 DEF CancelTask, AheadInv, TypeOK, Ahead
<1>5. CASE StartTimer
  BY <1>1, <1>5, Numbers DEF StartTimer, AheadInv, TypeOK, Ahead
<1>6. ASSUME NEW e \in tasks, RunTask(e)
      PROVE  AheadInv'
  <2>1. UNCHANGED <<now, ready, running, loop_now>>
    BY <1>6 DEF RunTask
  <2>2. CASE tasks' = tasks \ {e}
    BY <2>1, <2>2 DEF AheadInv, TypeOK, Ahead
  <2>3. ASSUME NEW delay \in 1..MaxDelay,
               tasks' = (tasks \ {e}) \cup {Again(e.key, loop_now, delay)}
        PROVE  AheadInv'
    <3>1. e.key \in Task
      BY <1>1 DEF Entry
    <3>2. \A f \in tasks \ {e} : f.key # e.key
      BY DEF AheadInv, Ahead
    <3>3. QED
      BY <1>1, <2>1, <2>3, <3>1, <3>2, AheadAgain
  <2>4. QED
    BY <1>6, <2>2, <2>3 DEF RunTask
<1>7. CASE Sleep
  BY <1>7, AheadSleep
<1>8. CASE UNCHANGED vars
  BY <1>8 DEF vars, AheadInv, TypeOK, Ahead
<1>9. QED
  BY <1>2, <1>3, <1>4, <1>5, <1>6, <1>7, <1>8 DEF Next

LEMMA AheadCorrect == Spec => []AheadInv
BY AheadInit, AheadNext, PTL DEF Spec

(* RunTasks runs no task ahead of its time. *)
LEMMA RunIsDue ==
  ASSUME AheadInv, NEW e \in tasks, RunTask(e)
  PROVE  now >= e.due
<1>1. /\ now \in Nat /\ ready \in Nat /\ loop_now \in Nat /\ e.due \in Nat
      /\ e.at = Now32(e.due) /\ e.due <= now + MaxDelay
      /\ loop_now <= now /\ now <= ready + Slack
  BY DEF AheadInv, TypeOK, Ahead, Entry
<1>2. ready <= loop_now /\ TimeDiff(Now32(e.due), Now32(loop_now)) <= 0
  BY <1>1 DEF RunTask, Due, Wait, AheadInv, Ahead
<1>3. e.due - loop_now < Half
  BY <1>1, <1>2, Numbers
<1>4. CASE e.due <= loop_now
  BY <1>1, <1>4
<1>5. CASE e.due > loop_now
  <2>1. loop_now - e.due <= Half
    BY <1>1, <1>5, Numbers
  <2>2. TimeDiff(Now32(e.due), Now32(loop_now)) = e.due - loop_now
    BY <1>1, <1>3, <2>1, DiffExact
  <2>3. FALSE
    BY <1>1, <1>2, <1>5, <2>2
  <2>4. QED
    BY <2>3
<1>6. QED
  BY <1>1, <1>4, <1>5

Early ==
  \A e \in tasks, new \in tasks' :
    e.key = new.key /\ e # new => now >= e.due

LEMMA NextNotEarly == AheadInv /\ [Next]_vars => Early
<1> SUFFICES ASSUME AheadInv, [Next]_vars PROVE Early
  OBVIOUS
<1>1. \A e, f \in tasks : e.key = f.key => e = f
  BY DEF AheadInv, Ahead
<1>2. CASE tasks' \subseteq tasks
  BY <1>1, <1>2 DEF Early
<1>3. ASSUME NEW key \in Task, NEW delay \in 1..MaxDelay,
             DispatchTask(key, delay)
      PROVE  Early
  <2>1. /\ tasks' = tasks \cup {Again(key, now, delay)}
        /\ \A e \in tasks : e.key # key
    BY <1>3 DEF DispatchTask, Keys
  <2>2. Again(key, now, delay).key = key
    BY DEF Again
  <2>3. QED
    BY <1>1, <2>1, <2>2 DEF Early
<1>4. ASSUME NEW e \in tasks, RunTask(e)
      PROVE  Early
  <2>1. now >= e.due
    BY <1>4, RunIsDue
  <2>2. \A new \in tasks' : new \in tasks \/ new.key = e.key
    BY <1>4 DEF RunTask, Again
  <2>3. QED
    BY <1>1, <2>1, <2>2 DEF Early
<1>5. QED
  BY <1>2, <1>3, <1>4 DEF Next, Tick, CancelTask, StartTimer, Sleep, vars

(* The entries of tasks_ and the times that StartTimer sets keep their      *)
(* types, also when the clock comes round (IOContextThread::RunTasks).       *)
THEOREM TasksTyped == Spec => []TypeOK
<1>1. AheadInv => TypeOK
  BY DEF AheadInv
<1>2. QED
  BY <1>1, AheadCorrect, PTL

(* No task runs again before it was due, wherever the clock comes round:    *)
(* a stamp that RunTasks takes for passed has passed.                       *)
THEOREM NeverRunsEarly == Spec => NeverEarly
<1>1. AheadInv /\ [Next]_vars
        => [\A e \in tasks, new \in tasks' :
              e.key = new.key /\ e # new => now >= e.due]_vars
  BY NextNotEarly DEF Early
<1>2. QED
  BY <1>1, AheadCorrect, PTL DEF Spec, NeverEarly
===============================================================================
