-------------------------------- MODULE TaskTimer ------------------------------
(***************************************************************************)
(* The task queue of one executor thread: tasks_ and timer_ of              *)
(* IOContextThread (src/src/asio_udp.cc).  Each open stream is a task.      *)
(* OnRun of a task says after which delay it wants to run again, and the    *)
(* multimap tasks_ keeps the tasks by the stamp at which they are due.      *)
(*                                                                         *)
(* KcpTimer assumes that a stream is run at most Jitter late.  RunOnTime    *)
(* says what that Jitter is.                                               *)
(*                                                                         *)
(* Every step but Tick is one of the executor's thread.                     *)
(***************************************************************************)
EXTENDS SerialTime

CONSTANTS
  Task,              \* the keys of the tasks
  MaxDelay,          \* the longest delay that a task asks for
  kWaitForPrecision,
  Slack,             \* how late the thread gets to a handler that is ready
  StartTime,         \* times at which the executor may start
  MaxTime            \* bound: the time at which the clock stops

ASSUME TaskAssumption ==
  /\ MaxDelay \in Nat \ {0}
  /\ kWaitForPrecision \in Nat
  /\ Slack \in Nat
  /\ MaxDelay + 2 * Slack < Half
  /\ MaxTime \in Nat
  /\ StartTime \subseteq 0..MaxTime

VARIABLES
  now,        \* the time
  tasks,      \* tasks_
  ready,      \* when StartTimer is to be called: it is posted, or timer_ expires
  running,    \* RunTasks is in its loop
  loop_now    \* the time that the loop goes by

vars == <<now, tasks, ready, running, loop_now>>

(* due is the time, which the code does not keep, that the stamp at stands  *)
(* for.                                                                     *)
Entry == [key : Task, at : Stamp, due : Nat]

TypeOK ==
  /\ now \in Nat
  /\ tasks \in SUBSET Entry
  /\ ready \in Nat
  /\ running \in BOOLEAN
  /\ loop_now \in Nat

Keys == {e.key : e \in tasks}

(* The thread starts, and calls StartTimer. *)
Init ==
  /\ now \in StartTime
  /\ tasks = {}
  /\ ready = now
  /\ running = FALSE
  /\ loop_now = now

(* Time passes, while the thread is idle or busy. *)
Tick ==
  /\ now < MaxTime
  /\ now < ready + Slack
  /\ now' = now + 1
  /\ UNCHANGED <<tasks, ready, running, loop_now>>

(* A task that ran at time t wants to run delay later. *)
Again(key, t, delay) ==
  [key |-> key, at |-> After(Now32(t), delay), due |-> t + delay]

(* A mutant: any entry, as of an unordered container. *)
AnyEntry(e) == TRUE

(* *tasks_.begin().  Of tasks with one stamp any may be the first. *)
First(e) == \A other \in tasks : e.at <= other.at

(* How long until e is due, as RunTasks reckons. *)
Wait(e) == TimeDiff(e.at, Now32(loop_now))

(* A mutant: a task that the timer would not wait for is run now. *)
DueSoon(e) == Wait(e) <= kWaitForPrecision

(* RunTasks runs e. *)
Due(e) == Wait(e) <= 0

-----------------------------------------------------------------------------

(* DispatchTask: the task is run at once.  The timer is not armed anew. *)
DispatchTask(key, delay) ==
  /\ key \notin Keys
  /\ tasks' = tasks \cup {Again(key, now, delay)}
  /\ UNCHANGED <<now, ready, running, loop_now>>

(* CancelTask, from a handler or from a callback of a task. *)
CancelTask(key) ==
  /\ key \in Keys
  /\ tasks' = {e \in tasks : e.key # key}
  /\ UNCHANGED <<now, ready, running, loop_now>>

(* StartTimer is called, and calls RunTasks. *)
StartTimer ==
  /\ ~running
  /\ now >= ready
  /\ running' = TRUE
  /\ loop_now' = now
  /\ UNCHANGED <<now, tasks, ready>>

(* One turn of the loop of RunTasks: the first task is run.  It wants to    *)
(* run again, or it is over.                                                *)
RunTask(e) ==
  /\ running
  /\ First(e) /\ Due(e)
  /\ \/ \E delay \in 1..MaxDelay :
          tasks' = (tasks \ {e}) \cup {Again(e.key, loop_now, delay)}
     \/ tasks' = tasks \ {e}
  /\ UNCHANGED <<now, ready, running, loop_now>>

(* When StartTimer is called again, after a RunTasks that returned delay. *)
NextCall(delay) == IF delay <= kWaitForPrecision THEN now ELSE now + delay

(* RunTasks returns: the first task is not due, or there is no task. *)
Sleep ==
  /\ running
  /\ running' = FALSE
  /\ \/ \E e \in tasks : First(e) /\ ~Due(e) /\ ready' = NextCall(Wait(e))
     \/ tasks = {} /\ ready' = NextCall(0)
  /\ UNCHANGED <<now, tasks, loop_now>>

Next ==
  \/ Tick
  \/ \E key \in Task, delay \in 1..MaxDelay : DispatchTask(key, delay)
  \/ \E key \in Task : CancelTask(key)
  \/ StartTimer
  \/ \E e \in tasks : RunTask(e)
  \/ Sleep

Spec == Init /\ [][Next]_vars

-----------------------------------------------------------------------------
(* Properties. *)

(* A task runs within MaxDelay + 2 * Slack of the time it asked for.  The   *)
(* timer sleeps until the task that was the first when it was armed:        *)
(* one dispatched later may have to wait as long as that one.               *)
RunOnTime == \A e \in tasks : now < e.due + MaxDelay + 2 * Slack

(* No task waits for half the period of the clock, which is 24 days, while  *)
(* the thread is at work.                                                   *)
NotForgotten == \A e \in tasks : now < e.due + Half

(* A task that runs again was due. *)
NeverEarly ==
  [][\A e \in tasks, new \in tasks' :
       e.key = new.key /\ e # new => now >= e.due]_vars
=============================================================================
