------------------------------ MODULE ExecutorInv ------------------------------
(***************************************************************************)
(* The inductive invariant of Executor, whatever its users do.              *)
(*                                                                         *)
(* That a closed object is gone rests on the order of what its executor has *)
(* been given: nothing of the object is behind the handler that ends it.    *)
(* That a call on the thread of the program is beside a handler of the one  *)
(* executor that Stop waits for, and of no other, rests on the order in     *)
(* which they are stopped and joined.                                       *)
(***************************************************************************)
EXTENDS Executor

(* What executor k has been given, in turn: what it runs, and its queue. *)
Turns(k) == 0..Len(queue[k])
At(k, i) == IF i = 0 THEN running[k] ELSE queue[k][i]

(* The object of u has a task, or CancelTask is about to take it. *)
Kept(u) == object[u] = "open" \/ pc[u] = "cancelling" \/ u \in SelfCancels

(* Who waits for turn i of k, and what it is for. *)
Awaited(k, i) ==
  LET u == At(k, i).user IN
    /\ At(k, i).kind = "call" => Home[u] = k /\ pc[u] = "waiting"
    /\ At(k, i).kind = "cancel" => Home[u] = k /\ pc[u] = "cancelling"
    /\ At(k, i).kind = "dispatch" =>
         /\ Home[u] = k
         /\ (u \in Direct /\ Kept(u)) \/ (stopped[k] /\ i > 0)
    /\ At(k, i).kind = "write" => running[Home[u]] = Handle("waiting", u)

HandlersAwaited == \A k \in Thread : \A i \in Turns(k) : Awaited(k, i)

(* Nothing of an object comes after a call on it, or after its CancelTask,  *)
(* but what a callback in it has another executor do.                       *)
EndsLast ==
  \A k \in Thread : \A i, j \in Turns(k) :
    /\ i < j /\ At(k, i).kind \in {"call", "cancel"}
    /\ At(k, j).user = At(k, i).user
    => At(k, j).kind = "write"

(* A callback waits for one call at a time. *)
OneWrite ==
  \A j, k \in Thread : \A i \in Turns(j), l \in Turns(k) :
    /\ At(j, i).kind = "write" /\ At(k, l).kind = "write"
    /\ At(j, i).user = At(k, l).user
    => j = k /\ i = l

(* What executor k runs is inside a call of the program's. *)
Inside(k) == running[k].kind \in {"crossing", "waiting", "crossed"}

(* Executor k is in OnRun of the object of u. *)
InTask(k, u) ==
  /\ running[k].kind = "task" \/ (Inside(k) /\ u \in Direct)
  /\ running[k].user = u

(* Executor k is in a callback of the stream of u. *)
InCallback(k, u) ==
  /\ running[k].kind = "callback" \/ (Inside(k) /\ u \notin Direct)
  /\ running[k].user = u

(* Only its own executor has an object's task, while the object is open or  *)
(* CancelTask is on its way. *)
TasksAreOpen ==
  \A k \in Thread, u \in User :
    u \in tasks[k] \/ InTask(k, u) => Home[u] = k /\ Kept(u)

(* Only its own executor calls a stream's callbacks.  The stream is not     *)
(* destroyed meanwhile, unless Stop waits for the executor. *)
CallbacksAreHome ==
  \A k \in Thread, u \in User :
    InCallback(k, u) =>
      /\ u \notin Direct /\ Home[u] = k
      /\ object[u] \in {"open", "closed"} \/ BeingJoined(k)

(* Stop begins with the first, and waits for each before it goes on. *)
StoppedInTurn ==
  /\ owner = "started" => at = 1
  /\ \A k \in Thread :
       stopped[k] <=> \/ owner = "stopped"
                      \/ owner \in {"stopping", "joining"} /\ k < at
                      \/ BeingJoined(k)
  /\ \A k \in Thread : stopped[k] => io[k] = "exited" \/ BeingJoined(k)

(* An executor runs nothing when its thread is not there, and a thread of   *)
(* the program runs a call itself only when the executor is stopped. *)
RunsThere ==
  /\ \A k \in Thread : io[k] # "on" => running[k] = Idle
  /\ \A u \in User : pc[u] = "inline" => stopped[Home[u]]

IInv ==
  /\ TypeOK
  /\ HandlersAwaited /\ EndsLast /\ OneWrite
  /\ TasksAreOpen /\ CallbacksAreHome
  /\ StoppedInTurn /\ RunsThere
=============================================================================
