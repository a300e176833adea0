-------------------------------- MODULE Executor -------------------------------
(***************************************************************************)
(* Threads.  AsioIOContext (src/src/asio_udp.cc) has executors, each an     *)
(* IOContextThread that runs handlers and tasks on a thread of its own.  A  *)
(* thread of the program calls a KCPStream through its adapter              *)
(* (src/src/kcp_stream.h), which has the call run on that thread and waits  *)
(* for it (ExecutorInterface::Invoke, src/src/common_types.h), or gives an  *)
(* executor a task of its own.  The owner of the context starts and stops   *)
(* the executors in turn.                                                   *)
(*                                                                         *)
(* User thread u has one object, a stream or a task, which is task u of the *)
(* executor Home[u].  The OnRun of a stream calls nothing of the program's; *)
(* what arrives for the stream does, in a handler of its own.  A callback   *)
(* may close the stream, or call a stream of another executor, which makes  *)
(* its own wait.  When a task is due is left open here; TaskTimer says it.  *)
(***************************************************************************)
EXTENDS Naturals, Sequences

CONSTANTS
  Threads,          \* the number of executors
  User,             \* threads of the program
  Home,             \* the executor SelectIOThread chose for the object of each
  Crosses,          \* <<j, k>>: callbacks on j call streams of k
  Direct,           \* those that call DispatchTask and CancelTask themselves
  SelfCancels,      \* those of them whose task may cancel itself in its OnRun
  StopsLast         \* nothing is left open when Stop is called, and no thread
                    \* calls anything before it has returned

ASSUME ExecutorAssumption ==
  /\ Threads \in Nat \ {0}
  /\ Home \in [User -> 1..Threads]
  /\ Crosses \subseteq {c \in (1..Threads) \X (1..Threads) : c[1] # c[2]}
  /\ Direct \subseteq User
  /\ SelfCancels \subseteq Direct
  /\ StopsLast \in BOOLEAN

Thread == 1..Threads

VARIABLES
  owner,    \* how far the owner of the context is
  at,       \* the executor it has come to
  stopped,  \* io_context::stopped() of each
  io,       \* the thread of each
  queue,    \* the handlers posted to each
  running,  \* what each is running
  tasks,    \* the keys in tasks_ of each
  object,   \* the streams and tasks
  pc,       \* where each user thread is
  call      \* the call it is in

ownerVars == <<owner, at>>
contextVars == <<stopped, io>>
userVars == <<object, pc, call>>
vars == <<owner, at, stopped, io, queue, running, tasks, object, pc, call>>

Calls == {"Open", "Close", "Destroy"}
Idle == [kind |-> "idle"]
Handler == [kind : {"call", "dispatch", "cancel", "write"}, user : User]

TypeOK ==
  /\ owner \in {"starting", "started", "stopping", "joining", "stopped"}
  /\ at \in Thread
  /\ stopped \in [Thread -> BOOLEAN]
  /\ io \in [Thread -> {"off", "on", "exited"}]
  /\ queue \in [Thread -> Seq(Handler)]
  /\ running \in [Thread -> {Idle} \cup Handler \cup
                   [kind : {"task", "callback", "waiting", "crossed"},
                    user : User] \cup
                   [kind : {"crossing"}, user : User, to : Thread]]
  /\ tasks \in [Thread -> SUBSET User]
  /\ object \in [User -> {"created", "open", "closed", "freed"}]
  /\ pc \in [User -> {"idle", "posting", "waiting", "inline", "cancelling"}]
  /\ call \in [User -> Calls]

Init ==
  /\ owner = "starting" /\ at = 1
  /\ stopped = [k \in Thread |-> FALSE]
  /\ io = [k \in Thread |-> "off"]
  /\ queue = [k \in Thread |-> <<>>]
  /\ running = [k \in Thread |-> Idle]
  /\ tasks = [k \in Thread |-> {}]
  /\ object = [u \in User |-> "created"]
  /\ pc = [u \in User |-> "idle"]
  /\ call = [u \in User |-> "Open"]

Handle(kind, u) == [kind |-> kind, user |-> u]

(* A mutant: a handler goes before those that wait. *)
PostedFirst(k, h) == [queue EXCEPT ![k] = <<h>> \o @]

(* The queues after a handler is posted. *)
Posted(k, h) == [queue EXCEPT ![k] = Append(@, h)]

-----------------------------------------------------------------------------
(* The owner. *)

(* The owner goes on to the next executor, or is done. *)
GoesOn(more, done) ==
  IF at < Threads THEN owner' = more /\ at' = at + 1
                  ELSE owner' = done /\ at' = 1

(* A turn of the loop of AsioIOContext::Start. *)
Start ==
  /\ owner = "starting"
  /\ io' = [io EXCEPT ![at] = "on"]
  /\ GoesOn("starting", "started")
  /\ UNCHANGED <<stopped, queue, running, tasks, userVars>>


(* Stop cancels the timer and stops the io_context. *)
StopContext == TRUE

MayStop ==
  StopsLast => \A u \in User : pc[u] = "idle" /\ object[u] # "open"

(* IOContextThread::Stop, up to the join. *)
Stop ==
  /\ \/ owner = "stopping"
     \/ owner = "started" /\ MayStop
  /\ owner' = "joining"
  /\ stopped' = [stopped EXCEPT ![at] = StopContext]
  /\ UNCHANGED <<at, io, queue, running, tasks, userVars>>

(* The join, and the next turn of the loop of AsioIOContext::Stop. *)
Join ==
  /\ owner = "joining"
  /\ io[at] = "exited"
  /\ GoesOn("stopping", "stopped")
  /\ UNCHANGED <<contextVars, queue, running, tasks, userVars>>

-----------------------------------------------------------------------------
(* The user threads. *)

(* An object is opened once, and not used after it is destroyed. *)
MayCall(u, c) ==
  /\ pc[u] = "idle"
  /\ object[u] # "freed"
  /\ c = "Open" => object[u] = "created"
  /\ StopsLast => \/ owner \in {"starting", "started"}
                  \/ owner = "stopped" /\ c # "Open"

(* A mutant: the executor's own thread only. *)
OnThread(k) == FALSE

(* A mutant: a call may be run on any thread. *)
OnAnyThread(k) == TRUE

(* CanNowExecuted of k, on a thread that is not its own. *)
CanNowExecuted(k) == stopped[k]

(* A call through the adapter, up to the decision where it is to run. *)
Invoke(u, c) ==
  /\ u \notin Direct
  /\ MayCall(u, c)
  /\ call' = [call EXCEPT ![u] = c]
  /\ pc' = [pc EXCEPT ![u] = IF CanNowExecuted(Home[u]) THEN "inline"
                                                 ELSE "posting"]
  /\ UNCHANGED <<ownerVars, contextVars, queue, running, tasks, object>>

(* Post.  The thread waits for the promise. *)
Post(u) ==
  /\ pc[u] = "posting"
  /\ queue' = Posted(Home[u], Handle("call", u))
  /\ pc' = [pc EXCEPT ![u] = "waiting"]
  /\ UNCHANGED <<ownerVars, contextVars, running, tasks, object, call>>

(* A mutant: CancelTask does not wait. *)
CancelReturns(u) == "idle"

(* CancelTask on a user thread waits for its handler. *)
CancelWaits(u) == "cancelling"

CancelTask(u) ==
  /\ object' = [object EXCEPT ![u] = "closed"]
  /\ queue' = Posted(Home[u], Handle("cancel", u))
  /\ pc' = [pc EXCEPT ![u] = CancelWaits(u)]

(* What is left of an object that is not open after call c. *)
After(u, c) == IF c = "Destroy" THEN "freed" ELSE object[u]

(* A call that runs on the user thread. *)
RunInline(u) ==
  /\ pc[u] = "inline"
  /\ \/ /\ call[u] = "Open"
        /\ object' = [object EXCEPT ![u] = "open"]
        /\ queue' = Posted(Home[u], Handle("dispatch", u))
        /\ pc' = [pc EXCEPT ![u] = "idle"]
     \/ /\ call[u] # "Open" /\ object[u] = "open"
        /\ CancelTask(u)
     \/ /\ call[u] # "Open" /\ object[u] # "open"
        /\ object' = [object EXCEPT ![u] = After(u, call[u])]
        /\ pc' = [pc EXCEPT ![u] = "idle"]
        /\ UNCHANGED queue
  /\ UNCHANGED <<ownerVars, contextVars, running, tasks, call>>

(* DispatchTask, CancelTask and delete of a thread with a task of its own. *)
CallDirect(u, c) ==
  /\ u \in Direct
  /\ MayCall(u, c)
  /\ call' = [call EXCEPT ![u] = c]
  /\ \/ /\ c = "Open"
        /\ object' = [object EXCEPT ![u] = "open"]
        /\ queue' = Posted(Home[u], Handle("dispatch", u))
        /\ UNCHANGED pc
     \/ /\ c = "Close" /\ object[u] = "open"
        /\ CancelTask(u)
     \/ /\ c = "Destroy" /\ object[u] # "open"
        /\ object' = [object EXCEPT ![u] = "freed"]
        /\ UNCHANGED <<queue, pc>>
  /\ UNCHANGED <<ownerVars, contextVars, running, tasks>>

-----------------------------------------------------------------------------
(* The thread of executor k. *)

Free(k) == io[k] = "on" /\ ~stopped[k] /\ running[k] = Idle

(* run() takes the next handler. *)
TakeHandler(k) ==
  /\ Free(k)
  /\ queue[k] # <<>>
  /\ running' = [running EXCEPT ![k] = Head(queue[k])]
  /\ queue' = [queue EXCEPT ![k] = Tail(@)]
  /\ UNCHANGED <<ownerVars, contextVars, tasks, userVars>>

(* RunTasks takes a task that is due.  (The tasks that a RunTasks still has *)
(* to run when Stop is called are left out.)                                *)
TakeTask(k, u) ==
  /\ Free(k)
  /\ u \in tasks[k]
  /\ running' = [running EXCEPT ![k] = Handle("task", u)]
  /\ tasks' = [tasks EXCEPT ![k] = @ \ {u}]
  /\ UNCHANGED <<ownerVars, contextVars, queue, userVars>>

(* A read handler of the socket of a stream: OnRecvUDP, or OnError, calls   *)
(* the callback of the stream. *)
Receive(k, u) ==
  /\ Free(k)
  /\ u \notin Direct /\ Home[u] = k /\ object[u] = "open"
  /\ running' = [running EXCEPT ![k] = Handle("callback", u)]
  /\ UNCHANGED <<ownerVars, contextVars, queue, tasks, userVars>>

(* Executor k is in code of the program's: a callback of a stream, or OnRun *)
(* of a task that the program gave it. *)
InProgram(k) ==
  \/ running[k].kind = "callback"
  \/ running[k].kind \in {"task", "dispatch"} /\ running[k].user \in Direct

(* A callback closes its stream.  CancelTask does its work at once here.    *)
CallbackCloses(k) ==
  /\ running[k].kind \in {"callback", "crossed"}
  /\ LET u == running[k].user IN
     /\ u \notin Direct /\ object[u] = "open"
     /\ object' = [object EXCEPT ![u] = "closed"]
     /\ tasks' = [tasks EXCEPT ![k] = @ \ {u}]
  /\ UNCHANGED <<ownerVars, contextVars, queue, running, pc, call>>

(* The code of the program calls a stream of executor j.  When j is stopped *)
(* the call runs here. *)
Cross(k, j) ==
  /\ InProgram(k)
  /\ <<k, j>> \in Crosses
  /\ running' = [running EXCEPT ![k] =
       IF CanNowExecuted(j)
       THEN Handle("crossed", running[k].user)
       ELSE [kind |-> "crossing", user |-> running[k].user, to |-> j]]
  /\ UNCHANGED <<ownerVars, contextVars, queue, tasks, userVars>>

(* Its call is posted, and it waits. *)
PostCross(k) ==
  /\ running[k].kind = "crossing"
  /\ queue' = Posted(running[k].to, Handle("write", running[k].user))
  /\ running' = [running EXCEPT ![k] = Handle("waiting", running[k].user)]
  /\ UNCHANGED <<ownerVars, contextVars, tasks, userVars>>

(* The end of that call. *)
EndWrite(k) ==
  /\ running[k].kind = "write"
  /\ LET u == running[k].user IN
       running' = [running EXCEPT ![k] = Idle,
                                  ![Home[u]] = Handle("crossed", u)]
  /\ UNCHANGED <<ownerVars, contextVars, queue, tasks, userVars>>

(* OnRun of a stream that is not open returns kNotContinue. *)
Continues(u) == object[u] = "open" \/ u \in Direct

(* OnRun.  When a task cancels itself in it, CancelTask finds no task, and  *)
(* the task is kept on after that. *)
OnRun(k, u) ==
  /\ tasks' = IF Continues(u) THEN [tasks EXCEPT ![k] = @ \cup {u}] ELSE tasks
  /\ \/ UNCHANGED object
     \/ /\ u \in SelfCancels /\ object[u] = "open"
        /\ object' = [object EXCEPT ![u] = "closed"]

Ends(k, kinds) ==
  /\ running[k].kind \in kinds
  /\ running' = [running EXCEPT ![k] = Idle]

(* The end of OnRun of a task. *)
EndTask(k) ==
  /\ Ends(k, {"task", "crossed"})
  /\ running[k].kind = "crossed" => running[k].user \in Direct
  /\ OnRun(k, running[k].user)
  /\ UNCHANGED <<ownerVars, contextVars, queue, pc, call>>

(* The end of a read handler. *)
EndCallback(k) ==
  /\ Ends(k, {"callback", "crossed"})
  /\ running[k].user \notin Direct
  /\ UNCHANGED <<ownerVars, contextVars, queue, tasks, userVars>>

(* The end of a handler that DispatchTask posted. *)
EndDispatch(k) ==
  /\ Ends(k, {"dispatch"})
  /\ OnRun(k, running[k].user)
  /\ UNCHANGED <<ownerVars, contextVars, queue, pc, call>>

(* The end of a handler that CancelTask posted.  Its caller goes on. *)
EndCancel(k) ==
  /\ Ends(k, {"cancel"})
  /\ LET u == running[k].user IN
     /\ tasks' = [tasks EXCEPT ![k] = @ \ {u}]
     /\ object' = [object EXCEPT ![u] = After(u, call[u])]
     /\ pc' = [pc EXCEPT ![u] = "idle"]
  /\ UNCHANGED <<ownerVars, contextVars, queue, call>>

(* The end of a call that Invoke posted.  DispatchTask, with the first      *)
(* OnRun, and CancelTask do their work at once here. *)
EndCall(k) ==
  /\ Ends(k, {"call"})
  /\ LET u == running[k].user IN
     /\ \/ /\ call[u] = "Open"
           /\ tasks' = [tasks EXCEPT ![k] = @ \cup {u}]
           /\ object' = [object EXCEPT ![u] = "open"]
        \/ /\ call[u] = "Close" /\ object[u] = "open"
           /\ tasks' = [tasks EXCEPT ![k] = @ \ {u}]
           /\ object' = [object EXCEPT ![u] = "closed"]
        \/ /\ call[u] = "Close" /\ object[u] # "open"
           /\ UNCHANGED <<tasks, object>>
        \/ /\ call[u] = "Destroy"
           /\ tasks' = IF object[u] = "open"
                       THEN [tasks EXCEPT ![k] = @ \ {u}] ELSE tasks
           /\ object' = [object EXCEPT ![u] = "freed"]
     /\ pc' = [pc EXCEPT ![u] = "idle"]
  /\ UNCHANGED <<ownerVars, contextVars, queue, call>>

(* run() returns, and CancelAllTasks. *)
Exit(k) ==
  /\ io[k] = "on" /\ stopped[k] /\ running[k] = Idle
  /\ io' = [io EXCEPT ![k] = "exited"]
  /\ tasks' = [tasks EXCEPT ![k] = {}]
  /\ UNCHANGED <<ownerVars, stopped, queue, running, userVars>>

EndHandler(k) ==
  \/ EndTask(k) \/ EndCallback(k) \/ EndDispatch(k)
  \/ EndCancel(k) \/ EndCall(k) \/ EndWrite(k)

Next ==
  \/ Start \/ Stop \/ Join
  \/ \E u \in User, c \in Calls : Invoke(u, c) \/ CallDirect(u, c)
  \/ \E u \in User : Post(u) \/ RunInline(u)
  \/ \E k \in Thread :
       \/ TakeHandler(k) \/ CallbackCloses(k) \/ PostCross(k)
       \/ \E u \in User : TakeTask(k, u) \/ Receive(k, u)
       \/ \E j \in Thread : Cross(k, j)
       \/ EndTask(k) \/ EndCallback(k) \/ EndDispatch(k) \/ EndCancel(k)
       \/ EndCall(k) \/ EndWrite(k) \/ Exit(k)

(* The threads run: an executor takes its handlers in turn, although it     *)
(* always has tasks.                                                        *)
Fairness ==
  /\ WF_vars(Start) /\ WF_vars(Join) /\ WF_vars(owner = "stopping" /\ Stop)
  /\ \A k \in Thread :
       /\ WF_vars(EndHandler(k) \/ PostCross(k))
       /\ WF_vars(Exit(k)) /\ SF_vars(TakeHandler(k))
  /\ \A u \in User : WF_vars(Post(u)) /\ WF_vars(RunInline(u))

Spec == Init /\ [][Next]_vars /\ Fairness

-----------------------------------------------------------------------------
(* Properties. *)

(* Stop waits for the thread of executor k. *)
BeingJoined(k) == owner = "joining" /\ at = k

(* A call that runs on the thread of the program runs beside a handler or   *)
(* task of its executor only while Stop waits for that very executor to end *)
(* it: neither the streams nor the queue of tasks have a lock.              *)
Exclusive ==
  \A u \in User :
    pc[u] = "inline" /\ running[Home[u]] # Idle => BeingJoined(Home[u])

(* When Close or CancelTask has returned, the executor has no task of the   *)
(* object any more and does not run it, but for the callback that closed it *)
(* itself; and that has ended when the object is destroyed, unless Stop is  *)
(* waiting for it.  Only a task that cancels itself in its OnRun is not     *)
(* gone.                                                                    *)
CancelledIsGone ==
  \A u \in User \ SelfCancels, k \in Thread :
    object[u] \in {"closed", "freed"} /\ pc[u] = "idle" =>
      /\ u \notin tasks[k]
      /\ running[k] # Idle /\ running[k].user = u =>
           /\ u \notin Direct
           /\ running[k].kind
                \in {"callback", "crossing", "waiting", "crossed", "write"}
           /\ object[u] = "closed" \/ BeingJoined(Home[u])

(* Every call of a user thread returns, although an executor may be in a   *)
(* callback that waits for another one.                                     *)
CallsReturn == \A u \in User : pc[u] # "idle" ~> pc[u] = "idle"

(* CancelTask returns: "block util being completed". *)
CancelCompletes == \A u \in User : pc[u] = "cancelling" ~> pc[u] = "idle"

=============================================================================
