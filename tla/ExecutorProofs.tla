----------------------------- MODULE ExecutorProofs ----------------------------
(***************************************************************************)
(* A call on a thread of the program is beside a handler only on the        *)
(* executor that Stop waits for, and a closed object is gone, for any       *)
(* threads, executors and callbacks, whatever the users do.                 *)
(***************************************************************************)
EXTENDS ExecutorInv, SequenceTheorems, TLAPS

Running ==
  {Idle} \cup Handler \cup
  [kind : {"task", "callback", "waiting", "crossed"}, user : User] \cup
  [kind : {"crossing"}, user : User, to : Thread]

LEMMA RunningFacts ==
  ASSUME TypeOK, NEW k \in Thread
  PROVE  /\ running[k] \in Running
         /\ running[k].kind # "idle" => running[k].user \in User
         /\ running[k].kind = "idle" <=> running[k] = Idle
         /\ running[k].kind = "crossing" => running[k].to \in Thread
<1>1. running[k] \in Running
  BY DEF TypeOK, Running
<1>2. QED
  BY <1>1 DEF Running, Idle, Handler

LEMMA HandleType ==
  ASSUME NEW u \in User
  PROVE  /\ \A kind \in {"call", "dispatch", "cancel", "write"} :
              Handle(kind, u) \in Handler
         /\ \A kind \in {"task", "callback", "waiting", "crossed"} :
              Handle(kind, u) \in Running
         /\ \A kind : Handle(kind, u).kind = kind /\ Handle(kind, u).user = u
BY DEF Handle, Handler, Running

LEMMA PostedType ==
  ASSUME TypeOK, NEW k \in Thread, NEW h \in Handler
  PROVE  Posted(k, h) \in [Thread -> Seq(Handler)]
<1>1. Append(queue[k], h) \in Seq(Handler)
  BY AppendProperties DEF TypeOK
<1>2. QED
  BY <1>1 DEF Posted, TypeOK

ObjectStates == {"created", "open", "closed", "freed"}
Places == {"idle", "posting", "waiting", "inline", "cancelling"}

LEMMA UserTypes ==
  ASSUME TypeOK
  PROVE  /\ object \in [User -> ObjectStates] /\ pc \in [User -> Places]
         /\ call \in [User -> Calls]
         /\ \A u \in User, s \in ObjectStates :
              [object EXCEPT ![u] = s] \in [User -> ObjectStates]
         /\ \A u \in User, p \in Places :
              [pc EXCEPT ![u] = p] \in [User -> Places]
<1>1. /\ object \in [User -> ObjectStates] /\ pc \in [User -> Places]
      /\ call \in [User -> Calls]
  BY DEF TypeOK, ObjectStates, Places
<1>2. QED
  BY <1>1

LEMMA InitType == Init => TypeOK
<1>1. 1 \in Thread
  BY ExecutorAssumption DEF Thread
<1>2. <<>> \in Seq(Handler)
  BY EmptySeq
<1>3. QED
  BY <1>1, <1>2 DEF Init, TypeOK, Calls

LEMMA OwnerType ==
  ASSUME TypeOK, Start \/ Stop \/ Join \/ \E k \in Thread : Exit(k)
  PROVE  TypeOK'
<1>1. \A done : \A more :
        /\ more \in {"starting", "stopping"}
        /\ done \in {"started", "stopped"}
        /\ GoesOn(more, done)
        => owner' \in {more, done} /\ at' \in Thread
  BY ExecutorAssumption DEF GoesOn, Thread, TypeOK
<1>2. CASE Start
  <2>1. owner' \in {"starting", "started"} /\ at' \in Thread
    BY <1>1, <1>2 DEF Start
  <2>2. QED
    BY <1>2, <2>1 DEF Start, TypeOK, userVars
<1>3. CASE Stop
  BY <1>3 DEF Stop, StopContext, TypeOK, userVars
<1>4. CASE Join
  <2>1. owner' \in {"stopping", "stopped"} /\ at' \in Thread
    BY <1>1, <1>4 DEF Join
  <2>2. QED
    BY <1>4, <2>1 DEF Join, TypeOK, userVars, contextVars
<1>5. ASSUME NEW k \in Thread, Exit(k)
      PROVE  TypeOK'
  BY <1>5 DEF Exit, TypeOK, userVars, ownerVars
<1>6. QED
  BY <1>2, <1>3, <1>4, <1>5

LEMMA UserType ==
  ASSUME TypeOK, NEW u \in User, NEW c \in Calls,
         Invoke(u, c) \/ CallDirect(u, c) \/ Post(u) \/ RunInline(u)
  PROVE  TypeOK'
<1> USE DEF ownerVars, contextVars, userVars
<1>1. Home[u] \in Thread
  BY ExecutorAssumption DEF Thread
<1>2. \A kind \in {"call", "dispatch", "cancel", "write"} :
        Posted(Home[u], Handle(kind, u)) \in [Thread -> Seq(Handler)]
  BY <1>1, PostedType, HandleType
<1>3. CancelTask(u) =>
        /\ object' \in [User -> ObjectStates]
        /\ queue' \in [Thread -> Seq(Handler)]
        /\ pc' \in [User -> Places]
  BY <1>2, UserTypes DEF CancelTask, CancelWaits, ObjectStates, Places
<1>4. CASE Invoke(u, c)
  <2>1. pc' \in [User -> Places] /\ call' \in [User -> Calls]
    BY <1>4, UserTypes DEF Invoke, Places
  <2>2. QED
    BY <1>4, <2>1 DEF Invoke, TypeOK, Places
<1>5. CASE CallDirect(u, c)
  <2>1. /\ object' \in [User -> ObjectStates]
        /\ queue' \in [Thread -> Seq(Handler)]
        /\ pc' \in [User -> Places]
    <3>1. CASE /\ object' = [object EXCEPT ![u] = "open"]
               /\ queue' = Posted(Home[u], Handle("dispatch", u))
               /\ UNCHANGED pc
      BY <1>2, <3>1, UserTypes DEF ObjectStates
    <3>2. CASE CancelTask(u)
      BY <1>3, <3>2
    <3>3. CASE object' = [object EXCEPT ![u] = "freed"]
               /\ UNCHANGED <<queue, pc>>
      BY <3>3, UserTypes DEF ObjectStates, TypeOK
    <3>4. QED
      BY <1>5, <3>1, <3>2, <3>3 DEF CallDirect
  <2>2. call' \in [User -> Calls]
    BY <1>5, UserTypes DEF CallDirect
  <2>3. QED
    BY <1>5, <2>1, <2>2 DEF CallDirect, TypeOK, ObjectStates, Places
<1>6. CASE Post(u)
  <2>1. pc' \in [User -> Places]
    BY <1>6, UserTypes DEF Post, Places
  <2>2. QED
    BY <1>2, <1>6, <2>1 DEF Post, TypeOK, Places
<1>7. CASE RunInline(u)
  <2>1. /\ object' \in [User -> ObjectStates]
        /\ queue' \in [Thread -> Seq(Handler)]
        /\ pc' \in [User -> Places]
    <3>1. CASE /\ object' = [object EXCEPT ![u] = "open"]
               /\ queue' = Posted(Home[u], Handle("dispatch", u))
               /\ pc' = [pc EXCEPT ![u] = "idle"]
      BY <1>2, <3>1, UserTypes DEF ObjectStates, Places
    <3>2. CASE CancelTask(u)
      BY <1>3, <3>2
    <3>3. CASE /\ object' = [object EXCEPT ![u] = After(u, call[u])]
               /\ pc' = [pc EXCEPT ![u] = "idle"]
               /\ UNCHANGED queue
      <4>1. After(u, call[u]) \in ObjectStates
        BY UserTypes DEF After, ObjectStates
      <4>2. QED
        BY <3>3, <4>1, UserTypes DEF Places, TypeOK
    <3>4. QED
      BY <1>7, <3>1, <3>2, <3>3 DEF RunInline
  <2>2. QED
    BY <1>7, <2>1 DEF RunInline, TypeOK, ObjectStates, Places
<1>8. QED
  BY <1>4, <1>5, <1>6, <1>7

LEMMA ThreadType ==
  ASSUME TypeOK, NEW k \in Thread,
         \/ TakeHandler(k) \/ CallbackCloses(k) \/ PostCross(k)
         \/ EndHandler(k)
         \/ \E u \in User : TakeTask(k, u) \/ Receive(k, u)
         \/ \E j \in Thread : Cross(k, j)
  PROVE  TypeOK'
<1> USE DEF ownerVars, contextVars, userVars
<1> DEFINE u == running[k].user
<1>0. /\ queue[k] \in Seq(Handler)
      /\ running[k].kind # "idle" => u \in User
      /\ running[k].kind = "crossing" => running[k].to \in Thread
  BY RunningFacts DEF TypeOK
<1>1. Idle \in Running /\ Handler \subseteq Running
  BY DEF Running
<1>2. \A h \in Running :
        [running EXCEPT ![k] = h] \in [Thread -> Running]
  BY DEF TypeOK, Running
<1>3. CASE TakeHandler(k)
  <2>1. Head(queue[k]) \in Handler /\ Tail(queue[k]) \in Seq(Handler)
    BY <1>0, <1>3, HeadTailProperties DEF TakeHandler
  <2>2. QED
    BY <1>1, <1>2, <1>3, <2>1 DEF TakeHandler, TypeOK, Running
<1>4. CASE PostCross(k)
  <2>1. running' \in [Thread -> Running]
    BY <1>0, <1>2, <1>4, HandleType DEF PostCross
  <2>2. queue' \in [Thread -> Seq(Handler)]
    BY <1>0, <1>4, PostedType, HandleType DEF PostCross
  <2>3. QED
    BY <1>4, <2>1, <2>2 DEF PostCross, TypeOK, Running
<1>5. ASSUME NEW v \in User, TakeTask(k, v) \/ Receive(k, v)
      PROVE  TypeOK'
  <2>1. running' \in [Thread -> Running]
    BY <1>2, <1>5, HandleType DEF TakeTask, Receive
  <2>2. tasks[k] \ {v} \in SUBSET User
    BY DEF TypeOK
  <2>3. tasks' \in [Thread -> SUBSET User]
    BY <1>5, <2>2 DEF TakeTask, Receive, TypeOK
  <2>4. QED
    BY <1>5, <2>1, <2>3 DEF TakeTask, Receive, TypeOK, Running
<1>6. ASSUME NEW j \in Thread, Cross(k, j)
      PROVE  TypeOK'
  <2>1. u \in User
    BY <1>0, <1>6 DEF Cross, InProgram
  <2>2. [kind |-> "crossing", user |-> u, to |-> j] \in Running
    BY <2>1 DEF Running
  <2>3. running' \in [Thread -> Running]
    BY <1>2, <1>6, <2>1, <2>2, HandleType DEF Cross
  <2>4. QED
    BY <1>6, <2>3 DEF Cross, TypeOK, Running
<1>7. CASE EndWrite(k)
  <2>1. u \in User /\ Home[u] \in Thread
    BY <1>0, <1>7, ExecutorAssumption DEF EndWrite, Thread
  <2>2. Handle("crossed", u) \in Running
    BY <2>1, HandleType
  <2>3. running' = [running EXCEPT ![k] = Idle,
                                   ![Home[u]] = Handle("crossed", u)]
    BY <1>7 DEF EndWrite
  <2>4. running' \in [Thread -> Running]
    BY <1>1, <1>2, <2>1, <2>2, <2>3
  <2>5. QED
    BY <1>7, <2>4 DEF EndWrite, TypeOK, Running
<1>8. ASSUME NEW kinds, "idle" \notin kinds, Ends(k, kinds)
      PROVE  running' \in [Thread -> Running] /\ u \in User
  BY <1>0, <1>1, <1>2, <1>8 DEF Ends
<1>9. OnRun(k, u) =>
        /\ u \in User => tasks' \in [Thread -> SUBSET User]
        /\ object' \in [User -> ObjectStates]
  <2> SUFFICES ASSUME OnRun(k, u)
               PROVE  /\ u \in User => tasks' \in [Thread -> SUBSET User]
                      /\ object' \in [User -> ObjectStates]
    OBVIOUS
  <2>1. u \in User => tasks[k] \cup {u} \in SUBSET User
    BY DEF TypeOK
  <2>2. u \in User => tasks' \in [Thread -> SUBSET User]
    BY <2>1 DEF OnRun, TypeOK
  <2>3. object' \in [User -> ObjectStates]
    BY UserTypes DEF OnRun, ObjectStates
  <2>4. QED
    BY <2>2, <2>3
<1>10. CASE EndTask(k) \/ EndDispatch(k)
  <2>1. running' \in [Thread -> Running] /\ u \in User /\ OnRun(k, u)
    BY <1>8, <1>10 DEF EndTask, EndDispatch
  <2>2. QED
    BY <1>9, <1>10, <2>1 DEF EndTask, EndDispatch, TypeOK, Running,
                             ObjectStates
<1>11. CASE EndCancel(k)
  <2>1. running' \in [Thread -> Running] /\ u \in User
    BY <1>8, <1>11 DEF EndCancel
  <2>2. /\ object' \in [User -> ObjectStates] /\ pc' \in [User -> Places]
        /\ tasks' \in [Thread -> SUBSET User]
    <3>1. After(u, call[u]) \in ObjectStates
      BY <2>1, UserTypes DEF After, ObjectStates
    <3>2. tasks[k] \ {u} \in SUBSET User
      BY DEF TypeOK
    <3>3. tasks' \in [Thread -> SUBSET User]
      BY <1>11, <3>2 DEF EndCancel, TypeOK
    <3>4. QED
      BY <1>11, <2>1, <3>1, <3>3, UserTypes DEF EndCancel, Places
  <2>3. QED
    BY <1>11, <2>1, <2>2 DEF EndCancel, TypeOK, Running, ObjectStates, Places
<1>12. CASE EndCall(k)
  <2>1. running' \in [Thread -> Running] /\ u \in User
    BY <1>8, <1>12 DEF EndCall
  <2>2. /\ tasks' \in [Thread -> SUBSET User]
        /\ object' \in [User -> ObjectStates]
    <3>1. /\ tasks[k] \cup {u} \in SUBSET User
          /\ tasks[k] \ {u} \in SUBSET User
      BY <2>1 DEF TypeOK
    <3>2. \/ UNCHANGED tasks
          \/ tasks' = [tasks EXCEPT ![k] = @ \cup {u}]
          \/ tasks' = [tasks EXCEPT ![k] = @ \ {u}]
      BY <1>12 DEF EndCall
    <3>3. tasks' \in [Thread -> SUBSET User]
      <4>1. tasks \in [Thread -> SUBSET User]
        BY DEF TypeOK
      <4>2. \A s \in SUBSET User :
              [tasks EXCEPT ![k] = s] \in [Thread -> SUBSET User]
        BY <4>1
      <4>3. QED
        BY <3>1, <3>2, <4>1, <4>2
    <3>4. \/ UNCHANGED object
          \/ \E s \in {"open", "closed", "freed"} :
               object' = [object EXCEPT ![u] = s]
      BY <1>12 DEF EndCall
    <3>5. QED
      BY <2>1, <3>3, <3>4, UserTypes DEF ObjectStates
  <2>3. pc' \in [User -> Places]
    BY <1>12, <2>1, UserTypes DEF EndCall, Places
  <2>4. QED
    BY <1>12, <2>1, <2>2, <2>3 DEF EndCall, TypeOK, Running, ObjectStates,
                                   Places
<1>13. CASE EndCallback(k)
  BY <1>8, <1>13 DEF EndCallback, TypeOK, Running
<1>14. CASE CallbackCloses(k)
  <2>1. u \in User
    BY <1>0, <1>14 DEF CallbackCloses
  <2>2. tasks[k] \ {u} \in SUBSET User
    BY DEF TypeOK
  <2>3. object' \in [User -> ObjectStates]
    BY <1>14, UserTypes DEF CallbackCloses, ObjectStates
  <2>4. QED
    BY <1>14, <2>2, <2>3 DEF CallbackCloses, TypeOK, ObjectStates
<1>15. QED
  BY <1>3, <1>4, <1>5, <1>6, <1>7, <1>10, <1>11, <1>12, <1>13, <1>14
     DEF EndHandler

LEMMA TypeStep == TypeOK /\ [Next]_vars => TypeOK'
<1> SUFFICES ASSUME TypeOK, [Next]_vars PROVE TypeOK'
  OBVIOUS
<1>1. CASE UNCHANGED vars
  BY <1>1 DEF vars, TypeOK
<1>2. ASSUME NEW u \in User, NEW c \in Calls,
             Invoke(u, c) \/ CallDirect(u, c) \/ Post(u) \/ RunInline(u)
      PROVE  TypeOK'
  BY <1>2, UserType
<1>3. "Open" \in Calls
  BY DEF Calls
<1>4. QED
  BY <1>1, <1>2, <1>3, OwnerType, ThreadType DEF Next, EndHandler

(* The executors, the threads and what they wait for have the states that   *)
(* TypeOK lists, whatever the users do. *)
THEOREM ExecutorTypeCorrect == Spec => []TypeOK
BY InitType, TypeStep, PTL DEF Spec
-----------------------------------------------------------------------------
(* The invariant. *)

LEMMA KindFacts ==
  ASSUME TypeOK, NEW k \in Thread, NEW i \in Turns(k)
  PROVE  /\ i \in Nat /\ Len(queue[k]) \in Nat
         /\ i # 0 => At(k, i) = queue[k][i] /\ At(k, i) \in Handler
         /\ i = 0 => At(k, i) = running[k]
         /\ At(k, i).kind # "idle" => At(k, i).user \in User
<1>1. queue[k] \in Seq(Handler)
  BY DEF TypeOK
<1>2. i \in Nat /\ Len(queue[k]) \in Nat /\ i <= Len(queue[k])
  BY <1>1 DEF Turns
<1>3. i # 0 => queue[k][i] \in Handler
  BY <1>1, <1>2
<1>4. QED
  BY <1>2, <1>3, RunningFacts DEF At, Handler

(* Turns in which nothing changes. *)
LEMMA SameTurns ==
  ASSUME UNCHANGED <<queue, running>>, NEW k \in Thread
  PROVE  /\ Turns(k)' = Turns(k)
         /\ \A i \in Turns(k) : At(k, i)' = At(k, i)
BY DEF Turns, At

(* What is posted to k comes last there. *)
LEMMA PostedTurns ==
  ASSUME TypeOK, NEW k \in Thread, NEW h \in Handler, queue' = Posted(k, h),
         NEW j \in Thread, NEW i \in Turns(j)'
  PROVE  /\ i # 0 /\ ~(j = k /\ i = Len(queue[k]) + 1) =>
              i \in Turns(j) /\ At(j, i)' = At(j, i)
         /\ j = k /\ i = Len(queue[k]) + 1 => At(j, i)' = h
         /\ i = 0 => i \in Turns(j) /\ At(j, i)' = running'[j]
<1>1. queue[j] \in Seq(Handler) /\ Len(queue[j]) \in Nat
  BY DEF TypeOK
<1>2. queue'[j] = IF j = k THEN Append(queue[j], h) ELSE queue[j]
  BY DEF Posted, TypeOK
<1>3. i \in Nat /\ i <= Len(queue'[j])
  BY <1>1, <1>2, AppendProperties DEF Turns
<1>4. CASE j = k
  <2>1. /\ Len(queue'[j]) = Len(queue[j]) + 1
        /\ queue'[j][Len(queue[j]) + 1] = h
        /\ \A l \in 1..Len(queue[j]) : queue'[j][l] = queue[j][l]
    BY <1>1, <1>2, <1>4, AppendProperties
  <2>2. QED
    BY <1>1, <1>3, <1>4, <2>1 DEF Turns, At
<1>5. CASE j # k
  BY <1>1, <1>2, <1>3, <1>5 DEF Turns, At
<1>6. QED
  BY <1>4, <1>5

(* The turn that executor j gave to what is its turn i when k has taken the *)
(* head of its queue. *)
Was(j, k, i) == IF j = k THEN i + 1 ELSE i

LEMMA TakenTurns ==
  ASSUME TypeOK, NEW k \in Thread, TakeHandler(k), NEW j \in Thread,
         NEW i \in Turns(j)'
  PROVE  /\ Was(j, k, i) \in Turns(j) /\ i \in Nat
         /\ At(j, i)' = At(j, Was(j, k, i))
<1>1. queue[j] \in Seq(Handler) /\ Len(queue[j]) \in Nat
  BY DEF TypeOK
<1>2. CASE j = k
  <2>1. queue[j] # <<>> /\ queue'[j] = Tail(queue[j])
        /\ running'[j] = Head(queue[j])
    BY <1>2 DEF TakeHandler, TypeOK
  <2>2. /\ Len(queue'[j]) = Len(queue[j]) - 1 /\ Len(queue[j]) > 0
        /\ \A l \in 1..Len(queue'[j]) : queue'[j][l] = queue[j][l + 1]
        /\ running'[j] = queue[j][1]
    BY <1>1, <2>1, HeadTailProperties, EmptySeq
  <2>3. i \in Nat /\ i <= Len(queue'[j])
    BY <1>1, <2>2 DEF Turns
  <2>4. QED
    BY <1>1, <1>2, <2>2, <2>3 DEF Turns, At, Was
<1>3. CASE j # k
  <2>1. queue'[j] = queue[j] /\ running'[j] = running[j]
    BY <1>3 DEF TakeHandler, TypeOK
  <2>2. QED
    BY <1>1, <1>3, <2>1 DEF Turns, At, Was
<1>4. QED
  BY <1>2, <1>3

Handlers == {"call", "dispatch", "cancel", "write"}

(* What is left when k goes on to something that is no handler. *)
LEMMA OtherTurns ==
  ASSUME IInv, NEW k \in Thread, NEW h, h.kind \notin Handlers,
         running' = [running EXCEPT ![k] = h],
         running[k].kind # "waiting", UNCHANGED queue
  PROVE  /\ EndsLast' /\ OneWrite'
         /\ \A j \in Thread : \A i \in Turns(j)' :
              /\ i \in Turns(j)
              /\ At(j, i)'.kind \in Handlers =>
                   At(j, i)' = At(j, i) /\ ~(j = k /\ i = 0)
         /\ \A u \in User :
              running[Home[u]] = Handle("waiting", u) =>
                running'[Home[u]] = Handle("waiting", u)
<1>1. \A j \in Thread : \A i \in Turns(j)' :
        /\ i \in Turns(j)
        /\ i # 0 => At(j, i)' = At(j, i)
        /\ i = 0 => At(j, i)' = IF j = k THEN h ELSE At(j, i)
  BY DEF Turns, At, IInv, TypeOK
<1>2. \A j \in Thread : \A i \in Turns(j)' :
        At(j, i)'.kind \in Handlers =>
          At(j, i)' = At(j, i) /\ ~(j = k /\ i = 0)
  BY <1>1
<1>3. EndsLast'
  <2> SUFFICES ASSUME NEW j \in Thread, NEW i \in Turns(j)',
                      NEW l \in Turns(j)', i < l,
                      At(j, i)'.kind \in {"call", "cancel"},
                      At(j, l)'.user = At(j, i)'.user
               PROVE  At(j, l)'.kind = "write"
    BY DEF EndsLast
  <2>1. i \in Turns(j) /\ l \in Turns(j) /\ At(j, i)' = At(j, i)
    BY <1>1, <1>2 DEF Handlers
  <2>2. l # 0
    BY <2>1, KindFacts DEF IInv
  <2>3. QED
    BY <1>1, <2>1, <2>2 DEF EndsLast, IInv
<1>4. OneWrite'
  BY <1>1, <1>2 DEF OneWrite, IInv, Handlers
<1>5. \A u \in User :
        running[Home[u]] = Handle("waiting", u) =>
          running'[Home[u]] = Handle("waiting", u)
  BY HandleType, ExecutorAssumption DEF Thread, IInv, TypeOK
<1>6. QED
  BY <1>1, <1>2, <1>3, <1>4, <1>5

(* What a step that leaves the owner alone keeps. *)
LEMMA OwnerKeeps ==
  ASSUME IInv, UNCHANGED <<ownerVars, contextVars>>,
         \A k \in Thread :
           running'[k] # Idle => running[k] # Idle \/ io[k] = "on",
         \A u \in User : pc'[u] = "inline" => stopped[Home[u]]
  PROVE  StoppedInTurn' /\ RunsThere'
BY DEF IInv, StoppedInTurn, BeingJoined, RunsThere, ownerVars, contextVars

(* An executor that is stopped and still runs something is the one that     *)
(* Stop waits for. *)
LEMMA StoppedRuns ==
  ASSUME IInv, NEW k \in Thread, stopped[k], running[k] # Idle
  PROVE  BeingJoined(k)
BY DEF IInv, StoppedInTurn, RunsThere

LEMMA InitInvariant == Init => IInv
<1> SUFFICES ASSUME Init PROVE IInv
  OBVIOUS
<1>1. \A k \in Thread : \A i \in Turns(k) : At(k, i) = Idle
  BY DEF Init, Turns, At
<1>2. HandlersAwaited /\ EndsLast /\ OneWrite
  BY <1>1 DEF HandlersAwaited, Awaited, EndsLast, OneWrite, Idle
<1>3. TasksAreOpen /\ CallbacksAreHome
  BY DEF Init, TasksAreOpen, InTask, CallbacksAreHome, InCallback, Inside, Idle
<1>4. StoppedInTurn /\ RunsThere
  BY DEF Init, StoppedInTurn, BeingJoined, RunsThere
<1>5. QED
  BY <1>2, <1>3, <1>4, InitType DEF IInv

LEMMA UnchangedInvariant == IInv /\ UNCHANGED vars => IInv'
<1> SUFFICES ASSUME IInv, UNCHANGED vars PROVE IInv'
  OBVIOUS
<1>1. HandlersAwaited' /\ EndsLast' /\ OneWrite'
  BY SameTurns DEF vars, IInv, HandlersAwaited, Awaited, Kept, EndsLast,
                   OneWrite
<1>2. TasksAreOpen' /\ CallbacksAreHome'
  BY DEF vars, IInv, TasksAreOpen, InTask, Kept, CallbacksAreHome, InCallback,
         Inside, BeingJoined
<1>3. QED
  BY <1>1, <1>2 DEF vars, IInv, TypeOK, RunsThere, StoppedInTurn, BeingJoined

LEMMA OwnerStep ==
  ASSUME IInv, Start \/ Stop \/ Join \/ \E k \in Thread : Exit(k)
  PROVE  IInv'
<1>1. UNCHANGED <<queue, running, object, pc, call>>
  BY DEF Start, Stop, Join, Exit, userVars
<1>2. \A k \in Thread : tasks'[k] = tasks[k] \/ tasks'[k] = {}
  BY DEF Start, Stop, Join, Exit, IInv, TypeOK
<1>3. TypeOK'
  BY OwnerType DEF IInv
<1>4. \A k \in Thread : stopped[k] => stopped'[k]
  BY DEF Start, Stop, StopContext, Join, Exit, contextVars, IInv, TypeOK
<1>5. HandlersAwaited' /\ EndsLast' /\ OneWrite'
  <2>1. HandlersAwaited'
    BY <1>1, <1>4, SameTurns DEF IInv, HandlersAwaited, Awaited, Kept
  <2>2. QED
    BY <1>1, <2>1, SameTurns DEF IInv, EndsLast, OneWrite
<1>6. TasksAreOpen'
  BY <1>1, <1>2 DEF IInv, TasksAreOpen, InTask, Inside, Kept
<1>7. at \in Nat /\ at \in Thread /\ Threads \in Nat
      /\ \A k \in Thread : k \in Nat /\ 1 <= k /\ k <= Threads
  BY ExecutorAssumption DEF IInv, TypeOK, Thread
<1>8. CallbacksAreHome' /\ StoppedInTurn' /\ RunsThere'
  <2>0. \A k \in Thread, u \in User :
          InCallback(k, u)' => InCallback(k, u) /\ running[k] # Idle
    BY <1>1 DEF InCallback, Inside, Idle
  <2>1. CASE Start
    <3>1. /\ owner = "starting" /\ io' = [io EXCEPT ![at] = "on"]
          /\ owner' = "starting" \/ (owner' = "started" /\ at' = 1)
          /\ UNCHANGED stopped
      BY <2>1 DEF Start, GoesOn
    <3>2. \A k \in Thread : ~stopped[k] /\ ~BeingJoined(k)
      BY <3>1 DEF IInv, StoppedInTurn, BeingJoined
    <3>3. CallbacksAreHome'
      BY <1>1, <2>0, <3>2 DEF IInv, CallbacksAreHome
    <3>4. StoppedInTurn'
      BY <3>1, <3>2 DEF StoppedInTurn, BeingJoined
    <3>5. RunsThere'
      BY <1>1, <1>7, <3>1 DEF IInv, TypeOK, RunsThere
    <3>6. QED
      BY <3>3, <3>4, <3>5
  <2>2. CASE Stop
    <3>1. /\ owner' = "joining" /\ UNCHANGED <<at, io>>
          /\ stopped' = [stopped EXCEPT ![at] = TRUE]
          /\ owner = "stopping" \/ (owner = "started" /\ at = 1)
      BY <2>2 DEF Stop, StopContext, IInv, StoppedInTurn
    <3>2. \A k \in Thread : ~BeingJoined(k)
      BY <3>1 DEF BeingJoined
    <3>3. CallbacksAreHome'
      BY <1>1, <2>0, <3>2 DEF IInv, CallbacksAreHome
    <3>4. \A k \in Thread : stopped[k] <=> k < at
      BY <1>7, <3>1, <3>2 DEF IInv, StoppedInTurn
    <3>5. StoppedInTurn'
      BY <1>7, <3>1, <3>2, <3>4
         DEF IInv, TypeOK, StoppedInTurn, BeingJoined
    <3>6. RunsThere'
      BY <1>1, <1>4, <3>1, ExecutorAssumption DEF IInv, RunsThere, Thread
    <3>7. QED
      BY <3>3, <3>5, <3>6
  <2>3. CASE Join
    <3>1. /\ owner = "joining" /\ io[at] = "exited"
          /\ UNCHANGED <<stopped, io>>
          /\ \/ owner' = "stopping" /\ at' = at + 1
             \/ owner' = "stopped" /\ ~(at < Threads)
      BY <2>3 DEF Join, GoesOn, contextVars
    <3>2. \A k \in Thread : BeingJoined(k) => running[k] = Idle
      BY <3>1 DEF IInv, RunsThere, BeingJoined
    <3>3. CallbacksAreHome'
      BY <1>1, <2>0, <3>2 DEF IInv, CallbacksAreHome
    <3>4. \A k \in Thread : stopped[k] <=> k < at \/ k = at
      BY <3>1 DEF IInv, StoppedInTurn, BeingJoined
    <3>5. StoppedInTurn'
      <4>1. \A k \in Thread : stopped[k] => io[k] = "exited"
        BY <3>1 DEF IInv, StoppedInTurn, BeingJoined
      <4>2. CASE owner' = "stopping" /\ at' = at + 1
        BY <1>7, <3>1, <3>4, <4>1, <4>2 DEF StoppedInTurn, BeingJoined
      <4>3. CASE owner' = "stopped" /\ ~(at < Threads)
        BY <1>7, <3>1, <3>4, <4>1, <4>3 DEF StoppedInTurn, BeingJoined
      <4>4. QED
        BY <3>1, <4>2, <4>3
    <3>6. RunsThere'
      BY <1>1, <3>1 DEF IInv, RunsThere
    <3>7. QED
      BY <3>3, <3>5, <3>6
  <2>4. ASSUME NEW k \in Thread, Exit(k)
        PROVE  CallbacksAreHome' /\ StoppedInTurn' /\ RunsThere'
    <3>1. /\ running[k] = Idle /\ io' = [io EXCEPT ![k] = "exited"]
          /\ UNCHANGED <<owner, at, stopped>>
      BY <2>4 DEF Exit, ownerVars
    <3>2. CallbacksAreHome'
      BY <1>1, <2>0, <3>1 DEF IInv, CallbacksAreHome, BeingJoined
    <3>3. StoppedInTurn'
      BY <3>1 DEF IInv, TypeOK, StoppedInTurn, BeingJoined
    <3>4. RunsThere'
      BY <1>1, <3>1 DEF IInv, TypeOK, RunsThere
    <3>5. QED
      BY <3>2, <3>3, <3>4
  <2>5. QED
    BY <2>1, <2>2, <2>3, <2>4
<1>9. QED
  BY <1>3, <1>5, <1>6, <1>8 DEF IInv

(* What is left when a thread of the program posts h to k. *)
LEMMA PostedKeeps ==
  ASSUME IInv, NEW k \in Thread, NEW h \in Handler, h.kind # "write",
         queue' = Posted(k, h), UNCHANGED running,
         \A i \in Turns(k) :
           At(k, i).kind \in {"call", "cancel"} => At(k, i).user # h.user
  PROVE  /\ EndsLast' /\ OneWrite'
         /\ \A j \in Thread : \A i \in Turns(j)' :
              \/ i \in Turns(j) /\ At(j, i)' = At(j, i)
              \/ j = k /\ At(j, i)' = h
<1>1. \A j \in Thread : \A i \in Turns(j)' :
        \/ i \in Turns(j) /\ At(j, i)' = At(j, i)
        \/ j = k /\ i = Len(queue[k]) + 1 /\ At(j, i)' = h
  BY PostedTurns DEF IInv, At
<1>2. \A i \in Turns(k) : i \in Nat /\ i < Len(queue[k]) + 1
  BY KindFacts DEF IInv, Turns
<1>3. EndsLast'
  <2> SUFFICES ASSUME NEW j \in Thread, NEW i \in Turns(j)',
                      NEW l \in Turns(j)', i < l,
                      At(j, i)'.kind \in {"call", "cancel"},
                      At(j, l)'.user = At(j, i)'.user
               PROVE  At(j, l)'.kind = "write"
    BY DEF EndsLast
  <2>1. CASE i \in Turns(j) /\ At(j, i)' = At(j, i)
    <3>1. CASE l \in Turns(j) /\ At(j, l)' = At(j, l)
      BY <2>1, <3>1 DEF IInv, EndsLast
    <3>2. CASE j = k /\ At(j, l)' = h
      BY <2>1, <3>2
    <3>3. QED
      BY <1>1, <3>1, <3>2
  <2>2. CASE j = k /\ i = Len(queue[k]) + 1
    <3>1. l = Len(queue[k]) + 1 \/ l < Len(queue[k]) + 1
      BY <1>1, <1>2, <2>2
    <3>2. Len(queue[k]) \in Nat
      BY DEF IInv, TypeOK
    <3>3. QED
      BY <1>1, <1>2, <2>2, <3>1, <3>2
  <2>3. QED
    BY <1>1, <2>1, <2>2
<1>4. OneWrite'
  BY <1>1 DEF IInv, OneWrite
<1>5. QED
  BY <1>1, <1>3, <1>4

LEMMA UserSteps ==
  ASSUME IInv, NEW u \in User, NEW c \in Calls,
         Invoke(u, c) \/ CallDirect(u, c) \/ Post(u) \/ RunInline(u)
  PROVE  IInv'
<1>0. /\ TypeOK' /\ Home[u] \in Thread
      /\ UNCHANGED <<ownerVars, contextVars, running, tasks>>
      /\ UNCHANGED <<owner, at, stopped, io>>
  BY UserType, ExecutorAssumption
     DEF IInv, Thread, Invoke, CallDirect, Post, RunInline, ownerVars,
         contextVars
<1>1. /\ object \in [User -> ObjectStates] /\ pc \in [User -> Places]
      /\ call \in [User -> Calls]
  BY UserTypes DEF IInv
(* Nothing that the executors have is a call of u, or a CancelTask. *)
<1>2. ASSUME pc[u] \in {"idle", "posting", "inline"}
      PROVE  \A j \in Thread : \A i \in Turns(j) :
               At(j, i).kind \in {"call", "cancel"} => At(j, i).user # u
  BY <1>2 DEF IInv, HandlersAwaited, Awaited
<1>3. ASSUME \A v \in User : Kept(v) => Kept(v)'
      PROVE  TasksAreOpen'
  BY <1>0, <1>3 DEF IInv, TasksAreOpen, InTask, Inside
<1>4. ASSUME \A v \in User \ {u} : object'[v] = object[v],
             \/ object'[u] \in {object[u], "open", "closed"}
             \/ u \in Direct \/ stopped[Home[u]]
      PROVE  CallbacksAreHome'
  <2> SUFFICES ASSUME NEW k \in Thread, NEW v \in User, InCallback(k, v)'
               PROVE  /\ v \notin Direct /\ Home[v] = k
                      /\ object'[v] \in {"open", "closed"} \/ BeingJoined(k)'
    BY DEF CallbacksAreHome
  <2>1. /\ InCallback(k, v) /\ running[k] # Idle
        /\ BeingJoined(k)' = BeingJoined(k)
    BY <1>0 DEF InCallback, Inside, Idle, BeingJoined
  <2>2. /\ v \notin Direct /\ Home[v] = k
        /\ object[v] \in {"open", "closed"} \/ BeingJoined(k)
    BY <2>1 DEF IInv, CallbacksAreHome
  <2>3. stopped[k] => BeingJoined(k)
    BY <2>1, StoppedRuns
  <2>4. QED
    BY <1>4, <2>1, <2>2, <2>3
<1>5. ASSUME \A v \in User \ {u} : pc'[v] = pc[v],
             pc'[u] = "inline" => stopped[Home[u]]
      PROVE  StoppedInTurn' /\ RunsThere'
  <2>1. \A v \in User : pc'[v] = "inline" => stopped[Home[v]]
    BY <1>5 DEF IInv, RunsThere
  <2>2. QED
    BY <1>0, <2>1, OwnerKeeps
<1>6. CASE Invoke(u, c)
  <2>1. /\ u \notin Direct /\ pc[u] = "idle" /\ UNCHANGED <<queue, object>>
        /\ call' = [call EXCEPT ![u] = c]
        /\ pc' = [pc EXCEPT ![u] =
                    IF stopped[Home[u]] THEN "inline" ELSE "posting"]
    BY <1>6 DEF Invoke, MayCall, CanNowExecuted
  <2>2. \A v \in User : Kept(v) => Kept(v)'
    BY <1>1, <2>1 DEF Kept
  <2>3. HandlersAwaited'
    <3> SUFFICES ASSUME NEW j \in Thread, NEW i \in Turns(j)'
                 PROVE  Awaited(j, i)'
      BY DEF HandlersAwaited
    <3>1. i \in Turns(j) /\ At(j, i)' = At(j, i)
      BY <1>0, <2>1, SameTurns
    <3>2. Awaited(j, i) /\ (At(j, i).kind # "idle" => At(j, i).user \in User)
      BY <3>1, KindFacts DEF IInv, HandlersAwaited
    <3>3. QED
      BY <1>0, <1>1, <1>2, <2>1, <2>2, <3>1, <3>2 DEF Awaited
  <2>4. EndsLast' /\ OneWrite'
    BY <1>0, <2>1, SameTurns DEF IInv, EndsLast, OneWrite
  <2>5. TasksAreOpen' /\ CallbacksAreHome'
    BY <1>3, <1>4, <2>1, <2>2
  <2>6. StoppedInTurn' /\ RunsThere'
    BY <1>1, <1>5, <2>1
  <2>7. QED
    BY <1>0, <2>3, <2>4, <2>5, <2>6 DEF IInv
(* A handler is posted to the executor of the object. *)
<1>7. ASSUME NEW h \in Handler, h.kind # "write", h.user = u,
             queue' = Posted(Home[u], h),
             pc[u] \in {"idle", "posting", "inline"},
             \A v \in User \ {u} : pc'[v] = pc[v],
             pc'[u] # "inline",
             \A v \in User : Kept(v) => Kept(v)',
             \A v \in User \ {u} : object'[v] = object[v],
             object'[u] \in {object[u], "open", "closed"},
             h.kind = "call" => pc'[u] = "waiting",
             h.kind = "cancel" => pc'[u] = "cancelling",
             h.kind = "dispatch" =>
               (u \in Direct /\ Kept(u)') \/ stopped[Home[u]]
      PROVE  IInv'
  <2>1. /\ EndsLast' /\ OneWrite'
        /\ \A j \in Thread : \A i \in Turns(j)' :
             \/ i \in Turns(j) /\ At(j, i)' = At(j, i)
             \/ j = Home[u] /\ At(j, i)' = h /\ i > 0
    <3>1. \A i \in Turns(Home[u]) :
            At(Home[u], i).kind \in {"call", "cancel"} =>
              At(Home[u], i).user # h.user
      BY <1>0, <1>2, <1>7
    <3>2. /\ EndsLast' /\ OneWrite'
          /\ \A j \in Thread : \A i \in Turns(j)' :
               \/ i \in Turns(j) /\ At(j, i)' = At(j, i)
               \/ j = Home[u] /\ At(j, i)' = h
      BY <1>0, <1>7, <3>1, PostedKeeps
    <3>3. \A j \in Thread : \A i \in Turns(j)' :
            i > 0 \/ (i \in Turns(j) /\ At(j, i)' = At(j, i))
      <4> SUFFICES ASSUME NEW j \in Thread, NEW i \in Turns(j)', ~(i > 0)
                   PROVE  i \in Turns(j) /\ At(j, i)' = At(j, i)
        OBVIOUS
      <4>1. i \in Nat
        BY <1>0 DEF TypeOK, Turns
      <4>2. i = 0
        BY <4>1
      <4>3. QED
        BY <1>0, <1>7, <4>2, PostedTurns DEF IInv, At
    <3>4. QED
      BY <3>2, <3>3
  <2>2. HandlersAwaited'
    <3> SUFFICES ASSUME NEW j \in Thread, NEW i \in Turns(j)'
                 PROVE  Awaited(j, i)'
      BY DEF HandlersAwaited
    <3>1. CASE i \in Turns(j) /\ At(j, i)' = At(j, i)
      <4>1. Awaited(j, i) /\ (At(j, i).kind # "idle" => At(j, i).user \in User)
        BY <3>1, KindFacts DEF IInv, HandlersAwaited
      <4>2. QED
        BY <1>0, <1>2, <1>7, <3>1, <4>1 DEF Awaited
    <3>2. CASE j = Home[u] /\ At(j, i)' = h /\ i > 0
      BY <1>0, <1>7, <3>2 DEF Awaited, Handler
    <3>3. QED
      BY <2>1, <3>1, <3>2
  <2>3. TasksAreOpen' /\ CallbacksAreHome' /\ StoppedInTurn' /\ RunsThere'
    BY <1>3, <1>4, <1>5, <1>7
  <2>4. QED
    BY <1>0, <2>1, <2>2, <2>3 DEF IInv
<1>8. ASSUME object[u] = "open", CancelTask(u), pc[u] \in {"idle", "inline"}
      PROVE  IInv'
  <2> DEFINE h == Handle("cancel", u)
  <2>1. /\ object' = [object EXCEPT ![u] = "closed"]
        /\ queue' = Posted(Home[u], h)
        /\ pc' = [pc EXCEPT ![u] = "cancelling"]
    BY <1>8 DEF CancelTask, CancelWaits
  <2>2. \A v \in User : Kept(v) => Kept(v)'
    BY <1>1, <2>1 DEF Kept
  <2>3. h \in Handler /\ h.kind = "cancel" /\ h.user = u
    BY HandleType
  <2> HIDE DEF h
  <2>4. QED
    BY <1>1, <1>7, <1>8, <2>1, <2>2, <2>3
<1>9. ASSUME object' = [object EXCEPT ![u] = "open"], UNCHANGED pc,
             u \in Direct, pc[u] = "idle",
             queue' = Posted(Home[u], Handle("dispatch", u))
      PROVE  IInv'
  <2> DEFINE h == Handle("dispatch", u)
  <2>1. \A v \in User : Kept(v) => Kept(v)'
    BY <1>1, <1>9 DEF Kept
  <2>2. h \in Handler /\ h.kind = "dispatch" /\ h.user = u /\ Kept(u)'
    BY <1>1, <1>9, HandleType DEF Kept
  <2>3. queue' = Posted(Home[u], h)
    BY <1>9
  <2> HIDE DEF h
  <2>4. QED
    BY <1>1, <1>7, <1>9, <2>1, <2>2, <2>3
<1>10. ASSUME object[u] # "open",
              \/ object' = [object EXCEPT ![u] = After(u, call'[u])]
              \/ object' = [object EXCEPT ![u] = "freed"],
              u \in Direct \/ stopped[Home[u]],
              pc[u] \in {"idle", "inline"},
              pc' = [pc EXCEPT ![u] = "idle"], UNCHANGED queue
       PROVE  IInv'
  <2>1. \A v \in User : Kept(v) => Kept(v)'
    BY <1>1, <1>10 DEF Kept
  <2>2. HandlersAwaited'
    <3> SUFFICES ASSUME NEW j \in Thread, NEW i \in Turns(j)'
                 PROVE  Awaited(j, i)'
      BY DEF HandlersAwaited
    <3>1. i \in Turns(j) /\ At(j, i)' = At(j, i)
      BY <1>0, <1>10, SameTurns
    <3>2. Awaited(j, i) /\ (At(j, i).kind # "idle" => At(j, i).user \in User)
      BY <3>1, KindFacts DEF IInv, HandlersAwaited
    <3>3. QED
      BY <1>0, <1>1, <1>2, <1>10, <2>1, <3>1, <3>2 DEF Awaited
  <2>3. EndsLast' /\ OneWrite'
    BY <1>0, <1>10, SameTurns DEF IInv, EndsLast, OneWrite
  <2>4. TasksAreOpen' /\ CallbacksAreHome'
    BY <1>1, <1>3, <1>4, <1>10, <2>1
  <2>5. StoppedInTurn' /\ RunsThere'
    BY <1>1, <1>5, <1>10
  <2>6. QED
    BY <1>0, <2>2, <2>3, <2>4, <2>5 DEF IInv
<1>11. CASE CallDirect(u, c)
  <2>1. u \in Direct /\ pc[u] = "idle" /\ call' = [call EXCEPT ![u] = c]
    BY <1>11 DEF CallDirect, MayCall
  <2>2. CASE /\ object' = [object EXCEPT ![u] = "open"]
             /\ queue' = Posted(Home[u], Handle("dispatch", u))
             /\ UNCHANGED pc
    BY <1>9, <2>1, <2>2
  <2>3. CASE object[u] = "open" /\ CancelTask(u)
    BY <1>8, <2>1, <2>3
  <2>4. CASE /\ object[u] # "open"
             /\ object' = [object EXCEPT ![u] = "freed"]
             /\ UNCHANGED <<queue, pc>>
    <3>1. pc' = [pc EXCEPT ![u] = "idle"]
      BY <1>1, <2>1, <2>4
    <3>2. QED
      BY <1>10, <2>1, <2>4, <3>1
  <2>5. QED
    BY <1>11, <2>2, <2>3, <2>4 DEF CallDirect
<1>12. CASE Post(u)
  <2> DEFINE h == Handle("call", u)
  <2>1. /\ pc[u] = "posting" /\ queue' = Posted(Home[u], h)
        /\ pc' = [pc EXCEPT ![u] = "waiting"] /\ UNCHANGED object
    BY <1>12 DEF Post
  <2>2. \A v \in User : Kept(v) => Kept(v)'
    BY <1>1, <2>1 DEF Kept
  <2>3. h \in Handler /\ h.kind = "call" /\ h.user = u
    BY HandleType
  <2> HIDE DEF h
  <2>4. QED
    BY <1>1, <1>7, <2>1, <2>2, <2>3
<1>13. CASE RunInline(u)
  <2>1. pc[u] = "inline" /\ stopped[Home[u]] /\ UNCHANGED call
    BY <1>13 DEF RunInline, IInv, RunsThere
  <2>2. CASE /\ object' = [object EXCEPT ![u] = "open"]
             /\ queue' = Posted(Home[u], Handle("dispatch", u))
             /\ pc' = [pc EXCEPT ![u] = "idle"]
    <3> DEFINE h == Handle("dispatch", u)
    <3>1. \A v \in User : Kept(v) => Kept(v)'
      BY <1>1, <2>1, <2>2 DEF Kept
    <3>2. h \in Handler /\ h.kind = "dispatch" /\ h.user = u
      BY HandleType
    <3>3. queue' = Posted(Home[u], h)
      BY <2>2
    <3> HIDE DEF h
    <3>4. QED
      BY <1>1, <1>7, <2>1, <2>2, <3>1, <3>2, <3>3
  <2>3. CASE object[u] = "open" /\ CancelTask(u)
    BY <1>8, <2>1, <2>3
  <2>4. CASE /\ object[u] # "open"
             /\ object' = [object EXCEPT ![u] = After(u, call[u])]
             /\ pc' = [pc EXCEPT ![u] = "idle"]
             /\ UNCHANGED queue
    BY <1>10, <2>1, <2>4
  <2>5. QED
    BY <1>13, <2>2, <2>3, <2>4 DEF RunInline
<1>14. QED
  BY <1>6, <1>11, <1>12, <1>13

(* What a step of an executor keeps, when the only object it changes is that *)
(* of a task that cancels itself. *)
LEMMA ThreadKeeps ==
  ASSUME IInv, TypeOK', UNCHANGED <<ownerVars, contextVars, pc>>,
         \A v \in User : \/ object'[v] = object[v]
                         \/ object'[v] = "closed" /\ v \in SelfCancels,
         \A j \in Thread, v \in User :
           v \in tasks'[j] \/ InTask(j, v)' =>
             \/ v \in tasks[j] \/ InTask(j, v)
             \/ Home[v] = j /\ Kept(v),
         \A j \in Thread, v \in User :
           InCallback(j, v)' =>
             \/ InCallback(j, v)
             \/ v \notin Direct /\ Home[v] = j /\ object[v] = "open",
         \A j \in Thread :
           running'[j] # Idle => running[j] # Idle \/ io[j] = "on",
         \A j \in Thread : \A i \in Turns(j)' :
           At(j, i)'.kind \in Handlers =>
             \/ \E l \in Turns(j) :
                  /\ At(j, i)' = At(j, l) /\ ((l > 0 /\ ~stopped[j]) \/ i = l)
                  /\ At(j, l).kind = "write" =>
                       LET v == At(j, l).user IN
                         running[Home[v]] = Handle("waiting", v) =>
                           running'[Home[v]] = Handle("waiting", v)
             \/ Awaited(j, i)'
  PROVE  /\ HandlersAwaited' /\ TasksAreOpen' /\ CallbacksAreHome'
         /\ StoppedInTurn' /\ RunsThere'
<1>1. UNCHANGED <<owner, at, stopped, io>>
  BY DEF ownerVars, contextVars
<1>2. \A v \in User : Kept(v) => Kept(v)'
  BY DEF Kept
<1>3. HandlersAwaited'
  <2> SUFFICES ASSUME NEW j \in Thread, NEW i \in Turns(j)',
                      At(j, i)'.kind \in Handlers, ~Awaited(j, i)'
               PROVE  FALSE
    BY DEF HandlersAwaited, Awaited, Handlers
  <2>1. PICK l \in Turns(j) :
          /\ At(j, i)' = At(j, l) /\ ((l > 0 /\ ~stopped[j]) \/ i = l)
          /\ At(j, l).kind = "write" =>
               LET v == At(j, l).user IN
                 running[Home[v]] = Handle("waiting", v) =>
                   running'[Home[v]] = Handle("waiting", v)
    OBVIOUS
  <2>2. Awaited(j, l) /\ At(j, l).user \in User
    BY <2>1, KindFacts DEF IInv, HandlersAwaited, Handlers
  <2>3. QED
    BY <1>1, <1>2, <2>1, <2>2 DEF Awaited
<1>4. TasksAreOpen'
  <2> SUFFICES ASSUME NEW j \in Thread, NEW v \in User,
                      v \in tasks'[j] \/ InTask(j, v)'
               PROVE  Home[v] = j /\ Kept(v)'
    BY DEF TasksAreOpen
  <2>1. Home[v] = j /\ Kept(v)
    BY DEF IInv, TasksAreOpen
  <2>2. QED
    BY <1>2, <2>1
<1>5. CallbacksAreHome'
  <2> SUFFICES ASSUME NEW j \in Thread, NEW v \in User, InCallback(j, v)'
               PROVE  /\ v \notin Direct /\ Home[v] = j
                      /\ object'[v] \in {"open", "closed"} \/ BeingJoined(j)'
    BY DEF CallbacksAreHome
  <2>1. /\ v \notin Direct /\ Home[v] = j
        /\ object[v] \in {"open", "closed"} \/ BeingJoined(j)
    BY DEF IInv, CallbacksAreHome
  <2>2. QED
    BY <1>1, <2>1 DEF BeingJoined
<1>6. \A v \in User : pc'[v] = "inline" => stopped[Home[v]]
  BY DEF IInv, RunsThere
<1>7. StoppedInTurn' /\ RunsThere'
  BY <1>6, OwnerKeeps
<1>8. QED
  BY <1>3, <1>4, <1>5, <1>7

LEMMA TakeStep ==
  ASSUME IInv, NEW k \in Thread,
         TakeHandler(k) \/ \E u \in User : TakeTask(k, u) \/ Receive(k, u)
  PROVE  IInv'
<1>0. /\ TypeOK' /\ UNCHANGED <<ownerVars, contextVars, userVars>>
      /\ UNCHANGED <<object, pc>>
      /\ running[k] = Idle /\ io[k] = "on" /\ ~stopped[k]
  BY ThreadType DEF IInv, TakeHandler, TakeTask, Receive, Free, userVars
<1>1. CASE TakeHandler(k)
  <2>1. \A j \in Thread : \A i \in Turns(j)' :
          /\ Was(j, k, i) \in Turns(j) /\ i \in Nat
          /\ At(j, i)' = At(j, Was(j, k, i))
    BY <1>1, TakenTurns DEF IInv
  <2>2. \A j \in Thread : j # k => running'[j] = running[j]
    BY <1>1 DEF IInv, TypeOK, TakeHandler
  <2>3. \A v \in User :
          running[Home[v]] = Handle("waiting", v) =>
            running'[Home[v]] = Handle("waiting", v)
    <3> SUFFICES ASSUME NEW v \in User,
                        running[Home[v]] = Handle("waiting", v)
                 PROVE  running'[Home[v]] = Handle("waiting", v)
      OBVIOUS
    <3>1. Home[v] \in Thread /\ Home[v] # k
      BY <1>0, HandleType, ExecutorAssumption DEF Idle, Thread
    <3>2. QED
      BY <2>2, <3>1
  <2>4. EndsLast'
    <3> SUFFICES ASSUME NEW j \in Thread, NEW i \in Turns(j)',
                        NEW l \in Turns(j)', i < l,
                        At(j, i)'.kind \in {"call", "cancel"},
                        At(j, l)'.user = At(j, i)'.user
                 PROVE  At(j, l)'.kind = "write"
      BY DEF EndsLast
    <3>1. Was(j, k, i) < Was(j, k, l)
      BY <2>1 DEF Was
    <3>2. QED
      BY <2>1, <3>1 DEF IInv, EndsLast
  <2>5. OneWrite'
    <3> SUFFICES ASSUME NEW j \in Thread, NEW m \in Thread,
                        NEW i \in Turns(j)', NEW l \in Turns(m)',
                        At(j, i)'.kind = "write", At(m, l)'.kind = "write",
                        At(j, i)'.user = At(m, l)'.user
                 PROVE  j = m /\ i = l
      BY DEF OneWrite
    <3>1. j = m /\ Was(j, k, i) = Was(m, k, l)
      BY <2>1 DEF IInv, OneWrite
    <3>2. QED
      BY <2>1, <3>1 DEF Was
  <2>6. \A j \in Thread, v \in User :
          /\ InTask(j, v)' => InTask(j, v)
          /\ InCallback(j, v)' => InCallback(j, v)
    <3>1. running'[k] \in Handler
      <4>1. queue[k] \in Seq(Handler) /\ queue[k] # <<>>
        BY <1>1 DEF TakeHandler, IInv, TypeOK
      <4>2. running'[k] = Head(queue[k])
        BY <1>1 DEF TakeHandler, IInv, TypeOK
      <4>3. QED
        BY <4>1, <4>2, HeadTailProperties
    <3>2. \A v \in User : ~InTask(k, v)' /\ ~InCallback(k, v)'
      BY <3>1 DEF InTask, InCallback, Inside, Handler
    <3>3. QED
      BY <2>2, <3>2 DEF InTask, InCallback, Inside
  <2>7. \A j \in Thread : \A i \in Turns(j)' :
          At(j, i)'.kind \in Handlers =>
            \E l \in Turns(j) :
              /\ At(j, i)' = At(j, l) /\ ((l > 0 /\ ~stopped[j]) \/ i = l)
              /\ At(j, l).kind = "write" =>
                   LET v == At(j, l).user IN
                     running[Home[v]] = Handle("waiting", v) =>
                       running'[Home[v]] = Handle("waiting", v)
    <3> SUFFICES ASSUME NEW j \in Thread, NEW i \in Turns(j)',
                        At(j, i)'.kind \in Handlers
                 PROVE  \E l \in Turns(j) :
                          /\ At(j, i)' = At(j, l)
                          /\ (l > 0 /\ ~stopped[j]) \/ i = l
                          /\ At(j, l).kind = "write" =>
                               LET v == At(j, l).user IN
                                 running[Home[v]] = Handle("waiting", v) =>
                                   running'[Home[v]] = Handle("waiting", v)
      OBVIOUS
    <3> DEFINE l == Was(j, k, i)
    <3>1. l \in Turns(j) /\ i \in Nat /\ At(j, i)' = At(j, l)
      BY <2>1
    <3>2. At(j, l).user \in User
      BY <3>1, KindFacts DEF IInv, Handlers
    <3>3. (l > 0 /\ ~stopped[j]) \/ i = l
      BY <1>0, <3>1 DEF Was
    <3> HIDE DEF l
    <3>4. QED
      BY <2>3, <3>1, <3>2, <3>3
  <2>8. UNCHANGED tasks
    BY <1>1 DEF TakeHandler
  <2>9. /\ HandlersAwaited' /\ TasksAreOpen' /\ CallbacksAreHome'
        /\ StoppedInTurn' /\ RunsThere'
    BY <1>0, <2>2, <2>6, <2>7, <2>8, ThreadKeeps
  <2>10. QED
    BY <1>0, <2>4, <2>5, <2>9 DEF IInv
<1>2. ASSUME NEW u \in User, TakeTask(k, u) \/ Receive(k, u)
      PROVE  IInv'
  <2>1. PICK h \in {Handle("task", u), Handle("callback", u)} :
          /\ running' = [running EXCEPT ![k] = h] /\ UNCHANGED queue
          /\ h.kind = "task" => u \in tasks[k]
          /\ h.kind = "callback" =>
               u \notin Direct /\ Home[u] = k /\ object[u] = "open"
          /\ \A j \in Thread : tasks'[j] \subseteq tasks[j]
    <3>1. CASE TakeTask(k, u)
      <4>1. \A j \in Thread : tasks'[j] \subseteq tasks[j]
        BY <3>1 DEF TakeTask, IInv, TypeOK
      <4>2. QED
        BY <3>1, <4>1, HandleType DEF TakeTask
    <3>2. CASE Receive(k, u)
      BY <3>2, HandleType DEF Receive
    <3>3. QED
      BY <1>2, <3>1, <3>2
  <2>2. /\ h.kind \in {"task", "callback"} /\ h.user = u
        /\ h.kind \notin Handlers /\ running[k].kind # "waiting"
    BY <1>0, <2>1, HandleType DEF Handlers, Idle
  <2>3. /\ EndsLast' /\ OneWrite'
        /\ \A j \in Thread : \A i \in Turns(j)' :
             /\ i \in Turns(j)
             /\ At(j, i)'.kind \in Handlers =>
                  At(j, i)' = At(j, i) /\ ~(j = k /\ i = 0)
        /\ \A v \in User :
             running[Home[v]] = Handle("waiting", v) =>
               running'[Home[v]] = Handle("waiting", v)
    BY <2>1, <2>2, OtherTurns
  <2>4. \A j \in Thread, v \in User :
          /\ InTask(j, v)' => InTask(j, v) \/ v \in tasks[j]
          /\ InCallback(j, v)' =>
               \/ InCallback(j, v)
               \/ v \notin Direct /\ Home[v] = j /\ object[v] = "open"
    BY <2>1, <2>2 DEF IInv, TypeOK, InTask, InCallback, Inside
  <2>5. /\ HandlersAwaited' /\ TasksAreOpen' /\ CallbacksAreHome'
        /\ StoppedInTurn' /\ RunsThere'
    <3>1. \A j \in Thread : j # k => running'[j] = running[j]
      BY <2>1 DEF IInv, TypeOK
    <3>2. \A j \in Thread : \A i \in Turns(j) :
            At(j, i).kind \in Handlers => At(j, i).user \in User
      BY KindFacts DEF IInv, Handlers
    <3>3. QED
      BY <1>0, <2>1, <2>3, <2>4, <3>1, <3>2, ThreadKeeps
  <2>6. QED
    BY <1>0, <2>3, <2>5 DEF IInv
<1>3. QED
  BY <1>1, <1>2

LEMMA CrossStep ==
  ASSUME IInv, NEW k \in Thread, NEW j \in Thread, Cross(k, j)
  PROVE  IInv'
<1> DEFINE u == running[k].user
           h == IF CanNowExecuted(j) THEN Handle("crossed", u)
                ELSE [kind |-> "crossing", user |-> u, to |-> j]
<1>0. /\ TypeOK' /\ InProgram(k) /\ u \in User
      /\ UNCHANGED <<ownerVars, contextVars, userVars, queue, tasks>>
      /\ running' = [running EXCEPT ![k] = h]
  BY ThreadType, RunningFacts DEF IInv, Cross, InProgram
<1>1. h.kind \in {"crossed", "crossing"} /\ h.user = u
  BY DEF Handle
<1> HIDE DEF h
<1>2. /\ running[k].kind \in {"callback", "task", "dispatch"}
      /\ running[k].kind # "callback" => u \in Direct
  BY <1>0 DEF InProgram
<1>3. /\ EndsLast' /\ OneWrite'
      /\ \A m \in Thread : \A i \in Turns(m)' :
           /\ i \in Turns(m)
           /\ At(m, i)'.kind \in Handlers =>
                At(m, i)' = At(m, i) /\ ~(m = k /\ i = 0)
      /\ \A v \in User :
           running[Home[v]] = Handle("waiting", v) =>
             running'[Home[v]] = Handle("waiting", v)
  <2>1. h.kind \notin Handlers /\ running[k].kind # "waiting"
    BY <1>1, <1>2 DEF Handlers
  <2>2. QED
    BY <1>0, <2>1, OtherTurns
<1>4. running[k].kind = "dispatch" => Home[u] = k /\ Kept(u)
  <2>1. 0 \in Turns(k) /\ At(k, 0) = running[k]
    BY DEF IInv, TypeOK, Turns, At
  <2>2. QED
    BY <2>1 DEF IInv, HandlersAwaited, Awaited
<1>5. running[k].kind = "callback" => u \notin Direct
  BY <1>0 DEF IInv, CallbacksAreHome, InCallback
<1>6. \A m \in Thread, v \in User :
        /\ InTask(m, v)' => InTask(m, v) \/ (Home[v] = m /\ Kept(v))
        /\ InCallback(m, v)' => InCallback(m, v)
  <2>1. \A m \in Thread : m # k => running'[m] = running[m]
    BY <1>0 DEF IInv, TypeOK
  <2>2. running'[k] = h
    BY <1>0 DEF IInv, TypeOK
  <2>3. QED
    BY <1>1, <1>2, <1>4, <1>5, <2>1, <2>2 DEF InTask, InCallback, Inside
<1>7. /\ HandlersAwaited' /\ TasksAreOpen' /\ CallbacksAreHome'
      /\ StoppedInTurn' /\ RunsThere'
  <2>1. \A m \in Thread : running'[m] # Idle => running[m] # Idle
    BY <1>0, <1>2 DEF IInv, TypeOK, Idle
  <2>2. \A m \in Thread : \A i \in Turns(m) :
          At(m, i).kind \in Handlers => At(m, i).user \in User
    BY KindFacts DEF IInv, Handlers
  <2>3. UNCHANGED <<object, pc>>
    BY <1>0 DEF userVars
  <2>4. QED
    BY <1>0, <1>3, <1>6, <2>1, <2>2, <2>3, ThreadKeeps
<1>8. QED
  BY <1>0, <1>3, <1>7 DEF IInv

LEMMA PostCrossStep ==
  ASSUME IInv, NEW k \in Thread, PostCross(k)
  PROVE  IInv'
<1> DEFINE u == running[k].user
           t == running[k].to
           h == Handle("write", u)
           w == Handle("waiting", u)
<1>0. /\ TypeOK' /\ running[k].kind = "crossing"
      /\ u \in User /\ t \in Thread
      /\ UNCHANGED <<ownerVars, contextVars, userVars, tasks>>
      /\ queue' = Posted(t, h) /\ running' = [running EXCEPT ![k] = w]
  BY ThreadType, RunningFacts DEF IInv, PostCross
<1>1. /\ h \in Handler /\ h.kind = "write" /\ h.user = u
      /\ w.kind = "waiting" /\ w.user = u
  BY <1>0, HandleType
<1>2. Home[u] = k
  <2>1. InTask(k, u) \/ InCallback(k, u)
    BY <1>0 DEF InTask, InCallback, Inside
  <2>2. QED
    BY <1>0, <2>1 DEF IInv, TasksAreOpen, CallbacksAreHome
<1>3. running'[k] = w /\ \A j \in Thread : j # k => running'[j] = running[j]
  BY <1>0 DEF IInv, TypeOK
<1>4. \A j \in Thread : \A i \in Turns(j)' :
        \/ i \in Turns(j) /\ At(j, i)' = At(j, i) /\ ~(j = k /\ i = 0)
        \/ j = k /\ i = 0 /\ At(j, i)' = w
        \/ j = t /\ i = Len(queue[t]) + 1 /\ At(j, i)' = h
  <2> SUFFICES ASSUME NEW j \in Thread, NEW i \in Turns(j)'
               PROVE  \/ /\ i \in Turns(j) /\ At(j, i)' = At(j, i)
                         /\ ~(j = k /\ i = 0)
                      \/ j = k /\ i = 0 /\ At(j, i)' = w
                      \/ j = t /\ i = Len(queue[t]) + 1 /\ At(j, i)' = h
    OBVIOUS
  <2> HIDE DEF h, w, t
  <2>1. /\ i # 0 /\ ~(j = t /\ i = Len(queue[t]) + 1) =>
             i \in Turns(j) /\ At(j, i)' = At(j, i)
        /\ j = t /\ i = Len(queue[t]) + 1 => At(j, i)' = h
        /\ i = 0 => i \in Turns(j) /\ At(j, i)' = running'[j]
    BY <1>0, <1>1, PostedTurns DEF IInv
  <2>2. QED
    BY <1>3, <2>1 DEF At
<1> HIDE DEF u, t, h, w
<1>5. \A j \in Thread : \A i \in Turns(j) :
        At(j, i).kind = "write" => At(j, i).user # u
  <2> SUFFICES ASSUME NEW j \in Thread, NEW i \in Turns(j),
                      At(j, i).kind = "write", At(j, i).user = u
               PROVE  FALSE
    OBVIOUS
  <2>1. running[k] = Handle("waiting", u)
    BY <1>2 DEF IInv, HandlersAwaited, Awaited
  <2>2. QED
    BY <1>0, <2>1, HandleType
<1>6. /\ HandlersAwaited' /\ TasksAreOpen' /\ CallbacksAreHome'
      /\ StoppedInTurn' /\ RunsThere'
  <2>1. \A v \in User :
          running[Home[v]] = Handle("waiting", v) =>
            running'[Home[v]] = Handle("waiting", v)
    <3> SUFFICES ASSUME NEW v \in User,
                        running[Home[v]] = Handle("waiting", v)
                 PROVE  running'[Home[v]] = Handle("waiting", v)
      OBVIOUS
    <3>1. Home[v] \in Thread /\ Home[v] # k
      BY <1>0, HandleType, ExecutorAssumption DEF Thread
    <3>2. QED
      BY <1>3, <3>1
  <2>2. \A j \in Thread : \A i \in Turns(j)' :
          At(j, i)'.kind \in Handlers =>
            \/ /\ i \in Turns(j) /\ At(j, i)' = At(j, i)
               /\ At(j, i).user \in User
            \/ Awaited(j, i)'
    <3>1. \A j \in Thread : \A i \in Turns(j) :
            At(j, i).kind \in Handlers => At(j, i).user \in User
      BY KindFacts DEF IInv, Handlers
    <3>2. \A j \in Thread : \A i \in Turns(j)' :
            At(j, i)' = h => Awaited(j, i)'
      BY <1>1, <1>2, <1>3 DEF Awaited, w
    <3>3. w.kind \notin Handlers
      BY <1>1 DEF Handlers
    <3>4. QED
      BY <1>4, <3>1, <3>2, <3>3
  <2>3. \A j \in Thread, v \in User :
          /\ InTask(j, v)' => InTask(j, v)
          /\ InCallback(j, v)' => InCallback(j, v)
    BY <1>0, <1>1, <1>3 DEF InTask, InCallback, Inside, u
  <2>4. \A j \in Thread : running'[j] # Idle => running[j] # Idle
    BY <1>0, <1>3 DEF Idle
  <2>5. UNCHANGED <<object, pc>>
    BY <1>0 DEF userVars
  <2>6. QED
    BY <1>0, <2>1, <2>2, <2>3, <2>4, <2>5, ThreadKeeps
<1>7. EndsLast'
  <2> SUFFICES ASSUME NEW j \in Thread, NEW i \in Turns(j)',
                      NEW l \in Turns(j)', i < l,
                      At(j, i)'.kind \in {"call", "cancel"},
                      At(j, l)'.user = At(j, i)'.user
               PROVE  At(j, l)'.kind = "write"
    BY DEF EndsLast
  <2>1. i \in Turns(j) /\ At(j, i)' = At(j, i)
    BY <1>1, <1>4
  <2>2. l # 0
    BY <2>1, KindFacts DEF IInv
  <2>3. QED
    BY <1>1, <1>4, <2>1, <2>2 DEF IInv, EndsLast
<1>8. OneWrite'
  <2> SUFFICES ASSUME NEW j \in Thread, NEW m \in Thread,
                      NEW i \in Turns(j)', NEW l \in Turns(m)',
                      At(j, i)'.kind = "write", At(m, l)'.kind = "write",
                      At(j, i)'.user = At(m, l)'.user
               PROVE  j = m /\ i = l
    BY DEF OneWrite
  <2>1. CASE i \in Turns(j) /\ At(j, i)' = At(j, i)
    <3>1. l \in Turns(m) /\ At(m, l)' = At(m, l)
      BY <1>1, <1>4, <1>5, <2>1
    <3>2. QED
      BY <2>1, <3>1 DEF IInv, OneWrite
  <2>2. CASE j = t /\ i = Len(queue[t]) + 1 /\ At(j, i)' = h
    BY <1>1, <1>4, <1>5, <2>2
  <2>3. QED
    BY <1>1, <1>4, <2>1, <2>2
<1>9. QED
  BY <1>0, <1>6, <1>7, <1>8 DEF IInv

LEMMA EndWriteStep ==
  ASSUME IInv, NEW k \in Thread, EndWrite(k)
  PROVE  IInv'
<1> DEFINE u == running[k].user
           m == Home[u]
           h == Handle("crossed", u)
<1>0. /\ TypeOK' /\ running[k].kind = "write" /\ u \in User /\ m \in Thread
      /\ UNCHANGED <<ownerVars, contextVars, userVars, tasks, queue>>
      /\ running' = [running EXCEPT ![k] = Idle, ![m] = h]
  BY ThreadType, RunningFacts, ExecutorAssumption
     DEF IInv, EndWrite, EndHandler, Thread
<1>1. h.kind = "crossed" /\ h.user = u
  BY HandleType, <1>0
<1>2. 0 \in Turns(k) /\ At(k, 0) = running[k]
  BY DEF IInv, TypeOK, Turns, At
<1>3. running[m] = Handle("waiting", u) /\ m # k
  <2>1. running[m] = Handle("waiting", u)
    BY <1>0, <1>2 DEF IInv, HandlersAwaited, Awaited
  <2>2. QED
    BY <1>0, <2>1, HandleType
<1>4. /\ running'[k] = Idle /\ running'[m] = h
      /\ \A j \in Thread : j \notin {k, m} => running'[j] = running[j]
  BY <1>0, <1>3 DEF IInv, TypeOK
<1> HIDE DEF h, m, u
<1>5. \A j \in Thread : \A i \in Turns(j)' :
        /\ i \in Turns(j)
        /\ At(j, i)'.kind \in Handlers =>
             At(j, i)' = At(j, i) /\ ~(j = k /\ i = 0)
        /\ i # 0 => At(j, i)' = At(j, i)
  <2> SUFFICES ASSUME NEW j \in Thread, NEW i \in Turns(j)'
               PROVE  /\ i \in Turns(j)
                      /\ At(j, i)'.kind \in Handlers =>
                           At(j, i)' = At(j, i) /\ ~(j = k /\ i = 0)
                      /\ i # 0 => At(j, i)' = At(j, i)
    OBVIOUS
  <2>1. i \in Turns(j)
    BY <1>0 DEF Turns
  <2>2. i # 0 => At(j, i)' = At(j, i)
    BY <1>0 DEF At
  <2>3. i = 0 => At(j, i)' = running'[j] /\ At(j, i) = running[j]
    BY DEF At
  <2>4. running'[k].kind \notin Handlers /\ running'[m].kind \notin Handlers
    BY <1>1, <1>4 DEF Idle, Handlers
  <2>5. QED
    BY <1>4, <2>1, <2>2, <2>3, <2>4
<1>6. /\ HandlersAwaited' /\ TasksAreOpen' /\ CallbacksAreHome'
      /\ StoppedInTurn' /\ RunsThere'
  <2>1. \A j \in Thread : \A i \in Turns(j)' :
          At(j, i)'.kind \in Handlers =>
            /\ i \in Turns(j) /\ At(j, i)' = At(j, i)
            /\ At(j, i).kind = "write" =>
                 LET v == At(j, i).user IN
                   running[Home[v]] = Handle("waiting", v) =>
                     running'[Home[v]] = Handle("waiting", v)
    <3> SUFFICES ASSUME NEW j \in Thread, NEW i \in Turns(j)',
                        At(j, i)'.kind \in Handlers, At(j, i).kind = "write",
                        NEW v, v = At(j, i).user,
                        running[Home[v]] = Handle("waiting", v)
                 PROVE  running'[Home[v]] = Handle("waiting", v)
      BY <1>5
    <3>1. /\ i \in Turns(j) /\ ~(j = k /\ i = 0)
          /\ v \in User /\ Home[v] \in Thread
      BY <1>5, KindFacts, ExecutorAssumption DEF IInv, Handlers, Thread
    <3>2. v # u
      BY <1>0, <1>2, <3>1 DEF IInv, OneWrite, u
    <3>3. Home[v] # m /\ Home[v] # k
      BY <1>0, <1>3, <3>1, <3>2, HandleType
    <3>4. QED
      BY <1>4, <3>1, <3>3
  <2>2. \A j \in Thread, v \in User :
          /\ InTask(j, v)' => InTask(j, v)
          /\ InCallback(j, v)' => InCallback(j, v)
    <3>1. running[m].kind = "waiting" /\ running[m].user = u
      BY <1>0, <1>3, HandleType
    <3>2. QED
      BY <1>1, <1>4, <3>1 DEF InTask, InCallback, Inside, Idle
  <2>3. \A j \in Thread : running'[j] # Idle => running[j] # Idle
    BY <1>0, <1>3, <1>4, HandleType DEF Idle
  <2>4. UNCHANGED <<object, pc>>
    BY <1>0 DEF userVars
  <2>5. QED
    BY <1>0, <2>1, <2>2, <2>3, <2>4, ThreadKeeps
<1>7. EndsLast'
  <2> SUFFICES ASSUME NEW j \in Thread, NEW i \in Turns(j)',
                      NEW l \in Turns(j)', i < l,
                      At(j, i)'.kind \in {"call", "cancel"},
                      At(j, l)'.user = At(j, i)'.user
               PROVE  At(j, l)'.kind = "write"
    BY DEF EndsLast
  <2>1. i \in Turns(j) /\ l \in Turns(j) /\ At(j, i)' = At(j, i)
    BY <1>5 DEF Handlers
  <2>2. l # 0
    BY <2>1, KindFacts DEF IInv
  <2>3. QED
    BY <1>5, <2>1, <2>2 DEF IInv, EndsLast
<1>8. OneWrite'
  BY <1>5 DEF IInv, OneWrite, Handlers
<1>9. QED
  BY <1>0, <1>6, <1>7, <1>8 DEF IInv

(* What is left when what k runs has ended. *)
LEMMA EndedTurns ==
  ASSUME IInv, NEW k \in Thread, NEW kinds, Ends(k, kinds), UNCHANGED queue,
         kinds \subseteq {"task", "callback", "crossed", "dispatch", "cancel",
                         "call"}
  PROVE  /\ running[k].user \in User /\ running[k].kind \in kinds
         /\ 0 \in Turns(k) /\ At(k, 0) = running[k]
         /\ EndsLast' /\ OneWrite'
         /\ \A j \in Thread : \A i \in Turns(j)' :
              /\ i \in Turns(j)
              /\ At(j, i)'.kind \in Handlers =>
                   /\ At(j, i)' = At(j, i) /\ ~(j = k /\ i = 0)
                   /\ At(j, i).user \in User
         /\ \A v \in User :
              running[Home[v]] = Handle("waiting", v) =>
                running'[Home[v]] = Handle("waiting", v)
         /\ \A j \in Thread, v \in User :
              /\ InTask(j, v)' => InTask(j, v) /\ j # k
              /\ InCallback(j, v)' => InCallback(j, v) /\ j # k
         /\ \A j \in Thread : running'[j] # Idle => running[j] # Idle
<1>1. /\ running[k].kind \in kinds /\ running[k].kind # "idle"
      /\ running[k].kind # "waiting"
      /\ running' = [running EXCEPT ![k] = Idle]
  BY DEF Ends
<1>2. Idle.kind \notin Handlers
  BY DEF Idle, Handlers
<1>3. running[k].user \in User
  BY <1>1, RunningFacts DEF IInv
<1>4. 0 \in Turns(k) /\ At(k, 0) = running[k]
  BY DEF IInv, TypeOK, Turns, At
<1>5. \A j \in Thread : IF j = k THEN running'[j] = Idle
                                 ELSE running'[j] = running[j]
  BY <1>1 DEF IInv, TypeOK
<1>6. \A j \in Thread, v \in User :
        /\ InTask(j, v)' => InTask(j, v) /\ j # k
        /\ InCallback(j, v)' => InCallback(j, v) /\ j # k
  BY <1>5 DEF InTask, InCallback, Inside, Idle
<1>7. /\ EndsLast' /\ OneWrite'
      /\ \A j \in Thread : \A i \in Turns(j)' :
           /\ i \in Turns(j)
           /\ At(j, i)'.kind \in Handlers =>
                At(j, i)' = At(j, i) /\ ~(j = k /\ i = 0)
      /\ \A v \in User :
           running[Home[v]] = Handle("waiting", v) =>
             running'[Home[v]] = Handle("waiting", v)
  BY <1>1, <1>2, OtherTurns
<1>8. \A j \in Thread : \A i \in Turns(j) :
        At(j, i).kind \in Handlers => At(j, i).user \in User
  BY KindFacts DEF IInv, Handlers
<1>9. QED
  BY <1>1, <1>3, <1>4, <1>5, <1>6, <1>7, <1>8

LEMMA EndRunStep ==
  ASSUME IInv, NEW k \in Thread,
         EndTask(k) \/ EndCallback(k) \/ EndDispatch(k)
  PROVE  IInv'
<1> DEFINE u == running[k].user
<1>0. /\ TypeOK' /\ UNCHANGED <<ownerVars, contextVars, queue, pc, call>>
      /\ \/ UNCHANGED object
         \/ u \in SelfCancels /\ object' = [object EXCEPT ![u] = "closed"]
  BY ThreadType
     DEF IInv, EndTask, EndCallback, EndDispatch, EndHandler, OnRun, userVars
<1>1. PICK kinds \in {{"task", "crossed"}, {"callback", "crossed"},
                      {"dispatch"}} : Ends(k, kinds)
  BY DEF EndTask, EndCallback, EndDispatch
<1>2. /\ u \in User /\ running[k].kind \in kinds
      /\ 0 \in Turns(k) /\ At(k, 0) = running[k]
      /\ EndsLast' /\ OneWrite'
      /\ \A j \in Thread : \A i \in Turns(j)' :
           /\ i \in Turns(j)
           /\ At(j, i)'.kind \in Handlers =>
                /\ At(j, i)' = At(j, i) /\ ~(j = k /\ i = 0)
                /\ At(j, i).user \in User
      /\ \A v \in User :
           running[Home[v]] = Handle("waiting", v) =>
             running'[Home[v]] = Handle("waiting", v)
      /\ \A j \in Thread, v \in User :
           /\ InTask(j, v)' => InTask(j, v) /\ j # k
           /\ InCallback(j, v)' => InCallback(j, v) /\ j # k
      /\ \A j \in Thread : running'[j] # Idle => running[j] # Idle
  <2>1. kinds \subseteq {"task", "callback", "crossed", "dispatch", "cancel",
                         "call"}
    BY <1>1
  <2>2. QED
    BY <1>0, <1>1, <2>1, EndedTurns
<1>3. \/ UNCHANGED tasks
      \/ /\ tasks' = [tasks EXCEPT ![k] = @ \cup {u}]
         /\ Home[u] = k /\ Kept(u)
  <2>1. CASE EndTask(k)
    <3>1. InTask(k, u)
      BY <2>1 DEF EndTask, Ends, InTask, Inside
    <3>2. Home[u] = k /\ Kept(u)
      BY <1>2, <3>1 DEF IInv, TasksAreOpen
    <3>3. QED
      BY <2>1, <3>2 DEF EndTask, OnRun
  <2>2. CASE EndCallback(k)
    BY <2>2 DEF EndCallback
  <2>3. CASE EndDispatch(k)
    <3>1. Home[u] = k /\ Kept(u)
      BY <1>2, <2>3 DEF EndDispatch, Ends, IInv, HandlersAwaited, Awaited
    <3>2. QED
      BY <2>3, <3>1 DEF EndDispatch, OnRun
  <2>4. QED
    BY <2>1, <2>2, <2>3
<1>4. \A v \in User : \/ object'[v] = object[v]
                      \/ object'[v] = "closed" /\ v \in SelfCancels
  BY <1>0 DEF IInv, TypeOK
<1>5. \A j \in Thread, v \in User :
        v \in tasks'[j] => v \in tasks[j] \/ (Home[v] = j /\ Kept(v))
  <2>1. CASE UNCHANGED tasks
    BY <2>1
  <2>2. CASE /\ tasks' = [tasks EXCEPT ![k] = @ \cup {u}]
             /\ Home[u] = k /\ Kept(u)
    <3>1. \A j \in Thread, v \in User :
            v \in tasks'[j] => v \in tasks[j] \/ (j = k /\ v = u)
      BY <2>2 DEF IInv, TypeOK
    <3>2. QED
      BY <2>2, <3>1
  <2>3. QED
    BY <1>3, <2>1, <2>2
<1>6. /\ HandlersAwaited' /\ TasksAreOpen' /\ CallbacksAreHome'
      /\ StoppedInTurn' /\ RunsThere'
  <2> HIDE DEF u
  <2>1. QED
    BY <1>0, <1>2, <1>4, <1>5, ThreadKeeps
<1>7. QED
  BY <1>0, <1>2, <1>6 DEF IInv

LEMMA CallbackClosesStep ==
  ASSUME IInv, NEW k \in Thread, CallbackCloses(k)
  PROVE  IInv'
<1> DEFINE u == running[k].user
<1>0. /\ TypeOK' /\ u \notin Direct /\ object[u] = "open"
      /\ UNCHANGED <<ownerVars, contextVars, queue, running, pc, call>>
      /\ UNCHANGED <<owner, at, stopped, io>>
      /\ object' = [object EXCEPT ![u] = "closed"]
      /\ tasks' = [tasks EXCEPT ![k] = @ \ {u}]
      /\ running[k].kind \in {"callback", "crossed"}
  BY ThreadType DEF IInv, CallbackCloses, ownerVars, contextVars
<1>1. u \in User /\ InCallback(k, u) /\ Home[u] = k
  <2>1. u \in User
    BY <1>0, RunningFacts DEF IInv
  <2>2. InCallback(k, u)
    BY <1>0 DEF InCallback, Inside
  <2>3. QED
    BY <2>1, <2>2 DEF IInv, CallbacksAreHome
<1>2. \A v \in User \ {u} : object'[v] = object[v] /\ (Kept(v) => Kept(v)')
  BY <1>0 DEF IInv, TypeOK, Kept
<1>3. object'[u] = "closed"
  BY <1>0, <1>1 DEF IInv, TypeOK
<1>4. HandlersAwaited'
  <2> SUFFICES ASSUME NEW j \in Thread, NEW i \in Turns(j)'
               PROVE  Awaited(j, i)'
    BY DEF HandlersAwaited
  <2>1. i \in Turns(j) /\ At(j, i)' = At(j, i)
    BY <1>0, SameTurns
  <2>2. Awaited(j, i) /\ (At(j, i).kind # "idle" => At(j, i).user \in User)
    BY <2>1, KindFacts DEF IInv, HandlersAwaited
  <2>3. QED
    BY <1>0, <1>2, <2>1, <2>2 DEF Awaited
<1>5. EndsLast' /\ OneWrite'
  BY <1>0, SameTurns DEF IInv, EndsLast, OneWrite
<1>6. TasksAreOpen'
  <2> SUFFICES ASSUME NEW j \in Thread, NEW v \in User,
                      v \in tasks'[j] \/ InTask(j, v)'
               PROVE  Home[v] = j /\ Kept(v)'
    BY DEF TasksAreOpen
  <2>1. v \in tasks[j] \/ InTask(j, v)
    BY <1>0 DEF IInv, TypeOK, InTask, Inside
  <2>2. Home[v] = j /\ Kept(v)
    BY <2>1 DEF IInv, TasksAreOpen
  <2>3. v # u
    <3> SUFFICES ASSUME v = u PROVE FALSE
      OBVIOUS
    <3>1. j = k
      BY <1>1, <2>2
    <3>2. u \notin tasks'[k]
      BY <1>0 DEF IInv, TypeOK
    <3>3. \A w \in User : w = u => ~InTask(k, w)'
      BY <1>0 DEF InTask, Inside
    <3>4. QED
      BY <3>1, <3>2, <3>3
  <2>4. QED
    BY <1>2, <2>2, <2>3
<1>7. CallbacksAreHome'
  BY <1>0, <1>2, <1>3
     DEF IInv, CallbacksAreHome, InCallback, Inside, BeingJoined
<1>8. StoppedInTurn' /\ RunsThere'
  <2>1. \A v \in User : pc'[v] = "inline" => stopped[Home[v]]
    BY <1>0 DEF IInv, RunsThere
  <2>2. QED
    BY <1>0, <2>1, OwnerKeeps
<1>9. QED
  BY <1>0, <1>4, <1>5, <1>6, <1>7, <1>8 DEF IInv

LEMMA EndCallStep ==
  ASSUME IInv, NEW k \in Thread, EndCancel(k) \/ EndCall(k)
  PROVE  IInv'
<1> DEFINE u == running[k].user
<1>0. /\ TypeOK' /\ UNCHANGED <<ownerVars, contextVars, queue, call>>
      /\ UNCHANGED <<owner, at, stopped, io>>
      /\ pc' = [pc EXCEPT ![u] = "idle"]
  BY ThreadType
     DEF IInv, EndCancel, EndCall, EndHandler, ownerVars, contextVars
<1>1. PICK kinds \in {{"cancel"}, {"call"}} : Ends(k, kinds)
  BY DEF EndCancel, EndCall
<1>2. /\ u \in User /\ running[k].kind \in kinds
      /\ 0 \in Turns(k) /\ At(k, 0) = running[k]
      /\ EndsLast' /\ OneWrite'
      /\ \A j \in Thread : \A i \in Turns(j)' :
           /\ i \in Turns(j)
           /\ At(j, i)'.kind \in Handlers =>
                /\ At(j, i)' = At(j, i) /\ ~(j = k /\ i = 0)
                /\ At(j, i).user \in User
      /\ \A v \in User :
           running[Home[v]] = Handle("waiting", v) =>
             running'[Home[v]] = Handle("waiting", v)
      /\ \A j \in Thread, v \in User :
           /\ InTask(j, v)' => InTask(j, v) /\ j # k
           /\ InCallback(j, v)' => InCallback(j, v) /\ j # k
      /\ \A j \in Thread : running'[j] # Idle => running[j] # Idle
  <2>1. kinds \subseteq {"task", "callback", "crossed", "dispatch", "cancel",
                         "call"}
    BY <1>1
  <2>2. QED
    BY <1>0, <1>1, <2>1, EndedTurns
<1>3. /\ \A v \in User \ {u} : pc'[v] = pc[v]
      /\ pc'[u] = "idle" /\ running[k].kind \in {"cancel", "call"}
  BY <1>0, <1>1, <1>2 DEF IInv, TypeOK
<1>4. Home[u] = k
  BY <1>2, <1>3 DEF IInv, HandlersAwaited, Awaited
<1>5. /\ \A v \in User \ {u} : object'[v] = object[v]
      /\ \A j \in Thread, v \in User : v \in tasks'[j] =>
           v \in tasks[j] \/ (v = u /\ j = k)
      /\ u \in tasks'[k] => object'[u] = "open" \/ u \in SelfCancels
  <2>1. CASE EndCancel(k)
    BY <1>2, <1>3, <2>1 DEF EndCancel, IInv, TypeOK
  <2>2. CASE EndCall(k)
    <3>1. u \in tasks[k] => object[u] = "open" \/ u \in SelfCancels
      <4>1. pc[u] # "cancelling"
        BY <1>2, <2>2 DEF EndCall, Ends, IInv, HandlersAwaited, Awaited
      <4>2. QED
        BY <1>2, <4>1 DEF IInv, TasksAreOpen, Kept
    <3>2. CASE /\ tasks' = [tasks EXCEPT ![k] = @ \cup {u}]
               /\ object' = [object EXCEPT ![u] = "open"]
      BY <1>2, <3>2 DEF IInv, TypeOK
    <3>3. CASE /\ tasks' = [tasks EXCEPT ![k] = @ \ {u}]
               /\ \E s \in {"closed", "freed"} :
                    object' = [object EXCEPT ![u] = s]
      BY <1>2, <3>3 DEF IInv, TypeOK
    <3>4. CASE UNCHANGED <<tasks, object>>
      BY <3>1, <3>4
    <3>5. CASE /\ UNCHANGED tasks /\ object[u] # "open"
               /\ object' = [object EXCEPT ![u] = "freed"]
      BY <1>2, <3>1, <3>5 DEF IInv, TypeOK
    <3>6. QED
      BY <2>2, <3>2, <3>3, <3>4, <3>5 DEF EndCall
  <2>3. QED
    BY <2>1, <2>2
<1>6. \A v \in User \ {u} : Kept(v) => Kept(v)'
  BY <1>3, <1>5 DEF Kept
<1> HIDE DEF u
<1>7. HandlersAwaited'
  <2> SUFFICES ASSUME NEW j \in Thread, NEW i \in Turns(j)',
                      At(j, i)'.kind \in Handlers
               PROVE  Awaited(j, i)'
    BY DEF HandlersAwaited, Awaited, Handlers
  <2> DEFINE v == At(j, i).user
  <2>1. /\ i \in Turns(j) /\ At(j, i)' = At(j, i) /\ v \in User
        /\ ~(j = k /\ i = 0)
    BY <1>2
  <2>2. Awaited(j, i)
    BY <2>1 DEF IInv, HandlersAwaited
  <2>3. CASE At(j, i).kind = "write"
    BY <1>2, <2>1, <2>2, <2>3 DEF Awaited
  <2>4. CASE At(j, i).kind # "write"
    <3>1. v # u
      <4> SUFFICES ASSUME v = u PROVE FALSE
        OBVIOUS
      <4>1. j = k
        BY <1>4, <2>1, <2>2, <2>4 DEF Awaited, Handlers
      <4>2. 0 < i
        BY <2>1, <4>1, KindFacts DEF IInv
      <4>3. QED
        BY <1>2, <1>3, <2>1, <2>4, <4>1, <4>2 DEF IInv, EndsLast, u
    <3>2. QED
      BY <1>0, <1>3, <1>6, <2>1, <2>2, <2>4, <3>1 DEF Awaited
  <2>5. QED
    BY <2>3, <2>4
<1>8. TasksAreOpen'
  <2> SUFFICES ASSUME NEW j \in Thread, NEW v \in User,
                      v \in tasks'[j] \/ InTask(j, v)'
               PROVE  Home[v] = j /\ Kept(v)'
    BY DEF TasksAreOpen
  <2>1. CASE v = u
    <3>1. j = k
      BY <1>2, <1>4, <1>5, <2>1 DEF IInv, TasksAreOpen
    <3>2. u \in tasks'[k]
      BY <1>2, <2>1, <3>1
    <3>3. QED
      BY <1>4, <1>5, <2>1, <3>1, <3>2 DEF Kept
  <2>2. CASE v # u
    BY <1>2, <1>5, <1>6, <2>2 DEF IInv, TasksAreOpen
  <2>3. QED
    BY <2>1, <2>2
<1>9. CallbacksAreHome'
  <2> SUFFICES ASSUME NEW j \in Thread, NEW v \in User, InCallback(j, v)'
               PROVE  /\ v \notin Direct /\ Home[v] = j
                      /\ object'[v] \in {"open", "closed"} \/ BeingJoined(j)'
    BY DEF CallbacksAreHome
  <2>1. /\ v \notin Direct /\ Home[v] = j /\ j # k
        /\ object[v] \in {"open", "closed"} \/ BeingJoined(j)
    BY <1>2 DEF IInv, CallbacksAreHome
  <2>2. v # u
    BY <1>4, <2>1
  <2>3. QED
    BY <1>0, <1>5, <2>1, <2>2 DEF BeingJoined
<1>10. StoppedInTurn' /\ RunsThere'
  <2>1. \A v \in User : pc'[v] = "inline" => stopped[Home[v]]
    BY <1>3 DEF IInv, RunsThere
  <2>2. QED
    BY <1>0, <1>2, <2>1, OwnerKeeps
<1>11. QED
  BY <1>0, <1>2, <1>7, <1>8, <1>9, <1>10 DEF IInv

LEMMA InvariantStep == IInv /\ [Next]_vars => IInv'
<1> SUFFICES ASSUME IInv, [Next]_vars PROVE IInv'
  OBVIOUS
<1>1. CASE UNCHANGED vars
  BY <1>1, UnchangedInvariant
<1>2. CASE Start \/ Stop \/ Join
  BY <1>2, OwnerStep
<1>3. ASSUME NEW u \in User, NEW c \in Calls,
             Invoke(u, c) \/ CallDirect(u, c) \/ Post(u) \/ RunInline(u)
      PROVE  IInv'
  BY <1>3, UserSteps
<1>4. "Open" \in Calls
  BY DEF Calls
<1>5. ASSUME NEW k \in Thread,
             \/ TakeHandler(k)
             \/ \E u \in User : TakeTask(k, u) \/ Receive(k, u)
      PROVE  IInv'
  BY <1>5, TakeStep
<1>6. ASSUME NEW k \in Thread, NEW j \in Thread, Cross(k, j)
      PROVE  IInv'
  BY <1>6, CrossStep
<1>7. ASSUME NEW k \in Thread,
             CallbackCloses(k) \/ PostCross(k) \/ EndWrite(k)
      PROVE  IInv'
  BY <1>7, CallbackClosesStep, PostCrossStep, EndWriteStep
<1>8. ASSUME NEW k \in Thread,
             \/ EndTask(k) \/ EndCallback(k) \/ EndDispatch(k)
             \/ EndCancel(k) \/ EndCall(k)
      PROVE  IInv'
  BY <1>8, EndRunStep, EndCallStep
<1>9. ASSUME NEW k \in Thread, Exit(k)
      PROVE  IInv'
  BY <1>9, OwnerStep
<1>10. QED
  BY <1>1, <1>2, <1>3, <1>4, <1>5, <1>6, <1>7, <1>8, <1>9 DEF Next

(* Whatever the users do, what the executors have been given is in the      *)
(* order that IInv says, and they are stopped in turn. *)
THEOREM ExecutorInvariant == Spec => []IInv
BY InitInvariant, InvariantStep, PTL DEF Spec

(* Neither the streams nor tasks_ have a lock.  A call runs on the thread   *)
(* that made it only when its executor runs nothing, or runs its last       *)
(* handler while Stop waits for it: never when the executor was stopped     *)
(* before that one, or is still to be stopped. *)
THEOREM CallsAreExclusive == Spec => []Exclusive
<1>1. IInv => Exclusive
  <2> SUFFICES ASSUME IInv, NEW u \in User, pc[u] = "inline",
                      running[Home[u]] # Idle
               PROVE  BeingJoined(Home[u])
    BY DEF Exclusive
  <2>1. Home[u] \in Thread /\ stopped[Home[u]]
    BY ExecutorAssumption DEF IInv, RunsThere, Thread
  <2>2. QED
    BY <2>1, StoppedRuns
<1>2. QED
  BY <1>1, ExecutorInvariant, PTL

(* When Close, or CancelTask, has returned, no executor has the object in   *)
(* tasks_, and none runs anything of it but the callback that closed it,    *)
(* whatever callbacks of others are in progress. *)
THEOREM CancelledAreGone == Spec => []CancelledIsGone
<1>1. IInv => CancelledIsGone
  <2> SUFFICES ASSUME IInv, NEW u \in User \ SelfCancels, NEW k \in Thread,
                      object[u] \in {"closed", "freed"}, pc[u] = "idle"
               PROVE  /\ u \notin tasks[k]
                      /\ running[k] # Idle /\ running[k].user = u =>
                           /\ u \notin Direct
                           /\ running[k].kind
                                \in {"callback", "crossing", "waiting",
                                    "crossed", "write"}
                           /\ object[u] = "closed" \/ BeingJoined(Home[u])
    BY DEF CancelledIsGone
  <2>1. ~Kept(u)
    BY DEF Kept
  <2>2. \A j \in Thread : u \notin tasks[j] /\ ~InTask(j, u)
    BY <2>1 DEF IInv, TasksAreOpen
  <2>3. \A j \in Thread :
          InCallback(j, u) =>
            u \notin Direct /\ (object[u] = "closed" \/ BeingJoined(Home[u]))
    BY DEF IInv, CallbacksAreHome
  <2>4. ASSUME running[k] # Idle, running[k].user = u
        PROVE  /\ running[k].kind
                    \in {"callback", "crossing", "waiting", "crossed", "write"}
               /\ \E j \in Thread : InCallback(j, u)
    <3>1. 0 \in Turns(k) /\ At(k, 0) = running[k] /\ Awaited(k, 0)
      BY DEF IInv, TypeOK, Turns, At, HandlersAwaited
    <3>2. running[k].kind \notin {"call", "cancel", "dispatch", "task"}
      BY <2>1, <2>2, <2>4, <3>1 DEF Awaited, InTask
    <3>3. running[k].kind
            \in {"callback", "crossing", "waiting", "crossed", "write"}
      BY <2>4, <3>2, RunningFacts DEF IInv, Running, Handler
    <3>4. CASE running[k].kind = "write"
      <4>1. Home[u] \in Thread /\ running[Home[u]] = Handle("waiting", u)
        BY <2>4, <3>1, <3>4, ExecutorAssumption DEF Awaited, Thread
      <4>2. InCallback(Home[u], u)
        BY <2>2, <4>1, HandleType DEF InTask, InCallback, Inside
      <4>3. QED
        BY <3>3, <4>1, <4>2
    <3>5. CASE running[k].kind # "write"
      <4>1. InCallback(k, u)
        BY <2>2, <2>4, <3>3, <3>5 DEF InTask, InCallback, Inside
      <4>2. QED
        BY <3>3, <4>1
    <3>6. QED
      BY <3>4, <3>5
  <2>5. QED
    BY <2>2, <2>3, <2>4
<1>2. QED
  BY <1>1, ExecutorInvariant, PTL
=============================================================================
