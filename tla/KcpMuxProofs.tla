------------------------------ MODULE KcpMuxProofs -----------------------------
(***************************************************************************)
(* Streams and their mux stay consistent, for any number of streams and any *)
(* convs.                                                                   *)
(***************************************************************************)
EXTENDS KcpMuxInv, SequenceTheorems, TLAPS

(* What the proofs need of TypeOK most often. *)
Typed ==
  /\ pc = [s \in Stream |-> pc[s]]
  /\ stream = [s \in Stream |-> stream[s]]
  /\ by_key \in [Keys -> Stream \cup {NoStream}]
  /\ holding \subseteq Stream
  /\ running.kind # "idle" => running.stream \in Stream

(* by_key_streams_ has a place for every key. *)
LEMMA KeyType ==
  ASSUME NEW s \in Stream
  PROVE  Key(s) \in Keys /\ ParsedKey(s) \in Keys
BY DEF Keys

(* No stream is none. *)
LEMMA NoStreamType == NoStream \notin Stream
BY MuxAssumption

(* Typed is a part of TypeOK. *)
LEMMA TypedOK == TypeOK => Typed
BY DEF TypeOK, Typed, Idle, Activity

(* The end of a stream is, or is not, the end of its mux. *)
LEMMA DestroyCases ==
  ASSUME NEW s \in Stream, RunDestroy(s)
  PROVE  \/ /\ Held(holding, Streams(stream'))
            /\ Go(s, "calling", "idle") /\ UNCHANGED <<mux, running>>
         \/ /\ ~Held(holding, Streams(stream'))
            /\ mux' = "dying" /\ pc' = pc
            /\ running' = [kind |-> "closing", stream |-> s]
BY DEF RunDestroy

(* The lock has one owner. *)
LEMMA LockStep ==
  ASSUME Typed, LockInv, [Next]_vars
  PROVE  LockInv'
<1> USE MuxAssumption
<1>1. ASSUME NEW s \in Stream,
             FindMux(s) \/ AddMux(s) \/ AddUDPFilter(s) \/ DropMux(s) \/
             CloseMux(s) \/ RunCreate(s) \/ RunCancel(s) \/ RunOpen(s) \/
             RunClose(s) \/ RunDestroy(s) \/ RunCloseMux(s)
      PROVE  LockInv'
  BY <1>1 DEF FindMux, AddMux, AddUDPFilter, DropMux, CloseMux, RunCreate,
     RunCancel, RunOpen, RunClose, RunDestroy, RunCloseMux, Go, Streams,
     Take, Typed, LockInv, proxyVars
<1>2. ASSUME NEW s \in Stream, OnRecvUDP(s) \/ OnError(s) \/ TryRecvEnds(s)
      PROVE  LockInv'
  BY <1>2 DEF OnRecvUDP, OnError, TryRecvEnds, proxyVars, LockInv
<1>3. ASSUME NEW s \in Stream, NEW n \in 0..MaxMessages,
             TryRecvKCP(s, n) \/ CallbackReturns(s, n) \/
             CallbackCloses(s, n) \/ CallbackLocks(s, n) \/ CallbackLocked(s, n)
      PROVE  LockInv'
  BY <1>3 DEF TryRecvKCP, CallbackReturns, CallbackCloses, CallbackLocks,
     CallbackLocked, proxyVars, LockInv
<1>4. ASSUME NEW s \in Stream, CreateStream(s)
      PROVE  LockInv'
  BY <1>4 DEF CreateStream, Go, LockInv, proxyVars
<1>5. ASSUME NEW s \in Stream, Lock(s)
      PROVE  LockInv'
  BY <1>5 DEF Lock, Go, Typed, LockInv
<1>6. ASSUME NEW s \in Stream, BindFails(s)
      PROVE  LockInv'
  BY <1>6 DEF BindFails, Go, LockInv, proxyVars
<1>7. ASSUME NEW s \in Stream, Unlock(s)
      PROVE  LockInv'
  BY <1>7 DEF Unlock, Go, ReleasedLock, Typed, LockInv
<1>8. ASSUME NEW s \in Stream, NEW call \in Calls, Invoke(s, call)
      PROVE  LockInv'
  BY <1>8 DEF Invoke, Go, LockInv, proxyVars
<1>9. CASE UNCHANGED vars
  BY <1>9 DEF vars, LockInv
<1>10. QED
  BY <1>1, <1>2, <1>3, <1>4, <1>5, <1>6, <1>7, <1>8, <1>9 DEF Next

(* The mux is alive as long as it is held. *)
LEMMA OwnStep ==
  ASSUME Typed, LockInv, OwnInv, StreamInv, [Next]_vars
  PROVE  OwnInv'
<1>1. ASSUME NEW s \in Stream,
             CreateStream(s) \/ Lock(s) \/ BindFails(s) \/ Unlock(s) \/
             RunCancel(s)
      PROVE  OwnInv'
  BY <1>1 DEF CreateStream, Lock, BindFails, Unlock, RunCancel, Go, Typed,
     OwnInv, muxVars, proxyVars, execVars
<1>2. ASSUME NEW s \in Stream, NEW call \in Calls, Invoke(s, call)
      PROVE  OwnInv'
  BY <1>2 DEF Invoke, Go, OwnInv, muxVars, proxyVars
<1>3. ASSUME NEW s \in Stream, OnRecvUDP(s) \/ OnError(s) \/ TryRecvEnds(s)
      PROVE  OwnInv'
  BY <1>3 DEF OnRecvUDP, OnError, TryRecvEnds, Busy, Idle, OwnInv, muxVars,
     proxyVars
<1>4. ASSUME NEW s \in Stream, NEW n \in 0..MaxMessages,
             TryRecvKCP(s, n) \/ CallbackReturns(s, n) \/
             CallbackLocks(s, n) \/ CallbackLocked(s, n)
      PROVE  OwnInv'
  BY <1>4 DEF TryRecvKCP, CallbackReturns, CallbackLocks, CallbackLocked,
     Busy, OwnInv, muxVars, proxyVars
<1>5. ASSUME NEW s \in Stream, FindMux(s)
      PROVE  OwnInv'
  BY <1>5 DEF FindMux, Go, Typed, OwnInv, muxVars, execVars
<1>6. ASSUME NEW s \in Stream, AddMux(s)
      PROVE  OwnInv'
  BY <1>6 DEF AddMux, Go, OwnInv, proxyVars
<1>7. ASSUME NEW s \in Stream, AddUDPFilter(s)
      PROVE  OwnInv'
  BY <1>7 DEF AddUDPFilter, Go, OwnInv, proxyVars, execVars
<1>8. ASSUME NEW s \in Stream, DropMux(s)
      PROVE  OwnInv'
  BY <1>8 DEF DropMux, Go, Held, Streams, Typed, OwnInv, execVars
<1>9. ASSUME NEW s \in Stream, CloseMux(s)
      PROVE  OwnInv'
  BY <1>9 DEF CloseMux, Go, Typed, OwnInv, LockInv, proxyVars
<1>10. ASSUME NEW s \in Stream, RunCreate(s)
      PROVE  OwnInv'
  BY <1>10 DEF RunCreate, Go, Typed, OwnInv, LockInv
<1>11. ASSUME NEW s \in Stream, RunOpen(s)
      PROVE  OwnInv'
  BY <1>11 DEF RunOpen, Go, Take, Idle, OwnInv, StreamInv, muxVars,
     proxyVars
<1>12. ASSUME NEW s \in Stream, RunClose(s)
      PROVE  OwnInv'
  BY <1>12 DEF RunClose, Go, Take, Idle, OwnInv, StreamInv, muxVars,
     proxyVars
<1>13. ASSUME NEW s \in Stream, RunDestroy(s)
      PROVE  OwnInv'
  <2>1. /\ stream[s] # "none" /\ mux = "alive" /\ bound
        /\ running.kind = "idle"
        /\ stream' = [stream EXCEPT ![s] = "none"]
        /\ bound' = bound /\ holding' = holding
    BY <1>13 DEF RunDestroy, Take, Idle, StreamInv, OwnInv, proxyVars
  <2>2. \A t \in Stream : /\ pc[t] \notin {"closing", "creating"}
                          /\ pc'[t] \notin {"closing", "creating"}
    BY <1>13, <2>1 DEF RunDestroy, Go, OwnInv, Typed
  <2>3. QED
    BY <1>13, <2>1, <2>2, DestroyCases DEF Go, OwnInv, Held, Streams, Typed
<1>14. ASSUME NEW s \in Stream, RunCloseMux(s)
      PROVE  OwnInv'
  BY <1>14 DEF RunCloseMux, Go, Idle, OwnInv, proxyVars
<1>15. ASSUME NEW s \in Stream, NEW n \in 0..MaxMessages, CallbackCloses(s, n)
      PROVE  OwnInv'
  BY <1>15 DEF CallbackCloses, In, Busy, Busied, OwnInv, StreamInv, muxVars,
     proxyVars, execVars
<1>16. CASE UNCHANGED vars
  BY <1>16 DEF vars, OwnInv
<1>17. QED
  BY <1>1, <1>2, <1>3, <1>4, <1>5, <1>6, <1>7, <1>8, <1>9, <1>10, <1>11,
     <1>12, <1>13, <1>14, <1>15, <1>16 DEF Next

(* A stream is there when its owner is ready. *)
LEMMA StreamStep ==
  ASSUME Typed, LockInv, OwnInv, StreamInv, [Next]_vars
  PROVE  StreamInv'
<1>1. ASSUME NEW s \in Stream,
             CreateStream(s) \/ Lock(s) \/ FindMux(s) \/ AddMux(s) \/
             BindFails(s) \/ CloseMux(s) \/ RunCreate(s) \/ RunCancel(s)
      PROVE  StreamInv'
  BY <1>1 DEF CreateStream, Lock, FindMux, AddMux, BindFails, CloseMux,
     RunCreate, RunCancel, Go, Typed, StreamInv, Busied, execVars
<1>2. ASSUME NEW s \in Stream, TryRecvEnds(s)
      PROVE  StreamInv'
  BY <1>2 DEF TryRecvEnds, In, Busy, Idle, StreamInv, Busied
<1>3. ASSUME NEW s \in Stream, NEW n \in 0..MaxMessages,
             CallbackReturns(s, n) \/ CallbackLocks(s, n) \/
             CallbackLocked(s, n)
      PROVE  StreamInv'
  BY <1>3 DEF CallbackReturns, CallbackLocks, CallbackLocked, In, Busy,
     StreamInv, Busied
<1>4. ASSUME NEW s \in Stream, AddUDPFilter(s)
      PROVE  StreamInv'
  BY <1>4 DEF AddUDPFilter, Go, Typed, StreamInv, Busied, execVars
<1>5. ASSUME NEW s \in Stream, DropMux(s)
      PROVE  StreamInv'
  <2>1. /\ pc[s] = "dropping" /\ stream' = stream /\ running' = running
        /\ \E to \in {"unlocking", "closing"} : pc' = [pc EXCEPT ![s] = to]
    BY <1>5 DEF DropMux, Go, execVars
  <2>2. QED
    BY <2>1 DEF StreamInv, Busied
<1>6. ASSUME NEW s \in Stream, Unlock(s)
      PROVE  StreamInv'
  BY <1>6 DEF Unlock, Go, StreamInv, Busied, execVars
<1>7. ASSUME NEW s \in Stream, NEW call \in Calls, Invoke(s, call)
      PROVE  StreamInv'
  BY <1>7 DEF Invoke, Go, StreamInv, Busied
<1>8. ASSUME NEW s \in Stream, RunOpen(s)
      PROVE  StreamInv'
  BY <1>8 DEF RunOpen, Go, Take, Idle, StreamInv, Busied
<1>9. ASSUME NEW s \in Stream, RunClose(s)
      PROVE  StreamInv'
  BY <1>9 DEF RunClose, Go, Take, Idle, StreamInv, Busied
<1>10. ASSUME NEW s \in Stream, RunDestroy(s)
      PROVE  StreamInv'
  <2>1. /\ stream' = [stream EXCEPT ![s] = "none"]
        /\ running.kind = "idle" /\ pc[s] = "calling"
    BY <1>10 DEF RunDestroy, Take, Idle
  <2>2. QED
    BY <1>10, <2>1, DestroyCases DEF Go, StreamInv, Busied, Typed
<1>11. ASSUME NEW s \in Stream, RunCloseMux(s)
      PROVE  StreamInv'
  BY <1>11 DEF RunCloseMux, Go, Idle, Typed, StreamInv, Busied
<1>12. ASSUME NEW s \in Stream, OnRecvUDP(s)
      PROVE  StreamInv'
  <2>1. running.kind = "idle" /\ pc' = pc /\ stream' = stream
    BY <1>12 DEF OnRecvUDP, Listening, Idle
  <2>2. \/ running' = running
        \/ /\ running'.kind \in {"receiving", "callback"}
           /\ stream[running'.stream] # "none"
    BY <1>12 DEF OnRecvUDP, Busy, HasCallback
  <2>3. QED
    BY <2>1, <2>2 DEF StreamInv, Busied
<1>13. ASSUME NEW s \in Stream, OnError(s)
      PROVE  StreamInv'
  <2>1. running.kind = "idle" /\ pc' = pc /\ stream' = stream
    BY <1>13 DEF OnError, Listening, Idle
  <2>2. \/ running' = running
        \/ /\ running'.kind \in {"receiving", "callback"}
           /\ stream[running'.stream] # "none"
    BY <1>13 DEF OnError, Busy, HasCallback
  <2>3. QED
    BY <2>1, <2>2 DEF StreamInv, Busied
<1>14. ASSUME NEW s \in Stream, NEW n \in 0..MaxMessages, TryRecvKCP(s, n)
      PROVE  StreamInv'
  BY <1>14 DEF TryRecvKCP, In, Busy, StreamInv, Busied
<1>15. ASSUME NEW s \in Stream, NEW n \in 0..MaxMessages, CallbackCloses(s, n)
      PROVE  StreamInv'
  BY <1>15 DEF CallbackCloses, In, Busy, StreamInv, Busied, execVars
<1>16. CASE UNCHANGED vars
  BY <1>16 DEF vars, StreamInv, Busied
<1>17. QED
  BY <1>1, <1>2, <1>3, <1>4, <1>5, <1>6, <1>7, <1>8, <1>9, <1>10, <1>11,
     <1>12, <1>13, <1>14, <1>15, <1>16 DEF Next

(* Whatever the first byte of its conv, a datagram is handed to a stream    *)
(* whose own first byte is below 128 only when their convs agree in the     *)
(* last 16 bits: ParseConv leads datagrams astray only to streams whose     *)
(* conv has a first byte above 127 and a second of 255.                     *)
THEOREM ParsedKeyIsOwn ==
  ASSUME NEW s \in Stream, NEW t \in Stream,
         ParsedKey(s) = Key(t), Conv[t] % 256 < 128
  PROVE  Key(s) = Key(t)
<1>1. ASSUME NEW m \in Nat, NEW n \in Nat, m % 65536 = 65280 + (n % 256)
      PROVE  m % 256 = n % 256
  BY <1>1
<1>2. Conv[s] \in Nat /\ Conv[t] \in Nat
  BY MuxAssumption
<1>3. CASE Conv[s] % 256 < 128
  BY <1>3 DEF ParsedKey, Key
<1>4. CASE ~(Conv[s] % 256 < 128)
  BY <1>1, <1>2, <1>4 DEF ParsedKey, Key
<1>5. QED
  BY <1>3, <1>4

(* Each stream keeps its key. *)
LEMMA KeyStep ==
  ASSUME Typed, StreamInv, KeyInv, [Next]_vars
  PROVE  KeyInv'
<1>1. ASSUME NEW s \in Stream,
             CreateStream(s) \/ Lock(s) \/ FindMux(s) \/ AddMux(s) \/
             BindFails(s) \/ DropMux(s) \/ CloseMux(s) \/ Unlock(s)
      PROVE  KeyInv'
  BY <1>1, KeyType DEF CreateStream, Lock, FindMux, AddMux, BindFails,
     DropMux, CloseMux, Unlock, KeyInv, RegisteredIsAlive, muxVars
<1>2. ASSUME NEW s \in Stream, NEW call \in Calls, Invoke(s, call)
      PROVE  KeyInv'
  BY <1>2, KeyType DEF Invoke, KeyInv, RegisteredIsAlive, muxVars
<1>3. ASSUME NEW s \in Stream,
             RunCreate(s) \/ RunCancel(s) \/ RunCloseMux(s) \/ OnRecvUDP(s)
             \/ OnError(s) \/ TryRecvEnds(s)
      PROVE  KeyInv'
  BY <1>3, KeyType DEF RunCreate, RunCancel, RunCloseMux, OnRecvUDP,
     OnError, TryRecvEnds, KeyInv, RegisteredIsAlive, muxVars
<1>4. ASSUME NEW s \in Stream, NEW n \in 0..MaxMessages,
             TryRecvKCP(s, n) \/ CallbackReturns(s, n) \/
             CallbackLocks(s, n) \/ CallbackLocked(s, n)
      PROVE  KeyInv'
  BY <1>4, KeyType DEF TryRecvKCP, CallbackReturns, CallbackLocks,
     CallbackLocked, KeyInv, RegisteredIsAlive, muxVars
<1>5. ASSUME NEW s \in Stream, AddUDPFilter(s)
      PROVE  KeyInv'
  BY <1>5, KeyType, NoStreamType DEF AddUDPFilter, Taken, Typed, KeyInv,
     RegisteredIsAlive
<1>6. ASSUME NEW s \in Stream, RunOpen(s)
      PROVE  KeyInv'
  BY <1>6, KeyType DEF RunOpen, Take, Idle, Go, StreamInv, KeyInv,
     RegisteredIsAlive, muxVars
<1>7. ASSUME NEW s \in Stream, RunClose(s)
      PROVE  KeyInv'
  BY <1>7, KeyType DEF RunClose, Take, Idle, Go, StreamInv, KeyInv,
     RegisteredIsAlive, muxVars
<1>8. ASSUME NEW s \in Stream, RunDestroy(s)
      PROVE  KeyInv'
  <2>1. /\ stream[s] # "none" /\ stream' = [stream EXCEPT ![s] = "none"]
        /\ by_key' = [by_key EXCEPT ![Key(s)] = NoStream]
    BY <1>8 DEF RunDestroy, Take, Idle, Erased, StreamInv
  <2>2. by_key[Key(s)] = s
    BY <2>1 DEF KeyInv, RegisteredIsAlive
  <2>3. \A t \in Stream :
          by_key'[Key(t)] = IF Key(t) = Key(s) THEN NoStream ELSE by_key[Key(t)]
    BY <2>1, KeyType DEF Typed
  <2>4. RegisteredIsAlive'
    BY <2>1, <2>2, <2>3, NoStreamType DEF KeyInv, RegisteredIsAlive, Typed
  <2>5. QED
    BY <2>1, <2>4 DEF KeyInv
<1>9. ASSUME NEW s \in Stream, NEW n \in 0..MaxMessages, CallbackCloses(s, n)
      PROVE  KeyInv'
  BY <1>9, KeyType DEF CallbackCloses, In, Busy, Busied, StreamInv, KeyInv,
     RegisteredIsAlive, muxVars
<1>10. CASE UNCHANGED vars
  BY <1>10 DEF vars, KeyInv, RegisteredIsAlive
<1>11. QED
  BY <1>1, <1>2, <1>3, <1>4, <1>5, <1>6, <1>7, <1>8, <1>9, <1>10 DEF Next

(* No mux dies in CreateStream without a conflict. *)
LEMMA RefusedStep ==
  ASSUME Typed, OwnInv, StreamInv, KeyInv, RefusedInv, [Next]_vars
  PROVE  RefusedInv'
<1>1. ASSUME NEW s \in Stream,
             CreateStream(s) \/ Lock(s) \/ FindMux(s) \/ AddMux(s) \/
             BindFails(s) \/ CloseMux(s) \/ Unlock(s)
      PROVE  RefusedInv'
  BY <1>1 DEF CreateStream, Lock, FindMux, AddMux, BindFails, CloseMux,
     Unlock, Go, Typed, RefusedInv
<1>2. ASSUME NEW s \in Stream, NEW call \in Calls, Invoke(s, call)
      PROVE  RefusedInv'
  BY <1>2 DEF Invoke, Go, RefusedInv
<1>3. ASSUME NEW s \in Stream,
             RunCreate(s) \/ RunCancel(s) \/ RunOpen(s) \/ RunClose(s) \/
             RunCloseMux(s)
      PROVE  RefusedInv'
  BY <1>3 DEF RunCreate, RunCancel, RunOpen, RunClose, RunCloseMux, Go,
     Typed, RefusedInv
<1>4. ASSUME NEW s \in Stream, OnRecvUDP(s) \/ OnError(s) \/ TryRecvEnds(s)
      PROVE  RefusedInv'
  BY <1>4 DEF OnRecvUDP, OnError, TryRecvEnds, RefusedInv
<1>5. ASSUME NEW s \in Stream, NEW n \in 0..MaxMessages,
             TryRecvKCP(s, n) \/ CallbackReturns(s, n) \/
             CallbackCloses(s, n) \/ CallbackLocks(s, n) \/ CallbackLocked(s, n)
      PROVE  RefusedInv'
  BY <1>5 DEF TryRecvKCP, CallbackReturns, CallbackCloses, CallbackLocks,
     CallbackLocked, Typed, RefusedInv
<1>6. ASSUME NEW s \in Stream, AddUDPFilter(s)
      PROVE  RefusedInv'
  BY <1>6, MuxAssumption, KeyType DEF AddUDPFilter, Go, Taken, Key,
     Conflict, Typed, KeyInv, RegisteredIsAlive, RefusedInv
<1>7. ASSUME NEW s \in Stream, DropMux(s)
      PROVE  RefusedInv'
  BY <1>7 DEF DropMux, Go, Held, Streams, Typed, RefusedInv
<1>8. ASSUME NEW s \in Stream, RunDestroy(s)
      PROVE  RefusedInv'
  BY <1>8, DestroyCases DEF RunDestroy, Go, Typed, RefusedInv
<1>9. CASE UNCHANGED vars
  BY <1>9 DEF vars, RefusedInv
<1>10. QED
  BY <1>1, <1>2, <1>3, <1>4, <1>5, <1>6, <1>7, <1>8, <1>9 DEF Next

(* The types are kept. *)
LEMMA TypeStep ==
  ASSUME TypeOK, [Next]_vars
  PROVE  TypeOK'
<1>1. ASSUME NEW s \in Stream,
             CreateStream(s) \/ Lock(s) \/ FindMux(s) \/ BindFails(s)
      PROVE  TypeOK'
  BY <1>1, KeyType DEF CreateStream, Lock, FindMux, BindFails, Go, TypeOK,
     muxVars, proxyVars, execVars
<1>2. ASSUME NEW s \in Stream, AddMux(s)
      PROVE  TypeOK'
  <2>1. queue' \in Seq(Handler)
    BY <1>2 DEF AddMux, TypeOK, Posted, Handler
  <2>2. QED
    BY <1>2, <2>1 DEF AddMux, Go, TypeOK, proxyVars
<1>3. ASSUME NEW s \in Stream, AddUDPFilter(s)
      PROVE  TypeOK'
  BY <1>3, KeyType DEF AddUDPFilter, Go, TypeOK, proxyVars, execVars
<1>4. ASSUME NEW s \in Stream, DropMux(s)
      PROVE  TypeOK'
  BY <1>4, KeyType DEF DropMux, Go, TypeOK, execVars
<1>5. ASSUME NEW s \in Stream, CloseMux(s)
      PROVE  TypeOK'
  <2>1. queue' \in Seq(Handler)
    BY <1>5 DEF CloseMux, TypeOK, Posted, Handler
  <2>2. QED
    BY <1>5, <2>1 DEF CloseMux, Go, TypeOK, proxyVars
<1>6. ASSUME NEW s \in Stream, Unlock(s)
      PROVE  TypeOK'
  BY <1>6, KeyType DEF Unlock, Go, ReleasedLock, TypeOK, muxVars, execVars
<1>7. ASSUME NEW s \in Stream, NEW call \in Calls, Invoke(s, call)
      PROVE  TypeOK'
  <2>1. queue' \in Seq(Handler)
    BY <1>7 DEF Invoke, TypeOK, Posted, Handler
  <2>2. QED
    BY <1>7, <2>1 DEF Invoke, Go, TypeOK, proxyVars, muxVars
<1>8. ASSUME NEW s \in Stream, RunCreate(s)
      PROVE  TypeOK'
  BY <1>8, KeyType DEF RunCreate, Go, Take, TypeOK
<1>9. ASSUME NEW s \in Stream, RunCancel(s)
      PROVE  TypeOK'
  BY <1>9, KeyType DEF RunCancel, Go, Take, TypeOK, muxVars, proxyVars
<1>10. ASSUME NEW s \in Stream, RunOpen(s)
      PROVE  TypeOK'
  BY <1>10, KeyType DEF RunOpen, Go, Take, TypeOK, muxVars, proxyVars
<1>11. ASSUME NEW s \in Stream, RunClose(s)
      PROVE  TypeOK'
  BY <1>11, KeyType DEF RunClose, Go, Take, TypeOK, muxVars, proxyVars
<1>12. ASSUME NEW s \in Stream, RunDestroy(s)
      PROVE  TypeOK'
  BY <1>12, KeyType DEF RunDestroy, Take, Go, Erased, TypeOK, Activity,
     proxyVars
<1>13. ASSUME NEW s \in Stream, RunCloseMux(s)
      PROVE  TypeOK'
  BY <1>13, KeyType DEF RunCloseMux, Go, Unbound, TypeOK, Activity,
     proxyVars
<1>14. ASSUME NEW s \in Stream, OnRecvUDP(s)
      PROVE  TypeOK'
  <2> DEFINE t == by_key[ParsedKey(s)]
  <2>1. t # NoStream => t \in Stream
    BY KeyType DEF TypeOK
  <2>2. running' \in Activity
    BY <1>14, <2>1, MuxAssumption DEF OnRecvUDP, Busy, TypeOK, Activity
  <2>3. crash' \in Crash
    BY <1>14, <2>1 DEF OnRecvUDP, NullCall, TypeOK, Crash
  <2>4. QED
    BY <1>14, <2>2, <2>3 DEF OnRecvUDP, TypeOK, proxyVars, muxVars
<1>15. ASSUME NEW s \in Stream, OnError(s)
      PROVE  TypeOK'
  <2>1. running' \in Activity
    BY <1>15, MuxAssumption DEF OnError, TypeOK, Busy, TypeOK, Activity
  <2>2. crash' \in Crash
    BY <1>15, MuxAssumption DEF OnError, NullCall, TypeOK, Crash
  <2>3. QED
    BY <1>15, <2>1, <2>2 DEF OnError, TypeOK, proxyVars, muxVars
<1>16. ASSUME NEW s \in Stream, TryRecvEnds(s)
      PROVE  TypeOK'
  BY <1>16, KeyType DEF TryRecvEnds, TypeOK, Activity, proxyVars, muxVars
<1>17. ASSUME NEW s \in Stream, NEW n \in 0..MaxMessages, TryRecvKCP(s, n)
      PROVE  TypeOK'
  <2>1. running' \in Activity
    BY <1>17, MuxAssumption DEF TryRecvKCP, In, Busy, Activity
  <2>2. crash' \in Crash
    BY <1>17, MuxAssumption DEF TryRecvKCP, NullCall, TypeOK, Crash
  <2>3. QED
    BY <1>17, <2>1, <2>2 DEF TryRecvKCP, TypeOK, proxyVars, muxVars
<1>18. ASSUME NEW s \in Stream, NEW n \in 0..MaxMessages,
             CallbackReturns(s, n)
      PROVE  TypeOK'
  BY <1>18, KeyType DEF CallbackReturns, Busy, TypeOK, Activity, proxyVars,
     muxVars
<1>19. ASSUME NEW s \in Stream, NEW n \in 0..MaxMessages, CallbackCloses(s, n)
      PROVE  TypeOK'
  BY <1>19, KeyType DEF CallbackCloses, TypeOK, muxVars, proxyVars, execVars
<1>20. ASSUME NEW s \in Stream, NEW n \in 0..MaxMessages, CallbackLocks(s, n)
      PROVE  TypeOK'
  BY <1>20, KeyType DEF CallbackLocks, Busy, TypeOK, Activity, proxyVars,
     muxVars
<1>21. ASSUME NEW s \in Stream, NEW n \in 0..MaxMessages, CallbackLocked(s, n)
      PROVE  TypeOK'
  BY <1>21, KeyType DEF CallbackLocked, Busy, TypeOK, Activity, proxyVars,
     muxVars
<1>22. CASE UNCHANGED vars
  BY <1>22 DEF vars, TypeOK
<1>23. QED
  BY <1>1, <1>2, <1>3, <1>4, <1>5, <1>6, <1>7, <1>8, <1>9, <1>10, <1>11,
     <1>12, <1>13, <1>14, <1>15, <1>16, <1>17, <1>18, <1>19, <1>20, <1>21,
     <1>22 DEF Next

(* The invariant holds at the start. *)
LEMMA InitInv == Init => IInv
<1> SUFFICES ASSUME Init PROVE IInv
  OBVIOUS
<1>1. TypeOK
  <2>1. queue \in Seq(Handler)
    BY EmptySeq DEF Init
  <2>2. running \in Activity /\ crash \in Crash
    BY Zenon DEF Init, Activity, Crash
  <2>3. QED
    BY <2>1, <2>2 DEF Init, TypeOK
<1>2. LockInv /\ OwnInv /\ StreamInv
  BY MuxAssumption DEF Init, LockInv, OwnInv, StreamInv, Busied, Idle
<1>3. KeyInv
  BY KeyType, NoStreamType DEF Init, KeyInv, RegisteredIsAlive
<1>4. RefusedInv
  BY DEF Init, RefusedInv
<1>5. QED
  BY <1>1, <1>2, <1>3, <1>4 DEF IInv

(* Every step keeps it. *)
LEMMA StepInv == ASSUME IInv, [Next]_vars PROVE IInv'
BY TypedOK, TypeStep, LockStep, OwnStep, StreamStep, KeyStep, RefusedStep
   DEF IInv

(* What the proxy, the owners, the executor and the streams know of a mux   *)
(* agrees, for any streams and convs.                                       *)
THEOREM InvariantHolds == Spec => []IInv
<1>1. IInv /\ [Next]_vars => IInv'
  BY StepInv
<1>2. QED
  BY <1>1, InitInv, PTL DEF Spec

(* The keys, the streams, the handlers that are posted and what the         *)
(* executor is in the middle of keep their types.                           *)
THEOREM MuxTypeCorrect == Spec => []TypeOK
<1>1. IInv => TypeOK
  BY DEF IInv
<1>2. QED
  BY <1>1, InvariantHolds, PTL

(* by_key_streams_ has the streams there are and none that is gone          *)
(* (KCPMux::AddUDPFilter, ~UDPAdapter): a stream is refused because of      *)
(* another, and its end does not take that one's key away.                  *)
THEOREM KeysAreKept == Spec => []RegisteredIsAlive
<1>1. IInv => RegisteredIsAlive
  BY DEF IInv, KeyInv
<1>2. QED
  BY <1>1, InvariantHolds, PTL

(* The mux of a stream and its socket live as long as the stream, though    *)
(* the proxy holds the mux by a weak_ptr only.                              *)
THEOREM StreamsAreKept == Spec => []MuxOutlivesStreams
<1>1. IInv => MuxOutlivesStreams
  BY DEF IInv, OwnInv, MuxOutlivesStreams
<1>2. QED
  BY <1>1, InvariantHolds, PTL

(* CreateStream runs ~KCPMux, under the lock of the proxy, only when the    *)
(* conv conflicts with that of another stream.                              *)
THEOREM OnlyRefusedCloses == Spec => []MuxDiesOnExecutor
<1>1. IInv => MuxDiesOnExecutor
  BY DEF IInv, RefusedInv, MuxDiesOnExecutor, Conflict
<1>2. QED
  BY <1>1, InvariantHolds, PTL

(* What the executor calls in the middle of a datagram is changed by the    *)
(* callback alone (KCPMux::OnRecvUDP, KCPStream::TryRecvKCP): the calls of  *)
(* the owner wait for the end of the handler.                               *)
THEOREM CalledAreKept == Spec => KeptWhileCalled
<1> DEFINE Kept == \A s \in Stream :
             Busied /\ running.stream = s /\ stream'[s] # stream[s] =>
               running.kind = "callback" /\ stream'[s] = "closed"
<1>1. IInv /\ [Next]_vars => [Kept]_vars
  <2> SUFFICES ASSUME IInv, Next, NEW s \in Stream, Busied,
                      running.stream = s, stream'[s] # stream[s]
               PROVE  running.kind = "callback" /\ stream'[s] = "closed"
    OBVIOUS
  <2>1. running # Idle /\ stream[s] # "none"
    BY DEF IInv, StreamInv, Busied, Idle
  <2>2. Typed
    BY TypedOK DEF IInv
  <2>3. PICK t \in Stream :
          \/ AddUDPFilter(t) \/ RunOpen(t) \/ RunClose(t) \/ RunDestroy(t)
          \/ \E n \in 0..MaxMessages : CallbackCloses(t, n)
    BY DEF Next, CreateStream, Lock, FindMux, AddMux, BindFails, DropMux,
           CloseMux, Unlock, Invoke, RunCreate, RunCancel, RunCloseMux,
           OnRecvUDP, OnError, TryRecvKCP, TryRecvEnds, CallbackReturns,
           CallbackLocks, CallbackLocked
  <2>4. ~AddUDPFilter(t)
    BY <2>1, <2>2 DEF AddUDPFilter, Go, IInv, StreamInv, Typed
  <2>5. ~RunOpen(t) /\ ~RunClose(t) /\ ~RunDestroy(t)
    BY <2>1 DEF RunOpen, RunClose, RunDestroy, Take
  <2>6. ASSUME NEW n \in 0..MaxMessages, CallbackCloses(t, n)
        PROVE  running.kind = "callback" /\ stream'[s] = "closed"
    BY <2>2, <2>6 DEF CallbackCloses, In, Busy, Typed
  <2>7. QED
    BY <2>3, <2>4, <2>5, <2>6
<1>2. Spec => [][Kept]_vars
  BY <1>1, InvariantHolds, PTL DEF Spec
<1>3. QED
  BY <1>2 DEF KeptWhileCalled

(* Which open streams get their datagrams through the key that              *)
(* KCPMux::OnRecvUDP takes from them, for any convs.                        *)
THEOREM DatagramsAreFound == Spec => []DatagramsFindStream
<1>1. IInv => DatagramsFindStream
  <2> SUFFICES ASSUME IInv, NEW s \in Stream, stream[s] = "open"
               PROVE  by_key[ParsedKey(s)] = s <=>
                        Conv[s] % 256 < 128 \/ Conv[s] % 65536 >= 65280
    BY DEF DatagramsFindStream
  <2>1. Conv[s] \in Nat /\ ParsedKey(s) \in Keys /\ s # NoStream
    BY KeyType, NoStreamType, MuxAssumption
  <2>2. by_key[Key(s)] = s
    BY DEF IInv, KeyInv, RegisteredIsAlive
  <2>3. by_key[ParsedKey(s)] = s => Key(s) = ParsedKey(s)
    BY <2>1 DEF IInv, KeyInv
  <2>4. ParsedKey(s) = Key(s) <=>
          Conv[s] % 256 < 128 \/ Conv[s] % 65536 >= 65280
    <3>1. ASSUME NEW m \in Nat
          PROVE  /\ m % 65536 >= 65280 => m % 65536 = 65280 + (m % 256)
                 /\ 65280 + (m % 256) >= 65280
      OBVIOUS
    <3>2. QED
      BY <2>1, <3>1 DEF ParsedKey, Key
  <2>5. QED
    BY <2>2, <2>3, <2>4
<1>2. QED
  BY <1>1, InvariantHolds, PTL
=============================================================================
