--------------------------------- MODULE KcpMux ---------------------------------
(***************************************************************************)
(* Streams that share a local address.  KCPContext::CreateStream            *)
(* (src/src/kcp_context.cc) has KCPProxy (src/src/kcp_proxy.cc), under its  *)
(* lock, find or make the KCPMux of the address and register the stream     *)
(* with it.  The mux owns the socket and hands each datagram to the stream  *)
(* of its peer and conv.  The streams own the mux.                          *)
(*                                                                         *)
(* There is one address, with one peer, and one executor, which runs.       *)
(* Stream s is created and called by a thread of its own, which may start   *)
(* again when it has destroyed it.  A call through the adapter              *)
(* (KCPStreamAdapter, src/src/kcp_stream.h) is posted to the executor and   *)
(* waited for; Executor says why it is run.                                 *)
(*                                                                         *)
(* No rule is laid on the owners, the callbacks or the peer.                *)
(***************************************************************************)
EXTENDS Naturals, Sequences

CONSTANTS
  Stream,       \* streams, each with its owner's thread
  Conv,         \* the conv of each
  NoStream,     \* no stream
  MaxMessages   \* bound: messages that one datagram completes

ASSUME MuxAssumption ==
  /\ Conv \in [Stream -> Nat]
  /\ NoStream \notin Stream
  /\ MaxMessages \in Nat

(* The conv of a StreamKey is 16 bits wide. *)
Key(s) == Conv[s] % 65536

(* A mutant: only the first byte of the datagram is read. *)
FirstByteKey(s) == Conv[s] % 256

(* ParseConv, and the key of its result.  It puts conv together from chars, *)
(* which are signed: a first byte above 127 sets all the bits above it.     *)
ParsedKey(s) ==
  IF Conv[s] % 256 < 128 THEN Conv[s] % 65536 ELSE 65280 + (Conv[s] % 256)

Keys == {Key(s) : s \in Stream} \cup {ParsedKey(s) : s \in Stream}

VARIABLES
  lock,     \* who has the lock of KCPContext::proxy_
  pc,       \* where each owner is
  holding,  \* owners with a shared_ptr<KCPMux> of their own
  mux,      \* the KCPMux of the address
  bound,    \* a socket is bound to the address
  by_key,   \* by_key_streams_
  stream,   \* the streams, each with its UDPAdapter
  queue,    \* the handlers posted to the executor
  running,  \* what the executor is in the middle of
  crash     \* the stream whose callback was called when it was null

proxyVars == <<lock, holding>>
muxVars == <<mux, bound, by_key>>
execVars == <<queue, running>>
vars == <<lock, pc, holding, mux, bound, by_key, stream, queue, running, crash>>

Calls == {"open", "close", "destroy"}
Handler == [kind : Calls \cup {"create", "cancel"}, stream : Stream]
Idle == [kind |-> "idle"]
Activity == {Idle} \cup [kind : {"closing"}, stream : Stream]
                  \cup [kind : {"receiving", "callback", "locking"},
                        stream : Stream, left : 0..MaxMessages]
NoCrash == [kind |-> "none"]
Crash == {NoCrash} \cup [kind : {"datagram", "message", "error"}, stream : Stream]

TypeOK ==
  /\ lock \in Stream \cup {NoStream}
  /\ pc \in [Stream -> {"idle", "locking", "finding", "creating", "adding",
                        "dropping", "closing", "cancelling", "unlocking",
                        "ready", "calling"}]
  /\ holding \in SUBSET Stream
  /\ mux \in {"none", "alive", "dying"}
  /\ bound \in BOOLEAN
  /\ by_key \in [Keys -> Stream \cup {NoStream}]
  /\ stream \in [Stream -> {"none", "created", "open", "closed"}]
  /\ queue \in Seq(Handler)
  /\ running \in Activity
  /\ crash \in Crash

Init ==
  /\ lock = NoStream
  /\ pc = [s \in Stream |-> "idle"]
  /\ holding = {}
  /\ mux = "none"
  /\ bound = FALSE
  /\ by_key = [k \in Keys |-> NoStream]
  /\ stream = [s \in Stream |-> "none"]
  /\ queue = <<>>
  /\ running = Idle
  /\ crash = NoCrash

(* Nothing happens after a crash. *)
Running == crash = NoCrash

(* A mutant: a message stays in rcv_queue. *)
BusyAgain(kind, s, n) == [kind |-> kind, stream |-> s, left |-> n + 1]

(* The executor is in OnRecvUDP of s, with n messages in rcv_queue. *)
Busy(kind, s, n) == [kind |-> kind, stream |-> s, left |-> n]

Go(s, from, to) == Running /\ pc[s] = from /\ pc' = [pc EXCEPT ![s] = to]

Posted(kind, s) == Append(queue, [kind |-> kind, stream |-> s])

-----------------------------------------------------------------------------
(* CreateStream, on the thread of the owner.  The lock is held until the    *)
(* end of the call of AddUDPFilter.                                         *)

CreateStream(s) ==
  /\ stream[s] = "none"
  /\ Go(s, "idle", "locking")
  /\ UNCHANGED <<proxyVars, muxVars, stream, execVars, crash>>

Lock(s) ==
  /\ lock = NoStream
  /\ Go(s, "locking", "finding")
  /\ lock' = s
  /\ UNCHANGED <<holding, muxVars, stream, execVars, crash>>

(* AddMux: the weak_ptr still has a mux. *)
FindMux(s) ==
  /\ mux = "alive"
  /\ Go(s, "finding", "adding")
  /\ holding' = holding \cup {s}
  /\ UNCHANGED <<lock, muxVars, stream, execVars, crash>>

(* AddMux: there is no mux, or it is in its destructor.  CreateUDP binds a  *)
(* socket, and KCPMux::Create is invoked on the executor.                   *)
AddMux(s) ==
  /\ mux # "alive"
  /\ ~bound
  /\ Go(s, "finding", "creating")
  /\ bound' = TRUE
  /\ queue' = Posted("create", s)
  /\ UNCHANGED <<proxyVars, mux, by_key, stream, running, crash>>

(* CreateUDP fails: the socket of the mux in its destructor is still open. *)
BindFails(s) ==
  /\ mux # "alive"
  /\ bound
  /\ Go(s, "finding", "unlocking")
  /\ UNCHANGED <<proxyVars, muxVars, stream, execVars, crash>>

(* A mutant: the key is not looked up first. *)
NeverTaken(s) == FALSE

(* A mutant: a mux has one stream at a time. *)
TakenByAny(s) == \E k \in Keys : by_key[k] # NoStream

(* KCPMux::AddUDPFilter finds the key. *)
Taken(s) == by_key[Key(s)] # NoStream

AddUDPFilter(s) ==
  /\ Go(s, "adding", "dropping")
  /\ IF Taken(s) THEN UNCHANGED <<by_key, stream>>
     ELSE /\ by_key' = [by_key EXCEPT ![Key(s)] = IF @ = NoStream THEN s ELSE @]
          /\ stream' = [stream EXCEPT ![s] = "created"]
  /\ UNCHANGED <<proxyVars, mux, bound, execVars, crash>>

(* A mutant: a UDPAdapter does not own its mux. *)
HeldByOwners(owners, streams) == owners # {}

(* There is a shared_ptr to the mux, of one of owners or of the UDPAdapter  *)
(* of one of streams.                                                       *)
Held(owners, streams) == owners # {} \/ streams # {}

Streams(st) == {s \in Stream : st[s] # "none"}

(* The shared_ptr<KCPMux> of KCPProxy::AddUDPFilter goes. *)
DropMux(s) ==
  /\ holding' = holding \ {s}
  /\ IF Held(holding', Streams(stream))
     THEN Go(s, "dropping", "unlocking") /\ UNCHANGED mux
     ELSE Go(s, "dropping", "closing") /\ mux' = "dying"
  /\ UNCHANGED <<lock, bound, by_key, stream, execVars, crash>>

(* ~KCPMux on the thread of the owner: AsioUDP::Close closes the socket and *)
(* waits for the executor in CancelTask.                                    *)
CloseMux(s) ==
  /\ Go(s, "closing", "cancelling")
  /\ mux' = "none"
  /\ bound' = FALSE
  /\ queue' = Posted("cancel", s)
  /\ UNCHANGED <<proxyVars, by_key, stream, running, crash>>

(* A mutant: the lock is not released when there is no stream to return. *)
KeptLock(s) == IF stream[s] = "none" THEN s ELSE NoStream

ReleasedLock(s) == NoStream

Unlock(s) ==
  /\ Go(s, "unlocking", IF stream[s] = "none" THEN "idle" ELSE "ready")
  /\ lock' = ReleasedLock(s)
  /\ UNCHANGED <<holding, muxVars, stream, execVars, crash>>

(* A call through the adapter is posted. *)
Invoke(s, call) ==
  /\ Go(s, "ready", "calling")
  /\ call = "open" <=> stream[s] = "created"
  /\ queue' = Posted(call, s)
  /\ UNCHANGED <<proxyVars, muxVars, stream, running, crash>>

-----------------------------------------------------------------------------
(* The executor runs a posted handler. *)

(* A mutant: a call is run on the thread of the owner. *)
TakeAnyTime(kind, s) ==
  /\ Running
  /\ queue # <<>> /\ Head(queue) = [kind |-> kind, stream |-> s]
  /\ queue' = Tail(queue)

Take(kind, s) ==
  /\ Running /\ running = Idle
  /\ queue # <<>> /\ Head(queue) = [kind |-> kind, stream |-> s]
  /\ queue' = Tail(queue)

(* KCPMux::Create. *)
RunCreate(s) ==
  /\ Take("create", s)
  /\ Go(s, "creating", "adding")
  /\ mux' = "alive"
  /\ holding' = holding \cup {s}
  /\ UNCHANGED <<lock, bound, by_key, stream, running, crash>>

RunCancel(s) ==
  /\ Take("cancel", s)
  /\ Go(s, "cancelling", "unlocking")
  /\ UNCHANGED <<proxyVars, muxVars, stream, running, crash>>

(* KCPStream::Open, which sets its cb_ and that of the UDPAdapter. *)
RunOpen(s) ==
  /\ Take("open", s)
  /\ Go(s, "calling", "ready")
  /\ stream' = [stream EXCEPT ![s] = "open"]
  /\ UNCHANGED <<proxyVars, muxVars, running, crash>>

(* KCPStream::Close clears both and leaves the stream registered. *)
RunClose(s) ==
  /\ Take("close", s)
  /\ Go(s, "calling", "ready")
  /\ stream' = [stream EXCEPT ![s] = "closed"]
  /\ UNCHANGED <<proxyVars, muxVars, running, crash>>

Erased(s) == [by_key EXCEPT ![Key(s)] = NoStream]

(* ~KCPStreamAdapter closes the stream and deletes it.  ~UDPAdapter erases  *)
(* its key and lets go of the mux, whose destructor comes next if it was    *)
(* the last to hold it.                                                     *)
RunDestroy(s) ==
  /\ Take("destroy", s)
  /\ pc[s] = "calling"
  /\ stream' = [stream EXCEPT ![s] = "none"]
  /\ by_key' = Erased(s)
  /\ IF Held(holding, Streams(stream'))
     THEN Go(s, "calling", "idle") /\ UNCHANGED <<mux, running>>
     ELSE /\ mux' = "dying"
          /\ running' = [kind |-> "closing", stream |-> s]
          /\ UNCHANGED pc
  /\ UNCHANGED <<proxyVars, bound, crash>>

(* A mutant: ~KCPMux leaves the socket to its own destructor. *)
StillBound == TRUE

(* AsioUDP::Close closes the socket. *)
Unbound == FALSE

(* ~KCPMux on the executor. *)
RunCloseMux(s) ==
  /\ running = [kind |-> "closing", stream |-> s]
  /\ Go(s, "calling", "idle")
  /\ mux' = "none"
  /\ bound' = Unbound
  /\ running' = Idle
  /\ UNCHANGED <<proxyVars, by_key, stream, queue, crash>>

-----------------------------------------------------------------------------
(* The executor runs a handler of the socket. *)

(* The cb_ of the stream and of its UDPAdapter are set. *)
HasCallback(s) == stream[s] = "open"

NullCall(kind, s) == crash' = [kind |-> kind, stream |-> s]

Listening == Running /\ running = Idle /\ mux # "none" /\ bound

(* A datagram for s.  KCPMux::OnRecvUDP calls the stream it finds.  Its     *)
(* ikcp_input takes it and completes some messages, or refuses a conv that  *)
(* is not its own, and OnError is called.                                   *)
OnRecvUDP(s) ==
  /\ Listening
  /\ LET t == by_key[ParsedKey(s)] IN
     /\ t # NoStream
     /\ IF ~HasCallback(t)
        THEN NullCall("datagram", t) /\ UNCHANGED running
        ELSE /\ UNCHANGED crash
             /\ IF Conv[t] = Conv[s]
                THEN \E n \in 0..MaxMessages : running' = Busy("receiving", t, n)
                ELSE running' = Busy("callback", t, 0)
  /\ UNCHANGED <<proxyVars, pc, muxVars, stream, queue>>

(* KCPMux::OnError comes to t. *)
OnError(t) ==
  /\ Listening
  /\ by_key[Key(t)] = t
  /\ IF HasCallback(t)
     THEN running' = Busy("callback", t, 0) /\ UNCHANGED crash
     ELSE NullCall("error", t) /\ UNCHANGED running
  /\ UNCHANGED <<proxyVars, pc, muxVars, stream, queue>>

In(kind, s, n) == Running /\ running = Busy(kind, s, n)

(* TryRecvKCP goes on to the next message and calls OnRecvKCP. *)
TryRecvKCP(s, n) ==
  /\ In("receiving", s, n)
  /\ n > 0
  /\ IF HasCallback(s)
     THEN running' = Busy("callback", s, n - 1) /\ UNCHANGED crash
     ELSE NullCall("message", s) /\ UNCHANGED running
  /\ UNCHANGED <<proxyVars, pc, muxVars, stream, queue>>

TryRecvEnds(s) ==
  /\ In("receiving", s, 0)
  /\ running' = Idle
  /\ UNCHANGED <<proxyVars, pc, muxVars, stream, queue, crash>>

(* The callback of stream s. *)

CallbackReturns(s, n) ==
  /\ In("callback", s, n)
  /\ running' = Busy("receiving", s, n)
  /\ UNCHANGED <<proxyVars, pc, muxVars, stream, queue, crash>>

(* It closes its stream, which is done at once. *)
CallbackCloses(s, n) ==
  /\ In("callback", s, n)
  /\ stream' = [stream EXCEPT ![s] = "closed"]
  /\ UNCHANGED <<proxyVars, pc, muxVars, execVars, crash>>

(* It creates a stream, on another address: what matters here is the lock.  *)
CallbackLocks(s, n) ==
  /\ In("callback", s, n)
  /\ running' = Busy("locking", s, n)
  /\ UNCHANGED <<proxyVars, pc, muxVars, stream, queue, crash>>

CallbackLocked(s, n) ==
  /\ In("locking", s, n)
  /\ lock = NoStream
  /\ running' = Busy("receiving", s, n)
  /\ UNCHANGED <<proxyVars, pc, muxVars, stream, queue, crash>>

Executes ==
  \E s \in Stream :
    \/ RunCreate(s) \/ RunCancel(s)
    \/ RunOpen(s) \/ RunClose(s) \/ RunDestroy(s)

Creates(s) ==
  \/ FindMux(s) \/ AddMux(s) \/ BindFails(s)
  \/ AddUDPFilter(s) \/ DropMux(s) \/ CloseMux(s) \/ Unlock(s)

Next ==
  \E s \in Stream :
    \/ CreateStream(s) \/ Lock(s)
    \/ FindMux(s) \/ AddMux(s) \/ BindFails(s)
    \/ AddUDPFilter(s) \/ DropMux(s) \/ CloseMux(s) \/ Unlock(s)
    \/ \E call \in Calls : Invoke(s, call)
    \/ RunCreate(s) \/ RunCancel(s)
    \/ RunOpen(s) \/ RunClose(s) \/ RunDestroy(s) \/ RunCloseMux(s)
    \/ OnRecvUDP(s) \/ OnError(s) \/ TryRecvEnds(s)
    \/ \E n \in 0..MaxMessages :
         \/ TryRecvKCP(s, n) \/ CallbackReturns(s, n)
         \/ CallbackCloses(s, n) \/ CallbackLocks(s, n)
         \/ CallbackLocked(s, n)

Receives(s) ==
  \/ TryRecvEnds(s)
  \/ \E n \in 0..MaxMessages :
       TryRecvKCP(s, n) \/ CallbackReturns(s, n) \/ CallbackLocked(s, n)

(* The threads run, no one is kept from the mutex for ever while it is let  *)
(* go again and again, and the executor takes the handlers in turn,         *)
(* although datagrams keep coming.                                          *)
Fairness ==
  /\ \A s \in Stream : WF_vars(Creates(s)) /\ SF_vars(Lock(s))
  /\ SF_vars(Executes)
  /\ \A s \in Stream : WF_vars(RunCloseMux(s)) /\ SF_vars(Receives(s))

Spec == Init /\ [][Next]_vars /\ Fairness

-----------------------------------------------------------------------------
(* Properties. *)

(* The executor is in a datagram or an error of a stream. *)
Busied == running.kind \in {"receiving", "callback", "locking"}

(* by_key_streams_ has the streams there are, and no pointer to one that is *)
(* gone: neither a second CreateStream with the same key nor the end of     *)
(* another stream takes a stream out of it.                                 *)
RegisteredIsAlive ==
  \A s \in Stream : by_key[Key(s)] = s <=> stream[s] # "none"

(* The mux of a stream lives, with its socket, as long as the stream.       *)
MuxOutlivesStreams ==
  \A s \in Stream : stream[s] # "none" => mux = "alive" /\ bound

(* CreateStream runs ~KCPMux, which waits for the executor with the lock of *)
(* the proxy, only when it was refused because of another stream whose conv *)
(* agrees in the last 16 bits.                                              *)
MuxDiesOnExecutor ==
  \A s \in Stream :
    pc[s] = "closing" =>
      \E t \in Stream \ {s} : Conv[t] % 65536 = Conv[s] % 65536

(* While the executor is in a datagram or an error of a stream, between any *)
(* two messages, the thread of its owner neither closes nor destroys it,    *)
(* although the streams have no lock: only its own callback closes it, and  *)
(* the callbacks that are called next are null only then.                   *)
KeptWhileCalled ==
  [][\A s \in Stream :
       Busied /\ running.stream = s /\ stream'[s] # stream[s] =>
         running.kind = "callback" /\ stream'[s] = "closed"]_vars

(* Which open streams get their datagrams, although conv goes through       *)
(* ParseConv one way and through CreateStream the other: those whose first  *)
(* byte is below 128, or whose second is 255.  The others never do.         *)
DatagramsFindStream ==
  \A s \in Stream :
    stream[s] = "open" =>
      (by_key[ParsedKey(s)] = s <=>
         Conv[s] % 256 < 128 \/ Conv[s] % 65536 >= 65280)

(* A callback waits for the lock, whose owner waits for the executor. *)
Deadlocked ==
  /\ running.kind = "locking"
  /\ \E s \in Stream : lock = s /\ pc[s] \in {"creating", "cancelling"}

(* CreateStream and every call of a stream return, while others make and    *)
(* destroy streams on the same mux, unless a callback creates a stream too. *)
CallsReturn ==
  \A s \in Stream :
    pc[s] \notin {"idle", "ready"} ~>
      pc[s] \in {"idle", "ready"} \/ Deadlocked \/ ~Running

(* The address is free again when the last stream is gone. *)
AddressIsFreed == mux = "dying" ~> ~bound \/ Deadlocked \/ ~Running
=============================================================================
