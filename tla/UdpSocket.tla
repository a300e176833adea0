------------------------------- MODULE UdpSocket -------------------------------
(***************************************************************************)
(* AsioUDP (src/src/asio_udp.cc) with its WriteBuffers (src/src/asio_buf.cc)*)
(* over one UDP socket: the pump that writes, the pump that reads, and what *)
(* errors and Close do to them.  Every step is a call or a handler on the   *)
(* thread of the executor.                                                  *)
(*                                                                         *)
(* A buffer is a number.  The system sends a datagram as a whole, or fails, *)
(* as it always does when too many buffers are joined in it.                *)
(***************************************************************************)
EXTENDS Naturals, Sequences

CONSTANTS
  Peer,         \* addresses that are sent to
  NoPeer,       \* in_writing_peer_ before the first write
  MaxDatagram,  \* as many buffers as a datagram can hold
  MaxSends,     \* bound: buffers sent in all
  MaxErrors,    \* bound: errors that the system reports of other datagrams
  MaxReads      \* bound: datagrams received

ASSUME SocketAssumption ==
  /\ NoPeer \notin Peer
  /\ MaxDatagram \in Nat \ {0}
  /\ MaxSends \in Nat /\ MaxErrors \in Nat /\ MaxReads \in Nat

VARIABLES
  opened,           \* Open has been called
  closed,           \* closed_, with cb_ = nullptr
  write_bufs,       \* write_bufs_: what waits, by peer
  in_writing_buf,   \* in_writing_buf_
  in_writing_peer,  \* in_writing_peer_
  in_writing,       \* in_writing_
  in_flight,        \* the async_send_to operations that have not completed
  reading,          \* an async_receive_from has not completed
  gave_up,          \* history: OnError returned true for a write
  sent,             \* history: the buffers that Send took, by peer
  wire,             \* history: the buffers that were sent, by peer
  sends, errors, reads   \* how many of each there were

writeVars == <<write_bufs, in_writing_buf, in_writing_peer, in_writing,
               in_flight>>
vars == <<opened, closed, writeVars, reading, gave_up, sent, wire,
          sends, errors, reads>>

Buffers == Seq(Nat)
NoBuffers == [p \in Peer |-> <<>>]

TooLong(bufs) == Len(bufs) > MaxDatagram

TypeOK ==
  /\ opened \in BOOLEAN
  /\ closed \in BOOLEAN
  /\ write_bufs \in [Peer -> Buffers]
  /\ in_writing_buf \in Buffers
  /\ in_writing_peer \in Peer \cup {NoPeer}
  /\ in_writing \in BOOLEAN
  /\ in_flight \in Seq([peer : Peer, bufs : Buffers])
  /\ reading \in BOOLEAN
  /\ gave_up \in BOOLEAN
  /\ sent \in [Peer -> Buffers]
  /\ wire \in [Peer -> Buffers]
  /\ sends \in Nat /\ errors \in Nat /\ reads \in Nat

Init ==
  /\ opened = FALSE
  /\ closed = TRUE
  /\ write_bufs = NoBuffers
  /\ in_writing_buf = <<>>
  /\ in_writing_peer = NoPeer
  /\ in_writing = FALSE
  /\ in_flight = <<>>
  /\ reading = FALSE
  /\ gave_up = FALSE
  /\ sent = NoBuffers
  /\ wire = NoBuffers
  /\ sends = 0 /\ errors = 0 /\ reads = 0

(* Open: the first read is started. *)
Open ==
  /\ ~opened
  /\ opened' = TRUE
  /\ closed' = FALSE
  /\ reading' = TRUE
  /\ UNCHANGED <<writeVars, gave_up, sent, wire, sends, errors, reads>>

(* Close, or a callback that calls it, if shut.  The operations in progress *)
(* complete later, with an error.                                           *)
CloseIf(shut) == closed' = (closed \/ shut)

Close ==
  /\ opened /\ ~closed
  /\ CloseIf(TRUE)
  /\ UNCHANGED <<opened, writeVars, reading, gave_up, sent, wire, sends,
                 errors, reads>>

-----------------------------------------------------------------------------
(* Writing. *)

(* A mutant: the peer of the last write is kept. *)
StartWriteToOld(waiting, bufs, peer, flight) ==
  /\ write_bufs' = waiting
  /\ in_writing_buf' = bufs
  /\ in_writing' = TRUE
  /\ in_flight' = Append(flight, [peer |-> in_writing_peer, bufs |-> bufs])
  /\ UNCHANGED in_writing_peer

(* async_send_to of bufs to peer, while waiting waits. *)
StartWrite(waiting, bufs, peer, flight) ==
  /\ write_bufs' = waiting
  /\ in_writing_buf' = bufs
  /\ in_writing_peer' = peer
  /\ in_writing' = TRUE
  /\ in_flight' = Append(flight, [peer |-> peer, bufs |-> bufs])

(* TryStartWrite, when no write is in progress: what the last write left is *)
(* written, or else all that waits for some peer (GetBufs).                 *)
TryStartWrite(waiting, bufs, flight) ==
  \/ /\ bufs # <<>>
     /\ StartWrite(waiting, bufs, in_writing_peer, flight)
  \/ /\ bufs = <<>>
     /\ \E p \in Peer :
          /\ waiting[p] # <<>>
          /\ StartWrite([waiting EXCEPT ![p] = <<>>], waiting[p], p, flight)
  \/ /\ bufs = <<>>
     /\ waiting = NoBuffers
     /\ write_bufs' = waiting
     /\ in_writing_buf' = bufs
     /\ in_writing' = FALSE
     /\ in_flight' = flight
     /\ UNCHANGED in_writing_peer

(* A mutant: a write is started although one is in progress. *)
PutAndStart(waiting) == TryStartWrite(waiting, <<>>, in_flight)

(* A mutant: a write is started by the completion of another only. *)
PutOnly(waiting) ==
  /\ write_bufs' = waiting
  /\ UNCHANGED <<in_writing_buf, in_writing_peer, in_writing, in_flight>>

(* The buffers wait, and are written at once if nothing else is. *)
Put(waiting) ==
  \/ /\ in_writing
     /\ write_bufs' = waiting
     /\ UNCHANGED <<in_writing_buf, in_writing_peer, in_writing, in_flight>>
  \/ /\ ~in_writing
     /\ TryStartWrite(waiting, in_writing_buf, in_flight)

(* Send *)
Send(p) ==
  /\ ~closed
  /\ sends < MaxSends
  /\ sends' = sends + 1
  /\ sent' = [sent EXCEPT ![p] = Append(@, sends + 1)]
  /\ Put([write_bufs EXCEPT ![p] = Append(@, sends + 1)])
  /\ UNCHANGED <<opened, closed, reading, gave_up, wire, errors, reads>>

(* A mutant: the buffers that were written are kept. *)
CutNone(bufs, n) == bufs

(* BufferList::Cut: the first n buffers, which were written, are freed. *)
Cut(bufs, n) == SubSeq(bufs, n + 1, Len(bufs))

(* WriteCallback, after n buffers of the operation were written. *)
WriteCallback(n) ==
  TryStartWrite(write_bufs, Cut(in_writing_buf, n), Tail(in_flight))

(* A write completes.  It may have completed before Close, and its handler  *)
(* run after it.                                                            *)
Written ==
  /\ in_flight # <<>>
  /\ LET w == Head(in_flight) IN
     /\ ~TooLong(w.bufs)
     /\ wire' = [wire EXCEPT ![w.peer] = @ \o w.bufs]
     /\ WriteCallback(Len(w.bufs))
  /\ UNCHANGED <<opened, closed, reading, gave_up, sent, sends, errors, reads>>

(* A write fails.  OnError says whether to give up, and may call Close.     *)
(* Otherwise the same buffers are written again.                            *)
WriteFailed ==
  /\ in_flight # <<>>
  /\ ~closed
  /\ \/ TooLong(Head(in_flight).bufs) /\ UNCHANGED errors
     \/ ~TooLong(Head(in_flight).bufs) /\ errors < MaxErrors /\ errors' = errors + 1
  /\ \E give_up \in BOOLEAN, shut \in BOOLEAN :
       /\ CloseIf(shut)
       /\ gave_up' = (gave_up \/ give_up)
       /\ \/ /\ give_up
             /\ in_flight' = Tail(in_flight)
             /\ UNCHANGED <<write_bufs, in_writing_buf, in_writing_peer,
                            in_writing>>
          \/ ~give_up /\ WriteCallback(0)
  /\ UNCHANGED <<opened, reading, sent, wire, sends, reads>>

(* After Close the handler of a write does nothing. *)
WriteAborted ==
  /\ in_flight # <<>>
  /\ closed
  /\ in_flight' = Tail(in_flight)
  /\ UNCHANGED <<opened, closed, write_bufs, in_writing_buf, in_writing_peer,
                 in_writing, reading, gave_up, sent, wire, sends, errors, reads>>

-----------------------------------------------------------------------------
(* Reading. *)

(* A read completes.  The callback of OnRecvUDP, which is not called after  *)
(* Close, may call Close.  The next read is started all the same.           *)
Read ==
  /\ reading
  /\ reads < MaxReads
  /\ reads' = reads + 1
  /\ \E shut \in BOOLEAN : CloseIf(shut)
  /\ reading' = TRUE
  /\ UNCHANGED <<opened, writeVars, gave_up, sent, wire, sends, errors>>

(* A read fails, or an empty datagram is read: no other read is started,    *)
(* whatever OnError returns.                                                *)
ReadStops ==
  /\ reading
  /\ ~closed
  /\ errors < MaxErrors
  /\ errors' = errors + 1
  /\ \E shut \in BOOLEAN : CloseIf(shut)
  /\ reading' = FALSE
  /\ UNCHANGED <<opened, writeVars, gave_up, sent, wire, sends, reads>>

(* A mutant: a read that was aborted is started anew. *)
ReadOnAfterAbort == TRUE

(* ErrorCallback has nobody to tell, and the handler of a read returns. *)
ReadAfterAbort == FALSE

(* A read completes after Close. *)
ReadAborted ==
  /\ reading
  /\ closed
  /\ reading' = ReadAfterAbort
  /\ UNCHANGED <<opened, closed, writeVars, gave_up, sent, wire, sends, errors,
                 reads>>

Next ==
  \/ Open
  \/ Close
  \/ \E p \in Peer : Send(p)
  \/ Written \/ WriteFailed \/ WriteAborted
  \/ Read \/ ReadStops \/ ReadAborted

(* An operation completes in the end, and its handler runs. *)
Fairness ==
  /\ WF_vars(Written)
  /\ WF_vars(WriteAborted)
  /\ WF_vars(ReadAborted)

Spec == Init /\ [][Next]_vars /\ Fairness

-----------------------------------------------------------------------------
(* Properties. *)

(* What Send took for a peer is on the wire, or is being written, or waits, *)
(* in this order and each buffer once, also when writes fail.               *)
NothingLost ==
  \A p \in Peer :
    sent[p] = wire[p]
                \o (IF in_writing_peer = p THEN in_writing_buf ELSE <<>>)
                \o write_bufs[p]

(* At most one write is in progress, and the memory that the system reads   *)
(* is not freed before it completes.                                        *)
BuffersOutliveWrite ==
  in_flight # <<>> =>
    /\ Len(in_flight) = 1
    /\ in_flight[1] = [peer |-> in_writing_peer, bufs |-> in_writing_buf]

(* Every buffer is written in the end, unless the socket is closed, OnError *)
(* gives up, or GetBufs joins more buffers than a datagram can hold, which  *)
(* then keep all others waiting.                                            *)
AllWritten ==
  \A p \in Peer :
    sent[p] # wire[p] ~>
      sent[p] = wire[p] \/ closed \/ gave_up \/ TooLong(in_writing_buf)

(* After Close no operation is left in the end, so that the socket, which   *)
(* the handlers share, is freed.                                            *)
OperationsEnd == opened /\ closed ~> in_flight = <<>> /\ ~reading
=============================================================================
