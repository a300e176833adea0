------------------------------- MODULE KcpMuxInv -------------------------------
(***************************************************************************)
(* The inductive invariant of KcpMux.                                       *)
(*                                                                         *)
(* None of the properties is inductive.  That a mux outlives its streams    *)
(* rests on who holds a shared_ptr at each step of CreateStream; that their *)
(* keys are right, on a stream being called, and destroyed, only by its     *)
(* owner and only when CreateStream has returned it.                        *)
(***************************************************************************)
EXTENDS KcpMux

(* The owner that has the lock is inside CreateStream. *)
LockInv ==
  \A s \in Stream :
    lock = s <=> pc[s] \in {"finding", "creating", "adding", "dropping",
                            "closing", "cancelling", "unlocking"}

(* Who holds the mux, and who closes it. *)
OwnInv ==
  /\ \A s \in Stream : s \in holding <=> pc[s] \in {"adding", "dropping"}
  /\ mux = "alive" <=> (holding # {} \/ \E s \in Stream : stream[s] # "none")
  /\ mux # "none" => bound
  /\ \A s \in Stream : pc[s] = "creating" => bound /\ mux = "none"
  /\ \A s \in Stream :
       pc[s] = "closing" => mux = "dying" /\ running.kind # "closing"
  /\ running.kind = "closing" => mux = "dying"

Conflict(s) == \E t \in Stream \ {s} : Conv[t] % 65536 = Conv[s] % 65536

(* Where the owner of a stream is when there is one, and when there is not. *)
StreamInv ==
  /\ \A s \in Stream :
       /\ pc[s] \in {"idle", "locking", "finding", "creating", "adding"} =>
            stream[s] = "none"
       /\ pc[s] = "ready" => stream[s] # "none"
       /\ /\ pc[s] = "calling"
          /\ ~(running.kind = "closing" /\ running.stream = s)
          => stream[s] # "none"
  /\ running.kind = "closing" =>
       stream[running.stream] = "none" /\ pc[running.stream] = "calling"
  /\ Busied => stream[running.stream] # "none"

(* Each key leads to its stream. *)
KeyInv ==
  /\ RegisteredIsAlive
  /\ \A k \in Keys : by_key[k] # NoStream => Key(by_key[k]) = k

(* A stream that was refused has another with its key. *)
RefusedInv ==
  \A s \in Stream :
    pc[s] = "closing" \/ (pc[s] = "dropping" /\ stream[s] = "none") =>
      Conflict(s)

(* The inductive invariant, of which the safety properties of KcpMux are     *)
(* parts or consequences.  It relates what the proxy, the owners, the        *)
(* executor and the streams each know of the same mux.                       *)
IInv ==
  /\ TypeOK
  /\ LockInv
  /\ OwnInv
  /\ StreamInv
  /\ KeyInv
  /\ RefusedInv
=============================================================================
