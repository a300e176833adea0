----------------------------- MODULE MessageChannel -----------------------------
(***************************************************************************)
(* What a pair of KCP control blocks promises to its users (ikcp_send and   *)
(* ikcp_recv, src/src/ikcp.h): at each end, messages come out whole, once,  *)
(* and in the order in which the other end accepted them.                   *)
(***************************************************************************)
EXTENDS Naturals, Sequences

CONSTANTS Endpoint, Message

Other(e) == CHOOSE p \in Endpoint : p # e

VARIABLES sent, delivered

vars == <<sent, delivered>>

Init ==
  /\ sent = [e \in Endpoint |-> <<>>]
  /\ delivered = [e \in Endpoint |-> <<>>]

Send(e, m) ==
  /\ sent' = [sent EXCEPT ![e] = Append(@, m)]
  /\ UNCHANGED delivered

(* The first message of the other end that e has not had yet. *)
Deliver(e) ==
  LET n == Len(delivered[e]) + 1 IN
  /\ n <= Len(sent[Other(e)])
  /\ delivered' = [delivered EXCEPT ![e] = Append(@, sent[Other(e)][n])]
  /\ UNCHANGED sent

Next == \E e \in Endpoint : (\E m \in Message : Send(e, m)) \/ Deliver(e)

Spec == Init /\ [][Next]_vars

FairSpec == Spec /\ \A e \in Endpoint : WF_vars(Deliver(e))
=============================================================================
