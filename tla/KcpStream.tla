-------------------------------- MODULE KcpStream -------------------------------
(***************************************************************************)
(* The link of KcpLink as KCPStream (src/src/kcp_stream.cc) drives it at    *)
(* both ends, with streams that stay open.  KCPStream calls ikcp_recv only  *)
(* in TryRecvKCP, at the end of an OnRecvUDP whose ikcp_input succeeded.    *)
(*                                                                         *)
(*   Write      KCPStream::Write, also from a callback                      *)
(*   OnRecvUDP  up to the call of ikcp_input, which InputTaken and          *)
(*              InputFailed go through                                      *)
(*   TryRecv    a turn of the loop of TryRecvKCP, with its OnRecvKCP        *)
(*   OnRun      the task that calls ikcp_update                             *)
(***************************************************************************)
EXTENDS KcpLink

VARIABLE taking   \* OnRecvUDP is in TryRecvKCP

streamVars == <<vars, taking>>

StreamInit ==
  /\ Init
  /\ taking = [e \in Endpoint |-> FALSE]

(* No OnRecvUDP is under way.  (The two ends have a thread each; what one   *)
(* does in TryRecvKCP does not depend on the other.)                        *)
Quiet == \A e \in Endpoint : ~taking[e]

Write(e, size) ==
  /\ \A x \in Endpoint : x # e => ~taking[x]
  /\ Send(e, size)
  /\ UNCHANGED taking

OnRecvUDP(e, d) ==
  /\ Quiet
  /\ Receive(e, d)
  /\ UNCHANGED taking

(* ikcp_input takes a segment, and returns 0 after the last one. *)
InputTaken(e) ==
  /\ InputAck(e) \/ InputPush(e) \/ InputWask(e) \/ InputWins(e)
  /\ taking' = [taking EXCEPT ![e] = (input'[e] = <<>>)]

(* ikcp_input fails.  The stream reports kKCPInputFailed and returns. *)
InputFailed(e) ==
  /\ InputForeign(e)
  /\ UNCHANGED taking

(* ikcp_peeksize is above 0.  (Every fragment but those of a message of no  *)
(* bytes has some.) *)
MessageWaits(e) ==
  /\ rcv_queue[e] # <<>>
  /\ Complete(rcv_queue[e])
  /\ rcv_queue[e][1].len > 0

TryRecv(e) ==
  /\ taking[e]
  /\ MessageWaits(e)
  /\ Recv(e)
  /\ UNCHANGED taking

TryRecvEnds(e) ==
  /\ taking[e]
  /\ ~MessageWaits(e)
  /\ taking' = [taking EXCEPT ![e] = FALSE]
  /\ UNCHANGED vars

OnRun(e, due, ask, lossless) ==
  /\ Quiet
  /\ Update(e, due, ask, lossless)
  /\ UNCHANGED taking

StreamNext ==
  \E e \in Endpoint :
    \/ \E size \in MessageSizes : Write(e, size)
    \/ \E d \in net[e] : OnRecvUDP(e, d)
    \/ InputTaken(e)
    \/ InputFailed(e)
    \/ TryRecv(e)
    \/ TryRecvEnds(e)
    \/ \E due \in DueSets(e), ask \in ProbeDue(e) : OnRun(e, due, ask, FALSE)

StreamSpec == StreamInit /\ [][StreamNext]_streamVars

(* As Fairness of KcpLink, but the program is not trusted to call           *)
(* ikcp_recv: the stream does, where its code does.                         *)
StreamFairness ==
  /\ \A e \in Endpoint :
       /\ WF_streamVars(InputTaken(e) \/ InputFailed(e))
       /\ WF_streamVars(TryRecv(e) \/ TryRecvEnds(e))
       /\ SF_streamVars(\E d \in net[e] : OnRecvUDP(e, d))
  /\ \A e \in Receivers :
       SF_streamVars(/\ acklist[e] # <<>> \/ probe[e]
                     /\ \E due \in DueSets(e), ask \in ProbeDue(e) :
                          OnRun(e, due, ask, TRUE))
  /\ \A e \in Senders :
       /\ WF_streamVars(\E due \in DueSets(e) : OnRun(e, due, FALSE, FALSE))
       /\ SF_streamVars(\E due \in DueSets(e) :
                          TRUE \in ProbeDue(e) /\ OnRun(e, due, TRUE, TRUE))
       /\ \A n \in 0..MaxNumbered-1 :
            SF_streamVars(\E due \in DueSets(e), ask \in ProbeDue(e) :
                            n \in due /\ OnRun(e, due, ask, TRUE))

StreamFairSpec == StreamSpec /\ StreamFairness
=============================================================================
