------------------------------- MODULE MCKcpLink -------------------------------
(* KcpLink on small instances.  a sends, b receives. *)
EXTENDS KcpLinkInv, TLC

CONSTANTS a, b

(* Messages from a to b only: what goes the other way is acknowledgements   *)
(* and windows.                                                             *)
OneWay1 == a :> 1 @@ b :> 0
OneWay2 == a :> 2 @@ b :> 0

(* Datagrams on their way to a and to b. *)
Net11 == a :> 1 @@ b :> 1
Net12 == a :> 1 @@ b :> 2
=============================================================================
