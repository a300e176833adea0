------------------------------ MODULE MCKcpStream -------------------------------
(* KcpStream on a small instance.  a sends, b receives. *)
EXTENDS KcpStream, TLC

CONSTANTS a, b

OneWay1 == a :> 1 @@ b :> 0

(* Datagrams on their way to a and to b. *)
Net11 == a :> 1 @@ b :> 1
=============================================================================
