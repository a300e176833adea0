------------------------------- MODULE MCKcpTimer ------------------------------
(* KcpTimer on a small instance: a clock of few stamps, opened close to the *)
(* stamp where it comes round. *)
EXTENDS KcpTimer

LateStarts == {13}
=============================================================================
