------------------------------- MODULE MCTaskTimer -----------------------------
(* TaskTimer on a small instance. *)
EXTENDS TaskTimer

AtZero == {0}
NearTheEnd == {13}
=============================================================================
