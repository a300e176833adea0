------------------------------- MODULE MCExecutor ------------------------------
(* Executor on small instances: threads with streams, one with a task.      *)
EXTENDS ExecutorInv, TLC

CONSTANTS a, b, c

(* The second executor, which is stopped last, has two users. *)
Apart == a :> 1 @@ b :> 2 @@ c :> 2

(* Callbacks on the first executor call streams of the second. *)
Forward == {<<1, 2>>}

(* Callbacks on each call streams of the other. *)
Mutual == {<<1, 2>>, <<2, 1>>}
=============================================================================
