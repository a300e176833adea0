------------------------------ MODULE SerialTime ------------------------------
(***************************************************************************)
(* Timestamps of a fixed width.  The program keeps time in milliseconds in  *)
(* 32 bits (Now32, src/src/comm.cc), so a stamp comes round again every 50  *)
(* days, and compares stamps by the sign of their difference (TimeDiff      *)
(* there, _itimediff in src/src/ikcp.c).  The width is a parameter here.    *)
(***************************************************************************)
EXTENDS Integers

CONSTANT Half          \* half the number of stamps: 2^31 in the program

ASSUME HalfAssumption == Half \in Nat /\ Half > 0

Modulus == 2 * Half
Stamp == 0..Modulus-1

(* Now32, when the time is t: the low bits of it. *)
Now32(t) == t % Modulus

(* A mutant: stamps compared as numbers. *)
RawDiff(later, earlier) == later - earlier

(* later - earlier as an unsigned number, then taken for a signed one. *)
TimeDiff(later, earlier) ==
  LET d == later - earlier IN
  IF d >= Half THEN d - Modulus ELSE IF d < -Half THEN d + Modulus ELSE d

(* A mutant: a stamp that does not come round. *)
AfterUnbounded(stamp, delay) == stamp + delay

(* The stamp that is delay after stamp. *)
After(stamp, delay) == (stamp + delay) % Modulus
===============================================================================
