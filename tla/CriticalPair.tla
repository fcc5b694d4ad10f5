---------------------------- MODULE CriticalPair ----------------------------
(***************************************************************************)
(* What the bisection promises (spec 4.7, CriticalSchedule): given a       *)
(* target schedule that matches and a baseline that does not, it returns  *)
(* a failing and a passing schedule that differ by one reordering of two  *)
(* adjacent events of different threads, each classified by a replay.     *)
(*                                                                         *)
(* `verdict` is what replays have revealed of the deterministic oracle:   *)
(* a schedule enters its domain once, with the outcome it will always     *)
(* have.                                                                   *)
(***************************************************************************)
EXTENDS Schedules, TLC

CONSTANT None

VARIABLES verdict, result

Init ==
  /\ \E t, b \in Sched :
       /\ t # b
       /\ verdict = (t :> TRUE) @@ (b :> FALSE)
  /\ result = None

(* A replay classifies a schedule not seen before.                         *)
Learn ==
  /\ \E s \in Sched \ DOMAIN verdict, v \in BOOLEAN :
       verdict' = verdict @@ (s :> v)
  /\ UNCHANGED result

(* The answer: a classified failing/passing pair one racing swap apart.    *)
Decide ==
  /\ result = None
  /\ \E F, P \in DOMAIN verdict :
       /\ verdict[F] /\ ~verdict[P]
       /\ RacingSwap(F, P)
       /\ result' = <<F, P>>
  /\ UNCHANGED verdict

Spec == Init /\ [][Learn \/ Decide]_<<verdict, result>>
=============================================================================
