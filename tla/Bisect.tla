------------------------------- MODULE Bisect -------------------------------
(***************************************************************************)
(* Phase 5 and phase 6 of `hermit analyze` (analyze/phases.rs):           *)
(* phase5_bisect_traces drives search_for_critical_schedule with a        *)
(* predicate that writes each candidate schedule to bisect_round_<i>.events*)
(* and replays it; phase6_record_outputs reruns the failing endpoint with *)
(* stack traces at the two critical events.                                *)
(*                                                                         *)
(* search_for_critical_schedule lives outside src/ and follows spec 4.7:  *)
(* the hybrids T[1..k] ++ (the rest of B in B's order) lead from the      *)
(* baseline B (k = 0) to the target T (k = Len(T)); each hybrid is        *)
(* reached from the previous one by moving one event left one adjacent    *)
(* swap at a time, so the chain `path` of schedules goes from B to T by   *)
(* single adjacent swaps.  Bisection over that chain keeps a passing      *)
(* path[lo] and a failing path[hi] until they are adjacent.                *)
(***************************************************************************)
EXTENDS Schedules, TLC

CONSTANTS
  MaxProbes,  \* bound on bisection rounds (the counter `i` is unbounded)
  None

VARIABLES
  verdict,   \* outcome of every schedule replayed so far (deterministic)
  path,      \* the chain of schedules from baseline to target
  lo, hi,    \* bisection bracket: path[lo] passes, path[hi] fails
  probes,    \* test_fn's counter `i`, names bisect_round_<i>
  pc,        \* "bisect", "report", "done" or "err_internal"
  crit,      \* CriticalSchedule returned by the search
  stacks     \* <<stack1, stack2>>: events whose stacks the report prints

vars == <<verdict, path, lo, hi, probes, pc, crit, stacks>>

(* The adjacent swaps that move T[k], T[k+1], ... into place in s.         *)
RECURSIVE SwapChain(_, _, _)
SwapChain(s, t, k) ==
  IF k > Len(t) THEN <<>>
  ELSE LET j == CHOOSE j \in DOMAIN s : s[j] = t[k] IN
       IF j = k THEN SwapChain(s, t, k + 1)
       ELSE LET s2 == SwapAdjacent(s, j - 1)
            IN <<s2>> \o SwapChain(s2, t, k)

ChainFrom(b, t) == <<b>> \o SwapChain(b, t, 1)

(* Probe point inside the open bracket; ties go to the lower index.       *)
Mid(l, h) == (l + h) \div 2

(* The first position where two schedules differ.                         *)
FirstDiffZeroBased(F, P) ==
  (CHOOSE j \in DOMAIN F : F[j] # P[j] /\ \A i \in 1..(j - 1) : F[i] = P[i]) - 1
FirstDiff(F, P) ==
  CHOOSE j \in DOMAIN F : F[j] # P[j] /\ \A i \in 1..(j - 1) : F[i] = P[i]

Init ==
  /\ \E t, b \in Sched :
       /\ t # b
       /\ verdict = (t :> TRUE) @@ (b :> FALSE)
       /\ path = ChainFrom(b, t)
  /\ lo = 1
  /\ hi = Len(path)
  /\ probes = 0
  /\ pc = "bisect"
  /\ crit = None
  /\ stacks = None

(* One call of test_fn: i += 1, the schedule is written to                *)
(* bisect_round_<i>.events and replayed; it reports "passing" (!is_match), *)
(* and the bracket end on that side moves to the probe point.             *)
ProbeInverted ==
  LET m == Mid(lo, hi)
      s == path[m]
  IN /\ pc = "bisect" /\ hi - lo > 1 /\ probes < MaxProbes
     /\ \E v \in IF s \in DOMAIN verdict THEN {verdict[s]} ELSE BOOLEAN :
          /\ verdict' = verdict @@ (s :> v)
          /\ IF v THEN lo' = m /\ hi' = hi ELSE hi' = m /\ lo' = lo
     /\ probes' = probes + 1
     /\ UNCHANGED <<path, pc, crit, stacks>>
Probe ==
  LET m == Mid(lo, hi)
      s == path[m]
  IN /\ pc = "bisect" /\ hi - lo > 1 /\ probes < MaxProbes
     /\ \E v \in IF s \in DOMAIN verdict THEN {verdict[s]} ELSE BOOLEAN :
          /\ verdict' = verdict @@ (s :> v)
          /\ IF v THEN hi' = m /\ lo' = lo ELSE lo' = m /\ hi' = hi
     /\ probes' = probes + 1
     /\ UNCHANGED <<path, pc, crit, stacks>>

(* The search returns once the bracket is two adjacent schedules;         *)
(* critical_event_index is the 0-based index of the later swapped event.  *)
Converge ==
  /\ pc = "bisect" /\ hi - lo = 1
  /\ crit' = [failing |-> path[hi], passing |-> path[lo],
              critical_event_index |-> FirstDiff(path[hi], path[lo])]
  /\ pc' = "report"
  /\ UNCHANGED <<verdict, path, lo, hi, probes, stacks>>

(* launch_for_stacktraces: replay F with stack traces at the 0-based      *)
(* events ci - 1 and ci, i.e. positions ci and ci + 1 of F.                *)
StackEventsSwapped(F, ci) == <<F[ci + 1], F[(ci - 1) + 1]>>
StackEvents(F, ci) == <<F[(ci - 1) + 1], F[ci + 1]>>

(* phase6_record_outputs: write both endpoints, replay the failing one     *)
(* with stacktrace_event = [(ci - 1, stack1), (ci, stack2)] (0-based      *)
(* event indices), read both stacks and bail unless the replay matches.   *)
Report ==
  LET F  == crit.failing
      ci == crit.critical_event_index
  IN /\ pc = "report"
     /\ stacks' = StackEvents(F, ci)
     /\ pc' = IF verdict[F] THEN "done" ELSE "err_internal"
     /\ UNCHANGED <<verdict, path, lo, hi, probes, crit>>

Next == Probe \/ Converge \/ Report

(* Each round blocks on one replay that exits; the analyzer is one thread. *)
Spec == Init /\ [][Next]_vars /\ WF_vars(Next)

-----------------------------------------------------------------------------
TypeOK ==
  /\ DOMAIN verdict \subseteq Sched /\ \A s \in DOMAIN verdict : verdict[s] \in BOOLEAN
  /\ path \in Seq(Sched)
  /\ lo \in 1..Len(path) /\ hi \in 1..Len(path) /\ lo < hi
  /\ probes \in 0..MaxProbes
  /\ pc \in {"bisect", "report", "done", "err_internal"}
  /\ crit # None => crit.critical_event_index \in 1..(Len(crit.failing) - 1)

(* The bisection implements the CriticalSchedule contract: the pair it    *)
(* returns is a failing and a passing schedule, each classified by a      *)
(* replay, one racing swap apart.                                          *)
Abstract == INSTANCE CriticalPair
  WITH result <- IF pc = "bisect" THEN None ELSE <<crit.failing, crit.passing>>
ImplementsCriticalPair == Abstract!Spec

(* The report's two stacks are those of the racing pair: the events that  *)
(* the passing schedule runs in the other order, on two different threads *)
(* as the report's header claims.                                          *)
ReportedStacksAreRacingPair ==
  pc = "done" =>
    /\ ThreadOf(stacks[1]) # ThreadOf(stacks[2])
    /\ \E j \in 1..(Len(crit.failing) - 1) :
         /\ crit.passing = SwapAdjacent(crit.failing, j)
         /\ stacks = <<crit.failing[j], crit.failing[j + 1]>>
=============================================================================
