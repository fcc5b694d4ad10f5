----------------------------- MODULE Schedules -----------------------------
(***************************************************************************)
(* Schedules as the analyzer sees them (Vec<SchedEvent>): the sequence in  *)
(* which a sequentialized run executes the events of its threads.  A      *)
(* SchedEvent is abstracted to its thread and its position in that        *)
(* thread; a schedule the runtime can execute keeps each thread's events  *)
(* in program order.                                                       *)
(***************************************************************************)
EXTENDS Naturals, Sequences, FiniteSets

CONSTANTS
  Threads,  \* thread ids (model values)
  Depth     \* scheduling events per thread

Events == Threads \X (1..Depth)

ThreadOf(e) == e[1]

(* Events of thread t already in schedule s.                               *)
Ran(s, t) == Cardinality({i \in DOMAIN s : ThreadOf(s[i]) = t})

(* Every feasible schedule: extend a prefix by the next event of any       *)
(* thread with events left, so each thread's events stay in program order. *)
RECURSIVE Completions(_)
Completions(s) ==
  IF Len(s) = Cardinality(Events) THEN {s}
  ELSE UNION {Completions(Append(s, <<t, Ran(s, t) + 1>>)) :
                t \in {u \in Threads : Ran(s, u) < Depth}}

Sched == Completions(<<>>)

(* The schedule with the events at positions i and i+1 exchanged.         *)
SwapAdjacent(s, i) == [s EXCEPT ![i] = s[i + 1], ![i + 1] = s[i]]

(* P is F with one adjacent pair of events of different threads reordered: *)
(* the shape of a critical schedule (failing F, passing P).                *)
RacingSwap(F, P) ==
  \E j \in 1..(Len(F) - 1) :
    /\ ThreadOf(F[j]) # ThreadOf(F[j + 1])
    /\ P = SwapAdjacent(F, j)
=============================================================================
