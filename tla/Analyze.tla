------------------------------ MODULE Analyze ------------------------------
(***************************************************************************)
(* The driver of `hermit analyze` (analyze/phases.rs): AnalyzeOpts::main   *)
(* and phases 1 to 4, up to the point where main() reads the two endpoint *)
(* schedules and hands them to the bisector (phase 5, module Bisect).      *)
(*                                                                         *)
(* The deterministic runtime is a black box.  A run is identified by the   *)
(* preemption record it records, which with --sequentialize-threads        *)
(* determines its schedule, its log (CHAOSRAND lines ignored) and its      *)
(* output.  A chaos run, seeded by --run1-seed, --run2-seed or the search  *)
(* RNG, may record any record.  A replay of record r executes and          *)
(* re-records the run exec[r]: the runtime is deterministic, and it is a   *)
(* fixed point (what --selfcheck tests) where exec[r] = r.  Whether a      *)
(* run's output matches the criterion (output_matches) is the fixed        *)
(* function `verdict`.  Both are chosen once in Init from every runtime    *)
(* and oracle considered.  The workspace is the function `fs` from         *)
(* artifact names to the record a file holds.                              *)
(***************************************************************************)
EXTENDS Naturals, FiniteSets

CONSTANTS
  Points,     \* preemption points of the traced program, ordered by time
  Verdicts,   \* the oracles considered: a subset of [SUBSET Points -> BOOLEAN]
  Configs,    \* the analyzer command lines considered (see Config)
  Runtimes,   \* the runtimes considered: a subset of [SUBSET Points -> SUBSET Points]
  MaxRounds,  \* bound on search misses; do_search itself loops forever
  NoFile      \* content of an artifact that has not been written

ASSUME MaxRounds \in Nat \ {0}

Records == SUBSET Points

(* The options of AnalyzeOpts the driver branches on.                      *)
Config ==
  [run1 : {"seed", "preempts", "schedule"},        \* --run1-seed / -preemptions / -schedule
   run2 : {"seed", "preempts", "schedule", "none"},
   search : BOOLEAN, minimize : BOOLEAN, selfcheck : BOOLEAN,
   seqThreads : BOOLEAN]                           \* not --no-sequentialize-threads

ASSUME /\ Configs \subseteq Config /\ Verdicts \subseteq [Records -> BOOLEAN]
       /\ Runtimes \subseteq [Records -> Records]

(* Artifacts named by run name and extension (log_path, preempts_path),    *)
(* plus the user's --run2-preemptions file, which phase 4 writes to.       *)
Paths == {"phase1_target.preempts", "phase1_target.log",
          "min.preempts", "min.log",
          "run1b_selfcheck.preempts", "run1b_selfcheck.log",
          "final.preempts", "first_matching.events", "final_pass.preempts",
          "run2_baseline.preempts", "run2_baseline.log",
          "baseline_nearby_non_matching.preempts", "run2_preemptions"}

(* Where the driver terminates: the hand-off to phase 5, a bail! or a      *)
(* panic (todo!, unwrap).                                                   *)
Final == {"bisect", "err_config", "err_no_match", "err_selfcheck",
          "err_target", "panic"}

VARIABLES
  cfg,         \* the command line
  verdict,     \* output_matches of the run executing each record
  exec,        \* the runtime: the run a replay of each record executes
  fs,          \* the workspace: artifact -> record or NoFile
  pc,          \* the driver's control point
  round,       \* do_search's round counter
  minPr,       \* phase2_minimize result: the record in memory ...
  minPrPath,   \* ... the file holding it ...
  minLogPath,  \* ... and the log of its run (min_log_path in main)
  pr,          \* phase 4's record: knockout loop variable, then final_pr
  target,      \* read_trace(target_sched_events_path)
  baseline     \* read_trace(non_matching_sched_events_path)

vars == <<cfg, verdict, exec, fs, pc, round, minPr, minPrPath, minLogPath, pr,
          target, baseline>>

(* PreemptionRecord::with_latest_preempt_removed: drop the preemption that *)
(* happens last.  Outside src/; an empty record has nothing to drop.       *)
LatestRemovedIdentity(r) == r
WithLatestPreemptRemoved(r) ==
  IF r = {} THEN r
  ELSE r \ {CHOOSE p \in r : \A q \in r : q <= p}

(* output_matches: whether the run identified by record r meets the       *)
(* criterion (stdout and stderr patterns and exit code all hold).          *)
Matches(r) == verdict[r]

(* launch_from_preempts_to_sched / replay_preemptions_from: the run a      *)
(* replay of record r executes, and so the record or schedule it records.  *)
Replay(r) == exec[r]

(* The minimizer (self.minimize, outside src/), by its contract (spec     *)
(* 4.5): a record drawn from the input whose replay matches, the only     *)
(* property the driver relies on.                                          *)
(* An input that does not match (an unchecked --run1-preemptions file)    *)
(* cannot be reduced and is returned as it is.                             *)
MinimizerResults(rin) ==
  {s \in SUBSET rin : Matches(Replay(s))}
    \cup (IF Matches(Replay(rin)) THEN {} ELSE {rin})

(* log_diff_preemption_replay: two logs agree, CHAOSRAND lines ignored,   *)
(* exactly when they are logs of the same run.                             *)
LogsAgree(l1, l2) == l1 = l2

(* preempt_files_equal: load both preemption files and compare records.   *)
PreemptFilesEqual(f, p1, p2) == f[p1] = f[p2]

(* launch_and_record_preempts / launch_config: run r leaves its recorded   *)
(* preemptions and its log under the run's name.                           *)
LaunchRecording(f, preempts, log, r) == [f EXCEPT ![preempts] = r, ![log] = r]

Init ==
  /\ cfg \in Configs
  /\ verdict \in Verdicts
  /\ exec \in Runtimes
  /\ fs = [p \in Paths |-> NoFile]
  /\ pc = "main"
  /\ round = 0
  /\ minPr = {} /\ minPrPath = NoFile /\ minLogPath = NoFile
  /\ pr = {} /\ target = {} /\ baseline = {}

-----------------------------------------------------------------------------
(* main: --run1-schedule and --run2-schedule are todo!().                  *)
Main ==
  /\ pc = "main"
  /\ pc' = IF "schedule" \in {cfg.run1, cfg.run2} THEN "panic" ELSE "phase1"
  /\ UNCHANGED <<cfg, verdict, exec, fs, round, minPr, minPrPath, minLogPath, pr,
                 target, baseline>>

(* get_base_runopts (via get_run1_runopts) refuses a run without           *)
(* sequentialized threads.                                                 *)
Phase1Rejected ==
  /\ pc = "phase1" /\ ~cfg.seqThreads
  /\ pc' = "err_config"
  /\ UNCHANGED <<cfg, verdict, exec, fs, round, minPr, minPrPath, minLogPath, pr,
                 target, baseline>>

(* phase1 from a seed: launch_and_record_preempts("phase1_target") records *)
(* the run's preemptions and log; no match means search or bail.           *)
Phase1Seed ==
  /\ pc = "phase1" /\ cfg.seqThreads /\ cfg.run1 = "seed"
  /\ \E r \in Records :
       /\ fs' = LaunchRecording(fs, "phase1_target.preempts",
                                 "phase1_target.log", r)
       /\ pc' = IF Matches(r) THEN "phase2"
                ELSE IF cfg.search THEN "search" ELSE "err_no_match"
  /\ UNCHANGED <<cfg, verdict, exec, round, minPr, minPrPath, minLogPath, pr,
                 target, baseline>>

(* phase1 from --run1-preemptions: the file is copied into the workspace   *)
(* and taken to match without a run; with --selfcheck it is todo!().       *)
Phase1Preempts ==
  /\ pc = "phase1" /\ cfg.seqThreads /\ cfg.run1 = "preempts"
  /\ \E u \in Records :
       fs' = [fs EXCEPT !["phase1_target.preempts"] = u]
  /\ pc' = IF cfg.selfcheck THEN "panic" ELSE "phase2"
  /\ UNCHANGED <<cfg, verdict, exec, round, minPr, minPrPath, minLogPath, pr,
                 target, baseline>>

(* do_search, a round whose chaos run matches: launch_search recorded its  *)
(* preemptions, which are copied over phase1_target.preempts.              *)
SearchHit ==
  /\ pc = "search"
  /\ \E r \in Records :
       /\ Matches(r)
       /\ fs' = [fs EXCEPT !["phase1_target.preempts"] = r]
  /\ pc' = "phase2"
  /\ UNCHANGED <<cfg, verdict, exec, round, minPr, minPrPath, minLogPath, pr,
                 target, baseline>>

(* do_search, a round whose run does not match: try the next seed.  Its   *)
(* files are never read back.  Misses are cut at MaxRounds; after that    *)
(* the search is still running and only a hit can change the state.       *)
SearchMiss ==
  /\ pc = "search" /\ round < MaxRounds
  /\ \E r \in Records : ~Matches(r)
  /\ round' = round + 1
  /\ UNCHANGED <<cfg, verdict, exec, fs, pc, minPr, minPrPath, minLogPath, pr,
                 target, baseline>>

Phase2MinimizeFirstLog ==
  /\ pc = "phase2" /\ cfg.minimize
  /\ \E r \in MinimizerResults(fs["phase1_target.preempts"]) :
       /\ fs' = [fs EXCEPT !["min.preempts"] = r, !["min.log"] = Replay(r)]
       /\ minPr' = r
  /\ minPrPath' = "min.preempts"
  /\ minLogPath' = "phase1_target.log"
  /\ pc' = "phase3"
  /\ UNCHANGED <<cfg, verdict, exec, round, pr, target, baseline>>

(* phase2_minimize with --minimize: the minimizer's result and the log of *)
(* its last matching run, a replay of that record; main uses that log for *)
(* the self-check.                                                         *)
Phase2Minimize ==
  /\ pc = "phase2" /\ cfg.minimize
  /\ \E r \in MinimizerResults(fs["phase1_target.preempts"]) :
       /\ fs' = [fs EXCEPT !["min.preempts"] = r, !["min.log"] = Replay(r)]
       /\ minPr' = r
  /\ minPrPath' = "min.preempts"
  /\ minLogPath' = "min.log"
  /\ pc' = "phase3"
  /\ UNCHANGED <<cfg, verdict, exec, round, pr, target, baseline>>

Phase2LoadWrongPath ==
  /\ pc = "phase2" /\ ~cfg.minimize
  /\ minPr' = fs["min.preempts"]
  /\ minPrPath' = "phase1_target.preempts"
  /\ minLogPath' = "phase1_target.log"
  /\ pc' = "phase3"
  /\ UNCHANGED <<cfg, verdict, exec, fs, round, pr, target, baseline>>
(* phase2_minimize without --minimize: load phase1's record; main falls    *)
(* back on run1_log_path, the log of phase1's own run.                     *)
Phase2Load ==
  /\ pc = "phase2" /\ ~cfg.minimize
  /\ minPr' = fs["phase1_target.preempts"]
  /\ minPrPath' = "phase1_target.preempts"
  /\ minLogPath' = "phase1_target.log"
  /\ pc' = "phase3"
  /\ UNCHANGED <<cfg, verdict, exec, fs, round, pr, target, baseline>>

(* phase3_strict_preempt_replay_check: replay the record, recording        *)
(* run1b_selfcheck's preemptions and log, then bail unless the replay      *)
(* matches, the logs agree (log_diff_preemption_replay) and the recorded   *)
(* preemptions equal the replayed ones (preempt_files_equal).              *)
Phase3Selfcheck ==
  /\ pc = "phase3" /\ cfg.selfcheck
  /\ LET r == Replay(fs[minPrPath]) IN
       /\ fs' = LaunchRecording(fs, "run1b_selfcheck.preempts",
                                 "run1b_selfcheck.log", r)
       /\ pc' = IF Matches(r) /\ LogsAgree(fs[minLogPath], r)
                   /\ PreemptFilesEqual(fs', minPrPath,
                                        "run1b_selfcheck.preempts")
                THEN "normalize" ELSE "err_selfcheck"
  /\ UNCHANGED <<cfg, verdict, exec, round, minPr, minPrPath, minLogPath, pr,
                 target, baseline>>

Phase3Skip ==
  /\ pc = "phase3" /\ ~cfg.selfcheck
  /\ pc' = "normalize"
  /\ UNCHANGED <<cfg, verdict, exec, fs, round, minPr, minPrPath, minLogPath, pr,
                 target, baseline>>

(* main: normalize() and preemptions_only() the record and write it to    *)
(* final.preempts.  Records are sets of preemption points, already in     *)
(* canonical form.                                                         *)
WriteNormalized(f, r) == [f EXCEPT !["final.preempts"] = r]

(* main, then save_final_target_sched_events: replay final.preempts,       *)
(* recording the target schedule to first_matching.events, and bail if    *)
(* it does not match.                                                      *)
SaveFinalTarget ==
  /\ pc = "normalize"
  /\ fs' = [WriteNormalized(fs, minPr) EXCEPT
              !["first_matching.events"] = Replay(minPr)]
  /\ pc' = IF Matches(Replay(minPr)) THEN "phase4" ELSE "err_target"
  /\ UNCHANGED <<cfg, verdict, exec, round, minPr, minPrPath, minLogPath, pr,
                 target, baseline>>

(* phase4 with --run2-seed: launch_and_record_preempts("run2_baseline");   *)
(* the run's verdict is not looked at.                                     *)
Phase4Seed ==
  /\ pc = "phase4" /\ cfg.run2 = "seed"
  /\ \E r \in Records :
       fs' = LaunchRecording(fs, "run2_baseline.preempts",
                             "run2_baseline.log", r)
  /\ pr' = minPr
  /\ pc' = "save_target"
  /\ UNCHANGED <<cfg, verdict, exec, round, minPr, minPrPath, minLogPath,
                 target, baseline>>

(* phase4 with --run2-preemptions: save_final_baseline_sched_events(pr,    *)
(* path) with the user's own file as the schedule destination.             *)
Phase4Preempts ==
  /\ pc = "phase4" /\ cfg.run2 = "preempts"
  /\ \E u \in Records :
       fs' = [fs EXCEPT !["final_pass.preempts"] = u,
                        !["run2_preemptions"] = Replay(u)]
  /\ pr' = minPr
  /\ pc' = "save_target"
  /\ UNCHANGED <<cfg, verdict, exec, round, minPr, minPrPath, minLogPath,
                 target, baseline>>

(* phase4 after minimization: enter the knockout loop with pr = matching_pr *)
Phase4Knockout ==
  /\ pc = "phase4" /\ cfg.run2 = "none" /\ cfg.minimize
  /\ pr' = minPr
  /\ pc' = "knockout"
  /\ UNCHANGED <<cfg, verdict, exec, fs, round, minPr, minPrPath, minLogPath,
                 target, baseline>>

(* phase4 otherwise: the stripped (empty) record is the baseline;          *)
(* save_final_baseline_sched_events records its schedule.                  *)
Phase4Empty ==
  /\ pc = "phase4" /\ cfg.run2 = "none" /\ ~cfg.minimize
  /\ fs' = [fs EXCEPT !["final_pass.preempts"] = {},
                      !["run2_baseline.preempts"] = Replay({})]
  /\ pr' = minPr
  /\ pc' = "save_target"
  /\ UNCHANGED <<cfg, verdict, exec, round, minPr, minPrPath, minLogPath,
                 target, baseline>>

(* One iteration of the loop in phase4 around                              *)
(* save_nearby_non_matching_sched_events: knock out the latest preemption, *)
(* replay it recording into run2_baseline.preempts; while it still         *)
(* matches, continue from it, otherwise return the record it came from.    *)
KnockoutReturnsKnockout ==
  LET k == WithLatestPreemptRemoved(pr) IN
  /\ pc = "knockout"
  /\ fs' = [fs EXCEPT !["baseline_nearby_non_matching.preempts"] = k,
                      !["run2_baseline.preempts"] = Replay(k)]
  /\ pr' = k
  /\ pc' = IF Matches(Replay(k)) THEN "knockout" ELSE "save_target"
  /\ UNCHANGED <<cfg, verdict, exec, round, minPr, minPrPath, minLogPath,
                 target, baseline>>
KnockoutIgnoresVerdict ==
  LET k == WithLatestPreemptRemoved(pr) IN
  /\ pc = "knockout"
  /\ fs' = [fs EXCEPT !["baseline_nearby_non_matching.preempts"] = k,
                      !["run2_baseline.preempts"] = Replay(k)]
  /\ pc' = "save_target"
  /\ UNCHANGED <<cfg, verdict, exec, round, minPr, minPrPath, minLogPath, pr,
                 target, baseline>>
Knockout ==
  LET k == WithLatestPreemptRemoved(pr) IN
  /\ pc = "knockout"
  /\ fs' = [fs EXCEPT !["baseline_nearby_non_matching.preempts"] = k,
                      !["run2_baseline.preempts"] = Replay(k)]
  /\ IF Matches(Replay(k)) THEN pr' = k /\ pc' = "knockout"
                   ELSE pr' = pr /\ pc' = "save_target"
  /\ UNCHANGED <<cfg, verdict, exec, round, minPr, minPrPath, minLogPath,
                 target, baseline>>

(* main: save_final_baseline_sched_events(&final_pr,                       *)
(* &target_sched_events_path) replays phase 4's record and records it over *)
(* the target schedule file.                                               *)
SaveTargetFromMin ==
  /\ pc = "save_target"
  /\ fs' = [fs EXCEPT !["final_pass.preempts"] = minPr,
                      !["first_matching.events"] = Replay(minPr)]
  /\ pc' = "read_traces"
  /\ UNCHANGED <<cfg, verdict, exec, round, minPr, minPrPath, minLogPath, pr,
                 target, baseline>>
SaveFinalPr ==
  /\ pc = "save_target"
  /\ fs' = [fs EXCEPT !["final_pass.preempts"] = pr,
                      !["first_matching.events"] = Replay(pr)]
  /\ pc' = "read_traces"
  /\ UNCHANGED <<cfg, verdict, exec, round, minPr, minPrPath, minLogPath, pr,
                 target, baseline>>

(* main: read_trace of both endpoint files; a file never written panics.   *)
ReadTraces ==
  /\ pc = "read_traces"
  /\ IF fs["run2_baseline.preempts"] = NoFile
       THEN pc' = "panic" /\ UNCHANGED <<target, baseline>>
       ELSE /\ target' = fs["first_matching.events"]
            /\ baseline' = fs["run2_baseline.preempts"]
            /\ pc' = "bisect"
  /\ UNCHANGED <<cfg, verdict, exec, fs, round, minPr, minPrPath, minLogPath, pr>>

Next ==
  \/ Main \/ Phase1Rejected \/ Phase1Seed \/ Phase1Preempts
  \/ SearchHit \/ SearchMiss
  \/ Phase2Minimize \/ Phase2Load \/ Phase3Selfcheck \/ Phase3Skip
  \/ SaveFinalTarget
  \/ Phase4Seed \/ Phase4Preempts \/ Phase4Knockout \/ Phase4Empty
  \/ Knockout \/ SaveFinalPr \/ ReadTraces

(* The analyzer is one thread; each step outside the search blocks on a  *)
(* subprocess that exits, so such a step, once enabled, is taken.  The    *)
(* search has no fairness: do_search loops until a chaos run matches and  *)
(* nothing in the code makes a match come (launch_search does not even   *)
(* set chaos mode; it relies on --chaos among the user's run args).       *)
DriverStep == Next /\ pc # "search"
Spec == Init /\ [][Next]_vars /\ WF_vars(DriverStep)

-----------------------------------------------------------------------------
TypeOK ==
  /\ cfg \in Config
  /\ verdict \in [Records -> BOOLEAN]
  /\ exec \in [Records -> Records]
  /\ fs \in [Paths -> Records \cup {NoFile}]
  /\ pc \in Final \cup {"main", "phase1", "search", "phase2", "phase3",
                        "normalize", "phase4", "knockout", "save_target",
                        "read_traces"}
  /\ round \in 0..MaxRounds
  /\ \A x \in {minPr, pr, target, baseline} : x # NoFile /\ x \in Records
  /\ minPrPath \in Paths \cup {NoFile} /\ minLogPath \in Paths \cup {NoFile}

(* I1: the target schedule handed to the bisector matches the criterion,   *)
(* although main re-records it from phase 4's final_pr over the file that  *)
(* save_final_target_sched_events checked.                                 *)
TargetEndpointMatches == pc = "bisect" => Matches(target)

(* I2: the baseline schedule handed to the bisector does not match.        *)
BaselineEndpointFails == pc = "bisect" => ~Matches(baseline)

(* After minimization the two endpoints are one knockout apart: the        *)
(* baseline is the target with its latest preemption removed, even though  *)
(* the knockout loop returns the still-matching record and main overwrites *)
(* the target schedule file with it.                                       *)
EndpointsOneKnockoutApart ==
  (pc = "bisect" /\ cfg.minimize /\ cfg.run2 = "none")
    => baseline = WithLatestPreemptRemoved(target)

(* Phase 4 leaves a recorded baseline schedule at the path main reads.     *)
BaselineTraceRecorded ==
  pc = "read_traces" => fs["run2_baseline.preempts"] # NoFile

(* The self-check bails only when the runtime really is not a fixed point *)
(* on the record it checks: it never rejects a record whose replay         *)
(* re-executes the run it came from.                                       *)
SelfcheckSound ==
  pc = "err_selfcheck" => Replay(fs[minPrPath]) # fs[minPrPath]

(* The workspace is kept as a set of reproducers: final_pass.preempts,    *)
(* which save_final_baseline_sched_events fills with the baseline record   *)
(* it verifies as not matching, still reproduces a passing run when the    *)
(* analysis reaches phase 5.                                                *)
FinalPassReproducerPasses ==
  (pc = "bisect" /\ fs["final_pass.preempts"] # NoFile)
    => ~Matches(Replay(fs["final_pass.preempts"]))

(* The driver ends up either finished (phase 5, a bail! or a panic) or    *)
(* searching for good: every loop but do_search's, in particular phase    *)
(* 4's knockout loop, exits.                                               *)
Termination == <>[](pc \in Final \cup {"search"})
=============================================================================
