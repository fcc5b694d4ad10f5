# TLA+ models of `hermit analyze`

The code is `src/hermit-cli/src/bin/hermit/analyze/phases.rs`, the driver of
`hermit analyze`. Given a program and a failure criterion, it finds a failing
run under hermit's deterministic runtime and reduces it to a *critical
schedule*: a failing and a passing schedule that differ by one adjacent
reordering of two events on different threads. Then it prints the stack traces
of those two events.

## Inventory

The analyzer is one thread and runs strictly in sequence. All concurrency is
inside the traced program. The analyzer sees that program only through
subprocess runs, which block until they exit, and through the files those runs
leave in the workspace.

| Component | Code | State | Operations |
|---|---|---|---|
| Runner | `launch_config`, `launch_and_record_preempts`, `launch_from_preempts_to_sched`, `launch_search`, `launch_for_stacktraces` | the artifact files it writes | one subprocess run: seed, preemption replay or schedule replay; optional recording |
| Oracle | `output_matches`, `has_filters` | none (pure) | does a run's output match the criterion |
| Workspace | `tempdir`, `log_path`, `preempts_path` | the artifact files `<run>.<ext>` | name, write and read artifacts |
| Searcher | `do_search` | the RNG and the round counter | chaos runs until one matches; copy its preemptions |
| Minimizer | `self.minimize` (outside src/) | its own runs | shrink a matching preemption record |
| Self-check | `phase3_strict_preempt_replay_check` | `run1b_selfcheck.*` | replay, compare logs and preemption files |
| Baseline chooser | `phase4_choose_baseline_sched_events`, `save_nearby_non_matching_sched_events`, `save_final_baseline_sched_events` | the knockout loop's record and `run2_baseline.preempts` | the `--run2-seed`, `--run2-preemptions`, knockout and stripped-record branches |
| Driver | `main`, `phase1_establish_target_run`, `phase2_minimize`, `save_final_target_sched_events` | the paths and records passed between phases | phases 1 to 6 in sequence |
| Bisector | `phase5_bisect_traces` (the probe closure); `search_for_critical_schedule` (outside src/) | the bracket, the probe counter `i` | replay hybrid schedules until the bracket is two adjacent schedules |
| Reporter | `phase6_record_outputs` | `final_*.events`, `*.stack1/2` | replay the failing schedule with stack traces at events `ci-1` and `ci`; check that it still matches |
| Runtime, log-diff | external | none | not modelled: only their contracts are assumed |

How the parts interact: the phases pass paths and in-memory records to each
other. Every decision depends on the oracle's verdict for a run. The runtime
must be deterministic (I3). A replay of a record must re-record the same
record (the fixed point, I4). What makes the driver hard is not concurrency.
It is the way files are reused across phases: a path written by one branch and
read by another, a log that belongs to an earlier run, a file overwritten after
it was checked. It is also the way the loops end (the knockout loop, the search,
the bisection).

What makes each component correct:
* The target endpoint matches (I1).
* The baseline endpoint does not match (I2).
* With `--minimize` the two endpoints are one knockout apart.
* The self-check fails only when the runtime is not a fixed point.
* Every loop but the search ends.
* Bisection returns a failing/passing pair one racing swap apart.
* The report prints the stacks of exactly those two events.

## Modules

* `Analyze.tla` models `main` and phases 1 to 4, up to `read_trace` of both
  endpoints.
  * A run is identified by the preemption record it records. A record is a
    set of preemption points, ordered by time. It stands for the run's
    schedule, its log (with CHAOSRAND lines ignored) and its output.
  * A chaos run may record any record. A replay of record `r` executes and
    re-records the run `exec[r]` (`Replay`). The runtime is deterministic,
    and it is a fixed point wherever `exec[r] = r`. `exec` is chosen once in
    Init from the constant `Runtimes`.
  * `verdict` is `output_matches` of a run. It is chosen once in Init from
    every possible oracle (the constant `Verdicts`).
  * The self-check compares logs with `LogsAgree` (same run) and records with
    `PreemptFilesEqual`.
  * `fs` is the workspace: artifact name -> record or `NoFile`.
  * `pc` is the driver's control point.
  * There is one action per phase and branch, and one per knockout-loop
    iteration. `Config` holds the options the code branches on.
  * The minimizer is outside src/. It is modelled by its contract: any
    sub-record of its input whose replay matches (spec 4.5). Its log is
    the log of that replay.
  * `do_search` loops until a round hits. Misses are cut at `MaxRounds`;
    after that the search is still running and only a hit can end it.
    Nothing forces a hit (see Fairness).
  * `with_latest_preempt_removed` drops the latest point. On an empty record
    it returns the record unchanged.
* `Schedules.tla` holds feasible schedules: interleavings of `Threads`, each
  with `Depth` events in program order. It also defines adjacent swaps and
  `RacingSwap`.
* `CriticalPair.tla` is the abstract contract of the bisection. Replays reveal
  verdicts (`Learn`). The result is one classified failing/passing pair, one
  racing swap apart (`Decide`).
* `Bisect.tla` models phases 5 and 6.
  * The probe closure of `phase5_bisect_traces` is `Probe`. It increments `i`,
    replays the schedule and classifies the probe as passing when it does not
    match.
  * `search_for_critical_schedule` (outside src/) follows spec 4.7. The hybrids
    `T[1..k] ++ rest of B` are refined into a chain of single adjacent swaps
    (`SwapChain`), and `Mid` bisects that chain.
  * The oracle is revealed lazily: a schedule replayed for the first time may
    have either outcome, and keeps that outcome afterwards (determinism).
  * `Report` is `phase6_record_outputs`: `StackEvents` (`launch_for_stacktraces`)
    takes stacks at 0-based events `ci-1` and `ci`, then the check that the
    replay matches.
  * `Abstract` instantiates `CriticalPair` with the refinement mapping
    `result <- <<crit.failing, crit.passing>>` once the search has returned.
* `MC_Analyze.tla` and `MC_Bisect.tla` instantiate the two modules for TLC.

## Runs

| Run | Expect | What it shows |
|---|---|---|
| `analyze_all_options` | pass | Over every command line and every oracle in which the failure needs at least one preemption, the target handed to the bisector matches, even after main re-records it from phase 4's `final_pr` over the checked file. The driver ends up either finished or searching for good: every loop other than `do_search`'s exits. |
| `analyze_minimize_endpoints` | pass | With `--minimize` and the default baseline: the baseline does not match, and it is exactly the target minus its latest preemption. So the spec's "open questions" about the loop variable and the reuse of the target path are harmless here. |
| `analyze_selfcheck_runtime` | pass | `--selfcheck` runs against runtimes that are deterministic but replay one record into a different run. The target still matches, because I1 needs only determinism. The self-check bails only on a real non-fixed point, although with `--minimize` its reference log `min.log` is itself a replay log. |
| `analyze_target_nonfixed_runtime` | pass | Without `--selfcheck` and `--search`, the target handed to the bisector still matches. This holds over every phase 4 branch, from a seed or a `--run1-preemptions` file, and over every runtime that replays one record into a different run (11.4M states). I1 rests on determinism and on the re-check in `save_final_target_sched_events`, not on the fixed point. |
| `analyze_stripped_baseline_matches` | violation | Without `--minimize`, if the program also fails without preemptions, the stripped baseline matches and nothing stops it (I2 is not checked). |
| `analyze_run2_preemptions_trace_missing` | violation | `--run2-preemptions` records the baseline into the user's file. The returned `run2_baseline.preempts` is never written. |
| `analyze_selfcheck_after_search` | violation | After `--search` without `--minimize`, the self-check diffs the log of the first, non-matching run. |
| `analyze_knockout_loop_diverges` | violation | When the knockouts reach the empty record (or the minimizer returns it) and its replay matches, `with_latest_preempt_removed` returns it unchanged and the knockout loop never exits. |
| `analyze_run2_seed_baseline_matches` | violation | `--run2-seed` takes a chaos run as the baseline without looking at its verdict, as spec 4.6 says. Spec 4.7 and 7 require a non-matching baseline. A matching run reaches the bisector. |
| `analyze_final_pass_reproducer_fails` | violation | main re-records the target through `save_final_baseline_sched_events`. That overwrites `final_pass.preempts` with the matching record, so the workspace's "pass" reproducer fails. |
| `bisect_critical_pair` | pass | For all 90x89 endpoint pairs and every oracle, bisection refines `CriticalPair`. The reported stacks are the two racing events, on different threads. |

Every property of a passing run has a mutant in `PROJECT.json`: a plausible
bug in the mapped code that TLC shows breaks the property.

## Bounds

* `Analyze`:
  * Three preemption points. These allow a minimizer that drops some points
    and a knockout loop of up to three rounds, long enough to separate the
    record the loop returns from the one it started with.
  * All 256 oracles, or the 128 in which the empty record does not match.
  * `MaxRounds = 2`, so the search can miss twice, then hit or keep
    searching.
  * All runs use the fixed-point runtime, except `analyze_selfcheck_runtime`
    and `analyze_target_nonfixed_runtime`. Those use the identity plus every runtime that replays one record
    into another (57 runtimes). One deviating record is enough to put the
    checked record, or one the driver replays later, off the fixed point.
* `Bisect`:
  * Three threads of two events: 90 feasible schedules.
  * Chains of up to 12 swaps, so bisection takes up to four replays.
  * `MaxProbes = 6` bounds the probe counter; the bisection of a chain of
    12 swaps needs at most four.

## Fairness

`Analyze` has weak fairness of every step outside the search
(`DriverStep`): the analyzer is a single thread, and each step blocks on one
subprocess, which is assumed to exit. So such a step, once enabled, is taken.

The search has no fairness. `do_search` loops until a round matches, and
nothing in the code makes a round match: whether a fresh `sched_seed` can
produce a matching run is up to the runtime, and `launch_search` does not
even set chaos mode (it relies on `--chaos` among the user's run args). So
`Termination` says only that the driver ends up finished or still searching.

`Bisect` has weak fairness of `Next`, for the same single-thread reason; no
property of its run depends on it.

## Not modelled

* Argument parsing and the `RunOpts` contents.
* Repro-command strings, coloured output and the JSON report.
* stdout and stderr files, and the per-round search and bisect files. These
  are written and never read back.
* The runtime, the log-diff tool and regex matching: only their contracts are
  assumed.
* The runtime deviating from a requested schedule (spec 4.7), and a
  non-deterministic runtime. Non-fixed-point runtimes are modelled; their
  internals are not.
* The composition of `Analyze` with `Bisect`. `search_for_critical_schedule`
  is outside src/, and spec 4.7 says nothing of its behaviour when its
  precondition fails. That is exactly the case a composition would add: a
  matching baseline, as the stripped-baseline finding shows.

## Open work

1. Add `--search` to the non-fixed-point run, if TLC's time allows. With it,
   the run took more than five minutes.
2. Model the minimizer's own search, if its source becomes available. Only
   its contract can be modelled from this repository.
