---------------------------- MODULE MC_Analyze -----------------------------
(* Instantiation of Analyze for TLC: three preemption points, so the       *)
(* minimizer can drop some and phase 4 can knock out up to three in a row. *)
EXTENDS Analyze

MCPoints == {1, 2, 3}

AllVerdicts == [SUBSET MCPoints -> BOOLEAN]

(* The program does not fail without any preemption: the usual case for   *)
(* a concurrency bug, and the one the knockout loop relies on.             *)
VerdictsNeedingPreemption == {v \in AllVerdicts : ~v[{}]}

AllConfigs == Config

(* The runtime the driver assumes: every replay re-executes its record.    *)
FixedPoint == {[r \in SUBSET MCPoints |-> r]}

(* Runtimes that are deterministic but miss the fixed point on one record, *)
(* which replays into another run.                                         *)
OneDeviation ==
  FixedPoint \cup
    {[r \in SUBSET MCPoints |-> IF r = a THEN b ELSE r] :
       a \in SUBSET MCPoints, b \in SUBSET MCPoints}

(* Every command line without --selfcheck and --search: every phase 4     *)
(* branch, from a seed or a --run1-preemptions file, with or without       *)
(* minimization.  The search only changes which record phase 1 keeps.      *)
NoSelfcheckConfigs ==
  {c \in Config : ~c.selfcheck /\ ~c.search /\ c.seqThreads
                  /\ "schedule" \notin {c.run1, c.run2}}

(* --selfcheck from a seed with the default baseline, except the search   *)
(* without minimization, whose stale log is a finding of its own.          *)
SelfcheckConfigs ==
  {c \in Config : c.selfcheck /\ c.run1 = "seed" /\ c.run2 = "none"
                  /\ c.seqThreads /\ (c.search => c.minimize)}

(* Minimization with the default baseline (no --run2 option).                   *)
MinimizeConfigs ==
  {c \in Config : c.minimize /\ c.run2 = "none" /\ c.run1 # "schedule"
                  /\ c.seqThreads}

(* No minimization, default baseline: the stripped record.                 *)
StrippedBaselineConfigs ==
  {c \in Config : ~c.minimize /\ c.run2 = "none" /\ c.run1 = "seed"
                  /\ c.seqThreads /\ ~c.selfcheck}

Run2PreemptsConfigs ==
  {c \in Config : c.run2 = "preempts" /\ c.run1 = "seed" /\ c.seqThreads
                  /\ ~c.selfcheck}

(* --run2-seed: the baseline is a chaos run of its own.                   *)
Run2SeedConfigs ==
  {c \in Config : c.run2 = "seed" /\ c.run1 = "seed" /\ c.seqThreads
                  /\ ~c.selfcheck /\ ~c.search}

(* --search with --selfcheck and no --minimize.                            *)
SearchSelfcheckConfigs ==
  {c \in Config : c.search /\ c.selfcheck /\ ~c.minimize /\ c.run1 = "seed"
                  /\ c.run2 = "none" /\ c.seqThreads}
=============================================================================
