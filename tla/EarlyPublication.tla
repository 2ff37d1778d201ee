-------------------------- MODULE EarlyPublication --------------------------
(***************************************************************************)
(* The two publication channels of a patch-sensitive source: the dataset   *)
(* file, which may hold a small provisional snapshot in an early window,   *)
(* and the stable baseline beside it (app/fetcher.py fetch_source and      *)
(* _save_dataset_with_checks, app/post_patch_policy.py, the publication    *)
(* policy and resolve_public_dataset of app/parser_control.py).  A refresh *)
(* works under the policy it has captured while an administrator changes   *)
(* it, the window expires, readers resolve what is public, and the process *)
(* may be killed between two writes.  The lock of the source               *)
(* (app/resource_locks.py) admits one refresh at a time.  Of a dataset     *)
(* only its size matters here.                                             *)
(***************************************************************************)
EXTENDS Naturals, FiniteSets

CONSTANTS None,
          Rows,        \* sizes of what a scraper may return
          StableRows,  \* the row floor of the stable contract
          EarlyRows,   \* the row floor in an early window
          GateRows,    \* check_dataset_regression: no gate below this size
          KeepTenths,  \* 1 - drop_ratio, in tenths
          MinAge,      \* BASELINE_CONFIRMATION_MIN_AGE
          MaxTime,     \* bound: the clock
          MaxPolicies, \* bound: policy updates
          MaxKills     \* bound: killed refreshes

VARIABLES policy,      \* state["policy"] of the control file
          candidate,   \* datasets/<source>.json
          stable,      \* the baseline "stable-publication"
          dated,       \* the baseline "arena-post-patch-<date>"
          status,      \* statuses/<source>.json
          run,         \* the refresh that holds the lock of the source
          reader,      \* a consumer that resolves the public dataset
          newest,      \* history: the last dataset saved as fully valid
          now, kills

vars == <<policy, candidate, stable, dated, status, run, reader, newest, now, kills>>

Modes == {"early", "stable"}
Dataset == [at : Nat, rows : Rows, early : BOOLEAN, window : Nat]
Policy  == [mode : Modes, until : Nat, rev : Nat]
Steps   == {"idle", "fetching", "saving", "baseline", "dated", "dataset",
            "status", "failing"}
Run     == [pc : Steps, mode : Modes, rev : Nat, at : Nat,
            data : Dataset \cup {None}]
Status  == [kind : {"none", "ok", "provisional", "cached", "failed"}, at : Nat]
Reader  == [pc : {"idle", "mode", "baseline"}, floor : Nat, last : Nat]

Idle == [pc |-> "idle", mode |-> "stable", rev |-> 0, at |-> 0, data |-> None]

(* A source may have been published before it had a stable channel.        *)
Init == /\ policy = [mode |-> "stable", until |-> 0, rev |-> 0]
        /\ candidate \in {None} \cup
             [at : {1}, rows : {n \in Rows : n >= StableRows}, early : {FALSE},
              window : {0}]
        /\ stable = None /\ dated = None
        /\ status = [kind |-> "none", at |-> 0]
        /\ run = Idle
        /\ reader = [pc |-> "idle", floor |-> 0, last |-> 0]
        /\ newest = candidate
        /\ now = 2 /\ kills = 0

files == <<candidate, stable, dated, status, newest>>

-----------------------------------------------------------------------------
(* _policy_view: an early policy ends by itself.                           *)
EffectiveMode ==
  IF policy.mode = "early" /\ now < policy.until THEN "early" ELSE "stable"

(* update_policy: every update has an updatedAt of its own, which is in    *)
(* the token and is the start of the early window.                         *)
UpdatePolicy ==
  /\ policy.rev < MaxPolicies
  /\ \/ \E until \in (now + 1)..(MaxTime + 1) :
          policy' = [mode |-> "early", until |-> until, rev |-> policy.rev + 1]
     \/ policy' = [mode |-> "stable", until |-> 0, rev |-> policy.rev + 1]
  /\ UNCHANGED <<files, run, reader, now, kills>>

Tick == /\ now < MaxTime /\ now' = now + 1
        /\ UNCHANGED <<policy, files, run, reader, kills>>

-----------------------------------------------------------------------------
(* fetch_source captures the policy; fetched_at is taken then.             *)
Start ==
  /\ run.pc = "idle" /\ now < MaxTime
  /\ run' = [pc |-> "fetching", mode |-> EffectiveMode, rev |-> policy.rev,
             at |-> now, data |-> None]
  /\ now' = now + 1
  /\ UNCHANGED <<policy, files, reader, kills>>

(* policy_for under the captured policy.                                   *)
Floor(mode) == IF mode = "early" THEN EarlyRows ELSE StableRows

(* validate_candidate_for_publish.                                         *)
Fetch ==
  /\ run.pc = "fetching"
  /\ \/ run' = [run EXCEPT !.pc = "failing"]
     \/ \E n \in {n \in Rows : n >= Floor(run.mode)} :
          run' = [run EXCEPT !.pc = "saving",
                    !.data = [at |-> run.at, rows |-> n, early |-> FALSE,
                              window |-> 0]]
  /\ UNCHANGED <<policy, files, reader, now, kills>>

(* early_policy_changed_since_capture.                                     *)
PolicyChanged ==
  run.mode = "early" /\ (EffectiveMode # "early" \/ policy.rev # run.rev)

(* check_dataset_regression: the row counts.                               *)
Shrinks(old, new) ==
  /\ old # None
  /\ old.rows >= GateRows
  /\ new.rows < (old.rows * KeepTenths) \div 10

(* What a full publication is compared with in an early window.            *)
StrictPrevious ==
  IF candidate # None /\ candidate.early
  THEN CHOOSE d \in {stable, dated, candidate} :
         /\ d # None
         /\ d # stable => stable = None
         /\ d \notin {stable, dated} => dated = None
  ELSE candidate

(* can_confirm_post_patch_baseline, and the previous observation satisfies *)
(* the stable contract.                                                    *)
Confirmed_AtOnce == candidate # None /\ candidate.early           \* mutant
Confirmed ==
  /\ candidate # None /\ candidate.early
  /\ candidate.window = run.rev
  /\ candidate.rows >= StableRows
  /\ run.data.rows * 10 >= candidate.rows * 9
  /\ run.at >= candidate.at + MinAge

FullyValid ==
  /\ run.data.rows >= StableRows
  /\ ~Shrinks(StrictPrevious, run.data) \/ Confirmed

(* Where the writes begin: an early snapshot first puts the stable dataset *)
(* it is about to replace into the stable channel.                         *)
Saving_Unkept(early) == IF early THEN "dataset" ELSE "baseline"   \* mutant
Saving(early) ==
  IF early /\ (candidate = None \/ candidate.early) THEN "dataset" ELSE "baseline"

Provisional == run.mode = "early" /\ ~FullyValid

(* build_provisional_metadata: the window it is an observation of.         *)
PatchWindow == IF Provisional THEN run.rev ELSE 0

(* _save_dataset_with_checks up to its first write.                        *)
Check ==
  /\ run.pc = "saving"
  /\ \/ /\ PolicyChanged \/ (run.mode = "stable" /\ Shrinks(candidate, run.data))
        /\ run' = [run EXCEPT !.pc = "failing", !.data = None]
     \/ /\ ~PolicyChanged
        /\ run.mode = "stable" => ~Shrinks(candidate, run.data)
        /\ run' = [run EXCEPT !.pc = Saving(Provisional),
                     !.data.early = Provisional,
                     !.data.window = PatchWindow]
  /\ UNCHANGED <<policy, files, reader, now, kills>>

(* save_baseline of the stable channel.                                    *)
Kept_New == run.data                                              \* mutant
Kept == IF run.data.early THEN candidate ELSE run.data
SaveBaseline ==
  /\ run.pc = "baseline"
  /\ stable' = Kept
  /\ run' = [run EXCEPT !.pc = IF run.data.early THEN "dated" ELSE "dataset"]
  /\ UNCHANGED <<policy, candidate, dated, status, newest, reader, now, kills>>

(* save_baseline_once.                                                     *)
SaveDated ==
  /\ run.pc = "dated"
  /\ dated' = IF dated = None THEN candidate ELSE dated
  /\ run' = [run EXCEPT !.pc = "dataset"]
  /\ UNCHANGED <<policy, candidate, stable, status, newest, reader, now, kills>>

SaveDataset ==
  /\ run.pc = "dataset"
  /\ candidate' = run.data
  /\ newest' = IF run.data.early THEN newest ELSE run.data
  /\ run' = [run EXCEPT !.pc = "status"]
  /\ UNCHANGED <<policy, stable, dated, status, reader, now, kills>>

SaveStatus ==
  /\ run.pc = "status"
  /\ status' = [kind |-> IF run.data.early THEN "provisional" ELSE "ok",
                at |-> run.at]
  /\ run' = Idle
  /\ UNCHANGED <<policy, candidate, stable, dated, newest, reader, now, kills>>

(* ParserControlStore.stable_baseline.                                     *)
Baseline == IF stable # None THEN stable ELSE dated

(* resolve_public_dataset.                                                 *)
Public(mode) ==
  IF candidate = None \/ mode = "early" \/ ~candidate.early THEN candidate
  ELSE IF Baseline = None \/ Baseline.early THEN None ELSE Baseline

(* _save_failure_status: the public dataset stays, if the captured policy  *)
(* still finds it valid, and the status says so.                           *)
Fail ==
  LET public == Public(EffectiveMode) IN
  /\ run.pc = "failing"
  /\ status' = IF public # None /\ public.rows >= Floor(run.mode)
               THEN [kind |-> "cached", at |-> public.at]
               ELSE [kind |-> "failed", at |-> run.at]
  /\ run' = Idle
  /\ UNCHANGED <<policy, candidate, stable, dated, newest, reader, now, kills>>

Kill == /\ run.pc # "idle" /\ kills < MaxKills
        /\ kills' = kills + 1
        /\ run' = Idle
        /\ UNCHANGED <<policy, files, reader, now>>

-----------------------------------------------------------------------------
(* load_resolved_public_dataset in a consumer: the dataset, the policy and *)
(* the baseline are three reads.  floor: the last fully valid dataset when *)
(* it began; last: what it answered, 0 when there was nothing to answer.   *)
AtOf(d) == IF d = None THEN 0 ELSE d.at

ReadDataset ==
  /\ reader.pc = "idle" /\ candidate # None
  /\ reader' = [pc |-> IF candidate.early THEN "mode" ELSE "idle",
                floor |-> AtOf(newest), last |-> candidate.at]
  /\ UNCHANGED <<policy, files, run, now, kills>>

ReadMode ==
  /\ reader.pc = "mode"
  /\ reader' = [reader EXCEPT !.pc = IF EffectiveMode = "early" THEN "idle"
                                     ELSE "baseline"]
  /\ UNCHANGED <<policy, files, run, now, kills>>

ReadBaseline ==
  /\ reader.pc = "baseline"
  /\ reader' = [reader EXCEPT !.pc = "idle",
                   !.last = IF Baseline # None /\ Baseline.early THEN 0
                            ELSE AtOf(Baseline)]
  /\ UNCHANGED <<policy, files, run, now, kills>>

Next == \/ UpdatePolicy \/ Tick
        \/ Start \/ Fetch \/ Check \/ SaveBaseline \/ SaveDated \/ SaveDataset
        \/ SaveStatus \/ Fail \/ Kill
        \/ ReadDataset \/ ReadMode \/ ReadBaseline

Spec == Init /\ [][Next]_vars

ASSUME EarlyPublicationAssumption ==
  /\ Rows \subseteq Nat \ {0}
  /\ EarlyRows \in Nat /\ StableRows \in Nat /\ EarlyRows <= StableRows
  /\ GateRows \in Nat /\ KeepTenths \in 0..10
  /\ MinAge \in Nat \ {0}
  /\ MaxTime \in Nat /\ MaxPolicies \in Nat /\ MaxKills \in Nat
  /\ None \notin Dataset

TypeOK ==
  /\ policy \in Policy
  /\ candidate \in Dataset \cup {None}
  /\ stable \in Dataset \cup {None} /\ dated \in Dataset \cup {None}
  /\ status \in Status
  /\ run \in Run
  /\ reader \in Reader
  /\ newest \in Dataset \cup {None}
  /\ now \in Nat /\ kills \in Nat

-----------------------------------------------------------------------------
(* Without early mode the public dataset is the last fully valid one, or   *)
(* one whose save a kill has cut short after it: an early snapshot, or a   *)
(* refresh killed at any point of one, never loses it.                     *)
StableChannelIsNewest ==
  newest # None => /\ Public("stable") # None
                   /\ ~Public("stable").early
                   /\ Public("stable").at >= newest.at

(* A consumer whose three reads the refreshes, the policy and a kill       *)
(* interleave is answered with nothing older than the last fully valid     *)
(* dataset of the moment it began, and is answered when there was one.     *)
AnswersAreCurrent == reader.pc = "idle" => reader.last >= reader.floor

(* What is public outside early mode shrinks past the regression gate in   *)
(* a refresh that works in an early window only after two observations of  *)
(* that window, of consistent size and apart in time.                      *)
PublicShrinks == /\ Public("stable")' # Public("stable")
                 /\ Shrinks(Public("stable"), Public("stable")')

ShrinkIsConfirmed ==
  [][run.mode = "early" /\ PublicShrinks =>
       /\ candidate.early /\ candidate.window = run.rev
       /\ run.at >= candidate.at + MinAge]_vars
=============================================================================
