------------------------ MODULE EarlyPublicationProofs ------------------------
(***************************************************************************)
(* Theorems about EarlyPublication, for any row counts and floors, any     *)
(* number of refreshes, policy updates and kills: typing, that the stable  *)
(* channel always holds the last fully valid dataset, that a consumer is   *)
(* answered with nothing older than what was valid when it began, and that *)
(* what is public shrinks in an early window only when confirmed.  The     *)
(* argument: an early snapshot replaces a stable dataset only after it is  *)
(* in the channel beside it, and from then on the channel is only replaced *)
(* by what is fetched later.                                               *)
(***************************************************************************)
EXTENDS EarlyPublication, TLAPS

Carrying == {"saving", "baseline", "dated", "dataset", "status"}
AtMost(d, t) == d # None => d.at <= t

(* The refresh under way.                                                  *)
RunOK == /\ run.pc \in Carrying => run.data # None /\ run.data.at = run.at
         /\ run.pc = "saving" => ~run.data.early
         /\ run.pc = "dated" => run.data.early
         /\ run.pc # "idle" => AtMost(newest, run.at) /\ AtMost(stable, run.at)
         /\ run.at <= now /\ AtMost(newest, now) /\ AtMost(stable, now)

(* The channel beside the dataset.                                         *)
ChannelOK ==
  /\ stable # None => ~stable.early
  /\ dated # None => ~dated.early
  /\ candidate = None \/ ~candidate.early => candidate = newest
  /\ candidate # None /\ candidate.early /\ newest # None =>
       /\ stable # None /\ stable.at >= newest.at
       /\ candidate.at >= newest.at

(* An early snapshot about to replace a stable dataset.                    *)
Replacing == /\ run.data # None /\ run.data.early
             /\ candidate # None /\ ~candidate.early
ReplaceOK == /\ run.pc \in {"baseline", "dated"} /\ run.data.early => Replacing
             /\ run.pc \in {"dated", "dataset"} /\ Replacing => stable = candidate

ReaderOK ==
  /\ reader.pc \in {"idle", "mode"} => reader.last >= reader.floor
  /\ reader.floor > 0 => newest # None /\ newest.at >= reader.floor
  /\ reader.pc # "idle" /\ reader.floor > 0 =>
       stable # None /\ stable.at >= reader.floor

(* Two observations of one window, apart in time.                          *)
Observed == /\ candidate # None /\ candidate.early /\ candidate.window = run.rev
            /\ run.at >= candidate.at + MinAge
Vetted == run.pc \in {"baseline", "dataset"} /\ run.mode = "early" /\ ~run.data.early =>
            \/ ~Shrinks(Public("stable"), run.data)
            \/ Public("stable") = run.data
            \/ Observed

IInv == TypeOK /\ RunOK /\ ChannelOK /\ ReplaceOK /\ ReaderOK /\ Vetted

-----------------------------------------------------------------------------
LEMMA DatasetFacts ==
  /\ \A d \in Dataset : /\ d # None /\ d.at \in Nat /\ d.rows \in Nat
                        /\ d.early \in BOOLEAN /\ d.window \in Nat
BY EarlyPublicationAssumption DEF Dataset

LEMMA RunType ==
  ASSUME TypeOK
  PROVE  /\ run.pc \in Steps /\ run.mode \in Modes /\ run.rev \in Nat /\ run.at \in Nat
         /\ run.data \in Dataset \cup {None}
         /\ now \in Nat /\ policy.rev \in Nat
BY DEF TypeOK, Run, Policy

LEMMA IdleRun == Idle \in Run /\ Idle.pc = "idle" /\ Idle.at = 0
BY DEF Idle, Run, Steps, Modes

(* The steps that end a refresh, or take it to a step that has nothing.    *)
LEMMA Ending ==
  ASSUME IInv, run' \in Run, run'.pc \in {"idle", "failing"}, run'.at <= run.at,
         run'.at = run.at \/ run'.pc = "idle",
         run.pc # "idle",
         UNCHANGED <<policy, candidate, dated, stable, newest, reader, now>>,
         status' \in Status, kills' \in Nat
  PROVE  IInv'
<1>1. TypeOK'
  BY DEF IInv, TypeOK
<1>2. run'.at \in Nat /\ run.at \in Nat /\ now \in Nat
  BY RunType DEF IInv, Run
<1>3. RunOK'
  BY <1>2 DEF IInv, RunOK, Carrying, AtMost
<1>4. ChannelOK' /\ ReaderOK'
  BY DEF IInv, ChannelOK, ReaderOK
<1>5. ReplaceOK' /\ Vetted'
  BY DEF ReplaceOK, Vetted
<1> QED BY <1>1, <1>3, <1>4, <1>5 DEF IInv

LEMMA StartStep ==
  ASSUME IInv, Start PROVE IInv'
<1>1. /\ run' = [pc |-> "fetching", mode |-> EffectiveMode, rev |-> policy.rev,
                 at |-> now, data |-> None]
      /\ now' = now + 1 /\ now \in Nat /\ policy.rev \in Nat
      /\ UNCHANGED <<policy, candidate, stable, dated, status, newest, reader, kills>>
  BY RunType DEF IInv, Start, files
<1>2. EffectiveMode \in Modes
  BY DEF EffectiveMode, Modes
<1>3. run' \in Run /\ run'.pc = "fetching" /\ run'.at = now
  BY <1>1, <1>2 DEF Run, Steps
<1>4. TypeOK'
  BY <1>1, <1>3 DEF IInv, TypeOK
<1>5. /\ \A d \in {newest, stable} : d # None => d.at \in Nat
  BY DatasetFacts DEF IInv, TypeOK
<1>6. RunOK'
  BY <1>1, <1>3, <1>5 DEF IInv, RunOK, Carrying, AtMost
<1>7. ChannelOK' /\ ReaderOK'
  BY <1>1 DEF IInv, ChannelOK, ReaderOK
<1>8. ReplaceOK' /\ Vetted'
  BY <1>3 DEF ReplaceOK, Vetted
<1> QED BY <1>4, <1>6, <1>7, <1>8 DEF IInv

LEMMA FetchStep ==
  ASSUME IInv, Fetch PROVE IInv'
<1>1. /\ run.pc = "fetching"
      /\ UNCHANGED <<policy, candidate, stable, dated, status, newest, reader, now, kills>>
  BY DEF Fetch, files
<1>2. run \in Run /\ run.at \in Nat
  BY RunType DEF IInv, TypeOK
<1>3. CASE run' = [run EXCEPT !.pc = "failing"]
  <2>1. run' \in Run /\ run'.pc = "failing" /\ run'.at = run.at
    BY <1>2, <1>3 DEF Run, Steps
  <2> QED BY <1>1, <1>2, <2>1, Ending DEF IInv, TypeOK
<1>4. ASSUME NEW n \in Rows,
             run' = [run EXCEPT !.pc = "saving",
                       !.data = [at |-> run.at, rows |-> n, early |-> FALSE,
                                 window |-> 0]]
      PROVE  IInv'
  <2> DEFINE d == [at |-> run.at, rows |-> n, early |-> FALSE, window |-> 0]
  <2>1. d \in Dataset /\ d # None /\ d.at = run.at /\ d.early = FALSE
    <3>1. d \in Dataset
      BY <1>2 DEF Dataset
    <3>2. d.at = run.at /\ d.early = FALSE
      OBVIOUS
    <3> HIDE DEF d
    <3> QED BY <3>1, <3>2, DatasetFacts
  <2>2. run' = [run EXCEPT !.pc = "saving", !.data = d]
    BY <1>4
  <2> HIDE DEF d
  <2>3. /\ run' \in Run /\ run'.pc = "saving" /\ run'.data = d /\ run'.at = run.at
    BY <1>2, <2>1, <2>2 DEF Run, Steps
  <2>4. TypeOK'
    BY <1>1, <2>3 DEF IInv, TypeOK
  <2>5. RunOK'
    BY <1>1, <2>1, <2>3 DEF IInv, RunOK, Carrying, AtMost
  <2>6. ChannelOK' /\ ReaderOK'
    BY <1>1 DEF IInv, ChannelOK, ReaderOK
  <2>7. ReplaceOK' /\ Vetted'
    BY <2>3 DEF ReplaceOK, Vetted
  <2> QED BY <2>4, <2>5, <2>6, <2>7 DEF IInv
<1> QED BY <1>3, <1>4 DEF Fetch

(* What a full publication is compared with is what is public without      *)
(* early mode.                                                             *)
LEMMA StrictIsPublic ==
  ASSUME IInv
  PROVE  Public("stable") = None \/ StrictPrevious = Public("stable")
<1>1. stable # None => ~stable.early
  BY DEF IInv, ChannelOK
<1>2. dated # None => ~dated.early
  BY DEF IInv, ChannelOK
<1>3. CASE candidate = None \/ ~candidate.early
  BY <1>3 DEF Public, StrictPrevious
<1>4. CASE candidate # None /\ candidate.early /\ Baseline = None
  BY <1>4 DEF Public
<1>5. CASE candidate # None /\ candidate.early /\ Baseline # None
  <2>1. Public("stable") = Baseline
    BY <1>1, <1>2, <1>5 DEF Public, Baseline
  <2> DEFINE Is(d) == /\ d # None
                      /\ d # stable => stable = None
                      /\ d \notin {stable, dated} => dated = None
  <2>2. Is(Baseline) /\ Baseline \in {stable, dated, candidate}
    BY <1>5 DEF Baseline
  <2>3. \A d \in {stable, dated, candidate} : Is(d) => d = Baseline
    BY <1>5 DEF Baseline
  <2>4. StrictPrevious = CHOOSE d \in {stable, dated, candidate} : Is(d)
    BY <1>5 DEF StrictPrevious
  <2> HIDE DEF Is
  <2> QED BY <2>1, <2>2, <2>3, <2>4
<1> QED BY <1>3, <1>4, <1>5

LEMMA CheckStep ==
  ASSUME IInv, Check PROVE IInv'
<1>1. /\ run.pc = "saving"
      /\ UNCHANGED <<policy, candidate, stable, dated, status, newest, reader, now, kills>>
  BY DEF Check, files
<1>2. /\ run \in Run /\ run.at \in Nat /\ run.data # None /\ run.data \in Dataset
      /\ run.data.at = run.at /\ run.rev \in Nat
  BY <1>1, RunType DEF IInv, TypeOK, RunOK, Carrying
<1>3. CASE run' = [run EXCEPT !.pc = "failing", !.data = None]
  <2>1. run' \in Run /\ run'.pc = "failing" /\ run'.at = run.at
    BY <1>2, <1>3 DEF Run, Steps
  <2> QED BY <1>1, <1>2, <2>1, Ending DEF IInv, TypeOK
<1>4. CASE run' = [run EXCEPT !.pc = Saving(Provisional),
                     !.data.early = Provisional,
                     !.data.window = PatchWindow]
  <2> DEFINE d == [run.data EXCEPT !.early = Provisional, !.window = PatchWindow]
  <2>1. Provisional \in BOOLEAN /\ PatchWindow \in Nat
    BY <1>2 DEF Provisional, PatchWindow
  <2>2. /\ d \in Dataset /\ d # None /\ d.at = run.at
        /\ d.rows = run.data.rows /\ d.early = Provisional
    BY <1>2, <2>1, EarlyPublicationAssumption DEF Dataset
  <2>3. run' = [run EXCEPT !.pc = Saving(Provisional), !.data = d]
    BY <1>2, <1>4 DEF Run, Dataset
  <2> HIDE DEF d
  <2>4. Saving(Provisional) \in {"dataset", "baseline"}
    BY DEF Saving
  <2>5. /\ run' \in Run /\ run'.pc = Saving(Provisional) /\ run'.data = d
        /\ run'.at = run.at /\ run'.mode = run.mode /\ run'.rev = run.rev
    BY <1>2, <2>2, <2>3, <2>4 DEF Run, Steps
  <2>6. TypeOK'
    BY <1>1, <2>5 DEF IInv, TypeOK
  <2>7. RunOK'
    BY <1>1, <2>2, <2>4, <2>5 DEF IInv, RunOK, Carrying, AtMost
  <2>8. ChannelOK' /\ ReaderOK'
    BY <1>1 DEF IInv, ChannelOK, ReaderOK
  <2>9. ReplaceOK'
    BY <1>1, <2>2, <2>4, <2>5 DEF ReplaceOK, Replacing, Saving
  <2>10. ASSUME run.mode = "early", ~Provisional
         PROVE  ~Shrinks(Public("stable"), run.data) \/ Observed
    <3>1. ~Shrinks(StrictPrevious, run.data) \/ Confirmed
      BY <2>10 DEF Provisional, FullyValid
    <3>2. Confirmed => Observed
      BY DEF Confirmed, Observed
    <3>3. Public("stable") = None => ~Shrinks(Public("stable"), run.data)
      BY DEF Shrinks
    <3> QED BY <3>1, <3>2, <3>3, StrictIsPublic
  <2>11. Public("stable")' = Public("stable") /\ (Observed => Observed')
    BY <1>1, <2>5 DEF Public, Baseline, Observed
  <2>12. Shrinks(Public("stable"), d) <=> Shrinks(Public("stable"), run.data)
    BY <2>2 DEF Shrinks
  <2>13. Shrinks(Public("stable"), run.data)' <=> Shrinks(Public("stable"), d)
    BY <2>11, <2>5 DEF Shrinks
  <2>14. Vetted'
    BY <2>2, <2>5, <2>10, <2>11, <2>12, <2>13 DEF Vetted
  <2> QED BY <2>6, <2>7, <2>8, <2>9, <2>14 DEF IInv
<1> QED BY <1>3, <1>4 DEF Check

(* A step of the refresh that writes one file.                             *)
LEMMA SaveBaselineStep ==
  ASSUME IInv, SaveBaseline PROVE IInv'
<1> DEFINE pc == IF run.data.early THEN "dated" ELSE "dataset"
<1>1. /\ run.pc = "baseline" /\ stable' = Kept
      /\ run' = [run EXCEPT !.pc = pc]
      /\ UNCHANGED <<policy, candidate, dated, status, newest, reader, now, kills>>
  BY DEF SaveBaseline
<1>2. /\ run \in Run /\ run.at \in Nat /\ run.data # None /\ run.data \in Dataset
      /\ run.data.at = run.at
  BY <1>1, RunType DEF IInv, TypeOK, RunOK, Carrying
<1>3. /\ run' \in Run /\ run'.pc = pc /\ run'.data = run.data
      /\ run'.at = run.at /\ run'.mode = run.mode /\ run'.rev = run.rev
  BY <1>1, <1>2 DEF Run, Steps
<1>4. CASE run.data.early
  <2>1. /\ candidate # None /\ ~candidate.early /\ stable' = candidate
        /\ newest = candidate /\ candidate \in Dataset
    BY <1>1, <1>4 DEF IInv, TypeOK, ReplaceOK, Replacing, ChannelOK, Kept
  <2>2. candidate.at \in Nat
    BY <2>1, DatasetFacts
  <2>3. run'.pc = "dated"
    BY <1>3, <1>4
  <2>4. TypeOK'
    BY <1>1, <1>3, <2>1 DEF IInv, TypeOK
  <2>5. RunOK'
    BY <1>1, <1>2, <1>3, <1>4, <2>1, <2>3 DEF IInv, RunOK, Carrying, AtMost
  <2>6. ChannelOK'
    BY <1>1, <2>1 DEF IInv, ChannelOK
  <2>7. ReaderOK'
    BY <1>1, <2>1 DEF IInv, ReaderOK
  <2>8. ReplaceOK'
    BY <1>1, <1>2, <1>3, <1>4, <2>1, <2>3 DEF ReplaceOK, Replacing
  <2>9. Vetted'
    BY <2>3 DEF Vetted
  <2> QED BY <2>4, <2>5, <2>6, <2>7, <2>8, <2>9 DEF IInv
<1>5. CASE ~run.data.early
  <2>1. stable' = run.data /\ run'.pc = "dataset"
    BY <1>1, <1>3, <1>5 DEF Kept
  <2>2. /\ newest # None => newest.at \in Nat /\ newest.at <= run.at
        /\ reader.floor \in Nat /\ run.at <= now
    BY <1>1, DatasetFacts DEF IInv, TypeOK, Reader, RunOK, AtMost
  <2>3. TypeOK'
    BY <1>1, <1>2, <1>3, <2>1 DEF IInv, TypeOK
  <2>4. RunOK'
    BY <1>1, <1>2, <1>3, <2>1, <2>2 DEF IInv, RunOK, Carrying, AtMost
  <2>5. ChannelOK'
    BY <1>1, <1>2, <1>5, <2>1, <2>2 DEF IInv, ChannelOK
  <2>6. ReaderOK'
    BY <1>1, <1>2, <2>1, <2>2 DEF IInv, ReaderOK
  <2>7. ReplaceOK'
    BY <1>3, <1>5, <2>1 DEF ReplaceOK, Replacing
  <2>8. CASE candidate # None /\ candidate.early
    <3>1. Public("stable")' = run'.data
      BY <1>1, <1>2, <1>3, <1>5, <2>1, <2>8 DEF Public, Baseline
    <3> QED BY <3>1, <2>3, <2>4, <2>5, <2>6, <2>7 DEF IInv, Vetted
  <2>9. CASE ~(candidate # None /\ candidate.early)
    <3>1. Public("stable")' = Public("stable")
      BY <1>1, <2>9 DEF Public
    <3>2. Shrinks(Public("stable"), run.data)' <=> Shrinks(Public("stable"), run.data)
      BY <1>3, <3>1 DEF Shrinks
    <3>3. Vetted'
      BY <1>1, <1>3, <1>5, <2>9, <3>1, <3>2 DEF IInv, Vetted, Observed
    <3> QED BY <3>3, <2>3, <2>4, <2>5, <2>6, <2>7 DEF IInv
  <2> QED BY <2>8, <2>9
<1> QED BY <1>4, <1>5

LEMMA SaveDatedStep ==
  ASSUME IInv, SaveDated PROVE IInv'
<1>1. /\ run.pc = "dated" /\ dated' \in {candidate, dated}
      /\ run' = [run EXCEPT !.pc = "dataset"]
      /\ UNCHANGED <<policy, candidate, stable, status, newest, reader, now, kills>>
  BY DEF SaveDated
<1>2. /\ run \in Run /\ run.data # None /\ run.data.early
      /\ candidate # None /\ ~candidate.early
  BY <1>1 DEF IInv, TypeOK, RunOK, Carrying, ReplaceOK, Replacing
<1>3. /\ run' \in Run /\ run'.pc = "dataset" /\ run'.data = run.data
      /\ run'.at = run.at /\ run'.mode = run.mode /\ run'.rev = run.rev
  BY <1>1, <1>2 DEF Run, Steps
<1>4. TypeOK'
  BY <1>1, <1>3 DEF IInv, TypeOK
<1>5. RunOK'
  BY <1>1, <1>2, <1>3 DEF IInv, RunOK, Carrying, AtMost
<1>6. ChannelOK' /\ ReaderOK'
  BY <1>1, <1>2 DEF IInv, ChannelOK, ReaderOK
<1>7. ReplaceOK'
  BY <1>1, <1>2, <1>3 DEF IInv, ReplaceOK, Replacing
<1>8. Vetted'
  BY <1>2, <1>3 DEF Vetted
<1> QED BY <1>4, <1>5, <1>6, <1>7, <1>8 DEF IInv

LEMMA SaveDatasetStep ==
  ASSUME IInv, SaveDataset PROVE IInv'
<1>1. /\ run.pc = "dataset" /\ candidate' = run.data
      /\ newest' = IF run.data.early THEN newest ELSE run.data
      /\ run' = [run EXCEPT !.pc = "status"]
      /\ UNCHANGED <<policy, stable, dated, status, reader, now, kills>>
  BY DEF SaveDataset
<1>2. /\ run \in Run /\ run.at \in Nat /\ run.data # None /\ run.data \in Dataset
      /\ run.data.at = run.at /\ run.at <= now
  BY <1>1, RunType DEF IInv, TypeOK, RunOK, Carrying
<1>3. /\ run' \in Run /\ run'.pc = "status" /\ run'.data = run.data
      /\ run'.at = run.at
  BY <1>1, <1>2 DEF Run, Steps
<1>4. TypeOK'
  BY <1>1, <1>2, <1>3 DEF IInv, TypeOK
<1>5. /\ newest # None => newest.at \in Nat /\ newest.at <= run.at
      /\ reader.floor \in Nat
  BY <1>1, DatasetFacts DEF IInv, TypeOK, Reader, RunOK, AtMost
<1>6. RunOK'
  BY <1>1, <1>2, <1>3 DEF IInv, RunOK, Carrying, AtMost
<1>7. ChannelOK'
  <2>1. CASE ~run.data.early
    BY <1>1, <2>1 DEF IInv, ChannelOK
  <2>2. CASE run.data.early
    <3>1. newest' = newest
      BY <1>1, <2>2
    <3>2. newest # None => stable # None /\ stable.at >= newest.at
      <4>1. CASE candidate # None /\ candidate.early
        BY <4>1 DEF IInv, ChannelOK
      <4>2. CASE candidate = None
        BY <4>2 DEF IInv, ChannelOK
      <4>3. CASE candidate # None /\ ~candidate.early
        BY <1>1, <1>2, <1>5, <2>2, <4>3 DEF IInv, ChannelOK, ReplaceOK, Replacing
      <4> QED BY <4>1, <4>2, <4>3
    <3> QED BY <1>1, <1>2, <1>5, <2>2, <3>1, <3>2 DEF IInv, ChannelOK
  <2> QED BY <2>1, <2>2
<1>8. ReaderOK'
  BY <1>1, <1>2, <1>5 DEF IInv, ReaderOK
<1>9. ReplaceOK' /\ Vetted'
  BY <1>3 DEF ReplaceOK, Vetted
<1> QED BY <1>4, <1>6, <1>7, <1>8, <1>9 DEF IInv

LEMMA EndStep ==
  ASSUME IInv, SaveStatus \/ Fail \/ Kill PROVE IInv'
<1>0. run.at \in Nat /\ kills \in Nat /\ run.pc # "idle" /\ run' = Idle
  BY RunType DEF IInv, TypeOK, SaveStatus, Fail, Kill
<1>1. run' \in Run /\ run'.pc = "idle" /\ run'.at <= run.at
  BY <1>0, IdleRun
<1>2. CASE SaveStatus
  <2>1. status' \in Status /\ kills' \in Nat
    BY <1>0, <1>2 DEF SaveStatus, Status
  <2> QED BY <1>0, <1>1, <1>2, <2>1, Ending DEF SaveStatus
<1>3. CASE Fail
  <2>1. Public(EffectiveMode) # None => Public(EffectiveMode).at \in Nat
    BY DatasetFacts DEF IInv, TypeOK, Public, Baseline
  <2>2. status' \in Status /\ kills' \in Nat
    BY <1>0, <1>3, <2>1 DEF Fail, Status
  <2> QED BY <1>0, <1>1, <1>3, <2>2, Ending DEF Fail
<1>4. CASE Kill
  <2>1. status' \in Status /\ kills' \in Nat
    BY <1>0, <1>4 DEF IInv, TypeOK, Kill, files
  <2> QED BY <1>0, <1>1, <1>4, <2>1, Ending DEF Kill, files
<1> QED BY <1>2, <1>3, <1>4

(* The steps that leave the files and the refresh alone.                   *)
LEMMA FilesAlone ==
  ASSUME IInv, UNCHANGED files, UNCHANGED run, now' \in Nat, now <= now'
  PROVE  RunOK' /\ ChannelOK' /\ ReplaceOK' /\ Vetted'
<1>1. UNCHANGED <<candidate, stable, dated, status, newest>>
  BY DEF files
<1>2. /\ run.at \in Nat /\ now \in Nat
      /\ \A d \in {newest, stable} : d # None => d.at \in Nat
  BY RunType, DatasetFacts DEF IInv, TypeOK
<1>3. RunOK'
  BY <1>1, <1>2 DEF IInv, RunOK, Carrying, AtMost
<1>4. ChannelOK' /\ ReplaceOK'
  BY <1>1 DEF IInv, ChannelOK, ReplaceOK, Replacing
<1>5. Public("stable")' = Public("stable")
  BY <1>1 DEF Public, Baseline
<1>6. Shrinks(Public("stable"), run.data)' <=> Shrinks(Public("stable"), run.data)
  BY <1>5 DEF Shrinks
<1>7. Vetted'
  BY <1>1, <1>5, <1>6 DEF IInv, Vetted, Observed
<1> QED BY <1>3, <1>4, <1>7

LEMMA PolicyAndClock ==
  ASSUME IInv, UpdatePolicy \/ Tick PROVE IInv'
<1>1. /\ UNCHANGED files /\ UNCHANGED <<run, reader, kills>>
      /\ now \in Nat /\ now' \in Nat /\ now <= now'
  BY RunType DEF IInv, UpdatePolicy, Tick
<1>2. policy' \in Policy
  <2>1. CASE UpdatePolicy
    BY <2>1, RunType, EarlyPublicationAssumption DEF IInv, UpdatePolicy, Policy, Modes
  <2>2. CASE Tick
    BY <2>2 DEF IInv, TypeOK, Tick
  <2> QED BY <2>1, <2>2
<1>3. TypeOK'
  BY <1>1, <1>2 DEF IInv, TypeOK, files
<1>4. ReaderOK'
  BY <1>1 DEF IInv, ReaderOK, files
<1> QED BY <1>1, <1>3, <1>4, FilesAlone DEF IInv

LEMMA ReaderStep ==
  ASSUME IInv, ReadDataset \/ ReadMode \/ ReadBaseline PROVE IInv'
<1>1. UNCHANGED files /\ UNCHANGED <<policy, run, now, kills>> /\ now \in Nat
  BY RunType DEF IInv, ReadDataset, ReadMode, ReadBaseline
<1>2. reader \in Reader /\ reader.floor \in Nat /\ reader.last \in Nat
  BY DEF IInv, TypeOK, Reader
<1>3. \A d \in Dataset \cup {None} : AtOf(d) \in Nat /\ (d # None => AtOf(d) = d.at)
  BY DatasetFacts DEF AtOf
<1>4. ASSUME reader' \in Reader PROVE TypeOK'
  BY <1>1, <1>4 DEF IInv, TypeOK, files
<1>5. CASE ReadDataset
  <2> DEFINE pc == IF candidate.early THEN "mode" ELSE "idle"
  <2>1. /\ candidate # None /\ candidate \in Dataset /\ candidate.at \in Nat
        /\ newest \in Dataset \cup {None} /\ AtOf(newest) \in Nat
    BY <1>3, <1>5, DatasetFacts DEF IInv, TypeOK, ReadDataset
  <2>2. reader' = [pc |-> pc, floor |-> AtOf(newest), last |-> candidate.at]
    BY <1>5 DEF ReadDataset
  <2>3. /\ reader' \in Reader /\ reader'.pc = pc /\ reader'.floor = AtOf(newest)
        /\ reader'.last = candidate.at
    BY <2>1, <2>2 DEF Reader
  <2>4. candidate.at >= AtOf(newest)
    BY <2>1 DEF IInv, ChannelOK, AtOf
  <2>5. ReaderOK'
    BY <1>1, <1>3, <2>1, <2>3, <2>4 DEF IInv, ChannelOK, ReaderOK, AtOf, files
  <2> QED BY <1>1, <1>4, <2>3, <2>5, FilesAlone DEF IInv
<1>6. CASE ReadMode
  <2>1. /\ reader.pc = "mode" /\ reader' \in Reader /\ reader'.pc \in {"idle", "baseline"}
        /\ reader'.floor = reader.floor /\ reader'.last = reader.last
    BY <1>2, <1>6 DEF ReadMode, Reader
  <2>2. ReaderOK'
    BY <1>1, <2>1 DEF IInv, ReaderOK, files
  <2> QED BY <1>1, <1>4, <2>1, <2>2, FilesAlone DEF IInv
<1>7. CASE ReadBaseline
  <2> DEFINE last == IF Baseline # None /\ Baseline.early THEN 0 ELSE AtOf(Baseline)
  <2>1. Baseline \in Dataset \cup {None} /\ last \in Nat
    BY <1>3 DEF IInv, TypeOK, Baseline
  <2>2. reader.pc = "baseline" /\ reader' = [reader EXCEPT !.pc = "idle", !.last = last]
    BY <1>7 DEF ReadBaseline
  <2>3. reader.floor > 0 => last >= reader.floor
    BY <1>2, <1>3, <2>1, <2>2 DEF IInv, ReaderOK, ChannelOK, Baseline
  <2> HIDE DEF last
  <2>4. /\ reader' \in Reader /\ reader'.pc = "idle" /\ reader'.floor = reader.floor
        /\ reader'.last = last
    BY <1>2, <2>1, <2>2 DEF Reader
  <2>5. ReaderOK'
    BY <1>1, <1>2, <2>1, <2>3, <2>4 DEF IInv, ReaderOK, files
  <2> QED BY <1>1, <1>4, <2>4, <2>5, FilesAlone DEF IInv
<1> QED BY <1>5, <1>6, <1>7

LEMMA InitLemma == Init => IInv
<1> SUFFICES ASSUME Init PROVE IInv
  OBVIOUS
<1>1. /\ policy \in Policy /\ status \in Status /\ reader \in Reader
      /\ run = Idle /\ stable = None /\ dated = None /\ newest = candidate
      /\ now = 2 /\ kills = 0
  BY DEF Init, Policy, Modes, Status, Reader
<1>2. /\ candidate \in Dataset \cup {None}
      /\ candidate # None => candidate.at = 1 /\ candidate.early = FALSE
  <2> SUFFICES ASSUME candidate # None
               PROVE  candidate \in Dataset /\ candidate.at = 1 /\ candidate.early = FALSE
    OBVIOUS
  <2> DEFINE N == {n \in Rows : n >= StableRows}
             F == {FALSE}
  <2>1. candidate \in [at : {1}, rows : N, early : F, window : {0}]
    BY DEF Init
  <2>2. N \subseteq Rows /\ F \subseteq BOOLEAN /\ \A b \in F : b = FALSE
    BY Zenon
  <2> HIDE DEF N, F
  <2>3. candidate.at = 1 /\ candidate.early \in F
    BY <2>1
  <2>4. candidate \in Dataset
    BY <2>1, <2>2 DEF Dataset
  <2> QED BY <2>2, <2>3, <2>4
<1>3. TypeOK
  BY <1>1, <1>2, IdleRun DEF TypeOK
<1>4. RunOK
  BY <1>1, <1>2, IdleRun DEF RunOK, Carrying, AtMost
<1>5. ChannelOK
  BY <1>1, <1>2 DEF ChannelOK
<1>6. ReplaceOK /\ Vetted
  BY <1>1, IdleRun DEF ReplaceOK, Vetted
<1>7. ReaderOK
  BY DEF Init, ReaderOK
<1> QED BY <1>3, <1>4, <1>5, <1>6, <1>7 DEF IInv

LEMMA NextLemma == IInv /\ [Next]_vars => IInv'
<1> SUFFICES ASSUME IInv, [Next]_vars PROVE IInv'
  OBVIOUS
<1>1. CASE UNCHANGED vars
  <2>1. UNCHANGED files /\ UNCHANGED <<policy, run, reader, now, kills>> /\ now \in Nat
    BY <1>1, RunType DEF IInv, vars, files
  <2>2. TypeOK' /\ ReaderOK'
    BY <2>1 DEF IInv, TypeOK, ReaderOK, files
  <2> QED BY <2>1, <2>2, FilesAlone DEF IInv
<1> QED BY <1>1, PolicyAndClock, StartStep, FetchStep, CheckStep, SaveBaselineStep,
      SaveDatedStep, SaveDatasetStep, EndStep, ReaderStep DEF Next

(* The inductive invariant of the two channels.                            *)
THEOREM Invariance == Spec => []IInv
BY InitLemma, NextLemma, PTL DEF Spec

(* The files, the policy, the refresh and the reader keep their types.     *)
THEOREM TypeCorrect == Spec => []TypeOK
<1>1. IInv => TypeOK
  BY DEF IInv
<1> QED BY <1>1, Invariance, PTL

(* What is public without early mode is never older than the last dataset  *)
(* that was saved as fully valid, wherever a refresh is killed.            *)
THEOREM StableIsNewest == Spec => []StableChannelIsNewest
<1>1. IInv => StableChannelIsNewest
  <2> SUFFICES ASSUME IInv, newest # None
               PROVE  /\ Public("stable") # None
                      /\ ~Public("stable").early
                      /\ Public("stable").at >= newest.at
    BY DEF StableChannelIsNewest
  <2>1. newest.at \in Nat
    BY DatasetFacts DEF IInv, TypeOK
  <2>2. CASE candidate = None \/ ~candidate.early
    BY <2>1, <2>2 DEF IInv, ChannelOK, Public
  <2>3. CASE candidate # None /\ candidate.early
    BY <2>1, <2>3 DEF IInv, ChannelOK, Public, Baseline
  <2> QED BY <2>2, <2>3
<1> QED BY <1>1, Invariance, PTL

(* A consumer's answer, put together from three reads, is not older than   *)
(* the last fully valid dataset of the moment it began.                    *)
THEOREM AnswersCurrent == Spec => []AnswersAreCurrent
<1>1. IInv => AnswersAreCurrent
  BY DEF IInv, ReaderOK, AnswersAreCurrent
<1> QED BY <1>1, Invariance, PTL

(* In an early window the public dataset shrinks only when two             *)
(* observations of the window, apart in time, agree.                       *)
THEOREM ShrinksConfirmed == Spec => ShrinkIsConfirmed
<1>1. ASSUME IInv, [Next]_vars
      PROVE  [run.mode = "early" /\ PublicShrinks =>
                /\ candidate.early /\ candidate.window = run.rev
                /\ run.at >= candidate.at + MinAge]_vars
  <2> DEFINE public == Public("stable")
  <2> SUFFICES ASSUME run.mode = "early", public' # public, Shrinks(public, public')
               PROVE  Observed
    BY DEF PublicShrinks, Observed
  <2>1. CASE SaveBaseline
    <3>1. run.data.early => Replacing
      BY <1>1, <2>1 DEF IInv, ReplaceOK, SaveBaseline
    <3>2. candidate # None /\ candidate.early
      BY <2>1 DEF Public, SaveBaseline
    <3>3. ~run.data.early /\ run.data # None
      BY <1>1, <2>1, <3>1, <3>2 DEF Replacing, IInv, RunOK, Carrying, SaveBaseline
    <3>4. public' = run.data
      BY <2>1, <3>2, <3>3 DEF SaveBaseline, Kept, Public, Baseline
    <3> QED BY <1>1, <2>1, <3>3, <3>4 DEF IInv, Vetted, SaveBaseline
  <2>2. CASE SaveDataset
    <3>1. /\ run.pc = "dataset" /\ candidate' = run.data /\ run.data # None
          /\ UNCHANGED <<stable, dated>>
      BY <1>1, <2>2 DEF IInv, RunOK, Carrying, SaveDataset
    <3>2. CASE ~run.data.early
      <4>1. public' = run.data
        BY <3>1, <3>2 DEF Public
      <4> QED BY <1>1, <3>1, <3>2, <4>1 DEF IInv, Vetted
    <3>3. CASE run.data.early
      <4>1. CASE candidate = None
        BY <4>1 DEF Public, Shrinks
      <4>2. CASE candidate # None /\ candidate.early
        BY <3>1, <3>3, <4>2 DEF Public, Baseline
      <4>3. CASE candidate # None /\ ~candidate.early
        BY <1>1, <3>1, <3>3, <4>3 DEF IInv, ReplaceOK, Replacing, Public, Baseline
      <4> QED BY <4>1, <4>2, <4>3
    <3> QED BY <3>2, <3>3
  <2>3. CASE SaveDated
    <3>1. /\ candidate # None /\ ~candidate.early /\ candidate' = candidate
      BY <1>1, <2>3 DEF IInv, RunOK, ReplaceOK, Replacing, SaveDated
    <3> QED BY <3>1 DEF Public
  <2>4. CASE UNCHANGED <<candidate, stable, dated>>
    BY <2>4 DEF Public, Baseline
  <2>5. ASSUME \/ UpdatePolicy \/ Tick \/ Start \/ Fetch \/ Check
               \/ SaveStatus \/ Fail \/ Kill
               \/ ReadDataset \/ ReadMode \/ ReadBaseline \/ UNCHANGED vars
        PROVE  UNCHANGED <<candidate, stable, dated>>
    BY <2>5 DEF UpdatePolicy, Tick, Start, Fetch, Check, SaveStatus, Fail, Kill,
         ReadDataset, ReadMode, ReadBaseline, vars, files
  <2> HIDE DEF public
  <2> QED BY <1>1, <2>1, <2>2, <2>3, <2>4, <2>5 DEF Next
<1> QED BY <1>1, Invariance, PTL DEF Spec, ShrinkIsConfirmed
=============================================================================
