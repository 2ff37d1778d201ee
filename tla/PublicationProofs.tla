-------------------------- MODULE PublicationProofs --------------------------
(***************************************************************************)
(* Theorems about Publication, for any number of processes, versions,      *)
(* kills and faults: typing, that kept versions have their files, that     *)
(* only the newest attempt moves the pointer and a refresh never moves it  *)
(* back, that the status only advances, that without kills and faults the  *)
(* files agree in the end, and that the store implements PublishedPointer. *)
(* The argument: a process between two durable writes holds the lock, so   *)
(* what it has checked is still so; the number of an attempt is above all  *)
(* numbers before it, also when the file that holds them was lost; and     *)
(* whoever moves the pointer owes the cache and the status, or is followed *)
(* by one that does.                                                       *)
(***************************************************************************)
EXTENDS Publication, FiniteSetTheorems, TLAPS

(* What a process may rely on between the steps of its transaction.        *)
Writing == {"manifest", "prune", "status"}
Promotion(p) == /\ Good(proc[p].ver) /\ proc[p].gen = given
                /\ proc[p].kind = "refresh" /\ Readable
                     => proc[p].ver > manifest.cur
ProcOK(p) ==
  /\ proc[p].pc \in Writing => lock = p
  /\ proc[p].pc \in {"begin", "fetch", "publish", "manifest", "bootCurrent"}
       => proc[p].ver \in Versions
  /\ At(p, "manifest") => Promotion(p)
  /\ proc[p].pc \in Holding \cup {"status"} => proc[p].gen > 0

(* Every attempt counts, also one whose file was lost and found again.     *)
AttemptIsNewest == attempts.state = "good" => attempts.gen = given

IInv == /\ TypeOK /\ KeptHaveFiles /\ Evidence /\ AttemptIsNewest
        /\ \A p \in Procs : ProcOK(p)

-----------------------------------------------------------------------------
(* A finite set of naturals has a greatest element.                        *)
LEMMA GreatestExists ==
  ASSUME NEW S \in SUBSET Nat, IsFiniteSet(S), S # {}
  PROVE  \E v \in S : \A w \in S : w <= v
<1> DEFINE above(u) == {k \in S : u < k}
           T == {above(u) : u \in S}
           R == StrictSubsetOrdering(S)
<1>1. T \subseteq SUBSET S /\ T # {}
  OBVIOUS
<1>2. IsWellFoundedOn(R, SUBSET S)
  BY FS_StrictSubsetOrderingWellFounded, FS_FiniteSubsetsOfFinite
<1>3. PICK x \in T : \A y \in T : ~(<<y, x>> \in R)
  <2> HIDE DEF T, R
  <2> QED BY <1>1, <1>2, WFMin
<1>4. PICK v \in S : x = above(v)
  OBVIOUS
<1>5. ASSUME NEW w \in S, v < w PROVE FALSE
  <2>0. \A u \in S : u \in Nat
    OBVIOUS
  <2>1. w \in Nat /\ v \in Nat /\ ~(w < w) /\ \A k \in S : w < k => v < k
    BY <1>5, <2>0
  <2>2. above(w) \subseteq above(v) /\ w \in above(v) /\ w \notin above(w)
    BY <1>5, <2>1, Zenon
  <2>3. <<above(w), above(v)>> \in R
    BY <2>2 DEF StrictSubsetOrdering
  <2> QED BY <2>3, <1>3, <1>4
<1>6. \A w \in S : w <= v
  <2>1. \A u \in S : u \in Nat
    OBVIOUS
  <2> QED BY <1>5, <2>1
<1> QED BY <1>6

LEMMA GreatestFacts ==
  ASSUME NEW S \in SUBSET Versions
  PROVE  /\ Greatest(S) \in OrNone
         /\ S # {} => Greatest(S) \in S
<1>0. IsFiniteSet(1..MaxVersions)
  BY FS_Interval, PublicationAssumption
<1>1. IsFiniteSet(S) /\ S \in SUBSET Nat
  <2>1. S \in SUBSET (1..MaxVersions)
    BY DEF Versions
  <2>2. IsFiniteSet(S)
    BY <1>0, <2>1, FS_Subset
  <2>3. \A v \in 1..MaxVersions : v \in Nat
    BY PublicationAssumption
  <2> QED BY <2>1, <2>2, <2>3
<1>2. S # {} => Greatest(S) \in S
  BY <1>1, GreatestExists DEF Greatest
<1>3. Versions \subseteq OrNone /\ 0 \in OrNone
  BY PublicationAssumption DEF Versions, OrNone
<1>4. S = {} => Greatest(S) = 0
  BY DEF Greatest
<1> QED BY <1>2, <1>3, <1>4

LEMMA SetFacts ==
  ASSUME proc \in [Procs -> Proc], NEW p \in Procs, NEW r \in Proc, Set(p, r)
  PROVE  /\ proc' \in [Procs -> Proc]
         /\ proc'[p] = r
         /\ \A q \in Procs : q # p => proc'[q] = proc[q]
BY DEF Set

(* The next number is above every number given, lost or not.               *)
LEMMA NextGenFacts ==
  ASSUME TypeOK, Evidence, AttemptIsNewest
  PROVE  NextGen \in Nat /\ NextGen > given /\ NextGen > 0
<1>1. /\ given \in Nat /\ Recorded \in Nat /\ StatusGen \in Nat
      /\ attempts.state \in {"good", "missing", "corrupt"}
      /\ attempts.state = "good" => Recorded = given
  BY DEF TypeOK, Attempts, Status, Recorded, StatusGen, AttemptIsNewest
<1>2. CASE attempts.state = "good"
  BY <1>1, <1>2 DEF NextGen, Larger
<1>3. CASE attempts.state = "corrupt"
  BY <1>1, <1>3 DEF NextGen, Larger
<1>4. CASE attempts.state = "missing"
  BY <1>1, <1>4 DEF NextGen, Larger, Recorded, Evidence
<1> QED BY <1>1, <1>2, <1>3, <1>4

LEMMA WriteAttemptFacts ==
  ASSUME TypeOK, Evidence, AttemptIsNewest, WriteAttempt(NextGen)
  PROVE  /\ attempts' \in Attempts /\ given' \in Nat
         /\ given' = NextGen /\ attempts'.state = "good"
         /\ AttemptIsNewest' /\ Evidence'
<1>1. attempts' = [state |-> "good", gen |-> NextGen] /\ given' = Larger(given, NextGen)
  BY DEF WriteAttempt
<1>2. given \in Nat
  BY DEF TypeOK
<1>3. given' = NextGen
  BY <1>1, <1>2, NextGenFacts DEF Larger
<1> QED BY <1>1, <1>3, NextGenFacts DEF Attempts, AttemptIsNewest, Evidence

(* A step of p leaves what the holder of the lock relies on alone.         *)
LEMMA OthersKeep ==
  ASSUME TypeOK, NEW q \in Procs, ProcOK(q), proc'[q] = proc[q],
         lock = q => UNCHANGED <<lock, version, manifest, given>>
  PROVE  ProcOK(q)'
<1>1. proc[q].pc \in Writing => UNCHANGED <<lock, version, manifest, given>>
  BY DEF ProcOK
<1>2. At(q, "manifest") => proc[q].pc \in Writing
  BY DEF At, Writing
<1>3. Promotion(q) /\ UNCHANGED <<version, manifest, given>> => Promotion(q)'
  BY DEF Promotion, Good, Readable, Versions
<1> QED BY <1>1, <1>2, <1>3 DEF ProcOK, At, Versions

-----------------------------------------------------------------------------
FileTypes == /\ attempts \in Attempts /\ manifest \in Manifest /\ status \in Status
             /\ version \in [Versions -> FileStates] /\ cache \in OrNone
OtherTypes == /\ clock \in OrNone /\ given \in Nat /\ lock \in Procs \cup {None}
              /\ calls \in Nat /\ startups \in Nat /\ faults \in Nat /\ kills \in Nat

LEMMA TypeParts ==
  /\ TypeOK <=> FileTypes /\ OtherTypes /\ proc \in [Procs -> Proc]
  /\ TypeOK' <=> FileTypes' /\ OtherTypes' /\ proc' \in [Procs -> Proc]
BY DEF TypeOK, FileTypes, OtherTypes

(* What is to be shown of a step of p, apart from typing its new record.   *)
LEMMA StepOfProcess ==
  ASSUME IInv, NEW p \in Procs, NEW r \in Proc, Set(p, r),
         FileTypes', OtherTypes', KeptHaveFiles', Evidence', AttemptIsNewest',
         ProcOK(p)',
         \A q \in Procs : q # p /\ lock = q
                            => UNCHANGED <<lock, version, manifest, given>>
  PROVE  IInv'
<1>1. TypeOK'
  BY SetFacts, TypeParts DEF IInv
<1>2. ASSUME NEW q \in Procs, q # p PROVE ProcOK(q)'
  BY <1>2, SetFacts, OthersKeep, TypeParts DEF IInv
<1> QED BY <1>1, <1>2 DEF IInv

LEMMA FilesKept ==
  ASSUME IInv, UNCHANGED files, UNCHANGED given
  PROVE  FileTypes' /\ KeptHaveFiles' /\ Evidence' /\ AttemptIsNewest'
BY DEF IInv, TypeOK, FileTypes, files, KeptHaveFiles, Evidence, AttemptIsNewest,
       StatusGen, Versions, OrNone

(* The steps that write no file and take no lock.                          *)
LEMMA PrivateStep ==
  ASSUME IInv, NEW p \in Procs, NEW r \in Proc, Set(p, r),
         UNCHANGED files, UNCHANGED <<lock, given>>, OtherTypes',
         r.pc \notin Writing,
         r.pc \in {"begin", "fetch", "publish", "bootCurrent"} => r.ver \in Versions,
         r.pc \in Holding => r.gen > 0
  PROVE  IInv'
<1>1. proc'[p] = r
  BY SetFacts DEF IInv, TypeOK
<1>2. ProcOK(p)'
  BY <1>1 DEF ProcOK, Writing, Holding, At, Versions
<1>3. UNCHANGED <<lock, version, manifest, given>>
  BY DEF files
<1> QED BY <1>2, <1>3, FilesKept, StepOfProcess

LEMMA IdleProc == Idle \in Proc /\ Idle.pc = "idle" /\ Idle.gen = 0 /\ Idle.kind = "refresh"
BY PublicationAssumption DEF Idle, Proc, OrNone

LEMMA StartRefreshStep ==
  ASSUME IInv, NEW p \in Procs, StartRefresh(p)
  PROVE  IInv'
<1> DEFINE r == [Idle EXCEPT !.pc = "begin", !.ver = clock + 1]
<1>1. clock + 1 \in Versions /\ clock + 1 \in OrNone
  BY PublicationAssumption DEF IInv, TypeOK, StartRefresh, Versions, OrNone
<1>2. r \in Proc /\ r.pc = "begin" /\ r.ver \in Versions
  BY <1>1, IdleProc DEF Proc
<1>3. OtherTypes'
  BY <1>1 DEF IInv, TypeOK, OtherTypes, StartRefresh, bounds
<1> HIDE DEF r
<1>4. Set(p, r) /\ UNCHANGED files /\ UNCHANGED <<lock, given>>
  BY DEF StartRefresh, r
<1> QED BY <1>2, <1>3, <1>4, PrivateStep DEF Writing, Holding

LEMMA SkipSourceStep ==
  ASSUME IInv, NEW p \in Procs, SkipSource(p)
  PROVE  IInv'
<1> DEFINE r == [Idle EXCEPT !.pc = "report"]
<1>1. r \in Proc /\ r.pc = "report"
  BY IdleProc DEF Proc
<1>2. OtherTypes'
  BY DEF IInv, TypeOK, OtherTypes, SkipSource
<1> HIDE DEF r
<1>3. Set(p, r) /\ UNCHANGED files /\ UNCHANGED <<lock, given>>
  BY DEF SkipSource, r
<1> QED BY <1>1, <1>2, <1>3, PrivateStep DEF Writing, Holding

LEMMA FetchedStep ==
  ASSUME IInv, NEW p \in Procs, Fetched(p)
  PROVE  IInv'
<1>1. PICK pc \in {"publish", "report"} : Set(p, [proc[p] EXCEPT !.pc = pc])
  BY DEF Fetched
<1> DEFINE r == [proc[p] EXCEPT !.pc = pc]
<1>2. proc[p] \in Proc /\ proc[p].ver \in Versions /\ proc[p].gen > 0
  BY DEF IInv, TypeOK, ProcOK, Holding, Fetched, At
<1>3. r \in Proc /\ r.pc = pc /\ r.ver \in Versions /\ r.gen > 0
  BY <1>2 DEF Proc
<1>4. OtherTypes' /\ UNCHANGED files /\ UNCHANGED <<lock, given>>
  BY DEF IInv, TypeOK, OtherTypes, Fetched, bounds
<1> HIDE DEF r
<1>5. Set(p, r)
  BY <1>1 DEF r
<1> QED BY <1>3, <1>4, <1>5, PrivateStep DEF Writing, Holding

LEMMA BootCheckStep ==
  ASSUME IInv, NEW p \in Procs, BootCheck(p)
  PROVE  IInv'
<1> DEFINE r == [Idle EXCEPT !.pc = "bootPointer", !.kind = "boot", !.ok = Readable]
<1>1. Readable \in BOOLEAN
  BY DEF Readable
<1>2. r \in Proc /\ r.pc = "bootPointer"
  BY <1>1, IdleProc DEF Proc
<1>3. OtherTypes' /\ UNCHANGED files /\ UNCHANGED <<lock, given>>
  BY DEF IInv, TypeOK, OtherTypes, BootCheck
<1> HIDE DEF r
<1>4. Set(p, r)
  BY DEF BootCheck, r
<1> QED BY <1>2, <1>3, <1>4, PrivateStep DEF Writing, Holding

LEMMA BootPointerStep ==
  ASSUME IInv, NEW p \in Procs, BootPointer(p)
  PROVE  IInv'
<1> DEFINE pointer == IF manifest.state = "good" THEN manifest.cur ELSE 0
           scan == [proc[p] EXCEPT !.pc = "bootScan", !.base = pointer]
           r == IF pointer # 0 /\ ~proc[p].ok THEN Idle ELSE scan
<1>1. proc[p] \in Proc /\ pointer \in OrNone
  BY PublicationAssumption DEF IInv, TypeOK, Manifest, OrNone
<1>2. scan \in Proc /\ scan.pc = "bootScan"
  BY <1>1 DEF Proc
<1>3. r \in Proc /\ r.pc \in {"idle", "bootScan"}
  BY <1>2, IdleProc
<1>4. OtherTypes' /\ UNCHANGED files /\ UNCHANGED <<lock, given>>
  BY DEF IInv, TypeOK, OtherTypes, BootPointer, bounds
<1>5. Set(p, r)
  BY DEF BootPointer
<1> HIDE DEF r
<1> QED BY <1>3, <1>4, <1>5, PrivateStep DEF Writing, Holding

LEMMA BootScanStep ==
  ASSUME IInv, NEW p \in Procs, BootScan(p)
  PROVE  IInv'
<1>1. PICK found \in SUBSET (Valid \cup ({cache} \ {0})) :
        Set(p, IF found = {} THEN Idle
               ELSE [proc[p] EXCEPT !.ver = Greatest(found),
                        !.pc = IF proc[p].base # 0 THEN "bootCurrent" ELSE "begin",
                        !.base = Greatest(Others(found))])
  BY DEF BootScan
<1> DEFINE next == [proc[p] EXCEPT !.ver = Greatest(found),
                            !.pc = IF proc[p].base # 0 THEN "bootCurrent" ELSE "begin",
                            !.base = Greatest(Others(found))]
           r == IF found = {} THEN Idle ELSE next
<1>2. proc[p] \in Proc /\ found \in SUBSET Versions
  <2>1. cache \in OrNone /\ (cache # 0 => cache \in Versions)
    BY PublicationAssumption DEF IInv, TypeOK, OrNone, Versions
  <2> QED BY <2>1 DEF IInv, TypeOK, Valid
<1>3. Others(found) \in SUBSET Versions
  BY <1>2 DEF Others
<1>4. /\ Greatest(found) \in OrNone /\ Greatest(Others(found)) \in OrNone
      /\ found # {} => Greatest(found) \in Versions
  BY <1>2, <1>3, GreatestFacts
<1>5. /\ next \in Proc /\ next.pc \in {"bootCurrent", "begin"}
      /\ next.ver = Greatest(found)
  BY <1>2, <1>4 DEF Proc
<1>6. /\ r \in Proc /\ r.pc \in {"idle", "bootCurrent", "begin"}
      /\ r.pc # "idle" => r.ver \in Versions
  BY <1>4, <1>5, IdleProc
<1>7. OtherTypes' /\ UNCHANGED files /\ UNCHANGED <<lock, given>>
  BY DEF IInv, TypeOK, OtherTypes, BootScan, bounds
<1>8. Set(p, r)
  BY <1>1
<1> HIDE DEF r
<1> QED BY <1>6, <1>7, <1>8, PrivateStep DEF Writing, Holding

LEMMA BootCurrentStep ==
  ASSUME IInv, NEW p \in Procs, BootCurrent(p)
  PROVE  IInv'
<1> DEFINE next == [proc[p] EXCEPT !.pc = "begin"]
           r == IF Readable /\ proc[p].ver <= manifest.cur THEN Idle ELSE next
<1>1. proc[p] \in Proc /\ proc[p].ver \in Versions
  BY DEF IInv, TypeOK, ProcOK, BootCurrent, At
<1>2. next \in Proc /\ next.pc = "begin" /\ next.ver \in Versions
  BY <1>1 DEF Proc
<1>3. /\ r \in Proc /\ r.pc \in {"idle", "begin"}
      /\ r.pc = "begin" => r.ver \in Versions
  BY <1>2, IdleProc
<1>4. OtherTypes' /\ UNCHANGED files /\ UNCHANGED <<lock, given>>
  BY DEF IInv, TypeOK, OtherTypes, BootCurrent, bounds
<1>5. Set(p, r)
  BY DEF BootCurrent
<1> HIDE DEF r
<1> QED BY <1>3, <1>4, <1>5, PrivateStep DEF Writing, Holding

-----------------------------------------------------------------------------
(* The steps that write.                                                   *)
LEMMA BeginStep ==
  ASSUME IInv, NEW p \in Procs, Begin(p)
  PROVE  IInv'
<1> DEFINE r == [proc[p] EXCEPT !.gen = NextGen,
                   !.pc = IF proc[p].kind = "boot" THEN "publish" ELSE "fetch"]
<1>1. proc[p] \in Proc /\ proc[p].ver \in Versions
  BY DEF IInv, TypeOK, ProcOK, Begin, At
<1>2. WriteAttempt(NextGen) /\ NextGen \in Nat /\ NextGen > 0
  BY NextGenFacts DEF IInv, Begin
<1>3. attempts' \in Attempts /\ given' \in Nat /\ AttemptIsNewest' /\ Evidence'
  BY <1>2, WriteAttemptFacts DEF IInv
<1>4. r \in Proc /\ r.pc \in {"publish", "fetch"} /\ r.ver \in Versions /\ r.gen > 0
  BY <1>1, <1>2 DEF Proc
<1>5. Set(p, r)
  BY DEF Begin
<1> HIDE DEF r
<1>6. proc'[p] = r
  BY <1>4, <1>5, SetFacts DEF IInv, TypeOK
<1>7. ProcOK(p)'
  BY <1>4, <1>6 DEF ProcOK, Writing, Holding, At, Versions
<1>8. FileTypes' /\ OtherTypes' /\ KeptHaveFiles'
  BY <1>3 DEF IInv, TypeOK, FileTypes, OtherTypes, KeptHaveFiles, Begin, bounds,
              Versions, OrNone
<1>9. \A q \in Procs : lock # q
  BY PublicationAssumption DEF Begin
<1> QED BY <1>3, <1>4, <1>5, <1>7, <1>8, <1>9, StepOfProcess

LEMMA RejectedType ==
  ASSUME IInv, NEW p \in Procs
  PROVE  Rejected(p) \in Proc /\ Rejected(p).pc \in {"idle", "report"}
<1> DEFINE r == [proc[p] EXCEPT !.pc = "report", !.ok = FALSE]
<1>1. r \in Proc /\ r.pc = "report"
  BY DEF IInv, TypeOK, Proc
<1> QED BY <1>1, IdleProc DEF Rejected

(* The candidate that is promoted is new and of the newest attempt.        *)
LEMMA PublishStep ==
  ASSUME IInv, NEW p \in Procs, Publish(p)
  PROVE  IInv'
<1>1. CASE /\ Set(p, Rejected(p))
           /\ UNCHANGED <<version, lock, faults>>
  <2>1. OtherTypes' /\ UNCHANGED files /\ UNCHANGED <<lock, given>>
    BY <1>1 DEF IInv, TypeOK, OtherTypes, Publish, files
  <2> QED BY <1>1, <2>1, RejectedType, PrivateStep DEF Writing, Holding
<1>2. CASE /\ ~Obsolete(p) /\ Newest(p)
           /\ version[proc[p].ver] # "corrupt"
           /\ version' = [version EXCEPT ![proc[p].ver] = "good"]
           /\ lock' = p
           /\ Set(p, [proc[p] EXCEPT !.pc = "manifest"])
           /\ UNCHANGED faults
  <2> DEFINE r == [proc[p] EXCEPT !.pc = "manifest"]
  <2>1. /\ proc[p] \in Proc /\ proc[p].ver \in Versions
        /\ version \in [Versions -> FileStates]
        /\ UNCHANGED <<attempts, manifest, status, cache, clock, given>>
        /\ manifest \in Manifest
    BY DEF IInv, TypeOK, ProcOK, Publish, At
  <2>2. /\ r \in Proc /\ r.pc = "manifest" /\ r.ver = proc[p].ver
        /\ r.gen = proc[p].gen /\ r.kind = proc[p].kind
    BY <2>1 DEF Proc
  <2> HIDE DEF r
  <2>3. proc'[p] = r
    BY <1>2, <2>2, SetFacts DEF IInv, TypeOK, r
  <2>4. /\ version' \in [Versions -> FileStates] /\ version'[r.ver] = "good"
        /\ \A v \in Versions : v # r.ver => version'[v] = version[v]
    BY <1>2, <2>1, <2>2 DEF FileStates
  <2>5. r.gen = given /\ r.gen > 0
    BY <1>2, <2>1, <2>2 DEF IInv, TypeOK, Attempts, Newest, AttemptIsNewest
  <2>6. Readable' => Readable
    BY <1>2, <2>1, <2>2, <2>4 DEF IInv, KeptHaveFiles, Readable, Good, Versions,
                                  FileStates, Manifest
  <2>7. r.kind = "refresh" /\ Readable => r.ver > manifest.cur
    <3>1. ASSUME r.kind = "refresh", Readable
          PROVE  Previous(p) = manifest.cur /\ manifest.cur \in Versions
      BY <3>1, <2>2 DEF Previous, Readable, Good
    <3>2. \A v \in Versions : v \in Nat /\ v # 0
      BY PublicationAssumption DEF Versions
    <3> QED BY <1>2, <2>1, <2>2, <3>1, <3>2 DEF Obsolete
  <2>8. Promotion(p)'
    BY <2>1, <2>2, <2>3, <2>4, <2>5, <2>6, <2>7 DEF Promotion, Good, Versions
  <2>9. ProcOK(p)'
    BY <1>2, <2>1, <2>2, <2>3, <2>5, <2>8 DEF ProcOK, At, Writing, Holding, Versions
  <2>10. KeptHaveFiles'
    BY <2>1, <2>2, <2>4 DEF IInv, KeptHaveFiles, Manifest
  <2>11. FileTypes' /\ OtherTypes' /\ Evidence' /\ AttemptIsNewest'
    BY <1>2, <2>1, <2>4 DEF IInv, TypeOK, FileTypes, OtherTypes, Evidence,
          AttemptIsNewest, Publish, StatusGen, Versions, OrNone
  <2>12. \A q \in Procs : lock # q
    BY PublicationAssumption DEF Publish
  <2>13. Set(p, r)
    BY <1>2 DEF r
  <2> QED BY <2>2, <2>9, <2>10, <2>11, <2>12, <2>13, StepOfProcess
<1> QED BY <1>1, <1>2 DEF Publish

(* Nothing is named that is not there: the new version and old ones whose  *)
(* files are good.                                                         *)
LEMMA WriteManifestStep ==
  ASSUME IInv, NEW p \in Procs, WriteManifest(p)
  PROVE  IInv'
<1> DEFINE r == [proc[p] EXCEPT !.pc = "prune"]
<1>1. /\ proc[p] \in Proc /\ proc[p].ver \in Versions /\ lock = p
      /\ version[proc[p].ver] = "good"
      /\ UNCHANGED <<attempts, version, status, cache, lock, clock, given, bounds>>
  BY DEF IInv, TypeOK, ProcOK, WriteManifest, At, Promotion, Good, Writing
<1>2. r \in Proc /\ r.pc = "prune"
  BY <1>1 DEF Proc
<1>3. PICK old \in SUBSET History(p) :
        manifest' = [state |-> "good", cur |-> proc[p].ver,
                     kept |-> old \cup {proc[p].ver}]
  BY DEF WriteManifest
<1>4. \A v \in old : v \in Versions /\ version[v] = "good"
  BY DEF History, Good
<1>5. manifest' \in Manifest /\ KeptHaveFiles'
  BY <1>1, <1>3, <1>4, PublicationAssumption
     DEF Manifest, KeptHaveFiles, FileStates, Versions, OrNone
<1>6. Set(p, r)
  BY DEF WriteManifest
<1> HIDE DEF r
<1>7. ProcOK(p)'
  BY <1>1, <1>2, <1>6, SetFacts DEF IInv, TypeOK, ProcOK, At, Writing, Holding, Versions
<1>8. manifest'.state = "good"
  BY <1>3
<1>9. FileTypes' /\ OtherTypes' /\ Evidence' /\ AttemptIsNewest'
  BY <1>1, <1>5, <1>8 DEF IInv, TypeOK, FileTypes, OtherTypes, Evidence,
        AttemptIsNewest, StatusGen, bounds, Versions, OrNone
<1> QED BY <1>1, <1>2, <1>5, <1>6, <1>7, <1>9, StepOfProcess

LEMMA WriteFailsStep ==
  ASSUME IInv, NEW p \in Procs, WriteFails(p)
  PROVE  IInv'
<1> DEFINE r == IF proc[p].kind = "refresh" THEN Rejected(p) ELSE Idle
<1>1. lock = p /\ UNCHANGED files /\ given' = given
  BY DEF IInv, ProcOK, WriteFails, At, Writing
<1>2. r \in Proc /\ r.pc \in {"idle", "report"}
  BY RejectedType, IdleProc
<1>3. Set(p, r)
  BY DEF WriteFails
<1> HIDE DEF r
<1>4. ProcOK(p)'
  BY <1>2, <1>3, SetFacts DEF IInv, TypeOK, ProcOK, At, Writing, Holding, Versions
<1>5. OtherTypes'
  BY DEF IInv, TypeOK, OtherTypes, WriteFails
<1> QED BY <1>1, <1>2, <1>3, <1>4, <1>5, FilesKept, StepOfProcess

(* Only files that the manifest does not name are unlinked.                *)
LEMMA PruneStep ==
  ASSUME IInv, NEW p \in Procs, Prune(p)
  PROVE  IInv'
<1> DEFINE done == [proc[p] EXCEPT !.pc = "report", !.ok = TRUE]
           r == IF proc[p].kind = "boot" THEN Idle ELSE done
<1>1. /\ proc[p] \in Proc /\ lock = p
      /\ UNCHANGED <<attempts, manifest, status, cache, clock, given, bounds>>
  BY DEF IInv, TypeOK, ProcOK, Prune, At, Writing
<1>2. done \in Proc /\ done.pc = "report"
  BY <1>1 DEF Proc
<1>3. r \in Proc /\ r.pc \in {"idle", "report"}
  BY <1>2, IdleProc
<1>4. PICK gone \in {{}, Unneeded} :
        version' = [v \in Versions |-> IF v \in gone THEN "missing" ELSE version[v]]
  BY DEF Prune
<1>5. version' \in [Versions -> FileStates]
  BY <1>4 DEF IInv, TypeOK, FileStates
<1>6. KeptHaveFiles'
  BY <1>1, <1>4 DEF IInv, TypeOK, KeptHaveFiles, Unneeded, Manifest
<1>7. Set(p, r)
  BY DEF Prune
<1> HIDE DEF r
<1>8. ProcOK(p)'
  BY <1>3, <1>7, SetFacts DEF IInv, TypeOK, ProcOK, At, Writing, Holding, Versions
<1>9. FileTypes' /\ OtherTypes' /\ Evidence' /\ AttemptIsNewest'
  <2>1. lock' \in Procs \cup {None}
    BY DEF Prune
  <2> QED BY <1>1, <1>5, <2>1 DEF IInv, TypeOK, FileTypes, OtherTypes, Evidence,
        AttemptIsNewest, StatusGen, bounds, Versions, OrNone
<1> QED BY <1>1, <1>3, <1>6, <1>7, <1>8, <1>9, StepOfProcess

-----------------------------------------------------------------------------
LEMMA AllocateFacts ==
  ASSUME IInv, NEW p \in Procs, Allocate(p)
  PROVE  /\ attempts' \in Attempts /\ given' \in Nat /\ AttemptIsNewest'
         /\ GenOf(p) \in Nat /\ GenOf(p) > 0
         /\ attempts'.state = "good" \/ UNCHANGED <<attempts, given>>
<1>1. proc[p].gen \in Nat
  BY DEF IInv, TypeOK, Proc
<1>2. CASE proc[p].gen = 0
  <2>1. WriteAttempt(NextGen) /\ GenOf(p) = NextGen
    BY <1>2 DEF Allocate, GenOf
  <2> QED BY <2>1, NextGenFacts, WriteAttemptFacts DEF IInv
<1>3. CASE proc[p].gen # 0
  <2>1. UNCHANGED <<attempts, given>> /\ GenOf(p) = proc[p].gen
    BY <1>3 DEF Allocate, GenOf
  <2> QED BY <1>1, <1>3, <2>1 DEF IInv, TypeOK, AttemptIsNewest
<1> QED BY <1>2, <1>3

LEMMA SyncCacheStep ==
  ASSUME IInv, NEW p \in Procs, Free(p), SyncCache(p)
  PROVE  IInv'
<1>1. PICK written \in {0, 1} :
        Set(p, [proc[p] EXCEPT !.pc = "status", !.gen = GenOf(p), !.base = written])
  BY DEF SyncCache
<1> DEFINE r == [proc[p] EXCEPT !.pc = "status", !.gen = GenOf(p), !.base = written]
<1>2. /\ Allocate(p) /\ lock' = p /\ faults' \in Nat
      /\ cache' \in {cache, manifest.cur}
      /\ UNCHANGED <<version, manifest, status, clock, calls, startups, kills>>
  BY DEF IInv, TypeOK, SyncCache, Served
<1>3. /\ proc[p] \in Proc /\ written \in OrNone
      /\ cache \in OrNone /\ manifest.cur \in OrNone
  BY PublicationAssumption DEF IInv, TypeOK, Manifest, OrNone
<1>4. r \in Proc /\ r.pc = "status" /\ r.gen = GenOf(p)
  BY <1>2, <1>3, AllocateFacts DEF Proc
<1>5. Set(p, r)
  BY <1>1
<1> HIDE DEF r
<1>6. ProcOK(p)'
  BY <1>2, <1>4, <1>5, AllocateFacts, SetFacts
     DEF IInv, TypeOK, ProcOK, At, Writing, Holding, Versions
<1>7. FileTypes' /\ OtherTypes' /\ KeptHaveFiles' /\ Evidence' /\ AttemptIsNewest'
  BY <1>2, <1>3, AllocateFacts DEF IInv, TypeOK, FileTypes, OtherTypes, Evidence,
        KeptHaveFiles, StatusGen, Versions, OrNone
<1>8. \A q \in Procs : q # p => lock # q
  BY PublicationAssumption DEF Free
<1> QED BY <1>4, <1>5, <1>6, <1>7, <1>8, StepOfProcess

LEMMA CannotSyncStep ==
  ASSUME IInv, NEW p \in Procs, Free(p), CannotSync(p)
  PROVE  IInv'
<1> DEFINE cold == [proc[p] EXCEPT !.pc = "record"]
           r == IF proc[p].ok THEN Idle ELSE cold
<1>1. /\ Allocate(p) /\ lock' = None
      /\ UNCHANGED <<version, manifest, status, cache, clock, bounds>>
  BY DEF CannotSync
<1>2. cold \in Proc /\ cold.pc = "record"
  BY DEF IInv, TypeOK, Proc
<1>3. r \in Proc /\ r.pc \in {"idle", "record"}
  BY <1>2, IdleProc
<1>4. Set(p, r)
  BY DEF CannotSync
<1> HIDE DEF r
<1>5. ProcOK(p)'
  BY <1>3, <1>4, SetFacts DEF IInv, TypeOK, ProcOK, At, Writing, Holding, Versions
<1>6. FileTypes' /\ OtherTypes' /\ KeptHaveFiles' /\ Evidence' /\ AttemptIsNewest'
  BY <1>1, AllocateFacts DEF IInv, TypeOK, FileTypes, OtherTypes, Evidence,
        KeptHaveFiles, StatusGen, bounds, Versions, OrNone
<1>7. \A q \in Procs : q # p => lock # q
  BY PublicationAssumption DEF Free
<1> QED BY <1>3, <1>4, <1>5, <1>6, <1>7, StepOfProcess

(* The generation and the failure that a report writes.                    *)
LEMMA ReportedStatus ==
  ASSUME IInv, NEW p \in Procs, At(p, "status")
  PROVE  /\ AppliedGen(p) \in Nat /\ SaysFailed(p) \in BOOLEAN
         /\ StatusGen \in Nat /\ AppliedGen(p) >= StatusGen
         /\ StatusGen > 0 \/ ~Preserved(p) => AppliedGen(p) > 0
         /\ proc[p].gen < StatusGen => Superseded(p)
<1>1. /\ proc[p].gen \in Nat /\ proc[p].gen > 0 /\ proc[p].ok \in BOOLEAN
      /\ StatusGen \in Nat /\ Latest(p) \in Nat /\ status.failed \in BOOLEAN
  BY DEF IInv, TypeOK, Proc, ProcOK, At, StatusGen, Status, Latest, Attempts
<1>2. SaysFailed(p) \in BOOLEAN
  BY <1>1 DEF SaysFailed
<1>3. proc[p].gen < StatusGen => Superseded(p)
  BY <1>1 DEF Superseded, Larger
<1>4. ~Superseded(p) => proc[p].gen >= StatusGen
  BY <1>1 DEF Superseded, Larger
<1>5. Preserved(p) => AppliedGen(p) = StatusGen
  BY DEF AppliedGen
<1>6. ~Preserved(p) => AppliedGen(p) \in Nat /\ AppliedGen(p) >= StatusGen /\ AppliedGen(p) > 0
  BY <1>1, <1>4 DEF AppliedGen, Larger
<1> QED BY <1>1, <1>2, <1>3, <1>5, <1>6

LEMMA WriteStatusStep ==
  ASSUME IInv, NEW p \in Procs, WriteStatus(p)
  PROVE  IInv'
<1>1. /\ lock = p /\ At(p, "status") /\ lock' = None /\ Set(p, Idle)
      /\ UNCHANGED <<attempts, version, manifest, cache, clock, given, calls, startups, kills>>
  BY DEF IInv, ProcOK, WriteStatus, At, Writing
<1>2. manifest.cur \in OrNone /\ faults' \in Nat
  BY DEF IInv, TypeOK, Manifest, WriteStatus
<1>3. status' \in Status /\ (StatusGen > 0 => StatusGen' > 0)
  <2>1. CASE status' = [state |-> "good", gen |-> AppliedGen(p),
                        ver |-> manifest.cur, failed |-> SaysFailed(p)]
    BY <1>1, <1>2, <2>1, ReportedStatus DEF Status, StatusGen, FileStates
  <2>2. CASE UNCHANGED status
    BY <2>2 DEF IInv, TypeOK, StatusGen
  <2> QED BY <2>1, <2>2 DEF WriteStatus
<1>4. ProcOK(p)'
  BY <1>1, IdleProc, SetFacts DEF IInv, TypeOK, ProcOK, At, Writing, Holding, Versions
<1>5. FileTypes' /\ OtherTypes' /\ KeptHaveFiles' /\ Evidence' /\ AttemptIsNewest'
  BY <1>1, <1>2, <1>3 DEF IInv, TypeOK, FileTypes, OtherTypes, Evidence,
        KeptHaveFiles, AttemptIsNewest, Versions, OrNone
<1> QED BY <1>1, <1>4, <1>5, IdleProc, StepOfProcess

LEMMA RecordStep ==
  ASSUME IInv, NEW p \in Procs, Record(p)
  PROVE  IInv'
<1>1. CASE SyncCache(p)
  BY <1>1, SyncCacheStep DEF Record, Free
<1>2. CASE /\ ~Readable
           /\ Allocate(p)
           /\ IF GenOf(p) < Larger(StatusGen, Recorded) THEN UNCHANGED status
              ELSE status' = [state |-> "good", gen |-> GenOf(p), ver |-> 0,
                              failed |-> TRUE]
           /\ Set(p, Idle)
           /\ UNCHANGED <<version, manifest, cache, lock, clock, bounds>>
  <2>1. status' \in Status /\ (StatusGen > 0 => StatusGen' > 0)
    <3>1. CASE status' = [state |-> "good", gen |-> GenOf(p), ver |-> 0,
                          failed |-> TRUE]
      BY <1>2, <3>1, AllocateFacts, PublicationAssumption
         DEF Status, StatusGen, FileStates, OrNone
    <3>2. CASE UNCHANGED status
      BY <3>2 DEF IInv, TypeOK, StatusGen
    <3> QED BY <1>2, <3>1, <3>2
  <2>2. ProcOK(p)'
    BY <1>2, IdleProc, SetFacts DEF IInv, TypeOK, ProcOK, At, Writing, Holding, Versions
  <2>3. FileTypes' /\ OtherTypes' /\ KeptHaveFiles' /\ Evidence' /\ AttemptIsNewest'
    BY <1>2, <2>1, AllocateFacts DEF IInv, TypeOK, FileTypes, OtherTypes, Evidence,
          KeptHaveFiles, bounds, Versions, OrNone
  <2>4. \A q \in Procs : lock # q
    BY PublicationAssumption DEF Record
  <2> QED BY <1>2, <2>2, <2>3, <2>4, IdleProc, StepOfProcess
<1> QED BY <1>1, <1>2 DEF Record

LEMMA RollbackStep ==
  ASSUME IInv, NEW p \in Procs, Rollback(p)
  PROVE  IInv'
<1>1. /\ WriteAttempt(NextGen) /\ lock = None /\ calls' \in Nat
      /\ UNCHANGED <<version, manifest, status, cache, clock, startups, faults, kills>>
  <2>1. calls' = calls + 1
    BY Zenon DEF Rollback
  <2>2. WriteAttempt(NextGen) /\ lock = None
    BY Zenon DEF Rollback
  <2>3. UNCHANGED <<version, manifest, status, cache, clock, startups, faults, kills>>
    BY Zenon DEF Rollback
  <2> QED BY <2>1, <2>2, <2>3 DEF IInv, TypeOK
<1>2. /\ attempts' \in Attempts /\ given' \in Nat /\ AttemptIsNewest' /\ Evidence'
      /\ given' = NextGen /\ NextGen \in Nat /\ NextGen > 0
  BY <1>1, NextGenFacts, WriteAttemptFacts DEF IInv
<1>3. KeptHaveFiles' /\ FileTypes'
  BY <1>1, <1>2 DEF IInv, TypeOK, FileTypes, KeptHaveFiles, Versions, OrNone
<1>4. \A q \in Procs : lock # q
  BY <1>1, PublicationAssumption
<1>5. CASE UNCHANGED <<lock, proc>>
  <2>1. proc[p] \in Proc /\ Set(p, proc[p]) /\ proc[p].pc = "idle"
    BY <1>5 DEF IInv, TypeOK, Set, Rollback, At
  <2>2. ProcOK(p)' /\ OtherTypes'
    BY <1>1, <1>2, <1>5, <2>1
       DEF IInv, TypeOK, OtherTypes, ProcOK, At, Writing, Holding, Versions
  <2> QED BY <1>2, <1>3, <1>4, <2>1, <2>2, StepOfProcess
<1>6. ASSUME NEW v \in manifest.kept \ {manifest.cur}, Good(v), lock' = p,
             Set(p, [Idle EXCEPT !.pc = "manifest", !.kind = "rollback",
                                 !.gen = NextGen, !.ver = v])
      PROVE  IInv'
  <2> DEFINE r == [Idle EXCEPT !.pc = "manifest", !.kind = "rollback",
                               !.gen = NextGen, !.ver = v]
  <2>1. v \in Versions /\ v \in OrNone /\ version[v] = "good"
    BY <1>6, PublicationAssumption DEF Good, Versions, OrNone
  <2>2. /\ r \in Proc /\ r.pc = "manifest" /\ r.kind = "rollback"
        /\ r.gen = NextGen /\ r.ver = v
    BY <1>2, <2>1, IdleProc DEF Proc
  <2> HIDE DEF r
  <2>3. Set(p, r)
    BY <1>6 DEF r
  <2>4. proc'[p] = r
    BY <2>2, <2>3, SetFacts DEF IInv, TypeOK
  <2>5. Promotion(p)'
    BY <1>1, <1>2, <2>1, <2>2, <2>4 DEF Promotion, Good, Versions
  <2>6. ProcOK(p)' /\ OtherTypes'
    BY <1>1, <1>2, <1>6, <2>1, <2>2, <2>4, <2>5
       DEF IInv, TypeOK, OtherTypes, ProcOK, At, Writing, Holding, Versions
  <2> QED BY <1>2, <1>3, <1>4, <2>2, <2>3, <2>6, StepOfProcess
<1> QED BY <1>5, <1>6 DEF Rollback

LEMMA KillStep ==
  ASSUME IInv, NEW p \in Procs, Kill(p)
  PROVE  IInv'
<1>1. Set(p, Idle) /\ UNCHANGED files /\ given' = given
  BY DEF Kill
<1>2. ProcOK(p)'
  BY <1>1, IdleProc, SetFacts DEF IInv, TypeOK, ProcOK, At, Writing, Holding, Versions
<1>3. OtherTypes'
  BY DEF IInv, TypeOK, OtherTypes, Kill
<1>4. \A q \in Procs : q # p /\ lock = q => UNCHANGED <<lock, version, manifest, given>>
  BY <1>1 DEF Kill, files
<1> QED BY <1>1, <1>2, <1>3, <1>4, IdleProc, FilesKept, StepOfProcess

LEMMA DamageStep ==
  ASSUME IInv, Damage
  PROVE  IInv'
<1>1. /\ lock = None /\ Evidence' /\ faults' \in Nat
      /\ UNCHANGED <<lock, proc, clock, given, calls, startups, kills>>
  BY DEF IInv, TypeOK, Damage
<1>2. /\ \A v \in Versions : version[v] # "missing" => version'[v] # "missing"
      /\ version' \in [Versions -> FileStates]
  <2>1. CASE UNCHANGED version
    BY <2>1 DEF IInv, TypeOK
  <2>2. CASE \E v \in Valid : version' = [version EXCEPT ![v] = "corrupt"]
    BY <2>2 DEF IInv, TypeOK, Valid, FileStates
  <2> QED BY <2>1, <2>2 DEF Damage
<1>3. /\ attempts' \in Attempts /\ AttemptIsNewest' /\ cache' \in OrNone
      /\ status' \in Status
  <2>1. CASE UNCHANGED <<attempts, cache, status>>
    BY <1>1, <2>1 DEF IInv, TypeOK, AttemptIsNewest
  <2>2. CASE \E s \in {"missing", "corrupt"} :
               /\ attempts' = [state |-> s, gen |-> 0]
               /\ UNCHANGED <<cache, status>>
    BY <1>1, <2>2 DEF IInv, TypeOK, AttemptIsNewest, Attempts
  <2>3. CASE /\ status' = [state |-> "corrupt", gen |-> 0, ver |-> 0, failed |-> FALSE]
             /\ UNCHANGED <<attempts, cache>>
    BY <1>1, <2>3, PublicationAssumption
       DEF IInv, TypeOK, AttemptIsNewest, Status, FileStates, OrNone
  <2>4. CASE cache' = 0 /\ UNCHANGED <<attempts, status>>
    BY <1>1, <2>4, PublicationAssumption DEF IInv, TypeOK, AttemptIsNewest, OrNone
  <2> QED BY <2>1, <2>2, <2>3, <2>4 DEF Damage
<1>4. manifest' \in Manifest /\ (manifest' = manifest \/ manifest'.state # "good")
  BY PublicationAssumption DEF IInv, TypeOK, Damage, Manifest, FileStates, OrNone
<1>5. KeptHaveFiles'
  <2>1. CASE manifest' = manifest
    BY <1>2, <2>1 DEF IInv, TypeOK, KeptHaveFiles, Manifest
  <2>2. CASE manifest'.state # "good"
    BY <2>2 DEF KeptHaveFiles
  <2> QED BY <1>4, <2>1, <2>2
<1>6. TypeOK'
  BY <1>1, <1>2, <1>3, <1>4 DEF IInv, TypeOK, Versions, OrNone
<1>7. ASSUME NEW q \in Procs PROVE ProcOK(q)'
  BY <1>1, PublicationAssumption, OthersKeep DEF IInv
<1> QED BY <1>1, <1>3, <1>5, <1>6, <1>7 DEF IInv

-----------------------------------------------------------------------------
LEMMA InitLemma == Init => IInv
<1> SUFFICES ASSUME Init PROVE IInv
  OBVIOUS
<1>1. attempts \in Attempts /\ Evidence /\ AttemptIsNewest /\ KeptHaveFiles
  BY DEF Init, Attempts, Evidence, AttemptIsNewest, KeptHaveFiles
<1>2. manifest \in Manifest /\ status \in Status
  BY PublicationAssumption DEF Init, Manifest, Status, FileStates, OrNone
<1>3. /\ version \in [Versions -> FileStates]
      /\ cache \in OrNone /\ clock \in OrNone
  BY PublicationAssumption DEF Init, FileStates, OrNone
<1>4. proc = [p \in Procs |-> Idle] /\ lock = None
  BY DEF Init
<1>5. TypeOK
  BY <1>1, <1>2, <1>3, <1>4, IdleProc DEF Init, TypeOK
<1>6. ASSUME NEW p \in Procs PROVE ProcOK(p)
  BY <1>4, IdleProc DEF ProcOK, At, Writing, Holding
<1> QED BY <1>1, <1>5, <1>6 DEF IInv

LEMMA NextLemma == IInv /\ [Next]_vars => IInv'
<1> SUFFICES ASSUME IInv, [Next]_vars PROVE IInv'
  OBVIOUS
<1>1. CASE UNCHANGED vars
  <2>1. UNCHANGED files /\ UNCHANGED <<lock, proc, clock, given, bounds>>
    BY <1>1 DEF vars
  <2>2. TypeOK'
    BY <2>1, TypeParts, FilesKept DEF IInv, OtherTypes, bounds
  <2>3. ASSUME NEW p \in Procs PROVE ProcOK(p)'
    BY <2>1, OthersKeep DEF IInv, files
  <2> QED BY <2>1, <2>2, <2>3, FilesKept DEF IInv
<1>2. ASSUME NEW p \in Procs,
             \/ StartRefresh(p) \/ SkipSource(p) \/ Begin(p) \/ Fetched(p)
             \/ Publish(p) \/ WriteManifest(p) \/ WriteFails(p) \/ Prune(p)
             \/ Report(p) \/ WriteStatus(p) \/ Record(p)
             \/ Rollback(p)
             \/ BootCheck(p) \/ BootPointer(p) \/ BootScan(p) \/ BootCurrent(p)
             \/ Kill(p)
      PROVE  IInv'
  <2>1. CASE Report(p)
    BY <2>1, SyncCacheStep, CannotSyncStep DEF Report
  <2> QED BY <1>2, <2>1, StartRefreshStep, SkipSourceStep, BeginStep, FetchedStep,
        PublishStep, WriteManifestStep, WriteFailsStep, PruneStep, WriteStatusStep,
        RecordStep, RollbackStep, BootCheckStep, BootPointerStep, BootScanStep,
        BootCurrentStep, KillStep
<1>3. CASE Damage
  BY <1>3, DamageStep
<1> QED BY <1>1, <1>2, <1>3 DEF Next

(* The inductive invariant: typing, and what each process relies on between *)
(* the durable writes of its transaction.                                   *)
THEOREM Invariance == Spec => []IInv
<1>1. Init => IInv
  BY InitLemma
<1>2. IInv /\ [Next]_vars => IInv'
  BY NextLemma
<1> QED BY <1>1, <1>2, PTL DEF Spec

(* Every value of the store has its type.                                  *)
THEOREM TypeCorrect == Spec => []TypeOK
<1>1. IInv => TypeOK
  BY DEF IInv
<1> QED BY <1>1, Invariance, PTL

(* However often a process is killed, a write refused or a file damaged,    *)
(* no version that the manifest keeps is without its file.                  *)
THEOREM FilesAreKept == Spec => []KeptHaveFiles
<1>1. IInv => KeptHaveFiles
  BY DEF IInv
<1> QED BY <1>1, Invariance, PTL

(* The pointer is moved by nothing but a promotion of the lock's holder.    *)
LEMMA Mover ==
  ASSUME IInv, [Next]_vars, NEW p \in Procs, Moves(p)
  PROVE  WriteManifest(p)
<1>1. manifest' # manifest /\ lock = p /\ lock # None
  BY PublicationAssumption DEF Moves
<1>2. Next /\ ~Damage
  BY <1>1 DEF vars, files, Damage
<1>3. PICK q \in Procs :
             \/ StartRefresh(q) \/ SkipSource(q) \/ Begin(q) \/ Fetched(q)
             \/ Publish(q) \/ WriteManifest(q) \/ WriteFails(q) \/ Prune(q)
             \/ Report(q) \/ WriteStatus(q) \/ Record(q)
             \/ Rollback(q)
             \/ BootCheck(q) \/ BootPointer(q) \/ BootScan(q) \/ BootCurrent(q)
             \/ Kill(q)
  BY <1>2 DEF Next
<1>4. WriteManifest(q)
  <2>1. ~StartRefresh(q) /\ ~SkipSource(q) /\ ~Begin(q) /\ ~Fetched(q)
    BY <1>1 DEF StartRefresh, SkipSource, Begin, Fetched, files
  <2>2. ~Publish(q) /\ ~WriteFails(q) /\ ~Prune(q) /\ ~WriteStatus(q)
    BY <1>1 DEF Publish, WriteFails, Prune, WriteStatus, files
  <2>3. ~SyncCache(q) /\ ~CannotSync(q)
    BY <1>1 DEF SyncCache, CannotSync
  <2>4. ~Report(q) /\ ~Record(q) /\ ~Rollback(q) /\ ~Kill(q)
    BY <1>1, <2>3 DEF Report, Record, Rollback, Kill, files
  <2>5. ~BootCheck(q) /\ ~BootPointer(q) /\ ~BootScan(q) /\ ~BootCurrent(q)
    BY <1>1 DEF BootCheck, BootPointer, BootScan, BootCurrent, files
  <2> QED BY <1>3, <2>1, <2>2, <2>4, <2>5
<1>5. At(q, "manifest") /\ lock = q
  BY <1>4 DEF IInv, ProcOK, At, Writing, WriteManifest
<1> QED BY <1>1, <1>4, <1>5

(* What is published is decided by the newest attempt, although the file    *)
(* with the numbers was lost on the way.                                    *)
THEOREM NewestDecides == Spec => NewestAttemptDecides
<1>1. ASSUME IInv, [Next]_vars
      PROVE  [\A p \in Procs : Moves(p) => proc[p].gen = given]_vars
  BY <1>1, Mover DEF IInv, ProcOK, Promotion, WriteManifest
<1> QED BY <1>1, Invariance, PTL DEF Spec, NewestAttemptDecides

(* A refresh promotes only what was fetched after the current version.      *)
THEOREM NeverGoesBack == Spec => RefreshNeverGoesBack
<1>1. ASSUME IInv, [Next]_vars
      PROVE  [\A p \in Procs : Moves(p) /\ proc[p].kind = "refresh" /\ Readable =>
                 manifest'.cur > manifest.cur]_vars
  <2> SUFFICES ASSUME NEW p \in Procs, Moves(p), proc[p].kind = "refresh", Readable
               PROVE  manifest'.cur > manifest.cur
    OBVIOUS
  <2>1. WriteManifest(p)
    BY <1>1, Mover
  <2>2. proc[p].ver > manifest.cur
    BY <1>1, <2>1 DEF IInv, ProcOK, Promotion, WriteManifest
  <2>3. manifest'.cur = proc[p].ver
    BY <2>1 DEF WriteManifest
  <2> QED BY <2>2, <2>3
<1> QED BY <1>1, Invariance, PTL DEF Spec, RefreshNeverGoesBack

StatusStep ==
  status.state = "good" /\ status'.state = "good" =>
       /\ status'.gen >= status.gen
       /\ \A p \in Procs :
            (/\ lock = p /\ proc[p].gen < status.gen
             /\ status'.gen = status.gen /\ status'.ver = status.ver
             /\ status.failed) => status'.failed

(* The generation of the status never falls, and an older attempt does not  *)
(* take back the failure of a newer one.                                    *)
THEOREM StatusAdvances == Spec => StatusOnlyAdvances
<1>1. ASSUME IInv, [Next]_vars PROVE [StatusStep]_vars
  <2>1. status \in Status /\ (status.state = "good" => StatusGen = status.gen)
    BY <1>1 DEF IInv, TypeOK, StatusGen
  <2>2. ASSUME UNCHANGED status PROVE StatusStep
    BY <2>1, <2>2 DEF Status, StatusStep
  <2>3. ASSUME status'.state # "good" PROVE StatusStep
    BY <2>3 DEF StatusStep
  <2>4. ASSUME NEW p \in Procs, WriteStatus(p) PROVE StatusStep
    <3>1. At(p, "status") /\ lock = p
      BY <1>1, <2>4 DEF IInv, ProcOK, At, Writing, WriteStatus
    <3>2. CASE status' = [state |-> "good", gen |-> AppliedGen(p),
                          ver |-> manifest.cur, failed |-> SaysFailed(p)]
      <4>1. status.state = "good" => status'.gen >= status.gen
        BY <1>1, <2>1, <3>1, <3>2, ReportedStatus
      <4>2. ASSUME status.state = "good", proc[p].gen < status.gen,
                   status'.ver = status.ver, status.failed
            PROVE  status'.failed
        <5>1. Superseded(p)
          BY <1>1, <2>1, <3>1, <4>2, ReportedStatus
        <5>2. Preserved(p)
          BY <3>2, <4>2, <5>1 DEF Preserved
        <5> QED BY <3>2, <4>2, <5>2 DEF SaysFailed
      <4> QED BY <3>1, <4>1, <4>2 DEF StatusStep
    <3> QED BY <2>2, <2>4, <3>2 DEF WriteStatus
  <2>5. ASSUME NEW p \in Procs, Record(p) PROVE StatusStep
    <3>1. lock = None
      BY <2>5 DEF Record
    <3>2. CASE SyncCache(p)
      BY <2>2, <3>2 DEF SyncCache
    <3>3. CASE /\ Allocate(p) /\ ~(GenOf(p) < Larger(StatusGen, Recorded))
               /\ status' = [state |-> "good", gen |-> GenOf(p), ver |-> 0,
                             failed |-> TRUE]
      <4>1. Recorded \in Nat /\ StatusGen \in Nat /\ GenOf(p) \in Nat
        BY <1>1, <3>3, AllocateFacts DEF IInv, TypeOK, Attempts, Status, Recorded, StatusGen
      <4>2. GenOf(p) >= StatusGen
        BY <3>3, <4>1 DEF Larger
      <4> QED BY <2>1, <3>1, <3>3, <4>2, PublicationAssumption DEF StatusStep
    <3> QED BY <2>2, <2>5, <3>2, <3>3 DEF Record
  <2>6. CASE UNCHANGED vars
    BY <2>6, <2>2 DEF vars, files
  <2>7. CASE Damage
    BY <2>2, <2>3, <2>7 DEF Damage
  <2>8. ASSUME NEW p \in Procs,
             \/ StartRefresh(p) \/ SkipSource(p) \/ Begin(p) \/ Fetched(p)
             \/ Publish(p) \/ WriteManifest(p) \/ WriteFails(p) \/ Prune(p)
             \/ Report(p) \/ Rollback(p)
             \/ BootCheck(p) \/ BootPointer(p) \/ BootScan(p) \/ BootCurrent(p)
             \/ Kill(p)
        PROVE  StatusStep
    <3>1. UNCHANGED status
      <4>1. CASE StartRefresh(p) \/ SkipSource(p) \/ Begin(p) \/ Fetched(p)
        BY <4>1 DEF StartRefresh, SkipSource, Begin, Fetched, files
      <4>2. CASE Publish(p) \/ WriteManifest(p) \/ WriteFails(p) \/ Prune(p)
        BY <4>2 DEF Publish, WriteManifest, WriteFails, Prune, files
      <4>3. CASE Report(p)
        BY <4>3 DEF Report, SyncCache, CannotSync
      <4>4. CASE Rollback(p) \/ Kill(p)
        BY <4>4 DEF Rollback, Kill, files
      <4>5. CASE BootCheck(p) \/ BootPointer(p) \/ BootScan(p) \/ BootCurrent(p)
        BY <4>5 DEF BootCheck, BootPointer, BootScan, BootCurrent, files
      <4> QED BY <2>8, <4>1, <4>2, <4>3, <4>4, <4>5
    <3> QED BY <2>2, <3>1
  <2> QED BY <1>1, <2>4, <2>5, <2>6, <2>7, <2>8 DEF Next
<1> QED BY <1>1, Invariance, PTL DEF Spec, StatusOnlyAdvances, StatusStep

-----------------------------------------------------------------------------
(* In a run without a kill, a fault or a repair somebody always owes the    *)
(* reports that the cache and the status still lack: the process that has   *)
(* moved the pointer, until it has written both, or one that follows it.    *)
Calm == kills = 0 /\ faults = 0 /\ startups = 0
Agreed == cache = manifest.cur /\ status.ver = manifest.cur
Owes(p) == At(p, "prune") \/ At(p, "status") \/ (At(p, "report") /\ proc[p].ok)
Quiet ==
  /\ \A v \in Versions : version[v] # "corrupt"
  /\ \A p \in Procs : /\ proc[p].kind # "boot"
                      /\ At(p, "status") => proc[p].base = 1 /\ cache = manifest.cur
  /\ manifest.state = "good" => Agreed \/ \E p \in Procs : Owes(p)
QInv == Calm => Quiet

LEMMA CalmBefore ==
  ASSUME IInv, [Next]_vars, Calm'
  PROVE  Calm
<1> DEFINE Counted == /\ kills' \in {kills, kills + 1} /\ faults' \in {faults, faults + 1}
                      /\ startups' \in {startups, startups + 1}
<1>0. kills \in Nat /\ faults \in Nat /\ startups \in Nat
  BY DEF IInv, TypeOK
<1>1. Counted
  <2>1. CASE UNCHANGED vars
    BY <2>1 DEF vars, bounds
  <2>2. CASE Damage
    BY <2>2 DEF Damage
  <2>3. ASSUME NEW p \in Procs, SyncCache(p) \/ CannotSync(p)
        PROVE  Counted
    BY <2>3 DEF SyncCache, CannotSync, bounds
  <2>4. ASSUME NEW p \in Procs,
             \/ StartRefresh(p) \/ SkipSource(p) \/ Begin(p) \/ Fetched(p)
             \/ Publish(p) \/ WriteManifest(p) \/ WriteFails(p) \/ Prune(p)
        PROVE  Counted
    <3>1. CASE StartRefresh(p) \/ SkipSource(p) \/ Begin(p) \/ Fetched(p)
      BY <3>1 DEF StartRefresh, SkipSource, Begin, Fetched, bounds
    <3>2. CASE Publish(p) \/ WriteManifest(p) \/ WriteFails(p) \/ Prune(p)
      BY <3>2 DEF Publish, WriteManifest, WriteFails, Prune, bounds
    <3> QED BY <2>4, <3>1, <3>2
  <2>5. ASSUME NEW p \in Procs,
             \/ Report(p) \/ WriteStatus(p) \/ Record(p)
             \/ Rollback(p)
             \/ BootCheck(p) \/ BootPointer(p) \/ BootScan(p) \/ BootCurrent(p)
             \/ Kill(p)
        PROVE  Counted
    <3>1. CASE WriteStatus(p) \/ Rollback(p) \/ Kill(p)
      BY <3>1 DEF WriteStatus, Rollback, Kill
    <3>2. CASE BootCheck(p) \/ BootPointer(p) \/ BootScan(p) \/ BootCurrent(p)
      BY <3>2 DEF BootCheck, BootPointer, BootScan, BootCurrent, bounds
    <3>3. CASE Report(p) \/ Record(p)
      BY <3>3, <2>3 DEF Report, Record, bounds
    <3> QED BY <2>5, <3>1, <3>2, <3>3
  <2> QED BY <2>1, <2>2, <2>4, <2>5 DEF Next
<1> QED BY <1>0, <1>1 DEF Calm

(* What is published can be read when nothing was damaged.                  *)
LEMMA QuietlyReadable ==
  ASSUME IInv, Quiet, manifest.state = "good"
  PROVE  Readable
<1>1. manifest.cur \in Versions /\ version[manifest.cur] # "missing"
  BY DEF IInv, TypeOK, KeptHaveFiles, Manifest
<1> QED BY <1>1 DEF IInv, TypeOK, Quiet, Readable, Good, FileStates

(* A step of p that writes neither file: what p owes, it owes still.        *)
OnlyMoves(p) == \A q \in Procs : q # p => proc'[q] = proc[q]
LEMMA QuietStep ==
  ASSUME Quiet, NEW p \in Procs, OnlyMoves(p),
         UNCHANGED <<manifest, status, cache>>,
         \A v \in Versions : version'[v] # "corrupt",
         proc'[p].kind # "boot", proc'[p].pc # "status",
         manifest.state = "good" /\ Owes(p) => Owes(p)'
  PROVE  Quiet'
<1>1. ASSUME NEW q \in Procs
      PROVE  /\ proc'[q].kind # "boot"
             /\ At(q, "status")' => proc'[q].base = 1 /\ cache' = manifest'.cur
  BY <1>1 DEF Quiet, At, OnlyMoves
<1>2. ASSUME manifest.state = "good", NEW q \in Procs, Owes(q)
      PROVE  Owes(q)'
  BY <1>2 DEF Owes, At, OnlyMoves
<1>3. Agreed => Agreed'
  BY DEF Agreed
<1> QED BY <1>1, <1>2, <1>3 DEF Quiet, Versions

LEMMA QuietPrivateStep ==
  ASSUME IInv, Quiet, NEW p \in Procs,
         \/ StartRefresh(p) \/ SkipSource(p) \/ Begin(p) \/ Fetched(p)
         \/ BootPointer(p) \/ BootScan(p) \/ BootCurrent(p)
  PROVE  Quiet'
<1>0. proc \in [Procs -> Proc] /\ proc[p].kind # "boot" /\ Idle.kind # "boot"
  BY IdleProc DEF IInv, TypeOK, Quiet
<1>1. UNCHANGED <<version, manifest, status, cache>> /\ ~Owes(p)
  <2>1. CASE StartRefresh(p) \/ SkipSource(p) \/ Begin(p) \/ Fetched(p)
    BY <2>1 DEF StartRefresh, SkipSource, Begin, Fetched, files, Owes, At
  <2>2. CASE BootPointer(p) \/ BootScan(p) \/ BootCurrent(p)
    BY <2>2 DEF BootPointer, BootScan, BootCurrent, files, Owes, At
  <2> QED BY <2>1, <2>2
<1> DEFINE Moved == proc'[p].kind # "boot" /\ proc'[p].pc # "status" /\ OnlyMoves(p)
<1>2. Moved
  <2>1. CASE StartRefresh(p)
    BY <1>0, <2>1 DEF StartRefresh, Set, Idle, OnlyMoves
  <2>2. CASE SkipSource(p)
    BY <1>0, <2>2 DEF SkipSource, Set, Idle, OnlyMoves
  <2>3. CASE Begin(p)
    BY <1>0, <2>3 DEF Begin, Set, Proc, OnlyMoves
  <2>4. CASE Fetched(p)
    BY <1>0, <2>4 DEF Fetched, Set, Proc, OnlyMoves
  <2>5. CASE BootPointer(p)
    BY <1>0, <2>5 DEF BootPointer, Set, Proc, Idle, OnlyMoves
  <2>6. CASE BootScan(p)
    <3>1. PICK found \in SUBSET (Valid \cup ({cache} \ {0})) :
            Set(p, IF found = {} THEN Idle
                   ELSE [proc[p] EXCEPT !.ver = Greatest(found),
                           !.pc = IF proc[p].base # 0 THEN "bootCurrent" ELSE "begin",
                           !.base = Greatest(Others(found))])
      BY <2>6 DEF BootScan
    <3> QED BY <1>0, <3>1 DEF Set, Proc, Idle, OnlyMoves
  <2>7. CASE BootCurrent(p)
    BY <1>0, <2>7 DEF BootCurrent, Set, Proc, Idle, OnlyMoves
  <2> QED BY <2>1, <2>2, <2>3, <2>4, <2>5, <2>6, <2>7
<1> QED BY <1>1, <1>2, QuietStep DEF Quiet, Versions

LEMMA QuietPublishStep ==
  ASSUME IInv, Quiet, NEW p \in Procs, Publish(p)
  PROVE  Quiet'
<1>0. /\ proc \in [Procs -> Proc] /\ proc[p].kind # "boot" /\ Idle.kind # "boot"
      /\ version \in [Versions -> FileStates]
  BY IdleProc DEF IInv, TypeOK, Quiet
<1>1. UNCHANGED <<manifest, status, cache>> /\ ~Owes(p)
  BY DEF Publish, Owes, At
<1>2. \A v \in Versions : version'[v] # "corrupt"
  BY <1>0 DEF Publish, Quiet
<1>3. proc'[p].kind # "boot" /\ proc'[p].pc # "status" /\ OnlyMoves(p)
  <2>1. CASE Set(p, Rejected(p))
    BY <1>0, <2>1 DEF Rejected, Set, Proc, Idle, OnlyMoves
  <2>2. CASE Set(p, [proc[p] EXCEPT !.pc = "manifest"])
    BY <1>0, <2>2 DEF Set, Proc, OnlyMoves
  <2> QED BY <2>1, <2>2 DEF Publish
<1> QED BY <1>1, <1>2, <1>3, QuietStep

(* The pointer moves: from now on p owes the reports.                       *)
LEMMA QuietManifestStep ==
  ASSUME IInv, Quiet, NEW p \in Procs, WriteManifest(p)
  PROVE  Quiet'
<1>0. proc \in [Procs -> Proc] /\ proc[p].kind # "boot"
  BY DEF IInv, TypeOK, Quiet
<1>1. /\ lock = p /\ \A q \in Procs : q # p => ~At(q, "status")
      /\ UNCHANGED <<version, status, cache>>
  BY DEF IInv, ProcOK, WriteManifest, At, Writing
<1>2. OnlyMoves(p) /\ proc'[p].kind # "boot" /\ proc'[p].pc = "prune"
  BY <1>0 DEF WriteManifest, Set, Proc, OnlyMoves
<1>3. Owes(p)'
  BY <1>2 DEF Owes, At
<1> QED BY <1>1, <1>2, <1>3 DEF Quiet, At, OnlyMoves

LEMMA QuietPruneStep ==
  ASSUME IInv, Quiet, NEW p \in Procs, Prune(p)
  PROVE  Quiet'
<1>0. proc \in [Procs -> Proc] /\ proc[p].kind # "boot"
  BY DEF IInv, TypeOK, Quiet
<1>1. UNCHANGED <<manifest, status, cache>>
  BY DEF Prune
<1>2. \A v \in Versions : version'[v] # "corrupt"
  BY DEF Prune, Quiet
<1>3. /\ OnlyMoves(p) /\ proc'[p].kind # "boot"
      /\ proc'[p].pc = "report" /\ proc'[p].ok
  BY <1>0 DEF Prune, Set, Proc, OnlyMoves
<1>4. Owes(p)'
  BY <1>3 DEF Owes, At
<1> QED BY <1>1, <1>2, <1>3, <1>4, QuietStep

(* The cache is written, the status is next.                                *)
LEMMA QuietSyncStep ==
  ASSUME IInv, Quiet, NEW p \in Procs, Free(p), SyncCache(p), faults' = faults
  PROVE  Quiet'
<1>0. proc \in [Procs -> Proc] /\ proc[p].kind # "boot" /\ faults \in Nat
  BY DEF IInv, TypeOK, Quiet
<1>1. /\ UNCHANGED <<version, manifest, status>> /\ cache' = manifest.cur
      /\ Set(p, [proc[p] EXCEPT !.pc = "status", !.gen = GenOf(p), !.base = 1])
  BY <1>0 DEF SyncCache, Served
<1>2. /\ OnlyMoves(p) /\ proc'[p].kind # "boot"
      /\ proc'[p].pc = "status" /\ proc'[p].base = 1
  BY <1>0, <1>1 DEF Set, Proc, OnlyMoves
<1>3. \A q \in Procs : q # p => ~At(q, "status")
  BY PublicationAssumption DEF IInv, ProcOK, Free, At, Writing
<1>4. Owes(p)'
  BY <1>2 DEF Owes, At
<1> QED BY <1>1, <1>2, <1>3, <1>4 DEF Quiet, At, OnlyMoves, Versions

(* Nothing readable means nothing published: nobody owes a report.          *)
LEMMA QuietColdStep ==
  ASSUME IInv, Quiet, NEW p \in Procs,
         CannotSync(p) \/ (Record(p) /\ ~SyncCache(p))
  PROVE  Quiet'
<1>0. proc \in [Procs -> Proc] /\ proc[p].kind # "boot" /\ Idle.kind # "boot"
  BY IdleProc DEF IInv, TypeOK, Quiet
<1>1. manifest.state # "good"
  BY QuietlyReadable DEF CannotSync, Record
<1>2. UNCHANGED <<version, manifest, cache>>
  BY DEF CannotSync, Record
<1>3. OnlyMoves(p) /\ proc'[p].kind # "boot" /\ proc'[p].pc # "status"
  BY <1>0 DEF CannotSync, Record, Set, Proc, Idle, OnlyMoves
<1> QED BY <1>1, <1>2, <1>3 DEF Quiet, At, OnlyMoves, Versions

(* The status is written: it names what the cache holds.                    *)
LEMMA QuietStatusStep ==
  ASSUME IInv, Quiet, NEW p \in Procs, WriteStatus(p), faults' = faults
  PROVE  Quiet'
<1>0. proc \in [Procs -> Proc] /\ faults \in Nat
  BY DEF IInv, TypeOK
<1>1. /\ status'.ver = manifest.cur /\ cache = manifest.cur
      /\ UNCHANGED <<version, manifest, cache>>
  BY <1>0 DEF WriteStatus, Quiet
<1>2. OnlyMoves(p) /\ proc'[p].kind # "boot" /\ proc'[p].pc = "idle"
  BY <1>0, IdleProc DEF WriteStatus, Set, OnlyMoves
<1>3. Agreed'
  BY <1>1 DEF Agreed
<1> QED BY <1>1, <1>2, <1>3 DEF Quiet, At, OnlyMoves, Versions

LEMMA QuietRollbackStep ==
  ASSUME IInv, Quiet, NEW p \in Procs, Rollback(p)
  PROVE  Quiet'
<1>0. proc \in [Procs -> Proc] /\ proc[p].kind # "boot"
  BY DEF IInv, TypeOK, Quiet
<1>1. /\ UNCHANGED <<version, manifest, status, cache>> /\ ~Owes(p)
      /\ proc[p].pc = "idle"
  BY Zenon DEF Rollback, Owes, At
<1>2. CASE UNCHANGED proc
  BY <1>0, <1>1, <1>2, QuietStep DEF Quiet, OnlyMoves, Versions
<1>3. ASSUME NEW v \in manifest.kept,
             Set(p, [Idle EXCEPT !.pc = "manifest", !.kind = "rollback",
                                 !.gen = NextGen, !.ver = v])
      PROVE  Quiet'
  <2>1. OnlyMoves(p) /\ proc'[p].kind = "rollback" /\ proc'[p].pc = "manifest"
    BY <1>0, <1>3 DEF Set, Idle, OnlyMoves
  <2> QED BY <1>1, <2>1, QuietStep DEF Quiet, Versions
<1> QED BY <1>2, <1>3 DEF Rollback

LEMMA QuietNext == IInv /\ QInv /\ [Next]_vars => QInv'
<1> SUFFICES ASSUME IInv, QInv, [Next]_vars, Calm' PROVE Quiet'
  BY DEF QInv
<1>0. Calm /\ Quiet /\ kills' = kills /\ faults' = faults /\ startups' = startups
  BY CalmBefore DEF QInv, Calm
<1>1. CASE UNCHANGED vars
  BY <1>0, <1>1 DEF Quiet, vars, files, At, Owes, Agreed, Versions
<1>2. ~Damage
  BY <1>0 DEF Damage, IInv, TypeOK
<1>3. ASSUME NEW p \in Procs PROVE ~WriteFails(p) /\ ~BootCheck(p) /\ ~Kill(p)
  BY <1>0 DEF WriteFails, BootCheck, Kill, IInv, TypeOK
<1>4. ASSUME NEW p \in Procs, Report(p) \/ Record(p) PROVE Quiet'
  <2>1. Free(p)
    BY <1>4 DEF Report, Record, Free
  <2> QED BY <1>0, <1>4, <2>1, QuietSyncStep, QuietColdStep DEF Report
<1>5. ASSUME NEW p \in Procs,
             \/ StartRefresh(p) \/ SkipSource(p) \/ Begin(p) \/ Fetched(p)
             \/ Publish(p) \/ WriteManifest(p) \/ Prune(p) \/ WriteStatus(p)
             \/ Rollback(p) \/ BootPointer(p) \/ BootScan(p) \/ BootCurrent(p)
      PROVE  Quiet'
  BY <1>0, <1>5, QuietPrivateStep, QuietPublishStep, QuietManifestStep,
     QuietPruneStep, QuietStatusStep, QuietRollbackStep
<1> QED BY <1>1, <1>2, <1>3, <1>4, <1>5 DEF Next

(* In whatever order refreshes, rollbacks and skipped sources report, once  *)
(* all have ended the cache and the status name the published version.      *)
THEOREM QuietlyAgrees == Spec => []QuietAgreement
<1>1. Init => QInv
  BY IdleProc DEF Init, QInv, Quiet, At, Versions
<1>2. IInv /\ QInv => QuietAgreement
  BY DEF IInv, TypeOK, QInv, Calm, Quiet, QuietAgreement, Agreed, Owes, At
<1> QED BY <1>1, <1>2, QuietNext, Invariance, PTL DEF Spec

-----------------------------------------------------------------------------
(* The refinement of PublishedPointer: what each step does to the numbers, *)
(* the pointer and the data.                                               *)
LEMMA TicketFacts ==
  ASSUME IInv, NEW p \in Procs, NEW r \in Proc, Set(p, r)
  PROVE  /\ r.pc \notin Holding => Ticket' = Pointer!Without(p)
         /\ r.pc \in Holding => Ticket' = [Ticket EXCEPT ![p] = r.gen]
         /\ proc[p].pc \in Holding => Ticket[p] = proc[p].gen
         /\ proc[p].pc \notin Holding => Ticket[p] = 0
         /\ (r.pc \in Holding /\ proc[p].pc \in Holding /\ r.gen = proc[p].gen)
              => Ticket' = Ticket
         /\ (r.pc \notin Holding /\ Ticket[p] = 0) => Ticket' = Ticket
<1>1. /\ proc'[p] = r
      /\ \A q \in Procs : q # p => proc'[q] = proc[q]
  BY SetFacts DEF IInv, TypeOK
<1>2. \A q \in Procs : Ticket'[q] = IF proc'[q].pc \in Holding THEN proc'[q].gen ELSE 0
  BY DEF Ticket
<1>3. \A q \in Procs : Ticket[q] = IF proc[q].pc \in Holding THEN proc[q].gen ELSE 0
  BY DEF Ticket
<1>4. DOMAIN Ticket = Procs /\ DOMAIN Ticket' = Procs
      /\ Ticket = [q \in Procs |-> Ticket[q]] /\ Ticket' = [q \in Procs |-> Ticket'[q]]
  BY DEF Ticket
<1> QED BY <1>1, <1>2, <1>3, <1>4 DEF Pointer!Without

LEMMA SamePublic ==
  /\ UNCHANGED manifest => UNCHANGED <<Published, Retained>>
  /\ UNCHANGED version => UNCHANGED Valid
BY DEF Published, Retained, Valid, Good, Versions

(* A step without a number, a fault or a durable write may give a number up. *)
LEMMA LetGo ==
  ASSUME IInv, NEW p \in Procs, NEW r \in Proc, Set(p, r),
         UNCHANGED <<version, manifest, given, faults>>,
         \/ r.pc \notin Holding
         \/ proc[p].pc \in Holding /\ r.gen = proc[p].gen
  PROVE  [Pointer!PNext]_(Pointer!pvars)
<1>1. UNCHANGED <<Published, Retained, Valid, given, faults>>
  BY SamePublic
<1>2. CASE Ticket' = Ticket
  BY <1>1, <1>2 DEF Pointer!pvars
<1>3. CASE Ticket' = Pointer!Without(p) /\ Ticket[p] # 0
  BY <1>1, <1>3 DEF Pointer!PNext, Pointer!GiveUp
<1> QED BY <1>2, <1>3, TicketFacts

(* A number is taken to publish under it, or only to overtake.             *)
LEMMA TakesNumber ==
  ASSUME IInv, NEW p \in Procs, NEW r \in Proc, Set(p, r),
         UNCHANGED <<version, manifest, faults>>, given' > given,
         proc[p].pc \notin Holding,
         r.pc \in Holding => r.gen = given'
  PROVE  [Pointer!PNext]_(Pointer!pvars)
<1>1. UNCHANGED <<Published, Retained, Valid, faults>>
  BY SamePublic
<1>2. Ticket[p] = 0
  BY TicketFacts
<1>3. CASE r.pc \notin Holding
  <2>1. Ticket' = Ticket
    BY <1>2, <1>3, TicketFacts
  <2> QED BY <1>1, <2>1 DEF Pointer!PNext, Pointer!Skip
<1>4. CASE r.pc \in Holding
  <2>1. Ticket' = [Ticket EXCEPT ![p] = given']
    BY <1>4, TicketFacts
  <2> QED BY <1>1, <1>2, <2>1 DEF Pointer!PNext, Pointer!Take
<1> QED BY <1>3, <1>4

LEMMA PrivatePointer ==
  ASSUME IInv, NEW p \in Procs,
         \/ StartRefresh(p) \/ SkipSource(p) \/ Fetched(p)
         \/ BootCheck(p) \/ BootPointer(p) \/ BootScan(p) \/ BootCurrent(p)
         \/ Kill(p)
  PROVE  [Pointer!PNext]_(Pointer!pvars)
<1>0. proc[p] \in Proc /\ Idle \in Proc /\ Idle.pc = "idle"
  BY IdleProc DEF IInv, TypeOK
<1>1. UNCHANGED <<version, manifest, given, faults>>
  BY DEF StartRefresh, SkipSource, Fetched, BootCheck, BootPointer, BootScan,
         BootCurrent, Kill, files, bounds
<1> DEFINE Moved == /\ proc'[p] \in Proc /\ Set(p, proc'[p])
                    /\ \/ proc'[p].pc \notin Holding
                       \/ proc[p].pc \in Holding /\ proc'[p].gen = proc[p].gen
<1>2. proc' = [proc EXCEPT ![p] = proc'[p]] /\ proc'[p] \in Proc
  <2>1. IInv'
    <3>1. CASE StartRefresh(p)
      BY <3>1, StartRefreshStep
    <3>2. CASE SkipSource(p)
      BY <3>2, SkipSourceStep
    <3>3. CASE Fetched(p)
      BY <3>3, FetchedStep
    <3>4. CASE BootCheck(p)
      BY <3>4, BootCheckStep
    <3>5. CASE BootPointer(p)
      BY <3>5, BootPointerStep
    <3>6. CASE BootScan(p)
      BY <3>6, BootScanStep
    <3>7. CASE BootCurrent(p)
      BY <3>7, BootCurrentStep
    <3>8. CASE Kill(p)
      BY <3>8, KillStep
    <3> QED BY <3>1, <3>2, <3>3, <3>4, <3>5, <3>6, <3>7, <3>8
  <2>2. proc \in [Procs -> Proc] /\ proc' \in [Procs -> Proc]
    BY <2>1 DEF IInv, TypeOK
  <2>3. \A q \in Procs : q # p => proc'[q] = proc[q]
    BY <2>2 DEF StartRefresh, SkipSource, Fetched, BootCheck, BootPointer, BootScan,
                BootCurrent, Kill, Set
  <2> QED BY <2>2, <2>3
<1>3. \/ proc'[p].pc \notin Holding
      \/ proc[p].pc \in Holding /\ proc'[p].gen = proc[p].gen
  <2>0. \A r : proc' = [proc EXCEPT ![p] = r] => proc'[p] = r
    BY DEF IInv, TypeOK
  <2>1. CASE Fetched(p)
    <3>1. PICK pc \in {"publish", "report"} : Set(p, [proc[p] EXCEPT !.pc = pc])
      BY <2>1 DEF Fetched
    <3>2. proc'[p] = [proc[p] EXCEPT !.pc = pc]
      BY <2>0, <3>1 DEF Set
    <3> QED BY <1>0, <2>1, <3>2 DEF Fetched, At, Proc, Holding
  <2>2. CASE StartRefresh(p) \/ SkipSource(p) \/ BootCheck(p) \/ Kill(p)
    <3>1. proc'[p].pc \in {"begin", "report", "bootPointer", "idle"}
      <4>1. CASE StartRefresh(p)
        BY <2>0, <4>1 DEF StartRefresh, Set, Idle
      <4>2. CASE SkipSource(p)
        BY <2>0, <4>2 DEF SkipSource, Set, Idle
      <4>3. CASE BootCheck(p)
        BY <2>0, <4>3 DEF BootCheck, Set, Idle
      <4>4. CASE Kill(p)
        BY <1>0, <2>0, <4>4 DEF Kill, Set
      <4> QED BY <2>2, <4>1, <4>2, <4>3, <4>4
    <3> QED BY <3>1 DEF Holding
  <2>3. CASE BootPointer(p)
    <3>1. proc'[p] = Idle \/ \E b : proc'[p] = [proc[p] EXCEPT !.pc = "bootScan", !.base = b]
      BY <2>0, <2>3 DEF BootPointer, Set
    <3> QED BY <1>0, <3>1 DEF Proc, Holding
  <2>4. CASE BootCurrent(p)
    <3>1. proc'[p] = Idle \/ proc'[p] = [proc[p] EXCEPT !.pc = "begin"]
      BY <2>0, <2>4 DEF BootCurrent, Set
    <3> QED BY <1>0, <3>1 DEF Proc, Holding
  <2>5. CASE BootScan(p)
    <3>1. \/ proc'[p] = Idle
          \/ \E v, b : \E pc \in {"bootCurrent", "begin"} :
               proc'[p] = [proc[p] EXCEPT !.ver = v, !.pc = pc, !.base = b]
      <4>1. PICK found \in SUBSET (Valid \cup ({cache} \ {0})) :
              Set(p, IF found = {} THEN Idle
                     ELSE [proc[p] EXCEPT !.ver = Greatest(found),
                                 !.pc = IF proc[p].base # 0 THEN "bootCurrent" ELSE "begin",
                                 !.base = Greatest(Others(found))])
        BY <2>5 DEF BootScan
      <4> DEFINE pc == IF proc[p].base # 0 THEN "bootCurrent" ELSE "begin"
      <4>2. \/ proc'[p] = Idle
            \/ proc'[p] = [proc[p] EXCEPT !.ver = Greatest(found), !.pc = pc,
                                          !.base = Greatest(Others(found))]
        BY <2>0, <4>1 DEF Set
      <4>3. pc \in {"bootCurrent", "begin"}
        OBVIOUS
      <4> HIDE DEF pc
      <4> QED BY <4>2, <4>3
    <3> QED BY <1>0, <3>1 DEF Proc, Holding
  <2> QED BY <2>1, <2>2, <2>3, <2>4, <2>5
<1> QED BY <1>1, <1>2, <1>3, LetGo DEF Set

LEMMA BeginPointer ==
  ASSUME IInv, NEW p \in Procs, Begin(p)
  PROVE  [Pointer!PNext]_(Pointer!pvars)
<1> DEFINE r == [proc[p] EXCEPT !.gen = NextGen,
                   !.pc = IF proc[p].kind = "boot" THEN "publish" ELSE "fetch"]
<1>1. given' = NextGen /\ NextGen \in Nat /\ given' > given
  BY NextGenFacts, WriteAttemptFacts DEF IInv, Begin
<1>2. r \in Proc /\ r.gen = given'
  BY <1>1 DEF IInv, TypeOK, Proc
<1>3. proc[p].pc \notin Holding /\ UNCHANGED <<version, manifest, faults>>
  BY DEF Begin, At, Holding, bounds
<1>4. Set(p, r)
  BY DEF Begin
<1> HIDE DEF r
<1> QED BY <1>1, <1>2, <1>3, <1>4, TakesNumber

LEMMA RollbackPointer ==
  ASSUME IInv, NEW p \in Procs, Rollback(p)
  PROVE  [Pointer!PNext]_(Pointer!pvars)
<1>1. given' = NextGen /\ NextGen \in Nat /\ given' > given
  BY NextGenFacts, WriteAttemptFacts DEF IInv, Rollback
<1>2. /\ proc[p] \in Proc /\ proc[p].pc \notin Holding
      /\ UNCHANGED <<version, manifest, faults>>
  BY DEF Rollback, At, Holding, IInv, TypeOK
<1>3. CASE UNCHANGED <<lock, proc>>
  <2>1. Set(p, proc[p])
    BY <1>3 DEF Set, IInv, TypeOK
  <2> QED BY <1>1, <1>2, <2>1, TakesNumber
<1>4. CASE \E v \in manifest.kept \ {manifest.cur} :
             /\ manifest.state = "good" /\ Good(v)
             /\ lock' = p
             /\ Set(p, [Idle EXCEPT !.pc = "manifest", !.kind = "rollback",
                                    !.gen = NextGen, !.ver = v])
  <2>1. PICK v : Good(v) /\ Set(p, [Idle EXCEPT !.pc = "manifest", !.kind = "rollback",
                                                !.gen = NextGen, !.ver = v])
    BY <1>4
  <2> DEFINE r == [Idle EXCEPT !.pc = "manifest", !.kind = "rollback",
                               !.gen = NextGen, !.ver = v]
  <2>2. r \in Proc /\ r.gen = given'
    <3>1. v \in OrNone
      BY <2>1, PublicationAssumption DEF Good, Versions, OrNone
    <3> QED BY <1>1, <3>1, IdleProc DEF Proc
  <2>3. Set(p, r)
    BY <2>1
  <2> HIDE DEF r
  <2> QED BY <1>1, <1>2, <2>2, <2>3, TakesNumber
<1> QED BY <1>3, <1>4 DEF Rollback

(* Only the newest attempt stores a version and moves the pointer.         *)
LEMMA PublishPointer ==
  ASSUME IInv, NEW p \in Procs, Publish(p)
  PROVE  [Pointer!PNext]_(Pointer!pvars)
<1>0. /\ proc[p] \in Proc /\ proc[p].pc = "publish" /\ proc[p].ver \in Versions
      /\ UNCHANGED <<manifest, given>>
  BY DEF Publish, IInv, TypeOK, ProcOK, At
<1>1. CASE Set(p, Rejected(p)) /\ UNCHANGED <<version, lock, faults>>
  <2>1. Rejected(p) \in Proc /\ Rejected(p).pc \notin Holding
    BY <1>0, IdleProc DEF Rejected, Proc, Idle, Holding
  <2> QED BY <1>0, <1>1, <2>1, LetGo
<1>2. CASE /\ ~Obsolete(p) /\ Newest(p)
           /\ version' = [version EXCEPT ![proc[p].ver] = "good"]
           /\ Set(p, [proc[p] EXCEPT !.pc = "manifest"])
           /\ UNCHANGED faults
  <2> DEFINE r == [proc[p] EXCEPT !.pc = "manifest"]
  <2>1. r \in Proc /\ r.pc \in Holding /\ r.gen = proc[p].gen /\ proc[p].pc \in Holding
    BY <1>0 DEF Proc, Holding
  <2>2. Set(p, r)
    BY <1>2
  <2> HIDE DEF r
  <2>3. Ticket' = Ticket /\ Ticket[p] = proc[p].gen
    BY <2>1, <2>2, TicketFacts
  <2>4. Ticket[p] # 0 /\ Ticket[p] = given
    BY <1>2, <2>3 DEF Newest, IInv, TypeOK, Attempts, AttemptIsNewest
  <2>5. Valid' = Valid \cup {proc[p].ver}
    BY <1>0, <1>2 DEF Valid, Good, IInv, TypeOK, Versions
  <2> QED BY <1>0, <1>2, <2>3, <2>4, <2>5, SamePublic
          DEF Pointer!PNext, Pointer!Store, Pointer!Newest
<1> QED BY <1>1, <1>2 DEF Publish

LEMMA ManifestPointer ==
  ASSUME IInv, NEW p \in Procs, WriteManifest(p)
  PROVE  [Pointer!PNext]_(Pointer!pvars)
<1>0. /\ proc[p] \in Proc /\ proc[p].pc = "manifest"
      /\ Good(proc[p].ver) /\ proc[p].gen = given /\ given > 0
  BY DEF WriteManifest, IInv, TypeOK, ProcOK, Promotion, At, Holding
<1>1. PICK old \in SUBSET History(p) :
        manifest' = [state |-> "good", cur |-> proc[p].ver, kept |-> old \cup {proc[p].ver}]
  BY DEF WriteManifest
<1>2. Published' = proc[p].ver /\ Retained' = old \cup {proc[p].ver}
  BY <1>1 DEF Published, Retained
<1>3. Retained' \in SUBSET Valid /\ Published' \in Retained'
  <2>1. History(p) \subseteq Valid
    BY DEF History, Valid, Good
  <2> QED BY <1>0, <1>2, <2>1 DEF Valid, Good
<1>4. UNCHANGED <<Valid, given, faults>>
  BY SamePublic DEF WriteManifest, bounds
<1>5. Ticket' = Pointer!Without(p) /\ Ticket[p] = given
  <2> DEFINE r == [proc[p] EXCEPT !.pc = "prune"]
  <2>1. r \in Proc /\ r.pc \notin Holding /\ proc[p].pc \in Holding
    BY <1>0 DEF Proc, Holding
  <2>2. Set(p, r)
    BY DEF WriteManifest
  <2> HIDE DEF r
  <2> QED BY <1>0, <2>1, <2>2, TicketFacts
<1>6. Ticket[p] # 0
  BY <1>0, <1>5 DEF IInv, TypeOK
<1> QED BY <1>3, <1>4, <1>5, <1>6 DEF Pointer!PNext, Pointer!Move, Pointer!Newest

(* What happens after the pointer has moved touches neither it nor a number *)
(* that is held; a report may take one of its own, and a write may fail.    *)
LEMMA ReportPointer ==
  ASSUME IInv, NEW p \in Procs, NEW r \in Proc, Set(p, r),
         UNCHANGED <<version, manifest>>,
         proc[p].pc \notin Holding, r.pc \notin Holding,
         given' \in Nat, given' = given \/ given' > given,
         faults' = faults \/ faults' = faults + 1
  PROVE  [Pointer!PNext]_(Pointer!pvars)
<1>1. UNCHANGED <<Published, Retained, Valid>>
  BY SamePublic
<1>2. Ticket' = Ticket
  BY TicketFacts
<1>3. CASE given' = given /\ faults' = faults
  BY <1>1, <1>2, <1>3 DEF Pointer!pvars
<1>4. CASE given' > given /\ faults' = faults
  BY <1>1, <1>2, <1>4 DEF Pointer!PNext, Pointer!Skip
<1>5. CASE faults' = faults + 1
  <2>1. given' >= given
    BY DEF IInv, TypeOK
  <2> QED BY <1>1, <1>2, <1>5, <2>1 DEF Pointer!PNext, Pointer!Fault
<1> QED BY <1>3, <1>4, <1>5

LEMMA AllocatedNumber ==
  ASSUME IInv, NEW p \in Procs, Allocate(p)
  PROVE  given' \in Nat /\ (given' = given \/ given' > given)
BY NextGenFacts, WriteAttemptFacts DEF Allocate, IInv, TypeOK

LEMMA StatusPointer ==
  ASSUME IInv, NEW p \in Procs, Report(p) \/ Record(p) \/ WriteStatus(p)
  PROVE  [Pointer!PNext]_(Pointer!pvars)
<1>0. /\ proc[p] \in Proc /\ Idle \in Proc /\ Idle.pc = "idle"
      /\ proc[p].pc \notin Holding
  BY IdleProc DEF IInv, TypeOK, Report, Record, WriteStatus, At, Holding
<1>1. CASE SyncCache(p)
  <2>1. PICK written \in {0, 1} :
          Set(p, [proc[p] EXCEPT !.pc = "status", !.gen = GenOf(p), !.base = written])
    BY <1>1 DEF SyncCache
  <2>2. /\ Allocate(p) /\ UNCHANGED <<version, manifest>>
        /\ faults' = faults \/ faults' = faults + 1
    BY <1>1 DEF SyncCache
  <2> DEFINE r == [proc[p] EXCEPT !.pc = "status", !.gen = GenOf(p), !.base = written]
  <2>3. r \in Proc /\ r.pc \notin Holding
    <3>1. written \in OrNone
      BY PublicationAssumption DEF OrNone
    <3>2. GenOf(p) \in Nat
      BY <2>2, AllocateFacts
    <3> QED BY <1>0, <3>1, <3>2 DEF Proc, Holding
  <2>4. Set(p, r)
    BY <2>1
  <2> HIDE DEF r
  <2> QED BY <1>0, <2>2, <2>3, <2>4, AllocatedNumber, ReportPointer
<1>2. CASE CannotSync(p)
  <2> DEFINE cold == [proc[p] EXCEPT !.pc = "record"]
             r == IF proc[p].ok THEN Idle ELSE cold
  <2>1. r \in Proc /\ r.pc \notin Holding
    <3>1. cold \in Proc /\ cold.pc = "record"
      BY <1>0 DEF Proc
    <3> QED BY <1>0, <3>1 DEF Holding
  <2>2. Set(p, r) /\ Allocate(p) /\ UNCHANGED <<version, manifest, faults>>
    BY <1>2 DEF CannotSync, bounds
  <2> HIDE DEF r
  <2> QED BY <1>0, <2>1, <2>2, AllocatedNumber, ReportPointer
<1>3. CASE Set(p, Idle) /\ Allocate(p) /\ UNCHANGED <<version, manifest, bounds>>
  <2>1. Idle.pc \notin Holding /\ UNCHANGED faults
    BY <1>0, <1>3 DEF Holding, bounds
  <2> QED BY <1>0, <1>3, <2>1, AllocatedNumber, ReportPointer
<1>4. CASE WriteStatus(p)
  <2>1. /\ Set(p, Idle) /\ UNCHANGED <<version, manifest, given>> /\ given' \in Nat
        /\ faults' = faults \/ faults' = faults + 1
    BY <1>4 DEF WriteStatus, IInv, TypeOK
  <2> QED BY <1>0, <2>1, ReportPointer DEF Holding
<1> QED BY <1>1, <1>2, <1>3, <1>4 DEF Report, Record

(* What is cleaned up is in no history.                                    *)
LEMMA PrunePointer ==
  ASSUME IInv, NEW p \in Procs, Prune(p)
  PROVE  [Pointer!PNext]_(Pointer!pvars)
<1>1. PICK gone \in {{}, Unneeded} :
        version' = [v \in Versions |-> IF v \in gone THEN "missing" ELSE version[v]]
  BY DEF Prune
<1>2. Valid' \in SUBSET Valid /\ Valid \cap Retained \subseteq Valid'
  BY <1>1 DEF Valid, Good, Retained, Unneeded, Versions
<1>3. UNCHANGED <<Published, Retained, given, faults>>
  BY SamePublic DEF Prune, bounds
<1>4. Ticket' = Ticket
  <2> DEFINE report == [proc[p] EXCEPT !.pc = "report", !.ok = TRUE]
             r == IF proc[p].kind = "boot" THEN Idle ELSE report
  <2>1. r \in Proc /\ r.pc \notin Holding
    <3>1. report \in Proc /\ report.pc = "report"
      BY DEF IInv, TypeOK, Proc
    <3> QED BY <3>1, IdleProc DEF Holding
  <2>2. Set(p, r) /\ proc[p].pc \notin Holding
    BY DEF Prune, At, Holding
  <2> HIDE DEF r
  <2> QED BY <2>1, <2>2, TicketFacts
<1> QED BY <1>2, <1>3, <1>4 DEF Pointer!PNext, Pointer!CleanUp

(* A refused write takes the number of its process, damage takes data.     *)
LEMMA FaultPointer ==
  ASSUME IInv, Damage \/ \E p \in Procs : WriteFails(p)
  PROVE  [Pointer!PNext]_(Pointer!pvars)
<1>1. faults' = faults + 1 /\ given' = given /\ given' >= given
  BY DEF Damage, WriteFails, IInv, TypeOK
<1>2. ASSUME NEW p \in Procs, WriteFails(p) PROVE [Pointer!PNext]_(Pointer!pvars)
  <2> DEFINE r == IF proc[p].kind = "refresh" THEN Rejected(p) ELSE Idle
  <2>1. r \in Proc /\ r.pc \notin Holding
    BY RejectedType, IdleProc DEF Holding
  <2>2. Set(p, r) /\ UNCHANGED <<version, manifest>>
    BY <1>2 DEF WriteFails, files
  <2> HIDE DEF r
  <2>3. Ticket' = Pointer!Without(p)
    BY <2>1, <2>2, TicketFacts
  <2>4. UNCHANGED <<Published, Retained, Valid>>
    BY <2>2, SamePublic
  <2> QED BY <1>1, <2>3, <2>4 DEF Pointer!PNext, Pointer!Fault
<1>3. CASE Damage
  <2>1. Ticket' = Ticket
    BY <1>3 DEF Damage, Ticket
  <2>2. Valid' \in SUBSET Valid
    <3>1. CASE UNCHANGED version
      BY <3>1, SamePublic
    <3>2. CASE \E v \in Valid : version' = [version EXCEPT ![v] = "corrupt"]
      BY <3>2 DEF Valid, Good, IInv, TypeOK, Versions
    <3> QED BY <1>3, <3>1, <3>2 DEF Damage
  <2>3. UNCHANGED <<Published, Retained>> \/ (Published' = 0 /\ Retained' = {})
    <3>1. CASE UNCHANGED manifest
      BY <3>1, SamePublic
    <3>2. CASE \E s \in {"missing", "corrupt"} :
                 manifest' = [state |-> s, cur |-> 0, kept |-> {}]
      BY <3>2 DEF Published, Retained
    <3> QED BY <1>3, <3>1, <3>2 DEF Damage
  <2> QED BY <1>1, <2>1, <2>2, <2>3 DEF Pointer!PNext, Pointer!Fault
<1> QED BY <1>2, <1>3

(* The store implements the abstract pointer, for any number of processes,  *)
(* versions, kills and faults and any retention: only the holder of the     *)
(* newest number stores and moves, once, the pointer and the history name   *)
(* versions whose data is there, and only a fault takes such data away.     *)
THEOREM Refinement == Spec => ImplementsPublishedPointer
<1>1. Init => Pointer!PInit
  <2> SUFFICES ASSUME Init PROVE Pointer!PInit
    OBVIOUS
  <2>1. given = 0 /\ faults = 0 /\ Published = 0 /\ Retained = {} /\ Valid = {}
    BY DEF Init, Published, Retained, Valid, Good
  <2>2. Ticket = [p \in Procs |-> 0]
    BY DEF Init, Ticket, Holding, Idle
  <2> QED BY <2>1, <2>2 DEF Pointer!PInit
<1>2. ASSUME IInv, [Next]_vars PROVE [Pointer!PNext]_(Pointer!pvars)
  <2>1. CASE UNCHANGED vars
    <3>1. Ticket' = Ticket
      BY <2>1 DEF vars, Ticket
    <3>2. UNCHANGED <<Published, Retained, Valid, given, faults>>
      BY <2>1, SamePublic DEF vars, files, bounds
    <3> QED BY <3>1, <3>2 DEF Pointer!pvars
  <2>2. CASE Damage \/ \E p \in Procs : WriteFails(p)
    BY <1>2, <2>2, FaultPointer
  <2>3. ASSUME NEW p \in Procs,
               \/ StartRefresh(p) \/ SkipSource(p) \/ Fetched(p)
               \/ BootCheck(p) \/ BootPointer(p) \/ BootScan(p) \/ BootCurrent(p)
               \/ Kill(p)
        PROVE  [Pointer!PNext]_(Pointer!pvars)
    BY <1>2, <2>3, PrivatePointer
  <2>4. ASSUME NEW p \in Procs, Begin(p) \/ Rollback(p)
        PROVE  [Pointer!PNext]_(Pointer!pvars)
    BY <1>2, <2>4, BeginPointer, RollbackPointer
  <2>5. ASSUME NEW p \in Procs, Publish(p) \/ WriteManifest(p) \/ Prune(p)
        PROVE  [Pointer!PNext]_(Pointer!pvars)
    BY <1>2, <2>5, PublishPointer, ManifestPointer, PrunePointer
  <2>6. ASSUME NEW p \in Procs, Report(p) \/ Record(p) \/ WriteStatus(p)
        PROVE  [Pointer!PNext]_(Pointer!pvars)
    BY <1>2, <2>6, StatusPointer
  <2> QED BY <1>2, <2>1, <2>2, <2>3, <2>4, <2>5, <2>6 DEF Next
<1> QED BY <1>1, <1>2, Invariance, PTL
        DEF Spec, ImplementsPublishedPointer, Pointer!PSpec
=============================================================================
