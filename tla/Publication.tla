----------------------------- MODULE Publication -----------------------------
(***************************************************************************)
(* The durable publication channel of the Standard card statistics         *)
(* (app/dataset_publication_store.py) with the callers that write to it: a *)
(* refresh (app/fetcher.py), the administrator's rollback and the startup  *)
(* repair (app/main.py).                                                   *)
(*                                                                         *)
(* Every operation holds a lock across processes, which the kernel         *)
(* releases when its holder dies; within it each durable write is a step,  *)
(* so a process may be killed between any two of them.  A dataset is known *)
(* by its fetched_at, a tick of the clock: version v was fetched at v, and *)
(* two fetches do not start in the same microsecond.  The history in the   *)
(* manifest is kept as a set, and which entry the retention drops is left  *)
(* open.  The staged candidate, written and read under one lock, and the   *)
(* quarantine, which nothing reads back, are left out.                     *)
(***************************************************************************)
EXTENDS Naturals, FiniteSets

CONSTANTS Procs, None,
          MaxVersions,   \* bound: datasets fetched
          Retention,     \* versions that the manifest keeps
          MaxCalls,      \* bound: rollbacks, sources skipped
          MaxStartups,   \* bound: starts of the API process
          MaxFaults,     \* bound: damaged files, failed writes
          MaxKills       \* bound: processes killed

VARIABLES attempts,      \* attempt-state.json, the last generation
          version,       \* [Versions -> state of the immutable file]
          manifest,      \* published.json: current version, versions kept
          status,        \* the mutable status file
          cache,         \* the mutable dataset file, 0: none or unreadable
          lock, proc,
          clock,         \* last fetched_at
          given,         \* history: the highest generation ever given
          calls, startups, faults, kills

bounds == <<calls, startups, faults, kills>>
files == <<attempts, version, manifest, status, cache>>
vars == <<files, lock, proc, clock, given, bounds>>

Versions == 1..MaxVersions
OrNone == 0..MaxVersions                    \* 0: none
FileStates == {"missing", "corrupt", "good"}

Attempts == [state : {"good"}, gen : Nat \ {0}]
              \cup [state : {"missing", "corrupt"}, gen : {0}]
Manifest == [state : FileStates, cur : OrNone, kept : SUBSET Versions]
Status   == [state : FileStates, gen : Nat, ver : OrNone, failed : BOOLEAN]
Proc == [pc : {"idle", "begin", "fetch", "publish", "manifest", "prune", "report",
               "status", "record", "bootPointer", "bootScan", "bootCurrent"},
         kind : {"refresh", "rollback", "boot"},
         gen  : Nat,          \* publication_attempt.generation
         ver  : OrNone,       \* candidate, or target of a rollback
         base : OrNone,       \* boot: the pointer, then validated_previous
         ok   : BOOLEAN]      \* what is to be reported

Idle == [pc |-> "idle", kind |-> "refresh", gen |-> 0, ver |-> 0, base |-> 0,
         ok |-> FALSE]

(* A cold store, or a cache from before the store existed.                 *)
Init == /\ attempts = [state |-> "missing", gen |-> 0]
        /\ version = [v \in Versions |-> "missing"]
        /\ manifest = [state |-> "missing", cur |-> 0, kept |-> {}]
        /\ status = [state |-> "missing", gen |-> 0, ver |-> 0, failed |-> FALSE]
        /\ cache \in {0, 1} /\ clock = cache
        /\ lock = None
        /\ proc = [p \in Procs |-> Idle]
        /\ given = 0 /\ calls = 0 /\ startups = 0 /\ faults = 0 /\ kills = 0

-----------------------------------------------------------------------------
Larger(a, b) == IF a >= b THEN a ELSE b
Greatest(S) == IF S = {} THEN 0 ELSE CHOOSE v \in S : \A w \in S : w <= v
Others(S) == {v \in S : v # Greatest(S)}   \* all but the greatest

Good(v) == v \in Versions /\ version[v] = "good"
Valid == {v \in Versions : Good(v)}         \* _discover_valid_versions
Readable == manifest.state = "good" /\ Good(manifest.cur)

Recorded == IF attempts.state = "good" THEN attempts.gen ELSE 0
StatusGen == IF status.state = "good" THEN status.gen ELSE 0

(* begin_publication_attempt: when the file is lost, the numbers go on     *)
(* from the time in nanoseconds, later than any generation given before.   *)
NextGen ==
  LET last == Larger(Recorded, StatusGen)
      lost == /\ attempts.state # "good"
              /\ \/ attempts.state = "corrupt"
                 \/ last > 0
                 \/ manifest.state # "missing"
  IN  (IF lost THEN Larger(last, given) ELSE last) + 1

WriteAttempt(g) == /\ attempts' = [state |-> "good", gen |-> g]
                   /\ given' = Larger(given, g)

Set(p, r) == proc' = [proc EXCEPT ![p] = r]
At(p, pc) == proc[p].pc = pc
Free(p) == lock \in {None, p}

-----------------------------------------------------------------------------
(* A refresh: its fetched_at is taken before its generation.               *)
StartRefresh(p) ==
  /\ At(p, "idle")
  /\ clock < MaxVersions
  /\ clock' = clock + 1
  /\ Set(p, [Idle EXCEPT !.pc = "begin", !.ver = clock + 1])
  /\ UNCHANGED <<files, lock, given, bounds>>

(* A source that is not fetched, because the proxy is out of credit, is    *)
(* reported without an attempt of its own, and so is one whose fetch finds *)
(* that out.                                                               *)
SkipSource(p) ==
  /\ At(p, "idle") \/ At(p, "fetch")
  /\ calls < MaxCalls
  /\ calls' = calls + 1
  /\ Set(p, [Idle EXCEPT !.pc = "report"])
  /\ UNCHANGED <<files, lock, clock, given, startups, faults, kills>>

Begin(p) ==
  /\ At(p, "begin")
  /\ lock = None
  /\ WriteAttempt(NextGen)
  /\ Set(p, [proc[p] EXCEPT !.gen = NextGen,
                !.pc = IF proc[p].kind = "boot" THEN "publish" ELSE "fetch"])
  /\ UNCHANGED <<version, manifest, status, cache, lock, clock, bounds>>

(* The scraper fails, the AI review quarantines, or there is a candidate.  *)
Fetched(p) ==
  /\ At(p, "fetch")
  /\ \E pc \in {"publish", "report"} : Set(p, [proc[p] EXCEPT !.pc = pc])
  /\ UNCHANGED <<files, lock, clock, given, bounds>>

(* What becomes of a candidate that is not promoted: the refresh reports a *)
(* failure, the startup repair only logs it.                               *)
Rejected(p) == IF proc[p].kind = "boot" THEN Idle
               ELSE [proc[p] EXCEPT !.pc = "report", !.ok = FALSE]

(* The dataset that the candidate is compared with.                        *)
Previous(p) == IF proc[p].kind = "boot" THEN proc[p].base
               ELSE IF Readable THEN manifest.cur
               ELSE Greatest(Valid)
Obsolete_Never(p) == FALSE                                        \* mutant
Obsolete(p) == Previous(p) # 0 /\ proc[p].ver <= Previous(p)

Newest_Always(p) == attempts.state = "good"                       \* mutant
Newest(p) == attempts.state = "good" /\ attempts.gen = proc[p].gen

(* validate_and_publish_standard_cards_candidate up to its first durable   *)
(* write, the immutable file.  Whether the candidate is valid is left open.*)
Publish(p) ==
  /\ At(p, "publish")
  /\ lock = None
  /\ \/ /\ Set(p, Rejected(p))
        /\ UNCHANGED <<version, lock, faults>>
     \/ /\ ~Obsolete(p) /\ Newest(p)
        /\ version[proc[p].ver] # "corrupt"
        /\ version' = [version EXCEPT ![proc[p].ver] = "good"]
        /\ lock' = p
        /\ Set(p, [proc[p] EXCEPT !.pc = "manifest"])
        /\ UNCHANGED faults
  /\ UNCHANGED <<attempts, manifest, status, cache, clock, given, calls, startups, kills>>

History_Unchecked(p) == manifest.kept \ {proc[p].ver}              \* mutant

(* promote_candidate and rollback_to_version: the history that the new     *)
(* manifest keeps, without the damaged versions.                           *)
History(p) == LET old == IF proc[p].kind = "rollback" \/ Readable
                         THEN manifest.kept ELSE Valid
              IN  {v \in old : Good(v)} \ {proc[p].ver}

WriteManifest(p) ==
  /\ At(p, "manifest")
  /\ \E old \in SUBSET History(p) :
        /\ \/ old = History(p) /\ Cardinality(old) < Retention
           \/ Cardinality(old) = Retention - 1 /\ old # History(p)
        /\ manifest' = [state |-> "good", cur |-> proc[p].ver,
                        kept |-> old \cup {proc[p].ver}]
  /\ Set(p, [proc[p] EXCEPT !.pc = "prune"])
  /\ UNCHANGED <<attempts, version, status, cache, lock, clock, given, bounds>>

(* The file system refuses a write of promote_candidate.                   *)
WriteFails(p) ==
  /\ At(p, "manifest")
  /\ faults < MaxFaults
  /\ faults' = faults + 1
  /\ lock' = None
  /\ Set(p, IF proc[p].kind = "refresh" THEN Rejected(p) ELSE Idle)
  /\ UNCHANGED <<files, clock, given, calls, startups, kills>>

(* The files that are not kept are unlinked; a failure leaves some.  A     *)
(* rollback goes on under the lock, a repair ends here.                    *)
Unneeded_All == {v \in Versions : v # manifest.cur}               \* mutant
Unneeded == {v \in Versions : v \notin manifest.kept}
Prune(p) ==
  /\ At(p, "prune")
  /\ \E gone \in {{}, Unneeded} :
       version' = [v \in Versions |-> IF v \in gone THEN "missing" ELSE version[v]]
  /\ lock' = IF proc[p].kind = "rollback" THEN p ELSE None
  /\ Set(p, IF proc[p].kind = "boot" THEN Idle
            ELSE [proc[p] EXCEPT !.pc = "report", !.ok = TRUE])
  /\ UNCHANGED <<attempts, manifest, status, cache, clock, given, bounds>>

-----------------------------------------------------------------------------
(* reconcile_current_publication: the cache is written, then the status.   *)
(* Without an attempt the generation is allocated first.                   *)
GenOf(p) == IF proc[p].gen = 0 THEN NextGen ELSE proc[p].gen
Allocate(p) == IF proc[p].gen = 0 THEN WriteAttempt(NextGen)
               ELSE UNCHANGED <<attempts, given>>

(* The version that is served: not the attempt's own, if it was overtaken. *)
Served_Candidate(p) == IF proc[p].ok THEN proc[p].ver ELSE manifest.cur  \* mutant
Served(p) == manifest.cur

SyncCache(p) ==
  /\ Readable
  /\ Allocate(p)
  /\ \/ /\ cache' = Served(p)
        /\ Set(p, [proc[p] EXCEPT !.pc = "status", !.gen = GenOf(p), !.base = 1])
        /\ UNCHANGED faults
     \/ /\ faults < MaxFaults
        /\ faults' = faults + 1
        /\ Set(p, [proc[p] EXCEPT !.pc = "status", !.gen = GenOf(p), !.base = 0])
        /\ UNCHANGED cache
  /\ lock' = p
  /\ UNCHANGED <<version, manifest, status, clock, calls, startups, kills>>

(* Nothing readable is published: a failure goes on to the cold status, a  *)
(* publication and a rollback end with the status that was there.          *)
CannotSync(p) ==
  /\ ~Readable
  /\ Allocate(p)
  /\ lock' = None
  /\ Set(p, IF proc[p].ok THEN Idle ELSE [proc[p] EXCEPT !.pc = "record"])
  /\ UNCHANGED <<version, manifest, status, cache, clock, bounds>>

Report(p) == At(p, "report") /\ Free(p) /\ (SyncCache(p) \/ CannotSync(p))

(* Who the status is about.                                                *)
Latest(p) == IF attempts.state = "good" THEN attempts.gen ELSE proc[p].gen
Superseded(p) == \/ proc[p].ok /\ proc[p].ver # manifest.cur
                 \/ proc[p].gen < Larger(StatusGen, Latest(p))
Preserved_Never(p) == FALSE                                       \* mutant
Preserved(p) == /\ Superseded(p)
                /\ status.state = "good" /\ status.ver = manifest.cur

AppliedGen(p) == IF Preserved(p) THEN StatusGen
                 ELSE IF Superseded(p)
                 THEN Larger(proc[p].gen, Larger(StatusGen, Latest(p)))
                 ELSE proc[p].gen
SaysFailed(p) == \/ proc[p].base = 0                  \* the cache was not written
                 \/ IF Preserved(p) THEN status.failed
                    ELSE ~proc[p].ok /\ ~Superseded(p)

WriteStatus(p) ==
  /\ At(p, "status")
  /\ \/ /\ status' = [state |-> "good", gen |-> AppliedGen(p),
                      ver |-> manifest.cur, failed |-> SaysFailed(p)]
        /\ UNCHANGED faults
     \/ /\ faults < MaxFaults
        /\ faults' = faults + 1
        /\ UNCHANGED status
  /\ lock' = None
  /\ Set(p, Idle)
  /\ UNCHANGED <<attempts, version, manifest, cache, clock, given, calls, startups, kills>>

(* record_status_without_publication: a cold failure, unless an attempt    *)
(* since has a newer status, or something is published by now.             *)
Record(p) ==
  /\ At(p, "record")
  /\ lock = None
  /\ \/ SyncCache(p)
     \/ /\ ~Readable
        /\ Allocate(p)
        /\ IF GenOf(p) < Larger(StatusGen, Recorded) THEN UNCHANGED status
           ELSE status' = [state |-> "good", gen |-> GenOf(p), ver |-> 0,
                           failed |-> TRUE]
        /\ Set(p, Idle)
        /\ UNCHANGED <<version, manifest, cache, lock, clock, bounds>>

-----------------------------------------------------------------------------
(* The administrator goes back to a version that is kept: one transaction. *)
Rollback(p) ==
  /\ At(p, "idle")
  /\ lock = None
  /\ calls < MaxCalls
  /\ calls' = calls + 1
  /\ WriteAttempt(NextGen)
  /\ \/ UNCHANGED <<lock, proc>>                      \* refused, 409 or 422
     \/ \E v \in manifest.kept \ {manifest.cur} :
          /\ manifest.state = "good" /\ Good(v)
          /\ lock' = p
          /\ Set(p, [Idle EXCEPT !.pc = "manifest", !.kind = "rollback",
                                 !.gen = NextGen, !.ver = v])
  /\ UNCHANGED <<version, manifest, status, cache, clock, startups, faults, kills>>

(* bootstrap_standard_cards_publication: what is published is unreadable,  *)
(* or too old (ok: it was readable).                                       *)
BootCheck(p) ==
  /\ At(p, "idle")
  /\ lock = None
  /\ startups < MaxStartups
  /\ startups' = startups + 1
  /\ Set(p, [Idle EXCEPT !.pc = "bootPointer", !.kind = "boot", !.ok = Readable])
  /\ UNCHANGED <<files, lock, clock, given, calls, faults, kills>>

(* A manifest whose version is damaged is left to the administrator.       *)
BootPointer(p) ==
  /\ At(p, "bootPointer")
  /\ lock = None
  /\ LET pointer == IF manifest.state = "good" THEN manifest.cur ELSE 0 IN
     Set(p, IF pointer # 0 /\ ~proc[p].ok THEN Idle
            ELSE [proc[p] EXCEPT !.pc = "bootScan", !.base = pointer])
  /\ UNCHANGED <<files, lock, clock, given, bounds>>

(* The immutable versions and the cache, those that the validators accept: *)
(* the newest is to be published, the next is what it is compared with.    *)
BootScan(p) ==
  /\ At(p, "bootScan")
  /\ lock = None
  /\ \E found \in SUBSET (Valid \cup ({cache} \ {0})) :
       Set(p, IF found = {} THEN Idle
              ELSE [proc[p] EXCEPT !.ver = Greatest(found),
                       !.pc = IF proc[p].base # 0 THEN "bootCurrent" ELSE "begin",
                       !.base = Greatest(Others(found))])
  /\ UNCHANGED <<files, lock, clock, given, bounds>>

BootCurrent(p) ==
  /\ At(p, "bootCurrent")
  /\ lock = None
  /\ Set(p, IF Readable /\ proc[p].ver <= manifest.cur THEN Idle
            ELSE [proc[p] EXCEPT !.pc = "begin"])
  /\ UNCHANGED <<files, lock, clock, given, bounds>>

-----------------------------------------------------------------------------
(* A process dies; the kernel releases its lock.                           *)
Kill(p) ==
  /\ ~At(p, "idle")
  /\ kills < MaxKills
  /\ kills' = kills + 1
  /\ lock' = IF lock = p THEN None ELSE lock
  /\ Set(p, Idle)
  /\ UNCHANGED <<files, clock, given, calls, startups, faults>>

(* A lost attempt file can be told from a cold store (see the README).     *)
Evidence == attempts.state = "missing" =>
              (manifest.state # "missing" \/ StatusGen > 0 \/ given = 0)

(* A file is damaged or lost between two transactions.                     *)
Damage ==
  /\ lock = None
  /\ faults < MaxFaults
  /\ faults' = faults + 1
  /\ \/ /\ \E v \in Valid : version' = [version EXCEPT ![v] = "corrupt"]
        /\ UNCHANGED <<attempts, manifest, status, cache>>
     \/ /\ \E s \in {"missing", "corrupt"} :
              manifest' = [state |-> s, cur |-> 0, kept |-> {}]
        /\ UNCHANGED <<attempts, version, status, cache>>
     \/ /\ \E s \in {"missing", "corrupt"} :
              attempts' = [state |-> s, gen |-> 0]
        /\ UNCHANGED <<version, manifest, status, cache>>
     \/ /\ status' = [state |-> "corrupt", gen |-> 0, ver |-> 0, failed |-> FALSE]
        /\ UNCHANGED <<attempts, version, manifest, cache>>
     \/ /\ cache' = 0
        /\ UNCHANGED <<attempts, version, manifest, status>>
  /\ UNCHANGED <<lock, proc, clock, given, calls, startups, kills>>
  /\ Evidence'

Next == \/ \E p \in Procs :
             \/ StartRefresh(p) \/ SkipSource(p) \/ Begin(p) \/ Fetched(p)
             \/ Publish(p) \/ WriteManifest(p) \/ WriteFails(p) \/ Prune(p)
             \/ Report(p) \/ WriteStatus(p) \/ Record(p)
             \/ Rollback(p)
             \/ BootCheck(p) \/ BootPointer(p) \/ BootScan(p) \/ BootCurrent(p)
             \/ Kill(p)
        \/ Damage

Spec == Init /\ [][Next]_vars

ASSUME PublicationAssumption ==
  /\ None \notin Procs
  /\ MaxVersions \in Nat \ {0} /\ Retention \in Nat \ {0, 1}
  /\ MaxCalls \in Nat /\ MaxStartups \in Nat
  /\ MaxFaults \in Nat /\ MaxKills \in Nat

TypeOK == /\ attempts \in Attempts /\ manifest \in Manifest /\ status \in Status
          /\ version \in [Versions -> FileStates]
          /\ cache \in OrNone /\ clock \in OrNone /\ given \in Nat
          /\ lock \in Procs \cup {None} /\ proc \in [Procs -> Proc]
          /\ calls \in Nat /\ startups \in Nat /\ faults \in Nat /\ kills \in Nat

-----------------------------------------------------------------------------
(* Whatever is killed or fails, each version that the manifest keeps has   *)
(* its file, the current one and those a rollback may choose: new files    *)
(* come before the manifest that names them, and old ones go after.        *)
KeptHaveFiles ==
  manifest.state = "good" =>
    /\ manifest.cur \in manifest.kept
    /\ \A v \in manifest.kept : version[v] # "missing"

(* Only the newest attempt moves the pointer: a refresh that was overtaken *)
(* by another one or by a rollback, refused or not, publishes nothing,     *)
(* although the file with the generations may have been lost since.        *)
Moves(p) == manifest'.state = "good" /\ manifest' # manifest /\ lock = p
NewestAttemptDecides ==
  [][\A p \in Procs : Moves(p) => proc[p].gen = given]_vars

(* A refresh never replaces what is published by something fetched before  *)
(* it, however its fetch was delayed.                                      *)
RefreshNeverGoesBack ==
  [][\A p \in Procs : Moves(p) /\ proc[p].kind = "refresh" /\ Readable =>
        manifest'.cur > manifest.cur]_vars

(* The status only advances: its generation never falls, and the failure   *)
(* that it records of one attempt is not taken back by the late report of  *)
(* an older attempt, while the same version is published.                  *)
StatusOnlyAdvances ==
  [][status.state = "good" /\ status'.state = "good" =>
       /\ status'.gen >= status.gen
       /\ \A p \in Procs :
            (/\ lock = p /\ proc[p].gen < status.gen
             /\ status'.gen = status.gen /\ status'.ver = status.ver
             /\ status.failed) => status'.failed]_vars

(* When everything has ended, nothing having been killed, damaged or       *)
(* repaired, the cache and the status name the version that is published,  *)
(* in whatever order the attempts have reported.                           *)
QuietAgreement ==
  (/\ \A p \in Procs : At(p, "idle")
   /\ kills = 0 /\ faults = 0 /\ startups = 0 /\ manifest.state = "good")
     => cache = manifest.cur /\ status.ver = manifest.cur

(* The store as its writers and readers may think of it: the holder of the *)
(* newest number moves a pointer whose data is there, and what the pointer *)
(* and the history keep is lost to damage only, wherever a writer dies.    *)
Holding == {"fetch", "publish", "manifest"}
Ticket == [p \in Procs |-> IF proc[p].pc \in Holding THEN proc[p].gen ELSE 0]
Published == IF manifest.state = "good" THEN manifest.cur ELSE 0
Retained == IF manifest.state = "good" THEN manifest.kept ELSE {}
Pointer == INSTANCE PublishedPointer WITH
  Writers <- Procs, Data <- Versions,
  last <- given, ticket <- Ticket,
  pointer <- Published, kept <- Retained, stored <- Valid
ImplementsPublishedPointer == Pointer!PSpec

-----------------------------------------------------------------------------
(* "never replaces an already healthy published LKG" (app/main.py:271).    *)
RepairKeepsHealthy ==
  [][\A p \in Procs : Moves(p) /\ proc[p].kind = "boot" /\ Readable =>
        manifest'.cur >= manifest.cur]_vars
=============================================================================
