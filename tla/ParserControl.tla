---------------------------- MODULE ParserControl ----------------------------
(***************************************************************************)
(* The control plane of the parsers (app/parser_control.py): a durable     *)
(* queue of runs, filled by HTTP handlers and emptied by one worker thread *)
(* of the API process.  Every operation of the store runs under a file     *)
(* lock and replaces the file whole, so each is one step.                  *)
(*                                                                         *)
(* Runs are numbered in the order of createdAt, which is the order of the  *)
(* list.  The list keeps its last MaxRecent entries, so run i is retained  *)
(* while fewer than MaxRecent runs are newer; what is dropped stays in the *)
(* variable, frozen and out of reach of every operation.                   *)
(***************************************************************************)
EXTENDS Naturals, FiniteSets

CONSTANTS Sources,
          Requests,      \* orchestrator request ids
          Recoveries,    \* recovery chain ids
          Selections,    \* bound: the source sets that callers ask for
          FetchResults,  \* bound: what a scraper may return
          MaxPending,    \* MAX_PENDING_RUNS
          MaxRecent,     \* MAX_RECENT_RUNS
          MaxRuns,       \* bound: runs ever accepted
          MaxRestarts,   \* bound: restarts of the process
          MaxFaults,     \* bound: failed accesses to the file
          None

VARIABLES run,           \* [Ids -> Row]
          count,         \* number of runs accepted
          ledger,        \* [Requests -> Entry or None], orchestratorRequests
          worker,        \* the worker thread
          restarts, faults

vars == <<run, count, ledger, worker, restarts, faults>>

Ids == 1..MaxRuns
Contexts == {"manual"} \cup Recoveries   \* attempt purpose and recovery chain
ActiveStatuses   == {"queued", "running"}
TerminalStatuses == {"succeeded", "partial", "failed"}
States   == {"ok", "partial", "error", "timed_out", "skipped"}
Outcomes == {"fresh_published", "provisional", "lkg_served", "timed_out",
             "skipped", "failed"}

RawResult == [state : States, cached : BOOLEAN, provisional : BOOLEAN,
              pending : BOOLEAN]
Summary == [state : States, cached : BOOLEAN, outcome : Outcomes]
Summaries == [Sources -> Summary \cup {None}]

Row == [status  : {"none"} \cup ActiveStatuses \cup TerminalStatuses,
        sources : SUBSET Sources,              \* sourceIds
        exec    : SUBSET Sources,              \* executionSourceIds
        deps    : [Sources -> Nat],            \* dependencySourceRuns, 0: none
        ctx     : Contexts,
        results : Summaries]

Entry == [run : Nat, sources : SUBSET Sources, ctx : Contexts]

Thread == [pc : {"down", "off", "idle", "claimed", "copying", "fetching",
                 "recording"},
           run  : Nat,                 \* the claimed run
           todo : Summaries,           \* results still to be recorded
           left : SUBSET Sources]      \* sources still to be fetched

Nothing == [s \in Sources |-> None]
NoRun == [status |-> "none", sources |-> {}, exec |-> {},
          deps |-> [s \in Sources |-> 0], ctx |-> "manual", results |-> Nothing]
Resting(pc) == [pc |-> pc, run |-> 0, todo |-> Nothing, left |-> {}]

Init == /\ run = [i \in Ids |-> NoRun]
        /\ count = 0
        /\ ledger = [q \in Requests |-> None]
        /\ worker = Resting("down")
        /\ restarts = 0
        /\ faults = 0

-----------------------------------------------------------------------------
(* classify_terminal_status, and the summary that is kept of a result.     *)
Outcome(raw) ==
  IF raw.state = "skipped" \/ raw.pending THEN "skipped"
  ELSE IF raw.state = "timed_out" THEN "timed_out"
  ELSE IF raw.cached THEN "lkg_served"
  ELSE IF raw.state # "ok" THEN "failed"
  ELSE IF raw.provisional THEN "provisional" ELSE "fresh_published"

Summarize(raw) == [state |-> raw.state, cached |-> raw.cached,
                   outcome |-> Outcome(raw)]

(* A dependency's result is summarized again, from its summary: the flags  *)
(* that the first summary did not keep are gone.                           *)
Resummarize(sum) ==
  Summarize([state |-> sum.state, cached |-> sum.cached, provisional |-> FALSE,
             pending |-> FALSE])

Failure == [state |-> "error", cached |-> FALSE, outcome |-> "failed"]
Usable(sum) == \/ sum.outcome \in {"fresh_published", "provisional", "lkg_served"}
               \/ sum.cached
               \/ sum.state = "partial"

-----------------------------------------------------------------------------
Retained_Short(i) == i \in 1..count /\ i + MaxPending > count     \* mutant
Retained(i) == i \in 1..count /\ i + MaxRecent > count
Active(i) == Retained(i) /\ run[i].status \in ActiveStatuses
ActiveIds == {i \in Ids : Active(i)}

(* enqueue_run: the active runs that cover a source, the first of them,    *)
(* and the sources that an active run has yet to fetch or to copy.         *)
Covering(s) == {i \in ActiveIds : s \in run[i].sources}
FirstCovering(s) ==
  CHOOSE i \in Covering(s) : \A j \in Covering(s) : i <= j
Busy_Queued(s) == \E i \in Covering(s) : run[i].status = "queued"  \* mutant
Busy(s) == \E i \in Covering(s) : run[i].results[s] = None

Recovered_None(rows) == rows                                       \* mutant
(* recover_interrupted_runs, called by start before it makes the thread.   *)
Recovered_Terminal(rows) == [i \in Ids |->                         \* mutant
  IF Retained(i) /\ rows[i].status \in {"running", "failed"}
  THEN [rows[i] EXCEPT !.status = "queued"] ELSE rows[i]]
Recovered(rows) == [i \in Ids |->
  IF Retained(i) /\ rows[i].status = "running"
  THEN [rows[i] EXCEPT !.status = "queued"] ELSE rows[i]]

StorageFails == faults < MaxFaults /\ faults' = faults + 1

(* What follows in the handler: start makes the thread if there is none,   *)
(* unless the file cannot be read.                                         *)
StartAfter(rows) ==
  \/ /\ worker.pc # "off"
     /\ run' = rows
     /\ UNCHANGED <<worker, faults>>
  \/ /\ worker.pc = "off"
     /\ run' = Recovered(rows)
     /\ worker' = Resting("idle")
     /\ UNCHANGED faults
  \/ /\ worker.pc = "off"
     /\ StorageFails
     /\ run' = rows
     /\ UNCHANGED worker

HasRoom == Cardinality(ActiveIds) < MaxPending /\ count < MaxRuns

Accept(sources, exec, deps, ctx) ==
  /\ HasRoom
  /\ count' = count + 1
  /\ StartAfter([run EXCEPT ![count + 1] =
       [status |-> "queued", sources |-> sources, exec |-> exec,
        deps |-> deps, ctx |-> ctx, results |-> Nothing]])

(* A run asked for in the panel: only what no active run is about to do.   *)
(* When that is nothing the caller is shown an active run.                 *)
EnqueueManual(S) ==
  LET uncovered == {s \in S : ~Busy(s)} IN
  /\ worker.pc # "down"
  /\ IF uncovered = {} THEN /\ StartAfter(run)
                            /\ UNCHANGED count
     ELSE Accept(uncovered, uncovered, [s \in Sources |-> 0], "manual")
  /\ UNCHANGED <<ledger, restarts>>

(* A run asked for by the orchestrator or by a recovery.  It fetches what  *)
(* no active run covers and takes the rest from the runs that do; one that *)
(* covers exactly the selection is the answer itself.                      *)
ExactlyCovering(S) ==
  {i \in ActiveIds : run[i].sources = S /\ \A s \in S : FirstCovering(s) = i}

EnqueueRequest(q, S, ctx) ==
  LET shared == {s \in S : Covering(s) # {}}
      record(i) == ledger' = [ledger EXCEPT ![q] =
                                [run |-> i, sources |-> S, ctx |-> ctx]]
  IN
  /\ worker.pc # "down"
  /\ ledger[q] = None
  /\ \/ \E i \in ExactlyCovering(S) :
           /\ shared = S
           /\ record(i)
           /\ StartAfter(run)
           /\ UNCHANGED count
     \/ /\ ~(shared = S /\ ExactlyCovering(S) # {})
        /\ Accept(S, S \ shared,
                  [s \in Sources |-> IF s \in shared THEN FirstCovering(s) ELSE 0],
                  ctx)
        /\ record(count + 1)
  /\ UNCHANGED restarts

(* The same request again: the retained run is the answer; when it has     *)
(* expired, or the selection or context differs, the request is refused    *)
(* before start is called.                                                 *)
RepeatRequest(q, S, ctx) ==
  /\ worker.pc # "down"
  /\ ledger[q] # None
  /\ ledger[q].sources = S /\ ledger[q].ctx = ctx
  /\ Retained(ledger[q].run)
  /\ StartAfter(run)
  /\ UNCHANGED <<count, ledger, restarts>>

-----------------------------------------------------------------------------
(* The worker thread: start, and process_next in its loop.                 *)
Boot ==
  /\ worker.pc = "down"
  /\ \/ /\ run' = Recovered(run)
        /\ worker' = Resting("idle")
        /\ UNCHANGED faults
     \/ /\ StorageFails
        /\ worker' = Resting("off")
        /\ UNCHANGED run
  /\ UNCHANGED <<count, ledger, restarts>>

DependenciesFinished_Succeeded(i) ==                               \* mutant
  \A s \in Sources : LET d == run[i].deps[s] IN
                     d # 0 => run[d].status = "succeeded"
DependenciesFinished(i) ==
  \A s \in Sources : run[i].deps[s] # 0 => ~Active(run[i].deps[s])

Queued == {i \in Ids : Retained(i) /\ run[i].status = "queued"}
Ready_Newest ==                                                   \* mutant
  {i \in Queued : \A j \in Queued : j <= i /\ DependenciesFinished(i)}
Ready == {i \in Queued : DependenciesFinished(i)}

ClaimNextRun ==
  /\ worker.pc = "idle"
  /\ \E i \in Ready :
       /\ \A j \in Ready : i <= j
       /\ run' = [run EXCEPT ![i].status = "running"]
       /\ worker' = [Resting("claimed") EXCEPT !.run = i]
  /\ UNCHANGED <<count, ledger, restarts, faults>>

(* dependency_results: a dependency without a result counts as failed.     *)
DependencyResult_Succeeded(i, s) ==                                \* mutant
  LET d == run[i].deps[s] IN
  IF d = 0 \/ run[d].status # "succeeded" THEN None
  ELSE Resummarize(run[d].results[s])

DependencyResult(i, s) ==
  LET d == run[i].deps[s] IN
  IF d = 0 \/ ~Retained(i) \/ s \notin run[i].sources THEN None
  ELSE IF Retained(d) /\ run[d].results[s] # None
  THEN Resummarize(run[d].results[s]) ELSE Failure

ReadDependencies ==
  /\ worker.pc = "claimed"
  /\ worker' = [worker EXCEPT !.pc = "copying",
                  !.todo = [s \in Sources |-> DependencyResult(worker.run, s)]]
  /\ UNCHANGED <<run, count, ledger, restarts, faults>>

(* record_run_result replaces what the run has of this source.             *)
Record(s) ==
  /\ worker.todo[s] # None
  /\ run' = IF Retained(worker.run)
            THEN [run EXCEPT ![worker.run].results[s] = worker.todo[s]] ELSE run

RecordDependency(s) ==
  /\ worker.pc = "copying"
  /\ Record(s)
  /\ worker' = [worker EXCEPT !.todo[s] = None]
  /\ UNCHANGED <<count, ledger, restarts, faults>>

(* What has a result is skipped; the rest is fetched one by one.           *)
Unfetched_All(row) == row.exec                                     \* mutant
Unfetched(row) == {s \in row.exec : row.results[s] = None}

Resume ==
  /\ worker.pc = "copying"
  /\ worker.todo = Nothing
  /\ worker' = [worker EXCEPT !.pc = "fetching",
                              !.left = Unfetched(run[worker.run])]
  /\ UNCHANGED <<run, count, ledger, restarts, faults>>

(* execute_parser_run of one source, its result or its exception.          *)
Fetch(s) ==
  /\ worker.pc = "fetching"
  /\ s \in worker.left
  /\ \E sum \in {Summarize(raw) : raw \in FetchResults} \cup {Failure} :
       worker' = [worker EXCEPT !.pc = "recording", !.left = @ \ {s},
                                !.todo[s] = sum]
  /\ UNCHANGED <<run, count, ledger, restarts, faults>>

RecordFetched(s) ==
  /\ worker.pc = "recording"
  /\ Record(s)
  /\ worker' = [worker EXCEPT !.pc = "fetching", !.todo[s] = None]
  /\ UNCHANGED <<count, ledger, restarts, faults>>

TerminalStatus(row) ==
  LET got == {s \in row.sources : row.results[s] # None} IN
  IF /\ row.sources # {} /\ got = row.sources
     /\ \A s \in got : row.results[s].outcome = "fresh_published"
  THEN "succeeded"
  ELSE IF \E s \in got : Usable(row.results[s]) THEN "partial" ELSE "failed"

(* The results are read back and the run is finished with them; only this  *)
(* thread writes them, so the two accesses are one step.                   *)
FinishRun ==
  /\ worker.pc = "fetching"
  /\ worker.left = {}
  /\ run' = IF Retained(worker.run)
            THEN [run EXCEPT ![worker.run].status = TerminalStatus(run[worker.run])]
            ELSE run
  /\ worker' = Resting("idle")
  /\ UNCHANGED <<count, ledger, restarts, faults>>

(* An access to the file fails: process_next is left, the loop waits and   *)
(* goes on with the next claim.                                            *)
StorageError ==
  /\ \/ worker.pc \in {"claimed", "copying", "recording"}
     \/ worker.pc = "fetching" /\ worker.left = {}
  /\ StorageFails
  /\ worker' = Resting("idle")
  /\ UNCHANGED <<run, count, ledger, restarts>>

(* The API process stops, at any point.                                    *)
Restart ==
  /\ worker.pc # "down"
  /\ restarts < MaxRestarts
  /\ restarts' = restarts + 1
  /\ worker' = Resting("down")
  /\ UNCHANGED <<run, count, ledger, faults>>

-----------------------------------------------------------------------------
WorkerStep == \/ Boot \/ ClaimNextRun \/ ReadDependencies \/ Resume \/ FinishRun
              \/ \E s \in Sources : RecordDependency(s) \/ Fetch(s) \/ RecordFetched(s)

Client == \/ \E S \in Selections : EnqueueManual(S)
          \/ \E q \in Requests, S \in Selections, ctx \in Contexts :
                EnqueueRequest(q, S, ctx) \/ RepeatRequest(q, S, ctx)

Next == WorkerStep \/ Client \/ StorageError \/ Restart

Spec == Init /\ [][Next]_vars

(* The process is restarted by its container; the thread loops, its waits  *)
(* last at most 30 seconds and a fetch is bounded by its own timeouts.     *)
FairSpec == Spec /\ WF_vars(WorkerStep)

ASSUME ParserControlAssumption ==
  /\ None \notin [run : Nat, sources : SUBSET Sources, ctx : Contexts]
  /\ None \notin Summary
  /\ Selections \subseteq (SUBSET Sources) \ {{}}
  /\ FetchResults \subseteq RawResult
  /\ MaxPending \in Nat \ {0} /\ MaxRecent \in Nat /\ MaxRuns \in Nat
  /\ MaxRestarts \in Nat /\ MaxFaults \in Nat
  /\ MaxRecent + 1 >= 2 * MaxPending      \* 50 and 20 in the code

TypeOK == /\ run \in [Ids -> Row]
          /\ count \in 0..MaxRuns
          /\ ledger \in [Requests -> Entry \cup {None}]
          /\ worker \in Thread
          /\ restarts \in Nat /\ faults \in Nat

-----------------------------------------------------------------------------
Terminal(i) == run[i].status \in TerminalStatuses
ToFetch(i) == IF Active(i) THEN {s \in run[i].exec : run[i].results[s] = None}
                           ELSE {}

(* A source is about to be fetched by one accepted run at most, however    *)
(* manual runs, orchestrator requests and restarts overlap.                *)
OneFetcher ==
  \A i, j \in Ids : i # j => ToFetch(i) \cap ToFetch(j) = {}

(* What the thread has in memory since its claim agrees with the file, of  *)
(* which it took a snapshot: its run is the one that is running, and it    *)
(* holds exactly the sources of that run which have no result yet, so no   *)
(* source with a recorded result is fetched again after a restart and none *)
(* is left out.  (One whose result was not yet recorded is fetched again.) *)
ThreadMatchesRun ==
  worker.pc \in {"claimed", "copying", "fetching", "recording"} =>
    /\ Retained(worker.run) /\ run[worker.run].status = "running"
    /\ worker.pc \in {"fetching", "recording"} =>
         worker.left \cup {s \in Sources : worker.todo[s] # None}
           = ToFetch(worker.run)

(* A finished run has one result for each of its sources, its own or a     *)
(* dependency's.                                                           *)
TerminalComplete ==
  \A i \in Ids : Terminal(i) => \A s \in run[i].sources : run[i].results[s] # None

(* No run waits for another in a circle: when none is running and some are *)
(* queued, one of them can be claimed, whatever has failed before.         *)
NoDeadlock ==
  (ActiveIds # {} /\ \A i \in ActiveIds : run[i].status = "queued")
     => Ready # {}

(* The list is long enough: a run is dropped only when it is finished and  *)
(* no unfinished run waits for its results.                                *)
NothingNeededIsDropped ==
  \A i \in 1..count : ~Terminal(i) =>
    /\ Retained(i)
    /\ \A s \in Sources : LET d == run[i].deps[s] IN d # 0 =>
         Retained(d) /\ (Terminal(d) => run[d].results[s] # None)

(* A finished run is never run again, nor its results changed.             *)
TerminalStays == [][\A i \in Ids : Terminal(i) => run'[i] = run[i]]_vars

(* What a row may look like: a number not yet given has no row, and each   *)
(* source of a run is to be fetched or to be taken from another run.       *)
RowShape ==
  \A i \in Ids :
    /\ i > count => run[i] = NoRun
    /\ run[i].exec \subseteq run[i].sources
    /\ \A s \in run[i].sources : s \in run[i].exec \/ run[i].deps[s] # 0

(* A thread at work has a running run, and while the list has that run,    *)
(* each source without a result is still ahead of the thread.              *)
ThreadHolds ==
  LET row == run[worker.run]
      held == {s \in Sources : worker.todo[s] # None}
      ahead == IF worker.pc = "copying" THEN row.exec \cup held
               ELSE worker.left \cup held
  IN
  worker.pc \in {"claimed", "copying", "fetching", "recording"} =>
    /\ worker.run \in 1..count
    /\ row.status = "running"
    /\ worker.pc # "claimed" /\ Retained(worker.run) =>
         \A s \in row.sources : row.results[s] = None => s \in ahead
    /\ worker.pc = "fetching" => held = {}
    /\ \A s, t \in held : worker.pc = "recording" => s = t

(* The inductive invariant behind the single fetch and the completeness.   *)
IInv == TypeOK /\ RowShape /\ ThreadHolds /\ OneFetcher /\ TerminalComplete

(* The queue as its callers may think of it: while no access to the file   *)
(* fails, the thread answers the runs in the order in which they were      *)
(* accepted, each once, whatever they take from each other and however     *)
(* often it is interrupted.                                                *)
Serving == IF worker.pc \in {"claimed", "copying", "fetching", "recording"}
           THEN worker.run ELSE 0
Verdict == [i \in Ids |-> IF Terminal(i) THEN run[i].status ELSE "queued"]
Queue == INSTANCE RunQueue WITH
  Verdicts <- TerminalStatuses, Pending <- "queued",
  accepted <- count, serving <- Serving, verdict <- Verdict
ImplementsRunQueue == Queue!QSpec

(* Every accepted run finishes.                                            *)
AcceptedRunsFinish == \A i \in Ids : (i <= count) ~> Terminal(i)
=============================================================================
