------------------------- MODULE ParserControlProofs -------------------------
(***************************************************************************)
(* Theorems about ParserControl, for any sources, requests, selections and *)
(* results, and any number of runs, restarts and storage errors: typing,   *)
(* the single fetch, the completeness of what is finished, the memory of   *)
(* the thread, that runs never wait in a circle.  The rest, on the list    *)
(* that drops its oldest runs and the order in which runs are served, is   *)
(* without storage errors: no run that is needed is dropped, and the store *)
(* implements RunQueue.                                                    *)
(***************************************************************************)
EXTENDS ParserControl, FiniteSetTheorems, WellFoundedInduction, TLAPS

Busies == {"claimed", "copying", "fetching", "recording"}

(* A nonempty set of naturals has a least element.                         *)
LEMMA LeastNat ==
  ASSUME NEW T, T \subseteq Nat, T # {}
  PROVE  \E x \in T : \A y \in T : x <= y
<1> DEFINE R == OpToRel(<, Nat)
<1>1. PICK x \in T : \A y \in T : <<y, x>> \notin R
  <2> HIDE DEF R
  <2>1. IsWellFoundedOn(R, Nat)
    BY NatLessThanWellFounded DEF R
  <2> QED  BY <2>1, WFMin
<1>2. \A y \in T : ~(y < x)
  BY <1>1 DEF OpToRel
<1> QED  BY <1>2

(* What is kept of a result, of a summary or of a failure is a summary.    *)
LEMMA SummaryTypes ==
  /\ \A raw \in RawResult : Summarize(raw) \in Summary
  /\ \A sum \in Summary : Resummarize(sum) \in Summary
  /\ Failure \in Summary
<1>1. \A raw \in RawResult : Outcome(raw) \in Outcomes
  BY DEF Outcome, Outcomes
<1>2. \A raw \in RawResult : Summarize(raw) \in Summary
  BY <1>1 DEF Summarize, Summary, RawResult
<1>3. \A sum \in Summary : Resummarize(sum) \in Summary
  BY <1>2 DEF Resummarize, RawResult, Summary
<1>4. Failure \in Summary
  BY DEF Failure, Summary, States, Outcomes
<1> QED  BY <1>2, <1>3, <1>4

(* A covered source has a first covering run, which is active.             *)
LEMMA FirstCoveringRun ==
  ASSUME NEW s, Covering(s) # {}, MaxRuns \in Nat
  PROVE  FirstCovering(s) \in Covering(s)
<1>1. Covering(s) \subseteq Nat
  BY DEF Covering, ActiveIds, Ids
<1>2. \E i \in Covering(s) : \A j \in Covering(s) : i <= j
  BY <1>1, LeastNat
<1> QED  BY <1>2 DEF FirstCovering

-----------------------------------------------------------------------------
(* Rows, and what may become of them.                                      *)

(* A row as it was, or back in the queue.                                  *)
SameWork(old, new) ==
  /\ new.sources = old.sources /\ new.exec = old.exec /\ new.deps = old.deps
  /\ new.results = old.results
  /\ \/ new.status = old.status
     \/ old.status = "running" /\ new.status = "queued"
  /\ old.status # "running" => new = old

LEMMA RestingThread ==
  ASSUME NEW pc \in {"down", "off", "idle", "claimed"}
  PROVE  /\ Resting(pc) \in Thread /\ Resting(pc).pc = pc
         /\ \A i \in Nat : [Resting(pc) EXCEPT !.run = i] \in Thread
BY DEF Resting, Thread, Nothing, Summaries

LEMMA RecoveredRows ==
  ASSUME NEW rows \in [Ids -> Row]
  PROVE  /\ Recovered(rows) \in [Ids -> Row]
         /\ \A i \in Ids : SameWork(rows[i], Recovered(rows)[i])
<1>1. ASSUME NEW i \in Ids
      PROVE  /\ [rows[i] EXCEPT !.status = "queued"] \in Row
             /\ rows[i].status = "running" =>
                  SameWork(rows[i], [rows[i] EXCEPT !.status = "queued"])
             /\ SameWork(rows[i], rows[i])
  <2>1. rows[i] \in Row
    OBVIOUS
  <2> HIDE DEF Row
  <2>2. [rows[i] EXCEPT !.status = "queued"] \in Row
    BY <2>1 DEF Row, ActiveStatuses
  <2> QED  BY <2>1, <2>2 DEF Row, SameWork
<1> QED  BY <1>1 DEF Recovered

LEMMA StartRows ==
  ASSUME NEW rows \in [Ids -> Row], worker \in Thread, faults \in Nat,
         StartAfter(rows)
  PROVE  /\ run' \in [Ids -> Row]
         /\ \A i \in Ids : SameWork(rows[i], run'[i])
         /\ worker' \in Thread /\ faults' \in Nat
         /\ worker.pc \in Busies => worker' = worker /\ run' = rows
         /\ worker' = worker \/ worker'.pc = "idle"
<1>1. \A i \in Ids : SameWork(rows[i], rows[i])
  BY DEF SameWork
<1>2. CASE /\ worker.pc # "off"
           /\ run' = rows
           /\ UNCHANGED <<worker, faults>>
  BY <1>1, <1>2
<1>3. CASE /\ worker.pc = "off"
           /\ run' = Recovered(rows)
           /\ worker' = Resting("idle")
           /\ UNCHANGED faults
  BY <1>3, RecoveredRows, RestingThread DEF Busies
<1>4. CASE /\ worker.pc = "off"
           /\ StorageFails
           /\ run' = rows
           /\ UNCHANGED worker
  BY <1>1, <1>4 DEF StorageFails, Busies
<1> QED  BY <1>2, <1>3, <1>4 DEF StartAfter

(* A run that is handed to the queue: what its rows then look like.        *)
FreshRow(row, i) ==
  /\ row \in Row
  /\ row.exec \subseteq row.sources
  /\ \A s \in row.sources : s \in row.exec \/ row.deps[s] # 0
  /\ row.status = "queued" /\ row.results = Nothing
  /\ \A s \in row.exec, j \in Ids : s \notin ToFetch(j)

NewRun(sources, exec, deps, ctx) ==
  [status |-> "queued", sources |-> sources, exec |-> exec,
   deps |-> deps, ctx |-> ctx, results |-> Nothing]

(* A handler puts at most one new row into the queue, and calls start.     *)
LEMMA HandlerStep ==
  ASSUME IInv, MaxRuns \in Nat, MaxRecent \in Nat,
         NEW rows \in [Ids -> Row], StartAfter(rows),
         count' \in {count, count + 1}, count' \in 0..MaxRuns,
         \A i \in Ids : \/ rows[i] = run[i]
                        \/ i = count + 1 /\ i = count' /\ FreshRow(rows[i], i)
  PROVE  /\ run' \in [Ids -> Row] /\ worker' \in Thread /\ faults' \in Nat
         /\ RowShape' /\ ThreadHolds' /\ OneFetcher' /\ TerminalComplete'
         /\ \A i \in Ids : Terminal(i) => run'[i] = run[i]
<1> USE DEF IInv, TypeOK
<1>1. /\ run' \in [Ids -> Row]
      /\ \A i \in Ids : SameWork(rows[i], run'[i])
      /\ worker' \in Thread /\ faults' \in Nat
      /\ worker.pc \in Busies => worker' = worker /\ run' = rows
      /\ worker' = worker \/ worker'.pc = "idle"
  BY StartRows
<1>2. \A i \in Ids : i > count => run[i] = NoRun
  BY DEF RowShape
<1>3. \A i \in Ids : i <= count => rows[i] = run[i]
  BY DEF Ids
<1>5. RowShape'
  <2> SUFFICES ASSUME NEW i \in Ids
               PROVE  /\ i > count' => run'[i] = NoRun
                      /\ run'[i].exec \subseteq run'[i].sources
                      /\ \A s \in run'[i].sources :
                            s \in run'[i].exec \/ run'[i].deps[s] # 0
    BY DEF RowShape
  <2>1. SameWork(rows[i], run'[i])
    BY <1>1
  <2>2. /\ rows[i].exec \subseteq rows[i].sources
        /\ \A s \in rows[i].sources : s \in rows[i].exec \/ rows[i].deps[s] # 0
    BY DEF RowShape, FreshRow
  <2>3. ASSUME i > count'  PROVE run'[i] = NoRun
    <3>1. rows[i] = run[i] /\ i > count
      BY <2>3 DEF Ids
    <3>2. rows[i] = NoRun
      BY <3>1, <1>2
    <3> QED  BY <2>1, <3>2 DEF SameWork, NoRun
  <2> QED  BY <2>1, <2>2, <2>3 DEF SameWork
<1>6. \A i \in Ids : Terminal(i) => run'[i] = run[i]
  <2> SUFFICES ASSUME NEW i \in Ids, Terminal(i)
               PROVE  run'[i] = run[i]
    OBVIOUS
  <2>1. i <= count
    BY <1>2 DEF Terminal, NoRun, TerminalStatuses, Ids
  <2>2. SameWork(run[i], run'[i])
    BY <1>1, <1>3, <2>1
  <2> QED  BY <2>2 DEF SameWork, Terminal, TerminalStatuses
<1>7. TerminalComplete'
  <2> SUFFICES ASSUME NEW i \in Ids, Terminal(i)', NEW s \in run'[i].sources
               PROVE  run'[i].results[s] # None
    BY DEF TerminalComplete
  <2>1. SameWork(rows[i], run'[i]) /\ run'[i].status \in TerminalStatuses
    BY <1>1 DEF Terminal
  <2>2. rows[i].status \in TerminalStatuses
    BY <2>1 DEF SameWork, TerminalStatuses
  <2>3. rows[i] = run[i]
    BY <2>2 DEF FreshRow, TerminalStatuses
  <2> QED  BY <2>1, <2>2, <2>3 DEF SameWork, TerminalComplete, Terminal
<1>8. ThreadHolds'
  <2>1. CASE worker.pc \in Busies
    <3>1. worker' = worker /\ run' = rows
      BY <1>1, <2>1
    <3>2. worker.run \in 1..count /\ worker.run \in Ids
      BY <2>1 DEF ThreadHolds, Busies, Ids
    <3>3. rows[worker.run] = run[worker.run]
      BY <1>3, <3>2
    <3>4. worker.run \in 1..count' /\ (Retained(worker.run)' => Retained(worker.run))
      BY <3>1, <3>2 DEF Retained
    <3> QED  BY <3>1, <3>3, <3>4 DEF ThreadHolds
  <2>2. CASE worker.pc \notin Busies
    <3>1. worker'.pc \notin Busies
      BY <1>1, <2>2 DEF Busies
    <3> QED  BY <3>1 DEF ThreadHolds, Busies
  <2> QED  BY <2>1, <2>2
<1>9. \A i \in Ids : rows[i] = run[i] => ToFetch(i)' \subseteq ToFetch(i)
  <2> SUFFICES ASSUME NEW i \in Ids, rows[i] = run[i], Active(i)'
               PROVE  Active(i) /\ ToFetch(i)' \subseteq ToFetch(i)
    BY DEF ToFetch
  <2>1. SameWork(run[i], run'[i])
    BY <1>1
  <2>2. run[i].status \in ActiveStatuses
    BY <2>1 DEF Active, SameWork, ActiveStatuses
  <2>3. i <= count
    BY <1>2, <2>2 DEF NoRun, ActiveStatuses, Ids
  <2>4. Active(i)
    BY <2>2, <2>3 DEF Active, Retained, Ids
  <2> QED  BY <2>1, <2>4 DEF ToFetch, SameWork
<1>10. \A i \in Ids : rows[i] # run[i] =>
         \A j \in Ids : j # i => ToFetch(i)' \cap ToFetch(j)' = {}
  <2> SUFFICES ASSUME NEW i \in Ids, rows[i] # run[i], NEW j \in Ids, j # i
               PROVE  ToFetch(i)' \cap ToFetch(j)' = {}
    OBVIOUS
  <2>1. FreshRow(rows[i], i) /\ i = count + 1
    OBVIOUS
  <2>2. ToFetch(i)' \subseteq rows[i].exec
    BY <1>1 DEF ToFetch, SameWork
  <2>3. rows[j] = run[j]
    BY <2>1
  <2> QED  BY <1>9, <2>1, <2>2, <2>3 DEF FreshRow
<1>11. OneFetcher'
  <2> SUFFICES ASSUME NEW i \in Ids, NEW j \in Ids, i # j
               PROVE  ToFetch(i)' \cap ToFetch(j)' = {}
    BY DEF OneFetcher
  <2>1. CASE rows[i] = run[i] /\ rows[j] = run[j]
    <3>1. ToFetch(i)' \subseteq ToFetch(i) /\ ToFetch(j)' \subseteq ToFetch(j)
      BY <1>9, <2>1
    <3>2. ToFetch(i) \cap ToFetch(j) = {}
      BY DEF OneFetcher
    <3> QED  BY <3>1, <3>2
  <2> QED  BY <2>1, <1>10
<1> QED  BY <1>1, <1>5, <1>6, <1>7, <1>8, <1>11

Keeps == \A i \in Ids : Terminal(i) => run'[i] = run[i]

LEMMA NotToFetch ==
  ASSUME IInv, NEW s, NEW j \in Ids, s \in ToFetch(j)
  PROVE  j \in Covering(s) /\ Busy(s)
<1>1. Active(j) /\ s \in run[j].sources /\ run[j].results[s] = None
  BY DEF ToFetch, IInv, RowShape
<1> QED  BY <1>1 DEF Covering, Busy, ActiveIds

LEMMA EnqueueManualStep ==
  ASSUME IInv, ParserControlAssumption, NEW S \in Selections, EnqueueManual(S)
  PROVE  IInv' /\ Keeps
<1> DEFINE uncovered == {s \in S : ~Busy(s)}
           new == [status |-> "queued", sources |-> uncovered, exec |-> uncovered,
                   deps |-> [s \in Sources |-> 0], ctx |-> "manual",
                   results |-> Nothing]
           rows == IF uncovered = {} THEN run ELSE [run EXCEPT ![count + 1] = new]
<1>1. MaxRuns \in Nat /\ MaxRecent \in Nat /\ S \subseteq Sources
  BY DEF ParserControlAssumption
<1>2. /\ StartAfter(rows)
      /\ count' = IF uncovered = {} THEN count ELSE count + 1
      /\ uncovered # {} => count < MaxRuns
      /\ UNCHANGED <<ledger, restarts>>
  BY DEF EnqueueManual, Accept, HasRoom
<1>3. FreshRow(new, count + 1)
  <2>1. new \in Row
    BY <1>1 DEF Row, ActiveStatuses, Contexts, Summaries, Nothing
  <2>2. \A s \in uncovered, j \in Ids : s \notin ToFetch(j)
    BY NotToFetch
  <2> QED  BY <2>1, <2>2 DEF FreshRow
<1>4. run \in [Ids -> Row] /\ count \in 0..MaxRuns
  BY DEF IInv, TypeOK
<1>5. rows \in [Ids -> Row]
  <2> HIDE DEF new
  <2> QED  BY <1>3, <1>4 DEF FreshRow
<1>6. \A i \in Ids : \/ rows[i] = run[i]
                     \/ i = count + 1 /\ i = count' /\ FreshRow(rows[i], i)
  <2> HIDE DEF new, uncovered
  <2> QED  BY <1>2, <1>3, <1>4
<1>7. count' \in {count, count + 1} /\ count' \in 0..MaxRuns
  BY <1>1, <1>2, <1>4
<1> HIDE DEF rows
<1>8. /\ run' \in [Ids -> Row] /\ worker' \in Thread /\ faults' \in Nat
      /\ RowShape' /\ ThreadHolds' /\ OneFetcher' /\ TerminalComplete'
      /\ \A i \in Ids : Terminal(i) => run'[i] = run[i]
  BY <1>1, <1>2, <1>5, <1>6, <1>7, HandlerStep
<1> QED  BY <1>2, <1>7, <1>8 DEF IInv, TypeOK, Keeps

LEMMA EnqueueRequestStep ==
  ASSUME IInv, ParserControlAssumption, NEW q \in Requests,
         NEW S \in Selections, NEW ctx \in Contexts, EnqueueRequest(q, S, ctx)
  PROVE  IInv' /\ Keeps
<1> DEFINE shared == {s \in S : Covering(s) # {}}
           deps == [s \in Sources |-> IF s \in shared THEN FirstCovering(s) ELSE 0]
           new == [status |-> "queued", sources |-> S, exec |-> S \ shared,
                   deps |-> deps, ctx |-> ctx, results |-> Nothing]
           entry(i) == [run |-> i, sources |-> S, ctx |-> ctx]
<1>1. MaxRuns \in Nat /\ MaxRecent \in Nat /\ S \subseteq Sources
  BY DEF ParserControlAssumption
<1>2. /\ run \in [Ids -> Row] /\ count \in 0..MaxRuns
      /\ ledger \in [Requests -> Entry \cup {None}]
      /\ restarts' \in Nat
  BY DEF IInv, TypeOK, EnqueueRequest
<1>3. \A i \in Nat : [ledger EXCEPT ![q] = entry(i)] \in [Requests -> Entry \cup {None}]
  BY <1>1, <1>2 DEF Entry
<1>4. CASE \E i \in ExactlyCovering(S) :
             /\ ledger' = [ledger EXCEPT ![q] = entry(i)]
             /\ StartAfter(run)
             /\ UNCHANGED count
  <2>1. ledger' \in [Requests -> Entry \cup {None}]
    BY <1>3, <1>4 DEF ExactlyCovering, ActiveIds, Ids
  <2>2. /\ run' \in [Ids -> Row] /\ worker' \in Thread /\ faults' \in Nat
        /\ RowShape' /\ ThreadHolds' /\ OneFetcher' /\ TerminalComplete'
        /\ \A i \in Ids : Terminal(i) => run'[i] = run[i]
    BY <1>1, <1>2, <1>4, HandlerStep
  <2> QED  BY <1>2, <1>4, <2>1, <2>2 DEF IInv, TypeOK, Keeps
<1>5. CASE /\ Accept(S, S \ shared, deps, ctx)
           /\ ledger' = [ledger EXCEPT ![q] = entry(count + 1)]
  <2> DEFINE rows == [run EXCEPT ![count + 1] = new]
  <2>1. /\ count' = count + 1 /\ count < MaxRuns /\ StartAfter(rows)
    BY <1>5 DEF Accept, HasRoom
  <2>2. \A s \in shared : FirstCovering(s) \in Nat \ {0}
    BY <1>1, FirstCoveringRun DEF Covering, ActiveIds, Ids
  <2>3. FreshRow(new, count + 1)
    <3>1. deps \in [Sources -> Nat]
      BY <2>2
    <3>2. new \in Row
      <4> HIDE DEF deps
      <4> QED  BY <1>1, <3>1 DEF Row, ActiveStatuses, Summaries, Nothing
    <3>3. \A s \in S \ shared, j \in Ids : s \notin ToFetch(j)
      BY NotToFetch
    <3>4. \A s \in S : s \in S \ shared \/ deps[s] # 0
      BY <1>1, <2>2
    <3> QED  BY <3>2, <3>3, <3>4 DEF FreshRow
  <2> HIDE DEF new
  <2>4. rows \in [Ids -> Row]
    BY <1>2, <2>3 DEF FreshRow
  <2>5. \A i \in Ids : \/ rows[i] = run[i]
                       \/ i = count + 1 /\ i = count' /\ FreshRow(rows[i], i)
    BY <1>2, <2>1, <2>3
  <2>6. count' \in {count, count + 1} /\ count' \in 0..MaxRuns
    BY <1>1, <1>2, <2>1
  <2> HIDE DEF rows
  <2>7. /\ run' \in [Ids -> Row] /\ worker' \in Thread /\ faults' \in Nat
        /\ RowShape' /\ ThreadHolds' /\ OneFetcher' /\ TerminalComplete'
        /\ \A i \in Ids : Terminal(i) => run'[i] = run[i]
    BY <1>1, <2>1, <2>4, <2>5, <2>6, HandlerStep
  <2>8. ledger' \in [Requests -> Entry \cup {None}]
    BY <1>2, <1>3, <1>5
  <2> QED  BY <1>2, <2>6, <2>7, <2>8 DEF IInv, TypeOK, Keeps
<1> QED  BY <1>4, <1>5 DEF EnqueueRequest

LEMMA RepeatRequestStep ==
  ASSUME IInv, ParserControlAssumption, NEW q \in Requests,
         NEW S \in Selections, NEW ctx \in Contexts, RepeatRequest(q, S, ctx)
  PROVE  IInv' /\ Keeps
<1>1. StartAfter(run) /\ UNCHANGED <<count, ledger, restarts>>
  BY DEF RepeatRequest
<1>2. /\ run' \in [Ids -> Row] /\ worker' \in Thread /\ faults' \in Nat
      /\ RowShape' /\ ThreadHolds' /\ OneFetcher' /\ TerminalComplete'
      /\ \A i \in Ids : Terminal(i) => run'[i] = run[i]
  BY <1>1, HandlerStep DEF IInv, TypeOK, ParserControlAssumption
<1> QED  BY <1>1, <1>2 DEF IInv, TypeOK, Keeps

-----------------------------------------------------------------------------
(* The steps of the worker thread and of the process.                      *)

(* A row at work: it loses no result, and it ends with all of them.        *)
Progress(old, new) ==
  /\ old.status \in ActiveStatuses
  /\ new.sources = old.sources /\ new.exec = old.exec /\ new.deps = old.deps
  /\ \A s \in Sources : new.results[s] = None => old.results[s] = None
  /\ new.status \in TerminalStatuses =>
       \A s \in new.sources : new.results[s] # None

LEMMA WorkRows ==
  ASSUME IInv, count' = count, run' \in [Ids -> Row],
         \A i \in Ids : SameWork(run[i], run'[i]) \/ Progress(run[i], run'[i])
  PROVE  RowShape' /\ OneFetcher' /\ TerminalComplete' /\ Keeps
<1> USE DEF IInv, TypeOK
<1>1. \A i \in Ids : /\ run'[i].sources = run[i].sources
                     /\ run'[i].exec = run[i].exec
                     /\ run'[i].deps = run[i].deps
                     /\ run'[i].sources \subseteq Sources
  BY DEF SameWork, Progress, Row
<1>2. Keeps
  BY DEF Keeps, SameWork, Progress, Terminal, TerminalStatuses, ActiveStatuses
<1>3. RowShape'
  <2>1. ASSUME NEW i \in Ids, i > count'
        PROVE  run'[i] = NoRun
    <3>1. run[i] = NoRun
      BY <2>1 DEF RowShape
    <3> QED  BY <3>1 DEF SameWork, Progress, NoRun, ActiveStatuses
  <2> QED  BY <1>1, <2>1 DEF RowShape
<1>4. TerminalComplete'
  <2> SUFFICES ASSUME NEW i \in Ids, Terminal(i)', NEW s \in run'[i].sources
               PROVE  run'[i].results[s] # None
    BY DEF TerminalComplete
  <2>1. CASE SameWork(run[i], run'[i])
    <3>1. Terminal(i)
      BY <2>1 DEF Terminal, SameWork, TerminalStatuses
    <3> QED  BY <2>1, <3>1 DEF TerminalComplete, SameWork
  <2>2. CASE Progress(run[i], run'[i])
    BY <2>2 DEF Progress, Terminal
  <2> QED  BY <2>1, <2>2
<1>5. \A i \in Ids : ToFetch(i)' \subseteq ToFetch(i)
  <2> SUFFICES ASSUME NEW i \in Ids, Active(i)'
               PROVE  Active(i) /\ ToFetch(i)' \subseteq ToFetch(i)
    BY DEF ToFetch
  <2>1. Active(i)
    BY DEF Active, Retained, SameWork, Progress, ActiveStatuses
  <2>2. \A s \in run[i].exec : run'[i].results[s] = None => run[i].results[s] = None
    BY DEF SameWork, Progress, Row
  <2> QED  BY <1>1, <2>1, <2>2 DEF ToFetch
<1>6. OneFetcher'
  BY <1>5 DEF OneFetcher
<1> QED  BY <1>2, <1>3, <1>4, <1>6

LEMMA SameRows ==
  ASSUME IInv, UNCHANGED <<run, count>>
  PROVE  /\ RowShape' /\ OneFetcher' /\ TerminalComplete' /\ Keeps
         /\ run' \in [Ids -> Row]
<1>1. \A i \in Ids : SameWork(run[i], run'[i])
  BY DEF SameWork
<1> QED  BY <1>1, WorkRows DEF IInv, TypeOK

(* The thread is back in its loop, or there is none.                       *)
LEMMA RestingHolds ==
  ASSUME NEW pc \in {"down", "off", "idle"}, worker' = Resting(pc)
  PROVE  worker' \in Thread /\ ThreadHolds'
<1>1. worker' \in Thread /\ worker'.pc = pc
  BY RestingThread
<1> QED  BY <1>1 DEF ThreadHolds

LEMMA BootStep ==
  ASSUME IInv, Boot
  PROVE  IInv' /\ Keeps
<1>1. run' \in [Ids -> Row] /\ \A i \in Ids : SameWork(run[i], run'[i])
  BY RecoveredRows DEF Boot, IInv, TypeOK, SameWork
<1>2. worker' \in Thread /\ ThreadHolds'
  BY RestingHolds DEF Boot
<1>3. RowShape' /\ OneFetcher' /\ TerminalComplete' /\ Keeps
  BY <1>1, WorkRows DEF Boot
<1>4. faults' \in Nat
  BY DEF Boot, StorageFails, IInv, TypeOK
<1> QED  BY <1>1, <1>2, <1>3, <1>4 DEF IInv, TypeOK, Boot

LEMMA ClaimStep ==
  ASSUME IInv, MaxRuns \in Nat, ClaimNextRun
  PROVE  IInv' /\ Keeps
<1>1. PICK i \in Ready : /\ run' = [run EXCEPT ![i].status = "running"]
                         /\ worker' = [Resting("claimed") EXCEPT !.run = i]
  BY DEF ClaimNextRun
<1>2. i \in Ids /\ i \in 1..count /\ run[i].status = "queued" /\ run[i] \in Row
  BY DEF Ready, Queued, Retained, IInv, TypeOK
<1> DEFINE new == [run[i] EXCEPT !.status = "running"]
<1>3. new \in Row
  BY <1>2 DEF Row, ActiveStatuses
<1>4. Progress(run[i], new)
  BY <1>2 DEF Progress, Row, ActiveStatuses, TerminalStatuses
<1>5. run' = [run EXCEPT ![i] = new]
  BY <1>1, <1>2 DEF IInv, TypeOK
<1>6. new.status = "running"
  BY <1>2 DEF Row
<1> HIDE DEF new
<1>7. run' \in [Ids -> Row] /\ \A j \in Ids : SameWork(run[j], run'[j])
                                           \/ Progress(run[j], run'[j])
  BY <1>2, <1>3, <1>4, <1>5 DEF IInv, TypeOK, SameWork
<1>8. /\ worker' \in Thread /\ worker'.pc = "claimed" /\ worker'.run = i
      /\ worker'.todo = Nothing
  <2>1. worker' \in Thread
    BY <1>1, <1>2, RestingThread DEF Ids
  <2>2. worker' = [pc |-> "claimed", run |-> i, todo |-> Nothing, left |-> {}]
    BY <1>1 DEF Resting
  <2> QED  BY <2>1, <2>2
<1>9. ThreadHolds'
  <2>1. run'[i].status = "running"
    BY <1>2, <1>5, <1>6 DEF IInv, TypeOK
  <2> QED  BY <1>2, <1>8, <2>1 DEF ThreadHolds, ClaimNextRun
<1>10. RowShape' /\ OneFetcher' /\ TerminalComplete' /\ Keeps
  BY <1>7, WorkRows DEF ClaimNextRun
<1> QED  BY <1>7, <1>8, <1>9, <1>10 DEF IInv, TypeOK, ClaimNextRun

LEMMA DependencyResultType ==
  ASSUME IInv, ParserControlAssumption, NEW i \in Ids, NEW s \in Sources
  PROVE  /\ DependencyResult(i, s) \in Summary \cup {None}
         /\ Retained(i) /\ s \in run[i].sources /\ run[i].deps[s] # 0
              => DependencyResult(i, s) # None
<1> DEFINE d == run[i].deps[s]
<1>1. ASSUME Retained(d), run[d].results[s] # None
      PROVE  Resummarize(run[d].results[s]) \in Summary
  <2>1. d \in Ids
    BY <1>1 DEF Retained, Ids, IInv, TypeOK, ParserControlAssumption
  <2>2. run[d].results \in Summaries
    BY <2>1 DEF IInv, TypeOK, Row
  <2>3. run[d].results[s] \in Summary
    BY <1>1, <2>2 DEF Summaries
  <2> QED  BY <2>3, SummaryTypes
<1>2. None \notin Summary
  BY DEF ParserControlAssumption
<1> QED  BY <1>1, <1>2, SummaryTypes DEF DependencyResult

LEMMA ReadStep ==
  ASSUME IInv, ParserControlAssumption, ReadDependencies
  PROVE  IInv' /\ Keeps
<1> DEFINE i == worker.run
           todo == [s \in Sources |-> DependencyResult(i, s)]
<1>1. /\ worker \in Thread /\ worker.pc = "claimed"
      /\ i \in Ids /\ i \in 1..count /\ run[i].status = "running"
  BY DEF ReadDependencies, IInv, TypeOK, ThreadHolds, Ids, ParserControlAssumption
<1>2. todo \in Summaries
  BY <1>1, DependencyResultType DEF Summaries
<1>3. worker' = [worker EXCEPT !.pc = "copying", !.todo = todo]
  BY DEF ReadDependencies
<1> HIDE DEF todo, i
<1>4. /\ worker' \in Thread /\ worker'.pc = "copying" /\ worker'.run = worker.run
      /\ worker'.todo = todo
  BY <1>1, <1>2, <1>3 DEF Thread
<1>5. Retained(i) => \A s \in run[i].sources : s \in run[i].exec \/ todo[s] # None
  <2> SUFFICES ASSUME Retained(i), NEW s \in run[i].sources, s \notin run[i].exec
               PROVE  todo[s] # None
    OBVIOUS
  <2>1. s \in Sources
    BY <1>1 DEF IInv, TypeOK, Row
  <2>2. run[i].deps[s] # 0
    BY <1>1 DEF IInv, RowShape
  <2> QED  BY <1>1, <2>1, <2>2, DependencyResultType DEF todo
<1>6. run[i].sources \subseteq Sources
  BY <1>1 DEF IInv, TypeOK, Row
<1>7. UNCHANGED <<run, count, ledger, restarts, faults>>
  BY DEF ReadDependencies
<1>8. ThreadHolds'
  BY <1>1, <1>4, <1>5, <1>6, <1>7 DEF ThreadHolds, Retained, i
<1> QED  BY <1>4, <1>7, <1>8, SameRows DEF IInv, TypeOK

(* Recording the result of a source in the row of the run at work.         *)
LEMMA RecordRows ==
  ASSUME IInv, ParserControlAssumption, NEW s \in Sources, Record(s),
         worker.pc \in {"copying", "recording"}, count' = count
  PROVE  /\ run' \in [Ids -> Row]
         /\ \A i \in Ids : SameWork(run[i], run'[i]) \/ Progress(run[i], run'[i])
         /\ run'[worker.run].status = "running"
         /\ run'[worker.run].sources = run[worker.run].sources
         /\ run'[worker.run].exec = run[worker.run].exec
         /\ Retained(worker.run) =>
              \A t \in Sources : run'[worker.run].results[t] = None =>
                                   t # s /\ run[worker.run].results[t] = None
<1> DEFINE i == worker.run
           r == run[i]
           new == [r EXCEPT !.results = [r.results EXCEPT ![s] = worker.todo[s]]]
<1>1. /\ i \in Ids /\ r.status = "running" /\ r \in Row
      /\ worker.todo \in Summaries /\ worker.todo[s] # None
      /\ run \in [Ids -> Row]
  <2>1. i \in 1..count /\ r.status = "running" /\ worker.todo[s] # None
    BY DEF IInv, ThreadHolds, Record
  <2>2. run \in [Ids -> Row] /\ worker.todo \in Summaries /\ count \in 0..MaxRuns
    BY DEF IInv, TypeOK, Thread
  <2>3. i \in Ids
    BY <2>1, <2>2 DEF Ids, ParserControlAssumption
  <2> QED BY <2>1, <2>2, <2>3
<1>2. CASE ~Retained(i)
  BY <1>1, <1>2 DEF Record, SameWork
<1>3. CASE Retained(i)
  <2>1. run' = [run EXCEPT ![i] = new]
    BY <1>1, <1>3 DEF Record
  <2>2. [r.results EXCEPT ![s] = worker.todo[s]] \in Summaries
    BY <1>1 DEF Summaries, Row
  <2>3. new \in Row
    BY <1>1, <2>2 DEF Row
  <2>4. /\ new.status = "running" /\ new.sources = r.sources /\ new.exec = r.exec
        /\ new.deps = r.deps
        /\ new.results = [r.results EXCEPT ![s] = worker.todo[s]]
    BY <1>1 DEF Row
  <2>5. r.results \in [Sources -> Summary \cup {None}]
    BY <1>1 DEF Row, Summaries
  <2> HIDE DEF new, r, i
  <2>6. \A t \in Sources : new.results[t] = None => t # s /\ r.results[t] = None
    BY <1>1, <2>4, <2>5
  <2>7. Progress(r, new)
    BY <1>1, <2>4, <2>6 DEF Progress, ActiveStatuses, TerminalStatuses
  <2>8. run'[i] = new
    BY <1>1, <2>1
  <2>9. \A j \in Ids : SameWork(run[j], run'[j]) \/ Progress(run[j], run'[j])
    BY <1>1, <2>1, <2>7 DEF SameWork, r
  <2> QED  BY <1>1, <2>1, <2>3, <2>4, <2>6, <2>8, <2>9 DEF r, i
<1> QED  BY <1>2, <1>3

(* Taking a source out of todo.                                            *)
LEMMA Untodo ==
  ASSUME IInv, NEW s \in Sources, NEW pc \in {"copying", "fetching"},
         worker' = [worker EXCEPT !.pc = pc, !.todo[s] = None]
  PROVE  /\ worker' \in Thread /\ worker'.pc = pc /\ worker'.run = worker.run
         /\ worker'.left = worker.left
         /\ \A t \in Sources : worker'.todo[t] = IF t = s THEN None ELSE worker.todo[t]
<1>1. worker \in Thread /\ worker.todo \in Summaries
  BY DEF IInv, TypeOK, Thread
<1>2. [worker.todo EXCEPT ![s] = None] \in Summaries
  BY <1>1 DEF Summaries
<1>3. worker' = [worker EXCEPT !.pc = pc, !.todo = [worker.todo EXCEPT ![s] = None]]
  OBVIOUS
<1>4. /\ worker' \in Thread /\ worker'.pc = pc /\ worker'.run = worker.run
      /\ worker'.left = worker.left
      /\ worker'.todo = [worker.todo EXCEPT ![s] = None]
  BY <1>1, <1>2, <1>3 DEF Thread
<1> QED  BY <1>1, <1>4 DEF Summaries

LEMMA RecordDependencyStep ==
  ASSUME IInv, ParserControlAssumption, NEW s \in Sources, RecordDependency(s)
  PROVE  IInv' /\ Keeps
<1>1. /\ worker.pc = "copying" /\ Record(s)
      /\ worker' = [worker EXCEPT !.pc = "copying", !.todo[s] = None]
      /\ UNCHANGED <<count, ledger, restarts, faults>>
  BY DEF RecordDependency, IInv, TypeOK, Thread
<1>2. /\ run' \in [Ids -> Row]
      /\ \A i \in Ids : SameWork(run[i], run'[i]) \/ Progress(run[i], run'[i])
      /\ run'[worker.run].status = "running"
      /\ run'[worker.run].sources = run[worker.run].sources
      /\ run'[worker.run].exec = run[worker.run].exec
      /\ Retained(worker.run) =>
           \A t \in Sources : run'[worker.run].results[t] = None =>
                                t # s /\ run[worker.run].results[t] = None
  BY <1>1, RecordRows
<1>3. /\ worker' \in Thread /\ worker'.pc = "copying" /\ worker'.run = worker.run
      /\ \A t \in Sources : worker'.todo[t] = IF t = s THEN None ELSE worker.todo[t]
  BY <1>1, Untodo
<1>4. /\ worker.run \in 1..count /\ worker.run \in Ids
      /\ run[worker.run].sources \subseteq Sources
  BY <1>1 DEF IInv, ThreadHolds, TypeOK, Ids, Row, ParserControlAssumption
<1>5. Retained(worker.run)' <=> Retained(worker.run)
  BY <1>1, <1>3 DEF Retained
<1>6. ThreadHolds'
  BY <1>1, <1>2, <1>3, <1>4, <1>5 DEF ThreadHolds, IInv
<1>7. RowShape' /\ OneFetcher' /\ TerminalComplete' /\ Keeps
  BY <1>1, <1>2, WorkRows
<1> QED  BY <1>1, <1>2, <1>3, <1>6, <1>7 DEF IInv, TypeOK

LEMMA RecordFetchedStep ==
  ASSUME IInv, ParserControlAssumption, NEW s \in Sources, RecordFetched(s)
  PROVE  IInv' /\ Keeps
<1>1. /\ worker.pc = "recording" /\ Record(s) /\ worker.todo[s] # None
      /\ worker' = [worker EXCEPT !.pc = "fetching", !.todo[s] = None]
      /\ UNCHANGED <<count, ledger, restarts, faults>>
  BY DEF RecordFetched, Record
<1>2. /\ run' \in [Ids -> Row]
      /\ \A i \in Ids : SameWork(run[i], run'[i]) \/ Progress(run[i], run'[i])
      /\ run'[worker.run].status = "running"
      /\ run'[worker.run].sources = run[worker.run].sources
      /\ run'[worker.run].exec = run[worker.run].exec
      /\ Retained(worker.run) =>
           \A t \in Sources : run'[worker.run].results[t] = None =>
                                t # s /\ run[worker.run].results[t] = None
  BY <1>1, RecordRows
<1>3. /\ worker' \in Thread /\ worker'.pc = "fetching" /\ worker'.run = worker.run
      /\ worker'.left = worker.left
      /\ \A t \in Sources : worker'.todo[t] = IF t = s THEN None ELSE worker.todo[t]
  BY <1>1, Untodo
<1>4. /\ worker.run \in 1..count /\ worker.run \in Ids
      /\ run[worker.run].sources \subseteq Sources
  BY <1>1 DEF IInv, ThreadHolds, TypeOK, Ids, Row, ParserControlAssumption
<1>5. Retained(worker.run)' <=> Retained(worker.run)
  BY <1>1, <1>3 DEF Retained
<1>6. \A t \in Sources : worker.todo[t] # None => t = s
  BY <1>1 DEF IInv, ThreadHolds
<1>7. \A t \in Sources : worker'.todo[t] = None
  BY <1>3, <1>6
<1>8. ThreadHolds'
  BY <1>1, <1>2, <1>3, <1>4, <1>5, <1>6, <1>7 DEF ThreadHolds, IInv
<1>9. RowShape' /\ OneFetcher' /\ TerminalComplete' /\ Keeps
  BY <1>1, <1>2, WorkRows
<1> QED  BY <1>1, <1>2, <1>3, <1>8, <1>9 DEF IInv, TypeOK

LEMMA ResumeStep ==
  ASSUME IInv, ParserControlAssumption, Resume
  PROVE  IInv' /\ Keeps
<1>1. /\ worker.pc = "copying" /\ worker.todo = Nothing
      /\ worker' = [worker EXCEPT !.pc = "fetching",
                                  !.left = Unfetched(run[worker.run])]
      /\ UNCHANGED <<run, count, ledger, restarts, faults>>
  BY DEF Resume
<1>2. /\ worker \in Thread /\ worker.run \in Ids /\ worker.run \in 1..count
      /\ run[worker.run] \in Row /\ run[worker.run].status = "running"
  BY <1>1 DEF IInv, TypeOK, ThreadHolds, Ids, ParserControlAssumption
<1>3. Unfetched(run[worker.run]) \in SUBSET Sources
  BY <1>2 DEF Unfetched, Row
<1>4. /\ worker' \in Thread /\ worker'.pc = "fetching" /\ worker'.run = worker.run
      /\ worker'.left = Unfetched(run[worker.run]) /\ worker'.todo = Nothing
  <2> HIDE DEF Unfetched
  <2> QED  BY <1>1, <1>2, <1>3 DEF Thread
<1>5. run[worker.run].sources \subseteq Sources
  BY <1>2 DEF Row
<1>6. Retained(worker.run) =>
        \A s \in run[worker.run].sources :
          run[worker.run].results[s] = None => s \in Unfetched(run[worker.run])
  BY <1>1, <1>2, <1>5 DEF IInv, ThreadHolds, Unfetched, Nothing
<1>7. ThreadHolds'
  BY <1>1, <1>2, <1>4, <1>6 DEF ThreadHolds, Retained, Nothing
<1> QED  BY <1>1, <1>4, <1>7, SameRows DEF IInv, TypeOK

LEMMA FetchStep ==
  ASSUME IInv, ParserControlAssumption, NEW s \in Sources, Fetch(s)
  PROVE  IInv' /\ Keeps
<1>1. PICK sum \in {Summarize(raw) : raw \in FetchResults} \cup {Failure} :
        worker' = [worker EXCEPT !.pc = "recording", !.left = @ \ {s},
                                 !.todo[s] = sum]
  BY DEF Fetch
<1>2. sum \in Summary /\ sum # None
  BY SummaryTypes DEF ParserControlAssumption
<1>3. /\ worker.pc = "fetching" /\ worker \in Thread
      /\ worker.todo \in Summaries /\ worker.left \subseteq Sources
      /\ UNCHANGED <<run, count, ledger, restarts, faults>>
  BY DEF Fetch, IInv, TypeOK, Thread
<1>4. [worker.todo EXCEPT ![s] = sum] \in Summaries
  BY <1>2, <1>3 DEF Summaries
<1>5. worker' = [worker EXCEPT !.pc = "recording", !.left = worker.left \ {s},
                               !.todo = [worker.todo EXCEPT ![s] = sum]]
  BY <1>1
<1>6. /\ worker' \in Thread /\ worker'.pc = "recording"
      /\ worker'.run = worker.run /\ worker'.left = worker.left \ {s}
      /\ worker'.todo = [worker.todo EXCEPT ![s] = sum]
  BY <1>3, <1>4, <1>5 DEF Thread
<1>7. \A t \in Sources : worker'.todo[t] = IF t = s THEN sum ELSE None
  BY <1>3, <1>6 DEF IInv, ThreadHolds, Summaries
<1>8. /\ worker.run \in 1..count /\ run[worker.run].status = "running"
      /\ run[worker.run].sources \subseteq Sources
  BY <1>3 DEF IInv, ThreadHolds, TypeOK, Ids, Row, ParserControlAssumption
<1>9. Retained(worker.run) =>
        \A t \in run[worker.run].sources :
          run[worker.run].results[t] = None => t \in worker.left
  BY <1>3, <1>8 DEF IInv, ThreadHolds
<1>10. ThreadHolds'
  BY <1>2, <1>3, <1>6, <1>7, <1>8, <1>9 DEF ThreadHolds, Retained
<1> QED  BY <1>3, <1>6, <1>10, SameRows DEF IInv, TypeOK

LEMMA FinishStep ==
  ASSUME IInv, ParserControlAssumption, FinishRun
  PROVE  IInv' /\ Keeps
<1> DEFINE i == worker.run
           r == run[i]
           new == [r EXCEPT !.status = TerminalStatus(r)]
<1>1. /\ worker.pc = "fetching" /\ worker.left = {}
      /\ worker' = Resting("idle")
      /\ UNCHANGED <<count, ledger, restarts, faults>>
  BY DEF FinishRun
<1>2. /\ i \in Ids /\ r \in Row /\ r.status = "running"
      /\ run \in [Ids -> Row]
  BY <1>1 DEF IInv, TypeOK, ThreadHolds, Ids, ParserControlAssumption
<1>3. ASSUME Retained(i)
      PROVE  new \in Row /\ Progress(r, new)
  <2>1. TerminalStatus(r) \in TerminalStatuses
    BY DEF TerminalStatus, TerminalStatuses
  <2>2. \A s \in r.sources : r.results[s] # None
    BY <1>1, <1>2, <1>3 DEF IInv, ThreadHolds, Row
  <2>3. /\ new \in Row /\ new.sources = r.sources /\ new.exec = r.exec
        /\ new.deps = r.deps /\ new.results = r.results
    BY <1>2, <2>1 DEF Row, TerminalStatuses
  <2> HIDE DEF new, r
  <2> QED  BY <1>2, <2>2, <2>3 DEF Progress, ActiveStatuses
<1>4. run' = IF Retained(i) THEN [run EXCEPT ![i] = new] ELSE run
  BY <1>2 DEF FinishRun
<1> HIDE DEF new
<1>5. /\ run' \in [Ids -> Row]
      /\ \A j \in Ids : SameWork(run[j], run'[j]) \/ Progress(run[j], run'[j])
  BY <1>2, <1>3, <1>4 DEF SameWork
<1>6. RowShape' /\ OneFetcher' /\ TerminalComplete' /\ Keeps
  BY <1>1, <1>5, WorkRows
<1>7. worker' \in Thread /\ ThreadHolds'
  BY <1>1, RestingHolds
<1> QED  BY <1>1, <1>5, <1>6, <1>7 DEF IInv, TypeOK

LEMMA StopStep ==
  ASSUME IInv, StorageError \/ Restart
  PROVE  IInv' /\ Keeps
<1>1. /\ UNCHANGED <<run, count, ledger>>
      /\ restarts' \in Nat /\ faults' \in Nat
      /\ worker' = Resting("idle") \/ worker' = Resting("down")
  BY DEF StorageError, StorageFails, Restart, IInv, TypeOK
<1>2. worker' \in Thread /\ ThreadHolds'
  BY <1>1, RestingHolds
<1> QED  BY <1>1, <1>2, SameRows DEF IInv, TypeOK

-----------------------------------------------------------------------------
LEMMA InitInv == ParserControlAssumption /\ Init => IInv
<1> SUFFICES ASSUME ParserControlAssumption, Init
             PROVE  IInv
  OBVIOUS
<1>1. NoRun \in Row
  BY DEF NoRun, Row, Contexts, Summaries, Nothing
<1>2. worker \in Thread /\ worker.pc = "down"
  BY RestingThread DEF Init
<1>3. TypeOK
  BY <1>1, <1>2 DEF Init, TypeOK, ParserControlAssumption
<1>4. \A i \in Ids : run[i] = NoRun
  BY DEF Init
<1>5. NoRun.status = "none" /\ NoRun.sources = {} /\ NoRun.exec = {}
  BY DEF NoRun
<1>6. RowShape
  BY <1>4, <1>5 DEF RowShape
<1>7. OneFetcher /\ TerminalComplete
  BY <1>4, <1>5 DEF OneFetcher, TerminalComplete, ToFetch, Active, Terminal,
                    ActiveStatuses, TerminalStatuses
<1>8. ThreadHolds
  BY <1>2 DEF ThreadHolds
<1> QED  BY <1>3, <1>6, <1>7, <1>8 DEF IInv

LEMMA StepInv ==
  ASSUME IInv, ParserControlAssumption, Next
  PROVE  IInv' /\ Keeps
<1>1. CASE Boot
  BY <1>1, BootStep
<1>2. CASE ClaimNextRun
  BY <1>2, ClaimStep DEF ParserControlAssumption
<1>3. CASE ReadDependencies
  BY <1>3, ReadStep
<1>4. CASE Resume
  BY <1>4, ResumeStep
<1>5. CASE FinishRun
  BY <1>5, FinishStep
<1>6. ASSUME NEW s \in Sources, RecordDependency(s) \/ Fetch(s) \/ RecordFetched(s)
      PROVE  IInv' /\ Keeps
  BY <1>6, RecordDependencyStep, FetchStep, RecordFetchedStep
<1>7. ASSUME NEW S \in Selections, EnqueueManual(S)
      PROVE  IInv' /\ Keeps
  BY <1>7, EnqueueManualStep
<1>8. ASSUME NEW q \in Requests, NEW S \in Selections, NEW ctx \in Contexts,
             EnqueueRequest(q, S, ctx) \/ RepeatRequest(q, S, ctx)
      PROVE  IInv' /\ Keeps
  BY <1>8, EnqueueRequestStep, RepeatRequestStep
<1>9. CASE StorageError \/ Restart
  BY <1>9, StopStep
<1> QED  BY <1>1, <1>2, <1>3, <1>4, <1>5, <1>6, <1>7, <1>8, <1>9
            DEF Next, WorkerStep, Client

LEMMA StutterInv == IInv /\ UNCHANGED vars => IInv' /\ Keeps
BY DEF vars, IInv, TypeOK, RowShape, ThreadHolds, OneFetcher, TerminalComplete,
       Keeps, Retained, ToFetch, Active, Terminal

(* The inductive invariant holds in every reachable state.                 *)
THEOREM Invariance == Spec => []IInv
<1>1. Init => IInv
  BY InitInv, ParserControlAssumption
<1>2. IInv /\ [Next]_vars => IInv'
  BY StepInv, StutterInv, ParserControlAssumption
<1> QED  BY <1>1, <1>2, PTL DEF Spec

(* Every row, ledger entry and thread keeps its type, whatever is enqueued *)
(* and wherever the process stops.                                         *)
THEOREM TypeCorrect == Spec => []TypeOK
<1>1. IInv => TypeOK
  BY DEF IInv
<1> QED  BY <1>1, Invariance, PTL

(* A source is about to be fetched by one accepted run at most.            *)
THEOREM SingleFetch == Spec => []OneFetcher
<1>1. IInv => OneFetcher
  BY DEF IInv
<1> QED  BY <1>1, Invariance, PTL

(* A finished run has a result for each of its sources.                    *)
THEOREM FinishedRunsComplete == Spec => []TerminalComplete
<1>1. IInv => TerminalComplete
  BY DEF IInv
<1> QED  BY <1>1, Invariance, PTL

(* A finished run is never run again nor changed.                          *)
THEOREM FinishedRunsStay == Spec => TerminalStays
<1>1. IInv /\ [Next]_vars => [\A i \in Ids : Terminal(i) => run'[i] = run[i]]_vars
  BY StepInv, StutterInv, ParserControlAssumption DEF Keeps
<1> QED  BY <1>1, Invariance, PTL DEF Spec, TerminalStays

-----------------------------------------------------------------------------
(* The thread's memory, whatever fails: what it holds has no result in the *)
(* file, and no handler changes the row that it works on.                  *)
Given == 1..count

InMemory ==
  LET held == {s \in Sources : worker.todo[s] # None} IN
  worker.pc \in {"fetching", "recording"} =>
    /\ worker.left \cap held = {}
    /\ worker.left \cup held
         \subseteq {s \in run[worker.run].exec : run[worker.run].results[s] = None}

LEMMA GivenIds ==
  ASSUME IInv, ParserControlAssumption
  PROVE  /\ Given \subseteq Ids /\ count \in Nat /\ count <= MaxRuns
         /\ worker.pc \in Busies => worker.run \in Given
                                    /\ run[worker.run].status = "running"
         /\ \A i \in Given : run[i] \in Row /\ (Terminal(i) \/ run[i].status
                               \in {"none", "queued", "running"})
BY DEF IInv, TypeOK, Given, Ids, ParserControlAssumption, ThreadHolds, Busies,
       Row, Terminal, ActiveStatuses, TerminalStatuses

(* A result goes into the row of the run at work, and nowhere else.        *)
LEMMA RecordKeeps ==
  ASSUME IInv, ParserControlAssumption, NEW s \in Sources, Record(s),
         worker.pc \in Busies
  PROVE  /\ \A i \in Ids : /\ run'[i].status = run[i].status
                           /\ run'[i].deps = run[i].deps
                           /\ run'[i].sources = run[i].sources
                           /\ run'[i].exec = run[i].exec
         /\ \A t \in Sources : t # s =>
              run'[worker.run].results[t] = run[worker.run].results[t]
<1>1. worker.run \in Ids /\ run \in [Ids -> Row] /\ run[worker.run] \in Row
  BY GivenIds DEF IInv, TypeOK
<1>2. run[worker.run].results \in [Sources -> Summary \cup {None}]
  BY <1>1 DEF Row, Summaries
<1>3. PICK res : res = [run[worker.run].results EXCEPT ![s] = worker.todo[s]]
  OBVIOUS
<1>4. PICK new : new = [run[worker.run] EXCEPT !.results = res]
  OBVIOUS
<1>5. /\ new.status = run[worker.run].status /\ new.deps = run[worker.run].deps
      /\ new.sources = run[worker.run].sources /\ new.exec = run[worker.run].exec
      /\ new.results = res
  BY <1>1, <1>4 DEF Row
<1>6. run' = run \/ run' = [run EXCEPT ![worker.run] = new]
  BY <1>1, <1>3, <1>4 DEF Record
<1>7. \A i \in Ids : run'[i] = run[i] \/ (i = worker.run /\ run'[i] = new)
  BY <1>1, <1>6
<1>8. \A t \in Sources : t # s => res[t] = run[worker.run].results[t]
  BY <1>2, <1>3
<1> QED BY <1>1, <1>5, <1>7, <1>8

LEMMA ClientLeavesWork ==
  ASSUME IInv, ParserControlAssumption, Client, worker.pc \in Busies
  PROVE  worker' = worker /\ \A i \in Given : run'[i] = run[i]
<1> DEFINE Left == /\ worker' = worker
                   /\ run' = run \/ \E new : run' = [run EXCEPT ![count + 1] = new]
<1>1. \A i \in Given : i # count + 1
  BY GivenIds DEF Given
<1>2. worker.pc # "off"
  BY DEF Busies
<1>3. ASSUME StartAfter(run)
      PROVE  worker' = worker /\ run' = run
  BY <1>2, <1>3 DEF StartAfter
<1>4. ASSUME NEW S, NEW exec, NEW deps, NEW ctx, Accept(S, exec, deps, ctx)
      PROVE  worker' = worker /\ \E new : run' = [run EXCEPT ![count + 1] = new]
  BY <1>2, <1>4 DEF Accept, StartAfter
<1>5. Left
  <2>1. ASSUME NEW S \in Selections, EnqueueManual(S)
        PROVE  Left
    BY <1>3, <1>4, <2>1 DEF EnqueueManual
  <2>2. ASSUME NEW q \in Requests, NEW S \in Selections, NEW ctx \in Contexts,
               EnqueueRequest(q, S, ctx)
        PROVE  Left
    BY <1>3, <1>4, <2>2 DEF EnqueueRequest
  <2>3. ASSUME NEW q \in Requests, NEW S \in Selections, NEW ctx \in Contexts,
               RepeatRequest(q, S, ctx)
        PROVE  Left
    BY <1>3, <2>3 DEF RepeatRequest
  <2> QED BY <2>1, <2>2, <2>3 DEF Client
<1> QED BY <1>1, <1>5, GivenIds DEF IInv, TypeOK

LEMMA MemoryStep ==
  ASSUME IInv, InMemory, ParserControlAssumption, Next
  PROVE  InMemory'
<1>1. ASSUME worker'.pc \notin {"fetching", "recording"} PROVE InMemory'
  BY <1>1 DEF InMemory
<1>2. CASE Boot \/ ClaimNextRun \/ FinishRun \/ StorageError \/ Restart
  BY <1>1, <1>2 DEF Boot, ClaimNextRun, FinishRun, StorageError, Restart, Resting
<1>3. CASE ReadDependencies \/ \E s \in Sources : RecordDependency(s)
  BY <1>1, <1>3 DEF ReadDependencies, RecordDependency, IInv, TypeOK, Thread
<1>4. CASE Resume
  <2>1. /\ worker'.pc = "fetching" /\ UNCHANGED <<run, count>>
        /\ worker'.run = worker.run /\ worker'.left = Unfetched(run[worker.run])
        /\ worker'.todo = Nothing
    BY <1>4 DEF Resume, IInv, TypeOK, Thread
  <2> QED BY <2>1 DEF InMemory, Nothing, Unfetched
<1>5. ASSUME NEW s \in Sources, Fetch(s)
      PROVE  InMemory'
  <2>1. PICK sum : worker' = [worker EXCEPT !.pc = "recording", !.left = @ \ {s},
                                            !.todo[s] = sum]
    BY <1>5 DEF Fetch
  <2>2. /\ worker \in Thread /\ worker.todo \in Summaries /\ UNCHANGED <<run, count>>
        /\ s \in worker.left /\ worker.pc = "fetching"
    BY <1>5 DEF Fetch, IInv, TypeOK, Thread
  <2>3. worker' = [worker EXCEPT !.pc = "recording", !.left = worker.left \ {s},
                                 !.todo = [worker.todo EXCEPT ![s] = sum]]
    BY <2>1
  <2>4. /\ worker'.pc = "recording" /\ worker'.run = worker.run
        /\ worker'.left = worker.left \ {s}
        /\ worker'.todo = [worker.todo EXCEPT ![s] = sum]
    BY <2>2, <2>3 DEF Thread
  <2>5. \A t \in Sources : t # s => worker'.todo[t] = None
    BY <2>2, <2>4 DEF IInv, ThreadHolds, Summaries
  <2>6. worker.left \subseteq {t \in run[worker.run].exec :
                                 run[worker.run].results[t] = None}
    BY <2>2 DEF InMemory
  <2> QED BY <2>2, <2>4, <2>5, <2>6 DEF InMemory
<1>6. ASSUME NEW s \in Sources, RecordFetched(s)
      PROVE  InMemory'
  <2>1. /\ worker.pc = "recording" /\ Record(s) /\ worker.todo[s] # None
        /\ worker' = [worker EXCEPT !.pc = "fetching", !.todo[s] = None]
        /\ count' = count
    BY <1>6 DEF RecordFetched, Record
  <2>2. /\ worker'.pc = "fetching" /\ worker'.run = worker.run
        /\ worker'.left = worker.left
        /\ \A t \in Sources : worker'.todo[t] = IF t = s THEN None ELSE worker.todo[t]
    BY <2>1, Untodo
  <2>3. /\ \A t \in Sources : t # s =>
             run'[worker.run].results[t] = run[worker.run].results[t]
        /\ run'[worker.run].exec = run[worker.run].exec
    BY <2>1, RecordKeeps, GivenIds DEF Busies
  <2>4. \A t \in Sources : worker'.todo[t] = None
    BY <2>1, <2>2 DEF IInv, ThreadHolds
  <2>5. /\ s \notin worker.left /\ worker.left \subseteq Sources
        /\ worker.left \subseteq {t \in run[worker.run].exec :
                                   run[worker.run].results[t] = None}
    BY <2>1 DEF InMemory, IInv, TypeOK, Thread
  <2> QED BY <2>2, <2>3, <2>4, <2>5 DEF InMemory
<1>7. CASE Client
  <2>1. CASE worker.pc \in Busies
    <3>1. worker' = worker /\ run'[worker.run] = run[worker.run]
      BY <1>7, <2>1, ClientLeavesWork, GivenIds
    <3> QED BY <3>1 DEF InMemory
  <2>2. CASE worker.pc \notin Busies
    <3>1. worker' = worker \/ worker'.pc = "idle"
      <4>1. ASSUME NEW rows, StartAfter(rows)
            PROVE  worker' = worker \/ worker'.pc = "idle"
        BY <4>1 DEF StartAfter, Resting
      <4>2. \E rows : StartAfter(rows)
        <5>1. ASSUME NEW S \in Selections, EnqueueManual(S)
              PROVE  \E rows : StartAfter(rows)
          BY <5>1 DEF EnqueueManual, Accept
        <5>2. ASSUME NEW q \in Requests, NEW S \in Selections, NEW ctx \in Contexts,
                     EnqueueRequest(q, S, ctx) \/ RepeatRequest(q, S, ctx)
              PROVE  \E rows : StartAfter(rows)
          BY <5>2, Zenon DEF EnqueueRequest, RepeatRequest, Accept
        <5> QED BY <1>7, <5>1, <5>2 DEF Client
      <4> QED BY <4>1, <4>2
    <3> QED BY <1>1, <2>2, <3>1 DEF Busies
  <2> QED BY <2>1, <2>2
<1> QED BY <1>2, <1>3, <1>4, <1>5, <1>6, <1>7 DEF Next, WorkerStep

LEMMA MemoryInvariance == Spec => [](IInv /\ InMemory)
<1>1. Init => InMemory
  BY DEF Init, InMemory, Resting
<1>2. InMemory /\ UNCHANGED vars => InMemory'
  BY DEF vars, InMemory
<1>3. IInv /\ InMemory /\ [Next]_vars => InMemory'
  BY <1>2, MemoryStep, ParserControlAssumption
<1> QED BY <1>1, <1>3, Invariance, PTL DEF Spec

LEMMA ThreadExact ==
  ASSUME IInv, InMemory, ParserControlAssumption, Retained(worker.run)
  PROVE  ThreadMatchesRun
<1> SUFFICES ASSUME worker.pc \in Busies
             PROVE  /\ run[worker.run].status = "running"
                    /\ worker.pc \in {"fetching", "recording"} =>
                         worker.left \cup {s \in Sources : worker.todo[s] # None}
                           = ToFetch(worker.run)
  BY DEF ThreadMatchesRun, Busies
<1>1. PICK w : w = worker.run
  OBVIOUS
<1>2. w \in Given /\ w \in Ids /\ run[w].status = "running" /\ run[w] \in Row
  BY <1>1, GivenIds DEF IInv, TypeOK
<1>3. Retained(w) /\ Active(w)
  BY <1>1, <1>2 DEF Active, ActiveStatuses
<1>4. ASSUME worker.pc \in {"fetching", "recording"}
      PROVE  worker.left \cup {s \in Sources : worker.todo[s] # None}
               = {s \in run[w].exec : run[w].results[s] = None}
  <2>1. worker.left \cup {s \in Sources : worker.todo[s] # None}
          \subseteq {s \in run[w].exec : run[w].results[s] = None}
    BY <1>1, <1>4 DEF InMemory
  <2>2. run[w].exec \subseteq run[w].sources /\ run[w].exec \subseteq Sources
    BY <1>2 DEF IInv, RowShape, Row
  <2>3. \A s \in run[w].sources : run[w].results[s] = None =>
          s \in worker.left \cup {t \in Sources : worker.todo[t] # None}
    BY <1>1, <1>3, <1>4 DEF IInv, ThreadHolds
  <2> QED BY <2>1, <2>2, <2>3
<1> QED BY <1>1, <1>2, <1>3, <1>4 DEF ToFetch

(* Whatever fails: while the list still has the run that the thread works  *)
(* on, what the thread has in memory agrees with the file.                 *)
ThreadMatchesRetained == Retained(worker.run) => ThreadMatchesRun
THEOREM ThreadAgrees == Spec => []ThreadMatchesRetained
<1>1. IInv /\ InMemory => ThreadMatchesRetained
  BY ThreadExact, ParserControlAssumption DEF ThreadMatchesRetained
<1> QED BY <1>1, MemoryInvariance, PTL

(* As long as no run is ever dropped from the list, they agree.            *)
THEOREM ThreadAgreesInList == MaxRuns <= MaxRecent => (Spec => []ThreadMatchesRun)
<1> SUFFICES ASSUME MaxRuns <= MaxRecent PROVE Spec => []ThreadMatchesRun
  OBVIOUS
<1>1. ASSUME IInv, InMemory PROVE ThreadMatchesRun
  <2>1. ASSUME worker.pc \in Busies PROVE Retained(worker.run)
    <3>1. worker.run \in 1..count /\ count \in Nat /\ count <= MaxRuns
      BY <1>1, <2>1, GivenIds, ParserControlAssumption DEF Given
    <3> QED BY <3>1, ParserControlAssumption DEF Retained
  <2> QED BY <1>1, <2>1, ThreadExact, ParserControlAssumption
          DEF ThreadMatchesRun, Busies
<1> QED BY <1>1, MemoryInvariance, PTL

-----------------------------------------------------------------------------
(* Nothing waits in a circle: a run takes results only from runs accepted   *)
(* before it, whatever fails.                                               *)
OlderOnly == \A i \in Ids, s \in Sources :
               run[i].deps[s] # 0 => run[i].deps[s] \in 1..(i - 1)

LEMMA OlderStays ==
  ASSUME OlderOnly, \A i \in Ids : run'[i].deps = run[i].deps
  PROVE  OlderOnly'
BY DEF OlderOnly, Ids

LEMMA OlderJoins ==
  ASSUME IInv, OlderOnly, ParserControlAssumption,
         NEW S, NEW exec, NEW deps, NEW ctx, Accept(S, exec, deps, ctx),
         \A s \in Sources : deps[s] # 0 => deps[s] \in Covering(s)
  PROVE  OlderOnly'
<1>1. PICK row : row = NewRun(S, exec, deps, ctx)
  OBVIOUS
<1>2. row.deps = deps
  BY <1>1 DEF NewRun
<1>3. count \in Nat /\ count + 1 \in Ids /\ run \in [Ids -> Row] /\ Ids \subseteq Nat
  BY ParserControlAssumption DEF IInv, TypeOK, Ids, Accept, HasRoom
<1>4. PICK rows : rows = [run EXCEPT ![count + 1] = row]
  OBVIOUS
<1>5. StartAfter(rows)
  BY <1>1, <1>4 DEF Accept, NewRun
<1>6. \A i \in Ids : run'[i].deps = rows[i].deps
  <2>1. CASE run' = rows
    BY <2>1
  <2>2. CASE run' = Recovered(rows)
    <3>1. ASSUME NEW i \in Ids PROVE Recovered(rows)[i].deps = rows[i].deps
      <4>1. CASE i = count + 1
        <5>1. row.status = "queued" /\ rows[i] = row
          BY <1>1, <1>3, <1>4, <4>1 DEF NewRun
        <5> QED BY <5>1 DEF Recovered
      <4>2. CASE i # count + 1
        <5>1. rows[i] \in Row
          BY <1>3, <1>4, <4>2
        <5> QED BY <5>1 DEF Recovered, Row
      <4> QED BY <4>1, <4>2
    <3> QED BY <2>2, <3>1
  <2> QED BY <1>5, <2>1, <2>2 DEF StartAfter
<1>7. ASSUME NEW s \in Sources, deps[s] # 0 PROVE deps[s] \in 1..count
  BY <1>7 DEF Covering, ActiveIds, Active, Retained
<1>8. ASSUME NEW i \in Ids, NEW s \in Sources, rows[i].deps[s] # 0
      PROVE  rows[i].deps[s] \in 1..(i - 1)
  <2>1. CASE i = count + 1
    <3>1. rows[i].deps = deps
      BY <1>2, <1>3, <1>4, <2>1
    <3>2. i - 1 = count
      BY <1>3, <2>1
    <3> QED BY <1>7, <1>8, <3>1, <3>2
  <2>2. CASE i # count + 1
    BY <1>3, <1>4, <1>8, <2>2 DEF OlderOnly
  <2> QED BY <2>1, <2>2
<1> QED BY <1>6, <1>8 DEF OlderOnly, Ids

LEMMA OlderClient ==
  ASSUME IInv, OlderOnly, ParserControlAssumption, Client
  PROVE  OlderOnly'
<1>1. ASSUME StartAfter(run) PROVE OlderOnly'
  <2>1. \A i \in Ids : SameWork(run[i], run'[i])
    BY <1>1, StartRows DEF IInv, TypeOK
  <2> QED BY <2>1, OlderStays DEF SameWork
<1>2. ASSUME NEW S \in Selections, EnqueueManual(S)
      PROVE  OlderOnly'
  <2>1. CASE {s \in S : ~Busy(s)} = {}
    BY <1>1, <1>2, <2>1 DEF EnqueueManual
  <2>2. CASE {s \in S : ~Busy(s)} # {}
    <3>1. PICK deps : deps = [s \in Sources |-> 0]
      OBVIOUS
    <3>2. \E exec : Accept(exec, exec, deps, "manual")
      BY <1>2, <2>2, <3>1 DEF EnqueueManual
    <3> QED BY <3>1, <3>2, OlderJoins
  <2> QED BY <2>1, <2>2
<1>3. ASSUME NEW q \in Requests, NEW S \in Selections, NEW ctx \in Contexts,
             EnqueueRequest(q, S, ctx)
      PROVE  OlderOnly'
  <2>1. PICK shared : shared = {s \in S : Covering(s) # {}}
    OBVIOUS
  <2>2. PICK deps : deps = [s \in Sources |->
                              IF s \in shared THEN FirstCovering(s) ELSE 0]
    OBVIOUS
  <2>3. StartAfter(run) \/ Accept(S, S \ shared, deps, ctx)
    BY <1>3, <2>1, <2>2 DEF EnqueueRequest
  <2>4. \A s \in Sources : deps[s] # 0 => deps[s] \in Covering(s)
    BY <2>1, <2>2, FirstCoveringRun DEF ParserControlAssumption
  <2> QED BY <1>1, <2>3, <2>4, OlderJoins
<1>4. ASSUME NEW q \in Requests, NEW S \in Selections, NEW ctx \in Contexts,
             RepeatRequest(q, S, ctx)
      PROVE  OlderOnly'
  BY <1>1, <1>4 DEF RepeatRequest
<1> QED BY <1>2, <1>3, <1>4 DEF Client

LEMMA OlderStep ==
  ASSUME IInv, OlderOnly, ParserControlAssumption, Next
  PROVE  OlderOnly'
<1>0. run \in [Ids -> Row]
  BY DEF IInv, TypeOK
<1>1. CASE UNCHANGED run
  BY <1>1, OlderStays
<1>2. CASE Boot
  <2>1. \A i \in Ids : SameWork(run[i], run'[i])
    BY <1>0, <1>2, RecoveredRows DEF Boot, SameWork
  <2> QED BY <2>1, OlderStays DEF SameWork
<1>3. CASE ClaimNextRun \/ FinishRun
  <2>1. UNCHANGED run \/ \E i \in Ids : \E st : run' = [run EXCEPT ![i].status = st]
    <3>1. CASE ClaimNextRun
      BY <3>1 DEF ClaimNextRun, Ready, Queued
    <3>2. CASE FinishRun
      BY <3>2, GivenIds DEF FinishRun, Busies
    <3> QED BY <1>3, <3>1, <3>2
  <2>2. ASSUME NEW i \in Ids, NEW st, run' = [run EXCEPT ![i].status = st]
        PROVE  \A j \in Ids : run'[j].deps = run[j].deps
    <3>1. run[i] \in Row /\ run' = [run EXCEPT ![i] = [run[i] EXCEPT !.status = st]]
      BY <1>0, <2>2
    <3>2. [run[i] EXCEPT !.status = st].deps = run[i].deps
      BY <3>1 DEF Row
    <3> QED BY <1>0, <3>1, <3>2
  <2> QED BY <1>1, <2>1, <2>2, OlderStays
<1>4. ASSUME NEW s \in Sources, RecordDependency(s) \/ RecordFetched(s)
      PROVE  OlderOnly'
  <2>1. Record(s) /\ worker.pc \in Busies
    BY <1>4 DEF RecordDependency, RecordFetched, Busies
  <2> QED BY <2>1, RecordKeeps, OlderStays
<1>5. CASE ReadDependencies \/ Resume \/ StorageError \/ Restart
           \/ \E s \in Sources : Fetch(s)
  BY <1>1, <1>5 DEF ReadDependencies, Resume, StorageError, Restart, Fetch
<1> QED BY <1>2, <1>3, <1>4, <1>5, OlderClient DEF Next, WorkerStep

(* Whatever fails and whenever the process stops: when no run is marked as  *)
(* running and some are queued, one of them can be claimed.  Runs never     *)
(* wait for each other in a circle, and after the recovery of a restart,    *)
(* which leaves none running, the thread has something to do.               *)
THEOREM QueueMoves == Spec => []NoDeadlock
<1>1. Init => OlderOnly
  BY DEF Init, OlderOnly, NoRun
<1>2. IInv /\ OlderOnly /\ [Next]_vars => OlderOnly'
  <2>1. OlderOnly /\ UNCHANGED vars => OlderOnly'
    BY OlderStays DEF vars
  <2> QED BY <2>1, OlderStep, ParserControlAssumption
<1>3. ASSUME OlderOnly PROVE NoDeadlock
  <2> SUFFICES ASSUME ActiveIds # {}, \A i \in ActiveIds : run[i].status = "queued"
               PROVE  Ready # {}
    BY DEF NoDeadlock
  <2>1. ActiveIds \subseteq Nat
    BY DEF ActiveIds, Ids
  <2>2. PICK k \in ActiveIds : \A j \in ActiveIds : k <= j
    BY <2>1, LeastNat
  <2>3. k \in Ids /\ k \in Nat /\ Retained(k) /\ run[k].status = "queued"
    BY <2>1, <2>2 DEF ActiveIds, Active
  <2>4. DependenciesFinished(k)
    <3> SUFFICES ASSUME NEW s \in Sources, run[k].deps[s] # 0, Active(run[k].deps[s])
                 PROVE  FALSE
      BY DEF DependenciesFinished
    <3>1. PICK d : d = run[k].deps[s]
      OBVIOUS
    <3>2. d \in Nat /\ d < k /\ d \in 1..(k - 1)
      BY <1>3, <2>3, <3>1 DEF OlderOnly
    <3>3. d \in Ids
      BY <2>3, <3>2, ParserControlAssumption DEF Ids
    <3>4. d \in ActiveIds
      BY <3>1, <3>3 DEF ActiveIds
    <3> QED BY <2>1, <2>2, <2>3, <3>2, <3>4
  <2> QED BY <2>3, <2>4 DEF Ready, Queued
<1> QED BY <1>1, <1>2, <1>3, Invariance, PTL DEF Spec

-----------------------------------------------------------------------------
(* The list, where the file never fails: the thread works through the runs *)
(* in their order, so those not finished are the newest, as many as may be *)
(* pending, and a run waits only for runs that were pending with it.       *)
Waits(i, s) ==
  LET d == run[i].deps[s] IN
  d # 0 => d \in Given /\ d < i /\ i < d + MaxPending /\ s \in run[d].sources

InOrder ==
  /\ worker.pc # "off"
  /\ \A i \in Given :
       /\ run[i].status # "none"
       /\ \A s \in Sources : Waits(i, s)
       /\ ~Terminal(i) => i + MaxPending > count
       /\ run[i].status = "running" => worker.pc # "idle"
  /\ \A i, j \in Given : i < j /\ ~Terminal(i) =>
       run[j].status = "queued"

NoFault == ParserControlAssumption /\ MaxFaults = 0

LEMMA NoStorageFault == ASSUME IInv, NoFault PROVE ~StorageFails
BY DEF IInv, TypeOK, NoFault, StorageFails

(* A run that is not finished is in the list, and active.                  *)
LEMMA UnfinishedActive ==
  ASSUME IInv, InOrder, ParserControlAssumption, NEW i \in Given, ~Terminal(i)
  PROVE  Retained(i) /\ Active(i) /\ i \in ActiveIds
<1>1. i \in Ids /\ i \in Nat /\ count \in Nat /\ run[i].status \in {"queued", "running"}
  BY GivenIds DEF InOrder, Given
<1>2. i + MaxPending > count /\ MaxPending \in Nat /\ MaxRecent \in Nat
      /\ MaxPending <= MaxRecent
  BY DEF InOrder, ParserControlAssumption
<1> QED BY <1>1, <1>2 DEF Retained, Active, ActiveIds, ActiveStatuses, Given

LEMMA ActiveUnfinished ==
  ASSUME NEW i, Active(i)
  PROVE  i \in Given /\ ~Terminal(i)
BY DEF Active, Retained, Given, Terminal, ActiveStatuses, TerminalStatuses

(* The pending runs are the newest: there is room for another only when    *)
(* the oldest of them is not too far back.                                 *)
LEMMA RoomMeansNear ==
  ASSUME IInv, InOrder, ParserControlAssumption, HasRoom,
         NEW i \in Given, ~Terminal(i)
  PROVE  i + MaxPending > count + 1
<1>1. i \in Nat /\ count \in Nat /\ i <= count /\ MaxPending \in Nat
  BY GivenIds DEF Given, ParserControlAssumption
<1>2. PICK n : n = count
  OBVIOUS
<1>3. i..n \subseteq ActiveIds
  <2> SUFFICES ASSUME NEW j \in i..n PROVE j \in ActiveIds
    OBVIOUS
  <2>1. j \in Given /\ j \in Nat
    BY <1>1, <1>2 DEF Given
  <2>2. ~Terminal(j)
    <3>1. CASE j = i
      BY <3>1
    <3>2. CASE j # i
      <4>1. i < j
        BY <1>1, <2>1, <3>2
      <4>2. run[j].status = "queued"
        BY <2>1, <4>1 DEF InOrder
      <4> QED BY <4>2 DEF Terminal, TerminalStatuses
    <3> QED BY <3>1, <3>2
  <2> QED BY <2>1, <2>2, UnfinishedActive
<1>4. IsFiniteSet(ActiveIds) /\ Cardinality(ActiveIds) \in Nat
  <2>1. Ids = 1..MaxRuns /\ MaxRuns \in Int /\ 1 \in Int
    BY DEF Ids, ParserControlAssumption
  <2>2. IsFiniteSet(Ids)
    BY <2>1, FS_Interval
  <2>3. ActiveIds \in SUBSET Ids
    BY DEF ActiveIds
  <2>4. IsFiniteSet(ActiveIds)
    BY <2>2, <2>3, FS_Subset
  <2> QED BY <2>4, FS_CardinalityType
<1>5. Cardinality(i..n) = n - i + 1
  <2>1. i \in Int /\ n \in Int /\ ~(i > n)
    BY <1>1, <1>2
  <2> QED BY <2>1, FS_Interval
<1>6. Cardinality(i..n) <= Cardinality(ActiveIds)
  <2>1. (i..n) \in SUBSET ActiveIds
    BY <1>3
  <2> QED BY <1>4, <2>1, FS_Subset
<1>7. Cardinality(ActiveIds) < MaxPending
  BY DEF HasRoom
<1> QED BY <1>1, <1>2, <1>4, <1>5, <1>6, <1>7

(* Steps that change no status.                                            *)
LEMMA OrderKept ==
  ASSUME IInv, InOrder, ParserControlAssumption, count' = count,
         \A i \in Ids : /\ run'[i].status = run[i].status
                        /\ run'[i].deps = run[i].deps
                        /\ run'[i].sources = run[i].sources,
         worker'.pc # "off", worker'.pc = "idle" => worker.pc = "idle"
  PROVE  InOrder'
<1>1. Given' = Given /\ Given \subseteq Ids
  BY GivenIds DEF Given
<1>2. \A i \in Given : Terminal(i)' <=> Terminal(i)
  BY <1>1 DEF Terminal
<1>3. \A i \in Given, s \in Sources : Waits(i, s)'
  BY <1>1 DEF Waits, InOrder
<1> QED BY <1>1, <1>2, <1>3 DEF InOrder

(* A new run.                                                              *)
LEMMA AcceptOrder ==
  ASSUME IInv, InOrder, ParserControlAssumption,
         NEW S, NEW exec, NEW deps, NEW ctx, Accept(S, exec, deps, ctx),
         \A s \in Sources : deps[s] # 0 => deps[s] \in Covering(s)
  PROVE  InOrder'
<1> DEFINE new == NewRun(S, exec, deps, ctx)
<1>1. /\ count' = count + 1 /\ HasRoom /\ count < MaxRuns
      /\ run' = [run EXCEPT ![count + 1] = new] /\ worker' = worker
  BY DEF Accept, HasRoom, StartAfter, InOrder, NewRun
<1>2. count + 1 \in Ids /\ count \in Nat /\ MaxPending \in Nat \ {0}
      /\ DOMAIN run = Ids /\ MaxRuns \in Nat
  BY <1>1 DEF IInv, TypeOK, Ids, ParserControlAssumption
<1>3. /\ new.status = "queued" /\ new.deps = deps
  BY DEF NewRun
<1> HIDE DEF new
<1>4. /\ run'[count + 1] = new /\ Given' = Given \cup {count + 1}
      /\ \A i \in Given : run'[i] = run[i] /\ i <= count /\ i \in Nat
  BY <1>1, <1>2, GivenIds DEF Given
<1>5. \A i \in Given : Terminal(i)' <=> Terminal(i)
  BY <1>4 DEF Terminal
<1>6. ASSUME NEW i \in Given, NEW s \in Sources PROVE Waits(i, s)'
  <2>1. Waits(i, s)
    BY DEF InOrder
  <2> QED BY <1>4, <2>1 DEF Waits
<1>7. PICK n : n = count + 1
  OBVIOUS
<1>8. ASSUME NEW s \in Sources PROVE Waits(n, s)'
  <2>1. run'[n].deps[s] = deps[s]
    BY <1>3, <1>4, <1>7
  <2>2. CASE deps[s] = 0
    BY <2>1, <2>2 DEF Waits
  <2>3. CASE deps[s] # 0
    <3>1. Active(deps[s]) /\ s \in run[deps[s]].sources
      BY <2>3 DEF Covering, ActiveIds
    <3>2. deps[s] \in Given /\ ~Terminal(deps[s])
      BY <3>1, ActiveUnfinished
    <3>3. n < deps[s] + MaxPending
      BY <1>1, <1>2, <1>4, <1>7, <3>2, RoomMeansNear
    <3>4. deps[s] < n /\ run'[deps[s]] = run[deps[s]] /\ deps[s] \in Given'
      BY <1>2, <1>4, <1>7, <3>2
    <3> QED BY <2>1, <3>1, <3>3, <3>4 DEF Waits
  <2> QED BY <2>2, <2>3
<1>9. ASSUME NEW i \in Given', ~Terminal(i)' PROVE i + MaxPending > count'
  <2>1. CASE i \in Given
    BY <1>1, <1>5, <1>9, <2>1, RoomMeansNear
  <2>2. CASE i = count + 1
    BY <1>1, <1>2, <2>2
  <2> QED BY <1>4, <2>1, <2>2
<1>10. ASSUME NEW i \in Given', NEW j \in Given', i < j, ~Terminal(i)'
      PROVE  run'[j].status = "queued"
  <2>1. CASE j = count + 1
    BY <1>3, <1>4, <2>1
  <2>2. CASE j \in Given
    <3>1. i \in Given
      BY <1>2, <1>4, <1>10, <2>2
    <3> QED BY <1>4, <1>5, <1>10, <2>2, <3>1 DEF InOrder
  <2> QED BY <1>4, <2>1, <2>2
<1>11. \A i \in Given' : /\ run'[i].status # "none"
                         /\ run'[i].status = "running" => worker'.pc # "idle"
  BY <1>1, <1>3, <1>4 DEF InOrder
<1>12. \A i \in Given', s \in Sources : Waits(i, s)'
  BY <1>4, <1>6, <1>7, <1>8
<1> QED BY <1>1, <1>9, <1>10, <1>11, <1>12 DEF InOrder

LEMMA ClientOrder ==
  ASSUME IInv, InOrder, ParserControlAssumption, Client
  PROVE  InOrder' /\ worker' = worker
         /\ \A i \in Given : run'[i] = run[i]
<1>1. worker.pc # "off"
  BY DEF InOrder
<1>2. ASSUME StartAfter(run), count' = count
      PROVE  InOrder' /\ worker' = worker /\ \A i \in Given : run'[i] = run[i]
  <2>1. run' = run /\ worker' = worker
    BY <1>1, <1>2 DEF StartAfter
  <2> QED BY <1>1, <1>2, <2>1, OrderKept
<1>3. ASSUME NEW S, NEW exec, NEW deps, NEW ctx, Accept(S, exec, deps, ctx),
             \A s \in Sources : deps[s] # 0 => deps[s] \in Covering(s)
      PROVE  InOrder' /\ worker' = worker /\ \A i \in Given : run'[i] = run[i]
  <2>1. worker' = worker /\ \E new : run' = [run EXCEPT ![count + 1] = new]
    BY <1>1, <1>3 DEF Accept, StartAfter
  <2>2. \A i \in Given : i # count + 1
    BY GivenIds DEF Given
  <2>3. InOrder'
    BY <1>3, AcceptOrder
  <2> QED BY <2>1, <2>2, <2>3, GivenIds DEF IInv, TypeOK
<1>4. ASSUME NEW S \in Selections, EnqueueManual(S)
      PROVE  InOrder' /\ worker' = worker /\ \A i \in Given : run'[i] = run[i]
  <2>1. CASE {s \in S : ~Busy(s)} = {}
    BY <1>2, <1>4, <2>1 DEF EnqueueManual
  <2>2. CASE {s \in S : ~Busy(s)} # {}
    <3>1. PICK deps : deps = [s \in Sources |-> 0]
      OBVIOUS
    <3>2. \E exec : Accept(exec, exec, deps, "manual")
      BY <1>4, <2>2, <3>1 DEF EnqueueManual
    <3> QED BY <1>3, <3>1, <3>2
  <2> QED BY <2>1, <2>2
<1>5. ASSUME NEW q \in Requests, NEW S \in Selections, NEW ctx \in Contexts,
             EnqueueRequest(q, S, ctx)
      PROVE  InOrder' /\ worker' = worker /\ \A i \in Given : run'[i] = run[i]
  <2>1. PICK shared : shared = {s \in S : Covering(s) # {}}
    OBVIOUS
  <2>2. PICK deps : deps = [s \in Sources |->
                              IF s \in shared THEN FirstCovering(s) ELSE 0]
    OBVIOUS
  <2>3. \/ StartAfter(run) /\ count' = count
        \/ Accept(S, S \ shared, deps, ctx)
    BY <1>5, <2>1, <2>2 DEF EnqueueRequest
  <2>4. \A s \in Sources : deps[s] # 0 => deps[s] \in Covering(s)
    BY <2>1, <2>2, FirstCoveringRun DEF ParserControlAssumption
  <2> QED BY <1>2, <1>3, <2>3, <2>4
<1>6. ASSUME NEW q \in Requests, NEW S \in Selections, NEW ctx \in Contexts,
             RepeatRequest(q, S, ctx)
      PROVE  InOrder' /\ worker' = worker /\ \A i \in Given : run'[i] = run[i]
  BY <1>2, <1>6 DEF RepeatRequest
<1> QED BY <1>4, <1>5, <1>6 DEF Client

(* The thread claims the oldest run that is not finished: what that run    *)
(* waits for is older still.                                               *)
LEMMA ClaimOldest ==
  ASSUME IInv, InOrder, ParserControlAssumption, worker.pc = "idle",
         NEW i \in Ready, \A j \in Ready : i <= j
  PROVE  i \in Given /\ \A j \in Given : j < i => Terminal(j)
<1>1. i \in Given
  BY DEF Ready, Queued, Retained, Given
<1>2. SUFFICES ASSUME \E j \in Given : j < i /\ ~Terminal(j) PROVE FALSE
  BY <1>1
<1> DEFINE T == {j \in Given : j < i /\ ~Terminal(j)}
<1>3. T \subseteq Nat /\ T # {}
  BY <1>2, GivenIds DEF Given
<1>4. PICK k \in T : \A j \in T : k <= j
  <2> HIDE DEF T
  <2> QED BY <1>3, LeastNat
<1>5. k \in Given /\ k < i /\ ~Terminal(k) /\ k \in Nat
  BY <1>3, <1>4
<1>6. \A j \in Given : j < k => Terminal(j)
  <2> SUFFICES ASSUME NEW j \in Given, j < k, ~Terminal(j) PROVE FALSE
    OBVIOUS
  <2>1. j \in Nat /\ i \in Nat /\ j < i
    BY <1>1, <1>5, GivenIds DEF Given
  <2>2. j \in T
    BY <2>1
  <2>3. k <= j
    BY <1>4, <2>2
  <2> QED BY <1>5, <2>1, <2>3
<1>7. Retained(k) /\ k \in Ids
  BY <1>5, UnfinishedActive, GivenIds
<1>8. run[k].status = "queued"
  BY <1>5, GivenIds DEF InOrder
<1>9. DependenciesFinished(k)
  <2> SUFFICES ASSUME NEW s \in Sources, run[k].deps[s] # 0
               PROVE  ~Active(run[k].deps[s])
    BY DEF DependenciesFinished
  <2>1. run[k].deps[s] \in Given /\ run[k].deps[s] < k
    BY <1>5 DEF InOrder, Waits
  <2>2. Terminal(run[k].deps[s])
    BY <1>6, <2>1
  <2> QED BY <2>2, ActiveUnfinished
<1>10. k \in Ready
  BY <1>7, <1>8, <1>9 DEF Ready, Queued
<1>11. i <= k /\ i \in Nat
  BY <1>1, <1>10, GivenIds DEF Given
<1> QED BY <1>5, <1>11

LEMMA ClaimOrder ==
  ASSUME IInv, InOrder, ParserControlAssumption, ClaimNextRun
  PROVE  InOrder'
<1>1. PICK i \in Ready : /\ \A j \in Ready : i <= j
                         /\ run' = [run EXCEPT ![i].status = "running"]
                         /\ worker' = [Resting("claimed") EXCEPT !.run = i]
  BY DEF ClaimNextRun
<1>2. i \in Given /\ (\A j \in Given : j < i => Terminal(j)) /\ worker.pc = "idle"
  BY <1>1, ClaimOldest DEF ClaimNextRun
<1>3. /\ i \in Ids /\ run[i] \in Row /\ run[i].status = "queued"
      /\ DOMAIN run = Ids /\ Given \subseteq Ids
  BY <1>1, <1>2, GivenIds DEF IInv, TypeOK, Ready, Queued
<1>4. PICK r : r = [run[i] EXCEPT !.status = "running"]
  OBVIOUS
<1>5. /\ r.status = "running" /\ r.deps = run[i].deps /\ r.sources = run[i].sources
  BY <1>3, <1>4 DEF Row
<1>6. run'[i] = r /\ \A j \in Given : j # i => run'[j] = run[j]
  BY <1>1, <1>3, <1>4
<1>7. worker'.pc = "claimed"
  BY <1>1 DEF Resting
<1>8. Given' = Given /\ count' = count
  BY DEF ClaimNextRun, Given
<1>9. \A j \in Given : Terminal(j)' <=> Terminal(j)
  BY <1>3, <1>5, <1>6 DEF Terminal, TerminalStatuses
<1>10. \A j \in Given, s \in Sources : Waits(j, s)'
  <2> SUFFICES ASSUME NEW j \in Given, NEW s \in Sources PROVE Waits(j, s)'
    OBVIOUS
  <2>1. \A k \in Given : run'[k].deps = run[k].deps /\ run'[k].sources = run[k].sources
    BY <1>5, <1>6
  <2>2. Waits(j, s)
    BY DEF InOrder
  <2> QED BY <1>8, <2>1, <2>2 DEF Waits
<1>11. \A j \in Given : /\ run'[j].status # "none"
                        /\ ~Terminal(j)' => j + MaxPending > count'
  BY <1>5, <1>6, <1>8, <1>9 DEF InOrder
<1>12. ASSUME NEW j \in Given, NEW k \in Given, j < k, ~Terminal(j)'
       PROVE  run'[k].status = "queued"
  <2>1. ~Terminal(j)
    BY <1>9, <1>12
  <2>2. k # i
    BY <1>2, <1>12, <2>1
  <2> QED BY <1>6, <1>12, <2>1, <2>2 DEF InOrder
<1> QED BY <1>7, <1>8, <1>10, <1>11, <1>12 DEF InOrder

LEMMA BootOrder ==
  ASSUME IInv, InOrder, NoFault, Boot
  PROVE  InOrder'
<1>1. /\ run' = Recovered(run) /\ worker' = Resting("idle") /\ count' = count
      /\ Given' = Given
  BY NoStorageFault DEF Boot, Given
<1>2. worker'.pc = "idle"
  BY <1>1 DEF Resting
<1>3. run \in [Ids -> Row] /\ Given \subseteq Ids
  BY GivenIds DEF IInv, TypeOK, NoFault
<1>4. ASSUME NEW i \in Given
      PROVE  /\ run'[i].deps = run[i].deps /\ run'[i].sources = run[i].sources
             /\ run'[i].status = IF run[i].status = "running" THEN "queued"
                                 ELSE run[i].status
  <2>1. SameWork(run[i], run'[i])
    BY <1>1, <1>3, RecoveredRows
  <2>2. CASE run[i].status = "running"
    <3>1. Retained(i)
      BY <2>2, UnfinishedActive DEF NoFault, Terminal, TerminalStatuses
    <3>2. run'[i] = [run[i] EXCEPT !.status = "queued"]
      BY <1>1, <1>3, <2>2, <3>1 DEF Recovered
    <3>3. run[i] \in Row
      BY <1>3
    <3>4. run'[i].status = "queued"
      BY <3>2, <3>3 DEF Row
    <3> QED BY <2>1, <2>2, <3>4 DEF SameWork
  <2>3. CASE run[i].status # "running"
    BY <2>1, <2>3 DEF SameWork
  <2> QED BY <2>2, <2>3
<1>5. \A i \in Given : Terminal(i)' <=> Terminal(i)
  BY <1>1, <1>4 DEF Terminal, TerminalStatuses
<1>6. \A i \in Given, s \in Sources : Waits(i, s)'
  <2> SUFFICES ASSUME NEW i \in Given, NEW s \in Sources PROVE Waits(i, s)'
    OBVIOUS
  <2>1. Waits(i, s)
    BY DEF InOrder
  <2> QED BY <1>1, <1>4, <2>1 DEF Waits
<1>7. \A i \in Given : /\ run'[i].status # "none" /\ run'[i].status # "running"
                       /\ ~Terminal(i)' => i + MaxPending > count'
  BY <1>1, <1>4, <1>5 DEF InOrder
<1>8. ASSUME NEW i \in Given, NEW j \in Given, i < j, ~Terminal(i)'
      PROVE  run'[j].status = "queued"
  BY <1>4, <1>5, <1>8 DEF InOrder
<1> QED BY <1>1, <1>2, <1>6, <1>7, <1>8 DEF InOrder

LEMMA FinishOrder ==
  ASSUME IInv, InOrder, ParserControlAssumption, FinishRun
  PROVE  InOrder'
<1>1. PICK w : w = worker.run
  OBVIOUS
<1>2. /\ w \in Given /\ w \in Ids /\ run[w].status = "running" /\ run[w] \in Row
      /\ run \in [Ids -> Row] /\ Given \subseteq Ids /\ ~Terminal(w)
  BY <1>1, GivenIds DEF FinishRun, Busies, IInv, TypeOK, Terminal, TerminalStatuses
<1>3. Retained(w)
  BY <1>2, UnfinishedActive
<1>4. PICK st : st = TerminalStatus(run[w])
  OBVIOUS
<1>5. st \in TerminalStatuses
  BY <1>4 DEF TerminalStatus, TerminalStatuses
<1>6. PICK new : new = [run[w] EXCEPT !.status = st]
  OBVIOUS
<1>7. /\ new.status = st /\ new.deps = run[w].deps /\ new.sources = run[w].sources
  BY <1>2, <1>6 DEF Row
<1>8. run' = [run EXCEPT ![w] = new]
  BY <1>1, <1>2, <1>3, <1>4, <1>6 DEF FinishRun
<1>9. run'[w] = new /\ \A i \in Given : i # w => run'[i] = run[i]
  BY <1>2, <1>8
<1>10. Given' = Given /\ count' = count /\ worker'.pc = "idle"
  BY DEF FinishRun, Given, Resting
<1>11. ASSUME NEW i \in Given
       PROVE  IF i = w THEN Terminal(i)'
              ELSE (Terminal(i)' <=> Terminal(i)) /\ run'[i].status # "running"
  <2>1. CASE i = w
    BY <1>5, <1>7, <1>9, <2>1 DEF Terminal
  <2>2. CASE i < w
    <3>1. Terminal(i)
      BY <1>2, <2>2 DEF InOrder
    <3> QED BY <1>2, <1>9, <2>2, <3>1 DEF Terminal, TerminalStatuses
  <2>3. CASE w < i
    <3>1. run[i].status = "queued"
      BY <1>2, <2>3 DEF InOrder
    <3> QED BY <1>2, <1>9, <2>3, <3>1 DEF Terminal
  <2> QED BY <1>2, <2>1, <2>2, <2>3 DEF Given
<1>12. \A i \in Given, s \in Sources : Waits(i, s)'
  <2> SUFFICES ASSUME NEW i \in Given, NEW s \in Sources PROVE Waits(i, s)'
    OBVIOUS
  <2>1. \A k \in Given : run'[k].deps = run[k].deps /\ run'[k].sources = run[k].sources
    BY <1>7, <1>9
  <2>2. Waits(i, s)
    BY DEF InOrder
  <2> QED BY <1>10, <2>1, <2>2 DEF Waits
<1>13. \A i \in Given : /\ run'[i].status # "none" /\ run'[i].status # "running"
                        /\ ~Terminal(i)' => i + MaxPending > count'
  <2> SUFFICES ASSUME NEW i \in Given
               PROVE  /\ run'[i].status # "none" /\ run'[i].status # "running"
                      /\ ~Terminal(i)' => i + MaxPending > count'
    OBVIOUS
  <2>1. CASE i = w
    BY <1>5, <1>7, <1>9, <1>11, <2>1 DEF TerminalStatuses
  <2>2. CASE i # w
    BY <1>9, <1>10, <1>11, <2>2 DEF InOrder
  <2> QED BY <2>1, <2>2
<1>14. ASSUME NEW i \in Given, NEW j \in Given, i < j, ~Terminal(i)'
       PROVE  run'[j].status = "queued"
  <2>1. ~Terminal(i) /\ i # w
    BY <1>11, <1>14
  <2>2. j # w
    BY <1>2, <1>14, <2>1 DEF InOrder
  <2> QED BY <1>9, <1>14, <2>1, <2>2 DEF InOrder
<1> QED BY <1>10, <1>12, <1>13, <1>14 DEF InOrder

LEMMA WorkerOrder ==
  ASSUME IInv, InOrder, NoFault, WorkerStep \/ Restart
  PROVE  InOrder'
<1>1. ParserControlAssumption
  BY DEF NoFault
<1>2. CASE Boot \/ ClaimNextRun \/ FinishRun
  BY <1>1, <1>2, BootOrder, ClaimOrder, FinishOrder
<1>3. CASE ReadDependencies \/ Resume \/ Restart \/ \E s \in Sources : Fetch(s)
  <2>1. UNCHANGED <<run, count>> /\ worker'.pc \notin {"off", "idle"}
    <3>1. CASE ReadDependencies \/ Resume \/ Restart
      <4>0. worker \in Thread
        BY DEF IInv, TypeOK
      <4>1. CASE ReadDependencies
        BY <4>0, <4>1 DEF ReadDependencies, Thread
      <4>2. CASE Resume
        BY <4>0, <4>2 DEF Resume, Thread
      <4>3. CASE Restart
        BY <4>3 DEF Restart, Resting
      <4> QED BY <3>1, <4>1, <4>2, <4>3
    <3>2. ASSUME NEW s \in Sources, Fetch(s)
          PROVE  UNCHANGED <<run, count>> /\ worker'.pc = "recording"
      <4>1. PICK sum : worker' = [worker EXCEPT !.pc = "recording",
                                       !.left = @ \ {s}, !.todo[s] = sum]
        BY <3>2 DEF Fetch
      <4> QED BY <3>2, <4>1 DEF Fetch, IInv, TypeOK, Thread
    <3> QED BY <1>3, <3>1, <3>2
  <2> QED BY <1>1, <2>1, OrderKept
<1>4. ASSUME NEW s \in Sources, RecordDependency(s) \/ RecordFetched(s)
      PROVE  InOrder'
  <2>1. /\ Record(s) /\ count' = count /\ worker.pc \in Busies
        /\ worker'.pc \notin {"off", "idle"}
    BY <1>4 DEF RecordDependency, RecordFetched, Busies, IInv, TypeOK, Thread
  <2> QED BY <1>1, <2>1, RecordKeeps, OrderKept
<1> QED BY <1>2, <1>3, <1>4 DEF WorkerStep

LEMMA ListStep ==
  ASSUME IInv, InOrder, NoFault, Next
  PROVE  InOrder'
<1>1. ~StorageError
  BY NoStorageFault DEF StorageError
<1> QED BY <1>1, WorkerOrder, ClientOrder DEF Next, NoFault

LEMMA ListInvariance == NoFault => (Spec => [](IInv /\ InOrder))
<1> SUFFICES ASSUME NoFault PROVE Spec => [](IInv /\ InOrder)
  OBVIOUS
<1>1. Init => InOrder
  <2> SUFFICES ASSUME Init PROVE InOrder
    OBVIOUS
  <2>1. Given = {} /\ worker.pc = "down"
    BY DEF Init, Given, Resting
  <2> QED BY <2>1 DEF InOrder
<1>2. InOrder /\ UNCHANGED vars => InOrder'
  BY DEF vars, InOrder, Given, Waits, Terminal
<1>3. IInv /\ InOrder /\ [Next]_vars => InOrder'
  BY <1>2, ListStep
<1> QED BY <1>1, <1>3, Invariance, PTL DEF Spec

LEMMA ListEnough ==
  ASSUME IInv, InOrder, ParserControlAssumption
  PROVE  NothingNeededIsDropped
<1> SUFFICES ASSUME NEW i \in Given, ~Terminal(i)
             PROVE  /\ Retained(i)
                    /\ \A s \in Sources : run[i].deps[s] # 0 =>
                         /\ Retained(run[i].deps[s])
                         /\ Terminal(run[i].deps[s]) =>
                              run[run[i].deps[s]].results[s] # None
  BY DEF NothingNeededIsDropped, Given
<1>1. Retained(i)
  BY UnfinishedActive
<1>2. /\ i + MaxPending > count /\ i \in Nat /\ count \in Nat
      /\ MaxPending \in Nat /\ MaxRecent \in Nat /\ MaxRecent + 1 >= 2 * MaxPending
  BY GivenIds DEF InOrder, Given, ParserControlAssumption
<1>3. ASSUME NEW s \in Sources, NEW d, d = run[i].deps[s], d # 0
      PROVE  Retained(d) /\ (Terminal(d) => run[d].results[s] # None)
  <2>1. Waits(i, s)
    BY DEF InOrder
  <2>2. d \in Given /\ i < d + MaxPending /\ s \in run[d].sources
    BY <1>3, <2>1 DEF Waits
  <2>3. d \in Nat /\ d \in Ids
    BY <2>2, GivenIds DEF Given
  <2>4. d + MaxRecent > count
    BY <1>2, <2>2, <2>3
  <2> QED BY <2>2, <2>3, <2>4 DEF Retained, Given, IInv, TerminalComplete
<1> QED BY <1>1, <1>3

(* While no access to the file fails, the list of runs is long enough: a   *)
(* run is dropped from it only when it is finished and no unfinished run   *)
(* waits for its results.                                                  *)
THEOREM NeededIsKept == MaxFaults = 0 => (Spec => []NothingNeededIsDropped)
<1> SUFFICES ASSUME MaxFaults = 0 PROVE Spec => []NothingNeededIsDropped
  OBVIOUS
<1>1. NoFault
  BY ParserControlAssumption DEF NoFault
<1>2. IInv /\ InOrder => NothingNeededIsDropped
  BY ListEnough, ParserControlAssumption
<1> QED BY <1>1, <1>2, ListInvariance, PTL

(* While no access to the file fails, the thread's run is never dropped, so *)
(* what it has in memory agrees with the file.                              *)
THEOREM ThreadAlwaysAgrees == MaxFaults = 0 => (Spec => []ThreadMatchesRun)
<1> SUFFICES ASSUME MaxFaults = 0 PROVE Spec => []ThreadMatchesRun
  OBVIOUS
<1>1. NoFault
  BY ParserControlAssumption DEF NoFault
<1>2. ASSUME IInv, InOrder, InMemory PROVE ThreadMatchesRun
  <2>1. ASSUME worker.pc \in Busies PROVE Retained(worker.run)
    <3>1. worker.run \in Given /\ run[worker.run].status = "running"
      BY <1>2, <2>1, GivenIds, ParserControlAssumption
    <3> QED BY <1>2, <3>1, UnfinishedActive, ParserControlAssumption
            DEF Terminal, TerminalStatuses
  <2> QED BY <1>2, <2>1, ThreadExact, ParserControlAssumption
          DEF ThreadMatchesRun, Busies
<1> QED BY <1>1, <1>2, ListInvariance, MemoryInvariance, PTL

-----------------------------------------------------------------------------
(* The refinement of RunQueue: the steps of the thread that the abstract    *)
(* queue has no word for leave who is served and what was decided alone.    *)
LEMMA SameVerdict ==
  ASSUME \A i \in Ids : \/ run'[i].status = run[i].status
                        \/ ~Terminal(i) /\ ~Terminal(i)'
  PROVE  Verdict' = Verdict
<1>1. \A i \in Ids : (IF Terminal(i)' THEN run'[i].status ELSE "queued")
                     = (IF Terminal(i) THEN run[i].status ELSE "queued")
  BY DEF Terminal
<1> QED BY <1>1 DEF Verdict

LEMMA ServingRun ==
  ASSUME IInv, ParserControlAssumption
  PROVE  /\ worker.pc \in Busies => Serving = worker.run /\ Serving # 0
         /\ worker.pc \notin Busies => Serving = 0
BY GivenIds DEF Serving, Busies, Given

LEMMA QueueStutters ==
  ASSUME UNCHANGED <<count, Serving, Verdict>>
  PROVE  [Queue!QNext]_(Queue!qvars)
BY DEF Queue!qvars

(* A handler puts one run at the end of the queue, or none.                 *)
LEMMA ClientQueue ==
  ASSUME IInv, InOrder, ParserControlAssumption, Client
  PROVE  [Queue!QNext]_(Queue!qvars)
<1>1. worker' = worker
  BY ClientOrder
<1>2. worker.pc # "off"
  BY DEF InOrder
<1> DEFINE Joins == /\ count < MaxRuns /\ count' = count + 1
                    /\ \E row : row.status = "queued"
                                /\ run' = [run EXCEPT ![count + 1] = row]
<1>3. (UNCHANGED <<run, count>>) \/ Joins
  <2>1. ASSUME StartAfter(run), count' = count
        PROVE  UNCHANGED <<run, count>>
    BY <1>2, <2>1 DEF StartAfter
  <2>2. ASSUME NEW S, NEW exec, NEW deps, NEW ctx, Accept(S, exec, deps, ctx)
        PROVE  Joins
    <3>1. PICK row : row = NewRun(S, exec, deps, ctx)
      OBVIOUS
    <3>2. row.status = "queued"
      BY <3>1 DEF NewRun
    <3> QED BY <1>2, <2>2, <3>1, <3>2 DEF Accept, StartAfter, HasRoom, NewRun
  <2> HIDE DEF Joins
  <2>3. ASSUME NEW S \in Selections, EnqueueManual(S)
        PROVE  (UNCHANGED <<run, count>>) \/ Joins
    BY <2>1, <2>2, <2>3 DEF EnqueueManual
  <2>4. ASSUME NEW q \in Requests, NEW S \in Selections, NEW ctx \in Contexts,
               EnqueueRequest(q, S, ctx)
        PROVE  (UNCHANGED <<run, count>>) \/ Joins
    BY <2>1, <2>2, <2>4 DEF EnqueueRequest
  <2>5. ASSUME NEW q \in Requests, NEW S \in Selections, NEW ctx \in Contexts,
               RepeatRequest(q, S, ctx)
        PROVE  (UNCHANGED <<run, count>>) \/ Joins
    BY <2>1, <2>5 DEF RepeatRequest
  <2> QED BY <2>3, <2>4, <2>5 DEF Client
<1>4. Serving' = Serving
  BY <1>1 DEF Serving
<1>5. CASE UNCHANGED <<run, count>>
  <2>1. Verdict' = Verdict
    BY <1>5 DEF Verdict, Terminal
  <2> QED BY <1>4, <1>5, <2>1, QueueStutters
<1>6. CASE Joins
  <2>1. PICK row : row.status = "queued" /\ run' = [run EXCEPT ![count + 1] = row]
    BY <1>6
  <2>2. count \in Nat /\ count + 1 \in Ids /\ run \in [Ids -> Row]
        /\ run[count + 1] = NoRun
    BY <1>6, ParserControlAssumption DEF IInv, TypeOK, RowShape, Ids
  <2>3. ~Terminal(count + 1)
    BY <2>2 DEF Terminal, TerminalStatuses, NoRun
  <2>4. run'[count + 1].status = "queued" /\ \A i \in Ids : i # count + 1 => run'[i] = run[i]
    BY <2>1, <2>2
  <2>5. \A i \in Ids : i = count + 1 => ~Terminal(i)'
    BY <2>4 DEF Terminal, TerminalStatuses
  <2>6. Verdict' = Verdict
    BY <2>3, <2>4, <2>5, SameVerdict
  <2> QED BY <1>4, <1>6, <2>6 DEF Queue!QNext, Queue!Enqueue
<1> QED BY <1>3, <1>5, <1>6

(* The thread serves the oldest run without a verdict.                      *)
LEMMA ClaimQueue ==
  ASSUME IInv, InOrder, ParserControlAssumption, ClaimNextRun
  PROVE  Queue!QNext
<1>1. PICK i \in Ready : /\ \A j \in Ready : i <= j
                         /\ run' = [run EXCEPT ![i].status = "running"]
                         /\ worker' = [Resting("claimed") EXCEPT !.run = i]
  BY DEF ClaimNextRun
<1>2. /\ i \in Given /\ (\A j \in Given : j < i => Terminal(j))
      /\ worker.pc = "idle" /\ count' = count
  BY <1>1, ClaimOldest DEF ClaimNextRun
<1>3. /\ i \in Ids /\ run[i] \in Row /\ run[i].status = "queued"
      /\ run \in [Ids -> Row] /\ Given \subseteq Ids
  BY <1>1, <1>2, GivenIds DEF IInv, TypeOK, Ready, Queued
<1>4. run'[i].status = "running" /\ \A j \in Ids : j # i => run'[j] = run[j]
  <2>1. run' = [run EXCEPT ![i] = [run[i] EXCEPT !.status = "running"]]
    BY <1>1, <1>3
  <2> QED BY <1>3, <2>1 DEF Row
<1>5. ~Terminal(i) /\ ~Terminal(i)'
  BY <1>3, <1>4 DEF Terminal, TerminalStatuses
<1>6. Verdict' = Verdict
  BY <1>4, <1>5, SameVerdict
<1>7. Serving = 0 /\ Serving' = i
  <2>1. worker'.pc = "claimed" /\ worker'.run = i
    BY <1>1 DEF Resting
  <2> QED BY <1>2, <2>1 DEF Serving
<1>8. Verdict[i] = "queued" /\ \A j \in 1..count : j < i => Verdict[j] # "queued"
  BY <1>2, <1>3, <1>5 DEF Verdict, Terminal, TerminalStatuses, Given
<1>9. Queue!Serve(i)
  BY <1>2, <1>6, <1>7, <1>8 DEF Queue!Serve
<1> QED BY <1>2, <1>9 DEF Queue!QNext, Given

(* It answers the run that it serves.                                       *)
LEMMA FinishQueue ==
  ASSUME IInv, InOrder, ParserControlAssumption, FinishRun
  PROVE  Queue!QNext
<1>1. PICK w : w = worker.run
  OBVIOUS
<1>2. /\ w \in Given /\ w \in Ids /\ run[w].status = "running" /\ run[w] \in Row
      /\ run \in [Ids -> Row] /\ Given \subseteq Ids /\ ~Terminal(w)
  BY <1>1, GivenIds DEF FinishRun, Busies, IInv, TypeOK, Terminal, TerminalStatuses
<1>3. Retained(w)
  BY <1>2, UnfinishedActive
<1>4. PICK st \in TerminalStatuses : st = TerminalStatus(run[w])
  BY DEF TerminalStatus, TerminalStatuses
<1>5. run' = [run EXCEPT ![w] = [run[w] EXCEPT !.status = st]]
  BY <1>1, <1>2, <1>3, <1>4 DEF FinishRun
<1>6. run'[w].status = st /\ \A i \in Ids : i # w => run'[i] = run[i]
  BY <1>2, <1>5 DEF Row
<1>7. Verdict' = [Verdict EXCEPT ![w] = st]
  <2>1. \A i \in Ids : i # w => (Terminal(i)' <=> Terminal(i))
    BY <1>6 DEF Terminal
  <2>2. Terminal(w)'
    BY <1>4, <1>6 DEF Terminal
  <2>3. Verdict' = [i \in Ids |-> IF i = w THEN st ELSE Verdict[i]]
    BY <1>6, <2>1, <2>2 DEF Verdict
  <2> QED BY <2>3 DEF Verdict
<1>8. Serving = w /\ Serving' = 0 /\ count' = count
  BY <1>1 DEF Serving, FinishRun, Resting
<1>9. Queue!Answer(w)
  BY <1>4, <1>7, <1>8 DEF Queue!Answer
<1> QED BY <1>2, <1>9 DEF Queue!QNext, Given

(* The steps between a claim and its end.                                   *)
LEMMA WorkQueue ==
  ASSUME IInv, ParserControlAssumption,
         \/ ReadDependencies \/ Resume
         \/ \E s \in Sources : RecordDependency(s) \/ Fetch(s) \/ RecordFetched(s)
  PROVE  [Queue!QNext]_(Queue!qvars)
<1>0. worker \in Thread
  BY DEF IInv, TypeOK
<1>1. Serving' = Serving /\ count' = count
  <2>1. CASE ReadDependencies \/ Resume
    BY <1>0, <2>1 DEF ReadDependencies, Resume, Thread, Serving
  <2>2. ASSUME NEW s \in Sources, RecordDependency(s)
        PROVE  Serving' = Serving /\ count' = count
    BY <1>0, <2>2 DEF RecordDependency, Thread, Serving
  <2>3. ASSUME NEW s \in Sources, Fetch(s)
        PROVE  Serving' = Serving /\ count' = count
    <3>1. PICK sum : worker' = [worker EXCEPT !.pc = "recording", !.left = @ \ {s},
                                              !.todo[s] = sum]
      BY <2>3 DEF Fetch
    <3> QED BY <1>0, <2>3, <3>1 DEF Fetch, Thread, Serving
  <2>4. ASSUME NEW s \in Sources, RecordFetched(s)
        PROVE  Serving' = Serving /\ count' = count
    BY <1>0, <2>4 DEF RecordFetched, Thread, Serving
  <2> QED BY <2>1, <2>2, <2>3, <2>4
<1>2. \A i \in Ids : run'[i].status = run[i].status
  <2>1. ASSUME NEW s \in Sources, RecordDependency(s) \/ RecordFetched(s)
        PROVE  \A i \in Ids : run'[i].status = run[i].status
    <3>1. Record(s) /\ worker.pc \in Busies
      BY <2>1 DEF RecordDependency, RecordFetched, Busies
    <3> QED BY <3>1, RecordKeeps
  <2>2. ASSUME ReadDependencies \/ Resume \/ \E s \in Sources : Fetch(s)
        PROVE  run' = run
    BY <2>2 DEF ReadDependencies, Resume, Fetch
  <2> QED BY <2>1, <2>2
<1> QED BY <1>1, <1>2, SameVerdict, QueueStutters

(* The end of the process, and its next start.                              *)
LEMMA RestartQueue ==
  ASSUME IInv, InOrder, NoFault, Restart \/ Boot
  PROVE  [Queue!QNext]_(Queue!qvars)
<1>1. count' = count /\ Serving' = 0
  BY NoStorageFault DEF Restart, Boot, Resting, Serving
<1>2. \A i \in Ids : \/ run'[i].status = run[i].status
                     \/ ~Terminal(i) /\ ~Terminal(i)'
  <2>1. CASE Restart
    BY <2>1 DEF Restart
  <2>2. CASE Boot
    <3>1. run' = Recovered(run) /\ run \in [Ids -> Row]
      BY <2>2, NoStorageFault DEF Boot, IInv, TypeOK
    <3>2. \A i \in Ids : SameWork(run[i], run'[i])
      BY <3>1, RecoveredRows
    <3> QED BY <3>2 DEF SameWork, Terminal, TerminalStatuses
  <2> QED BY <2>1, <2>2
<1>3. Verdict' = Verdict
  BY <1>2, SameVerdict
<1>4. CASE Serving = 0
  BY <1>1, <1>3, <1>4, QueueStutters
<1>5. CASE Serving # 0
  BY <1>1, <1>3, <1>5 DEF Queue!QNext, Queue!Interrupt
<1> QED BY <1>4, <1>5

(* While no access to the file fails, the store and its thread implement    *)
(* the abstract queue: every run is served in its turn, answered once, and  *)
(* an interruption costs no run its place.                                  *)
THEOREM Refinement == MaxFaults = 0 => (Spec => ImplementsRunQueue)
<1> SUFFICES ASSUME MaxFaults = 0 PROVE Spec => ImplementsRunQueue
  OBVIOUS
<1>1. NoFault
  BY ParserControlAssumption DEF NoFault
<1>2. Init => Queue!QInit
  <2> SUFFICES ASSUME Init PROVE Queue!QInit
    OBVIOUS
  <2>1. count = 0 /\ Serving = 0
    BY DEF Init, Serving, Resting
  <2>2. \A i \in Ids : ~Terminal(i)
    BY DEF Init, Terminal, TerminalStatuses, NoRun
  <2>3. Verdict = [i \in Ids |-> "queued"]
    BY <2>2 DEF Verdict
  <2> QED BY <2>1, <2>3 DEF Queue!QInit, Ids
<1>3. ASSUME IInv, InOrder, [Next]_vars PROVE [Queue!QNext]_(Queue!qvars)
  <2>1. ParserControlAssumption /\ ~StorageError
    BY <1>1, <1>3, NoStorageFault DEF NoFault, StorageError
  <2>2. CASE UNCHANGED vars
    <3>1. UNCHANGED <<run, count, worker>>
      BY <2>2 DEF vars
    <3>2. UNCHANGED <<count, Serving, Verdict>>
      BY <3>1 DEF Serving, Verdict, Terminal
    <3> QED BY <3>2, QueueStutters
  <2>3. CASE Client
    BY <1>3, <2>1, <2>3, ClientQueue
  <2>4. CASE Boot \/ Restart
    BY <1>1, <1>3, <2>4, RestartQueue
  <2>5. CASE ClaimNextRun
    BY <1>3, <2>1, <2>5, ClaimQueue
  <2>6. CASE FinishRun
    BY <1>3, <2>1, <2>6, FinishQueue
  <2>7. CASE \/ ReadDependencies \/ Resume
             \/ \E s \in Sources : RecordDependency(s) \/ Fetch(s) \/ RecordFetched(s)
    BY <1>3, <2>1, <2>7, WorkQueue
  <2> QED BY <1>3, <2>1, <2>2, <2>3, <2>4, <2>5, <2>6, <2>7 DEF Next, WorkerStep
<1> QED BY <1>1, <1>2, <1>3, ListInvariance, PTL
        DEF Spec, ImplementsRunQueue, Queue!QSpec
=============================================================================
