--------------------------- MODULE ScheduleLedger ---------------------------
(***************************************************************************)
(* The durable ledger of expected refreshes (app/schedule_ledger.py): a    *)
(* reconcile writes a row for every source of every occurrence of the next *)
(* hours, starts a new cohort when the section switches have changed or    *)
(* its coverage was interrupted, and leaves what was due before alone.     *)
(* Timers claim the occurrence they run for; the planner                   *)
(* (ConvergencePlanner, Slots) and the reliability report read the rows.   *)
(* A reconcile takes its moment before it waits for the database, so two   *)
(* of them, or one and the clock, pass each other.                         *)
(***************************************************************************)
EXTENDS Naturals, FiniteSets

CONSTANTS None,
          Sources,
          Specs,       \* tracked schedules: _ScheduleSpec
          Procs,       \* processes that run reconcile_schedule_ledger
          Horizon,     \* FUTURE_HORIZON
          Grace,       \* OCCURRENCE_DEADLINE
          MaxWait,     \* busy_timeout
          MaxTime,     \* bound: the clock
          MaxChanges   \* bound: changes of switches and of the policy

VARIABLES now,
          enabled,     \* sources whose section switch is on
          earlyUntil,  \* the end of the early publication policy
          changes,
          led,         \* schedule_ledger_state, None before the first
          rows,        \* schedule_source_windows
          moment,      \* [Procs -> the moment of a running reconcile, None]
          claims       \* history: the occurrences that runs have claimed

vars == <<now, enabled, earlyUntil, changes, led, rows, moment, claims>>

(* times: what enumerate_nominal_occurrences finds; mode: the publication  *)
(* mode that an occurrence needs, None for any.                            *)
ScheduleSpec == [id : STRING, sources : SUBSET Sources, times : SUBSET Nat,
                 mode : {"early", None}]
Cohort == [enabled : SUBSET Sources, start : Nat]
State == [start : Nat, through : Nat, cohort : Cohort]
Row == [spec : Specs, at : Nat, source : Sources, cohort : Cohort,
        eligible : BOOLEAN]

(* Every source of every occurrence there will ever be.                    *)
Nominal == UNION {[spec : {s}, at : s.times, source : s.sources] : s \in Specs}

Init == /\ now = 1
        /\ enabled = Sources /\ earlyUntil = 0 /\ changes = 0
        /\ led = None /\ rows = {}
        /\ moment = [p \in Procs |-> None]
        /\ claims = {}

-----------------------------------------------------------------------------
(* The cohort hash: the switches and the start of its coverage, and not    *)
(* the publication mode.                                                   *)
CohortFrom(start) == [enabled |-> enabled, start |-> start]

Reconfigured == led.cohort # CohortFrom(led.start)

Gap_Ignored(m) == FALSE                                           \* mutant
Gap(m) == led.through < m

Start(m) == IF led = None THEN m
            ELSE IF Reconfigured \/ Gap(m) THEN m ELSE led.start

NewCohort(m) == led # None /\ led.cohort # CohortFrom(Start(m))

(* DELETE ... WHERE scheduled_for > moment.                                *)
Kept_None(m) == IF NewCohort(m) THEN {} ELSE rows                 \* mutant
Kept_Later(m) ==                                                  \* mutant
  IF NewCohort(m) THEN {x \in rows : x.at < m} ELSE rows
Kept(m) == IF NewCohort(m) THEN {x \in rows : x.at <= m} ELSE rows

Through(m) == LET end == m + Horizon IN
  IF led # None /\ ~NewCohort(m) /\ led.through > end THEN led.through ELSE end

(* _source_decisions and _occurrence_eligibility.                          *)
Eligible(n) == /\ n.source \in enabled
               /\ n.spec.mode = "early" => n.at < earlyUntil

(* INSERT ... ON CONFLICT DO NOTHING.                                      *)
Free_Always(m, n) == TRUE                                         \* mutant
Free(m, n) ==
  ~\E x \in Kept(m) : x.spec = n.spec /\ x.at = n.at /\ x.source = n.source

Inserted(m) ==
  {[spec |-> n.spec, at |-> n.at, source |-> n.source,
    cohort |-> CohortFrom(Start(m)), eligible |-> Eligible(n)] :
     n \in {n \in Nominal : m <= n.at /\ n.at < m + Horizon /\ Free(m, n)}}

-----------------------------------------------------------------------------
Begin(p) ==
  /\ moment[p] = None
  /\ moment' = [moment EXCEPT ![p] = now]
  /\ UNCHANGED <<now, enabled, earlyUntil, changes, led, rows, claims>>

(* materialize_schedule_windows, in one transaction.                       *)
Materialize(p) ==
  LET m == moment[p] IN
  /\ m # None
  /\ rows' = Kept(m) \cup Inserted(m)
  /\ led' = [start |-> Start(m), through |-> Through(m),
             cohort |-> CohortFrom(Start(m))]
  /\ moment' = [moment EXCEPT ![p] = None]
  /\ UNCHANGED <<now, enabled, earlyUntil, changes, claims>>

(* The database stays locked for too long, or the process is killed: the   *)
(* transaction leaves nothing.                                             *)
Abandon(p) ==
  /\ moment[p] # None
  /\ moment' = [moment EXCEPT ![p] = None]
  /\ UNCHANGED <<now, enabled, earlyUntil, changes, led, rows, claims>>

(* claim_occurrence: the last occurrence that is due, in its time, when    *)
(* its rows are for the sources of the schedule.  Its moment is taken      *)
(* before the rows are read.  The two reads, of the occurrence and of its  *)
(* sources, are one step: between them an occurrence that is due keeps its *)
(* sources (ClaimsKeepRows says so of every one claimed).                  *)
Due(s, m) == {x \in rows : x.spec = s /\ x.at <= m /\ m <= x.at + Grace}
SourcesAt(s, at) == {x.source : x \in {x \in rows : x.spec = s /\ x.at = at}}

Claim(s) ==
  \E m \in 0..now : \E x \in Due(s, m) :
    /\ \A y \in Due(s, m) : y.at <= x.at
    /\ SourcesAt(s, x.at) = s.sources
    /\ claims' = claims \cup {[spec |-> s, at |-> x.at]}
    /\ UNCHANGED <<now, enabled, earlyUntil, changes, led, rows, moment>>

(* update_sections and update_policy of the parser control.                *)
Switch(source) ==
  /\ changes < MaxChanges /\ changes' = changes + 1
  /\ enabled' = IF source \in enabled THEN enabled \ {source}
                ELSE enabled \cup {source}
  /\ UNCHANGED <<now, earlyUntil, led, rows, moment, claims>>

SetPolicy(until) ==
  /\ changes < MaxChanges /\ changes' = changes + 1
  /\ until = 0 \/ until > now
  /\ earlyUntil' = until
  /\ UNCHANGED <<now, enabled, led, rows, moment, claims>>

Tick ==
  /\ now < MaxTime
  /\ \A p \in Procs : moment[p] # None => now < moment[p] + MaxWait
  /\ now' = now + 1
  /\ UNCHANGED <<enabled, earlyUntil, changes, led, rows, moment, claims>>

Next == \/ \E p \in Procs : Begin(p) \/ Materialize(p) \/ Abandon(p)
        \/ \E s \in Specs : Claim(s)
        \/ \E source \in Sources : Switch(source)
        \/ \E until \in 0..(MaxTime + 1) : SetPolicy(until)
        \/ Tick

Spec == Init /\ [][Next]_vars

ASSUME ScheduleLedgerAssumption ==
  /\ Specs \subseteq ScheduleSpec
  /\ Horizon \in Nat \ {0} /\ Grace \in Nat
  /\ MaxWait \in Nat /\ MaxWait < Horizon
  /\ MaxTime \in Nat /\ MaxChanges \in Nat
  /\ None \notin State /\ None \notin Nat

(* The keys of the table: one row for a source of an occurrence.           *)
TypeOK ==
  /\ now \in Nat /\ earlyUntil \in Nat /\ changes \in Nat
  /\ enabled \in SUBSET Sources
  /\ led \in State \cup {None}
  /\ rows \in SUBSET Row
  /\ \A x, y \in rows :
       x.spec = y.spec /\ x.at = y.at /\ x.source = y.source => x = y
  /\ moment \in [Procs -> Nat \cup {None}]
  /\ claims \in SUBSET [spec : Specs, at : Nat]

-----------------------------------------------------------------------------
(* What the reliability report calls covered is covered: after the start   *)
(* of the coverage and up to its end each source of each occurrence has a  *)
(* row of the current cohort, whatever reconciles have passed each other.  *)
CoverageComplete ==
  led # None => \A n \in Nominal :
    led.start < n.at /\ n.at < led.through =>
      \E x \in rows : /\ x.spec = n.spec /\ x.at = n.at /\ x.source = n.source
                      /\ x.cohort = led.cohort

(* An occurrence that a run has claimed keeps a row for each of its        *)
(* sources: the attempts of the run always find the slots they belong to.  *)
ClaimsKeepRows ==
  \A c \in claims : SourcesAt(c.spec, c.at) = c.spec.sources

(* What was due when the oldest of the running reconciles began is never   *)
(* changed: no decision is made again after the fact.                      *)
OldRowsStay ==
  [][\A x \in rows :
       (\A p \in Procs : moment[p] # None => x.at <= moment[p]) /\ x.at <= now
         => x \in rows']_vars
=============================================================================
