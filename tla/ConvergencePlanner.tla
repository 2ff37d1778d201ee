------------------------- MODULE ConvergencePlanner -------------------------
(***************************************************************************)
(* The planner (app/convergence_planner.py, plan_once): every pass reads   *)
(* the primary attempts recorded after a durable cursor and the schedule   *)
(* slots that passed without an attempt, opens recovery chains for them,   *)
(* one transaction each, and only then moves the cursor.  Refreshes record *)
(* attempts while it works, it may be killed between any two steps, and    *)
(* two passes may overlap.                                                 *)
(***************************************************************************)
EXTENDS ConvergenceStore

CONSTANTS Planners,    \* processes that run plan_once
          Windows,     \* schedule occurrence ids
          Slots,       \* eligible rows of schedule_source_windows
          CohortId,    \* SOURCE_TO_RECOVERY_COHORT, None when there is none
          SpanOf,      \* _deadline_for: action |-> duration
          RunWindows,  \* occurrences a refresh may run for, None without one
          RunResults,  \* classified results a refresh may record
          BatchLimit,  \* _BATCH_LIMIT
          Lookback,    \* _FIRST_RUN_LOOKBACK
          MaxEvents,   \* bound: recorded attempts
          MaxTime,     \* bound: the clock
          MaxLag,      \* bound: from finished_at to the commit of a row
          MaxCrashes   \* bound: killed passes

AttemptIds == 1..MaxEvents      \* attempt_id, a hash: its order is arbitrary
Times      == 1..MaxTime
Marks      == [at : Nat, id : Nat]        \* a (finished_at, attempt_id) pair
EventRow   == [id : AttemptIds, source : Sources, window : Windows \cup {None},
               at : Times, result : RunResults]
(* rank: the order of two slots with one deadline.                         *)
SlotRow    == [window : Windows, source : Sources, deadline : Times, rank : Nat]
ChainOf(source, origin) == <<CohortId[source], origin>>

ASSUME PlannerAssumption ==
  /\ MaxEvents \in Nat /\ MaxTime \in Nat \ {0} /\ MaxLag \in Nat /\ MaxCrashes \in Nat
  /\ BatchLimit \in Nat \ {0} /\ Lookback \in Nat \ {0}
  /\ Slots \subseteq SlotRow
  /\ IsFiniteSet(Sources)
  /\ None \notin Windows /\ RunWindows \subseteq Windows \cup {None}
  /\ RunResults \subseteq [outcome : Outcomes \ {"missing"}, reason : Reasons,
                           pending : BOOLEAN]
  /\ SpanOf \in [RecoveryActions -> Nat \ {0}]
  /\ CohortOf \in [Chains -> SUBSET Sources]
  /\ \A s \in Sources, o \in Windows \cup AttemptIds :
       CohortId[s] # None => /\ ChainOf(s, o) \in Chains
                             /\ s \in CohortOf[ChainOf(s, o)]

VARIABLES now,         \* the clock of the host
          recorded,    \* primary rows of source_attempts
          cursor,      \* convergence_planner_state, None before the first
          pass,        \* [Planners -> what a pass has read]
          passedOver,  \* history: ids committed behind a scan, or too old for the first
          crashes      \* killed passes

vars == <<ledger, now, recorded, cursor, pass, passedOver, crashes>>

Phases == {"idle", "begun", "positioned", "scanned", "planning", "reconciled"}
NoMark == [at |-> 0, id |-> 0]
IdlePass == [pc |-> "idle", moment |-> 0, from |-> NoMark, rows |-> {},
             left |-> {}, slots |-> {}]
PassRow == [pc : Phases, moment : Nat, from : Marks, rows : SUBSET EventRow,
            left : SUBSET EventRow, slots : SUBSET Slots]

Init == /\ StoreInit
        /\ now = 1 /\ recorded = {} /\ cursor = None
        /\ pass = [p \in Planners |-> IdlePass]
        /\ passedOver = {} /\ crashes = 0

(* (finished_at, attempt_id) of e is greater than that of m.               *)
After(e, m) == e.at > m.at \/ (e.at = m.at /\ e.id > m.id)

LastOf(rows) == {e \in rows : \A f \in rows : ~After(f, e)}

-----------------------------------------------------------------------------
(* record_terminal_results: a refresh records the attempts of its sources  *)
(* in one transaction, under one finished_at, taken before it begins.      *)
Behind(e) ==
  \/ cursor # None /\ ~After(e, cursor)
  \/ \E p \in Planners : \/ ~After(e, pass[p].from)
                        \/ \E f \in pass[p].rows : ~After(e, f)

Record == \E run \in (SUBSET Sources) \ {{}}, window \in RunWindows,
            at \in {t \in Times : t <= now /\ now <= t + MaxLag} :
  \E result \in [run -> RunResults], id \in [run -> AttemptIds] :
    LET new == {[id |-> id[s], source |-> s, window |-> window, at |-> at,
                 result |-> result[s]] : s \in run}
    IN  /\ \A s, t \in run : id[s] = id[t] => s = t
        /\ \A e \in recorded, s \in run : e.id # id[s]
        /\ recorded' = recorded \cup new
        /\ passedOver' = passedOver \cup {e.id : e \in {f \in new : Behind(f)}}
        /\ UNCHANGED <<ledger, now, cursor, pass, crashes>>

-----------------------------------------------------------------------------
Begin(p) == /\ pass[p].pc = "idle"
            /\ pass' = [pass EXCEPT ![p] = [IdlePass EXCEPT !.pc = "begun", !.moment = now]]
            /\ UNCHANGED <<ledger, now, recorded, cursor, passedOver, crashes>>

(* planner_cursor, and the lower bound of the first pass of all.           *)
FirstFrom(moment) == [at |-> IF moment > Lookback THEN moment - Lookback ELSE 0, id |-> 0]

ReadCursor(p) ==
  /\ pass[p].pc = "begun"
  /\ pass' = [pass EXCEPT ![p] = [@ EXCEPT !.pc = "positioned",
                !.from = IF cursor = None THEN FirstFrom(pass[p].moment) ELSE cursor]]
  /\ passedOver' = passedOver \cup
       {e.id : e \in {f \in recorded : cursor = None /\ ~After(f, FirstFrom(pass[p].moment))}}
  /\ UNCHANGED <<ledger, now, recorded, cursor, crashes>>

(* ORDER BY finished_at, attempt_id LIMIT n.                               *)
FirstRows_Unordered(rows) == CHOOSE s \in SUBSET rows :   \* mutant
  Cardinality(s) = (IF Cardinality(rows) < BatchLimit THEN Cardinality(rows) ELSE BatchLimit)

FirstRows(rows) ==
  {e \in rows : Cardinality({f \in rows : After(e, f)}) < BatchLimit}

Visible_TiesLost(p) ==                                    \* mutant
  {e \in recorded : e.at > pass[p].from.at /\ e.at <= pass[p].moment}

Visible(p) == {e \in recorded : After(e, pass[p].from) /\ e.at <= pass[p].moment}

(* _terminal_events.                                                       *)
ScanEvents(p) ==
  /\ pass[p].pc = "positioned"
  /\ pass' = [pass EXCEPT ![p] = [@ EXCEPT !.pc = "scanned",
                !.rows = FirstRows(Visible(p)), !.left = FirstRows(Visible(p))]]
  /\ UNCHANGED <<ledger, now, recorded, cursor, passedOver, crashes>>

(* The attempts that keep a slot from being missing.  The query also looks *)
(* at attempts that are not primary: manual ones carry no occurrence, and  *)
(* a recovery one only that of its chain, where its source already is.     *)
Attempted_Skipped(t) ==                                   \* mutant
  \E e \in recorded : e.window = t.window /\ e.source = t.source

Attempted(t) == \E e \in recorded :
  /\ e.window = t.window /\ e.source = t.source
  /\ e.result.outcome # "skipped" \/ e.result.pending

MissingSlots(moment) ==
  {t \in Slots : /\ t.deadline <= moment /\ moment < t.deadline + Lookback
                 /\ ~Attempted(t)}

SlotBefore(t, u) == t.deadline < u.deadline \/ (t.deadline = u.deadline /\ t.rank < u.rank)
FirstSlots(slots) ==
  {t \in slots : Cardinality({u \in slots : SlotBefore(u, t)}) < BatchLimit}

(* _missing_schedule_slots, a read of its own.                             *)
ScanSlots(p) ==
  /\ pass[p].pc = "scanned"
  /\ pass' = [pass EXCEPT ![p] = [@ EXCEPT !.pc = "planning",
                !.slots = FirstSlots(MissingSlots(pass[p].moment))]]
  /\ UNCHANGED <<ledger, now, recorded, cursor, passedOver, crashes>>

-----------------------------------------------------------------------------
ActionFor(e) == Decide(e.result.outcome, e.result.reason, e.result.pending)

NeedsRecovery(e) ==
  /\ e.result.outcome # "fresh_published"
  /\ e.result.outcome # "skipped" \/ e.result.pending
  /\ CohortId[e.source] # None
  /\ ActionFor(e) # "complete"

(* The chain of a row; without an occurrence the attempt is its own origin. *)
RowChain(e) == ChainOf(e.source, IF e.window = None THEN e.id ELSE e.window)

OpenChain(c, source, action, observed) ==
  CreateOrGetChain(c, {source}, action, observed, observed + SpanOf[action])

(* The rows in their order, then the slots in theirs.                      *)
PlanRow(p, e) ==
  /\ pass[p].pc = "planning"
  /\ e \in pass[p].left
  /\ \A f \in pass[p].left : ~After(e, f)
  /\ IF NeedsRecovery(e) THEN OpenChain(RowChain(e), e.source, ActionFor(e), e.at)
                         ELSE UNCHANGED ledger
  /\ pass' = [pass EXCEPT ![p].left = @ \ {e}]
  /\ UNCHANGED <<now, recorded, cursor, passedOver, crashes>>

PlanSlot(p, t) ==
  /\ pass[p].pc = "planning"
  /\ pass[p].left = {}
  /\ t \in pass[p].slots
  /\ \A u \in pass[p].slots : ~SlotBefore(u, t)
  /\ IF CohortId[t.source] # None
     THEN OpenChain(ChainOf(t.source, t.window), t.source,
                    Decide("missing", "unknown", FALSE), t.deadline)
     ELSE UNCHANGED ledger
  /\ pass' = [pass EXCEPT ![p].slots = @ \ {t}]
  /\ UNCHANGED <<now, recorded, cursor, passedOver, crashes>>

(* Latest primary success of each source, 0 when there is none.            *)
LatestFresh == [s \in Sources |->
  LET times == {e.at : e \in {f \in recorded : /\ f.source = s
                                /\ f.result.outcome = "fresh_published"}}
  IN  IF times = {} THEN 0 ELSE CHOOSE t \in times : \A u \in times : u <= t]

AllPlanned(p) == /\ pass[p].left = {} /\ pass[p].slots = {}

Reconcile(p) ==
  /\ pass[p].pc = "planning" /\ AllPlanned(p)
  /\ ReconcileFreshPrimaryOutcomes(LatestFresh)
  /\ pass' = [pass EXCEPT ![p].pc = "reconciled"]
  /\ UNCHANGED <<now, recorded, cursor, passedOver, crashes>>

(* advance_planner_cursor to the last row read, never backwards.           *)
Moved(e) == IF cursor = None \/ After(e, cursor)
            THEN [at |-> e.at, id |-> e.id] ELSE cursor

Finish(p) ==
  /\ pass[p].pc = "reconciled"
  /\ \/ pass[p].rows = {} /\ UNCHANGED cursor
     \/ \E e \in LastOf(pass[p].rows) : cursor' = Moved(e)
  /\ pass' = [pass EXCEPT ![p] = IdlePass]
  /\ UNCHANGED <<ledger, now, recorded, passedOver, crashes>>

(* The unit's timeout, an SQLite error or a restart of the host.           *)
Kill(p) == /\ pass[p].pc # "idle" /\ crashes < MaxCrashes
           /\ pass' = [pass EXCEPT ![p] = IdlePass]
           /\ crashes' = crashes + 1
           /\ UNCHANGED <<ledger, now, recorded, cursor, passedOver>>

Tick == /\ now < MaxTime /\ now' = now + 1
        /\ UNCHANGED <<ledger, recorded, cursor, pass, passedOver, crashes>>

PassStep(p) ==
  \/ Begin(p) \/ ReadCursor(p) \/ ScanEvents(p) \/ ScanSlots(p)
  \/ \E e \in pass[p].left : PlanRow(p, e)
  \/ \E t \in pass[p].slots : PlanSlot(p, t)
  \/ Reconcile(p) \/ Finish(p)

Next == Record \/ Tick \/ \E p \in Planners : PassStep(p) \/ Kill(p)

Spec == Init /\ [][Next]_vars

(* The timer starts a pass every five minutes; every call of it is bounded. *)
FairSpec == /\ Spec
            /\ WF_vars(Tick)
            /\ \A p \in Planners : WF_vars(PassStep(p))

-----------------------------------------------------------------------------
(* Types of the planner's variables and of the ledger it writes.           *)
TypeOK ==
  /\ StoreTypeOK
  /\ now \in Times /\ crashes \in 0..MaxCrashes
  /\ recorded \subseteq EventRow
  /\ cursor \in Marks \cup {None}
  /\ pass \in [Planners -> PassRow]
  /\ passedOver \subseteq AttemptIds

Planned(e) == e.source \in chain[RowChain(e)].sources

(* Whatever batches, ties, overlapping passes and kills do, a failed       *)
(* primary attempt that lies at or behind the durable cursor has its       *)
(* source in a recovery chain, unless it was committed behind a scan that  *)
(* had already gone past its finished_at (_terminal_events, plan_once).    *)
CursorCovers ==
  \A e \in recorded :
    NeedsRecovery(e) /\ e.id \notin passedOver /\ cursor # None /\ ~After(e, cursor)
      => Planned(e)

(* The cursor goes on: every failed primary attempt that no scan passed    *)
(* over gets into a recovery chain in the end, also in full batches.       *)
FailuresArePlanned ==
  \A i \in AttemptIds :
    (\E e \in recorded : e.id = i /\ NeedsRecovery(e))
      ~> (\E e \in recorded : e.id = i /\ (Planned(e) \/ i \in passedOver))

(* The two ways to notice a problem leave no gap between them: every       *)
(* schedule slot is refreshed, or its source is in the chain of its        *)
(* occurrence, by the time the slot is out of the planner's lookback.  A   *)
(* failure that was passed over hides its slot, and is the one exception.  *)
SlotSettled(t) ==
  \/ t.source \in chain[ChainOf(t.source, t.window)].sources
  \/ \E e \in recorded : /\ e.window = t.window /\ e.source = t.source
                         /\ \/ e.result.outcome = "fresh_published"
                            \/ e.id \in passedOver
  \/ now >= t.deadline + Lookback

SlotsAreSettled == \A t \in Slots : CohortId[t.source] # None => <>SlotSettled(t)
-----------------------------------------------------------------------------
(* The inductive invariant behind CursorCovers: what each pass has still   *)
(* ahead of it, as a function of how far it has read.                      *)
Owed(e) == NeedsRecovery(e) /\ e.id \notin passedOver

(* Everything up to the position a pass reads from is planned.             *)
FromCovers(p) == \A e \in recorded :
  Owed(e) /\ ~After(e, pass[p].from) => Planned(e)

(* Everything up to the last row of a batch is planned or in the batch.    *)
RowsCover(p) == \A e \in recorded, f \in pass[p].rows :
  Owed(e) /\ ~After(e, f) => Planned(e) \/ e \in pass[p].left

PhaseShape(p) ==
  /\ pass[p].pc \in {"idle", "begun", "positioned"} => pass[p].rows = {}
  /\ pass[p].pc = "reconciled" => pass[p].left = {}

(* Only a chain that exists has sources.                                   *)
NoOrphans == \A c \in Chains : chain[c].state = "absent" => chain[c].sources = {}

IInv == /\ TypeOK
        /\ IsFiniteSet(recorded)
        /\ NoOrphans
        /\ CursorCovers
        /\ \A p \in Planners : FromCovers(p) /\ RowsCover(p) /\ PhaseShape(p)
=============================================================================
