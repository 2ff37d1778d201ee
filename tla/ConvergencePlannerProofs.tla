---------------------- MODULE ConvergencePlannerProofs ----------------------
(***************************************************************************)
(* Theorems about ConvergencePlanner, for any number of overlapping        *)
(* passes, attempts, kills and any batch limit: typing, and that nothing   *)
(* at or behind the cursor is lost.  The argument follows one row: behind  *)
(* the position a pass reads from it is planned already, inside the batch  *)
(* it is planned before the pass reconciles, and a batch has no gaps.      *)
(***************************************************************************)
EXTENDS ConvergencePlanner, FiniteSetTheorems, TLAPS

(* The order of (finished_at, attempt_id) is total and transitive.         *)
LEMMA AfterOrder ==
  ASSUME NEW e, e.at \in Nat, e.id \in Nat, NEW f, f.at \in Nat, f.id \in Nat,
         ~After(e, f)
  PROVE  /\ e.at <= f.at
         /\ \A g : g.at \in Nat /\ g.id \in Nat /\ After(e, g) => After(f, g)
         /\ \A g : g.at \in Nat /\ g.id \in Nat /\ ~After(f, g) => ~After(e, g)
BY DEF After

LEMMA RowNumbers ==
  ASSUME NEW e \in EventRow
  PROVE  e.at \in Nat \ {0} /\ e.id \in Nat \ {0} /\ e.at \in Times /\ e.id \in AttemptIds
BY PlannerAssumption DEF EventRow, Times, AttemptIds

(* A batch is a prefix of what its scan saw: LIMIT cuts no row out of it.  *)
LEMMA BatchIsPrefix ==
  ASSUME NEW rows \in SUBSET EventRow, IsFiniteSet(rows),
         NEW e \in rows, NEW f \in FirstRows(rows), ~After(e, f)
  PROVE  e \in FirstRows(rows)
<1> DEFINE below(x) == {g \in rows : After(x, g)}
<1>1. f \in rows /\ Cardinality(below(f)) < BatchLimit
  BY DEF FirstRows
<1>2. below(e) \subseteq below(f)
  BY <1>1, RowNumbers, AfterOrder
<1>3. IsFiniteSet(below(f)) /\ IsFiniteSet(below(e))
  BY FS_Subset
<1>4. Cardinality(below(e)) <= Cardinality(below(f))
  BY <1>2, <1>3, FS_Subset
<1>5. Cardinality(below(e)) \in Nat /\ Cardinality(below(f)) \in Nat
  BY <1>3, FS_CardinalityType
<1>6. Cardinality(below(e)) < BatchLimit
  BY <1>1, <1>4, <1>5, PlannerAssumption
<1> QED BY <1>6 DEF FirstRows

-----------------------------------------------------------------------------
LEMMA ActionType ==
  ASSUME NEW e
  PROVE  ActionFor(e) \in RecoveryActions \cup {"complete"}
BY DEF ActionFor, Decide, RecoveryActions, RetryActions, ParkActions

LEMMA ChainKnown ==
  ASSUME NEW e \in EventRow, CohortId[e.source] # None
  PROVE  RowChain(e) \in Chains
<1>1. e.source \in Sources /\ e.id \in AttemptIds /\ e.window \in Windows \cup {None}
  BY DEF EventRow
<1>2. (IF e.window = None THEN e.id ELSE e.window) \in Windows \cup AttemptIds
  BY <1>1
<1> QED BY <1>1, <1>2, PlannerAssumption DEF RowChain

LEMMA NewChainType ==
  ASSUME NEW sources \in SUBSET Sources, NEW action \in RecoveryActions,
         NEW t \in Nat, NEW d \in Nat
  PROVE  /\ NewChain(sources, action, t, d) \in ChainRow
         /\ NewChain(sources, action, t, d).sources = sources
         /\ NewChain(sources, action, t, d).state = InitialState(action)
<1>1. InitialState(action) \in ChainStates
  BY DEF InitialState, ChainStates, Pending, Parked
<1>2. DelaysOf[action] = <<>> \/ DelaysOf[action][1] \in Nat
  <2>1. DelaysOf[action] \in Seq(Nat)
    BY DelaysAssumption
  <2> QED BY <2>1
<1>3. (IF DelaysOf[action] = <<>> THEN None ELSE t + DelaysOf[action][1]) \in Nat \cup {None}
  BY <1>2
<1>4. PaidAllowed(action) \in BOOLEAN
  BY DEF PaidAllowed
<1> QED BY <1>1, <1>3, <1>4 DEF NewChain, Absent, ChainRow

(* What a pass's transaction does to the ledger, whatever chain it is for. *)
SourcesKept == \A c \in Chains : chain[c].sources \subseteq chain'[c].sources

LEMMA OpenFacts ==
  ASSUME StoreTypeOK, NoOrphans, NEW c \in Chains, NEW s \in Sources,
         NEW action \in RecoveryActions, NEW t \in Nat,
         OpenChain(c, s, action, t)
  PROVE  StoreTypeOK' /\ NoOrphans' /\ SourcesKept /\ s \in chain'[c].sources
<1>1. SpanOf[action] \in Nat /\ t + SpanOf[action] \in Nat
  BY PlannerAssumption
<1> DEFINE new == NewChain({s}, action, t, t + SpanOf[action])
           old == [chain[c] EXCEPT !.sources = chain[c].sources \cup {s}]
           row == IF chain[c].state = "absent" THEN new ELSE old
<1>2. chain' = [chain EXCEPT ![c] = row] /\ UNCHANGED attempts
  BY DEF OpenChain, CreateOrGetChain
<1>3. chain[c] \in ChainRow /\ chain \in [Chains -> ChainRow]
  BY DEF StoreTypeOK
<1>4. new \in ChainRow /\ new.sources = {s} /\ new.state = InitialState(action)
  BY <1>1, NewChainType
<1>5. InitialState(action) # "absent"
  BY DEF InitialState
<1>6. old \in ChainRow /\ old.sources = chain[c].sources \cup {s} /\ old.state = chain[c].state
  BY <1>3 DEF ChainRow
<1> HIDE DEF new, old
<1>7. /\ row \in ChainRow /\ s \in row.sources /\ row.state # "absent"
      /\ chain[c].sources \subseteq row.sources
  BY <1>4, <1>5, <1>6 DEF NoOrphans
<1> HIDE DEF row
<1>8. chain' \in [Chains -> ChainRow] /\ chain'[c] = row
      /\ \A k \in Chains : k # c => chain'[k] = chain[k]
  BY <1>2, <1>3, <1>7
<1> QED BY <1>2, <1>7, <1>8 DEF StoreTypeOK, NoOrphans, SourcesKept

LEMMA ReconcileFacts ==
  ASSUME StoreTypeOK, NoOrphans, ReconcileFreshPrimaryOutcomes(LatestFresh)
  PROVE  StoreTypeOK' /\ NoOrphans' /\ SourcesKept
<1>1. UNCHANGED attempts /\ chain \in [Chains -> ChainRow]
  BY DEF ReconcileFreshPrimaryOutcomes, StoreTypeOK
<1>2. ASSUME NEW c \in Chains
      PROVE  /\ chain'[c] \in ChainRow /\ chain'[c].sources = chain[c].sources
             /\ chain'[c].state = "absent" => chain[c].state = "absent"
  <2>1. chain[c] \in ChainRow /\ "fresh" \in ChainStates
    BY <1>1 DEF ChainStates
  <2> DEFINE closed == [Unleased(chain[c], "fresh", None)
                          EXCEPT !.action = "complete", !.paidOk = FALSE]
  <2>2. closed \in ChainRow /\ closed.sources = chain[c].sources /\ closed.state = "fresh"
    BY <2>1 DEF Unleased, ChainRow
  <2>3. chain'[c] = IF Superseded(c, LatestFresh) THEN closed ELSE chain[c]
    BY DEF ReconcileFreshPrimaryOutcomes
  <2> HIDE DEF closed
  <2> QED BY <2>1, <2>2, <2>3
<1>3. chain' = [c \in Chains |-> chain'[c]]
  BY DEF ReconcileFreshPrimaryOutcomes
<1>4. chain' \in [Chains -> ChainRow]
  BY <1>2, <1>3
<1> QED BY <1>1, <1>2, <1>4 DEF StoreTypeOK, NoOrphans, SourcesKept

-----------------------------------------------------------------------------
(* A refresh adds a finite set of rows; those behind a scan are noted.     *)
LEMMA RecordFacts ==
  ASSUME TypeOK, Record
  PROVE  /\ UNCHANGED <<ledger, now, cursor, pass, crashes>>
         /\ \E new \in SUBSET EventRow :
              /\ IsFiniteSet(new)
              /\ recorded' = recorded \cup new
              /\ passedOver' = passedOver \cup {e.id : e \in {f \in new : Behind(f)}}
<1>1. PICK run \in (SUBSET Sources) \ {{}}, window \in RunWindows,
           at \in {t \in Times : t <= now /\ now <= t + MaxLag} :
        \E result \in [run -> RunResults], id \in [run -> AttemptIds] :
          LET new == {[id |-> id[s], source |-> s, window |-> window, at |-> at,
                       result |-> result[s]] : s \in run}
          IN  /\ \A s, t \in run : id[s] = id[t] => s = t
              /\ \A e \in recorded, s \in run : e.id # id[s]
              /\ recorded' = recorded \cup new
              /\ passedOver' = passedOver \cup {e.id : e \in {f \in new : Behind(f)}}
              /\ UNCHANGED <<ledger, now, cursor, pass, crashes>>
  BY Zenon DEF Record
<1>2. PICK result \in [run -> RunResults], id \in [run -> AttemptIds] :
        LET new == {[id |-> id[s], source |-> s, window |-> window, at |-> at,
                     result |-> result[s]] : s \in run}
        IN  /\ recorded' = recorded \cup new
            /\ passedOver' = passedOver \cup {e.id : e \in {f \in new : Behind(f)}}
            /\ UNCHANGED <<ledger, now, cursor, pass, crashes>>
  BY <1>1
<1> DEFINE row == [s \in run |-> [id |-> id[s], source |-> s, window |-> window,
                                  at |-> at, result |-> result[s]]]
           new == {row[s] : s \in run}
<1>3. \A s \in run : row[s] \in EventRow
  BY PlannerAssumption DEF EventRow
<1>4. new \subseteq EventRow
  BY <1>3
<1>5. row \in Surjection(run, new)
  BY DEF Surjection
<1>6. IsFiniteSet(run)
  BY PlannerAssumption, FS_Subset
<1>7. IsFiniteSet(new)
  BY <1>5, <1>6, FS_Surjection
<1>8. new = {[id |-> id[s], source |-> s, window |-> window, at |-> at,
              result |-> result[s]] : s \in run}
  OBVIOUS
<1> QED BY <1>2, <1>4, <1>7, <1>8

LEMMA MarkTypes ==
  ASSUME NEW moment \in Nat
  PROVE  FirstFrom(moment) \in Marks /\ FirstFrom(moment).id = 0
BY PlannerAssumption DEF FirstFrom, Marks

(* Reading, planning, finishing and being killed keep a pass well typed.   *)
LEMMA IdleType ==
  /\ IdlePass \in PassRow
  /\ \A m \in Nat : [IdlePass EXCEPT !.pc = "begun", !.moment = m] \in PassRow
BY DEF IdlePass, PassRow, Phases, NoMark, Marks

LEMMA TypeStep ==
  ASSUME TypeOK, NoOrphans, IsFiniteSet(recorded), [Next]_vars
  PROVE  TypeOK' /\ NoOrphans' /\ IsFiniteSet(recorded)'
<1> USE DEF TypeOK
<1>s. ASSUME UNCHANGED ledger PROVE StoreTypeOK' /\ NoOrphans'
  BY <1>s DEF ledger, StoreTypeOK, NoOrphans
<1>t. \A t \in Times : t \in Nat
  BY PlannerAssumption DEF Times
<1>1. CASE Record
  <2>1. PICK new \in SUBSET EventRow :
              /\ IsFiniteSet(new)
              /\ recorded' = recorded \cup new
              /\ passedOver' = passedOver \cup {e.id : e \in {f \in new : Behind(f)}}
    BY <1>1, RecordFacts
  <2>2. UNCHANGED <<ledger, now, cursor, pass, crashes>>
    BY <1>1, RecordFacts
  <2>3. IsFiniteSet(recorded')
    BY <2>1, FS_Union
  <2>4. passedOver' \subseteq AttemptIds
    BY <2>1, RowNumbers
  <2> QED BY <1>s, <2>1, <2>2, <2>3, <2>4
<1>2. CASE Tick
  <2>1. now' \in Times
    BY <1>2, PlannerAssumption DEF Tick, Times
  <2> QED BY <1>2, <1>s, <2>1 DEF Tick
<1>3. ASSUME NEW p \in Planners, PassStep(p) PROVE TypeOK' /\ NoOrphans' /\ recorded' = recorded
  <2>0. pass[p] \in PassRow /\ now \in Nat
    BY <1>t
  <2>1. CASE Begin(p)
    BY <2>0, <2>1, <1>s, IdleType DEF Begin
  <2>2. CASE ReadCursor(p)
    <3>1. pass[p].moment \in Nat
      BY <2>0 DEF PassRow
    <3>2. (IF cursor = None THEN FirstFrom(pass[p].moment) ELSE cursor) \in Marks
      BY <3>1, MarkTypes
    <3> DEFINE from == IF cursor = None THEN FirstFrom(pass[p].moment) ELSE cursor
               row == [pass[p] EXCEPT !.pc = "positioned", !.from = from]
    <3>5. pass' = [pass EXCEPT ![p] = row]
      BY <2>2 DEF ReadCursor
    <3>6. row \in PassRow
      BY <2>0, <3>2 DEF PassRow, Phases
    <3> HIDE DEF row, from
    <3>3. pass' \in [Planners -> PassRow]
      BY <3>5, <3>6
    <3>4. passedOver' \subseteq AttemptIds
      BY <2>2, RowNumbers DEF ReadCursor
    <3> QED BY <2>2, <1>s, <3>3, <3>4 DEF ReadCursor
  <2>3. CASE ScanEvents(p)
    <3> DEFINE batch == FirstRows(Visible(p))
               row == [pass[p] EXCEPT !.pc = "scanned", !.rows = batch, !.left = batch]
    <3>1. batch \subseteq EventRow
      BY DEF FirstRows, Visible
    <3>3. pass' = [pass EXCEPT ![p] = row]
      BY <2>3 DEF ScanEvents
    <3>4. row \in PassRow
      <4> HIDE DEF batch
      <4> QED BY <2>0, <3>1 DEF PassRow, Phases
    <3> HIDE DEF row
    <3>2. pass' \in [Planners -> PassRow]
      BY <3>3, <3>4
    <3> QED BY <2>3, <1>s, <3>2 DEF ScanEvents
  <2>4. CASE ScanSlots(p)
    <3>1. FirstSlots(MissingSlots(pass[p].moment)) \subseteq Slots
      BY DEF FirstSlots, MissingSlots
    <3>2. PICK S : S = FirstSlots(MissingSlots(pass[p].moment))
      OBVIOUS
    <3>3. PICK row : row = [pass[p] EXCEPT !.pc = "planning", !.slots = S]
      OBVIOUS
    <3>4. row \in PassRow
      BY <2>0, <3>1, <3>2, <3>3 DEF PassRow, Phases
    <3>5. pass' = [pass EXCEPT ![p] = row]
      BY <2>4, <3>2, <3>3 DEF ScanSlots
    <3>6. pass' \in [Planners -> PassRow]
      BY <1>t, <3>4, <3>5
    <3> QED BY <2>4, <1>s, <3>6 DEF ScanSlots
  <2>5. ASSUME NEW e \in pass[p].left, PlanRow(p, e) PROVE TypeOK' /\ NoOrphans' /\ recorded' = recorded
    <3>1. e \in EventRow
      BY <2>0 DEF PassRow
    <3>2. pass' \in [Planners -> PassRow]
      BY <2>5 DEF PlanRow, PassRow
    <3>3. StoreTypeOK' /\ NoOrphans'
      <4>1. CASE NeedsRecovery(e)
        <5>1. /\ RowChain(e) \in Chains /\ e.source \in Sources /\ e.at \in Nat
              /\ ActionFor(e) \in RecoveryActions
          BY <3>1, <4>1, ChainKnown, RowNumbers, ActionType DEF NeedsRecovery, EventRow
        <5>2. OpenChain(RowChain(e), e.source, ActionFor(e), e.at)
          BY <2>5, <4>1 DEF PlanRow
        <5> QED BY <5>1, <5>2, OpenFacts
      <4>2. CASE ~NeedsRecovery(e)
        BY <2>5, <4>2, <1>s DEF PlanRow
      <4> QED BY <4>1, <4>2
    <3> QED BY <2>5, <3>2, <3>3 DEF PlanRow
  <2>6. ASSUME NEW t \in pass[p].slots, PlanSlot(p, t) PROVE TypeOK' /\ NoOrphans' /\ recorded' = recorded
    <3>1. t \in Slots /\ t \in SlotRow
      BY <2>0, PlannerAssumption DEF PassRow
    <3>2. pass' \in [Planners -> PassRow]
      BY <2>6 DEF PlanSlot, PassRow
    <3>3. StoreTypeOK' /\ NoOrphans'
      <4>1. CASE CohortId[t.source] # None
        <5>1. /\ ChainOf(t.source, t.window) \in Chains /\ t.source \in Sources
              /\ t.deadline \in Nat
              /\ Decide("missing", "unknown", FALSE) \in RecoveryActions
          BY <3>1, <4>1, <1>t, PlannerAssumption
             DEF SlotRow, Decide, RecoveryActions, RetryActions
        <5>2. OpenChain(ChainOf(t.source, t.window), t.source,
                        Decide("missing", "unknown", FALSE), t.deadline)
          BY <2>6, <4>1 DEF PlanSlot
        <5> QED BY <5>1, <5>2, OpenFacts
      <4>2. CASE CohortId[t.source] = None
        BY <2>6, <4>2, <1>s DEF PlanSlot
      <4> QED BY <4>1, <4>2
    <3> QED BY <2>6, <3>2, <3>3 DEF PlanSlot
  <2>7. CASE Reconcile(p)
    <3>1. pass' \in [Planners -> PassRow]
      BY <2>7 DEF Reconcile, PassRow, Phases
    <3>2. StoreTypeOK' /\ NoOrphans'
      BY <2>7, ReconcileFacts DEF Reconcile
    <3> QED BY <2>7, <3>1, <3>2 DEF Reconcile
  <2>8. CASE Finish(p)
    <3>1. \A e \in pass[p].rows : Moved(e) \in Marks \cup {None}
      <4>1. TAKE e \in pass[p].rows
      <4>2. e \in EventRow
        BY <2>0 DEF PassRow
      <4> QED BY <4>2, RowNumbers DEF Moved, Marks
    <3>2. cursor' \in Marks \cup {None}
      BY <2>8, <3>1 DEF Finish, LastOf
    <3> QED BY <2>8, <1>s, <3>2, IdleType DEF Finish
  <2> QED BY <1>3, <2>1, <2>2, <2>3, <2>4, <2>5, <2>6, <2>7, <2>8 DEF PassStep
<1>4. ASSUME NEW p \in Planners, Kill(p) PROVE TypeOK' /\ NoOrphans' /\ recorded' = recorded
  <2>1. crashes' \in 0..MaxCrashes
    BY <1>4, PlannerAssumption DEF Kill
  <2> QED BY <1>4, <1>s, <2>1, IdleType DEF Kill
<1>5. CASE UNCHANGED vars
  BY <1>5, <1>s DEF vars
<1> QED BY <1>1, <1>2, <1>3, <1>4, <1>5 DEF Next

-----------------------------------------------------------------------------
(* What is owed and what is planned only move one way, whatever the step.  *)
LEMMA PlannedStays ==
  ASSUME SourcesKept, NEW e \in EventRow, NeedsRecovery(e), Planned(e)
  PROVE  Planned(e)'
<1>1. RowChain(e) \in Chains
  BY ChainKnown DEF NeedsRecovery
<1> QED BY <1>1 DEF Planned, SourcesKept

(* A step that records nothing and keeps the sources keeps every promise   *)
(* about marks and batches that it does not change.                        *)
Quiet == /\ TypeOK /\ SourcesKept
         /\ recorded' = recorded /\ passedOver \subseteq passedOver'

LEMMA PromiseStays ==
  ASSUME Quiet, NEW e \in recorded, Owed(e)'
  PROVE  e \in EventRow /\ Owed(e) /\ (Planned(e) => Planned(e)')
<1>1. e \in EventRow /\ NeedsRecovery(e) /\ Owed(e)
  BY DEF TypeOK, Owed, Quiet
<1> QED BY <1>1, PlannedStays DEF Quiet

LEMMA CursorStays ==
  ASSUME Quiet, CursorCovers, cursor' = cursor
  PROVE  CursorCovers'
<1> SUFFICES ASSUME NEW e \in recorded, Owed(e)', cursor # None, ~After(e, cursor)
             PROVE  Planned(e)'
  BY DEF CursorCovers, Owed, Quiet, After
<1> QED BY PromiseStays DEF CursorCovers, Owed

LEMMA PassStays ==
  ASSUME Quiet, NEW p \in Planners, FromCovers(p), RowsCover(p), PhaseShape(p),
         pass'[p] = pass[p]
  PROVE  FromCovers(p)' /\ RowsCover(p)' /\ PhaseShape(p)'
<1>1. FromCovers(p)'
  <2> SUFFICES ASSUME NEW e \in recorded, Owed(e)', ~After(e, pass[p].from)
               PROVE  Planned(e)'
    BY DEF FromCovers, Quiet, After
  <2> QED BY PromiseStays DEF FromCovers
<1>2. RowsCover(p)'
  <2> SUFFICES ASSUME NEW e \in recorded, NEW f \in pass[p].rows, Owed(e)', ~After(e, f)
               PROVE  Planned(e)' \/ e \in pass[p].left
    BY DEF RowsCover, Quiet
  <2> QED BY PromiseStays DEF RowsCover
<1>3. PhaseShape(p)'
  BY DEF PhaseShape
<1> QED BY <1>1, <1>2, <1>3

(* The chosen row of a pass is planned by its transaction.                 *)
LEMMA LedgerKept ==
  ASSUME UNCHANGED ledger
  PROVE  SourcesKept
BY DEF ledger, SourcesKept

LEMMA PlanRowFacts ==
  ASSUME TypeOK, NoOrphans, NEW p \in Planners, NEW e \in pass[p].left, PlanRow(p, e)
  PROVE  SourcesKept /\ (NeedsRecovery(e) => Planned(e)')
<1>1. e \in EventRow
  BY DEF TypeOK, PassRow
<1>2. CASE NeedsRecovery(e)
  <2>1. /\ RowChain(e) \in Chains /\ e.source \in Sources /\ e.at \in Nat
        /\ ActionFor(e) \in RecoveryActions
    BY <1>1, <1>2, ChainKnown, RowNumbers, ActionType DEF NeedsRecovery, EventRow
  <2>2. OpenChain(RowChain(e), e.source, ActionFor(e), e.at)
    BY <1>2 DEF PlanRow
  <2> QED BY <2>1, <2>2, OpenFacts DEF Planned, TypeOK
<1>3. CASE ~NeedsRecovery(e)
  BY <1>3, LedgerKept DEF PlanRow
<1> QED BY <1>2, <1>3

LEMMA PlanSlotFacts ==
  ASSUME TypeOK, NoOrphans, NEW p \in Planners, NEW t \in pass[p].slots, PlanSlot(p, t)
  PROVE  SourcesKept
<1>1. t \in SlotRow
  BY PlannerAssumption DEF TypeOK, PassRow
<1>2. CASE CohortId[t.source] # None
  <2>1. /\ ChainOf(t.source, t.window) \in Chains /\ t.source \in Sources
        /\ t.deadline \in Nat
        /\ Decide("missing", "unknown", FALSE) \in RecoveryActions
    BY <1>1, <1>2, PlannerAssumption
       DEF SlotRow, Decide, RecoveryActions, RetryActions, Times
  <2>2. OpenChain(ChainOf(t.source, t.window), t.source,
                  Decide("missing", "unknown", FALSE), t.deadline)
    BY <1>2 DEF PlanSlot
  <2> QED BY <2>1, <2>2, OpenFacts DEF TypeOK
<1>3. CASE CohortId[t.source] = None
  BY <1>3, LedgerKept DEF PlanSlot
<1> QED BY <1>2, <1>3

-----------------------------------------------------------------------------
Covers(p) == FromCovers(p) /\ RowsCover(p) /\ PhaseShape(p)

(* A row is committed: behind a scan it is noted, else it lies ahead.      *)
LEMMA RecordCovers ==
  ASSUME IInv, Record
  PROVE  CursorCovers' /\ \A p \in Planners : Covers(p)'
<1>1. UNCHANGED <<ledger, now, cursor, pass, crashes>>
  BY RecordFacts DEF IInv
<1>2. PICK new \in SUBSET EventRow :
         /\ recorded' = recorded \cup new
         /\ passedOver' = passedOver \cup {e.id : e \in {f \in new : Behind(f)}}
  BY RecordFacts DEF IInv
<1>3. \A e : Planned(e)' <=> Planned(e)
  BY <1>1 DEF Planned, ledger
<1>4. \A e \in new : Owed(e)' => ~Behind(e)
  BY <1>2 DEF Owed
<1>5. \A e : Owed(e)' => Owed(e)
  BY <1>2 DEF Owed
<1>6. CursorCovers'
  <2> SUFFICES ASSUME NEW e \in recorded', Owed(e)', cursor # None, ~After(e, cursor)
               PROVE  Planned(e)
    BY <1>1, <1>3 DEF CursorCovers, Owed, After
  <2>1. e \in recorded
    BY <1>2, <1>4 DEF Behind
  <2> QED BY <1>5, <2>1 DEF IInv, CursorCovers, Owed
<1>7. ASSUME NEW p \in Planners PROVE Covers(p)'
  <2>1. FromCovers(p)'
    <3> SUFFICES ASSUME NEW e \in recorded', Owed(e)', ~After(e, pass[p].from)
                 PROVE  Planned(e)
      BY <1>1, <1>3 DEF FromCovers, After
    <3>1. e \in recorded
      BY <1>2, <1>4 DEF Behind
    <3> QED BY <1>5, <3>1 DEF IInv, FromCovers
  <2>2. RowsCover(p)'
    <3> SUFFICES ASSUME NEW e \in recorded', NEW f \in pass[p].rows, Owed(e)', ~After(e, f)
                 PROVE  Planned(e) \/ e \in pass[p].left
      BY <1>1, <1>3 DEF RowsCover
    <3>1. e \in recorded
      BY <1>2, <1>4 DEF Behind
    <3> QED BY <1>5, <3>1 DEF IInv, RowsCover
  <2>3. PhaseShape(p)'
    BY <1>1 DEF IInv, PhaseShape
  <2> QED BY <2>1, <2>2, <2>3 DEF Covers
<1> QED BY <1>6, <1>7

(* A pass that is idle promises nothing: no row is behind its zero mark.   *)
LEMMA IdleCovers ==
  ASSUME TypeOK', NEW p \in Planners, pass'[p].from = NoMark, pass'[p].rows = {},
         pass'[p].pc # "reconciled"
  PROVE  Covers(p)'
<1>1. \A e \in recorded' : After(e, pass'[p].from)
  BY RowNumbers DEF TypeOK, After, NoMark
<1>2. FromCovers(p)'
  BY <1>1 DEF FromCovers, After
<1> QED BY <1>2 DEF Covers, RowsCover, PhaseShape

(* The pass takes its position: the cursor, or the start of the lookback.  *)
LEMMA ReadCursorCovers ==
  ASSUME IInv, NEW p \in Planners, ReadCursor(p)
  PROVE  Quiet /\ cursor' = cursor /\ Covers(p)'
<1>1. Quiet /\ cursor' = cursor /\ UNCHANGED ledger
  BY LedgerKept DEF ReadCursor, IInv, Quiet
<1>2. pass[p] \in PassRow /\ pass[p].rows = {}
  BY DEF IInv, TypeOK, PhaseShape, ReadCursor
<1> DEFINE from == IF cursor = None THEN FirstFrom(pass[p].moment) ELSE cursor
<1>3. pass'[p].from = from /\ pass'[p].rows = {} /\ pass'[p].pc = "positioned"
  BY <1>2 DEF ReadCursor, PassRow, IInv, TypeOK
<1>4. FromCovers(p)'
  <2> SUFFICES ASSUME NEW e \in recorded, Owed(e)', ~After(e, from)
               PROVE  Planned(e)'
    BY <1>1, <1>3 DEF FromCovers, After, Quiet
  <2>1. Owed(e) /\ (Planned(e) => Planned(e)')
    BY <1>1, PromiseStays
  <2>2. CASE cursor = None
    <3>1. e.id \in passedOver'
      BY <2>2 DEF ReadCursor
    <3> QED BY <3>1 DEF Owed
  <2>3. CASE cursor # None
    BY <2>1, <2>3 DEF IInv, CursorCovers, Owed
  <2> QED BY <2>2, <2>3
<1> QED BY <1>1, <1>3, <1>4 DEF Covers, RowsCover, PhaseShape

(* The batch has no gap: what is not in it and not behind the position     *)
(* lies after its last row.                                                *)
LEMMA ScanEventsCovers ==
  ASSUME IInv, NEW p \in Planners, ScanEvents(p)
  PROVE  Quiet /\ cursor' = cursor /\ Covers(p)'
<1>1. Quiet /\ cursor' = cursor
  BY LedgerKept DEF ScanEvents, IInv, Quiet
<1> DEFINE batch == FirstRows(Visible(p))
<1>2. /\ pass[p] \in PassRow /\ pass'[p].from = pass[p].from
      /\ pass'[p].rows = batch /\ pass'[p].left = batch /\ pass'[p].pc = "scanned"
  BY DEF ScanEvents, PassRow, IInv, TypeOK
<1>3. FromCovers(p)'
  <2> SUFFICES ASSUME NEW e \in recorded, Owed(e)', ~After(e, pass[p].from)
               PROVE  Planned(e)'
    BY <1>1, <1>2 DEF FromCovers, Quiet, After
  <2> QED BY <1>1, PromiseStays DEF FromCovers, IInv
<1>4. RowsCover(p)'
  <2> SUFFICES ASSUME NEW e \in recorded, NEW f \in batch, Owed(e)', ~After(e, f)
               PROVE  Planned(e)' \/ e \in batch
    BY <1>1, <1>2 DEF RowsCover, Quiet
  <2>1. f \in Visible(p) /\ e \in EventRow /\ f \in EventRow
    BY DEF FirstRows, Visible, IInv, TypeOK
  <2>2. CASE ~After(e, pass[p].from)
    BY <1>1, <2>2, PromiseStays DEF FromCovers, IInv
  <2>3. CASE After(e, pass[p].from)
    <3>1. e.at <= pass[p].moment
      <4>1. e.at \in Nat /\ e.id \in Nat /\ f.at \in Nat /\ f.id \in Nat
        BY <2>1, RowNumbers
      <4>2. e.at <= f.at /\ f.at <= pass[p].moment /\ pass[p].moment \in Nat
        BY <1>2, <2>1, <4>1, AfterOrder DEF Visible, PassRow
      <4> QED BY <4>1, <4>2
    <3>2. e \in Visible(p)
      BY <2>3, <3>1 DEF Visible
    <3>3. Visible(p) \in SUBSET EventRow /\ IsFiniteSet(Visible(p))
      BY FS_Subset DEF Visible, IInv, TypeOK
    <3> QED BY <3>2, <3>3, BatchIsPrefix
  <2> QED BY <2>2, <2>3
<1> QED BY <1>1, <1>2, <1>3, <1>4 DEF Covers, PhaseShape

(* A planned row leaves the batch; the slots and the reconciliation only   *)
(* add to the ledger.                                                      *)
LEMMA PlanRowCovers ==
  ASSUME IInv, NEW p \in Planners, NEW x \in pass[p].left, PlanRow(p, x)
  PROVE  Quiet /\ cursor' = cursor /\ Covers(p)'
<1>1. Quiet /\ cursor' = cursor /\ (NeedsRecovery(x) => Planned(x)')
  BY PlanRowFacts DEF PlanRow, IInv, Quiet
<1>2. /\ pass'[p].from = pass[p].from /\ pass'[p].rows = pass[p].rows
      /\ pass'[p].left = pass[p].left \ {x} /\ pass'[p].pc = "planning"
  BY DEF PlanRow, PassRow, IInv, TypeOK
<1>3. FromCovers(p)'
  <2> SUFFICES ASSUME NEW e \in recorded, Owed(e)', ~After(e, pass[p].from)
               PROVE  Planned(e)'
    BY <1>1, <1>2 DEF FromCovers, Quiet, After
  <2> QED BY <1>1, PromiseStays DEF FromCovers, IInv
<1>4. RowsCover(p)'
  <2> SUFFICES ASSUME NEW e \in recorded, NEW f \in pass[p].rows, Owed(e)', ~After(e, f)
               PROVE  Planned(e)' \/ e \in pass[p].left \ {x}
    BY <1>1, <1>2 DEF RowsCover, Quiet
  <2>1. Owed(e) /\ (Planned(e) => Planned(e)')
    BY <1>1, PromiseStays
  <2>2. CASE e = x
    BY <1>1, <2>1, <2>2 DEF Owed
  <2>3. CASE e # x
    BY <2>1, <2>3 DEF RowsCover, IInv
  <2> QED BY <2>2, <2>3
<1> QED BY <1>1, <1>2, <1>3, <1>4 DEF Covers, PhaseShape

LEMMA OtherPhasesCover ==
  ASSUME IInv, NEW p \in Planners, Quiet,
         pass'[p].from = pass[p].from, pass'[p].rows = pass[p].rows,
         pass'[p].left = pass[p].left, pass[p].pc \in {"scanned", "planning"},
         pass'[p].pc \in {"planning", "reconciled"},
         pass'[p].pc = "reconciled" => pass[p].left = {}
  PROVE  Covers(p)'
<1>1. FromCovers(p)'
  <2> SUFFICES ASSUME NEW e \in recorded, Owed(e)', ~After(e, pass[p].from)
               PROVE  Planned(e)'
    BY DEF FromCovers, Quiet, After
  <2> QED BY PromiseStays DEF FromCovers, IInv
<1>2. RowsCover(p)'
  <2> SUFFICES ASSUME NEW e \in recorded, NEW f \in pass[p].rows, Owed(e)', ~After(e, f)
               PROVE  Planned(e)' \/ e \in pass[p].left
    BY DEF RowsCover, Quiet
  <2> QED BY PromiseStays DEF RowsCover, IInv
<1> QED BY <1>1, <1>2 DEF Covers, PhaseShape

(* The cursor moves to the last row of a batch that is planned, or stays.  *)
LEMMA FinishCovers ==
  ASSUME IInv, NEW p \in Planners, Finish(p)
  PROVE  Quiet /\ CursorCovers'
<1>1. Quiet /\ UNCHANGED ledger
  BY LedgerKept DEF Finish, IInv, Quiet
<1>2. CASE cursor' = cursor
  BY <1>1, <1>2, CursorStays DEF IInv
<1>3. CASE cursor' # cursor
  <2>1. PICK x \in pass[p].rows : cursor' = [at |-> x.at, id |-> x.id]
    BY <1>3 DEF Finish, LastOf, Moved
  <2>2. pass[p].left = {}
    BY DEF Finish, IInv, PhaseShape
  <2> SUFFICES ASSUME NEW e \in recorded, Owed(e)', ~After(e, cursor')
               PROVE  Planned(e)'
    BY <1>1 DEF CursorCovers, Owed, Quiet, After
  <2>3. ~After(e, x)
    BY <2>1 DEF After
  <2>4. Owed(e) /\ (Planned(e) => Planned(e)')
    BY <1>1, PromiseStays
  <2> QED BY <2>2, <2>3, <2>4 DEF RowsCover, IInv
<1> QED BY <1>1, <1>2, <1>3

LEMMA CoverStep ==
  ASSUME IInv, TypeOK', [Next]_vars
  PROVE  CursorCovers' /\ \A p \in Planners : Covers(p)'
<1>q. ASSUME Quiet, cursor' = cursor,
             NEW p \in Planners, Covers(p)',
             \A q \in Planners : q # p => pass'[q] = pass[q]
      PROVE  CursorCovers' /\ \A q \in Planners : Covers(q)'
  BY <1>q, CursorStays, PassStays DEF IInv, Covers
<1>1. CASE Record
  BY <1>1, RecordCovers
<1>2. CASE Tick \/ UNCHANGED vars
  <2>1. Quiet /\ cursor' = cursor /\ pass' = pass
    BY <1>2, LedgerKept DEF Tick, vars, IInv, Quiet
  <2> QED BY <2>1, CursorStays, PassStays DEF IInv, Covers
<1>3. ASSUME NEW p \in Planners, PassStep(p) \/ Kill(p)
      PROVE  CursorCovers' /\ \A q \in Planners : Covers(q)'
  <2>0. /\ pass \in [Planners -> PassRow] /\ IdlePass.from = NoMark
        /\ IdlePass.rows = {} /\ IdlePass.pc = "idle"
    BY DEF IInv, TypeOK, IdlePass
  <2>1. CASE Begin(p)
    <3>1. Quiet /\ cursor' = cursor
      BY <2>1, LedgerKept DEF Begin, IInv, Quiet
    <3>2. /\ pass'[p] = [IdlePass EXCEPT !.pc = "begun", !.moment = now]
          /\ \A q \in Planners : q # p => pass'[q] = pass[q]
      BY <2>0, <2>1 DEF Begin
    <3>3. pass'[p].from = NoMark /\ pass'[p].rows = {} /\ pass'[p].pc = "begun"
      BY <3>2 DEF IdlePass
    <3>4. Covers(p)'
      BY <3>3, IdleCovers
    <3> QED BY <1>q, <3>1, <3>2, <3>4
  <2>2. CASE ReadCursor(p)
    <3>1. \A q \in Planners : q # p => pass'[q] = pass[q]
      BY <2>0, <2>2 DEF ReadCursor
    <3> QED BY <1>q, <2>2, <3>1, ReadCursorCovers
  <2>3. CASE ScanEvents(p)
    <3>1. \A q \in Planners : q # p => pass'[q] = pass[q]
      BY <2>0, <2>3 DEF ScanEvents
    <3> QED BY <1>q, <2>3, <3>1, ScanEventsCovers
  <2>4. CASE ScanSlots(p)
    <3>1. Quiet /\ cursor' = cursor
      BY <2>4, LedgerKept DEF ScanSlots, IInv, Quiet
    <3>2. /\ \A q \in Planners : q # p => pass'[q] = pass[q]
          /\ pass'[p].from = pass[p].from /\ pass'[p].rows = pass[p].rows
          /\ pass'[p].left = pass[p].left /\ pass'[p].pc = "planning" /\ pass[p].pc = "scanned"
      BY <2>0, <2>4 DEF ScanSlots, PassRow
    <3>3. Covers(p)'
      BY <3>1, <3>2, OtherPhasesCover
    <3> QED BY <1>q, <3>1, <3>2, <3>3
  <2>5. ASSUME NEW x \in pass[p].left, PlanRow(p, x)
        PROVE  CursorCovers' /\ \A q \in Planners : Covers(q)'
    <3>1. \A q \in Planners : q # p => pass'[q] = pass[q]
      BY <2>0, <2>5 DEF PlanRow
    <3> QED BY <1>q, <2>5, <3>1, PlanRowCovers
  <2>6. ASSUME NEW t \in pass[p].slots, PlanSlot(p, t)
        PROVE  CursorCovers' /\ \A q \in Planners : Covers(q)'
    <3>1. Quiet /\ cursor' = cursor
      BY <2>6, PlanSlotFacts DEF PlanSlot, IInv, Quiet
    <3>2. /\ \A q \in Planners : q # p => pass'[q] = pass[q]
          /\ pass'[p].from = pass[p].from /\ pass'[p].rows = pass[p].rows
          /\ pass'[p].left = pass[p].left /\ pass'[p].pc = "planning" /\ pass[p].pc = "planning"
      BY <2>0, <2>6 DEF PlanSlot, PassRow
    <3>3. Covers(p)'
      BY <3>1, <3>2, OtherPhasesCover
    <3> QED BY <1>q, <3>1, <3>2, <3>3
  <2>7. CASE Reconcile(p)
    <3>1. Quiet /\ cursor' = cursor
      BY <2>7, ReconcileFacts DEF Reconcile, IInv, TypeOK, Quiet
    <3>2. /\ \A q \in Planners : q # p => pass'[q] = pass[q]
          /\ pass'[p].from = pass[p].from /\ pass'[p].rows = pass[p].rows
          /\ pass'[p].left = pass[p].left /\ pass[p].left = {}
          /\ pass'[p].pc = "reconciled" /\ pass[p].pc = "planning"
      BY <2>0, <2>7 DEF Reconcile, PassRow, AllPlanned
    <3>3. Covers(p)'
      BY <3>1, <3>2, OtherPhasesCover
    <3> QED BY <1>q, <3>1, <3>2, <3>3
  <2>8. CASE Finish(p)
    <3>1. Quiet /\ CursorCovers'
      BY <2>8, FinishCovers
    <3>2. pass'[p] = IdlePass /\ \A q \in Planners : q # p => pass'[q] = pass[q]
      BY <2>0, <2>8 DEF Finish
    <3>3. Covers(p)'
      BY <2>0, <3>2, IdleCovers
    <3> QED BY <3>1, <3>2, <3>3, PassStays DEF IInv, Covers
  <2>9. CASE Kill(p)
    <3>1. Quiet /\ cursor' = cursor
      BY <2>9, LedgerKept DEF Kill, IInv, Quiet
    <3>2. pass'[p] = IdlePass /\ \A q \in Planners : q # p => pass'[q] = pass[q]
      BY <2>0, <2>9 DEF Kill
    <3>3. Covers(p)'
      BY <2>0, <3>2, IdleCovers
    <3> QED BY <1>q, <3>1, <3>2, <3>3
  <2> QED BY <1>3, <2>1, <2>2, <2>3, <2>4, <2>5, <2>6, <2>7, <2>8, <2>9 DEF PassStep
<1> QED BY <1>1, <1>2, <1>3 DEF Next

-----------------------------------------------------------------------------
(* The inductive invariant: in every reachable state, each pass has        *)
(* planned everything behind its position, has the rest of its batch at    *)
(* hand, and the cursor is at or before what is planned (plan_once).       *)
THEOREM Invariance == Spec => []IInv
<1>1. Init => IInv
  <2> SUFFICES ASSUME Init PROVE IInv
    OBVIOUS
  <2>1. StoreTypeOK /\ NoOrphans
    <3>1. Absent \in ChainRow
      BY DEF Absent, ChainRow, ChainStates, RecoveryActions, ParkActions
    <3> QED BY <3>1 DEF Init, StoreInit, StoreTypeOK, NoOrphans, Absent
  <2>2. TypeOK
    <3>1. 1 \in Times /\ 0 \in 0..MaxCrashes
      BY PlannerAssumption DEF Times
    <3>2. pass \in [Planners -> PassRow]
      BY IdleType DEF Init
    <3> QED BY <2>1, <3>1, <3>2 DEF Init, TypeOK
  <2>3. recorded = {} /\ IsFiniteSet(recorded)
    BY FS_EmptySet DEF Init
  <2>4. \A p \in Planners : PhaseShape(p)
    BY DEF Init, PhaseShape, IdlePass
  <2> QED BY <2>1, <2>2, <2>3, <2>4 DEF IInv, CursorCovers, FromCovers, RowsCover
<1>2. IInv /\ [Next]_vars => IInv'
  <2> SUFFICES ASSUME IInv, [Next]_vars PROVE IInv'
    OBVIOUS
  <2>1. TypeOK' /\ NoOrphans' /\ IsFiniteSet(recorded)'
    BY TypeStep DEF IInv
  <2>2. CursorCovers' /\ \A p \in Planners : Covers(p)'
    BY <2>1, CoverStep
  <2> QED BY <2>1, <2>2 DEF IInv, Covers
<1> QED BY <1>1, <1>2, PTL DEF Spec

(* Every variable of the planner and every row it writes keeps its type,   *)
(* with overlapping passes, kills and any recorded results (plan_once).    *)
THEOREM TypeCorrect == Spec => []TypeOK
<1>1. IInv => TypeOK
  BY DEF IInv
<1> QED BY <1>1, Invariance, PTL

(* No failed attempt is lost behind the cursor: for every batch limit,     *)
(* every tie of finished_at, any number of overlapping or killed passes,   *)
(* an attempt the cursor has passed has its source in a chain unless it    *)
(* was committed behind a scan (plan_once, advance_planner_cursor).        *)
THEOREM NothingLostBehindCursor == Spec => []CursorCovers
<1>1. IInv => CursorCovers
  BY DEF IInv
<1> QED BY <1>1, Invariance, PTL
=============================================================================
