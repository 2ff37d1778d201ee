------------------------- MODULE ScheduleLedgerProofs -------------------------
(***************************************************************************)
(* Theorems about ScheduleLedger, for any schedules, sources, processes,   *)
(* switches and length of the horizon above the time a reconcile may wait: *)
(* typing and the keys of the table, that what the report calls covered is *)
(* covered, that a claimed occurrence keeps its rows, and that what was    *)
(* due is left alone.  The argument: no row lies at or behind the end of   *)
(* the coverage, so that what a reconcile adds is never already there with *)
(* an older cohort; and an occurrence that is due lies within the horizon  *)
(* of every reconcile that is still waiting.                               *)
(***************************************************************************)
EXTENDS ScheduleLedger, TLAPS

RowsNominal == \A x \in rows : x.at \in x.spec.times /\ x.source \in x.spec.sources

RowsBelow == IF led = None THEN rows = {}
             ELSE /\ led.cohort.start = led.start
                  /\ \A x \in rows : x.at < led.through

MomentsRecent == \A p \in Procs : moment[p] # None =>
                   moment[p] <= now /\ now <= moment[p] + MaxWait

ClaimsPast == \A c \in claims : c.at <= now

IInv == /\ TypeOK /\ RowsNominal /\ RowsBelow /\ MomentsRecent /\ ClaimsPast
        /\ CoverageComplete /\ ClaimsKeepRows

-----------------------------------------------------------------------------
LEMMA NominalFacts ==
  /\ \A n \in Nominal : /\ n.spec \in Specs /\ n.at \in Nat /\ n.source \in Sources
                        /\ n.at \in n.spec.times /\ n.source \in n.spec.sources
  /\ \A s \in Specs : \A at \in s.times : \A source \in s.sources :
       \E n \in Nominal : n.spec = s /\ n.at = at /\ n.source = source
<1>1. \A s \in Specs : s.times \subseteq Nat /\ s.sources \subseteq Sources
  BY ScheduleLedgerAssumption DEF ScheduleSpec
<1>2. ASSUME NEW n \in Nominal
      PROVE  /\ n.spec \in Specs /\ n.at \in Nat /\ n.source \in Sources
             /\ n.at \in n.spec.times /\ n.source \in n.spec.sources
  <2>1. PICK s \in Specs : n \in [spec : {s}, at : s.times, source : s.sources]
    BY DEF Nominal
  <2>2. n.spec = s /\ n.at \in s.times /\ n.source \in s.sources
    BY <2>1
  <2> QED BY <2>2, <1>1
<1>3. ASSUME NEW s \in Specs, NEW at \in s.times, NEW source \in s.sources
      PROVE  \E n \in Nominal : n.spec = s /\ n.at = at /\ n.source = source
  <2> DEFINE n == [spec |-> s, at |-> at, source |-> source]
  <2>1. n \in [spec : {s}, at : s.times, source : s.sources]
    OBVIOUS
  <2>2. n \in Nominal
    BY <2>1 DEF Nominal
  <2> QED BY <2>2
<1> QED BY <1>2, <1>3

(* The rows that a reconcile adds are those of the occurrences of its      *)
(* horizon that have none.                                                 *)
LEMMA InsertedFacts ==
  ASSUME NEW m \in Nat
  PROVE  /\ \A x \in Inserted(m) : \E n \in Nominal :
              /\ x.spec = n.spec /\ x.at = n.at /\ x.source = n.source
              /\ x.cohort = CohortFrom(Start(m)) /\ x.eligible = Eligible(n)
              /\ x = [spec |-> n.spec, at |-> n.at, source |-> n.source,
                      cohort |-> CohortFrom(Start(m)), eligible |-> Eligible(n)]
              /\ m <= n.at /\ n.at < m + Horizon /\ Free(m, n)
         /\ \A n \in Nominal :
              m <= n.at /\ n.at < m + Horizon /\ Free(m, n) =>
                \E x \in Inserted(m) :
                  /\ x.spec = n.spec /\ x.at = n.at /\ x.source = n.source
                  /\ x.cohort = CohortFrom(Start(m))
<1>1. ASSUME NEW x \in Inserted(m)
      PROVE  \E n \in Nominal :
              /\ x = [spec |-> n.spec, at |-> n.at, source |-> n.source,
                      cohort |-> CohortFrom(Start(m)), eligible |-> Eligible(n)]
              /\ m <= n.at /\ n.at < m + Horizon /\ Free(m, n)
  BY Zenon DEF Inserted
<1>2. ASSUME NEW n \in Nominal, m <= n.at, n.at < m + Horizon, Free(m, n)
      PROVE  [spec |-> n.spec, at |-> n.at, source |-> n.source,
              cohort |-> CohortFrom(Start(m)), eligible |-> Eligible(n)]
               \in Inserted(m)
  BY <1>2, Zenon DEF Inserted
<1>3. ASSUME NEW x \in Inserted(m)
      PROVE  \E n \in Nominal :
              /\ x.spec = n.spec /\ x.at = n.at /\ x.source = n.source
              /\ x.cohort = CohortFrom(Start(m)) /\ x.eligible = Eligible(n)
              /\ x = [spec |-> n.spec, at |-> n.at, source |-> n.source,
                      cohort |-> CohortFrom(Start(m)), eligible |-> Eligible(n)]
              /\ m <= n.at /\ n.at < m + Horizon /\ Free(m, n)
  <2>1. PICK n \in Nominal :
              /\ x = [spec |-> n.spec, at |-> n.at, source |-> n.source,
                      cohort |-> CohortFrom(Start(m)), eligible |-> Eligible(n)]
              /\ m <= n.at /\ n.at < m + Horizon /\ Free(m, n)
    BY <1>1
  <2>2. /\ x.spec = n.spec /\ x.at = n.at /\ x.source = n.source
        /\ x.cohort = CohortFrom(Start(m)) /\ x.eligible = Eligible(n)
    BY <2>1
  <2> QED BY <2>1, <2>2
<1>4. ASSUME NEW n \in Nominal, m <= n.at, n.at < m + Horizon, Free(m, n)
      PROVE  \E x \in Inserted(m) :
                  /\ x.spec = n.spec /\ x.at = n.at /\ x.source = n.source
                  /\ x.cohort = CohortFrom(Start(m))
  <2> DEFINE x == [spec |-> n.spec, at |-> n.at, source |-> n.source,
                   cohort |-> CohortFrom(Start(m)), eligible |-> Eligible(n)]
  <2>1. x \in Inserted(m)
    BY <1>2, <1>4
  <2>2. /\ x.spec = n.spec /\ x.at = n.at /\ x.source = n.source
        /\ x.cohort = CohortFrom(Start(m))
    OBVIOUS
  <2> QED BY <2>1, <2>2, Zenon
<1> QED BY <1>3, <1>4, Zenon

LEMMA ReconcileFacts ==
  ASSUME TypeOK, RowsBelow, NEW m \in Nat
  PROVE  /\ Start(m) \in Nat /\ Through(m) \in Nat
         /\ CohortFrom(Start(m)) \in Cohort
         /\ CohortFrom(Start(m)).start = Start(m)
         /\ m + Horizon <= Through(m)
         /\ led # None /\ ~NewCohort(m) =>
              /\ Start(m) = led.start /\ led.cohort = CohortFrom(Start(m))
              /\ led.through <= Through(m) /\ Kept(m) = rows
              /\ m + Horizon >= Through(m) \/ led.through = Through(m)
         /\ led = None => Start(m) = m /\ Through(m) = m + Horizon /\ Kept(m) = {}
         /\ NewCohort(m) =>
              /\ Start(m) = m /\ Through(m) = m + Horizon
              /\ Kept(m) = {x \in rows : x.at <= m}
         /\ Kept(m) \subseteq rows
         /\ \A x \in rows : x.at <= m => x \in Kept(m)
<1>1. led # None => led.start \in Nat /\ led.through \in Nat /\ led.cohort.start = led.start
  BY DEF TypeOK, State, RowsBelow
<1>2. Start(m) \in Nat /\ Through(m) \in Nat /\ m + Horizon <= Through(m)
  BY <1>1, ScheduleLedgerAssumption DEF Start, Through
<1>3. CohortFrom(Start(m)) \in Cohort /\ CohortFrom(Start(m)).start = Start(m)
  BY <1>2 DEF CohortFrom, Cohort, TypeOK
<1>4. ASSUME led # None, ~NewCohort(m)
      PROVE  /\ Start(m) = led.start /\ led.cohort = CohortFrom(Start(m))
             /\ led.through <= Through(m) /\ Kept(m) = rows
             /\ m + Horizon >= Through(m) \/ led.through = Through(m)
  <2>1. led.cohort = CohortFrom(Start(m))
    BY <1>4 DEF NewCohort
  <2>2. Start(m) = led.start
    BY <1>1, <1>3, <1>4, <2>1
  <2> QED BY <1>1, <1>4, <2>1, <2>2, ScheduleLedgerAssumption DEF Through, Kept
<1>5. ASSUME led = None
      PROVE  Start(m) = m /\ Through(m) = m + Horizon /\ Kept(m) = {}
  BY <1>5 DEF Start, Through, Kept, NewCohort, RowsBelow
<1>6. ASSUME NewCohort(m)
      PROVE  /\ Start(m) = m /\ Through(m) = m + Horizon
             /\ Kept(m) = {x \in rows : x.at <= m}
  <2>1. led # None /\ led.cohort # CohortFrom(Start(m))
    BY <1>6 DEF NewCohort
  <2>2. Start(m) = m
    BY <2>1 DEF Start, Reconfigured
  <2> QED BY <1>6, <2>1, <2>2 DEF Through, Kept
<1> QED BY <1>2, <1>3, <1>4, <1>5, <1>6 DEF Kept

LEMMA MaterializeTypes ==
  ASSUME IInv, NEW p \in Procs, Materialize(p)
  PROVE  TypeOK' /\ RowsNominal' /\ RowsBelow' /\ MomentsRecent'
<1> DEFINE m == moment[p]
<1>1. m \in Nat
  BY DEF IInv, TypeOK, Materialize
<1>2. /\ rows' = Kept(m) \cup Inserted(m)
      /\ led' = [start |-> Start(m), through |-> Through(m),
                 cohort |-> CohortFrom(Start(m))]
      /\ moment' = [moment EXCEPT ![p] = None]
      /\ UNCHANGED <<now, enabled, earlyUntil, changes, claims>>
  BY DEF Materialize
<1> HIDE DEF m
<1>3. led' \in State /\ led' # None
  BY <1>1, <1>2, ReconcileFacts, ScheduleLedgerAssumption DEF IInv, State
<1>4. Kept(m) \subseteq rows
  BY <1>1, ReconcileFacts DEF IInv
<1>5. ASSUME NEW x \in Inserted(m)
      PROVE  /\ x \in Row /\ x.at \in x.spec.times /\ x.source \in x.spec.sources
             /\ x.at \in Nat /\ m <= x.at /\ x.at < m + Horizon
             /\ \A y \in Kept(m) :
                  ~(y.spec = x.spec /\ y.at = x.at /\ y.source = x.source)
  <2>1. PICK n \in Nominal :
              /\ x.spec = n.spec /\ x.at = n.at /\ x.source = n.source
              /\ x.cohort = CohortFrom(Start(m)) /\ x.eligible = Eligible(n)
              /\ x = [spec |-> n.spec, at |-> n.at, source |-> n.source,
                      cohort |-> CohortFrom(Start(m)), eligible |-> Eligible(n)]
              /\ m <= n.at /\ n.at < m + Horizon /\ Free(m, n)
    BY <1>1, InsertedFacts
  <2>2. /\ n.spec \in Specs /\ n.at \in Nat /\ n.source \in Sources
        /\ n.at \in n.spec.times /\ n.source \in n.spec.sources
    BY NominalFacts
  <2>3. CohortFrom(Start(m)) \in Cohort
    BY <1>1, ReconcileFacts DEF IInv
  <2>4. Eligible(n) \in BOOLEAN
    BY DEF Eligible
  <2>5. x \in Row
    BY <2>1, <2>2, <2>3, <2>4 DEF Row
  <2> QED BY <2>1, <2>2, <2>5 DEF Free
<1>6. ASSUME NEW x \in Inserted(m), NEW y \in Inserted(m),
             x.spec = y.spec, x.at = y.at, x.source = y.source
      PROVE  x = y
  <2>1. PICK n \in Nominal :
              /\ x.spec = n.spec /\ x.at = n.at /\ x.source = n.source
              /\ x = [spec |-> n.spec, at |-> n.at, source |-> n.source,
                      cohort |-> CohortFrom(Start(m)), eligible |-> Eligible(n)]
    BY <1>1, InsertedFacts
  <2>2. PICK k \in Nominal :
              /\ y.spec = k.spec /\ y.at = k.at /\ y.source = k.source
              /\ y = [spec |-> k.spec, at |-> k.at, source |-> k.source,
                      cohort |-> CohortFrom(Start(m)), eligible |-> Eligible(k)]
    BY <1>1, InsertedFacts
  <2>3. n.spec = k.spec /\ n.at = k.at /\ n.source = k.source
    BY <1>6, <2>1, <2>2
  <2>4. Eligible(n) = Eligible(k)
    BY <2>3 DEF Eligible
  <2> QED BY <2>1, <2>2, <2>3, <2>4
<1>7. ASSUME NEW x \in rows', NEW y \in rows',
             x.spec = y.spec, x.at = y.at, x.source = y.source
      PROVE  x = y
  <2>1. CASE x \in Kept(m) /\ y \in Kept(m)
    BY <1>4, <1>7, <2>1 DEF IInv, TypeOK
  <2> QED BY <1>2, <1>5, <1>6, <1>7, <2>1
<1>8. rows' \in SUBSET Row
  BY <1>2, <1>4, <1>5 DEF IInv, TypeOK
<1>9. moment' \in [Procs -> Nat \cup {None}]
  BY <1>2 DEF IInv, TypeOK
<1>10. TypeOK'
  BY <1>2, <1>3, <1>7, <1>8, <1>9 DEF IInv, TypeOK
<1>11. RowsNominal'
  BY <1>2, <1>4, <1>5 DEF IInv, RowsNominal
<1>12. RowsBelow'
  <2>1. led'.cohort.start = led'.start /\ led'.through = Through(m)
    BY <1>1, <1>2, ReconcileFacts DEF IInv
  <2>2. Through(m) \in Nat /\ m + Horizon <= Through(m)
    BY <1>1, ReconcileFacts DEF IInv
  <2>3. ASSUME NEW x \in Inserted(m) PROVE x.at < Through(m)
    BY <1>1, <1>5, <2>2, ScheduleLedgerAssumption
  <2>4. ASSUME NEW x \in Kept(m) PROVE x.at < Through(m)
    <3>1. x \in rows /\ x.at \in Nat
      BY <1>4 DEF IInv, TypeOK, Row
    <3>2. led # None /\ x.at < led.through /\ led.through \in Nat
      BY <3>1 DEF IInv, RowsBelow, TypeOK, State
    <3>3. CASE NewCohort(m)
      BY <1>1, <2>2, <3>1, <3>3, ReconcileFacts, ScheduleLedgerAssumption DEF IInv
    <3>4. CASE ~NewCohort(m)
      <4>1. led.through <= Through(m)
        BY <1>1, <3>2, <3>4, ReconcileFacts DEF IInv
      <4> QED BY <2>2, <3>1, <3>2, <4>1
    <3> QED BY <3>3, <3>4
  <2>5. \A x \in rows' : x.at < led'.through
    BY <1>2, <2>1, <2>3, <2>4
  <2> QED BY <1>3, <2>1, <2>5 DEF RowsBelow
<1>13. MomentsRecent'
  BY <1>2 DEF IInv, TypeOK, MomentsRecent
<1> QED BY <1>10, <1>11, <1>12, <1>13

(* What an older coverage has beyond its end was taken away, and what a    *)
(* reconcile finds behind the end it adds itself, with its cohort.         *)
LEMMA MaterializeCovers ==
  ASSUME IInv, NEW p \in Procs, Materialize(p)
  PROVE  CoverageComplete'
<1> DEFINE m == moment[p]
<1>1. m \in Nat
  BY DEF IInv, TypeOK, Materialize
<1>2. /\ rows' = Kept(m) \cup Inserted(m)
      /\ led' = [start |-> Start(m), through |-> Through(m),
                 cohort |-> CohortFrom(Start(m))]
  BY DEF Materialize
<1> HIDE DEF m
<1>3. /\ led'.start = Start(m) /\ led'.through = Through(m)
      /\ led'.cohort = CohortFrom(Start(m))
      /\ Start(m) \in Nat /\ Through(m) \in Nat /\ m + Horizon \in Nat
  BY <1>1, <1>2, ReconcileFacts, ScheduleLedgerAssumption DEF IInv
<1>4. ASSUME NEW n \in Nominal, Start(m) < n.at, n.at < Through(m)
      PROVE  \E x \in rows' : /\ x.spec = n.spec /\ x.at = n.at /\ x.source = n.source
                              /\ x.cohort = CohortFrom(Start(m))
  <2>1. n.at \in Nat
    BY NominalFacts
  <2>2. ASSUME m <= n.at, n.at < m + Horizon, \A x \in Kept(m) : x.at # n.at
        PROVE  \E x \in rows' : /\ x.spec = n.spec /\ x.at = n.at /\ x.source = n.source
                                /\ x.cohort = CohortFrom(Start(m))
    <3>1. Free(m, n)
      BY <2>2 DEF Free
    <3> QED BY <1>1, <1>2, <2>2, <3>1, InsertedFacts
  <2>3. \A x \in rows : x.at \in Nat
    BY DEF IInv, TypeOK, Row
  <2>4. CASE led = None \/ NewCohort(m)
    <3>1. Start(m) = m /\ Through(m) = m + Horizon
      BY <1>1, <2>4, ReconcileFacts DEF IInv
    <3>2. \A x \in Kept(m) : x.at <= m /\ x.at \in Nat
      BY <1>1, <2>3, <2>4, ReconcileFacts DEF IInv
    <3> QED BY <1>1, <1>4, <2>1, <2>2, <3>1, <3>2
  <2>5. CASE led # None /\ ~NewCohort(m)
    <3>1. /\ Start(m) = led.start /\ led.cohort = CohortFrom(Start(m))
          /\ led.through <= Through(m) /\ Kept(m) = rows
          /\ m + Horizon >= Through(m) \/ led.through = Through(m)
          /\ led.through \in Nat
      BY <1>1, <2>5, ReconcileFacts DEF IInv, TypeOK, State
    <3>2. CASE n.at < led.through
      BY <1>2, <1>4, <2>5, <3>1, <3>2 DEF IInv, CoverageComplete
    <3>3. CASE led.through <= n.at
      <4>1. n.at < m + Horizon
        BY <1>1, <1>3, <1>4, <2>1, <3>1, <3>3
      <4>2. m <= n.at
        <5>1. CASE Gap(m)
          BY <1>1, <1>4, <2>1, <2>5, <3>1, <5>1 DEF Start
        <5>2. CASE ~Gap(m)
          BY <1>1, <2>1, <3>1, <3>3, <5>2 DEF Gap
        <5> QED BY <5>1, <5>2
      <4>3. \A x \in Kept(m) : x.at # n.at
        BY <2>1, <2>3, <2>5, <3>1, <3>3 DEF IInv, RowsBelow
      <4> QED BY <2>2, <4>1, <4>2, <4>3
    <3> QED BY <2>1, <3>1, <3>2, <3>3
  <2> QED BY <2>4, <2>5
<1> QED BY <1>3, <1>4 DEF CoverageComplete

(* A claimed occurrence was due, so it lies in the horizon of a reconcile  *)
(* that takes its row away.                                                *)
LEMMA MaterializeKeepsClaims ==
  ASSUME IInv, NEW p \in Procs, Materialize(p), RowsNominal'
  PROVE  ClaimsKeepRows'
<1> DEFINE m == moment[p]
<1>1. m \in Nat /\ now \in Nat /\ now <= m + MaxWait
  BY DEF IInv, TypeOK, Materialize, MomentsRecent
<1>2. rows' = Kept(m) \cup Inserted(m) /\ claims' = claims
  BY DEF Materialize
<1> HIDE DEF m
<1>3. ASSUME NEW c \in claims, NEW source \in c.spec.sources
      PROVE  \E x \in rows' : x.spec = c.spec /\ x.at = c.at /\ x.source = source
  <2>1. PICK x \in rows : x.spec = c.spec /\ x.at = c.at /\ x.source = source
    BY DEF IInv, ClaimsKeepRows, SourcesAt
  <2>2. /\ c.spec \in Specs /\ c.at \in Nat /\ c.at <= now
        /\ c.at \in c.spec.times
    BY <2>1 DEF IInv, TypeOK, ClaimsPast, RowsNominal
  <2>3. CASE x.at <= m
    BY <1>1, <1>2, <2>1, <2>3, ReconcileFacts DEF IInv
  <2>4. CASE m < c.at
    <3>1. PICK n \in Nominal : n.spec = c.spec /\ n.at = c.at /\ n.source = source
      BY <2>2, NominalFacts
    <3>2. m <= n.at /\ n.at < m + Horizon
      BY <1>1, <2>2, <2>4, <3>1, ScheduleLedgerAssumption
    <3>3. CASE Free(m, n)
      BY <1>1, <1>2, <3>1, <3>2, <3>3, InsertedFacts
    <3>4. CASE ~Free(m, n)
      BY <1>2, <3>1, <3>4 DEF Free
    <3> QED BY <3>3, <3>4
  <2> QED BY <1>1, <2>1, <2>2, <2>3, <2>4
<1>4. ASSUME NEW c \in claims PROVE SourcesAt(c.spec, c.at)' = c.spec.sources
  <2>1. \A x \in rows' : x.spec = c.spec => x.source \in c.spec.sources
    BY DEF RowsNominal
  <2> QED BY <1>3, <2>1 DEF SourcesAt
<1> QED BY <1>2, <1>4 DEF ClaimsKeepRows

LEMMA ClaimStep ==
  ASSUME IInv, NEW s \in Specs, Claim(s)
  PROVE  IInv'
<1>0. PICK m \in 0..now : \E x \in Due(s, m) :
        /\ SourcesAt(s, x.at) = s.sources
        /\ claims' = claims \cup {[spec |-> s, at |-> x.at]}
        /\ UNCHANGED <<now, enabled, earlyUntil, changes, led, rows, moment>>
  BY DEF Claim
<1>1. PICK x \in Due(s, m) :
        /\ SourcesAt(s, x.at) = s.sources
        /\ claims' = claims \cup {[spec |-> s, at |-> x.at]}
        /\ UNCHANGED <<now, enabled, earlyUntil, changes, led, rows, moment>>
  BY <1>0
<1>2. x.at \in Nat /\ x.at <= now
  BY DEF IInv, TypeOK, Row, Due
<1> DEFINE c == [spec |-> s, at |-> x.at]
<1>3. c \in [spec : Specs, at : Nat] /\ c.spec = s /\ c.at = x.at
  BY <1>2
<1> HIDE DEF c
<1>4. claims' = claims \cup {c}
  BY <1>1 DEF c
<1>5. TypeOK'
  BY <1>1, <1>3, <1>4 DEF IInv, TypeOK
<1>6. ClaimsPast'
  BY <1>1, <1>2, <1>3, <1>4 DEF IInv, ClaimsPast
<1>7. ClaimsKeepRows'
  BY <1>1, <1>3, <1>4 DEF IInv, ClaimsKeepRows, SourcesAt
<1>8. RowsNominal' /\ RowsBelow' /\ MomentsRecent' /\ CoverageComplete'
  BY <1>1 DEF IInv, RowsNominal, RowsBelow, MomentsRecent, CoverageComplete
<1> QED BY <1>5, <1>6, <1>7, <1>8 DEF IInv

(* The steps that leave the table alone.                                   *)
LEMMA TableKept ==
  ASSUME IInv, UNCHANGED <<led, rows, claims>>, now' \in Nat, now <= now'
  PROVE  /\ RowsNominal' /\ RowsBelow' /\ ClaimsPast'
         /\ CoverageComplete' /\ ClaimsKeepRows'
<1>1. ClaimsPast'
  BY DEF IInv, TypeOK, ClaimsPast
<1> QED BY <1>1 DEF IInv, RowsNominal, RowsBelow, CoverageComplete,
                    ClaimsKeepRows, SourcesAt

LEMMA OtherSteps ==
  ASSUME IInv,
         \/ \E p \in Procs : Begin(p) \/ Abandon(p)
         \/ \E source \in Sources : Switch(source)
         \/ \E until \in 0..(MaxTime + 1) : SetPolicy(until)
         \/ Tick
         \/ UNCHANGED vars
  PROVE  IInv'
<1>1. UNCHANGED <<led, rows, claims>> /\ now' \in Nat /\ now <= now'
  BY DEF IInv, TypeOK, Begin, Abandon, Switch, SetPolicy, Tick, vars
<1>2. /\ RowsNominal' /\ RowsBelow' /\ ClaimsPast'
      /\ CoverageComplete' /\ ClaimsKeepRows'
  BY <1>1, TableKept
<1>3. ASSUME enabled' \in SUBSET Sources, earlyUntil' \in Nat, changes' \in Nat,
             moment' \in [Procs -> Nat \cup {None}]
      PROVE  TypeOK'
  BY <1>1, <1>3 DEF IInv, TypeOK
<1>4. ASSUME NEW p \in Procs, Begin(p) \/ Abandon(p) PROVE TypeOK' /\ MomentsRecent'
  <2>1. CASE Begin(p)
    BY <1>3, <2>1, ScheduleLedgerAssumption DEF IInv, TypeOK, MomentsRecent, Begin
  <2>2. CASE Abandon(p)
    BY <1>3, <2>2 DEF IInv, TypeOK, MomentsRecent, Abandon
  <2> QED BY <1>4, <2>1, <2>2
<1>5. ASSUME NEW source \in Sources, Switch(source) PROVE TypeOK' /\ MomentsRecent'
  BY <1>3, <1>5 DEF IInv, TypeOK, MomentsRecent, Switch
<1>6. ASSUME NEW until \in 0..(MaxTime + 1), SetPolicy(until)
      PROVE TypeOK' /\ MomentsRecent'
  BY <1>3, <1>6, ScheduleLedgerAssumption DEF IInv, TypeOK, MomentsRecent, SetPolicy
<1>7. CASE Tick
  <2>1. \A p \in Procs : moment[p] # None => moment[p] \in Nat
    BY DEF IInv, TypeOK
  <2> QED BY <1>2, <1>3, <1>7, <2>1, ScheduleLedgerAssumption
         DEF IInv, TypeOK, MomentsRecent, Tick
<1>8. CASE UNCHANGED vars
  BY <1>2, <1>3, <1>8 DEF IInv, TypeOK, MomentsRecent, vars
<1> QED BY <1>2, <1>4, <1>5, <1>6, <1>7, <1>8 DEF IInv

LEMMA InitLemma == Init => IInv
<1> SUFFICES ASSUME Init PROVE IInv
  OBVIOUS
<1>1. TypeOK
  BY ScheduleLedgerAssumption DEF Init, TypeOK
<1>2. RowsNominal /\ RowsBelow /\ MomentsRecent /\ ClaimsPast
  BY DEF Init, RowsNominal, RowsBelow, MomentsRecent, ClaimsPast
<1>3. CoverageComplete /\ ClaimsKeepRows
  BY DEF Init, CoverageComplete, ClaimsKeepRows
<1> QED BY <1>1, <1>2, <1>3 DEF IInv

LEMMA NextLemma == IInv /\ [Next]_vars => IInv'
<1> SUFFICES ASSUME IInv, [Next]_vars PROVE IInv'
  OBVIOUS
<1>1. ASSUME NEW p \in Procs, Materialize(p) PROVE IInv'
  <2>1. TypeOK' /\ RowsNominal' /\ RowsBelow' /\ MomentsRecent'
    BY <1>1, MaterializeTypes
  <2>2. CoverageComplete' /\ ClaimsKeepRows'
    BY <1>1, <2>1, MaterializeCovers, MaterializeKeepsClaims
  <2>3. ClaimsPast'
    BY <1>1 DEF IInv, ClaimsPast, Materialize
  <2> QED BY <2>1, <2>2, <2>3 DEF IInv
<1> QED BY <1>1, ClaimStep, OtherSteps DEF Next

(* The inductive invariant of the ledger.                                  *)
THEOREM Invariance == Spec => []IInv
BY InitLemma, NextLemma, PTL DEF Spec

(* Types, and one row for each source of an occurrence.                    *)
THEOREM TypeCorrect == Spec => []TypeOK
<1>1. IInv => TypeOK
  BY DEF IInv
<1> QED BY <1>1, Invariance, PTL

(* Whatever reconciles pass each other, and whatever changes in between:   *)
(* no slot of the coverage is without a row of the current cohort.         *)
THEOREM CoverageIsComplete == Spec => []CoverageComplete
<1>1. IInv => CoverageComplete
  BY DEF IInv
<1> QED BY <1>1, Invariance, PTL

(* A reconcile that a claim has overtaken leaves a row for each of the     *)
(* sources of the occurrence.                                              *)
THEOREM ClaimedRowsStay == Spec => []ClaimsKeepRows
<1>1. IInv => ClaimsKeepRows
  BY DEF IInv
<1> QED BY <1>1, Invariance, PTL

(* A row that was due when the oldest of the running reconciles began is   *)
(* never changed.                                                          *)
THEOREM DueRowsStay == Spec => OldRowsStay
<1>1. ASSUME IInv, [Next]_vars
      PROVE  [\A x \in rows :
       (\A p \in Procs : moment[p] # None => x.at <= moment[p]) /\ x.at <= now
         => x \in rows']_vars
  <2>1. ASSUME NEW p \in Procs, Materialize(p), NEW x \in rows,
               \A q \in Procs : moment[q] # None => x.at <= moment[q]
        PROVE  x \in rows'
    <3>1. moment[p] \in Nat /\ x.at <= moment[p]
      BY <1>1, <2>1 DEF IInv, TypeOK, Materialize
    <3>2. x \in Kept(moment[p])
      BY <1>1, <3>1, ReconcileFacts DEF IInv
    <3> QED BY <2>1, <3>2 DEF Materialize
  <2>2. ASSUME \/ \E p \in Procs : Begin(p) \/ Abandon(p)
               \/ \E s \in Specs : Claim(s)
               \/ \E source \in Sources : Switch(source)
               \/ \E until \in 0..(MaxTime + 1) : SetPolicy(until)
               \/ Tick
               \/ UNCHANGED vars
        PROVE  rows' = rows
    BY <2>2 DEF Begin, Abandon, Claim, Switch, SetPolicy, Tick, vars
  <2> QED BY <1>1, <2>1, <2>2 DEF Next
<1> QED BY <1>1, Invariance, PTL DEF Spec, OldRowsStay
=============================================================================
