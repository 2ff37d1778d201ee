-------------------------- MODULE PaidRequestsProofs --------------------------
(***************************************************************************)
(* Theorems about PaidRequests, for any limit, threshold, cooldown, time   *)
(* to live and length of a month, and any finite set of requests: typing,  *)
(* the cap on the requests reserved in a month and on all charges, that    *)
(* the ledger covers what is charged, that only expiry takes a reservation *)
(* away, and that no burst meets a failing provider.  The argument: what   *)
(* may still be charged for is either reserved or billed, counted in the   *)
(* month in which it was reserved, and billed and reserved together never  *)
(* exceed the limit.                                                       *)
(***************************************************************************)
EXTENDS PaidRequests, FiniteSetTheorems, TLAPS

(* The requests of each month that are charged, or may be: those reserved  *)
(* and not yet sent.                                                       *)
Charged == [p \in Nat |->
              {r \in Requests : /\ req[r].cost \/ req[r].pc = "reserved"
                                /\ PeriodOf(req[r].at) = p}]

(* What f has of the months before p.                                      *)
Before(f, p) == UNION {f[q] : q \in {q \in Nat : q < p}}

(* What ledger l may say when f[p] is charged for the requests reserved in *)
(* month p.                                                                *)
Covers(l, f) ==
  /\ l.billed + Cardinality(l.res) <= Limit
  /\ Cardinality(f[l.period] \ l.res) <= l.billed
  /\ \A p \in Nat : p < l.period => Cardinality(f[p]) <= Limit
  /\ \A p \in Nat : p > l.period => f[p] = {}
  /\ Cardinality(Before(f, l.period)) <= Limit * l.period

Calm(l) == IF l.failures >= Threshold THEN Cardinality(l.res) <= 1
           ELSE l.failures + Cardinality(l.res) <= Threshold

Expiring(l) ==
  \A r \in Requests :
    req[r].pc \in {"reserved", "sent", "finishing"} /\ r \notin l.res
      => req[r].at + Ttl <= now

RequestsOK ==
  \A r \in Requests :
    /\ req[r].moment <= now
    /\ req[r].pc \in {"sent", "finishing"} /\ req[r].known = "unbilled"
         => ~req[r].cost

IInv == /\ TypeOK /\ RequestsOK
        /\ Covers(ledger, Charged) /\ Calm(ledger) /\ Expiring(ledger)

-----------------------------------------------------------------------------
LEMMA PeriodType == \A t \in Nat : PeriodOf(t) \in Nat
BY PaidRequestsAssumption DEF PeriodOf

LEMMA Finite ==
  ASSUME NEW S \in SUBSET Requests
  PROVE  /\ IsFiniteSet(S) /\ Cardinality(S) \in Nat
         /\ \A T \in SUBSET S : Cardinality(T) <= Cardinality(S)
BY PaidRequestsAssumption, FS_Subset, FS_CardinalityType

(* What is taken out of a set and added to another.                        *)
LEMMA Parts ==
  ASSUME NEW S \in SUBSET Requests, NEW E \in SUBSET S, NEW T \in SUBSET Requests
  PROVE  /\ Cardinality(S \ E) = Cardinality(S) - Cardinality(E)
         /\ Cardinality(T \ (S \ E)) <= Cardinality(T \ S) + Cardinality(E)
         /\ Cardinality(T) <= Cardinality(T \ S) + Cardinality(S)
<1>1. /\ IsFiniteSet(S) /\ IsFiniteSet(E) /\ IsFiniteSet(T)
      /\ IsFiniteSet(T \ S) /\ IsFiniteSet(T \ (S \ E))
  BY Finite
<1>2. Cardinality(S \ E) = Cardinality(S) - Cardinality(E)
  <2>1. S \cap E = E
    OBVIOUS
  <2> QED BY <1>1, <2>1, FS_Difference
<1>3. ASSUME NEW A \in SUBSET Requests, NEW B \in SUBSET Requests,
             NEW C \in SUBSET (A \cup B)
      PROVE  Cardinality(C) <= Cardinality(A) + Cardinality(B)
  <2>1. IsFiniteSet(A) /\ IsFiniteSet(B) /\ A \cup B \in SUBSET Requests
    BY Finite
  <2>2. /\ Cardinality(A \cup B)
             = Cardinality(A) + Cardinality(B) - Cardinality(A \cap B)
        /\ Cardinality(A \cap B) \in Nat /\ Cardinality(A) \in Nat
        /\ Cardinality(B) \in Nat /\ Cardinality(A \cup B) \in Nat
    BY <2>1, FS_Union, FS_Subset, FS_CardinalityType
  <2>3. Cardinality(C) <= Cardinality(A \cup B) /\ Cardinality(C) \in Nat
    BY <2>1, Finite
  <2> QED BY <2>2, <2>3
<1>4. Cardinality(T \ (S \ E)) <= Cardinality(T \ S) + Cardinality(E)
  <2>1. T \ (S \ E) \in SUBSET ((T \ S) \cup E)
    OBVIOUS
  <2> QED BY <1>3, <2>1
<1>5. Cardinality(T) <= Cardinality(T \ S) + Cardinality(S)
  <2>1. T \in SUBSET ((T \ S) \cup S)
    OBVIOUS
  <2> QED BY <1>3, <2>1
<1> QED BY <1>2, <1>4, <1>5

LEMMA LedgerFields ==
  ASSUME NEW l \in Ledger
  PROVE  /\ l.period \in Nat /\ l.billed \in Nat /\ l.failures \in Nat
         /\ l.open \in Nat /\ l.res \in SUBSET Requests
         /\ Cardinality(l.res) \in Nat
BY Finite DEF Ledger

LEMMA TrippedType ==
  ASSUME NEW n \in Nat, NEW m \in Nat, NEW open \in Nat
  PROVE  Tripped(n, m, open) \in Nat
BY PaidRequestsAssumption DEF Tripped

LEMMA ChargedType == Charged \in [Nat -> SUBSET Requests]
BY DEF Charged

LEMMA BeforeType ==
  ASSUME NEW f \in [Nat -> SUBSET Requests], NEW p \in Nat
  PROVE  /\ Before(f, p) \in SUBSET Requests
         /\ Cardinality(Before(f, p)) \in Nat
<1>1. Before(f, p) \in SUBSET Requests
  BY DEF Before
<1> QED BY <1>1, Finite

LEMMA BeforeLess ==
  ASSUME NEW f \in [Nat -> SUBSET Requests], NEW g \in [Nat -> SUBSET Requests],
         NEW p \in Nat, \A q \in Nat : q < p => g[q] \subseteq f[q],
         Cardinality(Before(f, p)) <= Limit * p
  PROVE  Cardinality(Before(g, p)) <= Limit * p
<1>1. Before(g, p) \in SUBSET Before(f, p)
  BY DEF Before
<1>2. /\ Cardinality(Before(g, p)) <= Cardinality(Before(f, p))
      /\ Cardinality(Before(g, p)) \in Nat /\ Cardinality(Before(f, p)) \in Nat
  BY <1>1, BeforeType, Finite
<1>3. Limit * p \in Nat
  BY PaidRequestsAssumption
<1> QED BY <1>2, <1>3

(* The months up to another one, when none after the first has charges.    *)
LEMMA BeforeLater ==
  ASSUME NEW f \in [Nat -> SUBSET Requests], NEW p \in Nat, NEW q \in Nat, p < q,
         \A i \in Nat : i > p => f[i] = {},
         Cardinality(Before(f, p)) <= Limit * p, Cardinality(f[p]) <= Limit
  PROVE  Cardinality(Before(f, q)) <= Limit * q
<1> DEFINE A == Before(f, p)
           B == Before(f, q)
<1>1. B \subseteq A \cup f[p]
  <2> SUFFICES ASSUME NEW x \in B PROVE x \in A \cup f[p]
    OBVIOUS
  <2>1. PICK i \in Nat : x \in f[i]
    BY DEF Before
  <2>2. i <= p
    BY <2>1
  <2>3. i < p \/ i = p
    BY <2>2
  <2> QED BY <2>1, <2>3 DEF Before
<1>2. /\ A \in SUBSET Requests /\ B \in SUBSET Requests /\ f[p] \in SUBSET Requests
      /\ Cardinality(A) \in Nat /\ Cardinality(B) \in Nat /\ Cardinality(f[p]) \in Nat
  BY BeforeType, Finite
<1> HIDE DEF A, B
<1>3. Cardinality(B) <= Cardinality(B \ A) + Cardinality(A)
  BY <1>2, Parts
<1>4. Cardinality(B \ A) <= Cardinality(f[p]) /\ Cardinality(B \ A) \in Nat
  <2>1. B \ A \in SUBSET f[p] /\ B \ A \in SUBSET Requests
    BY <1>1, <1>2
  <2> QED BY <1>2, <2>1, Finite
<1>5. Limit * p + Limit <= Limit * q /\ Limit * p \in Nat /\ Limit * q \in Nat
  <2>1. Limit \in Nat /\ q - (p + 1) \in Nat
    BY PaidRequestsAssumption
  <2>2. PICK d \in Nat : q = p + 1 + d
    BY <2>1
  <2>3. Limit * q = Limit * p + Limit + Limit * d /\ Limit * d \in Nat
    BY <2>1, <2>2
  <2> QED BY <2>1, <2>3
<1>6. Cardinality(A) <= Limit * p
  BY DEF A
<1> QED BY <1>2, <1>3, <1>4, <1>5, <1>6, PaidRequestsAssumption DEF B

(* When the ledger covers one table of charges, it covers a smaller one.   *)
LEMMA CoversLess ==
  ASSUME NEW l \in Ledger, NEW f \in [Nat -> SUBSET Requests],
         NEW g \in [Nat -> SUBSET Requests], Covers(l, f),
         \A p \in Nat : g[p] \subseteq f[p]
  PROVE  Covers(l, g)
<1>1. \A p \in Nat : /\ Cardinality(g[p]) <= Cardinality(f[p])
                     /\ Cardinality(g[p]) \in Nat /\ Cardinality(f[p]) \in Nat
  BY Finite
<1>2. /\ g[l.period] \ l.res \in SUBSET (f[l.period] \ l.res)
      /\ f[l.period] \ l.res \in SUBSET Requests
  BY LedgerFields
<1>3. /\ Cardinality(g[l.period] \ l.res) <= Cardinality(f[l.period] \ l.res)
      /\ Cardinality(g[l.period] \ l.res) \in Nat
      /\ Cardinality(f[l.period] \ l.res) \in Nat
  <2>1. g[l.period] \ l.res \in SUBSET Requests
    BY <1>2
  <2> QED BY <1>2, <2>1, Finite
<1>4. Cardinality(g[l.period] \ l.res) <= l.billed
  BY <1>3, LedgerFields DEF Covers
<1>5. \A p \in Nat : p < l.period => Cardinality(g[p]) <= Limit
  BY <1>1, PaidRequestsAssumption DEF Covers
<1>6. Cardinality(Before(g, l.period)) <= Limit * l.period
  BY BeforeLess, LedgerFields DEF Covers
<1> QED BY <1>4, <1>5, <1>6 DEF Covers

(* No more than the limit is charged for the requests of the ledger's      *)
(* month.                                                                  *)
LEMMA CoveredMonth ==
  ASSUME NEW l \in Ledger, NEW f \in [Nat -> SUBSET Requests], Covers(l, f)
  PROVE  Cardinality(f[l.period]) <= Limit
<1> DEFINE F == f[l.period]
<1>1. /\ F \in SUBSET Requests /\ F \ l.res \in SUBSET Requests
      /\ Cardinality(F) <= Cardinality(F \ l.res) + Cardinality(l.res)
  BY Parts, LedgerFields
<1>2. /\ Cardinality(F) \in Nat /\ Cardinality(F \ l.res) \in Nat
      /\ Cardinality(F \ l.res) <= l.billed
  BY <1>1, Finite DEF Covers
<1> QED BY <1>1, <1>2, LedgerFields, PaidRequestsAssumption DEF Covers

LEMMA RolledOverFacts ==
  ASSUME NEW l \in Ledger, NEW m \in Nat, NEW f \in [Nat -> SUBSET Requests],
         Covers(l, f), Calm(l), Expiring(l), l.period <= PeriodOf(m)
  PROVE  LET k == RolledOver(l, m) IN
         /\ k \in Ledger /\ k.period = PeriodOf(m) /\ k.res = l.res
         /\ Covers(k, f) /\ Calm(k) /\ Expiring(k)
<1> DEFINE k == RolledOver(l, m)
<1>0. PeriodOf(m) \in Nat
  BY PeriodType
<1>1. CASE ~(l.period < PeriodOf(m))
  BY <1>0, <1>1, LedgerFields DEF RolledOver
<1>2. CASE l.period < PeriodOf(m)
  <2>1. k = [l EXCEPT !.period = PeriodOf(m), !.billed = 0]
    BY <1>2 DEF RolledOver
  <2>2. /\ k \in Ledger /\ k.period = PeriodOf(m) /\ k.res = l.res
        /\ k.billed = 0 /\ k.failures = l.failures
    BY <1>0, <2>1 DEF Ledger
  <2> HIDE DEF k
  <2>3. Calm(k) /\ Expiring(k)
    BY <2>2 DEF Calm, Expiring
  <2>4. f[PeriodOf(m)] = {}
    BY <1>0, <1>2 DEF Covers
  <2>5. k.billed + Cardinality(k.res) <= Limit
    BY <2>2, LedgerFields, PaidRequestsAssumption DEF Covers
  <2>6. Cardinality(f[k.period] \ k.res) <= k.billed
    BY <2>2, <2>4, FS_EmptySet
  <2>10. Cardinality(f[l.period]) <= Limit
    BY CoveredMonth
  <2>7. ASSUME NEW p \in Nat, p < k.period PROVE Cardinality(f[p]) <= Limit
    <3>1. CASE p < l.period
      BY <3>1 DEF Covers
    <3>2. CASE p = l.period
      BY <2>10, <3>2
    <3>3. CASE p > l.period
      <4>1. f[p] = {}
        BY <3>3 DEF Covers
      <4> QED BY <4>1, FS_EmptySet, PaidRequestsAssumption
    <3> QED BY <3>1, <3>2, <3>3, LedgerFields
  <2>8. \A p \in Nat : p > k.period => f[p] = {}
    BY <1>0, <1>2, <2>2, LedgerFields DEF Covers
  <2>11. Cardinality(Before(f, k.period)) <= Limit * k.period
    BY <1>0, <1>2, <2>2, <2>10, BeforeLater, LedgerFields DEF Covers
  <2>9. Covers(k, f)
    BY <2>5, <2>6, <2>7, <2>8, <2>11 DEF Covers
  <2> QED BY <2>2, <2>3, <2>9 DEF k
<1> QED BY <1>1, <1>2

LEMMA SweptFacts ==
  ASSUME TypeOK, NEW l \in Ledger, NEW m \in Nat, m <= now,
         NEW f \in [Nat -> SUBSET Requests],
         Covers(l, f), Calm(l), Expiring(l)
  PROVE  LET k == Swept(l, m) IN
         /\ k \in Ledger /\ k.period = l.period /\ k.res \subseteq l.res
         /\ l.res \ k.res \subseteq Expired(l, m)
         /\ Covers(k, f) /\ Calm(k) /\ Expiring(k)
<1> DEFINE k == Swept(l, m)
           E == Expired(l, m)
           n == Cardinality(E)
<1>0. /\ E \in SUBSET l.res /\ E \in SUBSET Requests /\ n \in Nat
      /\ \A r \in E : req[r].at + Ttl <= m
  BY LedgerFields, Finite DEF Expired
<1> HIDE DEF E
<1>1. CASE n = 0
  BY <1>1 DEF Swept, E
<1>2. CASE n # 0
  <2>1. k = [l EXCEPT !.res = l.res \ E, !.billed = l.billed + n,
                      !.failures = l.failures + n,
                      !.open = Tripped(l.failures + n, m, l.open)]
    BY <1>2 DEF Swept, E
  <2> HIDE DEF n, k
  <2>0. /\ l.billed + n \in Nat /\ l.failures + n \in Nat
        /\ l.res \ E \in SUBSET Requests
    BY <1>0, LedgerFields
  <2>2. Tripped(l.failures + n, m, l.open) \in Nat
    BY <2>0, LedgerFields, TrippedType
  <2>3. /\ k \in Ledger /\ k.period = l.period /\ k.res = l.res \ E
        /\ k.billed = l.billed + n /\ k.failures = l.failures + n
    BY <2>0, <2>1, <2>2 DEF Ledger
  <2>4. /\ Cardinality(k.res) = Cardinality(l.res) - n
        /\ Cardinality(f[l.period] \ k.res) <= Cardinality(f[l.period] \ l.res) + n
    BY <1>0, <2>3, Parts, LedgerFields DEF n
  <2>5. /\ Cardinality(f[l.period] \ k.res) \in Nat
        /\ Cardinality(f[l.period] \ l.res) \in Nat
        /\ Cardinality(k.res) \in Nat /\ Cardinality(l.res) \in Nat
    BY <2>3, Finite, LedgerFields
  <2>6. Covers(k, f)
    BY <1>0, <2>3, <2>4, <2>5, LedgerFields, PaidRequestsAssumption DEF Covers
  <2>7. Calm(k)
    BY <1>0, <1>2, <2>3, <2>4, <2>5, LedgerFields, PaidRequestsAssumption DEF Calm
  <2>8. ASSUME NEW r \in Requests, req[r].pc \in {"reserved", "sent", "finishing"},
               r \notin k.res
        PROVE  req[r].at + Ttl <= now
    <3>1. CASE r \notin l.res
      BY <2>8, <3>1 DEF Expiring
    <3>2. CASE r \in E
      <4>1. req[r].at \in Nat /\ now \in Nat
        BY DEF TypeOK, Request
      <4> QED BY <1>0, <3>2, <4>1, PaidRequestsAssumption
    <3> QED BY <2>3, <2>8, <3>1, <3>2
  <2> QED BY <2>3, <2>6, <2>7, <2>8 DEF Expiring, k, E
<1> QED BY <1>1, <1>2

LEMMA ClosingFacts ==
  ASSUME NEW l \in Ledger
  PROVE  /\ Closing(l) \in Ledger /\ Closing(l).period = l.period
         /\ Closing(l).res = l.res /\ Closing(l).billed = l.billed
         /\ Closing(l).failures = l.failures
BY DEF Closing, Ledger

-----------------------------------------------------------------------------
LEMMA RequestFields ==
  ASSUME TypeOK, NEW r \in Requests
  PROVE  /\ req[r] \in Request /\ req[r].moment \in Nat /\ req[r].at \in Nat
         /\ req[r].known \in Outcomes
         /\ req[r].ok \in BOOLEAN /\ req[r].cost \in BOOLEAN
         /\ now \in Nat /\ kills \in Nat /\ ledger \in Ledger
BY DEF TypeOK, Request

LEMMA ChargedLess ==
  ASSUME \A q \in Requests :
           /\ req'[q].at = req[q].at
           /\ req'[q].cost \/ req'[q].pc = "reserved"
                => req[q].cost \/ req[q].pc = "reserved"
  PROVE  \A p \in Nat : Charged'[p] \subseteq Charged[p]
BY DEF Charged

(* What is to be shown of a step that charges for nothing new.             *)
LEMMA SameCharges ==
  ASSUME IInv, ledger' \in Ledger, Covers(ledger', Charged),
         \A q \in Requests :
           /\ req'[q].at = req[q].at
           /\ req'[q].cost \/ req'[q].pc = "reserved"
                => req[q].cost \/ req[q].pc = "reserved"
  PROVE  Covers(ledger, Charged)'
<1>1. \A p \in Nat : Charged'[p] \subseteq Charged[p]
  BY ChargedLess
<1>2. Charged' \in [Nat -> SUBSET Requests]
  BY DEF Charged
<1>3. Covers(ledger', Charged')
  BY <1>1, <1>2, ChargedType, CoversLess
<1> QED BY <1>3 DEF Covers

LEMMA EndedFacts ==
  ASSUME TypeOK, NEW r \in Requests, NEW pc \in {"refused", "done", "dead"},
         Ended(r, pc)
  PROVE  /\ req' \in [Requests -> Request]
         /\ req'[r].pc = pc /\ req'[r].moment = 0 /\ req'[r].at = req[r].at
         /\ req'[r].cost = req[r].cost
         /\ \A q \in Requests : q # r => req'[q] = req[q]
<1> DEFINE e == [req[r] EXCEPT !.pc = pc, !.moment = 0, !.known = "unbilled",
                               !.ok = FALSE]
<1>1. req[r] \in Request
  BY RequestFields
<1>2. /\ e \in Request /\ e.pc = pc /\ e.moment = 0 /\ e.at = req[r].at
      /\ e.cost = req[r].cost
  BY <1>1 DEF Request, Outcomes
<1>3. req' = [req EXCEPT ![r] = e]
  BY DEF Ended, TypeOK
<1> HIDE DEF e
<1> QED BY <1>2, <1>3 DEF TypeOK

(* A request ends, and the ledger is what ledger l has become of it.       *)
LEMMA EndStep ==
  ASSUME IInv, NEW r \in Requests, NEW pc \in {"refused", "done", "dead"},
         Ended(r, pc), ledger' \in Ledger, now' = now, kills' \in Nat,
         Covers(ledger, Charged)', Calm(ledger)',
         \A q \in Requests : q # r /\ q \in ledger.res /\ q \notin ledger'.res
                               => req[q].at + Ttl <= now
  PROVE  IInv'
<1>1. /\ req' \in [Requests -> Request]
      /\ req'[r].pc = pc /\ req'[r].moment = 0
      /\ \A q \in Requests : q # r => req'[q] = req[q]
  BY EndedFacts DEF IInv
<1>2. TypeOK'
  BY <1>1 DEF IInv, TypeOK
<1>3. RequestsOK'
  BY <1>1 DEF IInv, RequestsOK, TypeOK
<1>4. Expiring(ledger)'
  BY <1>1 DEF IInv, Expiring
<1> QED BY <1>2, <1>3, <1>4 DEF IInv

LEMMA EndedCharges ==
  ASSUME IInv, NEW r \in Requests, NEW pc \in {"refused", "done", "dead"},
         Ended(r, pc), ledger' \in Ledger, Covers(ledger', Charged)
  PROVE  Covers(ledger, Charged)'
BY EndedFacts, SameCharges DEF IInv

LEMMA AskStep ==
  ASSUME IInv, NEW r \in Requests, Ask(r) PROVE IInv'
<1> DEFINE e == [req[r] EXCEPT !.pc = "reserving", !.moment = now]
<1>1. /\ req[r].pc = "new" /\ req' = [req EXCEPT ![r] = e]
      /\ UNCHANGED <<ledger, now, kills>>
  BY DEF IInv, TypeOK, Ask
<1>2. /\ e \in Request /\ e.pc = "reserving" /\ e.moment = now /\ e.at = req[r].at
      /\ e.cost = req[r].cost
  BY RequestFields DEF IInv, Request
<1> HIDE DEF e
<1>3. /\ req' \in [Requests -> Request] /\ req'[r] = e
      /\ \A q \in Requests : q # r => req'[q] = req[q]
  BY <1>1, <1>2 DEF IInv, TypeOK
<1>4. TypeOK'
  BY <1>1, <1>3 DEF IInv, TypeOK
<1>5. RequestsOK'
  BY <1>1, <1>2, <1>3, RequestFields DEF IInv, RequestsOK
<1>6. Covers(ledger, Charged)'
  BY <1>1, <1>2, <1>3, SameCharges DEF IInv, TypeOK
<1>7. Calm(ledger)' /\ Expiring(ledger)'
  BY <1>1, <1>2, <1>3 DEF IInv, Calm, Expiring
<1> QED BY <1>4, <1>5, <1>6, <1>7 DEF IInv

LEMMA SendStep ==
  ASSUME IInv, NEW r \in Requests, Send(r) PROVE IInv'
<1>1. PICK known \in Outcomes, ok \in BOOLEAN, cost \in BOOLEAN :
        /\ known = "unbilled" => ~cost
        /\ req' = [req EXCEPT ![r].pc = "sent", ![r].known = known,
                              ![r].ok = ok, ![r].cost = cost]
  BY DEF Send
<1> DEFINE e == [req[r] EXCEPT !.pc = "sent", !.known = known, !.ok = ok,
                               !.cost = cost]
<1>2. req[r].pc = "reserved" /\ UNCHANGED <<ledger, now, kills>>
  BY DEF Send
<1>3. req' = [req EXCEPT ![r] = e]
  BY <1>1 DEF IInv, TypeOK
<1>4. /\ e \in Request /\ e.pc = "sent" /\ e.moment = req[r].moment
      /\ e.at = req[r].at /\ e.known = known /\ e.cost = cost
  BY RequestFields DEF IInv, Request
<1> HIDE DEF e
<1>5. /\ req' \in [Requests -> Request] /\ req'[r] = e
      /\ \A q \in Requests : q # r => req'[q] = req[q]
  BY <1>3, <1>4 DEF IInv, TypeOK
<1>6. TypeOK'
  BY <1>2, <1>5 DEF IInv, TypeOK
<1>7. RequestsOK'
  BY <1>1, <1>2, <1>4, <1>5 DEF IInv, RequestsOK
<1>8. Covers(ledger, Charged)'
  BY <1>2, <1>4, <1>5, SameCharges DEF IInv, TypeOK
<1>9. Calm(ledger)' /\ Expiring(ledger)'
  BY <1>2, <1>4, <1>5 DEF IInv, Calm, Expiring
<1> QED BY <1>6, <1>7, <1>8, <1>9 DEF IInv

LEMMA ReportStep ==
  ASSUME IInv, NEW r \in Requests, Report(r) PROVE IInv'
<1> DEFINE e == [req[r] EXCEPT !.pc = "finishing", !.moment = now]
<1>1. /\ req[r].pc = "sent" /\ req' = [req EXCEPT ![r] = e]
      /\ UNCHANGED <<ledger, now, kills>>
  BY DEF IInv, TypeOK, Report
<1>2. /\ e \in Request /\ e.pc = "finishing" /\ e.moment = now /\ e.at = req[r].at
      /\ e.cost = req[r].cost /\ e.known = req[r].known
  BY RequestFields DEF IInv, Request
<1> HIDE DEF e
<1>3. /\ req' \in [Requests -> Request] /\ req'[r] = e
      /\ \A q \in Requests : q # r => req'[q] = req[q]
  BY <1>1, <1>2 DEF IInv, TypeOK
<1>4. TypeOK'
  BY <1>1, <1>3 DEF IInv, TypeOK
<1>5. RequestsOK'
  BY <1>1, <1>2, <1>3, RequestFields DEF IInv, RequestsOK
<1>6. Covers(ledger, Charged)'
  BY <1>1, <1>2, <1>3, SameCharges DEF IInv, TypeOK
<1>7. Calm(ledger)' /\ Expiring(ledger)'
  BY <1>1, <1>2, <1>3 DEF IInv, Calm, Expiring
<1> QED BY <1>4, <1>5, <1>6, <1>7 DEF IInv

LEMMA KillStep ==
  ASSUME IInv, NEW r \in Requests, Kill(r) \/ Unavailable(r) PROVE IInv'
<1>1. /\ Ended(r, "dead") \/ Ended(r, "done")
      /\ UNCHANGED <<ledger, now>> /\ kills' \in Nat
  BY DEF IInv, TypeOK, Kill, Unavailable
<1>2. ledger' \in Ledger /\ Covers(ledger', Charged) /\ Calm(ledger)'
  BY <1>1 DEF IInv, TypeOK, Calm
<1>3. PICK pc \in {"refused", "done", "dead"} : Ended(r, pc)
  BY <1>1
<1>4. Covers(ledger, Charged)'
  BY <1>2, <1>3, EndedCharges
<1> QED BY <1>1, <1>2, <1>3, <1>4, EndStep

LEMMA ReserveStep ==
  ASSUME IInv, NEW r \in Requests, Reserve(r) PROVE IInv'
<1> DEFINE m == req[r].moment
           k == RolledOver(ledger, m)
           l == Swept(k, m)
           c == Closing(l)
<1>1. /\ m \in Nat /\ m <= now /\ ledger.period <= PeriodOf(m)
      /\ UNCHANGED <<now, kills>> /\ req[r].pc = "reserving"
      /\ ledger \in Ledger /\ Charged \in [Nat -> SUBSET Requests]
      /\ now \in Nat /\ kills \in Nat
  BY RequestFields, ChargedType DEF IInv, RequestsOK, Reserve
<1>2. /\ k \in Ledger /\ k.period = PeriodOf(m) /\ k.res = ledger.res
      /\ Covers(k, Charged) /\ Calm(k) /\ Expiring(k)
  BY <1>1, RolledOverFacts DEF IInv
<1>3. /\ l \in Ledger /\ l.period = PeriodOf(m) /\ l.res \subseteq ledger.res
      /\ ledger.res \ l.res \subseteq Expired(k, m)
      /\ Covers(l, Charged) /\ Calm(l) /\ Expiring(l)
  <2> HIDE DEF k
  <2> QED BY <1>1, <1>2, SweptFacts DEF IInv
<1>4. /\ c \in Ledger /\ c.period = l.period /\ c.res = l.res
      /\ c.billed = l.billed /\ c.failures = l.failures
  BY <1>3, ClosingFacts
<1>5. \/ ledger' = l /\ Ended(r, "refused")
      \/ ledger' = c /\ Ended(r, "refused")
      \/ /\ ~Exhausted(l) /\ Cardinality(l.res) < Capacity(l)
         /\ ledger' = [c EXCEPT !.res = c.res \cup {r}]
         /\ req' = [req EXCEPT ![r].pc = "reserved", ![r].at = m,
                               ![r].moment = 0]
  BY DEF Reserve
<1> HIDE DEF m, k, l, c
<1>6. Covers(c, Charged) /\ Calm(c) /\ Expiring(c)
  BY <1>3, <1>4 DEF Covers, Calm, Expiring
<1>7. CASE ledger' \in {l, c} /\ Ended(r, "refused")
  <2>1. /\ ledger' \in Ledger /\ Covers(ledger', Charged) /\ Calm(ledger)'
        /\ Expiring(ledger')
    BY <1>3, <1>4, <1>6, <1>7 DEF Calm
  <2>2. Covers(ledger, Charged)'
    BY <1>7, <2>1, EndedCharges
  <2>3. \A q \in Requests : q # r /\ q \in ledger.res /\ q \notin ledger'.res
                              => req[q].at + Ttl <= now
    <3>1. ASSUME NEW q \in Requests, q \in ledger.res, q \notin ledger'.res
          PROVE  q \in Expired(k, m)
      BY <1>3, <1>4, <1>7, <3>1
    <3>2. \A q \in Requests : req[q].at \in Nat
      BY RequestFields DEF IInv
    <3> QED BY <1>1, <3>1, <3>2, PaidRequestsAssumption DEF Expired
  <2> QED BY <1>1, <1>7, <2>1, <2>2, <2>3, EndStep
<1>8. CASE /\ ~Exhausted(l) /\ Cardinality(l.res) < Capacity(l)
           /\ ledger' = [c EXCEPT !.res = c.res \cup {r}]
           /\ req' = [req EXCEPT ![r].pc = "reserved", ![r].at = m,
                                 ![r].moment = 0]
  <2> DEFINE e == [req[r] EXCEPT !.pc = "reserved", !.at = m, !.moment = 0]
  <2>1. req' = [req EXCEPT ![r] = e]
    BY <1>8 DEF IInv, TypeOK
  <2>2. e \in Request /\ e.pc = "reserved" /\ e.at = m /\ e.moment = 0
    BY <1>1, RequestFields DEF IInv, Request
  <2> HIDE DEF e
  <2>3. /\ req' \in [Requests -> Request] /\ req'[r] = e
        /\ \A q \in Requests : q # r => req'[q] = req[q]
    BY <2>1, <2>2 DEF IInv, TypeOK
  <2>4. /\ ledger' \in Ledger /\ ledger'.period = PeriodOf(m)
        /\ ledger'.res = l.res \cup {r} /\ ledger'.billed = l.billed
        /\ ledger'.failures = l.failures
    BY <1>3, <1>4, <1>8 DEF Ledger
  <2>5. TypeOK'
    BY <1>1, <2>3, <2>4 DEF IInv, TypeOK
  <2>6. RequestsOK'
    BY <1>1, <2>2, <2>3 DEF IInv, RequestsOK
  <2>7. Expiring(ledger)'
    BY <1>1, <1>3, <2>3, <2>4 DEF Expiring
  <2>8. /\ Cardinality(ledger'.res) <= Cardinality(l.res) + 1
        /\ Cardinality(ledger'.res) \in Nat /\ Cardinality(l.res) \in Nat
        /\ l.billed \in Nat /\ l.failures \in Nat /\ l.period \in Nat
    <3>1. IsFiniteSet(l.res) /\ l.res \in SUBSET Requests
      BY <1>3, LedgerFields, Finite
    <3>2. Cardinality(l.res \cup {r}) \in {Cardinality(l.res), Cardinality(l.res) + 1}
      BY <3>1, FS_AddElement
    <3> QED BY <1>3, <2>4, <3>2, LedgerFields
  <2>9. Calm(ledger)'
    BY <1>8, <2>4, <2>8, PaidRequestsAssumption DEF Calm, Capacity
  <2>10. \A p \in Nat : /\ Charged'[p] \subseteq Charged[p] \cup {r}
                        /\ p # l.period => Charged'[p] \subseteq Charged[p]
    BY <1>3, <2>2, <2>3 DEF Charged
  <2>11. Charged'[l.period] \ ledger'.res \subseteq Charged[l.period] \ l.res
    BY <2>4, <2>8, <2>10
  <2>12. Cardinality(Charged'[l.period] \ ledger'.res) <= l.billed
    <3>1. /\ Charged[l.period] \ l.res \in SUBSET Requests
          /\ Charged'[l.period] \ ledger'.res \in SUBSET Requests
      BY <1>1, <2>8, <2>11
    <3>2. Cardinality(Charged[l.period] \ l.res) <= l.billed
      BY <1>3 DEF Covers
    <3> QED BY <2>8, <2>11, <3>1, <3>2, Finite
  <2>13. ASSUME NEW p \in Nat, p < l.period PROVE Cardinality(Charged'[p]) <= Limit
    <3>1. /\ Charged'[p] \in SUBSET Charged[p] /\ Charged[p] \in SUBSET Requests
          /\ Charged'[p] \in SUBSET Requests
      BY <1>1, <2>8, <2>10, <2>13
    <3>2. Cardinality(Charged[p]) <= Limit
      BY <1>3, <2>13 DEF Covers
    <3> QED BY <3>1, <3>2, Finite, PaidRequestsAssumption
  <2>14. ASSUME NEW p \in Nat, p > l.period PROVE Charged'[p] = {}
    BY <1>3, <2>8, <2>10, <2>14 DEF Covers
  <2>15. l.billed + Cardinality(ledger'.res) <= Limit
    BY <1>8, <2>8, PaidRequestsAssumption DEF Exhausted
  <2>17. Cardinality(Before(Charged', l.period)) <= Limit * l.period
    <3>1. \A p \in Nat : p < l.period => Charged'[p] \subseteq Charged[p]
      BY <2>8, <2>10
    <3>2. Charged' \in [Nat -> SUBSET Requests]
      BY DEF Charged
    <3>3. Cardinality(Before(Charged, l.period)) <= Limit * l.period
      BY <1>3 DEF Covers
    <3> QED BY <2>8, <3>1, <3>2, <3>3, ChargedType, BeforeLess
  <2>16. Covers(ledger, Charged)'
    <3>1. ledger'.period = l.period
      BY <1>3, <2>4
    <3>2. Before(Charged, ledger.period)' = Before(Charged', l.period)
      BY <3>1 DEF Before
    <3> QED BY <1>3, <2>4, <2>12, <2>13, <2>14, <2>15, <2>17, <3>1, <3>2 DEF Covers
  <2> QED BY <2>5, <2>6, <2>7, <2>9, <2>16 DEF IInv
<1> QED BY <1>5, <1>7, <1>8

LEMMA FinishStep ==
  ASSUME IInv, NEW r \in Requests, Finish(r) PROVE IInv'
<1> DEFINE m == req[r].moment
           b == Charge(req[r].known)
           f == IF req[r].ok THEN 0 ELSE ledger.failures + 1
           o == IF req[r].ok THEN 0 ELSE Tripped(ledger.failures + 1, m, ledger.open)
<1>1. /\ req[r].pc = "finishing" /\ r \in ledger.res /\ Ended(r, "done")
      /\ ledger' = [ledger EXCEPT !.res = ledger.res \ {r},
                      !.billed = ledger.billed + b, !.failures = f, !.open = o]
      /\ UNCHANGED <<now, kills>>
  BY DEF Finish
<1>2. /\ ledger \in Ledger /\ ledger.billed \in Nat /\ ledger.failures \in Nat
      /\ ledger.open \in Nat /\ m \in Nat /\ kills \in Nat /\ ledger.period \in Nat
      /\ ledger.res \in SUBSET Requests /\ Cardinality(ledger.res) \in Nat
  BY RequestFields, LedgerFields DEF IInv
<1>3. b \in {0, 1} /\ (b = 0 => req[r].known = "unbilled")
  BY DEF Charge
<1>4. f \in Nat /\ o \in Nat /\ (f = 0 \/ f = ledger.failures + 1)
  <2>1. ledger.failures + 1 \in Nat
    BY <1>2
  <2>2. Tripped(ledger.failures + 1, m, ledger.open) \in Nat
    BY <1>2, <2>1, TrippedType
  <2> QED BY <2>1, <2>2
<1> HIDE DEF m, b, f, o
<1>5. /\ ledger' \in Ledger /\ ledger'.res = ledger.res \ {r}
      /\ ledger'.billed = ledger.billed + b /\ ledger'.failures = f
      /\ ledger'.period = ledger.period
  <2>1. ledger.billed + b \in Nat /\ ledger.res \ {r} \in SUBSET Requests
    BY <1>2, <1>3
  <2> QED BY <1>1, <1>2, <1>4, <2>1 DEF Ledger
<1>6. /\ Cardinality(ledger'.res) = Cardinality(ledger.res) - 1
      /\ Cardinality(ledger'.res) \in Nat
  <2>1. IsFiniteSet(ledger.res)
    BY <1>2, Finite
  <2>2. r \in ledger.res
    BY <1>1
  <2>3. Cardinality(ledger.res \ {r}) = Cardinality(ledger.res) - 1
    BY <2>1, <2>2, FS_RemoveElement
  <2>4. Cardinality(ledger'.res) \in Nat
    BY <1>5, LedgerFields
  <2> QED BY ONLY <1>5, <2>3, <2>4
<1>7. Calm(ledger)'
  BY <1>2, <1>4, <1>5, <1>6, PaidRequestsAssumption DEF IInv, Calm
<1>8. /\ req' \in [Requests -> Request]
      /\ req'[r].pc = "done" /\ req'[r].at = req[r].at /\ req'[r].cost = req[r].cost
      /\ \A q \in Requests : q # r => req'[q] = req[q]
  BY <1>1, EndedFacts DEF IInv
<1>9. /\ \A p \in Nat : Charged'[p] \subseteq Charged[p]
      /\ Charged' \in [Nat -> SUBSET Requests]
      /\ Charged \in [Nat -> SUBSET Requests]
  <2>1. \A p \in Nat : Charged'[p] \subseteq Charged[p]
    BY <1>8, ChargedLess
  <2> QED BY <2>1, ChargedType DEF Charged
<1>10. b = 0 => \A p \in Nat : r \notin Charged'[p]
  <2>1. b = 0 => ~req[r].cost
    BY <1>1, <1>3 DEF IInv, RequestsOK
  <2> QED BY <1>8, <2>1 DEF Charged
<1>11. Cardinality(Charged'[ledger.period] \ ledger'.res) <= ledger.billed + b
  <2> DEFINE C == Charged'[ledger.period]
  <2>0. /\ C \in SUBSET Requests /\ C \ ledger.res \in SUBSET Requests
        /\ Charged[ledger.period] \ ledger.res \in SUBSET Requests
        /\ C \ ledger.res \in SUBSET (Charged[ledger.period] \ ledger.res)
        /\ C \ ledger'.res \in SUBSET Requests
    BY <1>2, <1>9
  <2>1. /\ Cardinality(C \ ledger.res) <= ledger.billed
        /\ Cardinality(C \ ledger.res) \in Nat /\ Cardinality(C \ ledger'.res) \in Nat
    <3>1. Cardinality(Charged[ledger.period] \ ledger.res) <= ledger.billed
      BY DEF IInv, Covers
    <3>2. /\ Cardinality(C \ ledger.res)
               <= Cardinality(Charged[ledger.period] \ ledger.res)
          /\ Cardinality(Charged[ledger.period] \ ledger.res) \in Nat
          /\ Cardinality(C \ ledger.res) \in Nat /\ Cardinality(C \ ledger'.res) \in Nat
      BY <2>0, Finite
    <3> QED BY <1>2, <3>1, <3>2
  <2>2. CASE b = 0
    <3>1. C \ ledger'.res = C \ ledger.res
      BY <1>2, <1>5, <1>10, <2>2
    <3> QED BY <1>2, <2>1, <2>2, <3>1
  <2>3. CASE b = 1
    <3>1. Cardinality(C \ (ledger.res \ {r})) <= Cardinality(C \ ledger.res) + Cardinality({r})
      BY <1>1, <1>2, <2>0, Parts
    <3>2. Cardinality({r}) = 1
      BY FS_Singleton
    <3> QED BY <1>2, <1>5, <2>1, <2>3, <3>1, <3>2
  <2> QED BY <1>3, <2>2, <2>3
<1>12. ASSUME NEW p \in Nat, p < ledger.period PROVE Cardinality(Charged'[p]) <= Limit
  <2>1. /\ Charged'[p] \in SUBSET Charged[p] /\ Charged[p] \in SUBSET Requests
        /\ Charged'[p] \in SUBSET Requests
    BY <1>9
  <2>2. Cardinality(Charged[p]) <= Limit
    BY <1>12 DEF IInv, Covers
  <2> QED BY <2>1, <2>2, Finite, PaidRequestsAssumption
<1>13. ASSUME NEW p \in Nat, p > ledger.period PROVE Charged'[p] = {}
  BY <1>9, <1>13 DEF IInv, Covers
<1>14. ledger'.billed + Cardinality(ledger'.res) <= Limit
  BY <1>2, <1>3, <1>5, <1>6, PaidRequestsAssumption DEF IInv, Covers
<1>17. Cardinality(Before(Charged', ledger.period)) <= Limit * ledger.period
  <2>1. Cardinality(Before(Charged, ledger.period)) <= Limit * ledger.period
    BY DEF IInv, Covers
  <2> QED BY <1>2, <1>9, <2>1, BeforeLess
<1>15. Covers(ledger, Charged)'
  <2>1. Before(Charged, ledger.period)' = Before(Charged', ledger.period)
    BY <1>5 DEF Before
  <2> QED BY <1>5, <1>11, <1>12, <1>13, <1>14, <1>17, <2>1 DEF Covers
<1>16. \A q \in Requests : q # r /\ q \in ledger.res /\ q \notin ledger'.res
                             => req[q].at + Ttl <= now
  BY <1>5
<1> QED BY <1>1, <1>2, <1>5, <1>7, <1>15, <1>16, EndStep

LEMMA InitLemma == Init => IInv
<1> SUFFICES ASSUME Init PROVE IInv
  OBVIOUS
<1> DEFINE e == [pc |-> "new", moment |-> 0, at |-> 0, known |-> "unbilled",
                 ok |-> FALSE, cost |-> FALSE]
<1>1. e \in Request /\ e.pc = "new" /\ e.moment = 0 /\ e.cost = FALSE
  BY DEF Request, Outcomes
<1>2. req = [r \in Requests |-> e] /\ now = 0 /\ kills = 0
  BY DEF Init
<1> HIDE DEF e
<1>3. /\ ledger \in Ledger /\ ledger.period = 0 /\ ledger.billed = Baseline
      /\ ledger.failures = 0 /\ ledger.res = {}
  BY PaidRequestsAssumption DEF Init, Ledger
<1>4. TypeOK
  BY <1>1, <1>2, <1>3 DEF TypeOK
<1>5. RequestsOK
  BY <1>1, <1>2 DEF RequestsOK
<1>6. \A p \in Nat : Charged[p] = {}
  BY <1>1, <1>2 DEF Charged
<1>9. Cardinality(Before(Charged, ledger.period)) <= Limit * ledger.period
  <2>1. Before(Charged, ledger.period) = {}
    BY <1>6 DEF Before
  <2>2. Limit * ledger.period = 0
    BY <1>3, PaidRequestsAssumption
  <2> QED BY <2>1, <2>2, FS_EmptySet
<1>10. Calm(ledger)
  BY <1>3, FS_EmptySet, PaidRequestsAssumption DEF Calm
<1>7. Covers(ledger, Charged)
  <2>1. Cardinality({}) = 0
    BY FS_EmptySet
  <2>2. Charged[ledger.period] \ ledger.res = {} /\ ledger.res = {}
    BY <1>3, <1>6
  <2>3. /\ Cardinality(Charged[ledger.period] \ ledger.res) <= ledger.billed
        /\ ledger.billed + Cardinality(ledger.res) <= Limit
    BY <1>3, <2>1, <2>2, PaidRequestsAssumption
  <2>4. \A p \in Nat : Charged[p] = {} /\ Cardinality(Charged[p]) <= Limit
    BY <1>6, <2>1, PaidRequestsAssumption
  <2> QED BY <1>9, <2>3, <2>4 DEF Covers
<1>8. Expiring(ledger)
  BY <1>1, <1>2 DEF Expiring
<1> QED BY <1>4, <1>5, <1>7, <1>8, <1>10 DEF IInv

LEMMA ClockStep ==
  ASSUME IInv, Tick \/ UNCHANGED vars PROVE IInv'
<1>1. /\ UNCHANGED <<ledger, req, kills>> /\ now \in Nat /\ now' \in Nat /\ now <= now'
  BY DEF IInv, TypeOK, Tick, vars
<1>2. \A q \in Requests : req[q].moment \in Nat /\ req[q].at \in Nat
  BY RequestFields DEF IInv
<1>3. TypeOK'
  BY <1>1 DEF IInv, TypeOK
<1>4. RequestsOK' /\ Expiring(ledger)'
  BY <1>1, <1>2, PaidRequestsAssumption DEF IInv, RequestsOK, Expiring
<1>5. Charged' = Charged
  BY <1>1 DEF Charged
<1>6. Covers(ledger, Charged)' /\ Calm(ledger)'
  BY <1>1, <1>5 DEF IInv, Covers, Calm
<1> QED BY <1>3, <1>4, <1>6 DEF IInv

LEMMA NextLemma == IInv /\ [Next]_vars => IInv'
BY AskStep, ReserveStep, SendStep, ReportStep, FinishStep, KillStep, ClockStep
   DEF Next

(* The inductive invariant of the ledger of paid requests.                 *)
THEOREM Invariance == Spec => []IInv
BY InitLemma, NextLemma, PTL DEF Spec

(* The ledger and the requests keep their types.                           *)
THEOREM TypeCorrect == Spec => []TypeOK
<1>1. IInv => TypeOK
  BY DEF IInv
<1> QED BY <1>1, Invariance, PTL

(* For the requests reserved in a month the provider is paid no more than  *)
(* the limit, whatever is killed, expires or is reported after the month's *)
(* turn, and whenever the charges are made.                                *)
THEOREM ReservationsAreCapped == Spec => []ReservationsCapped
<1>1. IInv => ReservationsCapped
  <2> SUFFICES ASSUME IInv, NEW p \in 0..PeriodOf(now)
               PROVE  Cardinality(SpentOnReserved(p)) <= Limit
    BY DEF ReservationsCapped
  <2>1. PeriodOf(now) \in Nat /\ p \in Nat
    <3>1. PeriodOf(now) \in Nat
      BY PeriodType DEF IInv, TypeOK
    <3> QED BY <3>1
  <2>2. /\ SpentOnReserved(p) \in SUBSET Charged[p]
        /\ Charged[p] \in SUBSET Requests
    BY <2>1 DEF SpentOnReserved, Charged
  <2>3. ledger \in Ledger /\ ledger.period \in Nat
    BY LedgerFields DEF IInv, TypeOK
  <2>4. Cardinality(Charged[p]) <= Limit
    <3>1. CASE p < ledger.period
      BY <2>1, <3>1 DEF IInv, Covers
    <3>2. CASE p > ledger.period
      BY <2>1, <3>2, FS_EmptySet, PaidRequestsAssumption DEF IInv, Covers
    <3>3. CASE p = ledger.period
      BY <2>3, <3>3, ChargedType, CoveredMonth DEF IInv
    <3> QED BY <2>1, <2>3, <3>1, <3>2, <3>3
  <2>5. SpentOnReserved(p) \in SUBSET Requests
    BY <2>2
  <2> QED BY <2>2, <2>4, <2>5, Finite, PaidRequestsAssumption
<1> QED BY <1>1, Invariance, PTL

(* The ledger is never of a month to come.                                 *)
PeriodIsPast == ledger.period <= PeriodOf(now)

LEMMA PeriodGrows ==
  ASSUME NEW a \in Nat, NEW b \in Nat, a <= b PROVE PeriodOf(a) <= PeriodOf(b)
<1>1. PeriodLength \in Nat \ {0}
  BY PaidRequestsAssumption
<1> QED BY <1>1 DEF PeriodOf

LEMMA PeriodStep ==
  ASSUME IInv, PeriodIsPast, [Next]_vars PROVE PeriodIsPast'
<1>0. /\ now \in Nat /\ now' \in Nat /\ now <= now' /\ ledger \in Ledger
      /\ ledger.period \in Nat /\ PeriodOf(now) \in Nat /\ PeriodOf(now') \in Nat
  <2>1. now \in Nat /\ ledger \in Ledger
    BY DEF IInv, TypeOK
  <2>2. now' = now \/ now' = now + 1
    BY DEF Next, vars, Ask, Reserve, Send, Report, Finish, Unavailable, Kill, Tick
  <2> QED BY <2>1, <2>2, PeriodType, LedgerFields
<1>1. PeriodOf(now) <= PeriodOf(now')
  BY <1>0, PeriodGrows
<1>2. CASE \E r \in Requests : Reserve(r)
  <2>1. PICK r \in Requests : Reserve(r)
    BY <1>2
  <2> DEFINE m == req[r].moment
             k == RolledOver(ledger, m)
             l == Swept(k, m)
  <2>2. /\ m \in Nat /\ m <= now /\ ledger.period <= PeriodOf(m) /\ now' = now
        /\ Charged \in [Nat -> SUBSET Requests]
    BY <2>1, RequestFields, ChargedType DEF IInv, RequestsOK, Reserve
  <2>3. /\ k \in Ledger /\ k.period = PeriodOf(m)
        /\ Covers(k, Charged) /\ Calm(k) /\ Expiring(k)
    BY <1>0, <2>2, RolledOverFacts DEF IInv
  <2>4. l \in Ledger /\ l.period = PeriodOf(m)
    <3> HIDE DEF k
    <3> QED BY <2>2, <2>3, SweptFacts DEF IInv
  <2>5. ledger'.period = l.period
    <3>1. Closing(l) \in Ledger /\ Closing(l).period = l.period
      BY <2>4, ClosingFacts
    <3>2. \/ ledger' = l \/ ledger' = Closing(l)
          \/ ledger' = [Closing(l) EXCEPT !.res = Closing(l).res \cup {r}]
      BY <2>1 DEF Reserve
    <3> HIDE DEF l
    <3> QED BY <3>1, <3>2 DEF Ledger
  <2>6. PeriodOf(m) <= PeriodOf(now)
    BY <1>0, <2>2, PeriodGrows
  <2> HIDE DEF m, l
  <2> QED BY <2>2, <2>4, <2>5, <2>6 DEF PeriodIsPast
<1>3. CASE ledger'.period = ledger.period
  BY <1>0, <1>1, <1>3 DEF PeriodIsPast
<1>4. CASE \E r \in Requests : Finish(r)
  <2>1. ledger'.period = ledger.period
    BY <1>0, <1>4 DEF Finish, Ledger
  <2> QED BY <1>3, <2>1
<1>5. CASE ~(\E r \in Requests : Reserve(r) \/ Finish(r))
  <2>1. ledger' = ledger
    BY <1>5 DEF Next, vars, Ask, Send, Report, Unavailable, Kill, Tick
  <2> QED BY <1>3, <2>1
<1> QED BY <1>2, <1>4, <1>5

LEMMA LedgerNotAhead == Spec => []PeriodIsPast
<1>1. Init => PeriodIsPast
  <2>1. PeriodOf(0) \in Nat
    BY PeriodType
  <2> QED BY <2>1 DEF Init, PeriodIsPast
<1>2. IInv /\ PeriodIsPast /\ [Next]_vars => PeriodIsPast'
  BY PeriodStep
<1> QED BY <1>1, <1>2, Invariance, PTL DEF Spec

(* By the moment of the charge: in all the provider has charged no more    *)
(* than the limit for each month that has begun, although one month's      *)
(* charges may exceed it.                                                  *)
THEOREM TotalIsCapped == Spec => []TotalCap
<1>1. IInv /\ PeriodIsPast => TotalCap
  <2> SUFFICES ASSUME IInv, PeriodIsPast PROVE TotalCap
    OBVIOUS
  <2> DEFINE P == PeriodOf(now)
             L == ledger.period
             paid == {r \in Requests : req[r].cost}
  <2>1. /\ ledger \in Ledger /\ L \in Nat /\ P \in Nat /\ now \in Nat
        /\ \A r \in Requests : req[r].at \in Nat /\ PeriodOf(req[r].at) \in Nat
    BY RequestFields, LedgerFields, PeriodType DEF IInv, TypeOK
  <2>2. L <= P
    BY DEF PeriodIsPast
  <2>3. paid \in SUBSET (Before(Charged, L) \cup Charged[L])
    <3> SUFFICES ASSUME NEW r \in paid PROVE r \in Before(Charged, L) \cup Charged[L]
      OBVIOUS
    <3> DEFINE q == PeriodOf(req[r].at)
    <3>1. q \in Nat /\ r \in Charged[q]
      BY <2>1 DEF Charged
    <3> HIDE DEF q
    <3>2. ~(q > L)
      BY <3>1 DEF IInv, Covers
    <3>3. q < L \/ q = L
      BY <2>1, <3>1, <3>2
    <3> QED BY <3>1, <3>3 DEF Before
  <2>4. /\ Cardinality(Charged[L]) <= Limit
        /\ Cardinality(Before(Charged, L)) <= Limit * L
    BY <2>1, ChargedType, CoveredMonth DEF IInv, Covers
  <2>5. Cardinality(paid) <= Limit * L + Limit
    <3>1. /\ paid \in SUBSET Requests /\ Before(Charged, L) \in SUBSET Requests
          /\ Charged[L] \in SUBSET Requests
          /\ paid \ Before(Charged, L) \in SUBSET Charged[L]
          /\ paid \ Before(Charged, L) \in SUBSET Requests
      BY <2>1, <2>3, ChargedType, BeforeType
    <3>2. Cardinality(paid)
            <= Cardinality(paid \ Before(Charged, L)) + Cardinality(Before(Charged, L))
      BY <3>1, Parts
    <3>3. /\ Cardinality(paid \ Before(Charged, L)) <= Cardinality(Charged[L])
          /\ Cardinality(paid) \in Nat /\ Cardinality(Charged[L]) \in Nat
          /\ Cardinality(paid \ Before(Charged, L)) \in Nat
          /\ Cardinality(Before(Charged, L)) \in Nat
      BY <3>1, Finite
    <3>4. Limit * L \in Nat
      BY <2>1, PaidRequestsAssumption
    <3> HIDE DEF paid
    <3> QED BY <2>4, <3>2, <3>3, <3>4, PaidRequestsAssumption
  <2>6. Limit * L + Limit <= Limit * (P + 1)
    <3>1. PICK d \in Nat : P = L + d
      <4>1. P - L \in Nat /\ P = L + (P - L)
        BY <2>1, <2>2
      <4> QED BY <4>1
    <3>2. Limit * (L + d + 1) = Limit * L + Limit + Limit * d /\ Limit * d \in Nat
      BY <2>1, <3>1, PaidRequestsAssumption
    <3> QED BY <2>1, <3>1, <3>2, PaidRequestsAssumption
  <2>7. Cardinality(paid) \in Nat /\ Limit * L \in Nat /\ Limit * (P + 1) \in Nat
    <3>1. paid \in SUBSET Requests
      OBVIOUS
    <3> QED BY <2>1, <3>1, Finite, PaidRequestsAssumption
  <2> QED BY <2>5, <2>6, <2>7, PaidRequestsAssumption DEF TotalCap
<1> QED BY <1>1, Invariance, LedgerNotAhead, PTL

(* What was charged for the requests reserved in the ledger's month is     *)
(* billed or still reserved.                                               *)
THEOREM ChargesAreCovered == Spec => []LedgerCovers
<1>1. IInv => LedgerCovers
  <2> SUFFICES ASSUME IInv PROVE LedgerCovers
    OBVIOUS
  <2>1. ledger.period \in Nat /\ ledger.billed \in Nat
    BY LedgerFields DEF IInv, TypeOK
  <2>2. /\ SpentOnReserved(ledger.period) \ ledger.res
             \in SUBSET (Charged[ledger.period] \ ledger.res)
        /\ Charged[ledger.period] \ ledger.res \in SUBSET Requests
        /\ SpentOnReserved(ledger.period) \ ledger.res \in SUBSET Requests
    BY <2>1 DEF SpentOnReserved, Charged
  <2>3. /\ Cardinality(SpentOnReserved(ledger.period) \ ledger.res)
             <= Cardinality(Charged[ledger.period] \ ledger.res)
        /\ Cardinality(SpentOnReserved(ledger.period) \ ledger.res) \in Nat
        /\ Cardinality(Charged[ledger.period] \ ledger.res) \in Nat
    BY <2>2, Finite
  <2>4. Cardinality(Charged[ledger.period] \ ledger.res) <= ledger.billed
    BY DEF IInv, Covers
  <2> QED BY <2>1, <2>3, <2>4 DEF LedgerCovers
<1> QED BY <1>1, Invariance, PTL

(* The reservation of a request under way is in the ledger until it has    *)
(* expired, also after the turn of the month.                              *)
THEOREM OnlyExpiryTakes == Spec => []OnlyExpiryTakesAway
<1>1. IInv => OnlyExpiryTakesAway
  BY DEF IInv, Expiring, OnlyExpiryTakesAway
<1> QED BY <1>1, Invariance, PTL

(* No more requests are open than may fail before the circuit opens.       *)
THEOREM NoBurstOpens == Spec => []NoBurst
<1>1. IInv => NoBurst
  BY DEF IInv, Calm, NoBurst
<1> QED BY <1>1, Invariance, PTL
=============================================================================
