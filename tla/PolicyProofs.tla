----------------------------- MODULE PolicyProofs -----------------------------
(***************************************************************************)
(* What policy-service keeps for any number of handlers, any requests and  *)
(* any stops: how far concurrency may exceed the rate limit, that a stop   *)
(* overrides, and what rounding lets an agent approve.                     *)
(***************************************************************************)
EXTENDS PolicyService, FiniteSetTheorems, TLAPS

(* Half a dollar is all that rounding can hide.                            *)
LEMMA RoundingHides ==
  ASSUME NEW c \in Int, RoundedDollars(c) <= ApprovalLimit
  PROVE  c <= ApprovalLimit * 100 + 50
<1>1. c = 100 * (c \div 100) + (c % 100) /\ c % 100 \in 0..99 /\ c \div 100 \in Int
  OBVIOUS
<1>2. CASE c \div 100 < 5000
  BY <1>1, <1>2 DEF ApprovalLimit
<1>3. CASE c \div 100 >= 5000
  <2>1. c \div 100 = 5000 /\ ~(c % 100 > 50)
    BY <1>1, <1>3 DEF RoundedDollars, ApprovalLimit
  <2>2. QED
    BY <1>1, <2>1 DEF ApprovalLimit
<1>4. QED
  BY <1>1, <1>2, <1>3

(* The handlers that have counted the vendor's approvals and are about to  *)
(* record one more.                                                        *)
Holding(v) ==
    {h \in Handlers :
        /\ pc[h] = "switch" \/ (pc[h] = "record" /\ verdict[h] = "Allow")
        /\ req[h].action = "ApprovePayment"
        /\ req[h].vendor = v}

(* Recorded approvals and those on their way share one budget.             *)
Budget ==
    \A v \in Vendors :
        Cardinality(Approvals(v)) + Cardinality(Holding(v))
            < MaxApprovals + Cardinality(Handlers)

(* Whatever is on its way to "Allow" was allowed by Cedar.                 *)
CedarFirst ==
    /\ \A h \in Handlers :
          pc[h] \in {"count", "switch"} \/ verdict[h] = "Allow" => CedarAllows(req[h])
    /\ \A i \in DOMAIN decisions :
          decisions[i].verdict = "Allow" => CedarAllows(decisions[i].request)

(* A covered handler's stop is still in force.                             *)
Coverage ==
    \A h \in covered :
        /\ pc[h] # "idle"
        /\ StoppedBy(req[h], stops)
        /\ pc[h] = "record" => verdict[h] = "Deny"

IInv == TypeOK /\ Budget /\ CedarFirst

-----------------------------------------------------------------------------

LEMMA NoRequestType == NoRequest \in Requests
  BY PolicyAssumption DEF NoRequest

(* Sets of log rows and of handlers are finite.                            *)
LEMMA Finite ==
  ASSUME TypeOK
  PROVE  /\ \A v : IsFiniteSet(Approvals(v)) /\ Cardinality(Approvals(v)) \in Nat
         /\ \A v : IsFiniteSet(Holding(v)) /\ Cardinality(Holding(v)) \in Nat
         /\ \A v : Cardinality(Holding(v)) <= Cardinality(Handlers)
         /\ Cardinality(Handlers) \in Nat
<1>1. DOMAIN decisions = 1..Len(decisions) /\ Len(decisions) \in Nat
  BY DEF TypeOK
<1>2. IsFiniteSet(DOMAIN decisions)
  BY <1>1, FS_Interval
<1>3. \A v : Approvals(v) \subseteq DOMAIN decisions
  BY DEF Approvals
<1>4. \A v : Holding(v) \subseteq Handlers
  BY DEF Holding
<1>5. IsFiniteSet(Handlers)
  BY PolicyAssumption
<1>6. QED
  BY <1>2, <1>3, <1>4, <1>5, FS_Subset, FS_CardinalityType

LEMMA TypeStep == TypeOK /\ [Next]_vars => TypeOK'
<1> SUFFICES ASSUME TypeOK, [Next]_vars PROVE TypeOK'
  OBVIOUS
<1> USE DEF TypeOK
<1>1. ASSUME NEW h \in Handlers, NEW q \in Requests, Receive(h, q) PROVE TypeOK'
  BY <1>1 DEF Receive, Decided
<1>2. ASSUME NEW h \in Handlers, CountApprovals(h) PROVE TypeOK'
  BY <1>2 DEF CountApprovals, Decided
<1>3. ASSUME NEW h \in Handlers, ReadSwitch(h) PROVE TypeOK'
  BY <1>3 DEF ReadSwitch, Decided
<1>4. ASSUME NEW h \in Handlers, RecordDecision(h) PROVE TypeOK'
  <2>1. [request |-> req[h], verdict |-> verdict[h], age |-> 0] \in Decision
    BY PolicyAssumption DEF Decision
  <2>2. decisions' \in Seq(Decision)
    BY <1>4, <2>1 DEF RecordDecision
  <2>3. QED
    BY <1>4, <2>2, NoRequestType DEF RecordDecision, Freed, Decided
<1>5. ASSUME NEW h \in Handlers, Abandon(h) PROVE TypeOK'
  BY <1>5, NoRequestType DEF Abandon, Freed, Decided
<1>6. ASSUME NEW s \in OperatorStops, TripStop(s) \/ ResetStop(s) PROVE TypeOK'
  BY <1>6 DEF TripStop, ResetStop
<1>7. CASE Tick
  <2>1. Len(decisions) \in Nat /\ DOMAIN decisions = 1..Len(decisions)
    OBVIOUS
  <2>2. ASSUME NEW i \in 1..Len(decisions) PROVE decisions'[i] \in Decision
    <3>1. decisions[i] \in Decision
      BY <2>1
    <3>2. decisions'[i] = [decisions[i] EXCEPT !.age = IF @ <= Window THEN @ + 1 ELSE @]
      BY <1>7, <2>1 DEF Tick
    <3>3. decisions[i].age \in 0..(Window + 1) /\ Window \in Nat
      BY <3>1, PolicyAssumption DEF Decision
    <3> DEFINE older == IF decisions[i].age <= Window THEN decisions[i].age + 1
                                                     ELSE decisions[i].age
    <3>4. older \in 0..(Window + 1)
      BY <3>3
    <3>5. decisions'[i] = [decisions[i] EXCEPT !.age = older]
      BY <3>2
    <3>6. QED
      BY <3>1, <3>4, <3>5 DEF Decision
  <2>3. decisions' \in Seq(Decision)
    BY <1>7, <2>1, <2>2 DEF Tick
  <2>4. QED
    BY <1>7, <2>3 DEF Tick
<1>8. CASE UNCHANGED vars
  BY <1>8 DEF vars
<1>9. QED
  BY <1>1, <1>2, <1>3, <1>4, <1>5, <1>6, <1>7, <1>8 DEF Next

(* A step that adds no approval and no holder leaves the budget as it was. *)
LEMMA BudgetFalls ==
  ASSUME TypeOK, TypeOK', Budget,
         \A v \in Vendors : /\ Approvals(v)' \subseteq Approvals(v)
                            /\ Holding(v)' \subseteq Holding(v)
  PROVE  Budget'
<1> SUFFICES ASSUME NEW v \in Vendors
             PROVE  Cardinality(Approvals(v)') + Cardinality(Holding(v)')
                        < MaxApprovals + Cardinality(Handlers)
  BY DEF Budget, Vendors
<1>1. Cardinality(Approvals(v)') <= Cardinality(Approvals(v))
  BY Finite, FS_Subset
<1>2. Cardinality(Holding(v)') <= Cardinality(Holding(v))
  BY Finite, FS_Subset
<1>3. /\ Cardinality(Approvals(v)) + Cardinality(Holding(v)) < MaxApprovals + Cardinality(Handlers)
      /\ Cardinality(Approvals(v)) \in Nat /\ Cardinality(Holding(v)) \in Nat
      /\ Cardinality(Handlers) \in Nat
  BY Finite DEF Budget
<1>4. Cardinality(Approvals(v)') \in Nat /\ Cardinality(Holding(v)') \in Nat
  BY Finite, <1>1, <1>2, FS_Subset, FS_CardinalityType
<1>5. QED
  BY <1>1, <1>2, <1>3, <1>4, PolicyAssumption

(* A count below the limit leaves room for every handler.                  *)
LEMMA BudgetCounted ==
  ASSUME TypeOK, TypeOK', Budget, NEW h \in Handlers, CountApprovals(h)
  PROVE  Budget'
<1> SUFFICES ASSUME NEW v \in Vendors
             PROVE  Cardinality(Approvals(v)') + Cardinality(Holding(v)')
                        < MaxApprovals + Cardinality(Handlers)
  BY DEF Budget, Vendors
<1>1. Approvals(v)' = Approvals(v)
  BY DEF CountApprovals, Approvals
<1>2. CASE v = req[h].vendor /\ WithinRateLimit(v)
  <2>1. Cardinality(Approvals(v)) < MaxApprovals
    BY <1>2 DEF WithinRateLimit, Vendors
  <2>2. Holding(v)' \subseteq Handlers
    BY DEF Holding
  <2>3. /\ Cardinality(Holding(v)') <= Cardinality(Handlers)
        /\ Cardinality(Holding(v)') \in Nat
    BY <2>2, PolicyAssumption, FS_Subset, FS_CardinalityType
  <2>4. QED
    BY <1>1, <2>1, <2>3, Finite, PolicyAssumption
<1>3. CASE ~(v = req[h].vendor /\ WithinRateLimit(v))
  <2>1. Holding(v)' \subseteq Holding(v)
    BY <1>3 DEF Holding, CountApprovals, Decided, TypeOK
  <2>2. /\ Cardinality(Holding(v)') <= Cardinality(Holding(v))
        /\ Cardinality(Holding(v)') \in Nat
    BY <2>1, Finite, FS_Subset, FS_CardinalityType
  <2>3. QED
    BY <1>1, <2>2, Finite, PolicyAssumption DEF Budget
<1>4. QED
  BY <1>2, <1>3

(* A recorded approval takes the place of the one that was held.           *)
LEMMA BudgetRecorded ==
  ASSUME TypeOK, TypeOK', Budget, NEW h \in Handlers, RecordDecision(h)
  PROVE  Budget'
<1> SUFFICES ASSUME NEW v \in Vendors
             PROVE  Cardinality(Approvals(v)') + Cardinality(Holding(v)')
                        < MaxApprovals + Cardinality(Handlers)
  BY DEF Budget, Vendors
<1> DEFINE new == [request |-> req[h], verdict |-> verdict[h], age |-> 0]
           last == Len(decisions) + 1
<1>1. /\ Len(decisions) \in Nat /\ DOMAIN decisions = 1..Len(decisions)
      /\ DOMAIN decisions' = (DOMAIN decisions) \union {last}
      /\ \A i \in DOMAIN decisions : decisions'[i] = decisions[i]
      /\ decisions'[last] = new /\ last \notin DOMAIN decisions
  BY DEF RecordDecision, TypeOK
<1>2. Holding(v)' \subseteq Holding(v) \ {h}
  BY DEF Holding, RecordDecision, Freed, Decided, TypeOK
<1>3. CASE h \in Holding(v)
  <2>1. Approvals(v)' \subseteq Approvals(v) \union {last}
    BY <1>1 DEF Approvals
  <2>2. last \notin Approvals(v)
    BY <1>1 DEF Approvals
  <2>3. /\ IsFiniteSet(Approvals(v) \union {last})
        /\ Cardinality(Approvals(v) \union {last}) = Cardinality(Approvals(v)) + 1
    BY <2>2, Finite, FS_AddElement
  <2>4. /\ Cardinality(Approvals(v)') <= Cardinality(Approvals(v)) + 1
        /\ Cardinality(Approvals(v)') \in Nat
    BY <2>1, <2>3, FS_Subset, FS_CardinalityType
  <2>5. /\ IsFiniteSet(Holding(v) \ {h})
        /\ Cardinality(Holding(v) \ {h}) = Cardinality(Holding(v)) - 1
    BY <1>3, Finite, FS_RemoveElement
  <2>6. /\ Cardinality(Holding(v)') <= Cardinality(Holding(v)) - 1
        /\ Cardinality(Holding(v)') \in Nat
    BY <1>2, <2>5, FS_Subset, FS_CardinalityType
  <2>7. QED
    BY <2>4, <2>6, Finite, PolicyAssumption DEF Budget
<1>4. CASE h \notin Holding(v)
  <2>1. ~(req[h].action = "ApprovePayment" /\ req[h].vendor = v /\ verdict[h] = "Allow")
    BY <1>4 DEF Holding, RecordDecision
  <2>2. Approvals(v)' \subseteq Approvals(v)
    BY <1>1, <2>1 DEF Approvals
  <2>3. /\ Cardinality(Approvals(v)') <= Cardinality(Approvals(v))
        /\ Cardinality(Approvals(v)') \in Nat
    BY <2>2, Finite, FS_Subset, FS_CardinalityType
  <2>4. /\ Cardinality(Holding(v)') <= Cardinality(Holding(v))
        /\ Cardinality(Holding(v)') \in Nat
    BY <1>2, Finite, FS_Subset, FS_CardinalityType
  <2>5. QED
    BY <2>3, <2>4, Finite, PolicyAssumption DEF Budget
<1>5. QED
  BY <1>3, <1>4

LEMMA BudgetStep ==
  ASSUME TypeOK, Budget, [Next]_vars
  PROVE  Budget'
<1> TypeOK'
  BY TypeStep
<1>1. ASSUME NEW h \in Handlers, NEW q \in Requests, Receive(h, q) PROVE Budget'
  <2>1. \A v \in Vendors : Approvals(v)' \subseteq Approvals(v)
    BY <1>1 DEF Receive, Approvals
  <2>2. \A v \in Vendors : Holding(v)' \subseteq Holding(v)
    BY <1>1 DEF Receive, Decided, Holding, TypeOK
  <2>3. QED
    BY <2>1, <2>2, BudgetFalls
<1>2. ASSUME NEW h \in Handlers, CountApprovals(h) PROVE Budget'
  BY <1>2, BudgetCounted
<1>3. ASSUME NEW h \in Handlers, ReadSwitch(h) PROVE Budget'
  <2>1. \A v \in Vendors : Approvals(v)' \subseteq Approvals(v)
    BY <1>3 DEF ReadSwitch, Approvals
  <2>2. \A v \in Vendors : Holding(v)' \subseteq Holding(v)
    BY <1>3 DEF ReadSwitch, Decided, Holding, TypeOK
  <2>3. QED
    BY <2>1, <2>2, BudgetFalls
<1>4. ASSUME NEW h \in Handlers, RecordDecision(h) PROVE Budget'
  BY <1>4, BudgetRecorded
<1>5. ASSUME NEW h \in Handlers, Abandon(h) PROVE Budget'
  <2>1. \A v \in Vendors : Approvals(v)' \subseteq Approvals(v)
    BY <1>5 DEF Abandon, Approvals
  <2>2. \A v \in Vendors : Holding(v)' \subseteq Holding(v)
    BY <1>5 DEF Abandon, Freed, Decided, Holding, TypeOK
  <2>3. QED
    BY <2>1, <2>2, BudgetFalls
<1>6. ASSUME NEW s \in OperatorStops, TripStop(s) \/ ResetStop(s) PROVE Budget'
  <2>1. \A v \in Vendors : Approvals(v)' = Approvals(v) /\ Holding(v)' = Holding(v)
    BY <1>6 DEF TripStop, ResetStop, Approvals, Holding
  <2>2. QED
    BY <2>1, BudgetFalls
<1>7. CASE Tick
  <2>1. \A v \in Vendors : Holding(v)' = Holding(v)
    BY <1>7 DEF Tick, Holding
  <2>2. ASSUME NEW i \in DOMAIN decisions'
        PROVE  /\ i \in DOMAIN decisions
               /\ decisions'[i].request = decisions[i].request
               /\ decisions'[i].verdict = decisions[i].verdict
               /\ decisions'[i].age <= Window => decisions[i].age <= Window
    <3>1. i \in DOMAIN decisions /\ decisions[i] \in Decision
      BY <1>7 DEF Tick, TypeOK
    <3>2. decisions'[i] = [decisions[i] EXCEPT !.age = IF @ <= Window THEN @ + 1 ELSE @]
      BY <1>7, <3>1 DEF Tick
    <3>3. QED
      BY <3>1, <3>2, PolicyAssumption DEF Decision
  <2>3. \A v \in Vendors : Approvals(v)' \subseteq Approvals(v)
    BY <2>2 DEF Approvals
  <2>4. QED
    BY <2>1, <2>3, BudgetFalls
<1>8. CASE UNCHANGED vars
  <2>1. \A v \in Vendors : Approvals(v)' = Approvals(v) /\ Holding(v)' = Holding(v)
    BY <1>8 DEF vars, Approvals, Holding
  <2>2. QED
    BY <2>1, BudgetFalls
<1>9. QED
  BY <1>1, <1>2, <1>3, <1>4, <1>5, <1>6, <1>7, <1>8 DEF Next

LEMMA CedarStep ==
  ASSUME TypeOK, CedarFirst, [Next]_vars
  PROVE  CedarFirst'
<1> USE DEF CedarFirst, TypeOK
<1>1. ASSUME NEW h \in Handlers, NEW q \in Requests, Receive(h, q) PROVE CedarFirst'
  BY <1>1 DEF Receive, Decided
<1>2. ASSUME NEW h \in Handlers, CountApprovals(h) PROVE CedarFirst'
  BY <1>2 DEF CountApprovals, Decided
<1>3. ASSUME NEW h \in Handlers, ReadSwitch(h) PROVE CedarFirst'
  BY <1>3 DEF ReadSwitch, Decided
<1>4. ASSUME NEW h \in Handlers, RecordDecision(h) PROVE CedarFirst'
  BY <1>4 DEF RecordDecision, Freed, Decided
<1>5. ASSUME NEW h \in Handlers, Abandon(h) PROVE CedarFirst'
  BY <1>5 DEF Abandon, Freed, Decided
<1>6. ASSUME NEW s \in OperatorStops, TripStop(s) \/ ResetStop(s) PROVE CedarFirst'
  BY <1>6 DEF TripStop, ResetStop
<1>7. CASE Tick
  <2>1. ASSUME NEW i \in DOMAIN decisions'
        PROVE  /\ i \in DOMAIN decisions
               /\ decisions'[i].request = decisions[i].request
               /\ decisions'[i].verdict = decisions[i].verdict
    <3>1. i \in DOMAIN decisions /\ decisions[i] \in Decision
      BY <1>7 DEF Tick
    <3>2. decisions'[i] = [decisions[i] EXCEPT !.age = IF @ <= Window THEN @ + 1 ELSE @]
      BY <1>7, <3>1 DEF Tick
    <3>3. QED
      BY <3>1, <3>2 DEF Decision
  <2>2. QED
    BY <1>7, <2>1 DEF Tick
<1>8. CASE UNCHANGED vars
  BY <1>8 DEF vars
<1>9. QED
  BY <1>1, <1>2, <1>3, <1>4, <1>5, <1>6, <1>7, <1>8 DEF Next

LEMMA CoverageStep ==
  ASSUME TypeOK, Coverage, ~SwitchUnreachable, [Next]_vars
  PROVE  Coverage'
<1> USE DEF Coverage, TypeOK
<1>1. ASSUME NEW h \in Handlers, NEW q \in Requests, Receive(h, q) PROVE Coverage'
  BY <1>1 DEF Receive, Decided, StoppedBy
<1>2. ASSUME NEW h \in Handlers, CountApprovals(h) PROVE Coverage'
  BY <1>2 DEF CountApprovals, Decided, StoppedBy
<1>3. ASSUME NEW h \in Handlers, ReadSwitch(h) PROVE Coverage'
  BY <1>3 DEF ReadSwitch, Decided, StoppedBy
<1>4. ASSUME NEW h \in Handlers, RecordDecision(h) PROVE Coverage'
  BY <1>4 DEF RecordDecision, Freed, Decided, StoppedBy
<1>5. ASSUME NEW h \in Handlers, Abandon(h) PROVE Coverage'
  BY <1>5 DEF Abandon, Freed, Decided, StoppedBy
<1>6. ASSUME NEW s \in OperatorStops, TripStop(s) PROVE Coverage'
  BY <1>6 DEF TripStop, StoppedBy
<1>7. ASSUME NEW s \in OperatorStops, ResetStop(s) PROVE Coverage'
  BY <1>7 DEF ResetStop, StoppedBy
<1>8. CASE Tick
  BY <1>8 DEF Tick, StoppedBy
<1>9. CASE UNCHANGED vars
  BY <1>9 DEF vars, StoppedBy
<1>10. QED
  BY <1>1, <1>2, <1>3, <1>4, <1>5, <1>6, <1>7, <1>8, <1>9 DEF Next

LEMMA InitIInv == Init => IInv
<1> SUFFICES ASSUME Init PROVE IInv
  OBVIOUS
<1>1. TypeOK
  BY NoRequestType DEF Init, TypeOK
<1>2. \A v : Approvals(v) = {} /\ Holding(v) = {}
  BY DEF Init, Approvals, Holding
<1>3. Budget
  BY <1>1, <1>2, Finite, FS_EmptySet, PolicyAssumption DEF Budget
<1>4. CedarFirst
  BY DEF Init, CedarFirst
<1>5. QED
  BY <1>1, <1>3, <1>4 DEF IInv

LEMMA Invariance == Spec => []IInv
<1>1. IInv /\ [Next]_vars => IInv'
  BY TypeStep, BudgetStep, CedarStep DEF IInv
<1>2. QED
  BY InitIInv, <1>1, PTL DEF Spec

-----------------------------------------------------------------------------

(* The service's variables keep their types.                               *)
THEOREM PolicyTypeCorrect == Spec => []TypeOK
  BY Invariance, PTL DEF IInv

(* However many handlers count and record at once, a vendor's approvals in *)
(* the window exceed the limit by less than the number of handlers.        *)
THEOREM OvershootIsBounded == Spec => []OvershootBounded
<1>1. IInv => OvershootBounded
  <2> SUFFICES ASSUME IInv, NEW v \in Vendors
               PROVE  Cardinality(Approvals(v)) < MaxApprovals + Cardinality(Handlers)
    BY DEF OvershootBounded
  <2>1. TypeOK /\ Budget
    BY DEF IInv
  <2>2. QED
    BY <2>1, Finite, PolicyAssumption DEF Budget
<1>2. QED
  BY <1>1, Invariance, PTL

(* What agents are allowed to approve is routine, to half a dollar, and    *)
(* for vendors that are known.                                             *)
THEOREM AgentApprovalsAreRoutine == Spec => []AgentsApproveRoutine
<1>1. IInv => AgentsApproveRoutine
  <2> SUFFICES ASSUME IInv, NEW i \in DOMAIN decisions,
                      decisions[i].request.action = "ApprovePayment",
                      decisions[i].request.type = "Agent",
                      decisions[i].verdict = "Allow"
               PROVE  /\ decisions[i].request.amount <= ApprovalLimit * 100 + 50
                      /\ decisions[i].request.firstSeen
                           => decisions[i].request.approvals >= DualApproval
    BY DEF AgentsApproveRoutine
  <2>1. decisions[i] \in Decision
    BY DEF IInv, TypeOK
  <2>2. decisions[i].request.amount \in Int /\ decisions[i].request.approvals \in Int
    BY <2>1, PolicyAssumption DEF Decision, PolicyRequest
  <2>3. ~Forbidden(decisions[i].request)
    BY DEF IInv, CedarFirst, CedarAllows
  <2>4. ~(RoundedDollars(decisions[i].request.amount) > ApprovalLimit)
    BY <2>3 DEF Forbidden, ForbiddenAmount, AboveLimit
  <2>5. RoundedDollars(decisions[i].request.amount) \in Int
    BY <2>2 DEF RoundedDollars
  <2>6. decisions[i].request.amount <= ApprovalLimit * 100 + 50
    BY <2>2, <2>4, <2>5, RoundingHides DEF ApprovalLimit
  <2>7. decisions[i].request.firstSeen => decisions[i].request.approvals >= DualApproval
    BY <2>2, <2>3 DEF Forbidden, ForbiddenVendor, DualApproval
  <2>8. QED
    BY <2>6, <2>7
<1>2. QED
  BY <1>1, Invariance, PTL

(* While the control plane answers, a request that is under a stop from    *)
(* its arrival to its decision is denied.                                  *)
THEOREM StopsOverride ==
  ASSUME ~SwitchUnreachable
  PROVE  Spec => []StopOverrides
<1>1. Init => Coverage
  BY DEF Init, Coverage
<1>2. TypeOK /\ Coverage /\ [Next]_vars => Coverage'
  BY CoverageStep
<1>3. Coverage => StopOverrides
  BY DEF Coverage, StopOverrides
<1>4. QED
  BY <1>1, <1>2, <1>3, PolicyTypeCorrect, PTL DEF Spec
=============================================================================
