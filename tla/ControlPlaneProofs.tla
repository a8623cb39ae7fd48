------------------------- MODULE ControlPlaneProofs -------------------------
(***************************************************************************)
(* Theorems about ControlPlane, for any number of agents, threads and      *)
(* vendors, any thresholds, and any restarts and failing queries.          *)
(***************************************************************************)
EXTENDS ControlPlane, KillSwitchProofs, SequenceTheorems, WellFoundedInduction

LogTypes ==
    /\ decisions \in Seq(Decision)
    /\ Len(decisions) <= MaxDecisions
    /\ watermark \in 0..Len(decisions)
    /\ faults \in 0..MaxFaults

(* The rows of the check in progress: which they are depends on the check. *)
FoundTypes ==
    /\ phase \in Phases
    /\ found \subseteq (Threads \union Agents \union 1..MaxDecisions)
    /\ phase = "stop" => found \subseteq (watermark + 1)..Len(decisions)

(* Every row that the watchdog has yet to act on was silent when the query *)
(* saw it, whatever has been said since.                                   *)
SilentInv ==
    /\ everSilent \subseteq Threads
    /\ StaleThreads \subseteq everSilent
    /\ phase = "halt" => found \subseteq everSilent
    /\ HaltsOnlySilentThreads

IInv == Tables /\ LogTypes /\ FoundTypes /\ SilentInv

-----------------------------------------------------------------------------

(* The least of the rows is one of them, and the others are above it.      *)
LEMMA MinIsFound ==
  ASSUME NEW S \in SUBSET Nat, S # {}
  PROVE  Min(S) \in S /\ \A x \in S : Min(S) <= x
<1>1. \E x \in S : \A y \in S : <<y, x>> \notin OpToRel(<, Nat)
  BY NatLessThanWellFounded, WFMin
<1>2. PICK x \in S : \A y \in S : ~(y < x)
  BY <1>1 DEF OpToRel
<1>3. \A y \in S : x <= y
  BY <1>2
<1>4. QED
  BY <1>3 DEF Min

LEMMA MaxOfTwo ==
  ASSUME NEW a \in Int, NEW b \in Int
  PROVE  Max({a, b}) \in {a, b} /\ Max({a, b}) >= a /\ Max({a, b}) >= b
<1>1. \E x \in {a, b} : \A y \in {a, b} : x >= y
  OBVIOUS
<1>2. QED
  BY <1>1 DEF Max

-----------------------------------------------------------------------------

LEMMA LogAgesGrow ==
  ASSUME NEW n \in LogAges
  PROVE  Older(n, DenialWindow) \in LogAges
  BY ControlPlaneAssumption DEF LogAges, Older

(* The tables.                                                             *)
LEMMA TablesKept ==
  ASSUME Tables, [Next]_vars
  PROVE  Tables'
<1>1. CASE Serve
  <2>1. Served
    BY <1>1 DEF Serve, Served
  <2>2. QED
    BY <2>1, ServedKeepsTables
<1>2. CASE Wake
  BY <1>2, TickKeepsTables DEF Wake
<1>3. CASE \E t \in Threads : HaltStale(t)
  BY <1>3, HaltKeepsTables
<1>4. CASE Restart
  BY <1>4, RestartKeepsTables DEF Restart
<1>5. ASSUME NEW p \in Agents, PauseOffender(p) PROVE Tables'
  BY <1>5 DEF PauseOffender, Tables
<1>6. CASE StopOnCanary
  BY <1>6 DEF StopOnCanary, Tables
<1>7. ASSUME \/ UNCHANGED vars
             \/ \E v \in Verdicts : RecordDecision(v)
             \/ QueryStale \/ FinishStale("denials") \/ QueryDenials \/ FinishPauses
             \/ QueryCanary \/ Sleep \/ TickError
      PROVE  Tables'
  <2>1. UNCHANGED <<switchVars, age, pausedThreads>>
    BY <1>7 DEF vars, killSwitchVars, RecordDecision, QueryStale, FinishStale, QueryDenials,
                FinishPauses, QueryCanary, Sleep, TickError
  <2>2. QED
    BY <2>1 DEF Tables, switchVars
<1>8. QED
  BY <1>1, <1>2, <1>3, <1>4, <1>5, <1>6, <1>7 DEF Next, Watchdog, CheckStaleHeartbeats

(* The log and what the watchdog remembers of it.                          *)
LEMMA LogTypesKept ==
  ASSUME LogTypes, FoundTypes, [Next]_vars
  PROVE  LogTypes'
<1> USE DEF LogTypes
<1>1. ASSUME NEW v \in Verdicts, RecordDecision(v)
      PROVE  LogTypes'
  <2> DEFINE x == [principal |-> v.principal, vendor |-> v.vendor, denied |-> v.denied, age |-> 0]
  <2>1. x \in Decision
    BY ControlPlaneAssumption DEF Decision, LogAges
  <2>2. decisions' = Append(decisions, x) /\ Len(decisions) < MaxDecisions
        /\ UNCHANGED <<watermark, faults>>
    BY <1>1 DEF RecordDecision
  <2> HIDE DEF x
  <2>3. decisions' \in Seq(Decision) /\ Len(decisions') = Len(decisions) + 1
    BY <2>1, <2>2, AppendProperties
  <2>4. Len(decisions) \in Nat /\ MaxDecisions \in Nat
    BY ControlPlaneAssumption
  <2>5. QED
    BY <2>2, <2>3, <2>4
<1>2. CASE Wake
  <2>1. decisions' = [i \in DOMAIN decisions |->
                         [decisions[i] EXCEPT !.age = Older(@, DenialWindow)]]
        /\ UNCHANGED <<watermark, faults>>
    BY <1>2 DEF Wake
  <2>2. \A i \in DOMAIN decisions :
           [decisions[i] EXCEPT !.age = Older(@, DenialWindow)] \in Decision
    <3>1. TAKE i \in DOMAIN decisions
    <3>2. decisions[i] \in Decision
      OBVIOUS
    <3>3. Older(decisions[i].age, DenialWindow) \in LogAges
      BY <3>2, LogAgesGrow DEF Decision
    <3>4. QED
      BY <3>2, <3>3 DEF Decision
  <2>3. decisions' \in Seq(Decision) /\ Len(decisions') = Len(decisions)
    BY <2>1, <2>2
  <2>4. QED
    BY <2>1, <2>3
<1>3. CASE StopOnCanary
  <2>1. found \in SUBSET Nat /\ found # {} /\ found \subseteq (watermark + 1)..Len(decisions)
    BY <1>3 DEF StopOnCanary, FoundTypes
  <2>2. Min(found) \in (watermark + 1)..Len(decisions)
    BY <2>1, MinIsFound
  <2>3. Max({watermark, Min(found)}) \in 0..Len(decisions)
    <3>1. watermark \in Int /\ Min(found) \in Int
      BY <2>2
    <3>2. Max({watermark, Min(found)}) \in {watermark, Min(found)}
      BY <3>1, MaxOfTwo
    <3>3. QED
      BY <2>2, <3>2
  <2>4. QED
    BY <1>3, <2>3 DEF StopOnCanary
<1>4. ASSUME NEW kind \in {"restart", "query"}, Fault(kind) PROVE faults' \in 0..MaxFaults
  BY <1>4, ControlPlaneAssumption DEF Fault
<1>5. CASE Restart
  <2>1. watermark' = Len(decisions) /\ UNCHANGED decisions /\ faults' \in 0..MaxFaults
    BY <1>4, <1>5 DEF Restart
  <2>2. QED
    BY <2>1, ControlPlaneAssumption
<1>6. CASE TickError
  BY <1>4, <1>6 DEF TickError
<1>7. ASSUME \/ UNCHANGED vars \/ Serve
             \/ QueryDenials \/ FinishPauses \/ QueryCanary \/ Sleep
             \/ CheckStaleHeartbeats
             \/ \E p \in Agents : PauseOffender(p)
      PROVE  LogTypes'
  BY <1>7 DEF vars, logVars, Serve, QueryDenials, CheckStaleHeartbeats,
              FinishPauses, QueryCanary, Sleep, PauseOffender
<1>8. QED
  BY <1>1, <1>2, <1>3, <1>5, <1>6, <1>7 DEF Next, Watchdog

(* The rows of each check.                                                 *)
LEMMA FoundTypesKept ==
  ASSUME LogTypes, FoundTypes, [Next]_vars
  PROVE  FoundTypes'
<1> USE DEF FoundTypes, Phases
<1>1. CASE CheckStaleHeartbeats
  <2>1. StaleThreads \subseteq Threads
    BY DEF StaleThreads
  <2>2. QED
    BY <1>1, <2>1 DEF CheckStaleHeartbeats, QueryStale, HaltStale, FinishStale
<1>2. CASE QueryDenials
  BY <1>2 DEF QueryDenials, Offenders
<1>3. CASE QueryCanary
  <2>1. /\ Len(decisions) \in Nat /\ Len(decisions) <= MaxDecisions
        /\ DOMAIN decisions = 1..Len(decisions)
        /\ watermark \in Nat /\ MaxDecisions \in Nat
    BY ControlPlaneAssumption DEF LogTypes
  <2>2. CanaryHits \subseteq (watermark + 1)..Len(decisions)
    BY <2>1 DEF CanaryHits, CanaryDecisions
  <2>3. found' = CanaryHits /\ phase' = "stop" /\ UNCHANGED <<watermark, decisions>>
    BY <1>3 DEF QueryCanary, logVars
  <2>4. QED
    BY <2>1, <2>2, <2>3
<1>4. ASSUME NEW p \in Agents, PauseOffender(p) PROVE FoundTypes'
  BY <1>4 DEF PauseOffender
<1>5. CASE StopOnCanary
  <2> DEFINE least == Min(found)
  <2>1. /\ watermark \in Nat /\ Len(decisions) \in Nat
        /\ phase = "stop" /\ found # {}
        /\ found \subseteq (watermark + 1)..Len(decisions)
        /\ found' = found \ {least} /\ watermark' = Max({watermark, least})
        /\ UNCHANGED <<phase, decisions>>
    BY <1>5 DEF StopOnCanary, LogTypes
  <2>2. least \in found /\ \A x \in found : least <= x
    BY <2>1, MinIsFound
  <2> HIDE DEF least
  <2>3. least \in Int /\ watermark < least
    BY <2>1, <2>2
  <2>4. watermark' = least
    <3>1. watermark \in Int
      BY <2>1
    <3>2. /\ Max({watermark, least}) \in {watermark, least}
          /\ Max({watermark, least}) >= least
      BY <2>3, <3>1, MaxOfTwo
    <3>3. QED
      BY <2>1, <2>3, <3>2
  <2>5. found' \subseteq (watermark' + 1)..Len(decisions')
    <3>1. ASSUME NEW x \in found' PROVE x \in (watermark' + 1)..Len(decisions')
      <4>1. x \in found /\ x # least /\ x \in (watermark + 1)..Len(decisions)
        BY <2>1, <3>1
      <4>2. least <= x /\ x \in Int
        BY <2>2, <4>1
      <4>3. QED
        BY <2>1, <2>3, <2>4, <4>1, <4>2
    <3>2. QED
      BY <3>1
  <2>6. QED
    BY <2>1, <2>5
<1>6. CASE FinishPauses \/ Sleep \/ Wake \/ TickError
  BY <1>6 DEF FinishPauses, Sleep, Wake, Tick, TickError
<1>7. CASE Restart
  BY <1>7 DEF Restart, RestartControlPlane
<1>8. ASSUME \/ UNCHANGED vars \/ Serve
             \/ \E v \in Verdicts : RecordDecision(v)
      PROVE  FoundTypes'
  <2>1. UNCHANGED <<phase, found, watermark>>
    BY <1>8 DEF vars, killSwitchVars, watchdogVars, logVars, Serve, RecordDecision, Operate,
                Heartbeat, PauseThread, UnpauseThread, Trip, Reset
  <2>2. Len(decisions') >= Len(decisions) /\ Len(decisions) \in Nat /\ Len(decisions') \in Nat
    <3>1. CASE UNCHANGED decisions
      BY <3>1 DEF LogTypes
    <3>2. ASSUME NEW v \in Verdicts, RecordDecision(v)
          PROVE  Len(decisions') = Len(decisions) + 1
      BY <3>2 DEF RecordDecision, LogTypes
    <3>3. QED
      BY <1>8, <3>1, <3>2 DEF vars, logVars, Serve, LogTypes
  <2>3. watermark \in Nat
    BY DEF LogTypes
  <2>4. QED
    BY <2>1, <2>2, <2>3
<1>9. QED
  BY <1>1, <1>2, <1>3, <1>4, <1>5, <1>6, <1>7, <1>8 DEF Next, Watchdog

(* A step that leaves the tables alone leaves the silence of threads alone.*)
LEMMA SilenceUnchanged ==
  ASSUME UNCHANGED <<age, pausedThreads>>
  PROVE  StaleThreads' = StaleThreads
  BY DEF StaleThreads, Silent, HasRow

LEMMA SilenceRemembered ==
  ASSUME SilentInv, RememberSilent
  PROVE  /\ everSilent' \subseteq Threads
         /\ everSilent \subseteq everSilent'
         /\ StaleThreads' \subseteq everSilent'
  BY DEF SilentInv, RememberSilent, StaleThreads

LEMMA SilentInvKept ==
  ASSUME SilentInv, [Next]_vars
  PROVE  SilentInv'
<1> USE DEF SilentInv, HaltsOnlySilentThreads
<1>1. CASE Serve
  <2>1. haltedSessions' \subseteq haltedSessions \union OperatorHalts
    BY <1>1 DEF Serve, Heartbeat, PauseThread, UnpauseThread, Operate, Trip, Reset, switchVars,
                OperatorHalts
  <2>2. UNCHANGED <<phase, found>>
    BY <1>1 DEF Serve, Heartbeat, PauseThread, UnpauseThread, Operate, Trip, Reset, watchdogVars
  <2>3. RememberSilent
    BY <1>1 DEF Serve
  <2>4. QED
    BY <2>1, <2>2, <2>3, SilenceRemembered
<1>2. CASE Wake
  BY <1>2, SilenceRemembered DEF Wake, Tick, switchVars
<1>3. CASE CheckStaleHeartbeats
  <2>1. UNCHANGED <<age, pausedThreads, everSilent>>
    BY <1>3 DEF CheckStaleHeartbeats, QueryStale, HaltStale, FinishStale
  <2>2. CASE QueryStale
    BY <2>1, <2>2, SilenceUnchanged DEF QueryStale, switchVars
  <2>3. CASE FinishStale("denials")
    BY <2>1, <2>3, SilenceUnchanged DEF FinishStale, switchVars
  <2>4. ASSUME NEW t \in Threads, HaltStale(t) PROVE SilentInv'
    BY <2>1, <2>4, SilenceUnchanged DEF HaltStale
  <2>5. QED
    BY <1>3, <2>2, <2>3, <2>4 DEF CheckStaleHeartbeats
<1>4. CASE Restart
  <2>1. UNCHANGED <<age, pausedThreads, everSilent>> /\ haltedSessions' = {} /\ phase' = "stale"
    BY <1>4 DEF Restart, RestartControlPlane
  <2>2. QED
    BY <2>1, SilenceUnchanged
<1>5. ASSUME \/ QueryDenials \/ (\E p \in Agents : PauseOffender(p)) \/ FinishPauses
             \/ QueryCanary \/ StopOnCanary \/ Sleep \/ TickError
      PROVE  SilentInv'
  <2>1. UNCHANGED <<age, pausedThreads, everSilent, haltedSessions>> /\ phase' # "halt"
    BY <1>5 DEF QueryDenials, PauseOffender, FinishPauses, QueryCanary, StopOnCanary, Sleep,
                TickError, switchVars
  <2>2. QED
    BY <2>1, SilenceUnchanged
<1>6. ASSUME \/ UNCHANGED vars
             \/ \E v \in Verdicts : RecordDecision(v)
      PROVE  SilentInv'
  <2>1. UNCHANGED <<age, pausedThreads, everSilent, haltedSessions, phase, found>>
    BY <1>6 DEF RecordDecision, vars, killSwitchVars, switchVars, watchdogVars
  <2>2. QED
    BY <2>1, SilenceUnchanged
<1>7. QED
  BY <1>1, <1>2, <1>3, <1>4, <1>5, <1>6 DEF Next, Watchdog

LEMMA IInvInit == Init => IInv
<1> SUFFICES ASSUME Init PROVE IInv
  OBVIOUS
<1>1. Tables
  BY TablesInit DEF Init
<1>2. LogTypes
  BY ControlPlaneAssumption DEF Init, LogTypes
<1>3. FoundTypes
  BY DEF Init, KillSwitchInit, FoundTypes, Phases
<1>4. StaleThreads = {}
  BY DEF Init, KillSwitchInit, StaleThreads, Silent, HasRow
<1>5. SilentInv
  BY <1>4 DEF Init, KillSwitchInit, SwitchInit, SilentInv, HaltsOnlySilentThreads
<1>6. QED
  BY <1>1, <1>2, <1>3, <1>5 DEF IInv

LEMMA IInvHolds == Spec => []IInv
<1>1. IInv /\ [Next]_vars => IInv'
  BY TablesKept, LogTypesKept, FoundTypesKept, SilentInvKept DEF IInv
<1>2. QED
  BY <1>1, IInvInit, PTL DEF Spec

-----------------------------------------------------------------------------

(* Every state of the control plane is of its type: the watermark never    *)
(* passes the log, and the rows at hand are of the check in progress.      *)
THEOREM ControlPlaneTypeCorrect == Spec => []TypeOK
<1>1. IInv => TypeOK
  BY DEF IInv, Tables, LogTypes, FoundTypes, SilentInv, TypeOK
<1>2. QED
  BY <1>1, IInvHolds, PTL

(* The watchdog halts only threads that were silent while not paused: the  *)
(* rows it acts on, however old they are by then, were read as silent.     *)
THEOREM OnlySilentThreadsHalted == Spec => []HaltsOnlySilentThreads
<1>1. IInv => HaltsOnlySilentThreads
  BY DEF IInv, SilentInv
<1>2. QED
  BY <1>1, IInvHolds, PTL
=============================================================================
