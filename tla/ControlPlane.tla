---------------------------- MODULE ControlPlane ----------------------------
(***************************************************************************)
(* custodian-control-plane as a whole: the kill switch, and the watchdog   *)
(* loop with its three checks (silent threads, repeated denials, canary    *)
(* vendor), while agents heartbeat, the backend pauses and unpauses        *)
(* threads, policy-service records decisions and operators trip and reset  *)
(* the switch.                                                             *)
(***************************************************************************)
EXTENDS KillSwitch, Sequences

CONSTANTS
    Vendors,
    Canary,             \* CANARY_VENDOR
    DenialWindow,       \* DENIAL_WINDOW_MINUTES in ticks
    DenialThreshold,    \* DENIAL_THRESHOLD
    Verdicts,           \* the decisions policy-service takes: who, on whom
    MaxDecisions,       \* bound: decisions recorded in a behaviour
    Faults,             \* of "restart" (the process) and "query" (Postgres)
    MaxFaults           \* bound: faults in a behaviour

ASSUME ControlPlaneAssumption ==
    /\ Canary \in Vendors
    /\ DenialWindow \in Nat
    /\ DenialThreshold \in Nat \ {0}
    /\ Verdicts \subseteq [principal : Agents, vendor : Vendors, denied : BOOLEAN]
    /\ MaxDecisions \in Nat
    /\ Faults \subseteq {"restart", "query"}
    /\ MaxFaults \in Nat

VARIABLES
    decisions,      \* policy_decisions, by id, with the age of decided_at
    watermark,      \* _last_canary_check_id
    faults,
    everSilent      \* history: threads once silent while not paused

vars == <<killSwitchVars, decisions, watermark, faults, everSilent>>

LogAges == 0..(DenialWindow + 1)

Decision == [principal : Agents, vendor : Vendors, denied : BOOLEAN, age : LogAges]

DenialsWithin(p, window) ==
    Cardinality({i \in DOMAIN decisions :
        decisions[i].principal = p /\ decisions[i].denied /\ decisions[i].age <= window})

(* Mutant of Offenders: the threshold must be exceeded.                    *)
WorseOffenders == {p \in Agents : DenialsWithin(p, DenialWindow) > DenialThreshold}

(* The query of _check_repeated_denials.  The set of seen keys it also     *)
(* consults never excludes anybody: a key holds the time of its tick.      *)
Offenders == {p \in Agents : DenialsWithin(p, DenialWindow) >= DenialThreshold}

CanaryDecisions == {i \in DOMAIN decisions : decisions[i].vendor = Canary}

(* Mutant of CanaryHits: one id too many is taken as already checked.      *)
LaterCanaryHits == {i \in CanaryDecisions : i > watermark + 1}

(* The query of _check_canary_vendor.                                      *)
CanaryHits == {i \in CanaryDecisions : i > watermark}

RememberSilent ==
    everSilent' = everSilent \union {t \in Threads : Silent(t)' /\ t \notin pausedThreads'}

logVars == <<decisions, watermark, faults>>

Init ==
    /\ KillSwitchInit
    /\ decisions = << >>
    /\ watermark = 0
    /\ faults = 0
    /\ everSilent = {}

(* The handlers of the service, called by the backend and the console.     *)
Serve ==
    /\ \/ \E a \in Agents, t \in Threads : Heartbeat(a, t)
       \/ \E t \in Threads : PauseThread(t) \/ UnpauseThread(t)
       \/ Operate
    /\ RememberSilent
    /\ UNCHANGED logVars

(* policy-service's record_decision                                        *)
RecordDecision(v) ==
    /\ Len(decisions) < MaxDecisions
    /\ decisions' = Append(decisions,
                  [principal |-> v.principal, vendor |-> v.vendor, denied |-> v.denied, age |-> 0])
    /\ UNCHANGED <<killSwitchVars, watermark, faults, everSilent>>

Wake ==
    /\ Tick
    /\ decisions' = [i \in DOMAIN decisions |->
                        [decisions[i] EXCEPT !.age = Older(@, DenialWindow)]]
    /\ RememberSilent
    /\ UNCHANGED <<watermark, faults>>

CheckStaleHeartbeats ==
    /\ QueryStale \/ (\E t \in Threads : HaltStale(t)) \/ FinishStale("denials")
    /\ UNCHANGED <<logVars, everSilent>>

QueryDenials ==
    /\ phase = "denials"
    /\ phase' = "pause"
    /\ found' = Offenders
    /\ UNCHANGED <<switchVars, age, pausedThreads, logVars, everSilent>>

PauseOffender(p) ==
    /\ phase = "pause"
    /\ p \in found
    /\ found' = found \ {p}
    /\ pausedAgents' = pausedAgents \union {p}
    /\ UNCHANGED <<globalStop, haltedSessions, frozenTools, age, pausedThreads, phase>>
    /\ UNCHANGED <<logVars, everSilent>>

FinishPauses ==
    /\ phase = "pause"
    /\ found = {}
    /\ phase' = "canary"
    /\ UNCHANGED <<switchVars, age, pausedThreads, found, logVars, everSilent>>

QueryCanary ==
    /\ phase = "canary"
    /\ phase' = "stop"
    /\ found' = CanaryHits
    /\ UNCHANGED <<switchVars, age, pausedThreads, logVars, everSilent>>

(* The hits in the order of their ids.                                     *)
StopOnCanary ==
    /\ phase = "stop"
    /\ found # {}
    /\ found' = found \ {Min(found)}
    /\ watermark' = Max({watermark, Min(found)})
    /\ globalStop' = TRUE
    /\ UNCHANGED <<pausedAgents, haltedSessions, frozenTools, age, pausedThreads, phase>>
    /\ UNCHANGED <<decisions, faults, everSilent>>

Sleep ==
    /\ phase = "stop"
    /\ found = {}
    /\ phase' = "sleep"
    /\ UNCHANGED <<switchVars, age, pausedThreads, found, logVars, everSilent>>

Fault(kind) ==
    /\ kind \in Faults
    /\ faults < MaxFaults
    /\ faults' = faults + 1

(* A query raises: _watchdog_loop drops the rest of this loop.             *)
TickError ==
    /\ phase \in {"stale", "denials", "canary"}
    /\ Fault("query")
    /\ phase' = "sleep"
    /\ UNCHANGED <<switchVars, age, pausedThreads, found>>
    /\ UNCHANGED <<decisions, watermark, everSilent>>

(* Mutant of Restart: the watermark is seeded with the next id.            *)
RestartAtNextId ==
    /\ Fault("restart")
    /\ RestartControlPlane
    /\ watermark' = Len(decisions) + 1
    /\ UNCHANGED <<decisions, everSilent>>

(* ensure_schema seeds the watermark with max(id).                         *)
Restart ==
    /\ Fault("restart")
    /\ RestartControlPlane
    /\ watermark' = Len(decisions)
    /\ UNCHANGED <<decisions, everSilent>>

Watchdog ==
    \/ Wake \/ CheckStaleHeartbeats
    \/ QueryDenials \/ (\E p \in Agents : PauseOffender(p)) \/ FinishPauses
    \/ QueryCanary \/ StopOnCanary \/ Sleep

Next ==
    \/ Serve
    \/ \E v \in Verdicts : RecordDecision(v)
    \/ Watchdog
    \/ TickError
    \/ Restart

Spec == Init /\ [][Next]_vars

(* The watchdog thread keeps looping: its checks terminate and its sleep   *)
(* is finite.                                                              *)
FairSpec == Spec /\ WF_vars(Watchdog)

-----------------------------------------------------------------------------

Phases == {"sleep", "stale", "halt", "denials", "pause", "canary", "stop"}

(* The types; the watermark never passes the last id, or the decision that *)
(* gets the next one would never be looked at; and the rows at hand for    *)
(* the canary check are all above the watermark until they are acted on.   *)
TypeOK ==
    /\ globalStop \in BOOLEAN
    /\ pausedAgents \subseteq Agents
    /\ haltedSessions \subseteq Threads
    /\ frozenTools \subseteq Tools
    /\ age \in [Agents -> [Threads -> Ages]]
    /\ pausedThreads \subseteq Threads
    /\ phase \in Phases
    /\ found \subseteq (Threads \union Agents \union 1..MaxDecisions)
    /\ decisions \in Seq(Decision)
    /\ watermark \in 0..Len(decisions)
    /\ faults \in 0..MaxFaults
    /\ everSilent \subseteq Threads
    /\ phase = "stop" => found \subseteq (watermark + 1)..Len(decisions)

(* A thread that the watchdog halted was once silent: no agent of it had   *)
(* heartbeat for StaleAfter ticks and it was not paused.  An agent that    *)
(* fell silent because its step is over does not condemn a run that        *)
(* another agent carries on.                                               *)
OperatorHalts == {trip.target : trip \in {x \in OperatorTrips : x.scope = "session"}}

HaltsOnlySilentThreads == haltedSessions \subseteq everSilent \union OperatorHalts

(* A silent thread is halted unless it speaks again or is paused.          *)
SilentThreadHalted ==
    \A t \in Threads : t \in StaleThreads ~> t \in haltedSessions \/ t \notin StaleThreads

(* An agent with enough denials, seen with a tick to spare for every loop  *)
(* that fails, is paused, even when an operator has just reset it.         *)
DenialsPauseAgent ==
    \A p \in Agents :
        DenialsWithin(p, DenialWindow - 1 - MaxFaults) >= DenialThreshold ~> p \in pausedAgents

(* A decision about the canary vendor trips the global stop, unless the    *)
(* watermark that a restart seeds has passed it by.                        *)
CanaryStopsEverything ==
    \A n \in 1..MaxDecisions :
        n \in CanaryDecisions /\ n > watermark ~>
            globalStop \/ (faults > 0 /\ n <= watermark)
=============================================================================
