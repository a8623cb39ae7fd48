---------------------------- MODULE PolicyService ----------------------------
(***************************************************************************)
(* policy-service: concurrent POST /authorize handlers over the decision   *)
(* log in Postgres.  A handler asks Cedar, counts the vendor's approvals,  *)
(* reads the kill switch and records what it decided; a step ends at each  *)
(* call to another service, so handlers interleave between the count and   *)
(* the record.  Time is counted in ticks; an age saturates above Window.   *)
(***************************************************************************)
EXTENDS CedarPolicies, Sequences, FiniteSets

CONSTANTS
    Handlers,           \* worker threads of the service
    Requests,           \* the bodies that agents and sandbox-runner send
    MaxApprovals,       \* RATE_LIMIT_MAX_APPROVALS
    Window,             \* RATE_LIMIT_WINDOW_HOURS in ticks
    OperatorStops,      \* the [scope, target] pairs operators trip and reset
    \* Bounds
    MaxDecisions,       \* decisions recorded in a behaviour
    SwitchUnreachable   \* GET /status of the control plane may fail

PolicyRequest ==
    [type : {"Agent", "User"}, id : STRING, tier : STRING, authority : Nat,
     action : PolicyActions, vendor : STRING, amount : Int, firstSeen : BOOLEAN,
     approvals : Nat, tool : STRING]

ASSUME PolicyAssumption ==
    /\ IsFiniteSet(Handlers)
    /\ Requests # {}
    /\ \A q \in Requests : q \in PolicyRequest
    /\ MaxApprovals \in Nat \ {0}
    /\ Window \in Nat
    /\ MaxDecisions \in Nat
    /\ SwitchUnreachable \in BOOLEAN

VARIABLES
    decisions,      \* policy_decisions with the age of decided_at
    pc,             \* the next call of each handler
    req,            \* the request each handler serves
    verdict,        \* its decision so far
    stops,          \* the stops in force in the control plane
    covered         \* history: handlers under a stop since they began

vars == <<decisions, pc, req, verdict, stops, covered>>

(* attrs without a vendor or a name, as a tool or a payment has.           *)
Absent == ""

Vendors == {q.vendor : q \in Requests} \ {Absent}

NoRequest == CHOOSE q \in Requests : TRUE

(* The query of check_vendor_rate_limit.                                   *)
Approvals(v) ==
    {i \in DOMAIN decisions :
        /\ decisions[i].request.action = "ApprovePayment"
        /\ decisions[i].request.vendor = v
        /\ decisions[i].verdict = "Allow"
        /\ decisions[i].age <= Window}

(* Mutant of WithinRateLimit: the limit may be exceeded by one.            *)
AtRateLimit(v) == v = Absent \/ Cardinality(Approvals(v)) <= MaxApprovals

WithinRateLimit(v) == v = Absent \/ Cardinality(Approvals(v)) < MaxApprovals

(* _kill_switch_denial.                                                    *)
StoppedBy(q, inForce) ==
    \E s \in inForce :
        \/ s.scope = "global"
        \/ s.scope = "agent" /\ s.target = q.id
        \/ s.scope = "tool" /\ s.target = q.tool /\ q.tool # Absent

-----------------------------------------------------------------------------

Init ==
    /\ decisions = << >>
    /\ pc = [h \in Handlers |-> "idle"]
    /\ req = [h \in Handlers |-> NoRequest]
    /\ verdict = [h \in Handlers |-> "Deny"]
    /\ stops = {}
    /\ covered = {}

(* The handler decides d and goes on to the call named next.               *)
Decided(h, d, next) ==
    /\ verdict' = [verdict EXCEPT ![h] = d]
    /\ pc' = [pc EXCEPT ![h] = next]

Freed(h) ==
    /\ Decided(h, "Deny", "idle")
    /\ req' = [req EXCEPT ![h] = NoRequest]
    /\ covered' = covered \ {h}

(* authorize, up to its first call: what Cedar says of the request.        *)
Receive(h, q) ==
    /\ pc[h] = "idle"
    /\ req' = [req EXCEPT ![h] = q]
    /\ \/ CedarAllows(q) /\ q.action = "ApprovePayment" /\ Decided(h, "Allow", "count")
       \/ CedarAllows(q) /\ q.action # "ApprovePayment" /\ Decided(h, "Allow", "switch")
       \/ ~CedarAllows(q) /\ Decided(h, "Deny", "record")
    /\ covered' = IF StoppedBy(q, stops) THEN covered \union {h} ELSE covered
    /\ UNCHANGED <<decisions, stops>>

(* Mutant of CountApprovals: escalation is a third answer.                 *)
EscalateAtLimit(h) ==
    /\ pc[h] = "count"
    /\ \/ WithinRateLimit(req[h].vendor) /\ Decided(h, "Allow", "switch")
       \/ ~WithinRateLimit(req[h].vendor) /\ Decided(h, "Escalate", "record")
    /\ UNCHANGED <<decisions, req, stops, covered>>

(* Mutant of CountApprovals: the switch is asked only where no count is.   *)
CountOnly(h) ==
    /\ pc[h] = "count"
    /\ Decided(h, IF WithinRateLimit(req[h].vendor) THEN "Allow" ELSE "Deny", "record")
    /\ UNCHANGED <<decisions, req, stops, covered>>

(* check_vendor_rate_limit                                                 *)
CountApprovals(h) ==
    /\ pc[h] = "count"
    /\ \/ WithinRateLimit(req[h].vendor) /\ Decided(h, "Allow", "switch")
       \/ ~WithinRateLimit(req[h].vendor) /\ Decided(h, "Deny", "record")
    /\ UNCHANGED <<decisions, req, stops, covered>>

(* A control plane that does not answer denies nothing.                    *)
ReadSwitch(h) ==
    /\ pc[h] = "switch"
    /\ \/ StoppedBy(req[h], stops) /\ Decided(h, "Deny", "record")
       \/ /\ ~StoppedBy(req[h], stops) \/ SwitchUnreachable
          /\ Decided(h, "Allow", "record")
    /\ UNCHANGED <<decisions, req, stops, covered>>

(* record_decision, and the answer: the handler is free again.             *)
RecordDecision(h) ==
    /\ pc[h] = "record"
    /\ Len(decisions) < MaxDecisions
    /\ decisions' = Append(decisions, [request |-> req[h], verdict |-> verdict[h], age |-> 0])
    /\ Freed(h)
    /\ UNCHANGED stops

(* A query raises or the service dies: nothing is recorded, and the        *)
(* client takes the missing answer as a denial.                            *)
Abandon(h) ==
    /\ pc[h] # "idle"
    /\ Freed(h)
    /\ UNCHANGED <<decisions, stops>>

(* The control plane, as its operators and its watchdog drive it.          *)
TripStop(s) ==
    /\ stops' = stops \union {s}
    /\ UNCHANGED <<decisions, pc, req, verdict, covered>>

ResetStop(s) ==
    /\ stops' = stops \ {s}
    /\ covered' = {h \in covered : StoppedBy(req[h], stops')}
    /\ UNCHANGED <<decisions, pc, req, verdict>>

Tick ==
    /\ \E i \in DOMAIN decisions : decisions[i].age <= Window
    /\ decisions' = [i \in DOMAIN decisions |->
                        [decisions[i] EXCEPT !.age = IF @ <= Window THEN @ + 1 ELSE @]]
    /\ UNCHANGED <<pc, req, verdict, stops, covered>>

Next ==
    \/ \E h \in Handlers, q \in Requests : Receive(h, q)
    \/ \E h \in Handlers :
          CountApprovals(h) \/ ReadSwitch(h) \/ RecordDecision(h) \/ Abandon(h)
    \/ \E s \in OperatorStops : TripStop(s) \/ ResetStop(s)
    \/ Tick

Spec == Init /\ [][Next]_vars

-----------------------------------------------------------------------------

Decision == [request : Requests, verdict : {"Allow", "Deny"}, age : 0..(Window + 1)]

TypeOK ==
    /\ decisions \in Seq(Decision)
    /\ pc \in [Handlers -> {"idle", "count", "switch", "record"}]
    /\ req \in [Handlers -> Requests]
    /\ verdict \in [Handlers -> {"Allow", "Deny"}]
    /\ stops \subseteq OperatorStops
    /\ covered \subseteq Handlers

(* How far concurrent handlers may exceed the limit: every other handler   *)
(* may hold one more approval that it counted before and records after.    *)
OvershootBounded ==
    \A v \in Vendors : Cardinality(Approvals(v)) < MaxApprovals + Cardinality(Handlers)

(* "a tripped kill-switch overrides whatever Cedar/temporal would otherwise *)
(* allow" (main.py): a request that is under a stop from its arrival to its *)
(* decision is denied, whatever else interleaves.                          *)
StopOverrides == \A h \in covered : pc[h] = "record" => verdict[h] = "Deny"

(* What an agent is allowed to approve exceeds the limit by no more than   *)
(* the half dollar that rounding hides, and never is for a first-seen      *)
(* vendor that lacks its two approvals, which no caller ever counts up.    *)
AgentsApproveRoutine ==
    \A i \in DOMAIN decisions :
        /\ decisions[i].request.action = "ApprovePayment"
        /\ decisions[i].request.type = "Agent"
        /\ decisions[i].verdict = "Allow"
        => /\ decisions[i].request.amount <= ApprovalLimit * 100 + 50
           /\ decisions[i].request.firstSeen
                => decisions[i].request.approvals >= DualApproval
=============================================================================
