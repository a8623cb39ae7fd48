--------------------------- MODULE InvoicePipeline ---------------------------
(***************************************************************************)
(* custodian-backend: the LangGraph pipeline of an invoice (extraction,    *)
(* risk_scoring, approval, human_review, payment_execution), driven by     *)
(* concurrent POST /runs and POST /runs/{id}/resume handlers over one      *)
(* checkpoint per thread, composed with the kill switch that can stop it   *)
(* and with the ledger: what its requests may do there is AtomicLedger,    *)
(* which Ledger.tla implements.                                            *)
(*                                                                         *)
(* A handler works on a copy of the checkpoint it loaded; a checkpoint is  *)
(* saved when a node returns, and the last one saved wins.  A step ends    *)
(* at a call to another service, where the other handlers, the watchdog    *)
(* and the operators may act.                                              *)
(***************************************************************************)
EXTENDS KillSwitch, CedarPolicies, Sequences

CONSTANTS
    Runs,           \* handlers of custodian-backend serving at once
    AgentOf,        \* the agent each node of the graph heartbeats as
    Totals,         \* invoice totals, in cents, the extraction agent may read
    RiskScores,     \* of the risk agent: TRUE for risk_level "high"
    Ledgering,      \* "create-ledger-entry", the tool an operator freezes
    Nobody,         \* the thread of an idle handler
    Cash,           \* the opening balance of operating-cash, in cents
    \* Bounds: which of the environment's behaviours an instance has.
    Resubmission,   \* an invoice id is submitted again
    Crashes,        \* the backend's process dies
    FailingCalls,   \* the calls to other services that may get no answer
    Watched,        \* the watchdog ticks
    PromptAgents,   \* agents and handlers' returns are faster than StaleAfter
    PlaneRestarts   \* the control plane restarts

AgentNodes == {"extraction", "risk_scoring", "approval", "payment_execution"}

Nodes == AgentNodes \union {"human_review"}

ASSUME PipelineAssumption ==
    /\ AgentOf \in [AgentNodes -> Agents]
    /\ Totals \subseteq Nat
    /\ RiskScores \subseteq BOOLEAN
    /\ Nobody \notin Threads
    /\ Cash \in Nat
    /\ Ledgering \in Tools
    /\ FailingCalls \subseteq {"heartbeat", "pause", "status", "authorize"}
    /\ {Resubmission, Crashes, Watched, PromptAgents, PlaneRestarts} \subseteq BOOLEAN

VARIABLES
    ck,             \* the latest checkpoint of each thread
    run,            \* the handler's place in the graph and its copy of the state
    posted,         \* the committed transactions of the ledger, oldest first
    cash,           \* the balance of operating-cash
    trippedInHold   \* history: handlers covered by a stop during their hold

ledgerVars == <<posted, cash>>
backendVars == <<ck, run, ledgerVars, trippedInHold>>
vars == <<killSwitchVars, backendVars>>

TaskStates == {"none", "submitted", "extracted", "risk_scored", "pending_human",
               "approved", "settled", "rejected", "blocked", "failed"}

TerminalTaskStates == {"settled", "rejected", "blocked", "failed"}

Decisions == {"none", "approve", "reject"}

(* InvoiceRunState.  "reviewed": a human approved what this submission     *)
(* extracted; only properties read it.                                     *)
Values == [task : TaskStates, total : Totals \union {0}, high : BOOLEAN,
           needsHuman : BOOLEAN, reviewed : BOOLEAN]

NoValues == [task |-> "none", total |-> 0, high |-> FALSE,
             needsHuman |-> FALSE, reviewed |-> FALSE]

Idle == [pc |-> "idle", thread |-> Nobody, node |-> "end",
         decision |-> "none", values |-> NoValues]

-----------------------------------------------------------------------------
(* The routers of graph.py.                                                *)

RouteAfterExtraction(v) == IF v.task = "failed" THEN "end" ELSE "risk_scoring"

RouteAfterRisk(v) == IF v.needsHuman THEN "human_review" ELSE "approval"

(* Mutant of RouteAfterApproval: it forgets requires_human.                *)
RouteApproved(v) == IF v.task = "rejected" THEN "end" ELSE "payment_execution"

RouteAfterApproval(v) ==
    IF v.task = "rejected" THEN "end"
    ELSE IF v.needsHuman THEN "human_review" ELSE "payment_execution"

(* Mutant of RouteAfterHuman: a label that build_graph has no edge for.    *)
RouteToRejected(decision) ==
    IF decision = "approve" THEN "payment_execution" ELSE "rejected"

RouteAfterHuman(decision) == IF decision = "approve" THEN "payment_execution" ELSE "end"

-----------------------------------------------------------------------------

Fails(call) == call \in FailingCalls

(* _kill_switch_denial: what policy-service looks at for a Payment.        *)
AgentStopped(a) == globalStop \/ a \in pausedAgents

(* policy-service allows what Cedar allows unless the agent is stopped; it *)
(* fails open without the control plane, its client fails closed.          *)
MayAllow(node) == ~AgentStopped(AgentOf[node]) \/ Fails("status")

MayDeny(node) == AgentStopped(AgentOf[node]) \/ Fails("authorize")

(* The re-check of payment_execution.py after the settlement hold.         *)
Frozen(t) ==
    \/ AgentStopped(AgentOf["payment_execution"])
    \/ t \in haltedSessions
    \/ Ledgering \in frozenTools

At(r, pc, node) == run[r].pc = pc /\ run[r].node = node

Moved(r, pc) == run' = [run EXCEPT ![r].pc = pc]

Dropped(r) == run' = [run EXCEPT ![r] = Idle]

(* The node returns state v: a checkpoint is saved and the next node       *)
(* starts.  A resume value is only for the node it was sent to.            *)
FinishNode(r, v, next) ==
    /\ ck' = [ck EXCEPT ![run[r].thread] = [next |-> next, values |-> v]]
    /\ run' = [run EXCEPT ![r].pc = IF next = "end" THEN "returned" ELSE "start",
                          ![r].node = next,
                          ![r].decision = "none",
                          ![r].values = v]

KeyPosted(key) == \E i \in DOMAIN posted : posted[i].key = key

(* Mutant of IdempotencyKey: the amount is part of the key.                *)
KeyWithTotal(r) == <<run[r].thread, run[r].values.total>>

(* f"invoice-{invoice_id}": the same for every run of the thread.          *)
IdempotencyKey(r) == run[r].thread

(* What the ledger checks of the payment's two entries, at the dry run and *)
(* again at the commit: operating-cash may not become negative.            *)
Covered(r) == run[r].values.total <= cash

-----------------------------------------------------------------------------

Init ==
    /\ KillSwitchInit
    /\ ck = [t \in Threads |-> [next |-> "none", values |-> NoValues]]
    /\ run = [r \in Runs |-> Idle]
    /\ posted = << >>
    /\ cash = Cash
    /\ trippedInHold = {}

(* ensure_not_halted lets the request in; otherwise it is answered 423.    *)
Admit(r, t) ==
    /\ run[r].pc = "idle"
    /\ t \notin haltedSessions \/ Fails("status")
    /\ run' = [run EXCEPT ![r].pc = "admitted", ![r].thread = t]
    /\ UNCHANGED <<killSwitchVars, ck, ledgerVars, trippedInHold>>

(* graph.invoke(initial_state): the channels that initial_state does not   *)
(* name keep the values of the thread's previous run.                      *)
Submit(r) ==
    /\ run[r].pc = "admitted"
    /\ LET t == run[r].thread
           v == [ck[t].values EXCEPT !.task = "submitted", !.reviewed = FALSE]
       IN  /\ ck[t].next = "none" \/ Resubmission
           /\ ck' = [ck EXCEPT ![t] = [next |-> "extraction", values |-> v]]
           /\ run' = [run EXCEPT ![r].pc = "start", ![r].node = "extraction",
                                 ![r].values = v]
    /\ UNCHANGED <<killSwitchVars, ledgerVars, trippedInHold>>

(* graph.invoke(Command(resume=decision)) runs the pending node, whichever *)
(* it is; without one it returns the state as it is.                       *)
Resume(r, decision) ==
    /\ run[r].pc = "admitted"
    /\ LET saved == ck[run[r].thread]
       IN  /\ saved.next # "none"
           /\ run' = [run EXCEPT
                 ![r].pc = IF saved.next = "end" THEN "returned" ELSE "start",
                 ![r].node = saved.next,
                 ![r].decision = decision,
                 ![r].values = saved.values]
    /\ UNCHANGED <<killSwitchVars, ck, ledgerVars, trippedInHold>>

(* Every agent's node begins with a best-effort heartbeat.                 *)
Beat(r) ==
    /\ run[r].pc = "start"
    /\ run[r].node \in AgentNodes
    /\ Heartbeat(AgentOf[run[r].node], run[r].thread)
    /\ Moved(r, "work")
    /\ UNCHANGED <<ck, ledgerVars, trippedInHold>>

BeatLost(r) ==
    /\ Fails("heartbeat")
    /\ run[r].pc = "start"
    /\ run[r].node \in AgentNodes
    /\ Moved(r, "work")
    /\ UNCHANGED <<killSwitchVars, ck, ledgerVars, trippedInHold>>

(* extraction.run                                                          *)
Extract(r, total) ==
    /\ At(r, "work", "extraction")
    /\ LET v == [run[r].values EXCEPT !.task = "extracted", !.total = total]
       IN  FinishNode(r, v, RouteAfterExtraction(v))
    /\ UNCHANGED <<killSwitchVars, ledgerVars, trippedInHold>>

BlockUnsafe(r) ==
    /\ At(r, "work", "extraction")
    /\ LET v == [run[r].values EXCEPT !.task = "failed", !.needsHuman = TRUE]
       IN  FinishNode(r, v, RouteAfterExtraction(v))
    /\ UNCHANGED <<killSwitchVars, ledgerVars, trippedInHold>>

(* risk_scoring.run: a high score needs a human if FlagForReview is        *)
(* allowed; a denial is only written to the audit trail.                   *)
ScoreRisk(r, high, flagged) ==
    /\ At(r, "work", "risk_scoring")
    /\ flagged => high /\ MayAllow("risk_scoring")
    /\ high /\ ~flagged => MayDeny("risk_scoring")
    /\ LET v == [run[r].values EXCEPT !.task = "risk_scored", !.high = high,
                                      !.needsHuman = @ \/ flagged]
       IN  FinishNode(r, v, RouteAfterRisk(v))
    /\ UNCHANGED <<killSwitchVars, ledgerVars, trippedInHold>>

(* approval.run: low confidence, escalate_to_human, a critic that          *)
(* disagrees, or ApprovePayment denied.                                    *)
Escalate(r) ==
    /\ At(r, "work", "approval")
    /\ LET v == [run[r].values EXCEPT !.task = "pending_human", !.needsHuman = TRUE]
       IN  FinishNode(r, v, RouteAfterApproval(v))
    /\ UNCHANGED <<killSwitchVars, ledgerVars, trippedInHold>>

RejectByAgent(r) ==
    /\ At(r, "work", "approval")
    /\ LET v == [run[r].values EXCEPT !.task = "rejected", !.needsHuman = FALSE]
       IN  FinishNode(r, v, RouteAfterApproval(v))
    /\ UNCHANGED <<killSwitchVars, ledgerVars, trippedInHold>>

(* Cedar's other reason to deny, a first-seen vendor, only escalates.      *)
ApproveByAgent(r) ==
    /\ At(r, "work", "approval")
    /\ MayAllow("approval")
    /\ RoundedDollars(run[r].values.total) <= ApprovalLimit
    /\ LET v == [run[r].values EXCEPT !.task = "approved"]
       IN  FinishNode(r, v, RouteAfterApproval(v))
    /\ UNCHANGED <<killSwitchVars, ledgerVars, trippedInHold>>

(* human_review_node up to interrupt(): it runs again on a resume.         *)
PauseForHuman(r) ==
    /\ At(r, "start", "human_review")
    /\ IF run[r].decision = "none" THEN Dropped(r) ELSE Moved(r, "decided")
    /\ \/ PauseThread(run[r].thread)
       \/ Fails("pause") /\ UNCHANGED killSwitchVars
    /\ UNCHANGED <<ck, ledgerVars, trippedInHold>>

(* Mutant of UnpauseAfterHuman: the thread stays paused.                   *)
StayPaused(r) ==
    /\ At(r, "decided", "human_review")
    /\ Moved(r, "work")
    /\ UNCHANGED <<killSwitchVars, ck, ledgerVars, trippedInHold>>

UnpauseAfterHuman(r) ==
    /\ At(r, "decided", "human_review")
    /\ Moved(r, "work")
    /\ \/ UnpauseThread(run[r].thread)
       \/ Fails("pause") /\ UNCHANGED killSwitchVars
    /\ UNCHANGED <<ck, ledgerVars, trippedInHold>>

(* The node returns; what route_after_human assigns to its copy of the     *)
(* state is lost, so task_state stays as it was.                           *)
RouteDecision(r) ==
    /\ At(r, "work", "human_review")
    /\ FinishNode(r, [run[r].values EXCEPT !.reviewed = (run[r].decision = "approve")],
                  RouteAfterHuman(run[r].decision))
    /\ UNCHANGED <<killSwitchVars, ledgerVars, trippedInHold>>

(* payment_execution.run: CreateLedgerEntry is authorized, then the dry    *)
(* run, which looks at balances and not at the key, then the hold.         *)
AuthorizePayment(r) ==
    /\ At(r, "work", "payment_execution")
    /\ MayAllow("payment_execution")
    /\ Moved(r, "authorized")
    /\ UNCHANGED <<killSwitchVars, ck, ledgerVars, trippedInHold>>

Blocked(r) == FinishNode(r, [run[r].values EXCEPT !.task = "blocked"], "end")

BlockDenied(r) ==
    /\ At(r, "work", "payment_execution")
    /\ MayDeny("payment_execution")
    /\ Blocked(r)
    /\ UNCHANGED <<killSwitchVars, ledgerVars, trippedInHold>>

BeginHold(r) ==
    /\ At(r, "authorized", "payment_execution")
    /\ Covered(r)
    /\ Moved(r, "hold")
    /\ UNCHANGED <<killSwitchVars, ck, ledgerVars, trippedInHold>>

BlockUncovered(r) ==
    /\ At(r, "authorized", "payment_execution")
    /\ ~Covered(r)
    /\ Blocked(r)
    /\ UNCHANGED <<killSwitchVars, ledgerVars, trippedInHold>>

(* The status read after the hold; without an answer it is all-clear.      *)
BlockAfterHold(r) ==
    /\ At(r, "hold", "payment_execution")
    /\ Frozen(run[r].thread)
    /\ Blocked(r)
    /\ trippedInHold' = trippedInHold \ {r}
    /\ UNCHANGED <<killSwitchVars, ledgerVars>>

(* Mutant of ClearHold: the status read before the hold is used again.     *)
ClearHoldUnread(r) ==
    /\ At(r, "hold", "payment_execution")
    /\ Moved(r, "cleared")
    /\ UNCHANGED <<killSwitchVars, ck, ledgerVars, trippedInHold>>

ClearHold(r) ==
    /\ At(r, "hold", "payment_execution")
    /\ ~Frozen(run[r].thread) \/ Fails("status")
    /\ Moved(r, "cleared")
    /\ UNCHANGED <<killSwitchVars, ck, ledgerVars, trippedInHold>>

(* commit_payment reaches the ledger, which commits it.                    *)
PostPayment(r) ==
    /\ At(r, "cleared", "payment_execution")
    /\ posted' = Append(posted,
          [key |-> IdempotencyKey(r), thread |-> run[r].thread,
           total |-> run[r].values.total, high |-> run[r].values.high,
           reviewed |-> run[r].values.reviewed])
    /\ cash' = cash - run[r].values.total
    /\ Moved(r, "committed")
    /\ UNCHANGED <<killSwitchVars, ck, trippedInHold>>

(* Mutant of CommitPayment: the valid dry run is taken for a reservation.  *)
CommitReserved(r) == ~KeyPosted(IdempotencyKey(r)) /\ PostPayment(r)

CommitPayment(r) ==
    /\ ~KeyPosted(IdempotencyKey(r))
    /\ Covered(r)
    /\ PostPayment(r)

(* Mutant of BlockDuplicate: a 409 is taken as already paid, so settled.   *)
SettleDuplicate(r) ==
    /\ At(r, "cleared", "payment_execution")
    /\ KeyPosted(IdempotencyKey(r))
    /\ FinishNode(r, [run[r].values EXCEPT !.task = "settled"], "end")
    /\ UNCHANGED <<killSwitchVars, ledgerVars, trippedInHold>>

(* The ledger answers 409.                                                 *)
BlockDuplicate(r) ==
    /\ At(r, "cleared", "payment_execution")
    /\ KeyPosted(IdempotencyKey(r))
    /\ Blocked(r)
    /\ UNCHANGED <<killSwitchVars, ledgerVars, trippedInHold>>

(* The answer of the commit arrives; a failure to record the vendor's      *)
(* payment is ignored.                                                     *)
Settle(r) ==
    /\ At(r, "committed", "payment_execution")
    /\ FinishNode(r, [run[r].values EXCEPT !.task = "settled"], "end")
    /\ UNCHANGED <<killSwitchVars, ledgerVars, trippedInHold>>

(* A model, the ledger or the credential broker fails, the commit is       *)
(* answered 422 because the cash is gone, or its answer is lost: the       *)
(* exception leaves the checkpoint at the node.                            *)
RaiseError(r) ==
    /\ run[r].pc \in {"work", "authorized", "cleared", "committed"}
    /\ run[r].node \in AgentNodes
    /\ Dropped(r)
    /\ UNCHANGED <<killSwitchVars, ck, ledgerVars, trippedInHold>>

(* graph.invoke has returned: _pause_if_terminal.                          *)
Return(r) ==
    /\ run[r].pc = "returned"
    /\ Dropped(r)
    /\ \/ run[r].values.task \in TerminalTaskStates /\ PauseThread(run[r].thread)
       \/ run[r].values.task \notin TerminalTaskStates /\ UNCHANGED killSwitchVars
       \/ Fails("pause") /\ UNCHANGED killSwitchVars
    /\ UNCHANGED <<ck, ledgerVars, trippedInHold>>

(* The backend process dies with every run it was serving.                 *)
CrashBackend ==
    /\ Crashes
    /\ \E r \in Runs : run[r].pc # "idle"
    /\ run' = [r \in Runs |-> Idle]
    /\ trippedInHold' = {}
    /\ UNCHANGED <<killSwitchVars, ck, ledgerVars>>

-----------------------------------------------------------------------------
(* The control plane.                                                      *)

Held == {r \in Runs : run[r].pc = "hold"}

RememberTrip == trippedInHold' = trippedInHold \union {r \in Held : Frozen(run[r].thread)'}

OperatorTrip ==
    /\ \E trip \in OperatorTrips : Trip(trip.scope, trip.target)
    /\ UNCHANGED <<ck, run, ledgerVars>>
    /\ RememberTrip

(* An operator who resets a scope takes the stop back.                     *)
OperatorReset ==
    /\ \E trip \in OperatorTrips : Reset(trip.scope, trip.target)
    /\ UNCHANGED <<ck, run, ledgerVars>>
    /\ trippedInHold' = {r \in trippedInHold : Frozen(run[r].thread)'}

(* An agent's node is running, or graph.invoke has just returned and       *)
(* _pause_if_terminal comes next.                                          *)
Working(r, t) ==
    /\ run[r].thread = t
    /\ run[r].node \in AgentNodes \/ run[r].pc = "returned"

(* With prompt agents no tick makes a working handler's thread silent.     *)
Wake ==
    /\ Watched
    /\ Tick
    /\ PromptAgents =>
          \A r \in Runs, t \in Threads : Working(r, t) /\ Silent(t)' => Silent(t)
    /\ UNCHANGED backendVars

CheckStaleHeartbeats ==
    /\ Watched
    /\ QueryStale \/ FinishStale("sleep")
    /\ UNCHANGED backendVars

HaltSilent(t) ==
    /\ Watched
    /\ HaltStale(t)
    /\ UNCHANGED <<ck, run, ledgerVars>>
    /\ RememberTrip

RestartPlane ==
    /\ PlaneRestarts
    /\ RestartControlPlane
    /\ UNCHANGED backendVars

Watchdog == Wake \/ CheckStaleHeartbeats \/ (\E t \in Threads : HaltSilent(t))

-----------------------------------------------------------------------------

Advance(r) ==
    \/ Beat(r) \/ BeatLost(r)
    \/ \E total \in Totals : Extract(r, total)
    \/ BlockUnsafe(r)
    \/ \E high \in RiskScores, flagged \in BOOLEAN : ScoreRisk(r, high, flagged)
    \/ Escalate(r) \/ RejectByAgent(r) \/ ApproveByAgent(r)
    \/ PauseForHuman(r) \/ UnpauseAfterHuman(r) \/ RouteDecision(r)
    \/ AuthorizePayment(r) \/ BlockDenied(r) \/ BeginHold(r) \/ BlockUncovered(r)
    \/ BlockAfterHold(r) \/ ClearHold(r)
    \/ CommitPayment(r) \/ BlockDuplicate(r) \/ Settle(r)
    \/ RaiseError(r) \/ Return(r)

Next ==
    \/ \E r \in Runs, t \in Threads : Admit(r, t)
    \/ \E r \in Runs : Submit(r)
    \/ \E r \in Runs, decision \in {"approve", "reject"} : Resume(r, decision)
    \/ \E r \in Runs : Advance(r)
    \/ CrashBackend
    \/ OperatorTrip \/ OperatorReset \/ Watchdog \/ RestartPlane

Spec == Init /\ [][Next]_vars

(* The watchdog thread keeps looping and handlers that run make progress;  *)
(* nobody has to submit or resume anything.                                *)
FairSpec == Spec /\ WF_vars(Watchdog) /\ \A r \in Runs : WF_vars(Advance(r))

-----------------------------------------------------------------------------

TypeOK ==
    /\ globalStop \in BOOLEAN
    /\ pausedAgents \subseteq Agents
    /\ haltedSessions \subseteq Threads
    /\ frozenTools \subseteq Tools
    /\ age \in [Agents -> [Threads -> Ages]]
    /\ pausedThreads \subseteq Threads
    /\ phase \in {"sleep", "stale", "halt"}
    /\ found \subseteq Threads
    /\ ck \in [Threads -> [next : Nodes \union {"none", "end"}, values : Values]]
    /\ run \in [Runs -> [pc : {"idle", "admitted", "start", "work", "decided", "authorized",
                               "hold", "cleared", "committed", "returned"},
                         thread : Threads \union {Nobody},
                         node : Nodes \union {"end"},
                         decision : Decisions,
                         values : Values]]
    /\ posted \in Seq([key : Threads, thread : Threads, total : Totals \union {0},
                       high : BOOLEAN, reviewed : BOOLEAN])
    /\ cash \in Int
    /\ trippedInHold \subseteq Runs

(* An invoice is paid at most once, however often it is submitted, resumed *)
(* or re-run after a crash or a lost answer, and by however many handlers  *)
(* at once.                                                                *)
PaidOnce == \A i, j \in DOMAIN posted : posted[i].thread = posted[j].thread => i = j

(* An invoice whose checkpoint says "settled" is in the ledger, with the   *)
(* total the checkpoint shows, even after a resubmission with another one. *)
SettledIsPaid ==
    \A t \in Threads :
        ck[t].values.task = "settled" =>
            \E i \in DOMAIN posted :
                posted[i].thread = t /\ posted[i].total = ck[t].values.total

(* A payment above the limit for agents, and the half dollar that Cedar's  *)
(* rounding adds to it, was approved by a human who was asked about that   *)
(* very total (policies/01).                                               *)
LargePaymentsReviewed ==
    \A i \in DOMAIN posted :
        posted[i].total > 100 * ApprovalLimit + 50 => posted[i].reviewed

(* A payment that the risk agent scored high was approved by a human:      *)
(* "Risk or approval escalation pauses the graph for human review".        *)
HighRiskReviewed == \A i \in DOMAIN posted : posted[i].high => posted[i].reviewed

(* "a trip during the hold blocks it": a handler that a stop reached while *)
(* it held a payment never gets to commit it, unless the operator took the *)
(* stop back.                                                              *)
HoldHonoursStop == \A r \in trippedInHold : run[r].pc \notin {"cleared", "committed"}

(* While an agent works on a thread the watchdog looks at the thread: the  *)
(* pause is only for the wait on a human, "not an agent".                  *)
WatchedWhileWorking ==
    \A r \in Runs, t \in Threads :
        Working(r, t) /\ run[r].pc = "work" => t \notin pausedThreads

(* A finished run whose handler has returned is not taken for one whose    *)
(* agent went silent: it is paused by then (_pause_if_terminal), and only  *)
(* a row that the watchdog read before the pause can still halt it.        *)
FinishedNotHalted ==
    [][\A t \in Threads :
          /\ HaltSilent(t) /\ t \notin haltedSessions
          /\ ck[t].next = "end"
          /\ \A r \in Runs : run[r].thread # t
          => t \in pausedThreads]_vars

(* A run that stopped at an agent's node after that thread's first         *)
(* heartbeat, or that waits for a human without being paused for one, is   *)
(* halted, unless somebody picks it up again.                              *)
Stalled(t) ==
    /\ \/ ck[t].next \in AgentNodes
       \/ ck[t].next = "human_review" /\ t \notin pausedThreads
    /\ HasRow(t)
    /\ \A r \in Runs : run[r].thread # t

StalledRunHalted ==
    \A t \in Threads : Stalled(t) ~> t \in haltedSessions \/ ~Stalled(t)

-----------------------------------------------------------------------------
(* The ledger's book as the backend's payments make it.                    *)

(* The entries of payment_execution.run.                                   *)
PaymentRequest(key, total) ==
    [op |-> "post", key |-> key, entries |->
        <<[account |-> "vendor-expense", direction |-> "debit", amount |-> total],
          [account |-> "operating-cash", direction |-> "credit", amount |-> total]>>]

BookAccounts == {"operating-cash", "vendor-expense"}

Book == INSTANCE AtomicLedger WITH
    Accounts <- BookAccounts,
    UnknownAccounts <- {},
    AccountType <- [a \in BookAccounts |-> IF a = "operating-cash" THEN "asset" ELSE "expense"],
    AllowNegative <- [a \in BookAccounts |-> a = "vendor-expense"],
    OpeningBalance <- [a \in BookAccounts |-> IF a = "operating-cash" THEN Cash ELSE 0],
    Keys <- Threads,
    Requests <- {PaymentRequest(t, total) : t \in Threads, total \in Totals \union {0}},
    balance <- [a \in BookAccounts |-> IF a = "operating-cash" THEN cash ELSE Cash - cash],
    posted <- [i \in DOMAIN posted |-> PaymentRequest(posted[i].key, posted[i].total)]

(* Whatever handlers do at once, the backend changes the ledger only by    *)
(* postings that its book allows: no key twice, cash never below zero,     *)
(* although the dry run that said so is older than the hold.               *)
PaysIntoBook == Book!Spec
=============================================================================
