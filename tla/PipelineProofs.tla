--------------------------- MODULE PipelineProofs ---------------------------
(***************************************************************************)
(* Theorems about InvoicePipeline, for any number of invoices, handlers,   *)
(* totals, crashes and calls that fail.                                    *)
(*                                                                         *)
(* Every step is first reduced to what it does to checkpoints, handlers    *)
(* and the ledger (StepKinds); the invariants are then proved by kind.     *)
(* What steps do to the kill switch, the settlement hold, the pause rows   *)
(* and the ledger's book follows in sections of their own.                 *)
(***************************************************************************)
EXTENDS InvoicePipeline, KillSwitchProofs, SequenceTheorems

(* Half a dollar is all that rounding can hide.                            *)
LEMMA RoundingHides ==
  ASSUME NEW c \in Int, RoundedDollars(c) <= ApprovalLimit
  PROVE  c <= ApprovalLimit * 100 + 50
<1>1. c = 100 * (c \div 100) + (c % 100) /\ c % 100 \in 0..99 /\ c \div 100 \in Int
  OBVIOUS
<1>2. CASE c \div 100 < 5000
  BY <1>1, <1>2 DEF ApprovalLimit
<1>3. CASE c \div 100 >= 5000
  <2>1. c \div 100 = 5000 /\ ~(c % 100 > 50)
    BY <1>1, <1>3 DEF RoundedDollars, ApprovalLimit
  <2>2. QED
    BY <1>1, <2>1 DEF ApprovalLimit
<1>4. QED
  BY <1>1, <1>2, <1>3

Pcs == {"idle", "admitted", "start", "work", "decided", "authorized",
        "hold", "cleared", "committed", "returned"}

RunStates == [pc : Pcs, thread : Threads \union {Nobody}, node : Nodes \union {"end"},
              decision : Decisions, values : Values]

Checkpoints == [next : Nodes \union {"none", "end"}, values : Values]

Transactions == [key : Threads, thread : Threads, total : Totals \union {0},
                 high : BOOLEAN, reviewed : BOOLEAN]

(* TypeOK: Tables of KillSwitchProofs, the watchdog, and the backend.      *)
WatchdogTypes ==
    /\ phase \in {"sleep", "stale", "halt"}
    /\ found \subseteq Threads

BackendTypes ==
    /\ ck \in [Threads -> Checkpoints]
    /\ run \in [Runs -> RunStates]
    /\ posted \in Seq(Transactions)
    /\ cash \in Int

(* A handler that does not serve, or has only been let in, holds nothing.  *)
HandlersFresh ==
    \A r \in Runs :
        /\ run[r].pc \in {"idle", "admitted"} => run[r].values = NoValues /\ run[r].node = "end"
        /\ run[r].pc # "idle" => run[r].thread \in Threads

PaidBy(t, total) ==
    \E i \in DOMAIN posted : posted[i].thread = t /\ posted[i].total = total

(* Whatever says that it is settled, a checkpoint or the copy a handler    *)
(* works on, and a handler whose commit was answered, has its posting.     *)
SettledInv ==
    /\ \A t \in Threads :
          ck[t].values.task = "settled" => PaidBy(t, ck[t].values.total)
    /\ \A r \in Runs :
          run[r].values.task = "settled" \/ run[r].pc = "committed"
              => PaidBy(run[r].thread, run[r].values.total)

Large(v) == v.total > 100 * ApprovalLimit + 50

(* A large total that has reached the payment was reviewed on its way.     *)
LargeInv ==
    /\ \A t \in Threads :
          ck[t].next = "payment_execution" /\ Large(ck[t].values) => ck[t].values.reviewed
    /\ \A r \in Runs :
          run[r].node = "payment_execution" /\ Large(run[r].values) => run[r].values.reviewed

(* An invoice has one key, and a key one posting.                          *)
KeyInv ==
    /\ \A i \in DOMAIN posted : posted[i].key = posted[i].thread
    /\ PaidOnce

IInv ==
    /\ BackendTypes
    /\ HandlersFresh
    /\ KeyInv
    /\ SettledInv
    /\ LargeInv
    /\ LargePaymentsReviewed

(* A handler that a stop reached in its hold is still there, and stopped.  *)
HoldInv ==
    /\ trippedInHold \subseteq Runs
    /\ \A r \in trippedInHold : run[r].pc = "hold" /\ Frozen(run[r].thread)

-----------------------------------------------------------------------------
(* What a step does to the backend's state.                                *)

Quiet == UNCHANGED <<ck, run, ledgerVars>>

LetIn == \E r \in Runs, t \in Threads :
    /\ run[r].pc = "idle"
    /\ run' = [run EXCEPT ![r].pc = "admitted", ![r].thread = t]
    /\ UNCHANGED <<ck, ledgerVars>>

Starts == \E r \in Runs : Submit(r)

Continues == \E r \in Runs, decision \in Decisions : Resume(r, decision)

Moves == \E r \in Runs, pc \in Pcs \ {"idle", "admitted", "committed"} :
    /\ run[r].pc \notin {"idle", "admitted"}
    /\ Moved(r, pc)
    /\ UNCHANGED <<ck, ledgerVars>>

Drops == \E r \in Runs : Dropped(r) /\ UNCHANGED <<ck, ledgerVars>>

Dies == run' = [r \in Runs |-> Idle] /\ UNCHANGED <<ck, ledgerVars>>

(* A node that returns "settled" was answered by the ledger or began so;   *)
(* one that hands on to the payment hands on a total that may be paid.     *)
Finishes == \E r \in Runs, v \in Values, next \in Nodes \union {"end"} :
    /\ run[r].pc \notin {"idle", "admitted"}
    /\ FinishNode(r, v, next)
    /\ v.task = "settled" =>
          /\ run[r].values.task = "settled" \/ run[r].pc = "committed"
          /\ v.total = run[r].values.total
    /\ next = "payment_execution" /\ Large(v) => v.reviewed
    /\ UNCHANGED ledgerVars

Commits == \E r \in Runs : CommitPayment(r)

Kinds == Quiet \/ LetIn \/ Starts \/ Continues \/ Moves \/ Drops \/ Dies \/ Finishes \/ Commits

-----------------------------------------------------------------------------
(* Typing of the pieces.                                                   *)

LEMMA NoValuesType == NoValues \in Values /\ Idle \in RunStates
  BY DEF NoValues, Values, TaskStates, Idle, RunStates, Pcs, Decisions

LEMMA MovedEffect ==
  ASSUME BackendTypes, NEW r \in Runs, NEW pc \in Pcs, Moved(r, pc)
  PROVE  /\ run' \in [Runs -> RunStates]
         /\ run'[r].pc = pc /\ run'[r].thread = run[r].thread
         /\ run'[r].node = run[r].node /\ run'[r].values = run[r].values
         /\ \A q \in Runs : q # r => run'[q] = run[q]
  BY DEF BackendTypes, Moved, RunStates

LEMMA DroppedEffect ==
  ASSUME BackendTypes, NEW r \in Runs, Dropped(r)
  PROVE  /\ run' \in [Runs -> RunStates]
         /\ run'[r] = Idle
         /\ \A q \in Runs : q # r => run'[q] = run[q]
  BY NoValuesType DEF BackendTypes, Dropped

LEMMA PlaceEffect ==
  ASSUME BackendTypes, NEW r \in Runs, NEW pc \in Pcs, NEW node \in Nodes \union {"end"},
         NEW decision \in Decisions, NEW v \in Values,
         run' = [run EXCEPT ![r].pc = pc, ![r].node = node, ![r].decision = decision,
                            ![r].values = v]
  PROVE  /\ run' \in [Runs -> RunStates]
         /\ run'[r].pc = pc /\ run'[r].thread = run[r].thread
         /\ run'[r].node = node /\ run'[r].values = v
         /\ \A q \in Runs : q # r => run'[q] = run[q]
<1>1. run \in [Runs -> RunStates]
  BY DEF BackendTypes
<1>2. /\ run'[r] = [run[r] EXCEPT !.pc = pc, !.node = node, !.decision = decision, !.values = v]
      /\ \A q \in Runs : q # r => run'[q] = run[q]
      /\ DOMAIN run' = Runs
  BY <1>1
<1>3. run[r] \in RunStates
  BY <1>1
<1>4. run'[r] = [pc |-> pc, thread |-> run[r].thread, node |-> node,
                 decision |-> decision, values |-> v]
  BY <1>2, <1>3 DEF RunStates
<1>5. run'[r] \in RunStates
  <2>1. run[r].thread \in Threads \union {Nobody}
    BY <1>3 DEF RunStates
  <2>2. [pc |-> pc, thread |-> run[r].thread, node |-> node,
         decision |-> decision, values |-> v] \in RunStates
    BY <2>1 DEF RunStates
  <2>3. QED
    BY <1>4, <2>2
<1>6. run' \in [Runs -> RunStates]
  BY <1>1, <1>2, <1>5
<1>7. QED
  BY <1>2, <1>4, <1>6

LEMMA FinishEffect ==
  ASSUME BackendTypes, NEW r \in Runs, NEW v \in Values,
         NEW next \in Nodes \union {"end"}, FinishNode(r, v, next), run[r].thread \in Threads
  PROVE  /\ run' \in [Runs -> RunStates]
         /\ ck' \in [Threads -> Checkpoints]
         /\ run'[r].pc \in {"start", "returned"} /\ run'[r].thread = run[r].thread
         /\ run'[r].node = next /\ run'[r].values = v
         /\ \A q \in Runs : q # r => run'[q] = run[q]
         /\ ck'[run[r].thread].next = next /\ ck'[run[r].thread].values = v
         /\ \A t \in Threads : t # run[r].thread => ck'[t] = ck[t]
<1>1. ck' = [ck EXCEPT ![run[r].thread] = [next |-> next, values |-> v]]
  BY DEF FinishNode
<1>2. [next |-> next, values |-> v] \in Checkpoints
  BY DEF Checkpoints
<1>3. ck \in [Threads -> Checkpoints] /\ run \in [Runs -> RunStates]
  BY DEF BackendTypes
<1>4. /\ ck' \in [Threads -> Checkpoints]
      /\ ck'[run[r].thread].next = next /\ ck'[run[r].thread].values = v
      /\ \A t \in Threads : t # run[r].thread => ck'[t] = ck[t]
  BY <1>1, <1>2, <1>3
<1>5. run' = [run EXCEPT ![r].pc = IF next = "end" THEN "returned" ELSE "start",
                         ![r].node = next, ![r].decision = "none", ![r].values = v]
  BY DEF FinishNode
<1>6. PICK pc \in {"start", "returned"}, d \in Decisions :
         run' = [run EXCEPT ![r].pc = pc, ![r].node = next, ![r].decision = d, ![r].values = v]
  BY <1>5 DEF Decisions
<1>7. QED
  <2>1. pc \in Pcs /\ next \in Nodes \union {"end"} /\ v \in Values
    BY DEF Pcs
  <2>2. /\ run' \in [Runs -> RunStates]
        /\ run'[r].pc = pc /\ run'[r].thread = run[r].thread
        /\ run'[r].node = next /\ run'[r].values = v
        /\ \A q \in Runs : q # r => run'[q] = run[q]
    BY <1>6, <2>1, PlaceEffect, Zenon
  <2>3. QED
    BY <1>4, <2>2

LEMMA TaskSet ==
  ASSUME NEW v \in Values, NEW task \in TaskStates
  PROVE  /\ [v EXCEPT !.task = task] \in Values
         /\ [v EXCEPT !.task = task].task = task
         /\ [v EXCEPT !.task = task].total = v.total
  BY DEF Values

LEMMA TaskAndReviewSet ==
  ASSUME NEW v \in Values, NEW task \in TaskStates, NEW b \in BOOLEAN
  PROVE  /\ [v EXCEPT !.task = task, !.reviewed = b] \in Values
         /\ [v EXCEPT !.task = task, !.reviewed = b].task = task
  BY DEF Values

LEMMA TaskAndNeedSet ==
  ASSUME NEW v \in Values, NEW task \in TaskStates, NEW b \in BOOLEAN
  PROVE  /\ [v EXCEPT !.task = task, !.needsHuman = b] \in Values
         /\ [v EXCEPT !.task = task, !.needsHuman = b].task = task
         /\ [v EXCEPT !.task = task, !.needsHuman = b].needsHuman = b
  BY DEF Values

LEMMA TaskAndTotalSet ==
  ASSUME NEW v \in Values, NEW task \in TaskStates, NEW total \in Totals
  PROVE  /\ [v EXCEPT !.task = task, !.total = total] \in Values
         /\ [v EXCEPT !.task = task, !.total = total].task = task
  BY DEF Values

LEMMA ReviewSet ==
  ASSUME NEW v \in Values, NEW b \in BOOLEAN
  PROVE  /\ [v EXCEPT !.reviewed = b] \in Values
         /\ [v EXCEPT !.reviewed = b].reviewed = b
         /\ [v EXCEPT !.reviewed = b].task = v.task
         /\ [v EXCEPT !.reviewed = b].total = v.total
  BY DEF Values

LEMMA TotalIsInt ==
  ASSUME NEW v \in Values
  PROVE  v.total \in Nat
<1>1. v.total \in Totals \union {0}
  BY DEF Values
<1>2. Totals \subseteq Nat
  BY PipelineAssumption
<1>3. 0 \in Nat
  OBVIOUS
<1>4. QED
  BY <1>1, <1>2, <1>3, Zenon

-----------------------------------------------------------------------------
(* Every step is of one of the kinds.                                      *)

(* What a node's return needs to be a step that finishes one.              *)
LEMMA FinishKind ==
  ASSUME BackendTypes, NEW r \in Runs, NEW v \in Values, NEW next \in Nodes \union {"end"},
         run[r].pc \notin {"idle", "admitted"}, FinishNode(r, v, next), UNCHANGED ledgerVars,
         v.task = "settled" =>
            /\ run[r].values.task = "settled" \/ run[r].pc = "committed"
            /\ v.total = run[r].values.total,
         next = "payment_execution" /\ Large(v) => v.reviewed
  PROVE  Kinds
  BY DEF Kinds, Finishes

LEMMA ReviewKind ==
  ASSUME BackendTypes, NEW r \in Runs,
         \/ \E total \in Totals : Extract(r, total)
         \/ BlockUnsafe(r)
         \/ \E high \in RiskScores, flagged \in BOOLEAN : ScoreRisk(r, high, flagged)
         \/ Escalate(r) \/ RejectByAgent(r) \/ ApproveByAgent(r)
         \/ RouteDecision(r)
  PROVE  Kinds
<1>0. run[r].values \in Values
  BY DEF BackendTypes, RunStates
<1> DEFINE old == run[r].values
<1> USE DEF At
<1>1. ASSUME NEW total \in Totals, Extract(r, total) PROVE Kinds
  <2> DEFINE v == [old EXCEPT !.task = "extracted", !.total = total]
  <2>1. v \in Values /\ v.task = "extracted"
    BY <1>0, TaskAndTotalSet DEF TaskStates
  <2>2. FinishNode(r, v, "risk_scoring") /\ UNCHANGED ledgerVars /\ run[r].pc = "work"
    BY <1>1, <2>1 DEF Extract, RouteAfterExtraction
  <2> HIDE DEF v
  <2>3. QED
    BY <2>1, <2>2, FinishKind DEF Nodes, AgentNodes
<1>2. ASSUME BlockUnsafe(r) PROVE Kinds
  <2> DEFINE v == [old EXCEPT !.task = "failed", !.needsHuman = TRUE]
  <2>1. v \in Values /\ v.task = "failed"
    BY <1>0, TaskAndNeedSet DEF TaskStates
  <2>2. FinishNode(r, v, "end") /\ UNCHANGED ledgerVars /\ run[r].pc = "work"
    BY <1>2, <2>1 DEF BlockUnsafe, RouteAfterExtraction
  <2> HIDE DEF v
  <2>3. QED
    BY <2>1, <2>2, FinishKind
<1>3. ASSUME NEW high \in RiskScores, NEW flagged \in BOOLEAN, ScoreRisk(r, high, flagged)
      PROVE  Kinds
  <2> DEFINE need == old.needsHuman \/ flagged
  <2> DEFINE v == [old EXCEPT !.task = "risk_scored", !.high = high, !.needsHuman = need]
  <2>1. high \in BOOLEAN
    BY PipelineAssumption
  <2>2. need \in BOOLEAN
    <3>1. CASE need
      BY <3>1
    <3>2. CASE ~need
      BY <3>2
    <3>3. QED
      BY <3>1, <3>2
  <2>3. PICK next \in {"human_review", "approval"} : FinishNode(r, v, next)
    BY <1>3 DEF ScoreRisk, RouteAfterRisk
  <2>4. UNCHANGED ledgerVars /\ run[r].pc = "work"
    BY <1>3 DEF ScoreRisk
  <2> HIDE DEF need
  <2>5. v \in Values /\ v.task = "risk_scored"
    BY <1>0, <2>1, <2>2 DEF Values, TaskStates
  <2> HIDE DEF v
  <2>6. QED
    BY <2>3, <2>4, <2>5, FinishKind DEF Nodes, AgentNodes
<1>4. ASSUME Escalate(r) PROVE Kinds
  <2> DEFINE v == [old EXCEPT !.task = "pending_human", !.needsHuman = TRUE]
  <2>1. v \in Values /\ v.task = "pending_human" /\ v.needsHuman
    BY <1>0, TaskAndNeedSet DEF TaskStates
  <2>2. FinishNode(r, v, "human_review") /\ UNCHANGED ledgerVars /\ run[r].pc = "work"
    BY <1>4, <2>1 DEF Escalate, RouteAfterApproval
  <2> HIDE DEF v
  <2>3. QED
    BY <2>1, <2>2, FinishKind DEF Nodes
<1>5. ASSUME RejectByAgent(r) PROVE Kinds
  <2> DEFINE v == [old EXCEPT !.task = "rejected", !.needsHuman = FALSE]
  <2>1. v \in Values /\ v.task = "rejected"
    BY <1>0, TaskAndNeedSet DEF TaskStates
  <2>2. FinishNode(r, v, "end") /\ UNCHANGED ledgerVars /\ run[r].pc = "work"
    BY <1>5, <2>1 DEF RejectByAgent, RouteAfterApproval
  <2> HIDE DEF v
  <2>3. QED
    BY <2>1, <2>2, FinishKind
<1>6. ASSUME ApproveByAgent(r) PROVE Kinds
  <2> DEFINE v == [old EXCEPT !.task = "approved"]
  <2>1. v \in Values /\ v.task = "approved" /\ v.total = old.total
    BY <1>0, TaskSet DEF TaskStates
  <2>2. PICK next \in {"human_review", "payment_execution"} : FinishNode(r, v, next)
    BY <1>6, <2>1 DEF ApproveByAgent, RouteAfterApproval
  <2>3. UNCHANGED ledgerVars /\ run[r].pc = "work" /\ RoundedDollars(old.total) <= ApprovalLimit
    BY <1>6 DEF ApproveByAgent
  <2>4. old.total \in Int
    BY <1>0, TotalIsInt
  <2>5. ~Large(v)
    BY <2>1, <2>3, <2>4, RoundingHides DEF Large, ApprovalLimit
  <2> HIDE DEF v
  <2>6. QED
    BY <2>1, <2>2, <2>3, <2>5, FinishKind DEF Nodes, AgentNodes
<1>7. ASSUME RouteDecision(r) PROVE Kinds
  <2> DEFINE v == [old EXCEPT !.reviewed = (run[r].decision = "approve")]
  <2>1. v \in Values /\ v.task = old.task /\ v.total = old.total
        /\ (v.reviewed <=> run[r].decision = "approve")
    BY <1>0, ReviewSet DEF TaskStates
  <2>2. PICK next \in {"payment_execution", "end"} :
           FinishNode(r, v, next) /\ (next = "payment_execution" => run[r].decision = "approve")
    BY <1>7 DEF RouteDecision, RouteAfterHuman
  <2>3. UNCHANGED ledgerVars /\ run[r].pc = "work"
    BY <1>7 DEF RouteDecision
  <2> HIDE DEF v
  <2>4. QED
    BY <2>1, <2>2, <2>3, FinishKind DEF Nodes, AgentNodes
<1>8. QED
  BY <1>1, <1>2, <1>3, <1>4, <1>5, <1>6, <1>7

LEMMA PaymentKind ==
  ASSUME BackendTypes, NEW r \in Runs,
         \/ BlockDenied(r) \/ BlockUncovered(r) \/ BlockAfterHold(r) \/ BlockDuplicate(r)
         \/ Settle(r)
  PROVE  Kinds
<1>0. run[r].values \in Values
  BY DEF BackendTypes, RunStates
<1> DEFINE old == run[r].values
<1>1. CASE BlockDenied(r) \/ BlockUncovered(r) \/ BlockAfterHold(r) \/ BlockDuplicate(r)
  <2> DEFINE v == [old EXCEPT !.task = "blocked"]
  <2>1. v \in Values /\ v.task = "blocked"
    BY <1>0, TaskSet DEF TaskStates
  <2>2. FinishNode(r, v, "end") /\ UNCHANGED ledgerVars /\ run[r].pc \notin {"idle", "admitted"}
    BY <1>1 DEF BlockDenied, BlockUncovered, BlockAfterHold, BlockDuplicate, Blocked, At
  <2> HIDE DEF v
  <2>3. QED
    BY <2>1, <2>2, FinishKind
<1>2. CASE Settle(r)
  <2> DEFINE v == [old EXCEPT !.task = "settled"]
  <2>1. v \in Values /\ v.total = old.total
    BY <1>0, TaskSet DEF TaskStates
  <2>2. FinishNode(r, v, "end") /\ UNCHANGED ledgerVars /\ run[r].pc = "committed"
    BY <1>2 DEF Settle, At
  <2> HIDE DEF v
  <2>3. QED
    BY <2>1, <2>2, FinishKind
<1>3. QED
  BY <1>1, <1>2
LEMMA AdvanceKind ==
  ASSUME BackendTypes, HandlersFresh, NEW r \in Runs, Advance(r)
  PROVE  Kinds
<1> USE DEF At
<1>1. CASE \/ Beat(r) \/ BeatLost(r) \/ UnpauseAfterHuman(r) \/ AuthorizePayment(r)
           \/ BeginHold(r) \/ ClearHold(r)
  <2>1. PICK pc \in {"work", "authorized", "hold", "cleared"} :
           Moved(r, pc) /\ UNCHANGED <<ck, ledgerVars>> /\ run[r].pc \notin {"idle", "admitted"}
    BY <1>1 DEF Beat, BeatLost, UnpauseAfterHuman, AuthorizePayment, BeginHold, ClearHold
  <2>2. QED
    BY <2>1 DEF Kinds, Moves, Pcs
<1>2. CASE PauseForHuman(r)
  <2>1. /\ UNCHANGED <<ck, ledgerVars>> /\ run[r].pc = "start"
        /\ Dropped(r) \/ Moved(r, "decided")
    BY <1>2 DEF PauseForHuman
  <2>2. QED
    BY <2>1 DEF Kinds, Moves, Drops, Pcs
<1>3. CASE RaiseError(r) \/ Return(r)
  BY <1>3 DEF RaiseError, Return, Kinds, Drops
<1>4. CASE CommitPayment(r)
  BY <1>4 DEF Kinds, Commits
<1>5. CASE \/ \E total \in Totals : Extract(r, total)
           \/ BlockUnsafe(r)
           \/ \E high \in RiskScores, flagged \in BOOLEAN : ScoreRisk(r, high, flagged)
           \/ Escalate(r) \/ RejectByAgent(r) \/ ApproveByAgent(r)
           \/ RouteDecision(r)
  BY <1>5, ReviewKind
<1>6. CASE \/ BlockDenied(r) \/ BlockUncovered(r) \/ BlockAfterHold(r) \/ BlockDuplicate(r)
           \/ Settle(r)
  BY <1>6, PaymentKind
<1>7. QED
  BY <1>1, <1>2, <1>3, <1>4, <1>5, <1>6 DEF Advance

LEMMA StepKinds ==
  ASSUME BackendTypes, HandlersFresh, [Next]_vars
  PROVE  Kinds
<1>1. ASSUME NEW r \in Runs, NEW t \in Threads, Admit(r, t) PROVE Kinds
  BY <1>1 DEF Admit, Kinds, LetIn
<1>2. ASSUME NEW r \in Runs, Submit(r) PROVE Kinds
  BY <1>2 DEF Kinds, Starts
<1>3. ASSUME NEW r \in Runs, NEW decision \in {"approve", "reject"}, Resume(r, decision)
      PROVE  Kinds
  BY <1>3 DEF Kinds, Continues, Decisions
<1>4. ASSUME NEW r \in Runs, Advance(r) PROVE Kinds
  BY <1>4, AdvanceKind
<1>5. CASE CrashBackend
  BY <1>5 DEF CrashBackend, Kinds, Dies
<1>6. CASE OperatorTrip \/ OperatorReset \/ Watchdog \/ RestartPlane \/ UNCHANGED vars
  <2>1. UNCHANGED <<ck, run, ledgerVars>>
    BY <1>6 DEF OperatorTrip, OperatorReset, Watchdog, Wake, CheckStaleHeartbeats, HaltSilent,
                RestartPlane, vars, backendVars
  <2>2. QED
    BY <2>1 DEF Kinds, Quiet
<1>7. QED
  BY <1>1, <1>2, <1>3, <1>4, <1>5, <1>6 DEF Next
-----------------------------------------------------------------------------
(* The steps that are not a move, a drop or a node's return.               *)

LEMMA AdmitEffect ==
  ASSUME BackendTypes, NEW r \in Runs, NEW t \in Threads,
         run' = [run EXCEPT ![r].pc = "admitted", ![r].thread = t]
  PROVE  /\ run' \in [Runs -> RunStates]
         /\ run'[r].pc = "admitted" /\ run'[r].thread = t
         /\ run'[r].node = run[r].node /\ run'[r].values = run[r].values
         /\ \A q \in Runs : q # r => run'[q] = run[q]
  BY DEF BackendTypes, RunStates, Pcs

LEMMA SubmitEffect ==
  ASSUME BackendTypes, HandlersFresh, NEW r \in Runs, Submit(r)
  PROVE  \E v \in Values :
            /\ v.task = "submitted"
            /\ run[r].thread \in Threads
            /\ ck' = [ck EXCEPT ![run[r].thread] = [next |-> "extraction", values |-> v]]
            /\ ck' \in [Threads -> Checkpoints]
            /\ run' \in [Runs -> RunStates]
            /\ run'[r].pc = "start" /\ run'[r].thread = run[r].thread
            /\ run'[r].node = "extraction" /\ run'[r].values = v
            /\ \A q \in Runs : q # r => run'[q] = run[q]
<1> DEFINE t == run[r].thread
<1> DEFINE v == [ck[t].values EXCEPT !.task = "submitted", !.reviewed = FALSE]
<1>1. t \in Threads
  BY DEF Submit, HandlersFresh
<1>2. v \in Values /\ v.task = "submitted"
  <2>1. ck[t].values \in Values
    BY <1>1 DEF BackendTypes, Checkpoints
  <2>2. QED
    BY <2>1, TaskAndReviewSet DEF TaskStates
<1>3. /\ ck' = [ck EXCEPT ![t] = [next |-> "extraction", values |-> v]]
      /\ run' = [run EXCEPT ![r].pc = "start", ![r].node = "extraction", ![r].values = v]
  BY DEF Submit
<1> HIDE DEF v
<1>4. [next |-> "extraction", values |-> v] \in Checkpoints
  BY <1>2 DEF Checkpoints, Nodes, AgentNodes
<1>5. ck' \in [Threads -> Checkpoints]
  BY <1>1, <1>3, <1>4 DEF BackendTypes
<1>6. run' = [run EXCEPT ![r].pc = "start", ![r].node = "extraction",
                         ![r].decision = run[r].decision, ![r].values = v]
  BY <1>3 DEF BackendTypes, RunStates
<1>7. /\ run' \in [Runs -> RunStates]
      /\ run'[r].pc = "start" /\ run'[r].thread = t
      /\ run'[r].node = "extraction" /\ run'[r].values = v
      /\ \A q \in Runs : q # r => run'[q] = run[q]
  <2>1. run[r].decision \in Decisions
    BY DEF BackendTypes, RunStates
  <2>2. "start" \in Pcs /\ "extraction" \in Nodes \union {"end"}
    BY DEF Pcs, Nodes, AgentNodes
  <2>3. QED
    BY <1>2, <1>6, <2>1, <2>2, PlaceEffect
<1>8. QED
  BY <1>1, <1>2, <1>3, <1>5, <1>6, <1>7

LEMMA ResumeEffect ==
  ASSUME BackendTypes, HandlersFresh, NEW r \in Runs, NEW decision \in Decisions,
         Resume(r, decision)
  PROVE  /\ run[r].thread \in Threads
         /\ UNCHANGED <<ck, ledgerVars>>
         /\ run' \in [Runs -> RunStates]
         /\ run'[r].pc \in {"start", "returned"} /\ run'[r].thread = run[r].thread
         /\ run'[r].node = ck[run[r].thread].next
         /\ run'[r].values = ck[run[r].thread].values
         /\ \A q \in Runs : q # r => run'[q] = run[q]
<1> DEFINE t == run[r].thread
<1>1. t \in Threads
  BY DEF Resume, HandlersFresh
<1>2. ck[t] \in Checkpoints /\ ck[t].next # "none"
  BY <1>1 DEF BackendTypes, Resume
<1>3. ck[t].next \in Nodes \union {"end"} /\ ck[t].values \in Values
  BY <1>2 DEF Checkpoints
<1>4. PICK pc \in {"start", "returned"} :
         run' = [run EXCEPT ![r].pc = pc, ![r].node = ck[t].next,
                            ![r].decision = decision, ![r].values = ck[t].values]
  BY DEF Resume
<1>5. /\ run' \in [Runs -> RunStates]
      /\ run'[r].pc = pc /\ run'[r].thread = t
      /\ run'[r].node = ck[t].next /\ run'[r].values = ck[t].values
      /\ \A q \in Runs : q # r => run'[q] = run[q]
  <2>1. pc \in Pcs
    BY DEF Pcs
  <2>2. QED
    BY <1>3, <1>4, <2>1, PlaceEffect, Zenon
<1>6. QED
  BY <1>1, <1>5 DEF Resume

LEMMA CommitEffect ==
  ASSUME BackendTypes, HandlersFresh, NEW r \in Runs, CommitPayment(r)
  PROVE  \E x \in Transactions :
            /\ x.key = run[r].thread /\ x.thread = run[r].thread
            /\ x.total = run[r].values.total /\ x.high = run[r].values.high
            /\ x.reviewed = run[r].values.reviewed
            /\ posted' = Append(posted, x)
            /\ \A i \in DOMAIN posted : posted[i].key # run[r].thread
            /\ cash' \in Int
            /\ UNCHANGED ck
            /\ run[r].node = "payment_execution"
            /\ Moved(r, "committed") /\ run[r].pc = "cleared"
<1> DEFINE x == [key |-> run[r].thread, thread |-> run[r].thread,
                 total |-> run[r].values.total, high |-> run[r].values.high,
                 reviewed |-> run[r].values.reviewed]
<1>1. run[r].pc = "cleared" /\ run[r].node = "payment_execution"
  BY DEF CommitPayment, PostPayment, At
<1>2. run[r].thread \in Threads /\ run[r].values \in Values
  BY <1>1 DEF HandlersFresh, BackendTypes, RunStates
<1>3. x \in Transactions
  BY <1>2 DEF Transactions, Values
<1>4. cash' \in Int
  <2>1. run[r].values.total \in Nat /\ cash \in Int
    BY <1>2, TotalIsInt DEF BackendTypes
  <2>2. cash' = cash - run[r].values.total
    BY DEF CommitPayment, PostPayment
  <2>3. QED
    BY <2>1, <2>2
<1>5. posted' = Append(posted, x) /\ UNCHANGED ck /\ Moved(r, "committed")
  BY DEF CommitPayment, PostPayment, IdempotencyKey
<1>6. \A i \in DOMAIN posted : posted[i].key # run[r].thread
  BY DEF CommitPayment, KeyPosted, IdempotencyKey
<1>7. QED
  BY <1>1, <1>3, <1>4, <1>5, <1>6
-----------------------------------------------------------------------------
(* The invariants, kind by kind.                                           *)

LEMMA BackendTypesKept ==
  ASSUME BackendTypes, HandlersFresh, Kinds
  PROVE  BackendTypes'
<1>1. CASE Quiet
  BY <1>1 DEF Quiet, BackendTypes, ledgerVars
<1>2. CASE LetIn
  BY <1>2, AdmitEffect DEF LetIn, BackendTypes, ledgerVars
<1>3. CASE Starts
  <2>1. PICK r \in Runs : Submit(r)
    BY <1>3 DEF Starts
  <2>2. ck' \in [Threads -> Checkpoints] /\ run' \in [Runs -> RunStates]
    BY <2>1, SubmitEffect
  <2>3. QED
    BY <2>1, <2>2 DEF Submit, BackendTypes, ledgerVars
<1>4. CASE Continues
  BY <1>4, ResumeEffect DEF Continues, BackendTypes, ledgerVars
<1>5. CASE Moves
  BY <1>5, MovedEffect DEF Moves, BackendTypes, ledgerVars
<1>6. CASE Drops
  BY <1>6, DroppedEffect DEF Drops, BackendTypes, ledgerVars
<1>7. CASE Dies
  BY <1>7, NoValuesType DEF Dies, BackendTypes, ledgerVars
<1>8. CASE Finishes
  <2>1. PICK r \in Runs, v \in Values, next \in Nodes \union {"end"} :
           /\ run[r].pc \notin {"idle", "admitted"}
           /\ FinishNode(r, v, next)
           /\ UNCHANGED ledgerVars
    BY <1>8 DEF Finishes
  <2>2. run[r].thread \in Threads
    BY <2>1 DEF HandlersFresh
  <2>3. QED
    BY <2>1, <2>2, FinishEffect DEF BackendTypes, ledgerVars
<1>9. CASE Commits
  <2>1. PICK r \in Runs : CommitPayment(r)
    BY <1>9 DEF Commits
  <2>2. PICK x \in Transactions : posted' = Append(posted, x) /\ cash' \in Int /\ UNCHANGED ck
                                  /\ Moved(r, "committed")
    BY <2>1, CommitEffect
  <2>3. run' \in [Runs -> RunStates]
    BY <2>2, MovedEffect DEF Pcs
  <2>4. posted' \in Seq(Transactions)
    BY <2>2, AppendProperties DEF BackendTypes
  <2>5. QED
    BY <2>2, <2>3, <2>4 DEF BackendTypes
<1>10. QED
  BY <1>1, <1>2, <1>3, <1>4, <1>5, <1>6, <1>7, <1>8, <1>9 DEF Kinds

LEMMA HandlersFreshKept ==
  ASSUME BackendTypes, HandlersFresh, Kinds
  PROVE  HandlersFresh'
<1> USE DEF HandlersFresh
<1>1. CASE Quiet
  BY <1>1 DEF Quiet
<1>2. CASE LetIn
  <2>1. PICK r \in Runs, t \in Threads :
           run[r].pc = "idle" /\ run' = [run EXCEPT ![r].pc = "admitted", ![r].thread = t]
    BY <1>2 DEF LetIn
  <2>2. /\ run'[r].thread = t /\ run'[r].node = run[r].node /\ run'[r].values = run[r].values
        /\ \A q \in Runs : q # r => run'[q] = run[q]
    BY <2>1, AdmitEffect
  <2>3. QED
    BY <2>1, <2>2
<1>3. CASE Starts
  <2>1. PICK r \in Runs : Submit(r)
    BY <1>3 DEF Starts
  <2>2. /\ run'[r].pc = "start" /\ run'[r].thread \in Threads
        /\ \A q \in Runs : q # r => run'[q] = run[q]
    BY <2>1, SubmitEffect
  <2>3. QED
    BY <2>2
<1>4. CASE Continues
  <2>1. PICK r \in Runs, decision \in Decisions : Resume(r, decision)
    BY <1>4 DEF Continues
  <2>2. /\ run'[r].pc \in {"start", "returned"} /\ run'[r].thread \in Threads
        /\ \A q \in Runs : q # r => run'[q] = run[q]
    BY <2>1, ResumeEffect
  <2>3. QED
    BY <2>2
<1>5. CASE Moves
  <2>1. PICK r \in Runs, pc \in Pcs \ {"idle", "admitted", "committed"} :
           run[r].pc \notin {"idle", "admitted"} /\ Moved(r, pc)
    BY <1>5 DEF Moves
  <2>2. /\ run'[r].pc = pc /\ run'[r].thread = run[r].thread
        /\ \A q \in Runs : q # r => run'[q] = run[q]
    BY <2>1, MovedEffect
  <2>3. QED
    BY <2>1, <2>2
<1>6. CASE Drops
  <2>1. PICK r \in Runs : Dropped(r)
    BY <1>6 DEF Drops
  <2>2. run'[r] = Idle /\ \A q \in Runs : q # r => run'[q] = run[q]
    BY <2>1, DroppedEffect
  <2>3. QED
    BY <2>2 DEF Idle
<1>7. CASE Dies
  BY <1>7 DEF Dies, Idle
<1>8. CASE Finishes
  <2>1. PICK r \in Runs, v \in Values, next \in Nodes \union {"end"} :
           run[r].pc \notin {"idle", "admitted"} /\ FinishNode(r, v, next)
    BY <1>8 DEF Finishes
  <2>2. run[r].thread \in Threads
    BY <2>1
  <2>3. /\ run'[r].pc \in {"start", "returned"} /\ run'[r].thread \in Threads
        /\ \A q \in Runs : q # r => run'[q] = run[q]
    BY <2>1, <2>2, FinishEffect
  <2>4. QED
    BY <2>3
<1>9. CASE Commits
  <2>1. PICK r \in Runs : Moved(r, "committed") /\ run[r].pc = "cleared"
    BY <1>9, CommitEffect DEF Commits
  <2>2. /\ run'[r].pc = "committed" /\ run'[r].thread = run[r].thread
        /\ \A q \in Runs : q # r => run'[q] = run[q]
    BY <2>1, MovedEffect DEF Pcs
  <2>3. QED
    BY <2>1, <2>2
<1>10. QED
  BY <1>1, <1>2, <1>3, <1>4, <1>5, <1>6, <1>7, <1>8, <1>9 DEF Kinds
(* What has been paid stays paid.                                          *)
LEMMA PaidByKept ==
  ASSUME BackendTypes, HandlersFresh, Kinds
  PROVE  \A t, total : PaidBy(t, total) => PaidBy(t, total)'
<1>1. CASE UNCHANGED posted
  BY <1>1 DEF PaidBy
<1>2. CASE Commits
  <2>1. PICK x \in Transactions : posted' = Append(posted, x)
    BY <1>2, CommitEffect DEF Commits
  <2>2. DOMAIN posted \subseteq DOMAIN posted' /\ \A i \in DOMAIN posted : posted'[i] = posted[i]
    BY <2>1, AppendProperties DEF BackendTypes
  <2>3. QED
    BY <2>2 DEF PaidBy
<1>3. UNCHANGED posted \/ Commits
  BY DEF Kinds, Quiet, LetIn, Starts, Submit, Continues, Resume, Moves, Drops, Dies, Finishes,
         ledgerVars
<1>4. QED
  BY <1>1, <1>2, <1>3
LEMMA SettledInvKept ==
  ASSUME BackendTypes, HandlersFresh, SettledInv, Kinds
  PROVE  SettledInv'
<1> USE DEF SettledInv
<1>0. \A t, total : PaidBy(t, total) => PaidBy(t, total)'
  BY PaidByKept
<1>1. CASE Quiet
  BY <1>0, <1>1 DEF Quiet, HandlersFresh
<1>2. CASE LetIn
  <2>1. PICK r \in Runs, t \in Threads :
           /\ run[r].pc = "idle" /\ UNCHANGED ck
           /\ run' = [run EXCEPT ![r].pc = "admitted", ![r].thread = t]
    BY <1>2 DEF LetIn
  <2>2. /\ run'[r].pc = "admitted" /\ run'[r].values = run[r].values
        /\ \A q \in Runs : q # r => run'[q] = run[q]
    BY <2>1, AdmitEffect
  <2>3. run[r].values.task # "settled"
    BY <2>1 DEF HandlersFresh, NoValues
  <2>4. QED
    BY <1>0, <2>1, <2>2, <2>3
<1>3. CASE Starts
  <2>1. PICK r \in Runs : Submit(r)
    BY <1>3 DEF Starts
  <2>2. PICK v \in Values :
            /\ v.task = "submitted"
            /\ run[r].thread \in Threads
            /\ ck' = [ck EXCEPT ![run[r].thread] = [next |-> "extraction", values |-> v]]
            /\ run'[r].pc = "start" /\ run'[r].values = v
            /\ \A q \in Runs : q # r => run'[q] = run[q]
    BY <2>1, SubmitEffect
  <2>3. ck'[run[r].thread].values = v /\ \A t \in Threads : t # run[r].thread => ck'[t] = ck[t]
    BY <2>2 DEF BackendTypes
  <2>4. QED
    BY <1>0, <2>2, <2>3
<1>4. CASE Continues
  <2>1. PICK r \in Runs, decision \in Decisions : Resume(r, decision)
    BY <1>4 DEF Continues
  <2>2. /\ run[r].thread \in Threads /\ UNCHANGED ck
        /\ run'[r].pc \in {"start", "returned"} /\ run'[r].thread = run[r].thread
        /\ run'[r].values = ck[run[r].thread].values
        /\ \A q \in Runs : q # r => run'[q] = run[q]
    BY <2>1, ResumeEffect
  <2>3. QED
    BY <1>0, <2>2
<1>5. CASE Moves
  <2>1. PICK r \in Runs, pc \in Pcs \ {"idle", "admitted", "committed"} :
           Moved(r, pc) /\ UNCHANGED ck
    BY <1>5 DEF Moves
  <2>2. /\ run'[r].pc = pc /\ run'[r].thread = run[r].thread /\ run'[r].values = run[r].values
        /\ \A q \in Runs : q # r => run'[q] = run[q]
    BY <2>1, MovedEffect
  <2>3. QED
    BY <1>0, <2>1, <2>2
<1>6. CASE Drops
  <2>1. PICK r \in Runs : Dropped(r) /\ UNCHANGED ck
    BY <1>6 DEF Drops
  <2>2. run'[r] = Idle /\ \A q \in Runs : q # r => run'[q] = run[q]
    BY <2>1, DroppedEffect
  <2>3. Idle.values.task # "settled" /\ Idle.pc # "committed"
    BY DEF Idle, NoValues
  <2>4. QED
    BY <1>0, <2>1, <2>2, <2>3
<1>7. CASE Dies
  <2>1. Idle.values.task # "settled" /\ Idle.pc # "committed"
    BY DEF Idle, NoValues
  <2>2. QED
    BY <1>0, <1>7, <2>1 DEF Dies
<1>8. CASE Finishes
  <2>1. PICK r \in Runs, v \in Values, next \in Nodes \union {"end"} :
           /\ run[r].pc \notin {"idle", "admitted"}
           /\ FinishNode(r, v, next)
           /\ v.task = "settled" =>
                 /\ run[r].values.task = "settled" \/ run[r].pc = "committed"
                 /\ v.total = run[r].values.total
    BY <1>8 DEF Finishes
  <2>2. run[r].thread \in Threads
    BY <2>1 DEF HandlersFresh
  <2>3. /\ run'[r].pc \in {"start", "returned"} /\ run'[r].thread = run[r].thread
        /\ run'[r].values = v
        /\ \A q \in Runs : q # r => run'[q] = run[q]
        /\ ck'[run[r].thread].values = v
        /\ \A t \in Threads : t # run[r].thread => ck'[t] = ck[t]
    BY <2>1, <2>2, FinishEffect
  <2>4. v.task = "settled" => PaidBy(run[r].thread, v.total)
    BY <2>1
  <2>5. QED
    BY <1>0, <2>2, <2>3, <2>4
<1>9. CASE Commits
  <2>1. PICK r \in Runs : CommitPayment(r)
    BY <1>9 DEF Commits
  <2>2. PICK x \in Transactions :
           /\ x.thread = run[r].thread /\ x.total = run[r].values.total
           /\ posted' = Append(posted, x) /\ UNCHANGED ck /\ Moved(r, "committed")
    BY <2>1, CommitEffect
  <2>3. /\ run'[r].pc = "committed" /\ run'[r].thread = run[r].thread
        /\ run'[r].values = run[r].values
        /\ \A q \in Runs : q # r => run'[q] = run[q]
    BY <2>2, MovedEffect DEF Pcs
  <2>4. Len(posted) + 1 \in DOMAIN posted' /\ posted'[Len(posted) + 1] = x
    BY <2>2, AppendProperties DEF BackendTypes
  <2>5. PaidBy(run[r].thread, run[r].values.total)'
    BY <2>2, <2>3, <2>4 DEF PaidBy
  <2>6. QED
    BY <1>0, <2>2, <2>3, <2>5
<1>10. QED
  BY <1>1, <1>2, <1>3, <1>4, <1>5, <1>6, <1>7, <1>8, <1>9 DEF Kinds

LEMMA LargeInvKept ==
  ASSUME BackendTypes, HandlersFresh, LargeInv, Kinds
  PROVE  LargeInv'
<1> USE DEF LargeInv, Large
<1>1. CASE Quiet
  BY <1>1 DEF Quiet
<1>2. CASE LetIn
  <2>1. PICK r \in Runs, t \in Threads :
           /\ run[r].pc = "idle" /\ UNCHANGED ck
           /\ run' = [run EXCEPT ![r].pc = "admitted", ![r].thread = t]
    BY <1>2 DEF LetIn
  <2>2. /\ run'[r].node = run[r].node /\ run'[r].values = run[r].values
        /\ \A q \in Runs : q # r => run'[q] = run[q]
    BY <2>1, AdmitEffect
  <2>3. QED
    BY <2>1, <2>2
<1>3. CASE Starts
  <2>1. PICK r \in Runs : Submit(r)
    BY <1>3 DEF Starts
  <2>2. PICK v \in Values :
            /\ run[r].thread \in Threads
            /\ ck' = [ck EXCEPT ![run[r].thread] = [next |-> "extraction", values |-> v]]
            /\ run'[r].node = "extraction"
            /\ \A q \in Runs : q # r => run'[q] = run[q]
    BY <2>1, SubmitEffect
  <2>3. /\ ck'[run[r].thread].next = "extraction"
        /\ \A t \in Threads : t # run[r].thread => ck'[t] = ck[t]
    BY <2>2 DEF BackendTypes
  <2>4. QED
    BY <2>2, <2>3
<1>4. CASE Continues
  <2>1. PICK r \in Runs, decision \in Decisions : Resume(r, decision)
    BY <1>4 DEF Continues
  <2>2. /\ run[r].thread \in Threads /\ UNCHANGED ck
        /\ run'[r].node = ck[run[r].thread].next
        /\ run'[r].values = ck[run[r].thread].values
        /\ \A q \in Runs : q # r => run'[q] = run[q]
    BY <2>1, ResumeEffect
  <2>3. QED
    BY <2>2
<1>5. CASE Moves \/ Commits
  <2>1. PICK r \in Runs, pc \in Pcs : Moved(r, pc) /\ UNCHANGED ck
    <3>1. ASSUME Moves PROVE \E r \in Runs, pc \in Pcs : Moved(r, pc) /\ UNCHANGED ck
      BY <3>1 DEF Moves
    <3>2. ASSUME Commits PROVE \E r \in Runs, pc \in Pcs : Moved(r, pc) /\ UNCHANGED ck
      BY <3>2, CommitEffect DEF Commits, Pcs
    <3>3. QED
      BY <1>5, <3>1, <3>2
  <2>2. /\ run'[r].node = run[r].node /\ run'[r].values = run[r].values
        /\ \A q \in Runs : q # r => run'[q] = run[q]
    BY <2>1, MovedEffect
  <2>3. QED
    BY <2>1, <2>2
<1>6. CASE Drops
  <2>1. PICK r \in Runs : Dropped(r) /\ UNCHANGED ck
    BY <1>6 DEF Drops
  <2>2. run'[r] = Idle /\ \A q \in Runs : q # r => run'[q] = run[q]
    BY <2>1, DroppedEffect
  <2>3. Idle.node # "payment_execution"
    BY DEF Idle
  <2>4. QED
    BY <2>1, <2>2, <2>3
<1>7. CASE Dies
  BY <1>7 DEF Dies, Idle
<1>8. CASE Finishes
  <2>1. PICK r \in Runs, v \in Values, next \in Nodes \union {"end"} :
           /\ run[r].pc \notin {"idle", "admitted"}
           /\ FinishNode(r, v, next)
           /\ next = "payment_execution" /\ Large(v) => v.reviewed
    BY <1>8 DEF Finishes
  <2>2. run[r].thread \in Threads
    BY <2>1 DEF HandlersFresh
  <2>3. /\ run'[r].node = next /\ run'[r].values = v
        /\ \A q \in Runs : q # r => run'[q] = run[q]
        /\ ck'[run[r].thread].next = next /\ ck'[run[r].thread].values = v
        /\ \A t \in Threads : t # run[r].thread => ck'[t] = ck[t]
    BY <2>1, <2>2, FinishEffect
  <2>4. QED
    BY <2>1, <2>2, <2>3
<1>9. QED
  BY <1>1, <1>2, <1>3, <1>4, <1>5, <1>6, <1>7, <1>8 DEF Kinds

(* What a commit adds to the book.                                         *)
LEMMA BookKept ==
  ASSUME BackendTypes, HandlersFresh, LargeInv, KeyInv, LargePaymentsReviewed, Kinds
  PROVE  KeyInv' /\ LargePaymentsReviewed'
<1> USE DEF KeyInv, PaidOnce, LargePaymentsReviewed
<1>1. CASE UNCHANGED posted
  BY <1>1
<1>2. CASE Commits
  <2>1. PICK r \in Runs : CommitPayment(r)
    BY <1>2 DEF Commits
  <2>2. PICK x \in Transactions :
           /\ x.key = run[r].thread /\ x.thread = run[r].thread
           /\ x.total = run[r].values.total /\ x.reviewed = run[r].values.reviewed
           /\ posted' = Append(posted, x)
           /\ \A i \in DOMAIN posted : posted[i].key # run[r].thread
           /\ run[r].node = "payment_execution"
    BY <2>1, CommitEffect
  <2>3. /\ Len(posted') = Len(posted) + 1 /\ posted' \in Seq(Transactions)
        /\ \A i \in 1..Len(posted) : posted'[i] = posted[i]
        /\ posted'[Len(posted) + 1] = x
    BY <2>2, AppendProperties DEF BackendTypes
  <2>4. \A i \in DOMAIN posted' : i \in DOMAIN posted \/ i = Len(posted) + 1
    BY <2>3 DEF BackendTypes
  <2>5. \A i \in DOMAIN posted : posted'[i] = posted[i]
    BY <2>3 DEF BackendTypes
  <2>6. x.total > 100 * ApprovalLimit + 50 => x.reviewed
    BY <2>2 DEF LargeInv, Large
  <2>7. LargePaymentsReviewed'
    BY <2>3, <2>4, <2>5, <2>6
  <2>8. (\A i \in DOMAIN posted : posted[i].key = posted[i].thread)'
    BY <2>2, <2>3, <2>4, <2>5
  <2>9. \A i \in DOMAIN posted : posted[i].thread # x.thread
    BY <2>2
  <2>10. PaidOnce'
    BY <2>3, <2>4, <2>5, <2>9
  <2>11. QED
    BY <2>7, <2>8, <2>10
<1>3. UNCHANGED posted \/ Commits
  BY DEF Kinds, Quiet, LetIn, Starts, Submit, Continues, Resume, Moves, Drops, Dies, Finishes,
         ledgerVars
<1>4. QED
  BY <1>1, <1>2, <1>3

LEMMA IInvInit == Init => IInv
<1> SUFFICES ASSUME Init PROVE IInv
  OBVIOUS
<1>1. /\ ck = [t \in Threads |-> [next |-> "none", values |-> NoValues]]
      /\ run = [r \in Runs |-> Idle]
      /\ posted = << >> /\ cash = Cash
  BY DEF Init
<1>2. BackendTypes
  <2>1. [next |-> "none", values |-> NoValues] \in Checkpoints
    BY NoValuesType DEF Checkpoints
  <2>2. cash \in Int
    <3>1. Cash \in Nat
      BY PipelineAssumption
    <3>2. QED
      BY <1>1, <3>1
  <2>3. posted \in Seq(Transactions)
    BY <1>1
  <2>4. QED
    BY <1>1, <2>1, <2>2, <2>3, NoValuesType DEF BackendTypes
<1>3. HandlersFresh
  BY <1>1 DEF HandlersFresh, Idle
<1>4. KeyInv /\ LargePaymentsReviewed
  BY <1>1 DEF KeyInv, PaidOnce, LargePaymentsReviewed
<1>5. SettledInv
  BY <1>1 DEF SettledInv, Idle, NoValues
<1>6. LargeInv
  BY <1>1 DEF LargeInv, Idle
<1>7. QED
  BY <1>2, <1>3, <1>4, <1>5, <1>6 DEF IInv

LEMMA IInvKept == IInv /\ [Next]_vars => IInv'
<1> SUFFICES ASSUME IInv, [Next]_vars PROVE IInv'
  OBVIOUS
<1> USE DEF IInv
<1>1. Kinds
  BY StepKinds
<1>2. BackendTypes'
  BY <1>1, BackendTypesKept
<1>3. HandlersFresh'
  BY <1>1, HandlersFreshKept
<1>4. SettledInv'
  BY <1>1, SettledInvKept
<1>5. LargeInv'
  BY <1>1, LargeInvKept
<1>6. KeyInv' /\ LargePaymentsReviewed'
  BY <1>1, BookKept
<1>7. QED
  BY <1>2, <1>3, <1>4, <1>5, <1>6

LEMMA IInvHolds == Spec => []IInv
  BY IInvInit, IInvKept, PTL DEF Spec

-----------------------------------------------------------------------------

(* An invoice is paid at most once.  The key of a payment is its thread,   *)
(* and no transaction is posted under a key that is there already.         *)
THEOREM InvoicesPaidOnce == Spec => []PaidOnce
<1>1. IInv => PaidOnce
  BY DEF IInv, KeyInv
<1>2. QED
  BY <1>1, IInvHolds, PTL

(* A checkpoint that says "settled" shows the total that was paid: nothing *)
(* settles but the answer of a commit, with the total committed.           *)
THEOREM SettledWasPaid == Spec => []SettledIsPaid
<1>1. IInv => SettledIsPaid
  BY DEF IInv, SettledInv, SettledIsPaid, PaidBy
<1>2. QED
  BY <1>1, IInvHolds, PTL

(* Every payment above the agents' limit was approved by a human asked     *)
(* about that very total: no way to the payment's node carries a large     *)
(* total that was not reviewed, over checkpoints, copies and resumes.      *)
THEOREM LargePaymentsWereReviewed == Spec => []LargePaymentsReviewed
<1>1. IInv => LargePaymentsReviewed
  BY DEF IInv
<1>2. QED
  BY <1>1, IInvHolds, PTL

-----------------------------------------------------------------------------
(* The kill switch under the pipeline.                                     *)

SwitchKinds ==
    \/ UNCHANGED killSwitchVars
    \/ Served
    \/ Tick
    \/ QueryStale \/ FinishStale("sleep") \/ (\E t \in Threads : HaltStale(t))
    \/ PlaneRestarts /\ RestartControlPlane

(* The calls a handler makes are of the thread it serves.                  *)
LEMMA AdvanceServed ==
  ASSUME HandlersFresh, NEW r \in Runs, Advance(r)
  PROVE  UNCHANGED killSwitchVars \/ Served
<1>1. CASE Beat(r)
  <2>1. AgentOf[run[r].node] \in Agents
    BY <1>1, PipelineAssumption DEF Beat
  <2>2. run[r].thread \in Threads
    BY <1>1 DEF Beat, HandlersFresh
  <2>3. QED
    BY <1>1, <2>1, <2>2 DEF Beat, Served
<1>2. CASE PauseForHuman(r) \/ UnpauseAfterHuman(r) \/ Return(r)
  <2>1. run[r].thread \in Threads
    BY <1>2 DEF PauseForHuman, UnpauseAfterHuman, Return, HandlersFresh, At
  <2>2. QED
    BY <1>2, <2>1 DEF PauseForHuman, UnpauseAfterHuman, Return, Served
<1>3. ASSUME ~Beat(r), ~PauseForHuman(r), ~UnpauseAfterHuman(r), ~Return(r)
      PROVE  UNCHANGED killSwitchVars
  BY <1>3 DEF Advance, BeatLost, Extract, BlockUnsafe, ScoreRisk, Escalate, RejectByAgent,
              ApproveByAgent, RouteDecision, AuthorizePayment, BlockDenied, BeginHold,
              BlockUncovered, BlockAfterHold, ClearHold, CommitPayment, PostPayment,
              BlockDuplicate, Settle, RaiseError
<1>4. QED
  BY <1>1, <1>2, <1>3

LEMMA StepSwitchKinds ==
  ASSUME HandlersFresh, [Next]_vars
  PROVE  SwitchKinds
<1>1. ASSUME NEW r \in Runs, Advance(r) PROVE SwitchKinds
  BY <1>1, AdvanceServed DEF SwitchKinds
<1>2. CASE OperatorTrip \/ OperatorReset
  BY <1>2 DEF OperatorTrip, OperatorReset, SwitchKinds, Served, Operate
<1>3. CASE Watchdog \/ RestartPlane
  BY <1>3 DEF Watchdog, Wake, CheckStaleHeartbeats, HaltSilent, RestartPlane, SwitchKinds
<1>4. ASSUME \/ UNCHANGED vars \/ CrashBackend
             \/ \E r \in Runs, t \in Threads : Admit(r, t)
             \/ \E r \in Runs : Submit(r)
             \/ \E r \in Runs, decision \in {"approve", "reject"} : Resume(r, decision)
      PROVE  SwitchKinds
  BY <1>4 DEF vars, CrashBackend, Admit, Submit, Resume, SwitchKinds
<1>5. QED
  BY <1>1, <1>2, <1>3, <1>4 DEF Next

LEMMA SwitchTypesKept ==
  ASSUME Tables, WatchdogTypes, SwitchKinds
  PROVE  Tables' /\ WatchdogTypes'
<1> USE DEF WatchdogTypes
<1>1. CASE UNCHANGED killSwitchVars
  BY <1>1 DEF killSwitchVars, switchVars, watchdogVars, Tables
<1>2. CASE Served
  <2>1. UNCHANGED watchdogVars
    BY <1>2 DEF Served, Heartbeat, PauseThread, UnpauseThread, Operate, Trip, Reset
  <2>2. QED
    BY <1>2, <2>1, ServedKeepsTables DEF watchdogVars
<1>3. CASE Tick
  BY <1>3, TickKeepsTables DEF Tick
<1>4. CASE QueryStale \/ FinishStale("sleep")
  BY <1>4 DEF QueryStale, FinishStale, StaleThreads, Tables, switchVars
<1>5. CASE \E t \in Threads : HaltStale(t)
  BY <1>5, HaltKeepsTables DEF HaltStale
<1>6. CASE RestartControlPlane
  BY <1>6, RestartKeepsTables DEF RestartControlPlane
<1>7. QED
  BY <1>1, <1>2, <1>3, <1>4, <1>5, <1>6 DEF SwitchKinds

(* The history is of handlers.                                             *)
LEMMA TrippedKept ==
  ASSUME trippedInHold \subseteq Runs, [Next]_vars
  PROVE  trippedInHold' \subseteq Runs
<1>1. ASSUME NEW r \in Runs, Advance(r) PROVE trippedInHold' \subseteq Runs
  BY <1>1 DEF Advance, Beat, BeatLost, Extract, BlockUnsafe, ScoreRisk, Escalate, RejectByAgent,
              ApproveByAgent, PauseForHuman, UnpauseAfterHuman, RouteDecision, AuthorizePayment,
              BlockDenied, BeginHold, BlockUncovered, BlockAfterHold, ClearHold, CommitPayment,
              PostPayment, BlockDuplicate, Settle, RaiseError, Return
<1>2. CASE OperatorTrip \/ OperatorReset \/ Watchdog \/ RestartPlane \/ UNCHANGED vars
  BY <1>2 DEF OperatorTrip, OperatorReset, Watchdog, Wake, CheckStaleHeartbeats, HaltSilent,
              RestartPlane, vars, backendVars, RememberTrip, Held
<1>3. ASSUME \/ CrashBackend
             \/ \E r \in Runs, t \in Threads : Admit(r, t)
             \/ \E r \in Runs : Submit(r)
             \/ \E r \in Runs, decision \in {"approve", "reject"} : Resume(r, decision)
      PROVE  trippedInHold' \subseteq Runs
  BY <1>3 DEF CrashBackend, Admit, Submit, Resume
<1>4. QED
  BY <1>1, <1>2, <1>3 DEF Next

(* Every state of the pipeline and its kill switch is of its type: whatever*)
(* handlers, crashes and restarts do, a checkpoint names a node of the     *)
(* graph and a transaction a total the extraction agent has read.          *)
THEOREM PipelineTypeCorrect == Spec => []TypeOK
<1> DEFINE TInv == IInv /\ Tables /\ WatchdogTypes /\ trippedInHold \subseteq Runs
<1>1. Init => TInv
  BY IInvInit, TablesInit DEF Init, KillSwitchInit, WatchdogTypes
<1>2. TInv /\ [Next]_vars => TInv'
  <2> SUFFICES ASSUME TInv, [Next]_vars PROVE TInv'
    OBVIOUS
  <2>1. HandlersFresh
    BY DEF IInv
  <2>2. Tables' /\ WatchdogTypes'
    BY <2>1, StepSwitchKinds, SwitchTypesKept
  <2>3. IInv'
    BY IInvKept
  <2>4. QED
    BY <2>2, <2>3, TrippedKept
<1>3. TInv => TypeOK
  BY DEF IInv, BackendTypes, RunStates, Checkpoints, Transactions, Pcs, Tables, WatchdogTypes,
         TypeOK
<1>4. QED
  BY <1>1, <1>2, <1>3, PTL DEF Spec

-----------------------------------------------------------------------------
(* The settlement hold.                                                    *)

(* A stop that is not taken back stays on.                                 *)
LEMMA FrozenStays ==
  ASSUME globalStop => globalStop', pausedAgents \subseteq pausedAgents',
         haltedSessions \subseteq haltedSessions', frozenTools \subseteq frozenTools',
         NEW r \in Runs, run'[r] = run[r], Frozen(run[r].thread)
  PROVE  Frozen(run[r].thread)'
  BY DEF Frozen, AgentStopped

(* What a handler's step does to the switch and to the other handlers.     *)
LEMMA AdvanceAlone ==
  ASSUME BackendTypes, NEW r \in Runs, Advance(r)
  PROVE  /\ UNCHANGED switchVars
         /\ \A q \in Runs : q # r => run'[q] = run[q]
         /\ trippedInHold' \subseteq trippedInHold
<1>1. UNCHANGED switchVars
  BY DEF Advance, Beat, BeatLost, Extract, BlockUnsafe, ScoreRisk, Escalate, RejectByAgent,
         ApproveByAgent, PauseForHuman, UnpauseAfterHuman, RouteDecision, AuthorizePayment,
         BlockDenied, BeginHold, BlockUncovered, BlockAfterHold, ClearHold, CommitPayment,
         PostPayment, BlockDuplicate, Settle, RaiseError, Return, killSwitchVars,
         Heartbeat, PauseThread, UnpauseThread
<1>2. trippedInHold' \subseteq trippedInHold
  BY DEF Advance, Beat, BeatLost, Extract, BlockUnsafe, ScoreRisk, Escalate, RejectByAgent,
         ApproveByAgent, PauseForHuman, UnpauseAfterHuman, RouteDecision, AuthorizePayment,
         BlockDenied, BeginHold, BlockUncovered, BlockAfterHold, ClearHold, CommitPayment,
         PostPayment, BlockDuplicate, Settle, RaiseError, Return
<1>3. \/ \E pc : Moved(r, pc)
      \/ Dropped(r)
      \/ \E v, next : FinishNode(r, v, next)
  BY DEF Advance, Beat, BeatLost, Extract, BlockUnsafe, ScoreRisk, Escalate, RejectByAgent,
         ApproveByAgent, PauseForHuman, UnpauseAfterHuman, RouteDecision, AuthorizePayment,
         BlockDenied, BeginHold, BlockUncovered, BlockAfterHold, ClearHold, CommitPayment,
         PostPayment, BlockDuplicate, Settle, RaiseError, Return, Blocked
<1>4. \A q \in Runs : q # r => run'[q] = run[q]
  BY <1>3 DEF BackendTypes, Moved, Dropped, FinishNode
<1>5. QED
  BY <1>1, <1>2, <1>4

(* A handler that a stop has reached leaves its hold only to be blocked.   *)
LEMMA StoppedHandlerStays ==
  ASSUME ~Fails("status"), NEW r \in Runs, Advance(r), run[r].pc = "hold",
         Frozen(run[r].thread)
  PROVE  r \notin trippedInHold'
<1>1. BlockAfterHold(r)
  BY DEF Advance, Beat, BeatLost, Extract, BlockUnsafe, ScoreRisk, Escalate, RejectByAgent,
         ApproveByAgent, PauseForHuman, UnpauseAfterHuman, RouteDecision, AuthorizePayment,
         BlockDenied, BeginHold, BlockUncovered, ClearHold, CommitPayment,
         PostPayment, BlockDuplicate, Settle, RaiseError, Return, At
<1>2. QED
  BY <1>1 DEF BlockAfterHold

LEMMA HoldInvKept ==
  ASSUME ~Fails("status"), ~PlaneRestarts, BackendTypes, HoldInv, [Next]_vars
  PROVE  HoldInv'
<1> USE DEF HoldInv
<1>1. ASSUME NEW r \in Runs, Advance(r) PROVE HoldInv'
  <2>1. SUFFICES ASSUME NEW q \in trippedInHold'
                 PROVE  run'[q].pc = "hold" /\ Frozen(run[q].thread)'
    BY <1>1, AdvanceAlone
  <2>2. q \in trippedInHold /\ q \in Runs /\ q # r
    BY <1>1, AdvanceAlone, StoppedHandlerStays
  <2>3. run'[q] = run[q] /\ UNCHANGED switchVars
    BY <1>1, <2>2, AdvanceAlone
  <2>4. Frozen(run[q].thread)'
    BY <2>2, <2>3, FrozenStays DEF switchVars
  <2>5. QED
    BY <2>2, <2>3, <2>4
<1>2. ASSUME NEW r \in Runs,
             \/ \E t \in Threads : Admit(r, t)
             \/ Submit(r)
             \/ \E decision \in {"approve", "reject"} : Resume(r, decision)
      PROVE  HoldInv'
  <2>1. /\ run[r].pc # "hold"
        /\ \A q \in Runs : q # r => run'[q] = run[q]
        /\ UNCHANGED <<switchVars, trippedInHold>>
    BY <1>2 DEF Admit, Submit, Resume, BackendTypes, killSwitchVars
  <2>2. \A q \in trippedInHold : q \in Runs /\ run'[q] = run[q]
    BY <2>1
  <2>3. \A q \in trippedInHold : Frozen(run[q].thread)'
    BY <2>1, <2>2, FrozenStays DEF switchVars
  <2>4. QED
    BY <2>1, <2>2, <2>3
<1>3. CASE CrashBackend
  BY <1>3 DEF CrashBackend
<1>4. CASE OperatorTrip \/ \E t \in Threads : HaltSilent(t)
  <2>1. /\ UNCHANGED run /\ RememberTrip
        /\ globalStop => globalStop'
        /\ pausedAgents \subseteq pausedAgents'
        /\ haltedSessions \subseteq haltedSessions' /\ frozenTools \subseteq frozenTools'
    <3>1. CASE OperatorTrip
      <4>1. PICK trip \in OperatorTrips : Trip(trip.scope, trip.target)
        BY <3>1 DEF OperatorTrip
      <4>2. /\ globalStop => globalStop'
            /\ pausedAgents \subseteq pausedAgents'
            /\ haltedSessions \subseteq haltedSessions'
            /\ frozenTools \subseteq frozenTools'
        BY <4>1 DEF Trip
      <4>3. QED
        BY <3>1, <4>2 DEF OperatorTrip
    <3>2. CASE \E t \in Threads : HaltSilent(t)
      BY <3>2 DEF HaltSilent, HaltStale
    <3>3. QED
      BY <1>4, <3>1, <3>2
  <2>2. \A q \in trippedInHold : Frozen(run[q].thread)'
    BY <2>1, FrozenStays
  <2>3. QED
    BY <2>1, <2>2 DEF RememberTrip, Held
<1>5. CASE OperatorReset
  BY <1>5 DEF OperatorReset
<1>6. CASE Wake \/ CheckStaleHeartbeats \/ UNCHANGED vars
  <2>1. UNCHANGED <<run, trippedInHold, switchVars>>
    BY <1>6 DEF Wake, Tick, CheckStaleHeartbeats, QueryStale, FinishStale, vars, backendVars,
                killSwitchVars
  <2>2. \A q \in trippedInHold : Frozen(run[q].thread)'
    BY <2>1, FrozenStays DEF switchVars
  <2>3. QED
    BY <2>1, <2>2
<1>7. QED
  BY <1>1, <1>2, <1>3, <1>4, <1>5, <1>6 DEF Next, Watchdog, RestartPlane

(* A stop that reaches a payment in its settlement hold blocks it, in any  *)
(* scope and from any source, unless the operator takes it back, as long   *)
(* as the control plane answers and does not forget its trips: both are    *)
(* needed, the code reads a lost answer as all-clear and the switch is in  *)
(* memory.                                                                 *)
THEOREM StopsHonouredInHold ==
  ASSUME "status" \notin FailingCalls, ~PlaneRestarts
  PROVE  Spec => []HoldHonoursStop
<1> DEFINE HInv == IInv /\ HoldInv
<1>1. ~Fails("status")
  BY DEF Fails
<1>2. Init => HInv
  BY IInvInit DEF Init, HoldInv
<1>3. HInv /\ [Next]_vars => HInv'
  <2> SUFFICES ASSUME HInv, [Next]_vars PROVE HInv'
    OBVIOUS
  <2>1. BackendTypes
    BY DEF IInv
  <2>2. HoldInv'
    BY <1>1, <2>1, HoldInvKept
  <2>3. QED
    BY <2>2, IInvKept
<1>4. HInv => HoldHonoursStop
  BY DEF HoldInv, HoldHonoursStop
<1>5. QED
  BY <1>2, <1>3, <1>4, PTL DEF Spec

-----------------------------------------------------------------------------
(* The pause rows of threads.                                              *)

(* No invoice has two handlers at once.                                    *)
OneHandlerPerThread ==
    \A q, r \in Runs : run[q].thread = run[r].thread /\ run[r].thread # Nobody => q = r

(* A paused thread waits for a human or is through; a handler is where its *)
(* checkpoint is; and the human's decision is acted on only when the pause *)
(* is over.                                                                *)
PauseInv ==
    /\ \A t \in pausedThreads : t \in Threads /\ ck[t].next \in {"human_review", "end"}
    /\ \A r \in Runs :
          /\ run[r].pc \notin {"idle", "admitted"} => run[r].node = ck[run[r].thread].next
          /\ run[r].pc = "returned" => run[r].node = "end"
          /\ At(r, "work", "human_review") => run[r].thread \notin pausedThreads

LEMMA OnlyHandler ==
  ASSUME OneHandlerPerThread, HandlersFresh, NEW r \in Runs, run[r].pc # "idle"
  PROVE  \A q \in Runs : q # r => run[q].thread # run[r].thread
<1>1. run[r].thread # Nobody
  BY PipelineAssumption DEF HandlersFresh
<1>2. QED
  BY <1>1 DEF OneHandlerPerThread

(* Where a node's return leaves its handler and the checkpoint, whatever   *)
(* state it returns.                                                       *)
LEMMA FinishPlace ==
  ASSUME BackendTypes, NEW r \in Runs, run[r].thread \in Threads,
         NEW v, NEW next, FinishNode(r, v, next)
  PROVE  /\ run'[r].thread = run[r].thread
         /\ run'[r].node = next /\ run'[r].values = v
         /\ run'[r].pc \in {"start", "returned"}
         /\ run'[r].pc = "returned" => next = "end"
         /\ \A q \in Runs : q # r => run'[q] = run[q]
         /\ ck'[run[r].thread] = [next |-> next, values |-> v]
         /\ \A t \in Threads : t # run[r].thread => ck'[t] = ck[t]
<1>1. /\ ck' = [ck EXCEPT ![run[r].thread] = [next |-> next, values |-> v]]
      /\ run' = [run EXCEPT ![r].pc = IF next = "end" THEN "returned" ELSE "start",
                            ![r].node = next, ![r].decision = "none", ![r].values = v]
  BY DEF FinishNode
<1>2. ck \in [Threads -> Checkpoints] /\ run \in [Runs -> RunStates]
  BY DEF BackendTypes
<1>3. /\ ck'[run[r].thread] = [next |-> next, values |-> v]
      /\ \A t \in Threads : t # run[r].thread => ck'[t] = ck[t]
  BY <1>1, <1>2
<1>4. \A q \in Runs : q # r => run'[q] = run[q]
  BY <1>1, <1>2
<1>5. PICK pc \in {"start", "returned"} :
         /\ pc = "returned" => next = "end"
         /\ run' = [run EXCEPT ![r].pc = pc, ![r].node = next, ![r].decision = "none",
                               ![r].values = v]
  BY <1>1
<1>6. run'[r] = [run[r] EXCEPT !.pc = pc, !.node = next, !.decision = "none", !.values = v]
  BY <1>2, <1>5
<1>7. run[r] \in RunStates
  BY <1>2
<1>8. /\ run'[r].thread = run[r].thread /\ run'[r].node = next
      /\ run'[r].pc = pc /\ run'[r].values = v
  BY <1>6, <1>7 DEF RunStates
<1>9. QED
  BY <1>3, <1>4, <1>5, <1>8

(* A step that keeps the checkpoints and the pause rows.                   *)
LEMMA QuietPause ==
  ASSUME PauseInv, UNCHANGED <<ck, pausedThreads>>, NEW r \in Runs,
         \A q \in Runs : q # r => run'[q] = run[q],
         run'[r].pc \notin {"idle", "admitted"} => run'[r].node = ck[run'[r].thread].next,
         run'[r].pc = "returned" => run'[r].node = "end",
         ~(run'[r].pc = "work" /\ run'[r].node = "human_review")
  PROVE  PauseInv'
  BY DEF PauseInv, At

(* An agent's node, or the human's once the pause is over, returns.        *)
LEMMA FinishKeepsPause ==
  ASSUME BackendTypes, HandlersFresh, OneHandlerPerThread, PauseInv,
         NEW r \in Runs, run[r].pc \notin {"idle", "admitted"},
         run[r].node \in AgentNodes \/ At(r, "work", "human_review"),
         NEW v, NEW next, FinishNode(r, v, next), UNCHANGED pausedThreads
  PROVE  PauseInv'
<1> DEFINE t == run[r].thread
<1>1. t \in Threads
  BY DEF HandlersFresh
<1>2. t \notin pausedThreads
  BY DEF PauseInv, AgentNodes
<1>3. /\ run'[r].thread = t /\ run'[r].node = next
      /\ run'[r].pc \in {"start", "returned"} /\ (run'[r].pc = "returned" => next = "end")
      /\ \A q \in Runs : q # r => run'[q] = run[q]
      /\ ck'[t] = [next |-> next, values |-> v]
      /\ \A u \in Threads : u # t => ck'[u] = ck[u]
  BY <1>1, FinishPlace
<1>4. \A q \in Runs : q # r => run[q].thread # t
  BY OnlyHandler
<1>5. \A u \in pausedThreads : u \in Threads /\ ck'[u].next \in {"human_review", "end"}
  BY <1>2, <1>3 DEF PauseInv
<1>6. \A q \in Runs : q # r /\ run[q].pc \notin {"idle", "admitted"} =>
         run[q].thread \in Threads /\ ck'[run[q].thread] = ck[run[q].thread]
  BY <1>3, <1>4 DEF HandlersFresh
<1>7. QED
  BY <1>3, <1>5, <1>6 DEF PauseInv, At

LEMMA AdvanceKeepsPause ==
  ASSUME ~Fails("pause"), BackendTypes, HandlersFresh, OneHandlerPerThread, PauseInv,
         NEW r \in Runs, Advance(r)
  PROVE  PauseInv'
<1> DEFINE t == run[r].thread
<1>1. ASSUME Beat(r) \/ BeatLost(r) \/ AuthorizePayment(r) \/ BeginHold(r) \/ ClearHold(r)
             \/ CommitPayment(r)
      PROVE  PauseInv'
  <2>1. PICK pc \in {"work", "authorized", "hold", "cleared", "committed"} :
           /\ Moved(r, pc) /\ UNCHANGED <<ck, pausedThreads>>
           /\ run[r].pc \notin {"idle", "admitted"} /\ run[r].node \in AgentNodes
    BY <1>1 DEF Beat, BeatLost, AuthorizePayment, BeginHold, ClearHold, CommitPayment,
                PostPayment, At, Heartbeat, killSwitchVars, AgentNodes
  <2>2. /\ run'[r].pc = pc /\ run'[r].thread = t /\ run'[r].node = run[r].node
        /\ \A q \in Runs : q # r => run'[q] = run[q]
    BY <2>1, MovedEffect DEF Pcs
  <2>3. QED
    BY <2>1, <2>2, QuietPause DEF PauseInv, AgentNodes
<1>2. ASSUME PauseForHuman(r) PROVE PauseInv'
  <2>1. /\ run[r].pc = "start" /\ run[r].node = "human_review" /\ UNCHANGED ck
        /\ pausedThreads' = pausedThreads \union {t}
        /\ Dropped(r) \/ Moved(r, "decided")
    BY <1>2 DEF PauseForHuman, PauseThread, At
  <2>2. /\ run'[r].pc \in {"idle", "decided"}
        /\ run'[r].pc = "decided" => run'[r].thread = t /\ run'[r].node = "human_review"
        /\ \A q \in Runs : q # r => run'[q] = run[q]
    <3>1. CASE Dropped(r)
      BY <3>1, DroppedEffect DEF Idle
    <3>2. CASE Moved(r, "decided")
      BY <2>1, <3>2, MovedEffect DEF Pcs
    <3>3. QED
      BY <2>1, <3>1, <3>2
  <2>3. t \in Threads /\ ck[t].next = "human_review"
    BY <2>1 DEF HandlersFresh, PauseInv
  <2>4. \A q \in Runs : q # r => run[q].thread # t
    BY <2>1, OnlyHandler
  <2>5. QED
    BY <2>1, <2>2, <2>3, <2>4 DEF PauseInv, At
<1>3. ASSUME UnpauseAfterHuman(r) PROVE PauseInv'
  <2>1. /\ run[r].pc = "decided" /\ run[r].node = "human_review" /\ UNCHANGED ck
        /\ pausedThreads' = pausedThreads \ {t} /\ Moved(r, "work")
    BY <1>3 DEF UnpauseAfterHuman, UnpauseThread, At
  <2>2. /\ run'[r].pc = "work" /\ run'[r].thread = t /\ run'[r].node = "human_review"
        /\ \A q \in Runs : q # r => run'[q] = run[q]
    BY <2>1, MovedEffect DEF Pcs
  <2>3. QED
    BY <2>1, <2>2 DEF PauseInv, At
<1>4. ASSUME RouteDecision(r) PROVE PauseInv'
  <2>1. At(r, "work", "human_review") /\ UNCHANGED pausedThreads
    BY <1>4 DEF RouteDecision, killSwitchVars
  <2>2. PICK v, next : FinishNode(r, v, next)
    BY <1>4 DEF RouteDecision
  <2>3. QED
    BY <2>1, <2>2, FinishKeepsPause DEF At
<1>5. ASSUME \/ \E total \in Totals : Extract(r, total)
             \/ BlockUnsafe(r)
             \/ \E high \in RiskScores, flagged \in BOOLEAN : ScoreRisk(r, high, flagged)
             \/ Escalate(r) \/ RejectByAgent(r) \/ ApproveByAgent(r)
             \/ BlockDenied(r) \/ BlockUncovered(r) \/ BlockAfterHold(r) \/ BlockDuplicate(r)
             \/ Settle(r)
      PROVE  PauseInv'
  <2>1. /\ run[r].pc \notin {"idle", "admitted"} /\ run[r].node \in AgentNodes
        /\ UNCHANGED pausedThreads
    BY <1>5 DEF Extract, BlockUnsafe, ScoreRisk, Escalate, RejectByAgent, ApproveByAgent,
                BlockDenied, BlockUncovered, BlockAfterHold, BlockDuplicate, Settle, At,
                AgentNodes, killSwitchVars
  <2>2. PICK v, next : FinishNode(r, v, next)
    BY <1>5 DEF Extract, BlockUnsafe, ScoreRisk, Escalate, RejectByAgent, ApproveByAgent,
                BlockDenied, BlockUncovered, BlockAfterHold, BlockDuplicate, Settle, Blocked
  <2>3. QED
    BY <2>1, <2>2, FinishKeepsPause
<1>6. ASSUME RaiseError(r) PROVE PauseInv'
  <2>1. UNCHANGED <<ck, pausedThreads>> /\ Dropped(r)
    BY <1>6 DEF RaiseError, killSwitchVars
  <2>2. run'[r] = Idle /\ \A q \in Runs : q # r => run'[q] = run[q]
    BY <2>1, DroppedEffect
  <2>3. QED
    BY <2>1, <2>2, QuietPause DEF Idle
<1>7. ASSUME Return(r) PROVE PauseInv'
  <2>1. /\ run[r].pc = "returned" /\ UNCHANGED ck /\ Dropped(r)
        /\ pausedThreads' = pausedThreads \/ pausedThreads' = pausedThreads \union {t}
    BY <1>7 DEF Return, PauseThread, killSwitchVars
  <2>2. run'[r] = Idle /\ \A q \in Runs : q # r => run'[q] = run[q]
    BY <2>1, DroppedEffect
  <2>3. t \in Threads /\ ck[t].next = "end"
    BY <2>1 DEF HandlersFresh, PauseInv
  <2>4. \A q \in Runs : q # r => run[q].thread # t
    BY <2>1, OnlyHandler
  <2>5. QED
    BY <2>1, <2>2, <2>3, <2>4 DEF PauseInv, At, Idle
<1>8. QED
  BY <1>1, <1>2, <1>3, <1>4, <1>5, <1>6, <1>7 DEF Advance

LEMMA PauseInvKept ==
  ASSUME ~Fails("pause"), ~Resubmission, BackendTypes, HandlersFresh, OneHandlerPerThread,
         PauseInv, [Next]_vars
  PROVE  PauseInv'
<1>1. ASSUME NEW r \in Runs, Advance(r) PROVE PauseInv'
  BY <1>1, AdvanceKeepsPause
<1>2. ASSUME NEW r \in Runs, NEW t \in Threads, Admit(r, t) PROVE PauseInv'
  <2>1. UNCHANGED <<ck, pausedThreads>>
    BY <1>2 DEF Admit, killSwitchVars
  <2>2. run'[r].pc = "admitted" /\ \A q \in Runs : q # r => run'[q] = run[q]
    BY <1>2, AdmitEffect DEF Admit
  <2>3. QED
    BY <2>1, <2>2, QuietPause
<1>3. ASSUME NEW r \in Runs, Submit(r) PROVE PauseInv'
  <2> DEFINE t == run[r].thread
  <2>1. run[r].pc = "admitted" /\ ck[t].next = "none" /\ UNCHANGED pausedThreads
    BY <1>3 DEF Submit, killSwitchVars
  <2>2. t \in Threads /\ t \notin pausedThreads
    BY <2>1 DEF HandlersFresh, PauseInv
  <2>3. PICK v \in Values :
           /\ ck' = [ck EXCEPT ![t] = [next |-> "extraction", values |-> v]]
           /\ run'[r].pc = "start" /\ run'[r].thread = t /\ run'[r].node = "extraction"
           /\ \A q \in Runs : q # r => run'[q] = run[q]
    BY <1>3, SubmitEffect
  <2>4. ck'[t].next = "extraction" /\ \A u \in Threads : u # t => ck'[u] = ck[u]
    BY <2>2, <2>3 DEF BackendTypes
  <2>5. \A q \in Runs : q # r => run[q].thread # t
    BY <2>1, OnlyHandler
  <2>6. \A u \in pausedThreads : u \in Threads /\ ck'[u].next \in {"human_review", "end"}
    BY <2>2, <2>4 DEF PauseInv
  <2>7. \A q \in Runs : q # r /\ run[q].pc \notin {"idle", "admitted"} =>
           run[q].thread \in Threads /\ ck'[run[q].thread] = ck[run[q].thread]
    BY <2>4, <2>5 DEF HandlersFresh
  <2>8. QED
    BY <2>1, <2>3, <2>4, <2>6, <2>7 DEF PauseInv, At
<1>4. ASSUME NEW r \in Runs, NEW decision \in {"approve", "reject"}, Resume(r, decision)
      PROVE  PauseInv'
  <2>1. UNCHANGED <<ck, pausedThreads>>
    BY <1>4 DEF Resume, killSwitchVars
  <2>2. /\ run'[r].pc \in {"start", "returned"} /\ run'[r].thread = run[r].thread
        /\ run'[r].node = ck[run[r].thread].next
        /\ \A q \in Runs : q # r => run'[q] = run[q]
    BY <1>4, ResumeEffect DEF Decisions
  <2>3. run'[r].pc = "returned" => run'[r].node = "end"
    BY <1>4 DEF Resume, BackendTypes, RunStates
  <2>4. QED
    BY <2>1, <2>2, <2>3, QuietPause
<1>5. CASE CrashBackend
  BY <1>5 DEF CrashBackend, PauseInv, At, Idle, killSwitchVars
<1>6. CASE OperatorTrip \/ OperatorReset \/ Watchdog \/ RestartPlane \/ UNCHANGED vars
  <2>1. UNCHANGED <<ck, run, pausedThreads>>
    BY <1>6 DEF OperatorTrip, OperatorReset, Trip, Reset, Watchdog, Wake, Tick,
                CheckStaleHeartbeats, QueryStale, FinishStale, HaltSilent, HaltStale,
                RestartPlane, RestartControlPlane, vars, backendVars, killSwitchVars
  <2>2. QED
    BY <2>1 DEF PauseInv, At
<1>7. QED
  BY <1>1, <1>2, <1>3, <1>4, <1>5, <1>6 DEF Next

(* No agent works on a thread the watchdog does not look at, whatever      *)
(* nodes fail, handlers crash and humans decide, as long as an invoice is  *)
(* submitted once and has one handler at a time and the calls that pause   *)
(* and unpause it arrive.  Each of the three is needed: main.py keeps the  *)
(* pause row of a finished run, and nothing in it excludes two handlers.   *)
THEOREM WorkIsWatched ==
  ASSUME ~Resubmission, "pause" \notin FailingCalls
  PROVE  Spec /\ []OneHandlerPerThread => []WatchedWhileWorking
<1> DEFINE WInv == IInv /\ PauseInv
<1>1. ~Fails("pause")
  BY DEF Fails
<1>2. Init => WInv
  <2> SUFFICES ASSUME Init PROVE WInv
    OBVIOUS
  <2>1. IInv
    BY IInvInit
  <2>2. pausedThreads = {} /\ run = [r \in Runs |-> Idle]
    BY DEF Init, KillSwitchInit
  <2>3. QED
    BY <2>1, <2>2 DEF PauseInv, At, Idle
<1>3. WInv /\ OneHandlerPerThread /\ [Next]_vars => WInv'
  <2> SUFFICES ASSUME WInv, OneHandlerPerThread, [Next]_vars PROVE WInv'
    OBVIOUS
  <2>1. BackendTypes /\ HandlersFresh
    BY DEF IInv
  <2>2. PauseInv'
    BY <1>1, <2>1, PauseInvKept
  <2>3. QED
    BY <2>2, IInvKept
<1>4. WInv => WatchedWhileWorking
  BY DEF PauseInv, WatchedWhileWorking, Working, AgentNodes
<1>5. QED
  BY <1>2, <1>3, <1>4, PTL DEF Spec

-----------------------------------------------------------------------------
(* The ledger's book.                                                      *)

BookBalance == [a \in BookAccounts |-> IF a = "operating-cash" THEN cash ELSE Cash - cash]

BookPosted == [i \in DOMAIN posted |-> PaymentRequest(posted[i].key, posted[i].total)]

(* The unfolding of a sum over the subsets of D.                           *)
BookPick(s) == CHOOSE i \in s : TRUE

IsBookSum(h, f, D) ==
    h = [s \in SUBSET D |-> IF s = {} THEN 0 ELSE f[BookPick(s)] + h[s \ {BookPick(s)}]]

LEMMA BookSumOfOne ==
  ASSUME NEW x, NEW f, DOMAIN f = {x}, f[x] \in Int
  PROVE  Book!SumOf(f) = f[x]
<1> DEFINE h == [s \in SUBSET {x} |-> IF s = {} THEN 0 ELSE f[x]]
<1>1. \A s \in SUBSET {x} : s # {} => s = {x} /\ BookPick(s) = x /\ s \ {BookPick(s)} = {}
  BY DEF BookPick
<1>2. IsBookSum(h, f, {x})
  <2>1. h[{}] = 0 /\ h[{x}] = f[x]
    OBVIOUS
  <2>2. \A s \in SUBSET {x} :
           h[s] = IF s = {} THEN 0 ELSE f[BookPick(s)] + h[s \ {BookPick(s)}]
    BY <1>1, <2>1
  <2>3. QED
    BY <2>2 DEF IsBookSum
<1> DEFINE k == CHOOSE g : IsBookSum(g, f, {x})
<1>3. Book!SumOf(f) = k[{x}]
  BY Zenon DEF Book!SumOf, Book!MapThenSumSet, Book!MapThenFoldSet, IsBookSum, BookPick
<1>4. IsBookSum(k, f, {x})
  BY <1>2
<1> HIDE DEF k
<1>5. k[{}] = 0 /\ k[{x}] = f[x] + k[{}]
  <2>1. \A s \in SUBSET {x} :
           k[s] = IF s = {} THEN 0 ELSE f[BookPick(s)] + k[s \ {BookPick(s)}]
    BY <1>4, Zenon DEF IsBookSum
  <2>2. {} \in SUBSET {x} /\ {x} \in SUBSET {x} /\ {x} # {}
    OBVIOUS
  <2>3. QED
    BY <1>1, <2>1, <2>2
<1>6. QED
  BY <1>3, <1>5

(* The two entries of a payment, one a debit and one a credit.             *)
LEMMA PaymentBalanced ==
  ASSUME NEW key, NEW total \in Int
  PROVE  Book!Balanced(PaymentRequest(key, total))
<1> DEFINE r == PaymentRequest(key, total)
           Sided(direction) == {n \in DOMAIN r.entries : r.entries[n].direction = direction}
           Amounts(direction) == [i \in Sided(direction) |-> r.entries[i].amount]
<1>1. /\ DOMAIN r.entries = 1..2
      /\ r.entries[1] = [account |-> "vendor-expense", direction |-> "debit", amount |-> total]
      /\ r.entries[2] = [account |-> "operating-cash", direction |-> "credit", amount |-> total]
  BY DEF PaymentRequest
<1>2. Sided("debit") = {1} /\ Sided("credit") = {2}
  BY <1>1
<1>3. Book!TotalOf(r, "debit") = Book!SumOf(Amounts("debit"))
      /\ Book!TotalOf(r, "credit") = Book!SumOf(Amounts("credit"))
  BY DEF Book!TotalOf
<1>4. /\ DOMAIN Amounts("debit") = {1} /\ Amounts("debit")[1] = total
      /\ DOMAIN Amounts("credit") = {2} /\ Amounts("credit")[2] = total
  BY <1>1, <1>2
<1> HIDE DEF r, Amounts
<1>5. Book!SumOf(Amounts("debit")) = total /\ Book!SumOf(Amounts("credit")) = total
  BY <1>4, BookSumOfOne
<1>6. QED
  BY <1>3, <1>5 DEF Book!Balanced, r

(* The backend meets the premise of LedgerImplementsBook and               *)
(* BooksAlwaysAgree: no request of it debits and credits one account.      *)
LEMMA PaymentIsOneWay ==
  ASSUME NEW key, NEW total
  PROVE  Book!OneWay(PaymentRequest(key, total))
<1> DEFINE r == PaymentRequest(key, total)
<1>1. /\ DOMAIN r.entries = 1..2
      /\ r.entries[1].account = "vendor-expense" /\ r.entries[2].account = "operating-cash"
  BY DEF PaymentRequest
<1>2. QED
  BY <1>1 DEF Book!OneWay

(* What the payment does to the two accounts.                              *)
LEMMA PaymentMoves ==
  ASSUME NEW key, NEW total \in Int, cash \in Int, Cash \in Int
  PROVE  /\ Book!EntriesOf(PaymentRequest(key, total), "operating-cash") = {2}
         /\ Book!EntriesOf(PaymentRequest(key, total), "vendor-expense") = {1}
         /\ Book!BalanceAfter(PaymentRequest(key, total), "operating-cash") = cash - total
         /\ Book!BalanceAfter(PaymentRequest(key, total), "vendor-expense")
               = Cash - cash + total
<1> DEFINE r == PaymentRequest(key, total)
<1>1. /\ DOMAIN r.entries = 1..2
      /\ r.entries[1] = [account |-> "vendor-expense", direction |-> "debit", amount |-> total]
      /\ r.entries[2] = [account |-> "operating-cash", direction |-> "credit", amount |-> total]
  BY DEF PaymentRequest
<1>2. /\ Book!EntriesOf(r, "operating-cash") = {2}
      /\ Book!EntriesOf(r, "vendor-expense") = {1}
  BY <1>1 DEF Book!EntriesOf
<1>3. Book!Delta(r.entries[2]) = -total /\ Book!Delta(r.entries[1]) = total
  BY <1>1 DEF Book!Delta, Book!IncreasesOnDebit, BookAccounts
<1> HIDE DEF r
<1>4. Book!BalanceAfter(r, "operating-cash") = cash + (-total)
  BY <1>2, <1>3 DEF Book!BalanceAfter, BookAccounts
<1>5. Book!BalanceAfter(r, "vendor-expense") = Cash - cash + total
  BY <1>2, <1>3 DEF Book!BalanceAfter, BookAccounts
<1>6. QED
  BY <1>2, <1>4, <1>5 DEF r

(* A commit is a posting of the book.                                      *)
LEMMA CommitPostsToBook ==
  ASSUME BackendTypes, HandlersFresh, NEW r \in Runs, CommitPayment(r)
  PROVE  Book!Next
<1> DEFINE total == run[r].values.total
           p == PaymentRequest(run[r].thread, total)
<1>1. PICK x \in Transactions :
         /\ x.key = run[r].thread /\ x.total = total
         /\ posted' = Append(posted, x)
         /\ \A i \in DOMAIN posted : posted[i].key # run[r].thread
  BY CommitEffect
<1>2. cash' = cash - total /\ total <= cash
  BY DEF CommitPayment, PostPayment, Covered
<1>3. total \in Nat /\ cash \in Int /\ Cash \in Int
  BY TotalIsInt, PipelineAssumption DEF BackendTypes, RunStates
<1>4. run[r].thread \in Threads /\ total \in Totals \union {0}
  <2>1. run[r].pc = "cleared"
    BY DEF CommitPayment, PostPayment, At
  <2>2. QED
    BY <2>1 DEF HandlersFresh, BackendTypes, RunStates, Values
<1>5. p \in {PaymentRequest(t, n) : t \in Threads, n \in Totals \union {0}}
  BY <1>4
<1>6. p.op = "post" /\ p.key = run[r].thread
  BY DEF PaymentRequest
<1>7. ~Book!KeyPosted(p.key)
  <2>1. \A i \in DOMAIN posted : PaymentRequest(posted[i].key, posted[i].total).key = posted[i].key
    BY DEF PaymentRequest
  <2>2. QED
    BY <1>1, <1>6, <2>1 DEF Book!KeyPosted
<1>8. Book!Balanced(p)
  BY <1>3, PaymentBalanced
<1>9. \A i \in DOMAIN p.entries : p.entries[i].account \in BookAccounts
  BY DEF PaymentRequest, BookAccounts
<1>10. /\ Book!BalanceAfter(p, "operating-cash") = cash - total
       /\ Book!BalanceAfter(p, "vendor-expense") = Cash - cash + total
  BY <1>3, PaymentMoves
<1>11. BookPosted' = Append(BookPosted, p)
  <2>1. posted \in Seq(Transactions)
    BY DEF BackendTypes
  <2>2. /\ Len(posted') = Len(posted) + 1 /\ posted' \in Seq(Transactions)
        /\ \A i \in 1..Len(posted) : posted'[i] = posted[i]
        /\ posted'[Len(posted) + 1] = x
    BY <1>1, <2>1, AppendProperties
  <2> DEFINE P == {PaymentRequest(t, n) : t \in Threads, n \in Totals \union {0}}
  <2>3. BookPosted \in Seq(P) /\ Len(BookPosted) = Len(posted)
    <3>1. \A i \in 1..Len(posted) : PaymentRequest(posted[i].key, posted[i].total) \in P
      <4>1. \A i \in 1..Len(posted) :
               posted[i].key \in Threads /\ posted[i].total \in Totals \union {0}
        <5>1. \A i \in 1..Len(posted) : posted[i] \in Transactions
          BY <2>1
        <5>2. QED
          BY <5>1 DEF Transactions
      <4>2. QED
        BY <4>1
    <3>2. BookPosted = [i \in 1..Len(posted) |-> PaymentRequest(posted[i].key, posted[i].total)]
      BY <2>1 DEF BookPosted
    <3> HIDE DEF P
    <3>3. QED
      BY <2>1, <3>1, <3>2
  <2>4. QED
    BY <1>1, <2>1, <2>2, <2>3 DEF BookPosted
<1>12. BookBalance' = [a \in BookAccounts |-> Book!BalanceAfter(p, a)]
  BY <1>2, <1>3, <1>10 DEF BookBalance, BookAccounts
<1> HIDE DEF p
<1>13. Book!Post(p)
  <2>1. Book!BalanceAfter(p, "operating-cash") >= 0
    BY <1>2, <1>3, <1>10
  <2>2. \A a \in BookAccounts :
           \/ Book!EntriesOf(p, a) = {}
           \/ [b \in BookAccounts |-> b = "vendor-expense"][a]
           \/ Book!BalanceAfter(p, a) >= 0
    BY <2>1 DEF BookAccounts
  <2>3. QED
    BY <1>6, <1>7, <1>8, <1>9, <1>11, <1>12, <2>2, Zenon DEF Book!Post, BookPosted, BookBalance
<1> DEFINE R == {PaymentRequest(t, n) : t \in Threads, n \in Totals \union {0}}
<1> HIDE DEF R
<1>14. \E q \in R : Book!Post(q)
  <2>1. p \in R
    BY <1>5 DEF R
  <2>2. QED
    BY <1>13, <2>1 DEF Book!Post
<1>15. QED
  BY <1>14 DEF Book!Next, R

(* Whatever handlers do at once, the backend changes the ledger only by    *)
(* postings its book allows: under a key that is not there, balanced, and  *)
(* covered by the cash at the instant of the commit, however old the dry   *)
(* run that said so.                                                       *)
THEOREM PaymentsImplementBook == Spec => PaysIntoBook
<1>1. Init => Book!Init
  <2> SUFFICES ASSUME Init PROVE Book!Init
    OBVIOUS
  <2>1. cash = Cash /\ posted = << >>
    BY DEF Init
  <2>2. Cash \in Int
    BY PipelineAssumption
  <2>3. QED
    BY <2>1, <2>2 DEF Book!Init
<1>2. IInv /\ [Next]_vars => [Book!Next]_<<BookBalance, BookPosted>>
  <2> SUFFICES ASSUME IInv, [Next]_vars PROVE Book!Next \/ UNCHANGED <<BookBalance, BookPosted>>
    OBVIOUS
  <2>1. BackendTypes /\ HandlersFresh
    BY DEF IInv
  <2>2. UNCHANGED ledgerVars \/ Commits
    <3>1. Kinds
      BY <2>1, StepKinds
    <3>2. QED
      BY <3>1 DEF Kinds, Quiet, LetIn, Starts, Submit, Continues, Resume, Moves, Drops, Dies,
                  Finishes, ledgerVars
  <2>3. CASE UNCHANGED ledgerVars
    BY <2>3 DEF ledgerVars, BookBalance, BookPosted
  <2>4. CASE Commits
    BY <2>1, <2>4, CommitPostsToBook DEF Commits
  <2>5. QED
    BY <2>2, <2>3, <2>4
<1>3. QED
  BY <1>1, <1>2, IInvHolds, PTL DEF Spec, PaysIntoBook, Book!Spec, BookBalance, BookPosted

-----------------------------------------------------------------------------
(* High risk.                                                              *)

(* What may be at the approval or at the payment.                          *)
Cleared(node, v) ==
    /\ node = "approval" => ~v.high
    /\ node = "payment_execution" => (v.high => v.reviewed)

HighInv ==
    /\ \A t \in Threads : Cleared(ck[t].next, ck[t].values)
    /\ \A r \in Runs : Cleared(run[r].node, run[r].values)
    /\ HighRiskReviewed

(* What a node returns is cleared for the node it hands on to.             *)
LEMMA FinishCleared ==
  ASSUME BackendTypes, HighInv, ~MayDeny("risk_scoring"), NEW r \in Runs,
         \/ \E total \in Totals : Extract(r, total)
         \/ BlockUnsafe(r)
         \/ \E high \in RiskScores, flagged \in BOOLEAN : ScoreRisk(r, high, flagged)
         \/ Escalate(r) \/ RejectByAgent(r) \/ ApproveByAgent(r) \/ RouteDecision(r)
         \/ BlockDenied(r) \/ BlockUncovered(r) \/ BlockAfterHold(r) \/ BlockDuplicate(r)
         \/ Settle(r)
  PROVE  \E v, next : FinishNode(r, v, next) /\ Cleared(next, v)
<1> DEFINE old == run[r].values
<1>1. run[r].values \in Values
  BY DEF BackendTypes, RunStates
<1>2. ASSUME NEW high \in RiskScores, NEW flagged \in BOOLEAN, ScoreRisk(r, high, flagged)
      PROVE  \E v, next : FinishNode(r, v, next) /\ Cleared(next, v)
  <2> DEFINE v == [old EXCEPT !.task = "risk_scored", !.high = high,
                              !.needsHuman = @ \/ flagged]
  <2>1. FinishNode(r, v, RouteAfterRisk(v)) /\ (high => flagged)
    BY <1>2 DEF ScoreRisk
  <2>2. v.high = high /\ (flagged => v.needsHuman)
    BY <1>1 DEF Values
  <2> HIDE DEF v
  <2>3. Cleared(RouteAfterRisk(v), v)
    BY <2>1, <2>2 DEF Cleared, RouteAfterRisk
  <2>4. QED
    BY <2>1, <2>3
<1>3. ASSUME ApproveByAgent(r)
      PROVE  \E v, next : FinishNode(r, v, next) /\ Cleared(next, v)
  <2> DEFINE v == [old EXCEPT !.task = "approved"]
  <2>1. FinishNode(r, v, RouteAfterApproval(v)) /\ run[r].node = "approval"
    BY <1>3 DEF ApproveByAgent, At
  <2>2. v.high = old.high /\ ~old.high
    BY <1>1, <2>1 DEF Values, HighInv, Cleared
  <2> HIDE DEF v
  <2>3. Cleared(RouteAfterApproval(v), v)
    BY <2>2 DEF Cleared, RouteAfterApproval
  <2>4. QED
    BY <2>1, <2>3
<1>4. ASSUME RouteDecision(r)
      PROVE  \E v, next : FinishNode(r, v, next) /\ Cleared(next, v)
  <2> DEFINE v == [old EXCEPT !.reviewed = (run[r].decision = "approve")]
  <2>1. FinishNode(r, v, RouteAfterHuman(run[r].decision))
    BY <1>4 DEF RouteDecision
  <2>2. v.reviewed = (run[r].decision = "approve")
    BY <1>1 DEF Values
  <2> HIDE DEF v
  <2>3. Cleared(RouteAfterHuman(run[r].decision), v)
    BY <2>2 DEF Cleared, RouteAfterHuman
  <2>4. QED
    BY <2>1, <2>3
<1>5. ASSUME Escalate(r)
      PROVE  \E v, next : FinishNode(r, v, next) /\ Cleared(next, v)
  <2> DEFINE v == [old EXCEPT !.task = "pending_human", !.needsHuman = TRUE]
  <2>1. FinishNode(r, v, RouteAfterApproval(v))
    BY <1>5 DEF Escalate
  <2>2. v.needsHuman
    BY <1>1 DEF Values
  <2> HIDE DEF v
  <2>3. Cleared(RouteAfterApproval(v), v)
    BY <2>2 DEF Cleared, RouteAfterApproval
  <2>4. QED
    BY <2>1, <2>3
<1>6. ASSUME RejectByAgent(r)
      PROVE  \E v, next : FinishNode(r, v, next) /\ Cleared(next, v)
  <2> DEFINE v == [old EXCEPT !.task = "rejected", !.needsHuman = FALSE]
  <2>1. FinishNode(r, v, RouteAfterApproval(v))
    BY <1>6 DEF RejectByAgent
  <2>2. v.task = "rejected"
    BY <1>1 DEF Values
  <2> HIDE DEF v
  <2>3. Cleared(RouteAfterApproval(v), v)
    BY <2>2 DEF Cleared, RouteAfterApproval
  <2>4. QED
    BY <2>1, <2>3
<1>7. ASSUME (\E total \in Totals : Extract(r, total)) \/ BlockUnsafe(r)
      PROVE  \E v, next : FinishNode(r, v, next) /\ Cleared(next, v)
  <2>1. PICK v, next : FinishNode(r, v, next) /\ next \in {"end", "risk_scoring"}
    BY <1>7 DEF Extract, BlockUnsafe, RouteAfterExtraction
  <2>2. QED
    BY <2>1 DEF Cleared
<1>8. ASSUME \/ BlockDenied(r) \/ BlockUncovered(r) \/ BlockAfterHold(r) \/ BlockDuplicate(r)
             \/ Settle(r)
      PROVE  \E v, next : FinishNode(r, v, next) /\ Cleared(next, v)
  <2>1. PICK v : FinishNode(r, v, "end")
    BY <1>8 DEF BlockDenied, BlockUncovered, BlockAfterHold, BlockDuplicate, Settle, Blocked
  <2>2. QED
    BY <2>1 DEF Cleared
<1>9. QED
  BY <1>2, <1>3, <1>4, <1>5, <1>6, <1>7, <1>8

(* The steps that leave a handler at its node, or drop it.                 *)
LEMMA StayCleared ==
  ASSUME HighInv, UNCHANGED <<ck, posted>>, NEW r \in Runs,
         Cleared(run'[r].node, run'[r].values),
         \A q \in Runs : q # r => run'[q] = run[q]
  PROVE  HighInv'
  BY DEF HighInv, HighRiskReviewed, Cleared

LEMMA AdvanceKeepsHigh ==
  ASSUME BackendTypes, HandlersFresh, HighInv, ~MayDeny("risk_scoring"),
         NEW r \in Runs, Advance(r)
  PROVE  HighInv'
<1>1. ASSUME \/ Beat(r) \/ BeatLost(r) \/ AuthorizePayment(r) \/ BeginHold(r) \/ ClearHold(r)
             \/ PauseForHuman(r) \/ UnpauseAfterHuman(r) \/ RaiseError(r) \/ Return(r)
      PROVE  HighInv'
  <2>1. /\ UNCHANGED <<ck, posted>>
        /\ Dropped(r) \/ \E pc \in Pcs : Moved(r, pc)
    BY <1>1 DEF Beat, BeatLost, AuthorizePayment, BeginHold, ClearHold, PauseForHuman,
                UnpauseAfterHuman, RaiseError, Return, ledgerVars, Pcs
  <2>2. CASE Dropped(r)
    BY <2>1, <2>2, DroppedEffect, StayCleared DEF Idle, Cleared
  <2>3. ASSUME NEW pc \in Pcs, Moved(r, pc) PROVE HighInv'
    <3>1. /\ run'[r].node = run[r].node /\ run'[r].values = run[r].values
          /\ \A q \in Runs : q # r => run'[q] = run[q]
      BY <2>3, MovedEffect
    <3>2. QED
      BY <2>1, <3>1, StayCleared DEF HighInv
  <2>4. QED
    BY <2>1, <2>2, <2>3
<1>2. ASSUME CommitPayment(r) PROVE HighInv'
  <2>1. PICK x \in Transactions :
           /\ x.high = run[r].values.high /\ x.reviewed = run[r].values.reviewed
           /\ posted' = Append(posted, x) /\ UNCHANGED ck
           /\ run[r].node = "payment_execution" /\ Moved(r, "committed")
    BY <1>2, CommitEffect
  <2>2. /\ run'[r].node = run[r].node /\ run'[r].values = run[r].values
        /\ \A q \in Runs : q # r => run'[q] = run[q]
    BY <2>1, MovedEffect DEF Pcs
  <2>3. posted \in Seq(Transactions)
    BY DEF BackendTypes
  <2>4. /\ Len(posted') = Len(posted) + 1 /\ posted' \in Seq(Transactions)
        /\ \A i \in 1..Len(posted) : posted'[i] = posted[i]
        /\ posted'[Len(posted) + 1] = x
    BY <2>1, <2>3, AppendProperties
  <2>5. x.high => x.reviewed
    BY <2>1 DEF HighInv, Cleared
  <2>6. HighRiskReviewed'
    <3>1. \A i \in DOMAIN posted' : i \in DOMAIN posted \/ i = Len(posted) + 1
      BY <2>3, <2>4
    <3>2. \A i \in DOMAIN posted : posted'[i] = posted[i]
      BY <2>3, <2>4
    <3>3. QED
      BY <2>4, <2>5, <3>1, <3>2 DEF HighInv, HighRiskReviewed
  <2>7. QED
    BY <2>1, <2>2, <2>6 DEF HighInv, Cleared
<1>3. ASSUME \/ \E total \in Totals : Extract(r, total)
             \/ BlockUnsafe(r)
             \/ \E high \in RiskScores, flagged \in BOOLEAN : ScoreRisk(r, high, flagged)
             \/ Escalate(r) \/ RejectByAgent(r) \/ ApproveByAgent(r) \/ RouteDecision(r)
             \/ BlockDenied(r) \/ BlockUncovered(r) \/ BlockAfterHold(r) \/ BlockDuplicate(r)
             \/ Settle(r)
      PROVE  HighInv'
  <2>1. PICK v, next : FinishNode(r, v, next) /\ Cleared(next, v)
    BY <1>3, FinishCleared
  <2>2. run[r].pc \notin {"idle", "admitted"} /\ UNCHANGED posted
    BY <1>3 DEF Extract, BlockUnsafe, ScoreRisk, Escalate, RejectByAgent, ApproveByAgent,
                RouteDecision, BlockDenied, BlockUncovered, BlockAfterHold, BlockDuplicate,
                Settle, At, ledgerVars
  <2>3. run[r].thread \in Threads
    BY <2>2 DEF HandlersFresh
  <2>4. /\ run'[r].node = next /\ run'[r].values = v
        /\ \A q \in Runs : q # r => run'[q] = run[q]
        /\ ck'[run[r].thread] = [next |-> next, values |-> v]
        /\ \A t \in Threads : t # run[r].thread => ck'[t] = ck[t]
    BY <2>1, <2>3, FinishPlace
  <2>5. QED
    BY <2>1, <2>2, <2>4 DEF HighInv, HighRiskReviewed, Cleared
<1>4. QED
  BY <1>1, <1>2, <1>3 DEF Advance

LEMMA HighInvKept ==
  ASSUME BackendTypes, HandlersFresh, HighInv, ~MayDeny("risk_scoring"), [Next]_vars
  PROVE  HighInv'
<1>1. ASSUME NEW r \in Runs, Advance(r) PROVE HighInv'
  BY <1>1, AdvanceKeepsHigh
<1>2. ASSUME NEW r \in Runs, NEW t \in Threads, Admit(r, t) PROVE HighInv'
  <2>1. UNCHANGED <<ck, posted>>
    BY <1>2 DEF Admit, ledgerVars
  <2>2. /\ run'[r].node = run[r].node /\ run'[r].values = run[r].values
        /\ \A q \in Runs : q # r => run'[q] = run[q]
    BY <1>2, AdmitEffect DEF Admit
  <2>3. QED
    BY <2>1, <2>2, StayCleared DEF HighInv
<1>3. ASSUME NEW r \in Runs, Submit(r) PROVE HighInv'
  <2>1. PICK v \in Values :
           /\ run[r].thread \in Threads
           /\ ck' = [ck EXCEPT ![run[r].thread] = [next |-> "extraction", values |-> v]]
           /\ run'[r].node = "extraction"
           /\ \A q \in Runs : q # r => run'[q] = run[q]
    BY <1>3, SubmitEffect
  <2>2. /\ ck'[run[r].thread].next = "extraction"
        /\ \A t \in Threads : t # run[r].thread => ck'[t] = ck[t]
    BY <2>1 DEF BackendTypes
  <2>3. UNCHANGED posted
    BY <1>3 DEF Submit, ledgerVars
  <2>4. QED
    BY <2>1, <2>2, <2>3 DEF HighInv, HighRiskReviewed, Cleared
<1>4. ASSUME NEW r \in Runs, NEW decision \in {"approve", "reject"}, Resume(r, decision)
      PROVE  HighInv'
  <2>1. /\ run[r].thread \in Threads /\ UNCHANGED <<ck, posted>>
        /\ run'[r].node = ck[run[r].thread].next
        /\ run'[r].values = ck[run[r].thread].values
        /\ \A q \in Runs : q # r => run'[q] = run[q]
    BY <1>4, ResumeEffect DEF Decisions, ledgerVars
  <2>2. QED
    BY <2>1, StayCleared DEF HighInv
<1>5. CASE CrashBackend
  <2>1. Cleared(Idle.node, Idle.values)
    BY DEF Cleared, Idle
  <2>2. UNCHANGED <<ck, posted>> /\ run' = [r \in Runs |-> Idle]
    BY <1>5 DEF CrashBackend, ledgerVars
  <2>3. QED
    BY <2>1, <2>2 DEF HighInv, HighRiskReviewed, Cleared
<1>6. CASE OperatorTrip \/ OperatorReset \/ Watchdog \/ RestartPlane \/ UNCHANGED vars
  <2>1. UNCHANGED <<ck, run, posted>>
    BY <1>6 DEF OperatorTrip, OperatorReset, Watchdog, Wake, CheckStaleHeartbeats, HaltSilent,
                RestartPlane, vars, backendVars, ledgerVars
  <2>2. QED
    BY <2>1 DEF HighInv, HighRiskReviewed, Cleared
<1>7. QED
  BY <1>1, <1>2, <1>3, <1>4, <1>5, <1>6 DEF Next

(* A payment that the risk agent scored high was approved by a human, as   *)
(* long as nothing denies the flag that asks for one: no stop of the risk  *)
(* agent and an answer of policy-service.  A denial is the only way around *)
(* the human: resubmissions, crashes and second handlers are none.         *)
THEOREM HighRiskNeedsADenial ==
  Spec /\ []~MayDeny("risk_scoring") => []HighRiskReviewed
<1> DEFINE RInv == IInv /\ HighInv
<1>1. Init => RInv
  <2> SUFFICES ASSUME Init PROVE RInv
    OBVIOUS
  <2>1. IInv
    BY IInvInit
  <2>2. /\ ck = [t \in Threads |-> [next |-> "none", values |-> NoValues]]
        /\ run = [r \in Runs |-> Idle] /\ posted = << >>
    BY DEF Init
  <2>3. HighInv
    BY <2>2 DEF HighInv, HighRiskReviewed, Cleared, Idle
  <2>4. QED
    BY <2>1, <2>3
<1>2. RInv /\ ~MayDeny("risk_scoring") /\ [Next]_vars => RInv'
  <2> SUFFICES ASSUME RInv, ~MayDeny("risk_scoring"), [Next]_vars PROVE RInv'
    OBVIOUS
  <2>1. BackendTypes /\ HandlersFresh
    BY DEF IInv
  <2>2. HighInv'
    BY <2>1, HighInvKept
  <2>3. QED
    BY <2>2, IInvKept
<1>3. RInv => HighRiskReviewed
  BY DEF HighInv
<1>4. QED
  BY <1>1, <1>2, <1>3, PTL DEF Spec

-----------------------------------------------------------------------------
(* The end of a run.                                                       *)

(* A handler that is past the human, or past its graph, will pause the     *)
(* thread or take its checkpoint away from the end.                        *)
AfterHuman(r) == At(r, "decided", "human_review") \/ At(r, "work", "human_review")

WillPause(r, t) == run[r].thread = t /\ (run[r].pc = "returned" \/ AfterHuman(r))

NoRejection == \A r \in Runs : run[r].decision # "reject"

(* A run that ended did so in a terminal state, and is paused as soon as   *)
(* its handlers have returned.                                             *)
EndInv ==
    /\ \A t \in Threads : ck[t].next = "end" =>
          /\ ck[t].values.task \in TerminalTaskStates
          /\ t \in pausedThreads \/ \E r \in Runs : WillPause(r, t)
    /\ \A r \in Runs :
          /\ run[r].pc = "returned" => run[r].values.task \in TerminalTaskStates
          /\ AfterHuman(r) => run[r].decision = "approve"

(* A step of one handler keeps this if whatever was to pause the thread    *)
(* still is, and whatever ends there ends as it should.                    *)
LEMMA EndKept ==
  ASSUME EndInv, NEW r \in Runs, \A q \in Runs : q # r => run'[q] = run[q],
         \A t \in Threads : ck'[t].next = "end" =>
             \/ /\ ck'[t] = ck[t]
                /\ t \in pausedThreads \/ WillPause(r, t)
                      => t \in pausedThreads' \/ WillPause(r, t)'
             \/ ck'[t].values.task \in TerminalTaskStates /\ WillPause(r, t)',
         run'[r].pc = "returned" => run'[r].values.task \in TerminalTaskStates,
         AfterHuman(r)' => run'[r].decision = "approve"
  PROVE  EndInv'
<1>1. ASSUME NEW q \in Runs, q # r
      PROVE  /\ AfterHuman(q)' <=> AfterHuman(q)
             /\ \A t : WillPause(q, t)' <=> WillPause(q, t)
  BY <1>1 DEF AfterHuman, WillPause, At
<1>2. ASSUME NEW t \in Threads, ck'[t].next = "end"
      PROVE  /\ ck'[t].values.task \in TerminalTaskStates
             /\ t \in pausedThreads' \/ \E q \in Runs : WillPause(q, t)'
  <2>1. CASE ck'[t].values.task \in TerminalTaskStates /\ WillPause(r, t)'
    BY <2>1
  <2>2. CASE /\ ck'[t] = ck[t]
             /\ t \in pausedThreads \/ WillPause(r, t)
                   => t \in pausedThreads' \/ WillPause(r, t)'
    <3>1. /\ ck[t].values.task \in TerminalTaskStates
          /\ t \in pausedThreads \/ \E q \in Runs : WillPause(q, t)
      BY <1>2, <2>2 DEF EndInv
    <3>2. QED
      BY <1>1, <2>2, <3>1
  <2>3. QED
    BY <1>2, <2>1, <2>2
<1>3. ASSUME NEW q \in Runs
      PROVE  /\ run'[q].pc = "returned" => run'[q].values.task \in TerminalTaskStates
             /\ AfterHuman(q)' => run'[q].decision = "approve"
  BY <1>1 DEF EndInv
<1>4. QED
  BY <1>2, <1>3 DEF EndInv

LEMMA FinishEnds ==
  ASSUME BackendTypes, EndInv, NEW r \in Runs, run[r].thread \in Threads,
         \/ \E total \in Totals : Extract(r, total)
         \/ BlockUnsafe(r)
         \/ \E high \in RiskScores, flagged \in BOOLEAN : ScoreRisk(r, high, flagged)
         \/ Escalate(r) \/ RejectByAgent(r) \/ ApproveByAgent(r) \/ RouteDecision(r)
         \/ BlockDenied(r) \/ BlockUncovered(r) \/ BlockAfterHold(r) \/ BlockDuplicate(r)
         \/ Settle(r)
  PROVE  \E v, next : /\ FinishNode(r, v, next)
                      /\ next = "end" => v.task \in TerminalTaskStates
<1>1. /\ run[r].values \in Values
      /\ \A task \in TaskStates : [run[r].values EXCEPT !.task = task].task = task
  BY DEF BackendTypes, RunStates, Values
<1>2. ASSUME NEW total \in Totals, Extract(r, total)
      PROVE  \E v : FinishNode(r, v, "risk_scoring")
  <2> DEFINE v == [run[r].values EXCEPT !.task = "extracted", !.total = total]
  <2>1. v.task = "extracted"
    BY <1>1, TaskAndTotalSet DEF TaskStates
  <2>2. RouteAfterExtraction(v) = "risk_scoring"
    BY <2>1 DEF RouteAfterExtraction
  <2>3. QED
    BY <1>2, <2>2 DEF Extract
<1>3. ASSUME BlockUnsafe(r)
      PROVE  \E v, next : FinishNode(r, v, next) /\ v.task \in TerminalTaskStates
  <2> DEFINE v == [run[r].values EXCEPT !.task = "failed", !.needsHuman = TRUE]
  <2>1. v.task = "failed"
    BY <1>1, TaskAndNeedSet DEF TaskStates
  <2>2. FinishNode(r, v, RouteAfterExtraction(v))
    BY <1>3 DEF BlockUnsafe
  <2>3. QED
    BY <2>1, <2>2 DEF TerminalTaskStates
<1>4. ASSUME NEW high \in RiskScores, NEW flagged \in BOOLEAN, ScoreRisk(r, high, flagged)
      PROVE  \E v, next : FinishNode(r, v, next) /\ next # "end"
  <2>1. PICK v : FinishNode(r, v, RouteAfterRisk(v))
    BY <1>4 DEF ScoreRisk
  <2>2. RouteAfterRisk(v) # "end"
    BY DEF RouteAfterRisk
  <2>3. QED
    BY <2>1, <2>2
<1>5. ASSUME Escalate(r) \/ RejectByAgent(r) \/ ApproveByAgent(r)
      PROVE  \E v : FinishNode(r, v, RouteAfterApproval(v))
  BY <1>5 DEF Escalate, RejectByAgent, ApproveByAgent
<1>6. ASSUME NEW v, RouteAfterApproval(v) = "end" PROVE v.task \in TerminalTaskStates
  BY <1>6 DEF RouteAfterApproval, TerminalTaskStates
<1>7. ASSUME RouteDecision(r)
      PROVE  \E v : FinishNode(r, v, "payment_execution")
  <2>1. run[r].decision = "approve"
    BY <1>7 DEF RouteDecision, EndInv, AfterHuman
  <2>2. QED
    BY <1>7, <2>1 DEF RouteDecision, RouteAfterHuman
<1>8. ASSUME \/ BlockDenied(r) \/ BlockUncovered(r) \/ BlockAfterHold(r) \/ BlockDuplicate(r)
             \/ Settle(r)
      PROVE  \E v, next : FinishNode(r, v, next) /\ v.task \in TerminalTaskStates
  <2>1. PICK task \in {"blocked", "settled"} :
           FinishNode(r, [run[r].values EXCEPT !.task = task], "end")
    BY <1>8 DEF BlockDenied, BlockUncovered, BlockAfterHold, BlockDuplicate, Settle, Blocked
  <2>2. [run[r].values EXCEPT !.task = task].task = task
    BY <1>1 DEF TaskStates
  <2>3. QED
    BY <2>1, <2>2 DEF TerminalTaskStates
<1>9. QED
  BY <1>2, <1>3, <1>4, <1>5, <1>6, <1>7, <1>8

LEMMA AdvanceKeepsEnd ==
  ASSUME ~Fails("pause"), BackendTypes, HandlersFresh, EndInv, NoRejection,
         NEW r \in Runs, Advance(r)
  PROVE  EndInv'
<1> DEFINE t == run[r].thread
<1>1. ASSUME Beat(r) \/ BeatLost(r) \/ AuthorizePayment(r) \/ BeginHold(r) \/ ClearHold(r)
             \/ CommitPayment(r)
      PROVE  EndInv'
  <2>1. PICK pc \in {"work", "authorized", "hold", "cleared", "committed"} :
           /\ Moved(r, pc) /\ UNCHANGED <<ck, pausedThreads>>
           /\ run[r].pc # "returned" /\ run[r].node \in AgentNodes
    BY <1>1 DEF Beat, BeatLost, AuthorizePayment, BeginHold, ClearHold, CommitPayment,
                PostPayment, At, Heartbeat, killSwitchVars, AgentNodes
  <2>2. /\ run'[r].pc = pc /\ run'[r].node = run[r].node
        /\ \A q \in Runs : q # r => run'[q] = run[q]
    BY <2>1, MovedEffect DEF Pcs
  <2>3. ~AfterHuman(r) /\ ~AfterHuman(r)' /\ run'[r].pc # "returned"
    BY <2>1, <2>2 DEF AfterHuman, At, AgentNodes
  <2>4. \A u : ~WillPause(r, u)
    BY <2>1, <2>3 DEF WillPause
  <2>5. QED
    BY <2>1, <2>2, <2>3, <2>4, EndKept
<1>2. ASSUME PauseForHuman(r) PROVE EndInv'
  <2>1. /\ run[r].pc = "start" /\ run[r].node = "human_review" /\ UNCHANGED ck
        /\ pausedThreads' = pausedThreads \union {t}
    BY <1>2 DEF PauseForHuman, PauseThread, At
  <2>2. \A u : ~WillPause(r, u)
    BY <2>1 DEF WillPause, AfterHuman, At
  <2>3. CASE run[r].decision = "none"
    <3>1. run'[r] = Idle /\ \A q \in Runs : q # r => run'[q] = run[q]
      BY <1>2, <2>3, DroppedEffect DEF PauseForHuman
    <3>2. QED
      BY <2>1, <2>2, <3>1, EndKept DEF AfterHuman, At, Idle
  <2>4. CASE run[r].decision # "none"
    <3>1. Moved(r, "decided")
      BY <1>2, <2>4 DEF PauseForHuman
    <3>2. run'[r].pc = "decided" /\ \A q \in Runs : q # r => run'[q] = run[q]
      BY <3>1, MovedEffect DEF Pcs
    <3>3. run'[r].decision = run[r].decision /\ run[r].decision \in Decisions
      BY <3>1 DEF Moved, BackendTypes, RunStates
    <3>4. run'[r].decision = "approve"
      BY <2>4, <3>3 DEF NoRejection, Decisions
    <3>5. QED
      BY <2>1, <2>2, <3>2, <3>4, EndKept
  <2>5. QED
    BY <2>3, <2>4
<1>3. ASSUME UnpauseAfterHuman(r) PROVE EndInv'
  <2>1. /\ AfterHuman(r) /\ UNCHANGED ck /\ run[r].node = "human_review"
        /\ pausedThreads' = pausedThreads \ {t} /\ Moved(r, "work")
    BY <1>3 DEF UnpauseAfterHuman, UnpauseThread, At, AfterHuman
  <2>2. /\ run'[r].pc = "work" /\ run'[r].thread = t /\ run'[r].node = "human_review"
        /\ \A q \in Runs : q # r => run'[q] = run[q]
    BY <2>1, MovedEffect DEF Pcs
  <2>3. run'[r].decision = "approve"
    BY <2>1 DEF Moved, BackendTypes, RunStates, EndInv
  <2>4. WillPause(r, t)'
    BY <2>2 DEF WillPause, AfterHuman, At
  <2>5. \A u : u # t => ~WillPause(r, u)
    BY DEF WillPause
  <2>6. QED
    BY <2>1, <2>2, <2>3, <2>4, <2>5, EndKept
<1>4. ASSUME \/ \E total \in Totals : Extract(r, total)
             \/ BlockUnsafe(r)
             \/ \E high \in RiskScores, flagged \in BOOLEAN : ScoreRisk(r, high, flagged)
             \/ Escalate(r) \/ RejectByAgent(r) \/ ApproveByAgent(r) \/ RouteDecision(r)
             \/ BlockDenied(r) \/ BlockUncovered(r) \/ BlockAfterHold(r) \/ BlockDuplicate(r)
             \/ Settle(r)
      PROVE  EndInv'
  <2>1. run[r].pc \notin {"idle", "admitted", "returned"} /\ UNCHANGED pausedThreads
    BY <1>4 DEF Extract, BlockUnsafe, ScoreRisk, Escalate, RejectByAgent, ApproveByAgent,
                RouteDecision, BlockDenied, BlockUncovered, BlockAfterHold, BlockDuplicate,
                Settle, At, killSwitchVars
  <2>2. t \in Threads
    BY <2>1 DEF HandlersFresh
  <2>3. PICK v, next : FinishNode(r, v, next) /\ (next = "end" => v.task \in TerminalTaskStates)
    BY <1>4, <2>2, FinishEnds
  <2>4. /\ run'[r].thread = t /\ run'[r].node = next /\ run'[r].values = v
        /\ run'[r].pc \in {"start", "returned"} /\ (run'[r].pc = "returned" => next = "end")
        /\ \A q \in Runs : q # r => run'[q] = run[q]
        /\ ck'[t] = [next |-> next, values |-> v]
        /\ \A u \in Threads : u # t => ck'[u] = ck[u]
    BY <2>2, <2>3, FinishPlace
  <2>5. ~AfterHuman(r)'
    BY <2>4 DEF AfterHuman, At
  <2>6. \A u : u # t => ~WillPause(r, u)
    BY DEF WillPause
  <2>7. next = "end" => WillPause(r, t)'
    BY <2>2, <2>3, <2>4 DEF FinishNode, WillPause, BackendTypes, RunStates
  <2>8. QED
    BY <2>1, <2>3, <2>4, <2>5, <2>6, <2>7, EndKept
<1>5. ASSUME RaiseError(r) PROVE EndInv'
  <2>1. /\ UNCHANGED <<ck, pausedThreads>> /\ run[r].pc # "returned" /\ run[r].node \in AgentNodes
        /\ run'[r] = Idle /\ \A q \in Runs : q # r => run'[q] = run[q]
    BY <1>5, DroppedEffect DEF RaiseError, killSwitchVars
  <2>2. \A u : ~WillPause(r, u)
    BY <2>1 DEF WillPause, AfterHuman, At, AgentNodes
  <2>3. QED
    BY <2>1, <2>2, EndKept DEF AfterHuman, At, Idle
<1>6. ASSUME Return(r) PROVE EndInv'
  <2>1. run[r].pc = "returned" /\ UNCHANGED ck /\ Dropped(r)
    BY <1>6 DEF Return
  <2>2. run[r].values.task \in TerminalTaskStates
    BY <2>1 DEF EndInv
  <2>3. pausedThreads' = pausedThreads \union {t}
    BY <1>6, <2>2 DEF Return, PauseThread
  <2>4. run'[r] = Idle /\ \A q \in Runs : q # r => run'[q] = run[q]
    BY <2>1, DroppedEffect
  <2>5. \A u : u # t => ~WillPause(r, u)
    BY DEF WillPause
  <2>6. QED
    BY <2>1, <2>3, <2>4, <2>5, EndKept DEF AfterHuman, At, Idle
<1>7. QED
  BY <1>1, <1>2, <1>3, <1>4, <1>5, <1>6 DEF Advance

LEMMA EndInvKept ==
  ASSUME ~Fails("pause"), ~Crashes, BackendTypes, HandlersFresh, EndInv, NoRejection,
         [Next]_vars
  PROVE  EndInv'
<1>1. ASSUME NEW r \in Runs, Advance(r) PROVE EndInv'
  BY <1>1, AdvanceKeepsEnd
<1>2. ASSUME NEW r \in Runs, NEW t \in Threads, Admit(r, t) PROVE EndInv'
  <2>1. UNCHANGED <<ck, pausedThreads>> /\ run[r].pc = "idle"
    BY <1>2 DEF Admit, killSwitchVars
  <2>2. run'[r].pc = "admitted" /\ \A q \in Runs : q # r => run'[q] = run[q]
    BY <1>2, AdmitEffect DEF Admit
  <2>3. (\A u : ~WillPause(r, u)) /\ ~AfterHuman(r)'
    BY <2>1, <2>2 DEF WillPause, AfterHuman, At
  <2>4. QED
    BY <2>1, <2>2, <2>3, EndKept
<1>3. ASSUME NEW r \in Runs, Submit(r) PROVE EndInv'
  <2>1. run[r].pc = "admitted" /\ UNCHANGED pausedThreads
    BY <1>3 DEF Submit, killSwitchVars
  <2>2. PICK v \in Values :
           /\ run[r].thread \in Threads
           /\ ck' = [ck EXCEPT ![run[r].thread] = [next |-> "extraction", values |-> v]]
           /\ run'[r].pc = "start"
           /\ \A q \in Runs : q # r => run'[q] = run[q]
    BY <1>3, SubmitEffect
  <2>3. /\ ck'[run[r].thread].next = "extraction"
        /\ \A t \in Threads : t # run[r].thread => ck'[t] = ck[t]
    BY <2>2 DEF BackendTypes
  <2>4. (\A u : ~WillPause(r, u)) /\ ~AfterHuman(r)'
    BY <2>1, <2>2 DEF WillPause, AfterHuman, At
  <2>5. QED
    BY <2>1, <2>2, <2>3, <2>4, EndKept
<1>4. ASSUME NEW r \in Runs, NEW decision \in {"approve", "reject"}, Resume(r, decision)
      PROVE  EndInv'
  <2>1. UNCHANGED <<ck, pausedThreads>> /\ run[r].pc = "admitted"
    BY <1>4 DEF Resume, killSwitchVars
  <2>2. /\ run[r].thread \in Threads
        /\ run'[r].pc \in {"start", "returned"}
        /\ run'[r].values = ck[run[r].thread].values
        /\ \A q \in Runs : q # r => run'[q] = run[q]
    BY <1>4, ResumeEffect DEF Decisions
  <2>3. run'[r].pc = "returned" => ck[run[r].thread].next = "end"
    BY <1>4 DEF Resume, BackendTypes, RunStates
  <2>4. (\A u : ~WillPause(r, u)) /\ ~AfterHuman(r)'
    BY <2>1, <2>2 DEF WillPause, AfterHuman, At
  <2>5. run'[r].pc = "returned" => run'[r].values.task \in TerminalTaskStates
    BY <2>2, <2>3 DEF EndInv
  <2>6. QED
    BY <2>1, <2>2, <2>4, <2>5, EndKept
<1>5. CASE CrashBackend
  BY <1>5 DEF CrashBackend
<1>6. CASE OperatorTrip \/ OperatorReset \/ Watchdog \/ RestartPlane \/ UNCHANGED vars
  <2>1. UNCHANGED <<ck, run, pausedThreads>>
    BY <1>6 DEF OperatorTrip, OperatorReset, Trip, Reset, Watchdog, Wake, Tick,
                CheckStaleHeartbeats, QueryStale, FinishStale, HaltSilent, HaltStale,
                RestartPlane, RestartControlPlane, vars, backendVars, killSwitchVars
  <2>2. QED
    BY <2>1 DEF EndInv, WillPause, AfterHuman, At
<1>7. QED
  BY <1>1, <1>2, <1>3, <1>4, <1>5, <1>6 DEF Next

(* As long as no human rejects an invoice, the backend does not die and    *)
(* the calls that pause and unpause arrive, a finished run is paused by    *)
(* the time its handlers have returned, so the watchdog does not take it   *)
(* for silent: a rejection is the only other way to the halt that          *)
(* pipeline_human_reject shows.  Resubmissions, second handlers, stops,    *)
(* errors and restarts of the control plane are none.                      *)
THEOREM FinishedHaltNeedsARejection ==
  ASSUME ~Crashes, "pause" \notin FailingCalls
  PROVE  Spec /\ []NoRejection => FinishedNotHalted
<1> DEFINE EInv == IInv /\ EndInv
<1>1. ~Fails("pause")
  BY DEF Fails
<1>2. Init => EInv
  <2> SUFFICES ASSUME Init PROVE EInv
    OBVIOUS
  <2>1. IInv
    BY IInvInit
  <2>2. /\ ck = [t \in Threads |-> [next |-> "none", values |-> NoValues]]
        /\ run = [r \in Runs |-> Idle]
    BY DEF Init
  <2>3. EndInv
    BY <2>2 DEF EndInv, AfterHuman, At, Idle
  <2>4. QED
    BY <2>1, <2>3
<1>3. EInv /\ NoRejection /\ [Next]_vars => EInv'
  <2> SUFFICES ASSUME EInv, NoRejection, [Next]_vars PROVE EInv'
    OBVIOUS
  <2>1. BackendTypes /\ HandlersFresh
    BY DEF IInv
  <2>2. EndInv'
    BY <1>1, <2>1, EndInvKept
  <2>3. QED
    BY <2>2, IInvKept
<1>4. EInv => \A t \in Threads : /\ ck[t].next = "end"
                                 /\ \A r \in Runs : run[r].thread # t
                                 => t \in pausedThreads
  BY DEF EndInv, WillPause
<1>5. EInv => [\A t \in Threads :
                  /\ HaltSilent(t) /\ t \notin haltedSessions
                  /\ ck[t].next = "end"
                  /\ \A r \in Runs : run[r].thread # t
                  => t \in pausedThreads]_vars
  BY <1>4
<1>6. QED
  BY <1>2, <1>3, <1>5, PTL DEF Spec, FinishedNotHalted
=============================================================================
