---------------------------- MODULE CedarPolicies ----------------------------
(***************************************************************************)
(* The decision Cedar takes on one request to policy-service: the policies *)
(* 01 to 05, whose sizes are compared in whole dollars, after              *)
(* cedar_engine.py has rounded the amount.  Amounts are in cents.          *)
(***************************************************************************)
EXTENDS Integers

ApprovalLimit == 5000   \* dollars, policy 01

DualApproval == 2       \* approvals, policy 02

PolicyActions == {"ApprovePayment", "CreateLedgerEntry", "FlagForReview",
                  "RequestAdditionalDocumentation", "UpdateVendorRecord", "InvokeTool"}

(* Mutant of RoundedDollars: the cents are cut off.                        *)
TruncatedDollars(cents) == cents \div 100

(* Python's round(): to the nearest dollar, a half to the even one.        *)
RoundedDollars(cents) ==
    LET dollars == cents \div 100
        rest == cents % 100
    IN  IF rest > 50 \/ (rest = 50 /\ dollars % 2 = 1) THEN dollars + 1 ELSE dollars

(* A request q: the principal with its trust tier (agents) or approval     *)
(* authority (users), the action, and what the resource's attributes say.  *)

(* Policy 01.                                                              *)
AboveLimit(q) ==
    q.action = "ApprovePayment" /\ RoundedDollars(q.amount) > ApprovalLimit

ForbiddenAmount(q) == q.type = "Agent" /\ AboveLimit(q)

PermittedApproval(q) ==
    /\ q.action = "ApprovePayment"
    /\ \/ q.type = "User" /\ AboveLimit(q) /\ q.authority >= 2
       \/ q.type = "Agent" /\ ~AboveLimit(q)

(* Policy 02: whoever approves.                                            *)
ForbiddenVendor(q) ==
    q.action = "ApprovePayment" /\ q.firstSeen /\ q.approvals < DualApproval

(* Policy 03.                                                              *)
LedgerWrite(q) == q.type = "Agent" /\ q.action = "CreateLedgerEntry"

PermittedLedgerWrite(q) == LedgerWrite(q) /\ q.tier = "write-ledger"

ForbiddenLedgerWrite(q) == LedgerWrite(q) /\ q.tier # "write-ledger"

(* Policy 04: the tools each agent may invoke.                             *)
ToolsOf(agent) ==
    CASE agent = "extraction" -> {"request-additional-documentation", "sandbox-ocr"}
      [] agent = "risk-scoring" -> {"flag-for-review", "request-additional-documentation"}
      [] agent = "approval" ->
            {"flag-for-review", "request-additional-documentation", "update-vendor-record"}
      [] agent = "payment-execution" -> {"create-ledger-entry", "flag-for-review"}
      [] OTHER -> {}

(* Policy 05: the agents that may take the other actions.                  *)
AgentsFor(action) ==
    CASE action = "FlagForReview" -> {"risk-scoring", "approval", "payment-execution"}
      [] action = "RequestAdditionalDocumentation" ->
            {"extraction", "risk-scoring", "approval"}
      [] action = "UpdateVendorRecord" -> {"approval"}
      [] OTHER -> {}

Permitted(q) ==
    \/ PermittedApproval(q) \/ PermittedLedgerWrite(q)
    \/ q.type = "Agent" /\ q.action = "InvokeTool" /\ q.tool \in ToolsOf(q.id)
    \/ q.type = "Agent" /\ q.id \in AgentsFor(q.action)

Forbidden(q) == ForbiddenAmount(q) \/ ForbiddenVendor(q) \/ ForbiddenLedgerWrite(q)

(* Default deny; a forbid overrides every permit.                          *)
CedarAllows(q) == Permitted(q) /\ ~Forbidden(q)
=============================================================================
