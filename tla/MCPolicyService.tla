--------------------------- MODULE MCPolicyService ---------------------------
(***************************************************************************)
(* Two handlers; payments of one vendor at the agents' limit, half a       *)
(* dollar and almost a dollar above it, a vendor seen for the first time,  *)
(* an OCR request; a stop of an agent and of a tool.                       *)
(***************************************************************************)
EXTENDS PolicyService, TLC

Approve(cents, firstSeen) ==
    [type |-> "Agent", id |-> "approval", tier |-> "read-and-flag", authority |-> 0,
     action |-> "ApprovePayment", vendor |-> "acme", amount |-> cents,
     firstSeen |-> firstSeen, approvals |-> 0, tool |-> Absent]

Invoke(agent, tool) ==
    [type |-> "Agent", id |-> agent, tier |-> "read-only", authority |-> 0,
     action |-> "InvokeTool", vendor |-> Absent, amount |-> 0,
     firstSeen |-> FALSE, approvals |-> 0, tool |-> tool]

(* The cases of run_authorization_matrix in validate-cedar-policies.py.    *)
By(type, id, tier, authority, action, cents) ==
    [type |-> type, id |-> id, tier |-> tier, authority |-> authority, action |-> action,
     vendor |-> "Acme", amount |-> cents, firstSeen |-> FALSE, approvals |-> 0, tool |-> Absent]

ASSUME AuthorizationMatrix ==
    /\ CedarAllows(By("Agent", "payment-execution", "write-ledger", 0, "ApprovePayment", 50000))
    /\ ~CedarAllows(By("Agent", "payment-execution", "write-ledger", 0, "ApprovePayment", 5000000))
    /\ CedarAllows(By("User", "controller.demo", Absent, 2, "ApprovePayment", 5000000))
    /\ CedarAllows(By("Agent", "risk-scoring", "read-and-flag", 0, "FlagForReview", 5000000))
    /\ ~CedarAllows(By("Agent", "risk-scoring", "read-and-flag", 0, "UpdateVendorRecord", 5000000))

MCRequests ==
    {Approve(500050, FALSE), Approve(500099, FALSE), Approve(100, TRUE),
     Invoke("extraction", "sandbox-ocr")}

MCStops ==
    {[scope |-> "agent", target |-> "approval"], [scope |-> "tool", target |-> "sandbox-ocr"]}

MCSymmetry == Permutations(Handlers)

=============================================================================
