-------------------------- MODULE MCInvoicePipeline --------------------------
(***************************************************************************)
(* Small instances of InvoicePipeline: one or two invoices, one or two     *)
(* handlers; totals half a dollar above the agents' limit and a cent more. *)
(***************************************************************************)
EXTENDS InvoicePipeline, TLC

MCAgentOf ==
    [extraction |-> "extraction", risk_scoring |-> "risk-scoring",
     approval |-> "approval", payment_execution |-> "payment-execution"]

(* The agents before the payment under one name: fewer heartbeat rows.     *)
MCTwoAgents ==
    [n \in AgentNodes |-> IF n = "payment_execution" THEN n ELSE "reviewers"]

(* Every agent under one name, where only the payments matter.            *)
MCOneAgent == {"agents"}

MCAllAgents == [n \in AgentNodes |-> "agents"]

MCSymmetry == Permutations(Runs)

(* Two invoices, interchangeable as long as no operator names one.         *)
MCBookSymmetry == Permutations(Runs) \union Permutations(Threads)

MCAgentPair == {"reviewers", "payment_execution"}

MCFourAgents == {"extraction", "risk-scoring", "approval", "payment-execution"}

MCGlobalTrip == {[scope |-> "global", target |-> "*"]}

MCRiskTrip == {[scope |-> "agent", target |-> "risk-scoring"]}

MCSettlementTrips ==
    {[scope |-> "global", target |-> "*"],
     [scope |-> "agent", target |-> "payment_execution"],
     [scope |-> "session", target |-> "i1"],
     [scope |-> "tool", target |-> "create-ledger-entry"]}

MCNoTrips == {}
=============================================================================
