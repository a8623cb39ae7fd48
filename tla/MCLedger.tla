------------------------------ MODULE MCLedger ------------------------------
(***************************************************************************)
(* Small instances of Ledger: cash holds 3, so two payments of 2 cannot    *)
(* both be covered; key k1 is sent with two amounts, as when an invoice is *)
(* resubmitted with a corrected total; the refund locks the two accounts   *)
(* in the opposite order of the payments.                                  *)
(***************************************************************************)
EXTENDS Ledger

CONSTANTS cash, expense, nowhere, k1, k2, k3

MCAccounts == {cash, expense}

MCAccountType == [a \in MCAccounts |-> IF a = cash THEN "asset" ELSE "expense"]

MCAllowNegative == [a \in MCAccounts |-> a = expense]

MCOpeningBalance == [a \in MCAccounts |-> IF a = cash THEN 3 ELSE 0]

DebitOf(a, n) == [account |-> a, direction |-> "debit", amount |-> n]

CreditOf(a, n) == [account |-> a, direction |-> "credit", amount |-> n]

(* The two entries of payment_execution.py.                                *)
Pay(op, key, n) ==
    [op |-> op, key |-> key, entries |-> <<DebitOf(expense, n), CreditOf(cash, n)>>]

Refund(key, n) ==
    [op |-> "post", key |-> key, entries |-> <<DebitOf(cash, n), CreditOf(expense, n)>>]

Lopsided ==
    [op |-> "post", key |-> k3, entries |-> <<DebitOf(expense, 2), CreditOf(cash, 1)>>]

Misaddressed ==
    [op |-> "post", key |-> k3, entries |-> <<DebitOf(expense, 1), CreditOf(nowhere, 1)>>]

(* An invoice of two lines booked on the same expense account.             *)
TwoLines ==
    [op |-> "post", key |-> k3,
     entries |-> <<DebitOf(expense, 1), DebitOf(expense, 1), CreditOf(cash, 2)>>]

MCPayments ==
    {Pay("post", k1, 2), Pay("post", k1, 1), Pay("post", k2, 2), Refund(k3, 1),
     Pay("dry_run", k2, 2), Lopsided, Misaddressed, TwoLines}

=============================================================================
