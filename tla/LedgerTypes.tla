----------------------------- MODULE LedgerTypes -----------------------------
(***************************************************************************)
(* The vocabulary shared by the ledger specifications: accounts, entries   *)
(* and payment requests of custodian-ledger (models.py, main.py), with     *)
(* amounts in whole cents.                                                 *)
(***************************************************************************)
EXTENDS Integers, Sequences, FiniteSets, FiniteSetsExt

CONSTANTS
    Accounts,         \* names with a row in the accounts table
    UnknownAccounts,  \* names a request may carry that have no row
    AccountType,      \* Account.type
    AllowNegative,    \* Account.allow_negative
    OpeningBalance,   \* the seeded balance
    Keys,             \* idempotency keys
    Requests          \* the bodies clients send, to either endpoint

AccountTypes == {"asset", "liability", "equity", "revenue", "expense"}

Directions == {"debit", "credit"}

Entry == [account : Accounts \union UnknownAccounts,
          direction : Directions,
          amount : Int]

(* "post" is POST /transactions, "dry_run" is POST /transactions/dry-run.  *)
Request == [op : {"post", "dry_run"}, key : Keys, entries : Seq(Entry)]

ASSUME LedgerAssumption ==
    /\ Accounts \intersect UnknownAccounts = {}
    /\ AccountType \in [Accounts -> AccountTypes]
    /\ AllowNegative \in [Accounts -> BOOLEAN]
    /\ OpeningBalance \in [Accounts -> Int]
    /\ \A a \in Accounts : AllowNegative[a] \/ OpeningBalance[a] >= 0
    /\ \A r \in Requests : r \in Request

IncreasesOnDebit == {"asset", "expense"}

(* signed_delta: a debit adds to assets and expenses, a credit to the rest *)
Delta(e) ==
    LET increases == IF AccountType[e.account] \in IncreasesOnDebit
                     THEN e.direction = "debit"
                     ELSE e.direction = "credit"
    IN  IF increases THEN e.amount ELSE -e.amount

EntriesOf(r, a) == {i \in DOMAIN r.entries : r.entries[i].account = a}

(* The sum of the values of a function with a finite domain.               *)
SumOf(f) == MapThenSumSet(LAMBDA i : f[i], DOMAIN f)

TotalOf(r, direction) ==
    SumOf([i \in {n \in DOMAIN r.entries : r.entries[n].direction = direction}
              |-> r.entries[i].amount])

Balanced(r) == TotalOf(r, "debit") = TotalOf(r, "credit")

(* No account is debited and credited, as in every request of the backend. *)
OneWay(r) ==
    \A i, j \in DOMAIN r.entries :
        r.entries[i].account = r.entries[j].account =>
            r.entries[i].direction = r.entries[j].direction
=============================================================================
