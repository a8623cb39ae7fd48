---------------------------- MODULE AtomicLedger ----------------------------
(***************************************************************************)
(* What custodian-ledger promises: a book of double-entry transactions in  *)
(* which each posting takes effect at one instant, at most once per        *)
(* idempotency key, balanced, and never overdrawing an account that does   *)
(* not allow it.  Ledger.tla is shown to implement this specification.     *)
(***************************************************************************)
EXTENDS LedgerTypes

VARIABLES
    balance,    \* the balance column of every row of accounts
    posted      \* the rows of transactions with their entries, oldest first

KeyPosted(key) == \E i \in DOMAIN posted : posted[i].key = key

(* An account with no entry keeps its balance; one with an entry moves by  *)
(* the signed amount of that entry.                                        *)
BalanceAfter(r, a) ==
    IF EntriesOf(r, a) = {}
    THEN balance[a]
    ELSE balance[a] + Delta(r.entries[CHOOSE i \in EntriesOf(r, a) : TRUE])

Init ==
    /\ balance = OpeningBalance
    /\ posted = << >>

Post(r) ==
    /\ r.op = "post"
    /\ ~KeyPosted(r.key)
    /\ Balanced(r)
    /\ \A i \in DOMAIN r.entries : r.entries[i].account \in Accounts
    /\ \A a \in Accounts :
          \/ EntriesOf(r, a) = {}
          \/ AllowNegative[a]
          \/ BalanceAfter(r, a) >= 0
    /\ posted' = Append(posted, r)
    /\ balance' = [a \in Accounts |-> BalanceAfter(r, a)]

Next == \E r \in Requests : Post(r)

Spec == Init /\ [][Next]_<<balance, posted>>
=============================================================================
