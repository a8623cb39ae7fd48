------------------------------- MODULE Ledger -------------------------------
(***************************************************************************)
(* custodian-ledger: concurrent POST /transactions and                     *)
(* /transactions/dry-run handlers over one Postgres database.  FastAPI     *)
(* runs each handler in a worker thread with a database session of its     *)
(* own, READ COMMITTED.  A step of a worker ends where another session can *)
(* be scheduled: at every SQL statement and at the answer.                 *)
(*                                                                         *)
(* Row locks (SELECT ... FOR UPDATE) are held until commit or rollback; a  *)
(* unique index makes an INSERT wait for an uncommitted row with the same  *)
(* key and fail once that row is committed.                                *)
(***************************************************************************)
EXTENDS LedgerTypes

CONSTANTS
    Workers,    \* threads serving requests
    NoOne       \* the owner of a row that is not locked

ASSUME WorkerAssumption == NoOne \notin Workers /\ Requests # {}

VARIABLES
    balance,    \* committed Account.balance
    posted,     \* committed transactions rows with their entries, oldest first
    lockedBy,   \* the session holding the row lock of an account
    pc,         \* the next statement of each worker
    req,        \* the request each worker serves
    results,    \* _validate_and_compute's results: one new balance per entry
    reply       \* what the handler answered

vars == <<balance, posted, lockedBy, pc, req, results, reply>>

Phases == {"idle", "check", "validate", "commit", "answer", "done"}

Replies == {"none", "created", "valid", "duplicate", "unbalanced",
            "account_not_found", "insufficient_funds", "error", "lost"}

Book == INSTANCE AtomicLedger

KeyPosted(key) == \E i \in DOMAIN posted : posted[i].key = key

(* A placeholder while a thread is idle.                                   *)
NoRequest == CHOOSE r \in Requests : TRUE

(* The entry whose account the worker locks next.                          *)
NextEntry(w) == req[w].entries[Len(results[w]) + 1]

MoreEntries(w) == Len(results[w]) < Len(req[w].entries)

(* Mutant of Unlock: the session ends and leaves its rows locked.          *)
UnlockForgotten(w) == UNCHANGED lockedBy

(* Rollback and commit both release the row locks.                         *)
Unlock(w) == lockedBy' = [a \in Accounts |-> IF lockedBy[a] = w THEN NoOne ELSE lockedBy[a]]

(* Mutant of Fail: get_db closes the session only when nothing was raised, *)
(* so a refused request leaves its transaction and its row locks open.     *)
FailKeepsLocks(w, r) ==
    /\ pc' = [pc EXCEPT ![w] = "done"]
    /\ reply' = [reply EXCEPT ![w] = r]
    /\ results' = [results EXCEPT ![w] = << >>]
    /\ IF r = "valid" THEN Unlock(w) ELSE UNCHANGED lockedBy
    /\ UNCHANGED <<balance, posted, req>>

(* The handler is left with answer r: the session is rolled back.          *)
Fail(w, r) ==
    /\ pc' = [pc EXCEPT ![w] = "done"]
    /\ reply' = [reply EXCEPT ![w] = r]
    /\ results' = [results EXCEPT ![w] = << >>]
    /\ Unlock(w)
    /\ UNCHANGED <<balance, posted, req>>

(* Mutant of LockFree: the SELECT lost its FOR UPDATE.                     *)
LockNotNeeded(w, a) == TRUE

LockFree(w, a) == lockedBy[a] \in {NoOne, w}

(* Mutant of CanCover: the balance is checked before the entry is applied. *)
CoveredBefore(a, new) == balance[a] >= 0 \/ AllowNegative[a]

CanCover(a, new) == new >= 0 \/ AllowNegative[a]

(* Mutant of NewBalance: the balance was cached when the service started.  *)
CachedBalance(w) == OpeningBalance[NextEntry(w).account] + Delta(NextEntry(w))

(* _validate_and_compute reads the balance under the row lock.             *)
NewBalance(w) == balance[NextEntry(w).account] + Delta(NextEntry(w))

(* Another session has inserted the same idempotency key, uncommitted.     *)
KeyPending(w) == \E v \in Workers \ {w} : pc[v] = "commit" /\ req[v].key = req[w].key

(* UNIQUE (transaction_id, account_id, direction) on entries.              *)
RepeatsAnEntry(r) ==
    \E i, j \in DOMAIN r.entries :
        /\ i # j
        /\ r.entries[i].account = r.entries[j].account
        /\ r.entries[i].direction = r.entries[j].direction

(* The ORM assigns account.balance entry by entry: the last one stays.     *)
WrittenBalance(w, a) ==
    IF EntriesOf(req[w], a) = {} THEN balance[a]
                                 ELSE results[w][Max(EntriesOf(req[w], a))]

-----------------------------------------------------------------------------

Init ==
    /\ balance = OpeningBalance
    /\ posted = << >>
    /\ lockedBy = [a \in Accounts |-> NoOne]
    /\ pc = [w \in Workers |-> "idle"]
    /\ req = [w \in Workers |-> NoRequest]
    /\ results = [w \in Workers |-> << >>]
    /\ reply = [w \in Workers |-> "none"]

(* create_transaction / dry_run_transaction: a request reaches a thread.   *)
Receive(w, r) ==
    /\ pc[w] = "idle"
    /\ req' = [req EXCEPT ![w] = r]
    /\ pc' = [pc EXCEPT ![w] = IF r.op = "post" THEN "check" ELSE "validate"]
    /\ UNCHANGED <<balance, posted, lockedBy, results, reply>>

(* post_transaction's SELECT: a committed row with this key is a 409.      *)
CheckExisting(w) ==
    /\ pc[w] = "check"
    /\ ~KeyPosted(req[w].key)
    /\ pc' = [pc EXCEPT ![w] = "validate"]
    /\ UNCHANGED <<balance, posted, lockedBy, req, results, reply>>

(* Mutant of RejectExisting: a key seen before is answered as a success.   *)
AcceptExisting(w) ==
    /\ pc[w] = "check"
    /\ KeyPosted(req[w].key)
    /\ Fail(w, "created")

RejectExisting(w) ==
    /\ pc[w] = "check"
    /\ KeyPosted(req[w].key)
    /\ Fail(w, "duplicate")

(* Debits and credits are compared before any row is locked.               *)
RejectUnbalanced(w) ==
    /\ pc[w] = "validate"
    /\ ~Balanced(req[w])
    /\ Fail(w, "unbalanced")

RejectUnknownAccount(w) ==
    /\ pc[w] = "validate"
    /\ Balanced(req[w])
    /\ MoreEntries(w)
    /\ NextEntry(w).account \notin Accounts
    /\ Fail(w, "account_not_found")

(* The row lock is granted and the new balance is acceptable.              *)
LockAccount(w) ==
    /\ pc[w] = "validate"
    /\ Balanced(req[w])
    /\ MoreEntries(w)
    /\ LET a == NextEntry(w).account
       IN  /\ a \in Accounts
           /\ LockFree(w, a)
           /\ CanCover(a, NewBalance(w))
           /\ lockedBy' = [lockedBy EXCEPT ![a] = w]
    /\ results' = [results EXCEPT ![w] = Append(@, NewBalance(w))]
    /\ UNCHANGED <<balance, posted, pc, req, reply>>

RejectOverdraft(w) ==
    /\ pc[w] = "validate"
    /\ Balanced(req[w])
    /\ MoreEntries(w)
    /\ LET a == NextEntry(w).account
       IN  /\ a \in Accounts
           /\ LockFree(w, a)
           /\ ~CanCover(a, NewBalance(w))
    /\ Fail(w, "insufficient_funds")

Validated(w) == pc[w] = "validate" /\ Balanced(req[w]) /\ ~MoreEntries(w)

(* dry_run always rolls back.                                              *)
AnswerDryRun(w) ==
    /\ Validated(w)
    /\ req[w].op = "dry_run"
    /\ Fail(w, "valid")

(* Mutant of InsertTransaction: idempotency_key has no unique index.       *)
InsertUnchecked(w) ==
    /\ Validated(w)
    /\ req[w].op = "post"
    /\ pc' = [pc EXCEPT ![w] = "commit"]
    /\ UNCHANGED <<balance, posted, lockedBy, req, results, reply>>

(* db.flush(): INSERT INTO transactions.                                   *)
InsertTransaction(w) ==
    /\ Validated(w)
    /\ req[w].op = "post"
    /\ ~KeyPending(w)
    /\ ~KeyPosted(req[w].key)
    /\ pc' = [pc EXCEPT ![w] = "commit"]
    /\ UNCHANGED <<balance, posted, lockedBy, req, results, reply>>

(* The unique index refuses the key at flush, outside the try block: the   *)
(* IntegrityError reaches the client as a 500.                             *)
InsertConflict(w) ==
    /\ Validated(w)
    /\ req[w].op = "post"
    /\ KeyPosted(req[w].key)
    /\ Fail(w, "error")

(* db.commit(): the entries and the balances, then the transaction.        *)
Commit(w) ==
    /\ pc[w] = "commit"
    /\ ~RepeatsAnEntry(req[w])
    /\ posted' = Append(posted, req[w])
    /\ balance' = [a \in Accounts |-> WrittenBalance(w, a)]
    /\ pc' = [pc EXCEPT ![w] = "answer"]
    /\ results' = [results EXCEPT ![w] = << >>]
    /\ Unlock(w)
    /\ UNCHANGED <<req, reply>>

(* The IntegrityError of the entries is inside the try block: a 409.       *)
CommitConflict(w) ==
    /\ pc[w] = "commit"
    /\ RepeatsAnEntry(req[w])
    /\ Fail(w, "duplicate")

(* create_transaction reads the row back, audits it and answers.           *)
AnswerCreated(w) ==
    /\ pc[w] = "answer"
    /\ Fail(w, "created")

(* The client has the answer; the thread is free.                          *)
Return(w) ==
    /\ pc[w] = "done"
    /\ pc' = [pc EXCEPT ![w] = "idle"]
    /\ req' = [req EXCEPT ![w] = NoRequest]
    /\ reply' = [reply EXCEPT ![w] = "none"]
    /\ UNCHANGED <<balance, posted, lockedBy, results>>

(* The session whose row lock worker w waits for.                          *)
Blocker(w) == IF /\ pc[w] = "validate"
                 /\ Balanced(req[w])
                 /\ MoreEntries(w)
                 /\ NextEntry(w).account \in Accounts
              THEN lockedBy[NextEntry(w).account]
              ELSE NoOne

(* Postgres aborts one transaction of a cycle of waiters: a 500.           *)
BreakDeadlock(w) ==
    /\ \E cycle \in SUBSET Workers :
          /\ Cardinality(cycle) > 1
          /\ w \in cycle
          /\ {Blocker(v) : v \in cycle} = cycle
    /\ Fail(w, "error")

(* The service is killed and restarted: Postgres rolls every open          *)
(* transaction back and the clients get no answer.  The seed finds its     *)
(* rows and adds nothing.                                                  *)
Restart ==
    /\ \E w \in Workers : pc[w] \notin {"idle", "done"}
    /\ pc' = [w \in Workers |-> IF pc[w] = "idle" THEN "idle" ELSE "done"]
    /\ reply' = [w \in Workers |-> IF pc[w] \in {"idle", "done"} THEN reply[w] ELSE "lost"]
    /\ results' = [w \in Workers |-> << >>]
    /\ lockedBy' = [a \in Accounts |-> NoOne]
    /\ UNCHANGED <<balance, posted, req>>

Step(w) ==
    \/ CheckExisting(w) \/ RejectExisting(w) \/ RejectUnbalanced(w)
    \/ RejectUnknownAccount(w) \/ RejectOverdraft(w)
    \/ AnswerDryRun(w) \/ InsertTransaction(w) \/ InsertConflict(w)
    \/ Commit(w) \/ CommitConflict(w) \/ AnswerCreated(w) \/ Return(w)

Next ==
    \/ \E w \in Workers, r \in Requests : Receive(w, r)
    \/ \E w \in Workers : Step(w) \/ LockAccount(w) \/ BreakDeadlock(w)
    \/ Restart

Spec == Init /\ [][Next]_vars

(* Threads run, Postgres grants a row lock in the order it was asked for   *)
(* and looks for deadlocks after deadlock_timeout.                         *)
Fairness ==
    \A w \in Workers :
        /\ WF_vars(Step(w))
        /\ SF_vars(LockAccount(w))
        /\ SF_vars(RejectOverdraft(w))
        /\ WF_vars(BreakDeadlock(w))

FairSpec == Spec /\ Fairness

-----------------------------------------------------------------------------

(* A row is locked only by a session that is inside its transaction.       *)
LocksHeld == \A a \in Accounts : lockedBy[a] # NoOne => pc[lockedBy[a]] \in {"validate", "commit"}

(* The types, and no row lock outlives the transaction that took it,       *)
(* whichever way the handler is left (get_db's finally: db.close()).       *)
TypeOK ==
    /\ balance \in [Accounts -> Int]
    /\ posted \in Seq(Requests)
    /\ lockedBy \in [Accounts -> Workers \union {NoOne}]
    /\ pc \in [Workers -> Phases]
    /\ req \in [Workers -> Requests]
    /\ results \in [Workers -> Seq(Int)]
    /\ reply \in [Workers -> Replies]
    /\ LocksHeld

(* The accounts that the backend depends on: operating-cash never goes     *)
(* below zero however many payments race (ledger.py: the row lock is there *)
(* "so two concurrent payments can't both pass the balance check").        *)
NoOverdraft == \A a \in Accounts : AllowNegative[a] \/ balance[a] >= 0

(* An idempotency key moves money at most once, whatever the interleaving  *)
(* of check, lock, flush and commit and however often the client retries.  *)
AtMostOncePerKey ==
    \A i, j \in DOMAIN posted : posted[i].key = posted[j].key => i = j

(* While a session validates and commits, every balance it computed is the *)
(* committed balance of a row it holds the lock of plus its own entry, and *)
(* a session past its flush is alone with a key that is not yet posted:    *)
(* what makes writing the results back at commit safe.                     *)
ResultsCurrent(w) ==
    \A i \in DOMAIN results[w] :
        LET e == req[w].entries[i]
        IN  /\ e.account \in Accounts
            /\ lockedBy[e.account] = w
            /\ results[w][i] = balance[e.account] + Delta(e)
            /\ CanCover(e.account, results[w][i])

ReadyToCommit(w) ==
    /\ req[w].op = "post"
    /\ Balanced(req[w])
    /\ Len(results[w]) = Len(req[w].entries)
    /\ ~KeyPosted(req[w].key)
    /\ ~KeyPending(w)

SessionInv ==
    \A w \in Workers :
        /\ pc[w] \notin {"validate", "commit"} => results[w] = << >>
        /\ Len(results[w]) <= Len(req[w].entries)
        /\ ResultsCurrent(w)
        /\ pc[w] = "commit" => ReadyToCommit(w)

(* By how much the entries of a transaction move an account.               *)
MovedBy(r, a) == SumOf([n \in EntriesOf(r, a) |-> Delta(r.entries[n])])

(* The cached running balance of an account is what its entries add up to, *)
(* so no concurrent commit is lost.                                        *)
EntryTotal(a) == SumOf([i \in DOMAIN posted |-> MovedBy(posted[i], a)])

BooksAgree == \A a \in Accounts : balance[a] = OpeningBalance[a] + EntryTotal(a)

(* A 200 means that exactly this request was recorded.  A 409 means that   *)
(* its key is (DuplicateTransactionError), or that the request repeats an  *)
(* entry, which violates the other unique constraint.                      *)
AnswersTruthful ==
    \A w \in Workers :
        /\ reply[w] = "created" => \E i \in DOMAIN posted : posted[i] = req[w]
        /\ reply[w] = "duplicate" => KeyPosted(req[w].key) \/ RepeatsAnEntry(req[w])

(* Every commit is one atomic posting of the abstract book.                *)
ImplementsBook == Book!Spec

(* Every request is answered: no row lock outlives its session and no      *)
(* cycle of waiters lasts.                                                 *)
EveryRequestAnswered == \A w \in Workers : pc[w] # "idle" ~> pc[w] = "idle"
=============================================================================
