# Verification of Custodian

TLA+ specifications of Custodian, the governed multi-agent invoice platform of
this repository: what its ledger and vendor history, its kill switch, policy
service, audit log and sandbox, and the invoice pipeline on top of them do, step
by step, and which promises they keep when handlers interleave, services
restart, calls get no answer and an operator or the watchdog stops a run.

TLC checks small instances of every module. TLAPS proves the safety properties
of all of them, and the three refinements between them, for every value of the
constants; what only TLC checks is listed in section 5. `PROJECT.json`
is the index: components, runs, the source lines each definition models,
hazards, findings and theorems.

## 1. The system

```
            console / client
                  |  POST /runs, POST /runs/{id}/resume
                  v
   backend: extraction -> risk_scoring -> approval -> payment_execution
      |            \-> human_review <-/                     |
      |  checkpoints (Postgres)                             | dry-run, commit
      |                                                     v
      |-- authorize --> policy-service ----------> ledger (Postgres)
      |-- heartbeat, pause, status --> control-plane <-- operators
      |                                   |  watchdog reads heartbeats and
      |                                   |  policy_decisions
      '-- append --> audit-log  <---------'
```

| Component | State | Operations | How it is touched by others | What is hard | What makes it correct |
| --- | --- | --- | --- | --- | --- |
| `custodian-ledger` | `accounts`, `transactions`, `entries` (Postgres); vendors and their history | post a transaction, dry run, vendor look-up, record a vendor's payment | backend before and after the settlement hold | two sessions on one balance; check-then-insert of the key; locks taken in the order of the entries; a kill between commit and answer | no overdraft, one posting per key, balances that agree with the entries, truthful answers, every request answered |
| `custodian-control-plane` | the switch, in memory; `heartbeats`, `paused_threads` (Postgres); canary watermark | heartbeat, pause, unpause, trip, reset, status; the watchdog's three checks | every node of the graph, policy-service, operators | the watchdog acts on rows read earlier; state lost at a restart; a query that raises ends the loop | silent threads and only those are halted; repeated denials pause the agent; a canary decision stops everything |
| `custodian-backend` pipeline | one LangGraph checkpoint per thread; a handler's copy of the state | submit, resume, one node per step | calls every other service | two handlers of one invoice; a crash or an exception between two nodes; resubmission on top of an old checkpoint; a stop that arrives during the hold; calls that fail open or closed | paid at most once; "settled" means paid; large payments reviewed; stops honoured; no unwatched agent |
| `custodian-backend` model clients | none that lasts | model calls, guardrail, redaction, tracing | nodes | answers that are wrong or missing | (nondeterministic choices of the pipeline) |
| `policy-service` | `policy_decisions` (Postgres) | authorize, reload | backend; read by the watchdog | the rate limit counts and records in two steps; the switch is read after that | at most the limit of approvals per vendor and window |
| Cedar policies | none | evaluate a request | policy-service | rounding of cents, overlapping forbids | no agent approves above the limit; ledger writes only by payment-execution |
| `custodian-audit-log` | `audit_log` (Postgres), objects in MinIO with a retention lock, the last verdict in memory | append, verify, the verification watchdog | every service | the object is written before the row commits; concurrent appends; verification while rows arrive | an append-only tree of entries whose objects exist; every break known in the end, and nothing else |
| `custodian-sandbox-runner` | a temporary directory, a container | run OCR in a disposable container | backend, for uploaded images | timeouts that race the end of the container, a caller that has given up, clean-up | the text is the one this upload's container wrote; nothing runs on, nothing is left behind |
| `custodian-data-loader` | `vendors`, `historical_payments` | upsert | batch, and the ledger reads and writes the same rows | runs again over what it loaded, next to live payments | unique awards and names; no vendor that counts more than it was paid and seeded |
| `custodian-sandbox-ocr` | none | OCR of one image | sandbox-runner | - | - |
| `custodian-console` | the session of a user | submit, decide, trip, show | backend, control-plane, ledger, audit-log | what a human decided on may have been replaced since | - |
| evaluation gate | the alias of a prompt in MLflow | score, promote | offline | promotion of what was not scored | - |
| scripts and configuration | - | - | - | - | - |

## 2. Modules

| Module | Models | State | Actions |
| --- | --- | --- | --- |
| `LedgerTypes` | accounts, entries, requests; `signed_delta`, the balance of debits and credits | - | - |
| `AtomicLedger` | what the ledger promises: one atomic posting per key | `balance`, `posted` | `Post` |
| `Ledger` | `ledger.py` and the two handlers of `main.py`, one action per SQL statement: `post_transaction`, `_validate_and_compute`, `dry_run`, over Postgres row locks and unique indexes | rows: `balance`, `posted`, `lockedBy`; per worker thread: `pc`, `req`, `results`, `reply` | `Receive`, `CheckExisting`, `LockAccount`, `InsertTransaction`, `Commit`, their failures, `Restart`, Postgres's `BreakDeadlock` |
| `VendorHistory` | `record_vendor_payment` of the ledger's `main.py`, the commit that precedes it in `payment_execution.py`, and the data loader's upserts of vendors and awards over the same tables | `posted`; rows: `vendors`, `payments`, `nextId`; `session` per payer, `loader`, `loads` | `Pay`, `FindVendor`, `InsertVendor`, `CommitRecord`, `LoseRecord`; `StartLoad`, `UpsertVendor`, `UpsertPayment`, `EndLoad` |
| `KillSwitch` | the part of control-plane `main.py` that runs touch: switch, heartbeats, pauses, the watchdog's check for silent threads | `globalStop`, `pausedAgents`, `haltedSessions`, `frozenTools`, `age`, `pausedThreads`, `phase`, `found` | one per endpoint; `Tick`, `QueryStale`, `HaltStale`, `FinishStale`; `RestartControlPlane` |
| `ControlPlane` | all of control-plane `main.py`: adds the decision log, the other two checks, errors and restarts | adds `decisions`, `watermark` | `QueryDenials`, `PauseOffender`, `QueryCanary`, `StopOnCanary`, `TickError`, `Restart` |
| `CedarPolicies` | policies 01 to 05 and the rounding of `cedar_engine.py`, as predicates over one request | - | - |
| `PolicyService` | policy-service `main.py` and `temporal.py`: concurrent `authorize` | `decisions`; per handler: `pc`, `req`, `verdict`; the control plane's `stops` | `Receive` (Cedar), `CountApprovals`, `ReadSwitch`, `RecordDecision`, `Abandon`; stops; `Tick` |
| `InvoicePipeline` | the backend: `graph.py`, the nodes, submit and resume of `main.py`, composed with `KillSwitch` and the ledger's committed book | `ck` (checkpoints), `run` (handlers), `posted`, `cash`, `trippedInHold` (history) | one per node outcome; `Submit`, `Resume`; of a payment `AuthorizePayment`, `BeginHold`, `ClearHold`, `CommitPayment`, `Settle` and their refusals; `RaiseError`, `CrashBackend`; operators; watchdog |
| `AuditTrail` | what the audit log promises: an append-only tree of sealed entries, each with its object put first | `objects`, `entries` | `Put`, `Extend` |
| `AuditLog` | audit-log `main.py`: `_append_internal` over MinIO and Postgres, and the verification watchdog, with alterations of either store from outside | `chain`, `stored`, `shadowed`; `session` per writer; the watchdog's `known`, `watch` (its rows) and `todo` (findings of its tick); histories `lost`, `overlapped` | `Call`, `PutObject`, `InsertRow`, `Commit`, `FailCall`; `FetchRows`, `CheckRows`, `Report`, `FinishTick`, `FailTick`; `Restart`; `AlterRow`, `ShadowObject`, `UncoverObject` |
| `SandboxRunner` | the backend's `start_run_from_image`, sandbox-runner `main.py` behind it, and the container as Docker treats it | `upload`, `pc`, `answer`; `container`, `exitCode`, `output`, `volume`; history `faulted` | one per call to Docker; `GiveUp`, `TakeAnswer`; `WriteOutput`, `Exit`, `AutoRemove`; `DockerFails`, `RunnerDies` |
| `LedgerProofs`, `VendorProofs`, `KillSwitchProofs`, `ControlPlaneProofs`, `PolicyProofs`, `AuditProofs`, `SandboxProofs`, `PipelineProofs` | theorems about the module they are named for; `ControlPlaneProofs` and `PipelineProofs` share the lemmas of `KillSwitchProofs` | - | - |
| `MCLedger`, `MCVendorHistory`, `MCControlPlane`, `MCPolicyService`, `MCInvoicePipeline`, `MCAuditLog`, `MCSandboxRunner` | the small instances | - | - |

How they compose. `KillSwitch` is the shared part of two compositions:
`ControlPlane` completes it to the whole service, with arbitrary callers;
`InvoicePipeline` puts the real callers beside it, the agents. There the ledger
is one atomic posting per key, and an agent's approval is bounded by the
rounding and the limit of `CedarPolicies`. `PolicyService` keeps of the control
plane only which stops are in force, which is all that `/status` tells it.

Three refinements are stated with `INSTANCE ... WITH`:

* `Ledger` implements `AtomicLedger` on the same rows (`ImplementsBook`);
* `InvoicePipeline` changes `posted` and `cash` only as `AtomicLedger` allows,
  with the backend's payment translated to the entries it sends
  (`PaysIntoBook`). So the pipeline's ledger and the ledger's own specification
  meet at one abstract book;
* `AuditLog` implements `AuditTrail` (`ImplementsTrail`).

### Where a step ends

* Ledger: at a SQL statement and at the answer. A row lock lasts to commit or
  rollback. An insert of a key that another session has inserted and not
  committed waits; once that one commits, it fails.
* Vendor history: at each read and at each commit. The UPDATE of a vendor and the
  INSERT of the payment are flushed by the commit and take effect with it; what
  they write was read earlier. The loader commits once per award.
* Control plane: a handler is one step. The watchdog's checks are a query and
  then one step per row it returned, since handlers run in between.
* Policy service: at each database connection and at the read of the switch;
  Cedar runs in the process.
* Audit log: reading the newest entry and sealing the new one, putting the
  object, the INSERT (which takes the id), and the commit (which makes the row
  visible) are four steps. The watchdog reads all rows, compares them with the
  objects, and then writes its findings one by one, each an append like any
  other.
* Sandbox: at each call to Docker. Docker runs, stops and removes containers by
  itself. The backend's handler is a coroutine that makes a blocking call, so it
  blocks the event loop and only one upload at a time waits for the runner.
* Backend: at a call to another service. A handler works on the copy it loaded;
  a node's return saves a checkpoint, and of two handlers the later save wins.
  LangGraph's checkpointer is not part of the repository; from how `main.py` and
  `graph.py` use it the model takes: the checkpoint names the next node, a node
  that raised stays pending, `Command(resume=...)` runs whatever is pending, an
  assignment in a router is not saved, and channels that the initial state does
  not name survive a new `invoke`.

### What is abstracted

Amounts are integers of cents; an invoice is its id and its total; the
risk agent's answer is one bit; a model's answer is any of those its schema
allows. Ages are counted in watchdog ticks and saturate just above the limit.
SHA-256 gives every sealed entry a digest of its own, the number under which it
was sealed. Of a vendor's two sums, `award_count` is modelled; `total_awarded`
moves with it and is left out. Metrics, traces and redaction change nothing that the
properties speak of and are left out, and so are the calls that other services
make to the audit log: `AuditLog` takes any caller.

## 3. Runs

| Run | Instance | Shows |
| --- | --- | --- |
| `ledger_payments` | 2 worker threads; cash 3; two amounts for one key, a second key, a refund with the opposite lock order, a dry run, an unbalanced request, an unknown account, two lines on one account | `NoOverdraft`, `AtMostOncePerKey`, `BooksAgree`, `AnswersTruthful`, the inductive `SessionInv`, `ImplementsBook` (refinement), `EveryRequestAnswered` (liveness) |
| `vendor_history` | 2 payers; 4 payments over 2 spellings of one vendor and a retry with another amount and vendor; 2 awards, loaded twice | `RecordedWasPaid`, `NeverOvercounted` |
| `control_plane` | 2 agents on one thread, an operator who may pause and resume an agent, two decisions that deny that agent, on an ordinary vendor or on the canary, one fault (a restart or a failing query) | `HaltsOnlySilentThreads`, `SilentThreadHalted`, `DenialsPauseAgent`, `CanaryStopsEverything` |
| `policy_decisions` | 2 handlers; approvals at 5000.50 and 5000.99 and of a first-seen vendor, an OCR request; stops of an agent and a tool; queries that raise; approvals that age | `OvershootBounded`, `StopOverrides`, `AgentsApproveRoutine`; and, as an assumption TLC evaluates, the authorization matrix of `validate-cedar-policies.py` |
| `audit_log` | 2 callers with 2 appends between them, the watchdog; one alteration (a row changed or an object shadowed, and perhaps put back), one fault (a store fails, a restart) | `SequentialVerifies`, `KnownIsOnRecord`, `ImplementsTrail` (refinement), `WatchdogCatchesUp` (liveness) |
| `pipeline_payments` | 2 handlers of one invoice, resubmission with another total, crashes, lost answers, control-plane restarts, pause/status/authorize calls that may fail; cash for two payments, so that only the key prevents the second | `PaidOnce`, `SettledIsPaid`, `LargePaymentsReviewed` |
| `pipeline_book` | 2 handlers, 2 invoices, crashes and resumes; cash for one payment only | `PaysIntoBook` (refinement) |
| `pipeline_watched` | 1 handler, watchdog, all four scopes tripped and reset, lost heartbeats, crashes | `HoldHonoursStop`, `WatchedWhileWorking`, `StalledRunHalted` (liveness) |
| `sandbox_runs` | 2 uploads, the second served while the runner still works on one the backend gave up; one Docker call that fails or a runner that dies | `FedWhatWasRead`, `NotAbandoned`, `ScratchRemoved`, `SandboxStops` (liveness) |

Every module's `TypeOK` is an invariant of one of its runs. Where there is more to
say than types it says it: unique indexes, the row locks of a session that is
left (`LocksHeld`), and the watermark within the decision log, below the rows at
hand. Each property of these runs has a mutant of a mapped definition in
`PROJECT.json` - a dropped lock, a session that is not closed after an error, a
watermark one too high, a key with the amount in it, a status read too early, a
wait without a limit - under which TLC finds it violated.

### Bounds, and why they are enough

* Two workers reach every conflict of the ledger: the properties relate two
  sessions at a time, and the theorems of section 5 cover any number. Cash of 3
  with payments of 2 makes the second payment fail only if it sees the first.
* One thread in `pipeline_payments` and `pipeline_watched`: threads share
  nothing in the backend but the switch, whose per-thread part is indexed by
  thread, and the cash, which is what `pipeline_book` is about: there two
  invoices of 5000.51 meet at a cash of 6000.00. Two handlers of one thread are
  the case that matters elsewhere. `RiskScores = {FALSE}` and one agent name where
  `high` and the heartbeats play no part in the properties;
  `pipeline_flag_denied` is about `high`. `SYMMETRY` permutes the handlers (and,
  in `pipeline_book`, the invoices), which only safety runs use.
* `FailingCalls` picks the calls that may get no answer. `pipeline_watched`
  leaves "status" out: a status read without an answer is all-clear
  (`payment_execution.py:61`, `control_plane_client.py:53`), so `HoldHonoursStop`
  is a statement about a control plane that answers. It leaves `PlaneRestarts`
  out for the same reason: a restart forgets every trip (section 6). Both are
  premises of the theorem.
* `Resubmission` is off in `pipeline_watched`: `WatchedWhileWorking` does not
  hold of an invoice that is submitted again (section 6).
* `PromptAgents` says that an agent's step, and the way of a handler from the
  return of `graph.invoke` to `_pause_if_terminal`, are shorter than the staleness
  limit. Without it a slow model call may be taken for silence, as the code means it.
* `Crashes` lets the backend's process die at any point of a handler. It is off
  only in `pipeline_human_reject`, whose trace needs no crash.
* `control_plane` takes `MaxDecisions` 2 with `DenialThreshold` 2, so that the
  count matters, one denial being none too many, and so that the watermark can
  stand between two decisions, with or without a restart in between. Which
  decisions the policy service takes is the constant `Verdicts`: here denials of one agent, on an
  ordinary vendor or on the canary, since allowed decisions and other agents' only take
  room in the log; the theorems cover any. `DenialWindow` 2 lets a denial
  leave the window before the other.
* `policy_decisions` takes a limit of one approval instead of three and three
  recorded decisions: the overshoot needs one recorded approval and two in
  flight, and the theorem covers every limit. `SwitchUnreachable` is off, since
  an unreachable control plane denies nothing by design (`main.py:64-65`).
* `MaxFaults` appears in `DenialsPauseAgent`: each failing loop costs a tick of
  the window, so a denial must be young enough to be seen by a loop that runs.
* `audit_log` takes `MaxCalls` 2, `MaxDamage` 1 (putting things back does not
  count) and `MaxFaults` 1: two requests, or a request and a finding, are enough
  to overlap, a finding about a finding needs one alteration, and the fault can
  hit any step of either. The watchdog's own appends are unbounded by
  constants: they end when nothing new is found.
* `vendor_history` takes `MaxLoads` 2, the second of which repeats the first,
  and payments in pairs that collide by key, by vendor and by spelling.
* `sandbox_runs` takes two uploads, since the second can only be posted once the
  first got its answer or was given up, and one fault.

`CHECK_DEADLOCK FALSE` stands in the runs whose systems really stop: every call
was made and every load was done (`audit_log`, `audit_log_fork`,
`vendor_history`), or every upload was answered (`sandbox_runs`).

### Fairness

* Ledger: weak fairness of each worker's statements (threads run), strong
  fairness of being granted a row lock (Postgres queues the waiters), weak
  fairness of deadlock detection (`deadlock_timeout`). Nobody has to send
  anything, and the service may restart at any time.
* Control plane: weak fairness of the watchdog's loop - a daemon thread with a finite
  sleep that catches what a check raises.
* Pipeline: the same for the watchdog, and handlers that run make progress
  (each call has a timeout); nobody has to submit or resume.
* Audit log: weak fairness of the watchdog's tick, a daemon thread as well, and of
  the append it makes. Requests need not finish.
* Sandbox: weak fairness of the runner's handler, whose wait has a hard timeout;
  nothing is assumed of the container or of the backend.

## 4. Findings

Three runs end in a violation: the code does something else than a comment or the
README says. Each run checks one property and `PROJECT.json` quotes the lines.

| Run | Property | What TLC shows |
| --- | --- | --- |
| `pipeline_human_reject` | `FinishedNotHalted` | `route_after_human` assigns `task_state` to a copy; the rejected run never becomes terminal, is not paused and is halted as silent |
| `pipeline_flag_denied` | `HighRiskReviewed` | a denied `FlagForReview` is audited and the high-risk invoice goes on to payment |
| `audit_log_fork` | `NoFalseAlarm` | two overlapping appends read the same newest entry and embed the same `prev_hash`; the chain forks, never verifies again, and a tamper finding is written though nobody altered anything |

`FinishedNotHalted` is about runs whose handler has returned. The trace is: a human
rejects, `human_review_node` unpauses the thread, the router's assignment is lost,
the handler returns without pausing, and after two ticks the watchdog halts
the finished run. A run that is paused in the end may still be halted from a row
the watchdog read before the pause (section 6), and the property allows that.

The three are violated for the reason the runs show. Section 5 proves
`FinishedNotHalted` as long as no human rejects, the backend does not die and the
calls that pause arrive (`FinishedHaltNeedsARejection`), `HighRiskReviewed` as long
as nothing denies the flag (`HighRiskNeedsADenial`), and `NoFalseAlarm` as long as
no two appends overlap (`NoAlarmWithoutOverlap`).

## 5. Proofs

`LedgerProofs` proves, for any accounts, keys, requests and workers that satisfy
`LedgerAssumption` and `WorkerAssumption`:

| Theorem | States |
| --- | --- |
| `TypeCorrect` | `Spec => []TypeOK`, which includes `LocksHeld` |
| `SessionsConsistent` | `Spec => []SessionInv` |
| `NeverOverdrawn` | `Spec => []NoOverdraft` |
| `NeverPaidTwice` | `Spec => []AtMostOncePerKey` |
| `AnswersAreTruthful` | `Spec => []AnswersTruthful` |
| `LedgerImplementsBook` | `Spec => ImplementsBook`, if every request is `OneWay` |
| `BooksAlwaysAgree` | `Spec => []BooksAgree`, if every request is `OneWay` |

The assumptions: known and unknown account names are disjoint, the tables have
the types of their columns, the seed overdraws nobody, requests are well typed,
and the marker of a free row is no worker.

The argument. `NoOverdraft` and `AtMostOncePerKey` are not inductive: that a
commit is safe depends on what the session read earlier. `SessionInv` says why
it still holds at the commit: every balance in `results` is the committed
balance of a row the session has locked, plus its own entry, and acceptable
(`ResultsCurrent`); a session past its flush is alone with its key, and the key
is not posted (`ReadyToCommit`). `IInv == TypeOK /\ SessionInv /\ NoOverdraft /\
AtMostOncePerKey` is inductive; there is one lemma per kind of step
(`FailKeeps`, `CheckKeeps`, `LockKeeps`, `InsertKeeps`, `CommitKeeps`,
`RestartKeeps`). Locks of different sessions exclude each other, so a commit
leaves the rows of others alone and their results current. For the refinement,
`WrittenIsAbstract` shows that what a commit writes is what `AtomicLedger` posts,
and every other step leaves the book alone.

`OneWay` says that no entry of a request debits an account that another entry of
it credits. It is needed: see section 6. It does not exclude an
account mentioned twice in one direction: the constraint on `entries` refuses that
before the commit, so what commits mentions no account twice (`CommittedDistinct`);
and the backend meets it (`PaymentIsOneWay` in
`PipelineProofs`).

Sums. `BooksAgree` compares a balance with a sum over the postings, and the sums are
folds over sets, about which nothing can be proved by the library's induction
theorems (they take an operator). `SumOfOneMore` - one more index adds its value - is
therefore proved from the definition of the fold, and where a fact about all finite
index sets is needed it is had by a minimal counterexample: of the subsets that
violate it take one of least cardinality, and remove an element. With
`SumOfOneMore`, a commit adds to the entries of each account what it adds to its
balance, and `BooksAgree` is inductive beside `IInv`.

`PolicyProofs` proves, for any finite set of handlers, any requests, limit,
window and stops that satisfy `PolicyAssumption`:

| Theorem | States |
| --- | --- |
| `PolicyTypeCorrect` | `Spec => []TypeOK` |
| `OvershootIsBounded` | `Spec => []OvershootBounded` |
| `AgentApprovalsAreRoutine` | `Spec => []AgentsApproveRoutine` |
| `StopsOverride` | `Spec => []StopOverrides`, if the control plane answers |

The bound on recorded approvals is not inductive: what was counted is recorded
later. `Budget` adds the handlers that hold an approval they have counted and
not recorded: recorded and held together stay below limit plus handlers. A count
below the limit leaves room for every handler, a record moves one approval from
held to recorded, and every other step only takes away. `CedarFirst` says that
whatever is on its way to "Allow" was allowed by Cedar, from which
`RoundingHides` gives the half dollar. `Coverage` says that the stop of a covered
request is still in force, so the read of the switch must find it. TLC checked
the three on the instance of `policy_decisions` before they were proved.

`VendorProofs` proves, for any payers, payments, awards and spellings that satisfy
`VendorAssumption`:

| Theorem | States |
| --- | --- |
| `VendorTypeCorrect` | `Spec => []TypeOK`, which includes the two unique indexes |
| `HistoryWasPaid` | `Spec => []RecordedWasPaid` |
| `CountsAreBounded` | `Spec => []NeverOvercounted` |

`NeverOvercounted` bounds a count by the rows a vendor has and its seeds; a
session writes a count it read earlier. `Records` carries the bound for what is
in a session's hands: the payment it records was posted, the vendor it updates has
the name it asked for, and the count it read is not above what that vendor has
now. `FreshRows` says that ids and names of vendors about to be committed are
nobody else's, `Loading` that the loader is at one of the awards. Live rows must be
shown finite before their number means anything.

`AuditProofs` proves, for any writers, alterations and faults:

| Theorem | States |
| --- | --- |
| `AuditTypeCorrect` | `Spec => []TypeOK` |
| `SequentialChainVerifies` | `Spec => []SequentialVerifies` |
| `LogImplementsTrail` | `Spec => ImplementsTrail` |
| `KnownBreaksAreRecorded` | `Spec => []KnownIsOnRecord` |
| `NoAlarmWithoutOverlap` | `Spec => [](~overlapped => NoFalseAlarm)` |

The inductive invariant is `TypeOK /\ Distinct /\ Grounded /\ Sequential`:
digests and ids are distinct, those in flight included; every row and every
session that got past its put has its object, and chains to the genesis digest
or to a row that exists; and as long as no two appends overlapped, the one in
flight was sealed on the newest row.

`KnownIsOnRecord` speaks of the newest finding about a break, while findings are
written one by one, by a thread whose tick may be lost half-way. `FindingsInv` adds
that only the watchdog reports and only within its tick (`OneReporter`), that what it
has still to write agrees with what it knows now, so that a later report cannot
contradict it (`PendingAgrees`), that the finding it is about to commit has an id
above those of all findings in the chain, although requests take ids meanwhile
(`FindingsInOrder`), and that a known break whose report no fault took is on record
or still to be written (`KnownRecorded`). Each step is a lemma on what it does to
the findings; `QuietFindings` serves the steps that write none.

`AlarmInv` says that before any alteration and any overlap the watchdog is calm: it
knows no break, has nothing to report, and the rows it holds verify against the
objects there are now, because objects are only added. A tick that reads the chain
finds it verifying by `SequentialHolds`.

`SandboxProofs` proves, for any uploads and any number of faults:

| Theorem | States |
| --- | --- |
| `SandboxTypeCorrect` | `Spec => []TypeOK` |
| `UploadsFedTheirOwn` | `Spec => []FedWhatWasRead` |
| `NoSandboxAbandoned` | `Spec => []NotAbandoned` |
| `ScratchIsRemoved` | `Spec => ScratchRemoved`, an action property |

The upload and its handler in the runner part when the backend gives up. `Begun`
says what Docker has of a request by how far its handler got, `Ended` that an
answer in the handler's hands goes back to how its container ended.

`ControlPlaneProofs` proves `ControlPlaneTypeCorrect` (`Spec => []TypeOK`) and
`OnlySilentThreadsHalted` (`Spec => []HaltsOnlySilentThreads`), for any agents, threads,
thresholds and faults. The watchdog halts from rows that may be stale, so what
it has in hand must be remembered to have been silent when it was read
(`SilentInv`); `TypeOK` also says that the watermark never passes the last id of the
log, restarts included, and that what the canary check has at hand is above it. `Tables`, `LogTypes` and `FoundTypes` type the switch, the
decision log and those rows.

`PipelineProofs` proves, for any handlers, invoices, totals, crashes and
restarts that satisfy `PipelineAssumption`:

| Theorem | States |
| --- | --- |
| `PipelineTypeCorrect` | `Spec => []TypeOK` |
| `InvoicesPaidOnce` | `Spec => []PaidOnce` |
| `SettledWasPaid` | `Spec => []SettledIsPaid` |
| `LargePaymentsWereReviewed` | `Spec => []LargePaymentsReviewed` |
| `StopsHonouredInHold` | `Spec => []HoldHonoursStop`, if status reads are answered and the control plane does not restart |
| `PaymentsImplementBook` | `Spec => PaysIntoBook` |
| `WorkIsWatched` | `Spec /\ []OneHandlerPerThread => []WatchedWhileWorking`, if nothing is submitted twice and calls that pause and unpause arrive |
| `FinishedHaltNeedsARejection` | `Spec /\ []NoRejection => FinishedNotHalted`, if the backend does not die and calls that pause arrive |
| `HighRiskNeedsADenial` | `Spec /\ []~MayDeny("risk_scoring") => []HighRiskReviewed` |

Next has some thirty actions; `StepKinds` reduces them to a few kinds of effect
on a handler, its checkpoint and the book, and each part of the invariant is
shown to survive each kind. `KeyInv` ties a posting's key to its thread.
`SettledInv` says that every checkpoint or handler that says "settled", or whose
commit was answered, shows a posted total, and `LargeInv` that a total above
the limit cannot be at its payment, in a checkpoint or in a handler,
without its review, although handlers overwrite each other's checkpoints.
`HoldInv` says that a handler in `trippedInHold` is still in its hold and finds the
stop in force: a reset takes it out of that set, so the property is about
stops that last to the end of the hold.

For `PaysIntoBook`, `CommitPostsToBook` shows that the entries of a payment
balance (`PaymentBalanced`), take the total from cash and nothing else that the
book protects (`PaymentMoves`), and are covered by the cash at the instant of the
commit, however old the dry run; every other step leaves the book alone.

`PauseInv` is why work is watched: a paused thread is one that waits for a human or
is through, a handler is at the node its checkpoint names, and a human's decision is
acted on only once the pause is over. The hypotheses are what the code leaves to its
callers: a second handler moves the checkpoint under the first, a resubmitted
invoice keeps the pause row of its finished run, and a lost `unpause` is not
repeated (section 6). `pipeline_watched` runs under them, with crashes,
failing nodes, heartbeats that are lost and every kind of stop.

`EndInv` is why only a rejection is halted: a run that is at its end carries a terminal
task_state, and its thread is paused or a handler is still on its way to pause it - one
that has returned from the graph, or one that is past the human, with "approve" in
hand, and will move the checkpoint on. Resubmissions, second handlers, stops, errors
and control-plane restarts keep it. A crash or a lost pause does not, which the
premises exclude.

`HighInv` says what may be at a node: a high-risk invoice is not at the approval,
and at the payment only if it was reviewed, in checkpoints and in handlers alike.
Its hypothesis is about states: nothing stops the risk agent and policy-service
answers its flag.

TLC checked the inductive invariants of this section on small instances before they
were proved.

Only model-checked: the liveness properties (`EveryRequestAnswered`,
`SilentThreadHalted`, `StalledRunHalted`, `WatchdogCatchesUp`, `SandboxStops`,
`DenialsPauseAgent`, `CanaryStopsEverything`), since they need fairness, which is out
of the prover's reach. Every safety property of a passing run has its theorem.

## 6. Behaviours worth knowing that no run singles out

Ledger and vendor history:

* A transaction that mentions one account twice in opposite directions writes
  the balance of its last entry only (`ledger.py:108`): the cached balance then
  disagrees with the entries. The backend never sends one. In the same direction
  the constraint on `entries` refuses it and the client reads "duplicate".
* Of two concurrent POSTs of one key the slower is refused at `db.flush()`
  (`ledger.py:104`), outside the `try`, and answered 500 instead of 409. No money
  moves twice.
* A vendor that has rows under two spellings is found by neither: the look-up
  matches both and `scalar_one_or_none` raises, so it counts as first-seen from
  then on, which `main.py:146-149` of the ledger means to prevent.
* Two concurrent records of one vendor, or a record and the loader, lose an
  update of `award_count`: it may be too small, never too large.
* The loader adds to the sums of a vendor each time it runs, also for awards it
  has loaded: a second run counts them twice, though `INSTRUCTIONS.md:504-506`
  calls it safely re-runnable: no rows are duplicated, but sums are.
  `NeverOvercounted` counts the seeds.
* A crash between the commit and the record of a payment loses the record for
  ever: the retry gets a 409 and records nothing.

Control plane and policy service:

* A control-plane restart during a settlement hold forgets the trip: the switch
  is in memory (control-plane `main.py:86`).
* A decision about the canary vendor that no loop has seen before a restart is
  never looked at: the watermark is seeded with the highest id. That is the
  second disjunct of `CanaryStopsEverything`.
* The watchdog acts on rows it read earlier; a heartbeat that arrives in between
  does not save the thread. `HaltsOnlySilentThreads` therefore says "was once
  silent".
* A denial by the kill switch is recorded like any other, so the denials that a
  pause causes are among those for which the watchdog pauses the agent again
  after an operator's reset.
* Two handlers count before either records, so a vendor may be approved more often
  than the limit within a window; `OvershootBounded` says by how much.
* Cedar's `round()` sends 5000.50 to 5000, an even number, so an agent may
  approve half a dollar more than policy 01 says: `AgentsApproveRoutine` and
  `LargePaymentsReviewed` allow for it, and no less would hold.
* Policy 02 wants two approvals for a first-seen vendor. Nothing sets
  `prior_approval_count`, so an agent's approval is always denied, and the human
  approval that follows does not go through Cedar: one is enough.

Pipeline:

* A backend crash after the ledger committed makes the re-run find a duplicate
  and report a paid invoice as "blocked". `SettledIsPaid` is stated in the one
  direction the code promises.
* Between the unpause of an approved run and its next heartbeat the watchdog
  sees the time the human took, and may halt it.
* An invoice that is submitted again keeps the pause row of its finished run,
  and its agents work unwatched.
* The call that unpauses a thread is made once and a missing answer is ignored
  (`control_plane_client.py`): the agents of a run resumed so work unwatched.
* A reject sent to a run that is pending at its payment, after a crash, resumes
  that node and executes the payment. A human's decision carries no version of
  the invoice it is about.
* A crash between the checkpoint before `human_review` and `pause_thread` leaves
  a run that waits for a human without its pause row; the watchdog halts it
  (`StalledRunHalted`).

Audit log and sandbox:

* A finding whose append fails is lost with those after it: `known` already
  holds the break, and no later loop reports it (audit-log `main.py:211`).
  `KnownIsOnRecord` excepts exactly these.
* After a restart the watchdog reports a persisting break a second time, and one
  that was mended meanwhile is never reported as resolved.
* OCR that failed is answered 200 with an empty text, and the backend runs the
  pipeline on it without looking at "success".
* Docker refuses to remove the volume of a container that `--rm` has not removed
  yet; the runner swallows the refusal and the volume stays. `ScratchRemoved` names
  that case.
* A detached start that fails after the container started leaves it running with
  nobody to stop it (`faulted` in `NotAbandoned` and `SandboxStops`).
* `start_run_from_image` is a coroutine with a blocking call: while an upload
  waits for OCR the backend serves nothing else.

Four of the hazards in `PROJECT.json` name no property because the code lets them
happen, as told above: the pause row that survives a resubmission, the lost
finding, the volume left behind and the container nobody stops. The properties
next to them say what holds of every other path.

## 7. Not modelled

* Model clients, guardrail, redaction, tracing and workload identity: they keep
  no state that lasts, and their answers are choices of the pipeline. The credential
  broker's token cache only decides whether a call succeeds.
* `custodian-console`: it forwards requests. What a human saw when deciding is
  its state, and no property is about it.
* The evaluation gate and the other scripts: sequential, offline, nothing runs
  beside them. The table of invoices that the loader fills is read by the
  gate only.
* Deletion of audit rows by hand, a changed `entry_hash`, and two entries that
  are alike down to the timestamp; list and verify, which are reads.
* `total_awarded`, policy reload (the policy files do not change in the model),
  and OCR itself: its container writes a text and ends, well or badly.
* Deployment configuration.

## 8. Plan

Everything in the plan of the modules is written: ledger, vendor history, control
plane, policy service, pipeline, audit log, sandbox, with two abstract
specifications and three refinements. What would come next:

1. The console's copy of an invoice beside `InvoicePipeline`, to say which total
   a human has approved.
2. The safety half of the liveness properties: that a loop of the watchdog which
   ends without a fault has halted what its query returned.
