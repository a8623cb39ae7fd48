------------------------------ MODULE AuditLog ------------------------------
(***************************************************************************)
(* custodian-audit-log: concurrent appends to a hash chain that is kept    *)
(* in a WORM bucket and mirrored in Postgres, and the watchdog thread that *)
(* verifies the chain on a schedule and writes what it finds into it.      *)
(*                                                                         *)
(* SHA-256 is modelled as giving every sealed entry a digest of its own: a *)
(* row recomputes to its digest as long as nobody alters it.               *)
(***************************************************************************)
EXTENDS Naturals, FiniteSets

CONSTANTS
    Appenders,      \* threads serving POST /append
    Watchdog,       \* the verify watchdog thread, which appends as well
    \* Bounds of an instance.
    MaxCalls,       \* requests to append
    MaxDamage,      \* rows altered and objects shadowed
    MaxFaults       \* stores that fail and restarts of the service

ASSUME AuditAssumption ==
    /\ Watchdog \notin Appenders
    /\ {MaxCalls, MaxDamage, MaxFaults} \subseteq Nat

VARIABLES
    chain,          \* the committed rows of audit_log_chain
    nextId,         \* the sequence behind its BIGSERIAL id
    stored,         \* digests whose object was put in the bucket
    shadowed,       \* those whose current version is not the original any more
    digests,        \* how many entries were sealed so far
    session,        \* the append each thread is serving
    watch,          \* the watchdog: its place in a tick and the rows it fetched
    known,          \* _known_broken_ids
    todo,           \* findings of this tick still to be written
    overlapped,     \* history: an append began while another was under way
    lost,           \* history: known ids whose report failed
    calls, damages, faults

stores == <<chain, nextId, stored, shadowed>>
watchVars == <<watch, known, todo, lost>>
bounds == <<calls, damages, faults>>
vars == <<stores, digests, session, watchVars, overlapped, bounds>>

Writers == Appenders \union {Watchdog}

Genesis == 0    \* "0" * 64

Request == [kind |-> "request", id |-> 0]

Finding(kind, i) == [kind |-> kind, id |-> i]

Events == [kind : {"request", "detected", "resolved"}, id : Nat]

(* intact: the columns the digest covers are as they were inserted.        *)
Row == [id : Nat, event : Events, prev : Nat, hash : Nat, intact : BOOLEAN]

Idle == [pc |-> "idle", event |-> Request, prev |-> Genesis, hash |-> 0, id |-> 0]

-----------------------------------------------------------------------------

Newest(rows) == CHOOSE r \in rows : \A q \in rows : q.id <= r.id

(* ORDER BY id DESC LIMIT 1                                                *)
Tip(rows) == IF rows = {} THEN Genesis ELSE Newest(rows).hash

Before(rows, r) == {q \in rows : q.id < r.id}

(* _compute_breaks: the ids of rows whose digest, link or object is wrong. *)
Breaks(rows) ==
    {r.id : r \in {q \in rows : \/ ~q.intact
                                \/ q.prev # Tip(Before(rows, q))
                                \/ q.hash \notin stored
                                \/ q.hash \in shadowed}}

Active == {p \in Writers : session[p].pc # "idle"}

-----------------------------------------------------------------------------

Init ==
    /\ chain = {}
    /\ nextId = 1
    /\ stored = {}
    /\ shadowed = {}
    /\ digests = 0
    /\ session = [p \in Writers |-> Idle]
    /\ watch = [pc |-> "sleep", rows |-> {}]
    /\ known = {}
    /\ todo = {}
    /\ overlapped = FALSE
    /\ lost = {}
    /\ calls = 0 /\ damages = 0 /\ faults = 0

-----------------------------------------------------------------------------
(* _append_internal                                                        *)

(* Mutant of Seal: the digest of the entry sealed last is kept in memory.  *)
SealCached(p, event) ==
    /\ session[p].pc = "idle"
    /\ digests' = digests + 1
    /\ session' = [session EXCEPT ![p] =
          [pc |-> "sealed", event |-> event, prev |-> digests,
           hash |-> digests + 1, id |-> 0]]
    /\ overlapped' = (overlapped \/ Active # {})

(* The newest committed row is read and the entry that embeds its digest   *)
(* is sealed.                                                              *)
Seal(p, event) ==
    /\ session[p].pc = "idle"
    /\ digests' = digests + 1
    /\ session' = [session EXCEPT ![p] =
          [pc |-> "sealed", event |-> event, prev |-> Tip(chain),
           hash |-> digests + 1, id |-> 0]]
    /\ overlapped' = (overlapped \/ Active # {})

(* Mutant of PutObject: the bucket is written after the row, if at all.    *)
SkipObject(p) ==
    /\ session[p].pc = "sealed"
    /\ session' = [session EXCEPT ![p].pc = "stored"]
    /\ UNCHANGED <<stores, digests, watchVars, overlapped, bounds>>

PutObject(p) ==
    /\ session[p].pc = "sealed"
    /\ stored' = stored \union {session[p].hash}
    /\ session' = [session EXCEPT ![p].pc = "stored"]
    /\ UNCHANGED <<chain, nextId, shadowed, digests, watchVars, overlapped, bounds>>

(* INSERT takes an id; nobody else sees the row before its commit.         *)
InsertRow(p) ==
    /\ session[p].pc = "stored"
    /\ nextId' = nextId + 1
    /\ session' = [session EXCEPT ![p].pc = "inserted", ![p].id = nextId]
    /\ UNCHANGED <<chain, stored, shadowed, digests, watchVars, overlapped, bounds>>

RowOf(s) == [id |-> s.id, event |-> s.event, prev |-> s.prev,
             hash |-> s.hash, intact |-> TRUE]

Commit(p) ==
    /\ session[p].pc = "inserted"
    /\ chain' = chain \union {RowOf(session[p])}
    /\ session' = [session EXCEPT ![p] = Idle]
    /\ UNCHANGED <<nextId, stored, shadowed, digests, watchVars, overlapped, bounds>>

(* POST /append                                                            *)
Call(p) ==
    /\ calls < MaxCalls
    /\ calls' = calls + 1
    /\ Seal(p, Request)
    /\ UNCHANGED <<stores, watchVars, damages, faults>>

Fault == faults < MaxFaults /\ faults' = faults + 1

(* Postgres or the bucket raises: the transaction is rolled back, and the  *)
(* client is answered 500.                                                 *)
FailCall(p) ==
    /\ Fault
    /\ session[p].pc # "idle"
    /\ session' = [session EXCEPT ![p] = Idle]
    /\ UNCHANGED <<stores, digests, watchVars, overlapped, calls, damages>>

-----------------------------------------------------------------------------
(* _watchdog_tick                                                          *)

FetchRows ==
    /\ watch.pc = "sleep"
    /\ watch' = [pc |-> "check", rows |-> chain]
    /\ UNCHANGED <<stores, digests, session, known, todo, lost, overlapped, bounds>>

(* Mutant of Compare: a break is dropped from the known set only when the  *)
(* service restarts.                                                       *)
CompareOnce(broken) ==
    /\ known' = known \union broken
    /\ todo' = {Finding("detected", i) : i \in broken \ known}
    /\ lost' = lost \intersect broken

(* Mutant of Compare: the known set is updated before it is compared.      *)
CompareLate(broken) ==
    /\ known' = broken
    /\ todo' = {Finding("detected", i) : i \in broken \ known'}
          \union {Finding("resolved", i) : i \in known' \ broken}
    /\ lost' = lost \intersect broken

(* What broke or recovered since the last tick is to be written; the known *)
(* set is updated at once.                                                 *)
Compare(broken) ==
    /\ known' = broken
    /\ todo' = {Finding("detected", i) : i \in broken \ known}
          \union {Finding("resolved", i) : i \in known \ broken}
    /\ lost' = lost \intersect broken

(* The objects are read after the rows, of which more may have come.       *)
CheckRows ==
    /\ watch.pc = "check"
    /\ Compare(Breaks(watch.rows))
    /\ watch' = [pc |-> "report", rows |-> {}]
    /\ UNCHANGED <<stores, digests, session, overlapped, bounds>>

(* New breaks are written first, then the recovered ones.                  *)
Report(event) ==
    /\ watch.pc = "report"
    /\ event \in todo
    /\ event.kind = "resolved" => \A e \in todo : e.kind = "resolved"
    /\ Seal(Watchdog, event)
    /\ todo' = todo \ {event}
    /\ UNCHANGED <<stores, watch, known, lost, bounds>>

FinishTick ==
    /\ watch.pc = "report"
    /\ session[Watchdog].pc = "idle"
    /\ todo = {}
    /\ watch' = [pc |-> "sleep", rows |-> {}]
    /\ UNCHANGED <<stores, digests, session, known, todo, lost, overlapped, bounds>>

BeingWritten(i) ==
    \/ Finding("detected", i) \in todo
    \/ session[Watchdog].pc # "idle" /\ session[Watchdog].event = Finding("detected", i)

(* A store raises: the loop catches it, and the rest of the tick is gone.  *)
FailTick ==
    /\ Fault
    /\ watch.pc # "sleep"
    /\ watch' = [pc |-> "sleep", rows |-> {}]
    /\ session' = [session EXCEPT ![Watchdog] = Idle]
    /\ todo' = {}
    /\ lost' = lost \union {i \in known : BeingWritten(i)}
    /\ UNCHANGED <<stores, digests, known, overlapped, calls, damages>>

-----------------------------------------------------------------------------

(* The service dies: transactions roll back, the known set starts empty.   *)
Restart ==
    /\ Fault
    /\ session' = [p \in Writers |-> Idle]
    /\ watch' = [pc |-> "sleep", rows |-> {}]
    /\ known' = {}
    /\ todo' = {}
    /\ lost' = {}
    /\ UNCHANGED <<stores, digests, overlapped, calls, damages>>

Damage == damages < MaxDamage /\ damages' = damages + 1

(* Somebody with the credentials alters a row, or puts it back.            *)
AlterRow(r, intact) ==
    /\ IF intact THEN UNCHANGED damages ELSE Damage
    /\ chain' = (chain \ {r}) \union {[r EXCEPT !.intact = intact]}
    /\ UNCHANGED <<nextId, stored, shadowed, digests, session, watchVars,
                   overlapped, calls, faults>>

(* A new version or a delete marker shadows the locked object.             *)
ShadowObject(r) ==
    /\ Damage
    /\ shadowed' = shadowed \union {r.hash}
    /\ UNCHANGED <<chain, nextId, stored, digests, session, watchVars,
                   overlapped, calls, faults>>

UncoverObject(r) ==
    /\ r.hash \in shadowed
    /\ shadowed' = shadowed \ {r.hash}
    /\ UNCHANGED <<chain, nextId, stored, digests, session, watchVars,
                   overlapped, bounds>>

-----------------------------------------------------------------------------

Append(p) == PutObject(p) \/ InsertRow(p) \/ Commit(p)

Tick == FetchRows \/ CheckRows \/ (\E e \in todo : Report(e)) \/ FinishTick

Outside ==
    \E r \in chain :
        \/ AlterRow(r, ~r.intact)
        \/ ShadowObject(r)
        \/ UncoverObject(r)

Next ==
    \/ \E p \in Appenders : Call(p) \/ FailCall(p)
    \/ \E p \in Writers : Append(p)
    \/ Tick \/ FailTick
    \/ Restart
    \/ Outside

Spec == Init /\ [][Next]_vars

(* The watchdog thread loops for ever and the stores answer it, but for    *)
(* MaxFaults times; nobody has to append anything.                         *)
FairSpec == Spec /\ WF_vars(Tick) /\ WF_vars(Append(Watchdog))

-----------------------------------------------------------------------------

TypeOK ==
    /\ chain \in SUBSET Row
    /\ nextId \in Nat
    /\ stored \in SUBSET Nat
    /\ shadowed \in SUBSET stored
    /\ digests \in Nat
    /\ session \in [Writers -> [pc : {"idle", "sealed", "stored", "inserted"},
                                event : Events, prev : Nat, hash : Nat, id : Nat]]
    /\ watch \in [pc : {"sleep", "check", "report"}, rows : SUBSET Row]
    /\ known \in SUBSET Nat
    /\ todo \in SUBSET Events
    /\ overlapped \in BOOLEAN
    /\ lost \in SUBSET known
    /\ {calls, damages, faults} \subseteq Nat

Trail == INSTANCE AuditTrail WITH
    objects <- stored,
    entries <- {[prev |-> r.prev, hash |-> r.hash] : r \in chain}

(* The chain only grows, entry by entry, each chained to one committed     *)
(* before it and backed by an object that was put first ("MinIO first: if  *)
(* this fails, we haven't committed a Postgres row claiming a WORM copy    *)
(* exists when it doesn't").                                               *)
ImplementsTrail == Trail!Spec

Undamaged == shadowed = {} /\ \A r \in chain : r.intact

(* A chain that nobody altered verifies, as long as no two appends ever    *)
(* overlapped: then every row follows the one with the id before it.       *)
SequentialVerifies == Undamaged /\ ~overlapped => Breaks(chain) = {}

AboutBreak(i) == {r \in chain : r.event \in {Finding("detected", i), Finding("resolved", i)}}

(* What the watchdog takes as known is on record: the newest entry about   *)
(* such a row says that it broke, unless a fault lost the report or it is  *)
(* being written.                                                          *)
KnownIsOnRecord ==
    \A i \in known \ lost :
        \/ BeingWritten(i)
        \/ AboutBreak(i) # {} /\ Newest(AboutBreak(i)).event.kind = "detected"

(* When altering, failing and calling have stopped, the watchdog ends up   *)
(* knowing exactly the rows that do not verify, whatever it missed, lost   *)
(* or saw reverted on the way.                                             *)
WatchdogCatchesUp == <>[](known = Breaks(chain))

(* "writing that finding ... we detected tampering at this timestamp": a   *)
(* break is only ever recorded when something was altered.                 *)
NoFalseAlarm == damages = 0 => \A r \in chain : r.event.kind # "detected"
=============================================================================
