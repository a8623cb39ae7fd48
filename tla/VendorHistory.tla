---------------------------- MODULE VendorHistory ----------------------------
(***************************************************************************)
(* The vendor history in the ledger's database: payment_execution records  *)
(* each payment it settled (POST /vendors/record-payment), the data loader *)
(* seeds vendors and awards next to it, and risk-scoring asks whether a    *)
(* vendor is known (GET /vendors/lookup).                                  *)
(*                                                                         *)
(* total_awarded moves with award_count and is left out.  A transaction    *)
(* reads what is committed when its statement runs; its UPDATE and the     *)
(* INSERT of the payment are flushed by the commit and take effect with it.*)
(***************************************************************************)
EXTENDS Naturals, Sequences, FiniteSets

CONSTANTS
    Payers,         \* backend threads that execute payments
    Payments,       \* what they are asked to pay: [key, name, amount]
    Awards,         \* what the loader downloads: [award, name, amount]
    Spelling,       \* name -> what lower() and trim() make of it
    MaxLoads        \* bound: runs of the loader

Keys == {r.key : r \in Payments}

ASSUME VendorAssumption ==
    /\ Payments \subseteq [key : Keys, name : DOMAIN Spelling, amount : Nat]
    /\ \A i \in DOMAIN Awards : /\ Awards[i].name \in DOMAIN Spelling
                                /\ Awards[i].award \notin Keys
                                /\ Awards[i].amount \in Nat
    /\ Awards \in Seq([award : {Awards[i].award : i \in DOMAIN Awards},
                       name : DOMAIN Spelling, amount : Nat])
    /\ MaxLoads \in Nat

VARIABLES
    posted,         \* payments committed in the ledger
    vendors,        \* rows of vendors; seeded counts the loader's upserts
    payments,       \* rows of historical_payments
    nextId,         \* the sequence behind vendors.id
    session,        \* the record each payer is making
    loader,         \* where the loader is
    loads           \* how often it was started

vars == <<posted, vendors, payments, nextId, session, loader, loads>>

NoPayment == [key |-> "none"]

Idle == [pc |-> "idle", req |-> NoPayment, vendor |-> 0, count |-> 0]

NotLoading == [pc |-> "idle", next |-> 1, vendor |-> 0]

(* func.lower(func.trim(recipient_name)) = normalized                      *)
Matching(name) == {v \in vendors : Spelling[v.name] = Spelling[name]}

(* recipient_name is unique as it is spelled; an insert waits for those    *)
(* that are not committed yet.                                             *)
NameTaken(name) == \E v \in vendors : v.name = name

NamePending(name) ==
    \E p \in Payers : session[p].pc = "created" /\ session[p].req.name = name

Recorded(award) == \E i \in payments : i.award = award

-----------------------------------------------------------------------------

Init ==
    /\ posted = {}
    /\ vendors = {}
    /\ payments = {}
    /\ nextId = 1
    /\ session = [p \in Payers |-> Idle]
    /\ loader = NotLoading
    /\ loads = 0

(* Mutant of Pay: a 409 is followed by a record as well.                   *)
PayOrRepeat(p, r) ==
    /\ session[p].pc = "idle"
    /\ posted' = IF \E q \in posted : q.key = r.key THEN posted ELSE posted \union {r}
    /\ session' = [session EXCEPT ![p] = [Idle EXCEPT !.pc = "paid", !.req = r]]
    /\ UNCHANGED <<vendors, payments, nextId, loader, loads>>

(* commit_payment succeeded; on a 409 nothing would be recorded.           *)
Pay(p, r) ==
    /\ session[p].pc = "idle"
    /\ \A q \in posted : q.key # r.key
    /\ posted' = posted \union {r}
    /\ session' = [session EXCEPT ![p] = [Idle EXCEPT !.pc = "paid", !.req = r]]
    /\ UNCHANGED <<vendors, payments, nextId, loader, loads>>

(* record_vendor_payment selects the vendor; it has several rows if it was *)
(* spelled in several ways, and then the request fails.                    *)
FindVendor(p) ==
    /\ session[p].pc = "paid"
    /\ \/ /\ Matching(session[p].req.name) = {}
          /\ session' = [session EXCEPT ![p].pc = "create"]
       \/ \E v \in vendors :
             /\ Matching(session[p].req.name) = {v}
             /\ session' = [session EXCEPT ![p].pc = "update", ![p].vendor = v.id,
                                           ![p].count = v.count]
    /\ UNCHANGED <<posted, vendors, payments, nextId, loader, loads>>

(* Mutant of InsertVendor: recipient_name has no unique index.             *)
InsertUnchecked(p) ==
    /\ session[p].pc = "create"
    /\ nextId' = nextId + 1
    /\ session' = [session EXCEPT ![p].pc = "created", ![p].vendor = nextId]
    /\ UNCHANGED <<posted, vendors, payments, loader, loads>>

(* db.flush(): the new row has its id and is seen by nobody else.          *)
InsertVendor(p) ==
    /\ session[p].pc = "create"
    /\ ~NameTaken(session[p].req.name) /\ ~NamePending(session[p].req.name)
    /\ nextId' = nextId + 1
    /\ session' = [session EXCEPT ![p].pc = "created", ![p].vendor = nextId]
    /\ UNCHANGED <<posted, vendors, payments, loader, loads>>

Counted(v, n) == (vendors \ {v}) \union {[v EXCEPT !.count = n]}

NewVendor(id, name, seeded) ==
    [id |-> id, name |-> name, count |-> 1, seeded |-> seeded]

PaymentRow(p) ==
    [award |-> session[p].req.key, vendor |-> session[p].vendor,
     amount |-> session[p].req.amount]

(* Mutant of CommitRecord: the vendor is committed before its payment.     *)
CommitVendorFirst(p) ==
    /\ ~Recorded(session[p].req.key)
    /\ \/ /\ session[p].pc = "created"
          /\ vendors' = vendors \union {NewVendor(session[p].vendor, session[p].req.name, 0)}
          /\ payments' = payments
          /\ session' = [session EXCEPT ![p].pc = "paid"]
       \/ /\ session[p].pc = "update"
          /\ payments' = payments \union {PaymentRow(p)}
          /\ vendors' = vendors
          /\ session' = [session EXCEPT ![p] = Idle]
    /\ UNCHANGED <<posted, nextId, loader, loads>>

(* Both tables change together; the count written is the one that was read *)
(* plus one, whatever was committed in between.                            *)
CommitRecord(p) ==
    /\ ~Recorded(session[p].req.key)
    /\ \/ /\ session[p].pc = "created"
          /\ vendors' = vendors \union {NewVendor(session[p].vendor, session[p].req.name, 0)}
       \/ /\ session[p].pc = "update"
          /\ \E v \in vendors : /\ v.id = session[p].vendor
                                /\ vendors' = Counted(v, session[p].count + 1)
    /\ payments' = payments \union {PaymentRow(p)}
    /\ session' = [session EXCEPT ![p] = Idle]
    /\ UNCHANGED <<posted, nextId, loader, loads>>

(* The backend dies, or the request raises, times out or violates a unique *)
(* index: it is rolled back, and the payer goes on without it.             *)
LoseRecord(p) ==
    /\ session[p].pc # "idle"
    /\ session' = [session EXCEPT ![p] = Idle]
    /\ UNCHANGED <<posted, vendors, payments, nextId, loader, loads>>

-----------------------------------------------------------------------------
(* load_vendors.run                                                        *)

StartLoad ==
    /\ loads < MaxLoads
    /\ loader.pc = "idle"
    /\ loads' = loads + 1
    /\ loader' = [NotLoading EXCEPT !.pc = "vendor"]
    /\ UNCHANGED <<posted, vendors, payments, nextId, session>>

(* INSERT ... ON CONFLICT (recipient_name) DO UPDATE, committed at once.   *)
UpsertVendor ==
    /\ loader.pc = "vendor"
    /\ loader.next \in DOMAIN Awards
    /\ LET name == Awards[loader.next].name
       IN  /\ ~NamePending(name)
           /\ \/ /\ ~NameTaken(name)
                 /\ vendors' = vendors \union {NewVendor(nextId, name, 1)}
                 /\ loader' = [loader EXCEPT !.pc = "payment", !.vendor = nextId]
              \/ \E v \in vendors :
                 /\ v.name = name
                 /\ vendors' = (vendors \ {v}) \union
                                  {[v EXCEPT !.count = @ + 1, !.seeded = @ + 1]}
                 /\ loader' = [loader EXCEPT !.pc = "payment", !.vendor = v.id]
    /\ nextId' = nextId + 1
    /\ UNCHANGED <<posted, payments, session, loads>>

(* INSERT ... ON CONFLICT (award_id) DO UPDATE keeps the vendor of the row.*)
UpsertPayment ==
    /\ loader.pc = "payment"
    /\ LET a == Awards[loader.next]
       IN  payments' =
              {[i EXCEPT !.amount = IF i.award = a.award THEN a.amount ELSE @] : i \in payments}
              \union IF Recorded(a.award) THEN {}
                     ELSE {[award |-> a.award, vendor |-> loader.vendor, amount |-> a.amount]}
    /\ loader' = [loader EXCEPT !.pc = "vendor", !.next = @ + 1]
    /\ UNCHANGED <<posted, vendors, nextId, session, loads>>

(* The loader is done, or dies where it is; a new run starts all over.     *)
EndLoad ==
    /\ loader.pc # "idle"
    /\ loader' = NotLoading
    /\ UNCHANGED <<posted, vendors, payments, nextId, session, loads>>

-----------------------------------------------------------------------------

Record(p) == FindVendor(p) \/ InsertVendor(p) \/ CommitRecord(p) \/ LoseRecord(p)

Load == StartLoad \/ UpsertVendor \/ UpsertPayment \/ EndLoad

Next ==
    \/ \E p \in Payers, r \in Payments : Pay(p, r)
    \/ \E p \in Payers : Record(p)
    \/ Load

Spec == Init /\ [][Next]_vars

-----------------------------------------------------------------------------

(* The primary key of vendors, and the unique recipient_name and award_id. *)
UniqueIndexes ==
    /\ \A v, w \in vendors : v.id = w.id \/ v.name = w.name => v = w
    /\ \A i, j \in payments : i.award = j.award => i = j

AwardKeys == {Awards[i].award : i \in DOMAIN Awards}

TypeOK ==
    /\ posted \in SUBSET Payments
    /\ vendors \in SUBSET [id : Nat, name : DOMAIN Spelling, count : Nat, seeded : Nat]
    /\ payments \in SUBSET [award : Keys \union AwardKeys, vendor : Nat, amount : Nat]
    /\ nextId \in Nat
    /\ session \in [Payers -> [pc : {"idle", "paid", "create", "created", "update"},
                               req : Payments \union {NoPayment},
                               vendor : Nat, count : Nat]]
    /\ loader \in [pc : {"idle", "vendor", "payment"}, next : Nat, vendor : Nat]
    /\ loads \in Nat
    /\ UniqueIndexes

LiveRows(id) == {i \in payments : i.vendor = id /\ i.award \in Keys}

(* What the history says was paid was paid: every live row is a payment    *)
(* that the ledger committed, with that amount and to that vendor, even if *)
(* the invoice was submitted again with another amount or vendor.          *)
RecordedWasPaid ==
    \A i \in payments : i.award \in Keys =>
        \E r \in posted, v \in vendors :
            /\ r.key = i.award /\ r.amount = i.amount
            /\ v.id = i.vendor /\ Spelling[v.name] = Spelling[r.name]

(* A vendor counts no payment twice: records that race lose counts and     *)
(* never add any.                                                          *)
NeverOvercounted ==
    \A v \in vendors : v.count <= v.seeded + Cardinality(LiveRows(v.id))
=============================================================================
