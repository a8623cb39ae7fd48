---------------------------- MODULE VendorProofs ----------------------------
(***************************************************************************)
(* Theorems about VendorHistory, for any payers, payments and awards: the  *)
(* history holds only what was paid, no vendor counts a payment twice, and *)
(* no vendor becomes known without a payment or an award.                  *)
(***************************************************************************)
EXTENDS VendorHistory, FiniteSetTheorems, TLAPS

-----------------------------------------------------------------------------
(* The inductive invariant.                                                *)

(* Ids are given out once, and a row that is created is not there yet.     *)
FreshRows ==
    /\ \A v \in vendors : v.id < nextId
    /\ \A p \in Payers : session[p].pc = "created" =>
          /\ session[p].vendor < nextId
          /\ \A v \in vendors : v.id # session[p].vendor /\ v.name # session[p].req.name
          /\ \A q \in Payers :
                /\ session[q].pc = "created"
                /\ session[p].vendor = session[q].vendor
                       \/ session[p].req.name = session[q].req.name
                => p = q

(* A record is about a payment that was posted; the vendor it updates is   *)
(* one of that name, and the count it read is not above what it has now.   *)
RecordOf(p) ==
    /\ session[p].pc # "idle" => session[p].req \in posted
    /\ session[p].pc = "update" =>
          \E v \in vendors :
              /\ v.id = session[p].vendor
              /\ Spelling[v.name] = Spelling[session[p].req.name]
              /\ session[p].count <= v.seeded + Cardinality(LiveRows(v.id))

Records == \A p \in Payers : RecordOf(p)

(* The live rows of all vendors.                                           *)
Live == {i \in payments : i.award \in Keys}

Loading == loader.pc = "payment" => loader.next \in DOMAIN Awards

IInv ==
    /\ TypeOK /\ IsFiniteSet(Live)
    /\ FreshRows /\ Records /\ Loading
    /\ RecordedWasPaid /\ NeverOvercounted

-----------------------------------------------------------------------------

LEMMA InitHolds == Init => IInv
<1> SUFFICES ASSUME Init PROVE IInv
  OBVIOUS
<1>1. TypeOK
  <2>1. Idle \in [pc : {"idle", "paid", "create", "created", "update"},
                  req : Payments \union {NoPayment}, vendor : Nat, count : Nat]
    BY DEF Idle
  <2>2. NotLoading \in [pc : {"idle", "vendor", "payment"}, next : Nat, vendor : Nat]
    BY DEF NotLoading
  <2> QED
    BY <2>1, <2>2 DEF Init, TypeOK, UniqueIndexes
<1>2. IsFiniteSet(Live)
  <2>1. Live = {}
    BY DEF Init, Live
  <2> QED
    BY <2>1, FS_EmptySet
<1>3. FreshRows /\ Records /\ Loading
  BY DEF Init, FreshRows, Records, RecordOf, Loading, Idle, NotLoading
<1> QED
  BY <1>1, <1>2, <1>3 DEF Init, IInv, RecordedWasPaid, NeverOvercounted

-----------------------------------------------------------------------------
(* What a vendor's live rows are after a step.                             *)

(* The sets of live rows are finite.                                       *)
LEMMA LiveRowsFinite ==
    ASSUME IsFiniteSet(Live), NEW id
    PROVE  IsFiniteSet(LiveRows(id)) /\ Cardinality(LiveRows(id)) \in Nat
<1>1. LiveRows(id) \subseteq Live
  BY DEF LiveRows, Live
<1> QED
  BY <1>1, FS_Subset, FS_CardinalityType

(* Writing an award leaves every live row alone.                           *)
LEMMA AwardsApart ==
    ASSUME TypeOK, Loading, UpsertPayment
    PROVE  /\ payments' \in SUBSET [award : Keys \union AwardKeys, vendor : Nat, amount : Nat]
           /\ \A i, j \in payments' : i.award = j.award => i = j
           /\ Live' = Live
<1> DEFINE a == Awards[loader.next]
           upd(i) == [i EXCEPT !.amount = IF i.award = a.award THEN a.amount ELSE @]
           new == [award |-> a.award, vendor |-> loader.vendor, amount |-> a.amount]
           U == {upd(i) : i \in payments}
           Rows == [award : Keys \union AwardKeys, vendor : Nat, amount : Nat]
<1>0. loader.pc = "payment"
  BY DEF UpsertPayment
<1>1. /\ loader.next \in DOMAIN Awards
      /\ payments' = U \union IF Recorded(a.award) THEN {} ELSE {new}
  BY <1>0 DEF UpsertPayment, Loading
<1>2. a.award \notin Keys /\ a.amount \in Nat /\ a.award \in AwardKeys
  <2>1. \A i \in DOMAIN Awards : Awards[i].award \notin Keys /\ Awards[i].amount \in Nat
    BY VendorAssumption
  <2> QED
    BY <1>1, <2>1 DEF AwardKeys
<1>3. ASSUME NEW i \in payments
      PROVE  /\ upd(i) \in Rows
             /\ upd(i).award = i.award
             /\ i.award \in Keys => upd(i) = i
  <2>1. i \in Rows
    BY DEF TypeOK
  <2> HIDE DEF a
  <2> QED
    BY <1>2, <2>1
<1>4. new \in Rows
  <2>1. loader.vendor \in Nat
    BY DEF TypeOK
  <2> HIDE DEF a
  <2> QED
    BY <1>2, <2>1
<1>5. new.award = a.award
  OBVIOUS
<1> HIDE DEF a, upd, new
<1>6. payments' \in SUBSET Rows
  BY <1>1, <1>3, <1>4
<1>7. \A i, j \in payments' : i.award = j.award => i = j
  <2>1. \A i, j \in U : i.award = j.award => i = j
    BY <1>3 DEF TypeOK, UniqueIndexes
  <2>2. ~Recorded(a.award) => \A i \in U : i.award # new.award
    BY <1>3, <1>5 DEF Recorded
  <2> QED
    BY <1>1, <2>1, <2>2
<1>8. \A i \in payments' : i.award \in Keys => i \in payments
  BY <1>1, <1>2, <1>3, <1>5
<1>9. \A i \in payments : i.award \in Keys => i \in payments'
  BY <1>1, <1>3
<1>10. Live' = Live
  BY <1>8, <1>9 DEF Live
<1> QED
  BY <1>6, <1>7, <1>10

(* A row that is recorded for the first time is one more for its vendor,   *)
(* and changes nothing for the others.                                     *)
LEMMA RowAdded ==
    ASSUME IsFiniteSet(Live), NEW p \in Payers,
           PaymentRow(p).award \in Keys,
           PaymentRow(p) \notin payments,
           payments' = payments \union {PaymentRow(p)},
           NEW id, id = session[p].vendor
    PROVE  /\ IsFiniteSet(Live')
           /\ Cardinality(LiveRows(id)') = Cardinality(LiveRows(id)) + 1
           /\ LiveRows(id)' # {}
           /\ \A other : other # id => LiveRows(other)' = LiveRows(other)
<1> DEFINE row == PaymentRow(p)
<1>1. row.vendor = id /\ row.award \in Keys /\ row \notin payments
  BY DEF PaymentRow
<1>2. payments' = payments \union {row}
  OBVIOUS
<1> HIDE DEF row
<1>3. IsFiniteSet(Live')
  <2>1. Live' = Live \union {row}
    BY <1>1, <1>2 DEF Live
  <2> QED
    BY <2>1, FS_AddElement
<1>4. LiveRows(id)' = LiveRows(id) \union {row}
  BY <1>1, <1>2 DEF LiveRows
<1>5. row \notin LiveRows(id)
  BY <1>1 DEF LiveRows
<1>6. \A other : other # id => LiveRows(other)' = LiveRows(other)
  BY <1>1, <1>2 DEF LiveRows
<1>7. IsFiniteSet(LiveRows(id))
  BY LiveRowsFinite
<1>8. Cardinality(LiveRows(id) \union {row}) = Cardinality(LiveRows(id)) + 1
  BY <1>5, <1>7, FS_AddElement
<1> QED
  BY <1>3, <1>4, <1>6, <1>8

(* A step that leaves the live rows alone leaves every vendor's alone.     *)
LEMMA RowsKept ==
    ASSUME Live' = Live, NEW id
    PROVE  LiveRows(id)' = LiveRows(id)
<1>1. LiveRows(id) = {i \in Live : i.vendor = id}
  BY DEF LiveRows, Live
<1>2. LiveRows(id)' = {i \in Live' : i.vendor = id}
  BY DEF LiveRows, Live
<1> QED
  BY <1>1, <1>2

-----------------------------------------------------------------------------
(* Types.                                                                  *)

LEMMA TypeHolds ==
    ASSUME IInv, [Next]_vars
    PROVE  TypeOK'
<1> USE DEF vars
<1> DEFINE Loader == [pc : {"idle", "vendor", "payment"}, next : Nat, vendor : Nat]
           Session == [pc : {"idle", "paid", "create", "created", "update"},
                       req : Payments \union {NoPayment}, vendor : Nat, count : Nat]
           Vendor == [id : Nat, name : DOMAIN Spelling, count : Nat, seeded : Nat]
<1> USE DEF TypeOK
<1>0. TypeOK /\ Idle \in Session /\ NotLoading \in Loader
  BY DEF IInv, Idle, NotLoading
<1>1. ASSUME NEW p \in Payers, NEW r \in Payments, Pay(p, r) PROVE TypeOK'
  BY <1>0, <1>1 DEF Pay, UniqueIndexes, Idle
<1>2. ASSUME NEW p \in Payers, FindVendor(p) PROVE TypeOK'
  <2>1. ASSUME NEW v \in vendors,
               session' = [session EXCEPT ![p].pc = "update", ![p].vendor = v.id,
                                          ![p].count = v.count]
        PROVE  session' \in [Payers -> Session]
    <3>1. v.id \in Nat /\ v.count \in Nat /\ session \in [Payers -> Session]
      BY <1>0
    <3> QED
      BY <3>1, <2>1
  <2>2. ASSUME session' = [session EXCEPT ![p].pc = "create"]
        PROVE  session' \in [Payers -> Session]
    BY <1>0, <2>2
  <2> QED
    BY <1>0, <1>2, <2>1, <2>2 DEF FindVendor, UniqueIndexes
<1>3. ASSUME NEW p \in Payers, InsertVendor(p) PROVE TypeOK'
  <2>1. session \in [Payers -> Session] /\ nextId \in Nat
    BY <1>0
  <2>2. nextId' = nextId + 1
    BY <1>3 DEF InsertVendor
  <2>3. session' = [session EXCEPT ![p].pc = "created", ![p].vendor = nextId]
    BY <1>3 DEF InsertVendor
  <2>4. session' \in [Payers -> Session]
    BY <2>1, <2>3
  <2> QED
    BY <1>0, <1>3, <2>1, <2>2, <2>4 DEF InsertVendor, UniqueIndexes
<1>4. ASSUME NEW p \in Payers, CommitRecord(p) PROVE TypeOK'
  <2>0. /\ session[p] \in Session
        /\ session[p].pc # "idle"
        /\ session[p].req \in Payments
    BY <1>0, <1>4 DEF CommitRecord, IInv, Records, RecordOf
  <2>1. /\ session[p].req.key \in Keys
        /\ session[p].req.name \in DOMAIN Spelling
        /\ session[p].req.amount \in Nat
    BY <2>0, VendorAssumption
  <2>2. PaymentRow(p) \in [award : Keys \union AwardKeys, vendor : Nat, amount : Nat]
    BY <2>0, <2>1 DEF PaymentRow
  <2>3. \A i \in payments : i.award # PaymentRow(p).award
    BY <1>4 DEF CommitRecord, Recorded, PaymentRow
  <2>4. /\ payments' \in SUBSET [award : Keys \union AwardKeys, vendor : Nat, amount : Nat]
        /\ \A i, j \in payments' : i.award = j.award => i = j
    BY <1>0, <1>4, <2>2, <2>3 DEF CommitRecord, UniqueIndexes
  <2>5. vendors' \in SUBSET Vendor /\ \A v, w \in vendors' : v.id = w.id \/ v.name = w.name => v = w
    <3>1. ASSUME session[p].pc = "created",
                 vendors' = vendors \union {NewVendor(session[p].vendor, session[p].req.name, 0)}
          PROVE  <2>5!1 /\ <2>5!2
      BY <3>1, <1>0, <2>0, <2>1 DEF NewVendor, IInv, FreshRows, UniqueIndexes
    <3>2. ASSUME NEW v \in vendors, vendors' = Counted(v, session[p].count + 1)
          PROVE  <2>5!1 /\ <2>5!2
      BY <3>2, <1>0, <2>0 DEF Counted, UniqueIndexes
    <3> QED
      BY <1>4, <3>1, <3>2 DEF CommitRecord
  <2>6. session' \in [Payers -> Session]
    BY <1>0, <1>4 DEF CommitRecord
  <2> QED
    BY <1>0, <1>4, <2>4, <2>5, <2>6 DEF CommitRecord, UniqueIndexes
<1>5. ASSUME NEW p \in Payers, LoseRecord(p) PROVE TypeOK'
  BY <1>0, <1>5 DEF LoseRecord, UniqueIndexes
<1>6. CASE StartLoad
  BY <1>0, <1>6 DEF StartLoad, NotLoading, UniqueIndexes
<1>7. CASE UpsertVendor
  <2> DEFINE name == Awards[loader.next].name
  <2>1. name \in DOMAIN Spelling
    BY <1>7, VendorAssumption DEF UpsertVendor
  <2> HIDE DEF name
  <2>2. vendors' \in SUBSET Vendor /\ \A v, w \in vendors' : v.id = w.id \/ v.name = w.name => v = w
    <3>1. ASSUME ~NameTaken(name), vendors' = vendors \union {NewVendor(nextId, name, 1)}
          PROVE  <2>2!1 /\ <2>2!2
      BY <3>1, <1>0, <2>1 DEF NewVendor, NameTaken, IInv, FreshRows, UniqueIndexes
    <3>2. ASSUME NEW v \in vendors,
                 vendors' = (vendors \ {v}) \union {[v EXCEPT !.count = @ + 1, !.seeded = @ + 1]}
          PROVE  <2>2!1 /\ <2>2!2
      <4>1. v \in Vendor
        BY <1>0
      <4>2. PICK m \in Nat, n \in Nat : m = v.count + 1 /\ n = v.seeded + 1
        BY <4>1
      <4>3. PICK w : w = [v EXCEPT !.count = m, !.seeded = n]
        OBVIOUS
      <4>4. w \in Vendor /\ w.id = v.id /\ w.name = v.name
        BY <4>1, <4>3
      <4>5. vendors' = (vendors \ {v}) \union {w}
        BY <3>2, <4>2, <4>3
      <4> QED
        BY <1>0, <4>4, <4>5 DEF UniqueIndexes
    <3> QED
      BY <1>7, <3>1, <3>2 DEF UpsertVendor, name
  <2>3. loader' \in Loader /\ nextId' \in Nat
    <3>1. loader \in Loader /\ nextId \in Nat /\ \A v \in vendors : v.id \in Nat
      BY <1>0
    <3>2. nextId' = nextId + 1
      BY <1>7 DEF UpsertVendor
    <3>3. \E n \in Nat : loader' = [loader EXCEPT !.pc = "payment", !.vendor = n]
      BY <1>7, <3>1 DEF UpsertVendor
    <3>4. loader' \in Loader
      BY <3>1, <3>3
    <3> QED
      BY <3>1, <3>2, <3>4
  <2> QED
    BY <1>0, <1>7, <2>2, <2>3 DEF UpsertVendor, UniqueIndexes
<1>8. CASE UpsertPayment
  <2>1. /\ payments' \in SUBSET [award : Keys \union AwardKeys, vendor : Nat, amount : Nat]
        /\ \A i, j \in payments' : i.award = j.award => i = j
    BY <1>0, <1>8, AwardsApart DEF IInv
  <2>2. loader' \in Loader
    <3>1. loader \in Loader
      BY <1>0
    <3>2. PICK n \in Nat : n = loader.next + 1
      BY <3>1
    <3>3. loader' = [loader EXCEPT !.pc = "vendor", !.next = n]
      BY <1>8, <3>2 DEF UpsertPayment
    <3> QED
      BY <3>1, <3>3
  <2> QED
    BY <1>0, <1>8, <2>1, <2>2 DEF UpsertPayment, UniqueIndexes
<1>9. CASE EndLoad
  BY <1>0, <1>9 DEF EndLoad, UniqueIndexes
<1>10. CASE UNCHANGED vars
  BY <1>0, <1>10 DEF UniqueIndexes
<1> QED
  BY <1>1, <1>2, <1>3, <1>4, <1>5, <1>6, <1>7, <1>8, <1>9, <1>10 DEF Next, Record, Load

-----------------------------------------------------------------------------
(* The other conjuncts.                                                    *)

Budget(v) == v.seeded + Cardinality(LiveRows(v.id))

(* Every vendor is still there and has not lost a seed or a live row.      *)
Grown ==
    \A v \in vendors : \E w \in vendors' :
        /\ w.id = v.id /\ w.name = v.name /\ w.seeded >= v.seeded
        /\ w.seeded + Cardinality(LiveRows(w.id)') >= Budget(v)

Kept == IsFiniteSet(Live') /\ FreshRows' /\ Records' /\ Loading'
        /\ RecordedWasPaid' /\ NeverOvercounted'

LEMMA SameGrown ==
    ASSUME IInv, UNCHANGED vendors, Live' = Live
    PROVE  Grown
<1> SUFFICES ASSUME NEW v \in vendors
             PROVE  /\ v \in vendors' /\ v.seeded >= v.seeded
                    /\ v.seeded + Cardinality(LiveRows(v.id)') >= Budget(v)
  BY DEF Grown
<1>1. v.seeded \in Nat /\ v.id \in Nat
  BY DEF IInv, TypeOK
<1>2. LiveRows(v.id)' = LiveRows(v.id)
  BY RowsKept
<1>3. Cardinality(LiveRows(v.id)) \in Nat
  BY LiveRowsFinite DEF IInv
<1> QED
  BY <1>1, <1>2, <1>3 DEF Budget

(* A record that a step leaves alone stays right.                          *)
LEMMA RecordKept ==
    ASSUME IInv, Grown, posted \subseteq posted',
           NEW p \in Payers, session'[p] = session[p],
           \A w \in vendors' : w.seeded \in Nat /\ Cardinality(LiveRows(w.id)') \in Nat
    PROVE  RecordOf(p)'
<1>1. RecordOf(p)
  BY DEF IInv, Records
<1>2. session[p].pc # "idle" => session[p].req \in posted'
  BY <1>1 DEF RecordOf
<1>3. ASSUME session[p].pc = "update"
      PROVE  \E w \in vendors' :
                /\ w.id = session[p].vendor
                /\ Spelling[w.name] = Spelling[session[p].req.name]
                /\ session[p].count <= w.seeded + Cardinality(LiveRows(w.id)')
  <2>1. PICK v \in vendors : /\ v.id = session[p].vendor
                             /\ Spelling[v.name] = Spelling[session[p].req.name]
                             /\ session[p].count <= Budget(v)
    BY <1>1, <1>3 DEF RecordOf, Budget
  <2>2. PICK w \in vendors' : /\ w.id = v.id /\ w.name = v.name
                              /\ w.seeded + Cardinality(LiveRows(w.id)') >= Budget(v)
    BY DEF Grown
  <2>3. session[p].count \in Nat /\ v.seeded \in Nat
    BY DEF IInv, TypeOK
  <2>4. Cardinality(LiveRows(v.id)) \in Nat
    BY LiveRowsFinite DEF IInv
  <2>5. w.seeded \in Nat /\ Cardinality(LiveRows(w.id)') \in Nat
    OBVIOUS
  <2>6. Budget(v) \in Nat
    BY <2>3, <2>4 DEF Budget
  <2> HIDE DEF Budget
  <2>7. session[p].count <= w.seeded + Cardinality(LiveRows(w.id)')
    BY <2>1, <2>2, <2>3, <2>5, <2>6
  <2> QED
    BY <2>1, <2>2, <2>7
<1> QED
  BY <1>2, <1>3 DEF RecordOf

(* A row that stays in the history stays paid.                             *)
LEMMA PaidKept ==
    ASSUME IInv, Grown, posted \subseteq posted', Live' = Live
    PROVE  RecordedWasPaid'
<1> SUFFICES ASSUME NEW i \in payments', i.award \in Keys
             PROVE  \E r \in posted', v \in vendors' :
                       /\ r.key = i.award /\ r.amount = i.amount
                       /\ v.id = i.vendor /\ Spelling[v.name] = Spelling[r.name]
  BY DEF RecordedWasPaid
<1>1. i \in payments
  BY DEF Live
<1>2. PICK r \in posted, v \in vendors :
         /\ r.key = i.award /\ r.amount = i.amount
         /\ v.id = i.vendor /\ Spelling[v.name] = Spelling[r.name]
  BY <1>1 DEF IInv, RecordedWasPaid
<1>3. PICK w \in vendors' : w.id = v.id /\ w.name = v.name
  BY DEF Grown
<1> QED
  BY <1>2, <1>3

(* A step that leaves the vendors and the live rows alone.                 *)
LEMMA HistoryKept ==
    ASSUME IInv, UNCHANGED vendors, Live' = Live, posted \subseteq posted'
    PROVE  /\ IsFiniteSet(Live')
           /\ RecordedWasPaid' /\ NeverOvercounted'
           /\ \A p \in Payers : session'[p] = session[p] => RecordOf(p)'
<1>1. Grown
  BY SameGrown
<1>2. IsFiniteSet(Live') /\ RecordedWasPaid'
  BY <1>1, PaidKept DEF IInv
<1>3. \A v \in vendors : LiveRows(v.id)' = LiveRows(v.id)
  BY RowsKept
<1>4. NeverOvercounted'
  BY <1>3 DEF IInv, NeverOvercounted
<1>5. \A w \in vendors' : w.seeded \in Nat /\ Cardinality(LiveRows(w.id)') \in Nat
  <2>1. \A w \in vendors : w.seeded \in Nat
    BY DEF IInv, TypeOK
  <2>2. \A w \in vendors : Cardinality(LiveRows(w.id)) \in Nat
    BY LiveRowsFinite DEF IInv
  <2> QED
    BY <1>3, <2>1, <2>2
<1>6. \A p \in Payers : session'[p] = session[p] => RecordOf(p)'
  BY <1>1, <1>5, RecordKept
<1> QED
  BY <1>2, <1>4, <1>6

-----------------------------------------------------------------------------
(* The actions of a payer and the loader, one lemma each.                  *)

LEMMA PayKeeps ==
    ASSUME IInv, NEW p \in Payers, NEW r \in Payments, Pay(p, r)
    PROVE  Kept
<1>1. UNCHANGED vendors /\ Live' = Live /\ posted' = posted \union {r}
  BY DEF Pay, Live
<1>2. /\ session'[p].pc = "paid" /\ session'[p].req = r
      /\ \A q \in Payers : q # p => session'[q] = session[q]
  BY DEF Pay, IInv, TypeOK, Idle
<1>3. FreshRows'
  BY <1>1, <1>2 DEF Pay, IInv, FreshRows
<1>4. RecordOf(p)'
  BY <1>1, <1>2 DEF RecordOf
<1>5. Records' /\ IsFiniteSet(Live') /\ RecordedWasPaid' /\ NeverOvercounted'
  BY <1>1, <1>2, <1>4, HistoryKept DEF Records
<1>6. Loading'
  BY DEF Pay, IInv, Loading
<1> QED
  BY <1>3, <1>5, <1>6 DEF Kept

LEMMA FindVendorKeeps ==
    ASSUME IInv, NEW p \in Payers, FindVendor(p)
    PROVE  Kept
<1>1. UNCHANGED <<vendors, posted, nextId, loader>> /\ Live' = Live
  BY DEF FindVendor, Live
<1>0. ASSUME NEW v \in vendors,
             session' = [session EXCEPT ![p].pc = "update", ![p].vendor = v.id, ![p].count = v.count]
      PROVE  /\ session'[p].pc = "update" /\ session'[p].req = session[p].req
             /\ session'[p].vendor = v.id /\ session'[p].count = v.count
             /\ \A q \in Payers : q # p => session'[q] = session[q]
  <2>1. session \in [Payers -> [pc : {"idle", "paid", "create", "created", "update"},
                                req : Payments \union {NoPayment}, vendor : Nat, count : Nat]]
    BY DEF IInv, TypeOK
  <2> QED
    BY <1>0, <2>1
<1>a. \/ /\ session'[p].pc = "create" /\ session'[p].req = session[p].req
          /\ \A q \in Payers : q # p => session'[q] = session[q]
       \/ \E v \in vendors :
             /\ Matching(session[p].req.name) = {v}
             /\ session'[p].pc = "update" /\ session'[p].req = session[p].req
             /\ session'[p].vendor = v.id /\ session'[p].count = v.count
             /\ \A q \in Payers : q # p => session'[q] = session[q]
  <2>1. CASE session' = [session EXCEPT ![p].pc = "create"]
    BY <2>1 DEF IInv, TypeOK
  <2>2. CASE \E v \in vendors :
             /\ Matching(session[p].req.name) = {v}
             /\ session' = [session EXCEPT ![p].pc = "update", ![p].vendor = v.id,
                                           ![p].count = v.count]
    BY <2>2, <1>0
  <2> QED
    BY <2>1, <2>2 DEF FindVendor
<1>2. /\ session'[p].pc \in {"create", "update"} /\ session'[p].req = session[p].req
      /\ \A q \in Payers : q # p => session'[q] = session[q]
  BY <1>a
<1>3. session[p].req \in posted
  BY DEF FindVendor, IInv, Records, RecordOf
<1>4. ASSUME session'[p].pc = "update"
      PROVE  \E v \in vendors :
                /\ v.id = session'[p].vendor
                /\ Spelling[v.name] = Spelling[session[p].req.name]
                /\ session'[p].count <= v.seeded + Cardinality(LiveRows(v.id))
  <2>1. PICK v \in vendors : /\ Matching(session[p].req.name) = {v}
                             /\ session'[p].vendor = v.id /\ session'[p].count = v.count
    BY <1>a, <1>4
  <2>2. Spelling[v.name] = Spelling[session[p].req.name]
    BY <2>1 DEF Matching
  <2> QED
    BY <2>1, <2>2 DEF IInv, NeverOvercounted
<1>5. \A v \in vendors : LiveRows(v.id)' = LiveRows(v.id)
  BY <1>1, RowsKept
<1>6. RecordOf(p)'
  <2>1. session'[p].req \in posted'
    BY <1>1, <1>2, <1>3
  <2>2. ASSUME session'[p].pc = "update"
        PROVE  \E v \in vendors' :
                /\ v.id = session'[p].vendor
                /\ Spelling[v.name] = Spelling[session'[p].req.name]
                /\ session'[p].count <= v.seeded + Cardinality(LiveRows(v.id)')
    BY <1>1, <1>2, <1>4, <1>5, <2>2
  <2> QED
    BY <2>1, <2>2 DEF RecordOf
<1>7. Records' /\ IsFiniteSet(Live') /\ RecordedWasPaid' /\ NeverOvercounted'
  BY <1>1, <1>2, <1>6, HistoryKept DEF Records
<1>8. FreshRows' /\ Loading'
  BY <1>1, <1>2 DEF IInv, FreshRows, Loading
<1> QED
  BY <1>7, <1>8 DEF Kept

LEMMA InsertVendorKeeps ==
    ASSUME IInv, NEW p \in Payers, InsertVendor(p)
    PROVE  Kept
<1>1. UNCHANGED <<vendors, posted, loader>> /\ Live' = Live
  BY DEF InsertVendor, Live
<1>2. /\ session'[p].pc = "created" /\ session'[p].req = session[p].req
      /\ session'[p].vendor = nextId
      /\ \A q \in Payers : q # p => session'[q] = session[q]
  BY DEF InsertVendor, IInv, TypeOK
<1>3. nextId \in Nat /\ nextId' = nextId + 1 /\ session[p].req \in posted
  BY DEF InsertVendor, IInv, TypeOK, Records, RecordOf
<1>4. FreshRows'
  <2>1. \A v \in vendors : v.id \in Nat /\ v.id < nextId /\ v.name # session[p].req.name
    BY DEF InsertVendor, NameTaken, IInv, TypeOK, FreshRows
  <2>2. \A q \in Payers : session[q].pc = "created" =>
           session[q].vendor \in Nat /\ session[q].vendor < nextId
           /\ session[q].req.name # session[p].req.name
    BY DEF InsertVendor, NamePending, IInv, TypeOK, FreshRows
  <2>3. \A v \in vendors : v.id < nextId' /\ v.id # nextId
    BY <1>3, <2>1
  <2>4. \A q \in Payers : session[q].pc = "created" =>
           session[q].vendor < nextId' /\ session[q].vendor # nextId
    BY <1>3, <2>2
  <2>5. nextId < nextId'
    BY <1>3
  <2>6. FreshRows
    BY DEF IInv
  <2> QED
    BY <1>1, <1>2, <2>1, <2>2, <2>3, <2>4, <2>5, <2>6 DEF FreshRows
<1>5. RecordOf(p)'
  BY <1>1, <1>2, <1>3 DEF RecordOf
<1>6. Records' /\ IsFiniteSet(Live') /\ RecordedWasPaid' /\ NeverOvercounted'
  BY <1>1, <1>2, <1>5, HistoryKept DEF Records
<1>7. Loading'
  BY <1>1 DEF IInv, Loading
<1> QED
  BY <1>4, <1>6, <1>7 DEF Kept

LEMMA LoseRecordKeeps ==
    ASSUME IInv, NEW p \in Payers, LoseRecord(p)
    PROVE  Kept
<1>1. UNCHANGED <<vendors, posted, nextId, loader>> /\ Live' = Live
  BY DEF LoseRecord, Live
<1>2. /\ session'[p].pc = "idle"
      /\ \A q \in Payers : q # p => session'[q] = session[q]
  BY DEF LoseRecord, IInv, TypeOK, Idle
<1>3. RecordOf(p)'
  BY <1>2 DEF RecordOf
<1>4. Records' /\ IsFiniteSet(Live') /\ RecordedWasPaid' /\ NeverOvercounted'
  BY <1>1, <1>2, <1>3, HistoryKept DEF Records
<1>5. FreshRows' /\ Loading'
  BY <1>1, <1>2 DEF IInv, FreshRows, Loading
<1> QED
  BY <1>4, <1>5 DEF Kept

(* The loader starts, stops or writes an award.                            *)
LEMMA LoaderKeeps ==
    ASSUME IInv, StartLoad \/ UpsertPayment \/ EndLoad
    PROVE  Kept
<1>1. UNCHANGED <<vendors, posted, nextId, session>> /\ loader'.pc # "payment"
  <2>1. CASE UpsertPayment
    <3>1. UNCHANGED <<vendors, posted, nextId, session>>
      BY <2>1 DEF UpsertPayment
    <3>2. loader' = [loader EXCEPT !.pc = "vendor", !.next = @ + 1]
      BY <2>1 DEF UpsertPayment
    <3>3. loader'.pc = "vendor"
      BY <3>2 DEF IInv, TypeOK
    <3> QED
      BY <3>1, <3>3
  <2>2. CASE StartLoad \/ EndLoad
    BY <2>2 DEF StartLoad, EndLoad, NotLoading
  <2> QED
    BY <2>1, <2>2
<1>2. Live' = Live
  <2>1. CASE UpsertPayment
    BY <2>1, AwardsApart DEF IInv
  <2>2. CASE StartLoad \/ EndLoad
    BY <2>2 DEF StartLoad, EndLoad, Live
  <2> QED
    BY <2>1, <2>2
<1>3. Records' /\ IsFiniteSet(Live') /\ RecordedWasPaid' /\ NeverOvercounted'
  BY <1>1, <1>2, HistoryKept DEF Records
<1>4. FreshRows' /\ Loading'
  BY <1>1 DEF IInv, FreshRows, Loading
<1> QED
  BY <1>3, <1>4 DEF Kept

(* A commit creates or counts one vendor, the one of its payment, and the  *)
(* others stay as they are.                                                *)
OneVendor(p, id, w) ==
    /\ w \in vendors' /\ w.id = id
    /\ Spelling[w.name] = Spelling[session[p].req.name]
    /\ w.count <= w.seeded + Cardinality(LiveRows(id)) + 1
    /\ \A u \in vendors' : u = w \/ (u \in vendors /\ u.id # id)
    /\ \A v \in vendors : v.id = id => v.name = w.name /\ v.seeded = w.seeded
    /\ \A v \in vendors : v.id # id => v \in vendors'
    /\ w.id < nextId
    /\ \A q \in Payers \ {p} : session[q].pc = "created" =>
          w.id # session[q].vendor /\ w.name # session[q].req.name

LEMMA CommitOneVendor ==
    ASSUME IInv, NEW p \in Payers, CommitRecord(p), NEW id, id = session[p].vendor
    PROVE  \E w : OneVendor(p, id, w)
<1>1. id \in Nat /\ session[p].count \in Nat /\ Cardinality(LiveRows(id)) \in Nat
  BY LiveRowsFinite DEF IInv, TypeOK
<1>2. CASE /\ session[p].pc = "created"
           /\ vendors' = vendors \union {NewVendor(id, session[p].req.name, 0)}
  <2> DEFINE w == NewVendor(id, session[p].req.name, 0)
  <2>1. w.id = id /\ w.name = session[p].req.name /\ w.count = 1 /\ w.seeded = 0
    BY DEF NewVendor
  <2>2. vendors' = vendors \union {w}
    BY <1>2
  <2> HIDE DEF w
  <2>3. w.count <= w.seeded + Cardinality(LiveRows(id)) + 1
    BY <1>1, <2>1
  <2>4. /\ w.id < nextId
        /\ \A v \in vendors : v.id # id
        /\ \A q \in Payers \ {p} : session[q].pc = "created" =>
              w.id # session[q].vendor /\ w.name # session[q].req.name
    BY <1>2, <2>1 DEF IInv, FreshRows
  <2> QED
    BY <2>1, <2>2, <2>3, <2>4 DEF OneVendor
<1>3. CASE /\ session[p].pc = "update"
           /\ \E v \in vendors : v.id = id /\ vendors' = Counted(v, session[p].count + 1)
  <2>1. PICK v \in vendors : v.id = id /\ vendors' = Counted(v, session[p].count + 1)
    BY <1>3
  <2>2. PICK n \in Nat : n = session[p].count + 1
    BY <1>1
  <2>3. PICK w : w = [v EXCEPT !.count = n]
    OBVIOUS
  <2>4. w.id = id /\ w.name = v.name /\ w.seeded = v.seeded /\ w.count = n
    BY <2>1, <2>3 DEF IInv, TypeOK
  <2>5. vendors' = (vendors \ {v}) \union {w}
    BY <2>1, <2>2, <2>3 DEF Counted
  <2>6. \A u \in vendors : u.id = id => u = v
    BY <2>1 DEF IInv, TypeOK, UniqueIndexes
  <2>7. /\ Spelling[v.name] = Spelling[session[p].req.name]
        /\ session[p].count <= v.seeded + Cardinality(LiveRows(id))
    BY <1>3, <2>6 DEF IInv, Records, RecordOf
  <2>8. w.count <= w.seeded + Cardinality(LiveRows(id)) + 1
    <3>1. v.seeded \in Nat
      BY DEF IInv, TypeOK
    <3> QED
      BY <1>1, <2>2, <2>4, <2>7, <3>1
  <2>9. /\ v.id < nextId
        /\ \A q \in Payers : session[q].pc = "created" =>
              v.id # session[q].vendor /\ v.name # session[q].req.name
    BY DEF IInv, FreshRows
  <2> QED
    BY <2>1, <2>4, <2>5, <2>6, <2>7, <2>8, <2>9 DEF OneVendor
<1> QED
  BY <1>2, <1>3 DEF CommitRecord

LEMMA CommitRecordKeeps ==
    ASSUME IInv, NEW p \in Payers, CommitRecord(p), TypeOK'
    PROVE  Kept
<1>1. PICK id : id = session[p].vendor
  OBVIOUS
<1>2. PICK w : OneVendor(p, id, w)
  BY <1>1, CommitOneVendor
<1>3. /\ UNCHANGED <<posted, nextId, loader>>
      /\ payments' = payments \union {PaymentRow(p)}
  BY DEF CommitRecord
<1>4. /\ session'[p].pc = "idle"
      /\ \A q \in Payers : q # p => session'[q] = session[q]
  BY DEF CommitRecord, IInv, TypeOK, Idle
<1>5. session[p].req \in posted /\ session[p].req \in Payments
  BY DEF CommitRecord, IInv, TypeOK, Records, RecordOf
<1>6. /\ PaymentRow(p).award = session[p].req.key /\ PaymentRow(p).award \in Keys
      /\ PaymentRow(p).amount = session[p].req.amount /\ PaymentRow(p).vendor = id
  BY <1>1, <1>5 DEF PaymentRow, Keys
<1>7. PaymentRow(p) \notin payments
  BY <1>6 DEF CommitRecord, Recorded
<1>8. /\ IsFiniteSet(Live')
      /\ Cardinality(LiveRows(id)') = Cardinality(LiveRows(id)) + 1
      /\ LiveRows(id)' # {}
      /\ \A other : other # id => LiveRows(other)' = LiveRows(other)
  BY <1>1, <1>3, <1>6, <1>7, RowAdded DEF IInv
<1>9. \A i : Cardinality(LiveRows(i)) \in Nat
  BY LiveRowsFinite DEF IInv
<1>10. Grown
  <2> SUFFICES ASSUME NEW v \in vendors
               PROVE  \E u \in vendors' :
                         /\ u.id = v.id /\ u.name = v.name /\ u.seeded >= v.seeded
                         /\ u.seeded + Cardinality(LiveRows(u.id)') >= Budget(v)
    BY DEF Grown
  <2>1. v.seeded \in Nat
    BY DEF IInv, TypeOK
  <2>2. CASE v.id = id
    BY <1>2, <1>8, <1>9, <2>1, <2>2 DEF OneVendor, Budget
  <2>3. CASE v.id # id
    BY <1>2, <1>8, <1>9, <2>1, <2>3 DEF OneVendor, Budget
  <2> QED
    BY <2>2, <2>3
<1>11. NeverOvercounted'
  <2> SUFFICES ASSUME NEW u \in vendors'
               PROVE  u.count <= u.seeded + Cardinality(LiveRows(u.id)')
    BY DEF NeverOvercounted
  <2>1. CASE u = w
    <3>1. w.seeded \in Nat /\ w.count \in Nat
      BY <2>1 DEF TypeOK
    <3> QED
      BY <1>2, <1>8, <1>9, <2>1, <3>1 DEF OneVendor
  <2>2. CASE u \in vendors /\ u.id # id
    BY <1>8, <2>2 DEF IInv, NeverOvercounted
  <2> QED
    BY <1>2, <2>1, <2>2 DEF OneVendor
<1>12. RecordedWasPaid'
  <2> SUFFICES ASSUME NEW i \in payments', i.award \in Keys
               PROVE  \E r \in posted, v \in vendors' :
                         /\ r.key = i.award /\ r.amount = i.amount
                         /\ v.id = i.vendor /\ Spelling[v.name] = Spelling[r.name]
    BY <1>3 DEF RecordedWasPaid
  <2>1. CASE i = PaymentRow(p)
    BY <1>2, <1>5, <1>6, <2>1 DEF OneVendor
  <2>2. CASE i \in payments
    <3>1. PICK r \in posted, v \in vendors :
             /\ r.key = i.award /\ r.amount = i.amount
             /\ v.id = i.vendor /\ Spelling[v.name] = Spelling[r.name]
      BY <2>2 DEF IInv, RecordedWasPaid
    <3>2. PICK u \in vendors' : u.id = v.id /\ u.name = v.name
      BY <1>10 DEF Grown
    <3> QED
      BY <3>1, <3>2
  <2> QED
    BY <1>3, <2>1, <2>2
<1>13. Records'
  <2>1. \A u \in vendors' : u.seeded \in Nat /\ Cardinality(LiveRows(u.id)') \in Nat
    <3>1. \A u \in vendors' : u.seeded \in Nat
      BY DEF TypeOK
    <3>2. \A i : Cardinality(LiveRows(i)') \in Nat
      BY <1>8, <1>9
    <3> QED
      BY <3>1, <3>2
  <2>2. RecordOf(p)'
    BY <1>4 DEF RecordOf
  <2> QED
    BY <1>3, <1>4, <1>10, <2>1, <2>2, RecordKept DEF Records
<1>14. FreshRows'
  BY <1>2, <1>3, <1>4 DEF OneVendor, IInv, FreshRows
<1>15. Loading'
  BY <1>3 DEF IInv, Loading
<1> QED
  BY <1>8, <1>11, <1>12, <1>13, <1>14, <1>15 DEF Kept

(* The loader's upsert seeds one vendor, new or old.                       *)
Seeded(w) ==
    /\ w \in vendors'
    /\ w.id < nextId'
    /\ w.seeded > 0
    /\ w.count <= w.seeded + Cardinality(LiveRows(w.id))
    /\ \A u \in vendors' : u = w \/ u \in vendors
    /\ \A v \in vendors : v \in vendors' \/
          (v.id = w.id /\ v.name = w.name /\ w.seeded >= v.seeded)
    /\ \A q \in Payers : session[q].pc = "created" =>
          w.id # session[q].vendor /\ w.name # session[q].req.name

LEMMA UpsertSeedsOne ==
    ASSUME IInv, UpsertVendor
    PROVE  \E w : Seeded(w)
<1> DEFINE name == Awards[loader.next].name
<1>1. nextId \in Nat /\ nextId' = nextId + 1
  BY DEF UpsertVendor, IInv, TypeOK
<1>2. /\ ~NamePending(name)
      /\ \/ ~NameTaken(name) /\ vendors' = vendors \union {NewVendor(nextId, name, 1)}
         \/ \E v \in vendors :
               /\ v.name = name
               /\ vendors' = (vendors \ {v}) \union {[v EXCEPT !.count = @ + 1, !.seeded = @ + 1]}
  BY DEF UpsertVendor
<1> HIDE DEF name
<1>3. ASSUME vendors' = vendors \union {NewVendor(nextId, name, 1)}
      PROVE  \E w : Seeded(w)
  <2> DEFINE w == NewVendor(nextId, name, 1)
  <2>1. w.id = nextId /\ w.name = name /\ w.count = 1 /\ w.seeded = 1
    BY DEF NewVendor
  <2>2. vendors' = vendors \union {w}
    BY <1>3
  <2> HIDE DEF w
  <2>3. w.count <= w.seeded + Cardinality(LiveRows(w.id)) /\ w.seeded > 0
    BY <2>1, LiveRowsFinite DEF IInv
  <2>4. w.id < nextId'
    BY <1>1, <2>1
  <2>5. \A q \in Payers : session[q].pc = "created" =>
           w.id # session[q].vendor /\ w.name # session[q].req.name
    <3>1. \A q \in Payers : session[q].pc = "created" =>
             session[q].vendor \in Nat /\ session[q].vendor < nextId
      BY DEF IInv, TypeOK, FreshRows
    <3>2. \A q \in Payers : session[q].pc = "created" => session[q].vendor # nextId
      BY <1>1, <3>1
    <3> QED
      BY <1>2, <2>1, <3>2 DEF NamePending
  <2> QED
    BY <2>2, <2>3, <2>4, <2>5 DEF Seeded
<1>4. ASSUME NEW v \in vendors, v.name = name,
             vendors' = (vendors \ {v}) \union {[v EXCEPT !.count = @ + 1, !.seeded = @ + 1]}
      PROVE  \E w : Seeded(w)
  <2>1. v.id \in Nat /\ v.count \in Nat /\ v.seeded \in Nat /\ v.id < nextId
    BY DEF IInv, TypeOK, FreshRows
  <2>2. PICK m \in Nat, n \in Nat : m = v.count + 1 /\ n = v.seeded + 1
    BY <2>1
  <2>3. PICK w : w = [v EXCEPT !.count = m, !.seeded = n]
    OBVIOUS
  <2>4. w.id = v.id /\ w.name = v.name /\ w.count = m /\ w.seeded = n
    BY <2>3 DEF IInv, TypeOK
  <2>5. vendors' = (vendors \ {v}) \union {w}
    BY <1>4, <2>2, <2>3
  <2>6. v.count <= v.seeded + Cardinality(LiveRows(v.id)) /\ Cardinality(LiveRows(v.id)) \in Nat
    BY LiveRowsFinite DEF IInv, NeverOvercounted
  <2>7. /\ w.count <= w.seeded + Cardinality(LiveRows(w.id)) /\ w.seeded > 0
        /\ w.seeded >= v.seeded /\ w.id < nextId'
    BY <1>1, <2>1, <2>2, <2>4, <2>6
  <2>8. \A q \in Payers : session[q].pc = "created" =>
           w.id # session[q].vendor /\ w.name # session[q].req.name
    BY <2>4 DEF IInv, FreshRows
  <2> QED
    BY <2>4, <2>5, <2>7, <2>8 DEF Seeded
<1> QED
  BY <1>2, <1>3, <1>4

LEMMA UpsertVendorKeeps ==
    ASSUME IInv, UpsertVendor, TypeOK'
    PROVE  Kept
<1>1. PICK w : Seeded(w)
  BY UpsertSeedsOne
<1>2. /\ UNCHANGED <<posted, session>> /\ Live' = Live
      /\ loader.next \in DOMAIN Awards /\ nextId' = nextId + 1
  BY DEF UpsertVendor, Live
<1>3. loader'.next = loader.next
  <2>1. \E n : loader' = [loader EXCEPT !.pc = "payment", !.vendor = n]
    BY DEF UpsertVendor
  <2> QED
    BY <2>1 DEF IInv, TypeOK
<1>4. \A id : LiveRows(id)' = LiveRows(id)
  BY <1>2, RowsKept
<1>5. \A id : Cardinality(LiveRows(id)) \in Nat
  BY LiveRowsFinite DEF IInv
<1>6. Grown
  <2> SUFFICES ASSUME NEW v \in vendors
               PROVE  \E u \in vendors' :
                         /\ u.id = v.id /\ u.name = v.name /\ u.seeded >= v.seeded
                         /\ u.seeded + Cardinality(LiveRows(u.id)') >= Budget(v)
    BY DEF Grown
  <2>1. v.seeded \in Nat
    BY DEF IInv, TypeOK
  <2>2. CASE v \in vendors'
    BY <1>4, <1>5, <2>1, <2>2 DEF Budget
  <2>3. CASE v.id = w.id /\ v.name = w.name /\ w.seeded >= v.seeded
    <3>1. w.seeded \in Nat /\ w \in vendors'
      BY <1>1 DEF Seeded, TypeOK
    <3>2. w.seeded + Cardinality(LiveRows(w.id)') >= Budget(v)
      BY <1>4, <1>5, <2>1, <2>3, <3>1 DEF Budget
    <3> QED
      BY <2>3, <3>1, <3>2
  <2> QED
    BY <1>1, <2>2, <2>3 DEF Seeded
<1>7. RecordedWasPaid' /\ IsFiniteSet(Live')
  BY <1>2, <1>6, PaidKept DEF IInv
<1>8. NeverOvercounted'
  BY <1>1, <1>4 DEF Seeded, IInv, NeverOvercounted
<1>9. Records'
  <2>1. \A u \in vendors' : u.seeded \in Nat /\ Cardinality(LiveRows(u.id)') \in Nat
    <3>1. \A u \in vendors' : u.seeded \in Nat
      BY DEF TypeOK
    <3> QED
      BY <1>4, <1>5, <3>1
  <2> QED
    BY <1>2, <1>6, <2>1, RecordKept DEF Records
<1>10. FreshRows'
  <2>1. nextId \in Nat /\ nextId < nextId'
    BY <1>2 DEF IInv, TypeOK
  <2>2. \A v \in vendors : v.id < nextId'
    BY <2>1 DEF IInv, TypeOK, FreshRows
  <2>3. \A q \in Payers : session[q].pc = "created" => session[q].vendor < nextId'
    BY <2>1 DEF IInv, TypeOK, FreshRows
  <2> QED
    BY <1>1, <1>2, <2>2, <2>3 DEF Seeded, IInv, FreshRows
<1>11. Loading'
  BY <1>2, <1>3 DEF Loading
<1> QED
  BY <1>7, <1>8, <1>9, <1>10, <1>11 DEF Kept

-----------------------------------------------------------------------------

LEMMA Inductive ==
    ASSUME IInv, [Next]_vars
    PROVE  IInv'
<1>1. TypeOK'
  BY TypeHolds
<1>2. CASE UNCHANGED vars
  <2>1. UNCHANGED <<posted, vendors, session, nextId, loader>> /\ Live' = Live
    BY <1>2 DEF vars, Live
  <2>2. Records' /\ IsFiniteSet(Live') /\ RecordedWasPaid' /\ NeverOvercounted'
    BY <2>1, HistoryKept DEF Records
  <2>3. FreshRows' /\ Loading'
    BY <2>1 DEF IInv, FreshRows, Loading
  <2> QED
    BY <1>1, <2>2, <2>3 DEF IInv
<1>3. CASE Next
  <2>1. Kept
    BY <1>1, <1>3, PayKeeps, FindVendorKeeps, InsertVendorKeeps, CommitRecordKeeps,
       LoseRecordKeeps, LoaderKeeps, UpsertVendorKeeps DEF Next, Record, Load
  <2> QED
    BY <1>1, <2>1 DEF Kept, IInv
<1> QED
  BY <1>2, <1>3

LEMMA Invariance == Spec => []IInv
<1>1. IInv /\ [Next]_vars => IInv'
  BY Inductive
<1> QED
  BY InitHolds, <1>1, PTL DEF Spec

(* The rows have their types and the unique indexes of the two tables are  *)
(* never violated, whoever inserts next to whom.                           *)
THEOREM VendorTypeCorrect == Spec => []TypeOK
<1>1. IInv => TypeOK
  BY DEF IInv
<1> QED
  BY <1>1, Invariance, PTL

(* Whatever is recorded as paid to a vendor was posted by the ledger.      *)
THEOREM HistoryWasPaid == Spec => []RecordedWasPaid
<1>1. IInv => RecordedWasPaid
  BY DEF IInv
<1> QED
  BY <1>1, Invariance, PTL

(* Racing records and loads lose counts of a vendor and never add any.     *)
THEOREM CountsAreBounded == Spec => []NeverOvercounted
<1>1. IInv => NeverOvercounted
  BY DEF IInv
<1> QED
  BY <1>1, Invariance, PTL
=============================================================================
