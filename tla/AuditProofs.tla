----------------------------- MODULE AuditProofs -----------------------------
(***************************************************************************)
(* Theorems about AuditLog, for any number of appenders, calls, alterations*)
(* and faults: the chain is an append-only tree whose entries are backed   *)
(* by their objects, without overlapping appends it is a list that         *)
(* verifies, and what the watchdog has found broken is on record.          *)
(***************************************************************************)
EXTENDS AuditLog, TLAPS

-----------------------------------------------------------------------------
(* The inductive invariant.                                                *)

Hashes(rows) == {r.hash : r \in rows}

IsNewest(r, rows) == r \in rows /\ \A q \in rows : q.id <= r.id

(* What an append embeds when it follows exactly these rows.               *)
Follows(prev, rows) ==
    IF rows = {} THEN prev = Genesis
    ELSE \E q \in rows : IsNewest(q, rows) /\ q.hash = prev

(* Ids and digests are given out once.                                     *)
Distinct ==
    /\ \A r, q \in chain : r.id = q.id => r = q
    /\ \A r, q \in chain : r.hash = q.hash => r = q
    /\ \A r \in chain : r.id < nextId /\ r.hash <= digests
    /\ \A p \in Active :
          /\ session[p].hash <= digests
          /\ session[p].hash \notin Hashes(chain)
          /\ \A q \in Active : session[p].hash = session[q].hash => p = q
    /\ \A p \in Writers : session[p].pc = "inserted" =>
          /\ session[p].id < nextId
          /\ \A r \in chain : r.id # session[p].id
          /\ \A q \in Writers :
                session[q].pc = "inserted" /\ session[p].id = session[q].id => p = q

(* Every append embeds an entry that is committed, and reaches the insert  *)
(* only when its object is stored.                                         *)
Grounded ==
    /\ chain # {} => \E r \in chain : IsNewest(r, chain)
    /\ \A p \in Active :
          /\ session[p].prev = Genesis \/ session[p].prev \in Hashes(chain)
          /\ session[p].pc # "sealed" => session[p].hash \in stored
    /\ \A r \in chain : r.hash \in stored

(* As long as no two appends overlap, the only one embeds the newest row.  *)
Sequential ==
    ~overlapped =>
        /\ \A p, q \in Active : p = q
        /\ \A p \in Active : Follows(session[p].prev, chain)
        /\ \A p \in Active : session[p].pc = "inserted" =>
              \A r \in chain : r.id < session[p].id
        /\ \A r \in chain : Follows(r.prev, Before(chain, r))

IInv == TypeOK /\ Distinct /\ Grounded /\ Sequential

-----------------------------------------------------------------------------

(* The newest row of a set in which ids are distinct, and its digest.      *)
LEMMA TipOfNewest ==
    ASSUME NEW rows, NEW r \in rows, IsNewest(r, rows),
           \A x, y \in rows : x.id \in Nat /\ (x.id = y.id => x = y)
    PROVE  rows # {} /\ Newest(rows) = r /\ Tip(rows) = r.hash
<1>1. \A x \in rows : (\A q \in rows : q.id <= x.id) => x = r
  BY DEF IsNewest
<1>2. \E x \in rows : \A q \in rows : q.id <= x.id
  BY DEF IsNewest
<1>3. Newest(rows) \in rows /\ \A q \in rows : q.id <= Newest(rows).id
  BY <1>2 DEF Newest
<1> QED
  BY <1>1, <1>3 DEF Tip

(* A row that follows the rows before it has the link that is expected.    *)
LEMMA FollowsIsTip ==
    ASSUME NEW rows, NEW prev, Follows(prev, rows),
           \A x, y \in rows : x.id \in Nat /\ (x.id = y.id => x = y)
    PROVE  prev = Tip(rows)
<1>1. CASE rows = {}
  BY <1>1 DEF Follows, Tip
<1>2. CASE rows # {}
  <2>1. PICK q \in rows : IsNewest(q, rows) /\ q.hash = prev
    BY <1>2 DEF Follows
  <2> QED
    BY <2>1, TipOfNewest
<1> QED
  BY <1>1, <1>2

-----------------------------------------------------------------------------
(* Types.                                                                  *)

LEMMA RowTypes ==
    ASSUME NEW rows \in SUBSET Row
    PROVE  /\ Breaks(rows) \in SUBSET Nat
           /\ \A r \in rows : r.id \in Nat /\ r.hash \in Nat /\ r.prev \in Nat
  BY DEF Breaks, Row

LEMMA TypeHolds ==
    ASSUME IInv, [Next]_vars
    PROVE  TypeOK'
<1> USE DEF TypeOK, bounds, stores, watchVars, vars, Writers
<1>0. Request \in Events /\ Idle.event \in Events /\ Genesis \in Nat /\ TypeOK
  BY DEF Request, Events, Idle, Genesis, IInv
<1>1. ASSUME NEW p \in Writers, NEW event \in Events, Seal(p, event),
             Tip(chain) \in Nat
      PROVE  (digests \in Nat /\ overlapped \in BOOLEAN)' /\
             session' \in [Writers -> [pc : {"idle", "sealed", "stored", "inserted"},
                                event : Events, prev : Nat, hash : Nat, id : Nat]]
  BY <1>0, <1>1 DEF Seal
<1>2. Tip(chain) \in Nat
  <2>1. CASE chain = {}
    BY <2>1 DEF Tip, Genesis
  <2>2. CASE chain # {}
    <3>1. PICK r \in chain : IsNewest(r, chain)
      BY <2>2 DEF IInv, Grounded
    <3>2. Newest(chain) \in chain
      BY <3>1 DEF Newest, IsNewest
    <3> QED
      BY <2>2, <3>2, <1>0, RowTypes DEF Tip
  <2> QED
    BY <2>1, <2>2
<1>3. ASSUME NEW p \in Appenders, Call(p) PROVE TypeOK'
  BY <1>0, <1>1, <1>2, <1>3 DEF Call
<1>4. ASSUME NEW p \in Appenders, FailCall(p) PROVE TypeOK'
  BY <1>0, <1>4 DEF FailCall, Fault, Idle
<1>5. ASSUME NEW p \in Writers, PutObject(p) PROVE TypeOK'
  BY <1>0, <1>5 DEF PutObject
<1>6. ASSUME NEW p \in Writers, InsertRow(p) PROVE TypeOK'
  BY <1>0, <1>6 DEF InsertRow
<1>7. ASSUME NEW p \in Writers, Commit(p) PROVE TypeOK'
  <2>1. RowOf(session[p]) \in Row
    BY <1>0 DEF RowOf, Row
  <2> QED
    BY <1>0, <1>7, <2>1 DEF Commit, Idle
<1>8. CASE FetchRows
  BY <1>0, <1>8 DEF FetchRows
<1>9. CASE CheckRows
  <2>1. Breaks(watch.rows) \in SUBSET Nat
    BY <1>0, RowTypes
  <2>2. todo' \in SUBSET Events /\ known' \in SUBSET Nat /\ lost' \in SUBSET known'
    BY <1>0, <1>9, <2>1 DEF CheckRows, Compare, Finding, Events
  <2> QED
    BY <1>0, <1>9, <2>2 DEF CheckRows
<1>10. ASSUME NEW e \in todo, Report(e) PROVE TypeOK'
  <2>1. e \in Events /\ Seal(Watchdog, e)
    BY <1>0, <1>10 DEF Report
  <2> QED
    BY <1>0, <1>1, <1>2, <1>10, <2>1 DEF Report
<1>11. CASE FinishTick
  BY <1>0, <1>11 DEF FinishTick
<1>12. CASE FailTick
  <2>1. session' \in [Writers -> [pc : {"idle", "sealed", "stored", "inserted"},
                                event : Events, prev : Nat, hash : Nat, id : Nat]]
    BY <1>0, <1>12 DEF FailTick, Idle
  <2>2. known' \in SUBSET Nat /\ lost' \in SUBSET known' /\ todo' \in SUBSET Events
    BY <1>0, <1>12 DEF FailTick
  <2> QED
    BY <1>0, <1>12, <2>1, <2>2 DEF FailTick, Fault
<1>13. CASE Restart
  BY <1>0, <1>13 DEF Restart, Fault, Idle
<1>14. ASSUME NEW r \in chain, AlterRow(r, ~r.intact) PROVE TypeOK'
  <2>1. [r EXCEPT !.intact = ~r.intact] \in Row
    BY <1>0 DEF Row
  <2> QED
    BY <1>0, <1>14, <2>1 DEF AlterRow, Damage
<1>15. ASSUME NEW r \in chain, ShadowObject(r) PROVE TypeOK'
  <2>1. r.hash \in stored
    BY <1>15 DEF IInv, Grounded
  <2>2. shadowed' \in SUBSET stored'
    BY <1>0, <1>15, <2>1 DEF ShadowObject
  <2> QED
    BY <1>0, <1>15, <2>2 DEF ShadowObject, Damage
<1>16. ASSUME NEW r \in chain, UncoverObject(r) PROVE TypeOK'
  BY <1>0, <1>16 DEF UncoverObject
<1>17. CASE UNCHANGED vars
  BY <1>0, <1>17
<1> QED
  BY <1>3, <1>4, <1>5, <1>6, <1>7, <1>8, <1>9, <1>10, <1>11, <1>12, <1>13, <1>14, <1>15,
     <1>16, <1>17 DEF Next, Append, Tick, Outside

-----------------------------------------------------------------------------
(* What each kind of step does to the other parts of the invariant.        *)

(* A step that leaves the chain alone and at most ends appends.            *)
LEMMA QuietKeeps ==
    ASSUME IInv,
           UNCHANGED <<chain, nextId, stored, digests, overlapped>>,
           DOMAIN session' = Writers,
           \A p \in Writers : session'[p] = session[p] \/ session'[p] = Idle
    PROVE  (Distinct /\ Grounded /\ Sequential)'
<1>1. \A p \in Active' : p \in Active /\ session'[p] = session[p]
  BY DEF Active, Idle
<1>2. \A p \in Writers : session'[p].pc = "inserted" =>
          session[p].pc = "inserted" /\ session'[p] = session[p]
  BY DEF Idle
<1>3. Distinct'
  BY <1>1, <1>2 DEF IInv, Distinct, Hashes
<1>4. Grounded'
  BY <1>1 DEF IInv, Grounded, Hashes, IsNewest
<1>5. Sequential'
  BY <1>1, <1>2 DEF IInv, Sequential, Follows, IsNewest, Before
<1> QED
  BY <1>3, <1>4, <1>5

LEMMA SealKeeps ==
    ASSUME IInv, NEW p \in Writers, NEW event, Seal(p, event),
           UNCHANGED <<chain, nextId, stored>>
    PROVE  (Distinct /\ Grounded /\ Sequential)'
<1> DEFINE new == [pc |-> "sealed", event |-> event, prev |-> Tip(chain),
                   hash |-> digests + 1, id |-> 0]
<1>1. /\ session' = [session EXCEPT ![p] = new]
      /\ digests' = digests + 1
      /\ overlapped' = (overlapped \/ Active # {})
      /\ p \notin Active
  BY DEF Seal, Active
<1>2. /\ digests \in Nat
      /\ \A q \in Writers : session[q].hash \in Nat
      /\ \A r \in chain : r.hash \in Nat /\ r.id \in Nat
      /\ DOMAIN session = Writers
  BY RowTypes DEF IInv, TypeOK
<1>3. \A q \in Active' : IF q = p THEN session'[q] = new
                                  ELSE q \in Active /\ session'[q] = session[q]
  BY <1>1, <1>2 DEF Active
<1>4. \A q \in Writers : session'[q].pc = "inserted" =>
          q # p /\ session'[q] = session[q]
  BY <1>1, <1>2
<1>5. IF chain = {} THEN Tip(chain) = Genesis
      ELSE \E r \in chain : IsNewest(r, chain) /\ r.hash = Tip(chain)
  <2>1. CASE chain # {}
    <3>1. PICK r \in chain : IsNewest(r, chain)
      BY <2>1 DEF IInv, Grounded
    <3> QED
      BY <1>2, <2>1, <3>1, TipOfNewest DEF IInv, Distinct
  <2> QED
    BY <2>1 DEF Tip
<1>6. Distinct'
  <2>1. ASSUME NEW q \in Active'
        PROVE  /\ session'[q].hash <= digests'
               /\ session'[q].hash \notin Hashes(chain)
               /\ \A x \in Active' : session'[q].hash = session'[x].hash => q = x
    BY <1>1, <1>2, <1>3 DEF IInv, Distinct, Hashes, Active
  <2>2. \A r \in chain : r.id < nextId /\ r.hash <= digests'
    BY <1>1, <1>2 DEF IInv, Distinct
  <2> QED
    BY <1>1, <1>4, <2>1, <2>2 DEF IInv, Distinct, Hashes
<1>7. Grounded'
  BY <1>3, <1>5 DEF IInv, Grounded, Hashes, IsNewest
<1>8. Sequential'
  <2> SUFFICES ASSUME ~overlapped' PROVE Sequential'
    BY DEF Sequential
  <2>1. ~overlapped /\ Active = {}
    BY <1>1
  <2>2. \A q \in Active' : q = p /\ session'[q] = new
    BY <1>3, <2>1
  <2>3. Follows(new.prev, chain)
    BY <1>5 DEF Follows
  <2> QED
    BY <1>4, <2>1, <2>2, <2>3 DEF IInv, Sequential, Follows, IsNewest, Before
<1> QED
  BY <1>6, <1>7, <1>8

LEMMA PutKeeps ==
    ASSUME IInv, NEW p \in Writers, PutObject(p)
    PROVE  (Distinct /\ Grounded /\ Sequential)'
<1>1. /\ session' = [session EXCEPT ![p].pc = "stored"]
      /\ UNCHANGED <<chain, nextId, digests, overlapped>>
      /\ stored' = stored \union {session[p].hash}
      /\ p \in Active
      /\ DOMAIN session = Writers
  BY DEF PutObject, Active, IInv, TypeOK
<1>2. \A q \in Writers : /\ session'[q].hash = session[q].hash
                         /\ session'[q].prev = session[q].prev
                         /\ session'[q].id = session[q].id
                         /\ q # p => session'[q] = session[q]
  BY <1>1 DEF IInv, TypeOK
<1>3. session'[p].pc = "stored"
  BY <1>1 DEF IInv, TypeOK
<1>4. Active' = Active
  BY <1>1, <1>2, <1>3 DEF Active
<1>5. \A q \in Writers : session'[q].pc = "inserted" => session[q].pc = "inserted"
  BY <1>2, <1>3
<1>6. Distinct'
  BY <1>1, <1>2, <1>4, <1>5 DEF IInv, Distinct, Hashes, Active
<1>7. Grounded'
  BY <1>1, <1>2, <1>3, <1>4 DEF IInv, Grounded, Hashes, IsNewest, Active
<1>8. Sequential'
  BY <1>1, <1>2, <1>4, <1>5 DEF IInv, Sequential, Follows, IsNewest, Before, Active
<1> QED
  BY <1>6, <1>7, <1>8

LEMMA InsertKeeps ==
    ASSUME IInv, NEW p \in Writers, InsertRow(p)
    PROVE  (Distinct /\ Grounded /\ Sequential)'
<1>0. session' = [session EXCEPT ![p].pc = "inserted", ![p].id = nextId]
  BY DEF InsertRow
<1>1. /\ UNCHANGED <<chain, stored, digests, overlapped>>
      /\ nextId' = nextId + 1
      /\ nextId \in Nat
      /\ p \in Active
      /\ session[p].pc = "stored"
      /\ \A r \in chain : r.id \in Nat
  BY RowTypes DEF InsertRow, Active, IInv, TypeOK
<1>2. \A q \in Writers : /\ session'[q].hash = session[q].hash
                         /\ session'[q].prev = session[q].prev
                         /\ session[q].id \in Nat
                         /\ q # p => session'[q] = session[q]
  BY <1>0 DEF IInv, TypeOK
<1>3. session'[p].pc = "inserted" /\ session'[p].id = nextId
  BY <1>0 DEF IInv, TypeOK
<1>4. Active' = Active
  BY <1>1, <1>2, <1>3 DEF Active
<1>5. \A r \in chain : r.id < nextId
  BY DEF IInv, Distinct
<1>6. ASSUME NEW q \in Writers, q # p, session'[q].pc = "inserted"
      PROVE  /\ session'[q] = session[q]
             /\ session'[q].id \in Nat
             /\ session'[q].id < nextId
             /\ \A r \in chain : r.id # session'[q].id
             /\ \A x \in Writers :
                   session[x].pc = "inserted" /\ session[q].id = session[x].id => q = x
  BY <1>2, <1>6 DEF IInv, Distinct
<1>7. Distinct'
  <2>1. \A r \in chain : r.id < nextId' /\ r.id # session'[p].id
    BY <1>1, <1>3, <1>5
  <2>2. ASSUME NEW q \in Writers, session'[q].pc = "inserted"
        PROVE  /\ session'[q].id < nextId'
               /\ \A r \in chain : r.id # session'[q].id
    <3>1. CASE q = p
      BY <1>1, <1>3, <2>1, <3>1
    <3>2. CASE q # p
      BY <1>1, <1>6, <2>2, <3>2
    <3> QED
      BY <3>1, <3>2
  <2>3. ASSUME NEW q \in Writers, NEW x \in Writers,
               session'[q].pc = "inserted", session'[x].pc = "inserted",
               session'[q].id = session'[x].id
        PROVE  q = x
    <3>1. CASE q = p /\ x # p
      BY <1>1, <1>3, <1>6, <2>3, <3>1
    <3>2. CASE q # p /\ x = p
      BY <1>1, <1>3, <1>6, <2>3, <3>2
    <3>3. CASE q # p /\ x # p
      BY <1>6, <2>3, <3>3
    <3> QED
      BY <3>1, <3>2, <3>3
  <2>4. \A q \in Active' :
          /\ session'[q].hash <= digests'
          /\ session'[q].hash \notin Hashes(chain)
          /\ \A x \in Active' : session'[q].hash = session'[x].hash => q = x
    BY <1>1, <1>2, <1>4 DEF IInv, Distinct, Active
  <2>5. /\ \A r, q \in chain : r.id = q.id => r = q
        /\ \A r, q \in chain : r.hash = q.hash => r = q
        /\ \A r \in chain : r.hash <= digests
    BY DEF IInv, Distinct
  <2> QED
    BY <1>1, <2>1, <2>2, <2>3, <2>4, <2>5 DEF Distinct, Hashes
<1>8. Grounded'
  <2>1. session[p].hash \in stored
    BY <1>1 DEF IInv, Grounded
  <2>2. ASSUME NEW q \in Active
        PROVE  /\ session'[q].prev = Genesis \/ session'[q].prev \in Hashes(chain)
               /\ session'[q].pc # "sealed" => session'[q].hash \in stored
    BY <1>2, <2>1, <2>2 DEF IInv, Grounded, Active
  <2>3. /\ chain # {} => \E r \in chain : IsNewest(r, chain)
        /\ \A r \in chain : r.hash \in stored
    BY DEF IInv, Grounded
  <2> QED
    BY <1>1, <1>4, <2>2, <2>3 DEF Grounded, Hashes, IsNewest
<1>9. Sequential'
  <2> SUFFICES ASSUME ~overlapped PROVE Sequential'
    BY <1>1 DEF Sequential
  <2>1. /\ \A x, q \in Active : x = q
        /\ \A x \in Active : Follows(session[x].prev, chain)
        /\ \A r \in chain : Follows(r.prev, Before(chain, r))
    BY DEF IInv, Sequential
  <2>2. \A q \in Active' : q = p /\ session'[q].prev = session[q].prev
    BY <1>1, <1>2, <1>4, <2>1 DEF Active
  <2>3. \A r \in chain : r.id < session'[p].id
    BY <1>3, <1>5
  <2> QED
    BY <1>1, <1>4, <2>1, <2>2, <2>3 DEF Sequential, Follows, IsNewest, Before
<1> QED
  BY <1>7, <1>8, <1>9

(* The row an append commits is the only one with its id and its digest.   *)
LEMMA CommitKeeps ==
    ASSUME IInv, NEW p \in Writers, Commit(p)
    PROVE  (Distinct /\ Grounded /\ Sequential)'
<1> DEFINE new == RowOf(session[p])
<1>0. session' = [session EXCEPT ![p] = Idle] /\ chain' = chain \union {new}
  BY DEF Commit
<1>1. /\ UNCHANGED <<nextId, stored, digests, overlapped>>
      /\ p \in Active
      /\ session[p].pc = "inserted"
      /\ new.id = session[p].id /\ new.hash = session[p].hash /\ new.prev = session[p].prev
  BY DEF Commit, Active, RowOf
<1>2. /\ \A q \in Writers : q # p => session'[q] = session[q]
      /\ session'[p] = Idle
      /\ nextId \in Nat /\ new.id \in Nat
      /\ \A r \in chain : r.id \in Nat
  BY <1>0, <1>1, RowTypes DEF IInv, TypeOK
<1>3. \A q \in Active' : q \in Active /\ q # p /\ session'[q] = session[q]
  BY <1>2 DEF Active, Idle
<1>4. \A q \in Writers : session'[q].pc = "inserted" =>
          q # p /\ session[q].pc = "inserted" /\ session'[q] = session[q]
  BY <1>2 DEF Idle
<1>5. /\ new.id < nextId /\ new.hash <= digests
      /\ \A r \in chain : r.id # new.id /\ r.hash # new.hash
  BY <1>1 DEF IInv, Distinct, Hashes
<1>6. Distinct'
  <2>1. ASSUME NEW r \in chain', NEW q \in chain'
        PROVE  (r.id = q.id => r = q) /\ (r.hash = q.hash => r = q)
               /\ r.id < nextId /\ r.hash <= digests
    BY <1>0, <1>5 DEF IInv, Distinct
  <2>2. ASSUME NEW q \in Active'
        PROVE  /\ session'[q].hash <= digests
               /\ session'[q].hash \notin Hashes(chain')
               /\ \A x \in Active' : session'[q].hash = session'[x].hash => q = x
    <3>1. session[q].hash # new.hash
      BY <1>1, <1>3 DEF IInv, Distinct
    <3> QED
      BY <1>0, <1>3, <3>1 DEF IInv, Distinct, Hashes
  <2>3. ASSUME NEW q \in Writers, session'[q].pc = "inserted"
        PROVE  /\ session'[q].id < nextId
               /\ \A r \in chain' : r.id # session'[q].id
               /\ \A x \in Writers : session'[x].pc = "inserted"
                     /\ session'[q].id = session'[x].id => q = x
    <3>1. session[q].id # new.id
      BY <1>1, <1>4, <2>3 DEF IInv, Distinct
    <3> QED
      BY <1>0, <1>4, <2>3, <3>1 DEF IInv, Distinct
  <2> QED
    BY <1>1, <2>1, <2>2, <2>3 DEF Distinct, Hashes
<1>7. Grounded'
  <2>1. \E r \in chain' : IsNewest(r, chain')
    <3>1. CASE chain = {}
      BY <1>0, <1>2, <3>1 DEF IsNewest
    <3>2. CASE chain # {}
      <4>1. PICK r \in chain : IsNewest(r, chain)
        BY <3>2 DEF IInv, Grounded
      <4>2. CASE new.id <= r.id
        BY <1>0, <4>1, <4>2 DEF IsNewest
      <4>3. CASE ~(new.id <= r.id)
        <5>1. \A q \in chain : q.id <= new.id
          BY <1>2, <4>1, <4>3 DEF IsNewest
        <5> QED
          BY <1>0, <1>2, <5>1 DEF IsNewest
      <4> QED
        BY <4>2, <4>3
    <3> QED
      BY <3>1, <3>2
  <2>2. new.hash \in stored
    BY <1>1 DEF IInv, Grounded
  <2>3. \A q \in Active' :
          /\ session'[q].prev = Genesis \/ session'[q].prev \in Hashes(chain')
          /\ session'[q].pc # "sealed" => session'[q].hash \in stored
    BY <1>0, <1>3 DEF IInv, Grounded, Hashes
  <2>4. \A r \in chain' : r.hash \in stored
    BY <1>0, <2>2 DEF IInv, Grounded
  <2> QED
    BY <1>1, <2>1, <2>3, <2>4 DEF Grounded, Hashes
<1>8. Sequential'
  <2> SUFFICES ASSUME ~overlapped PROVE Sequential'
    BY <1>1 DEF Sequential
  <2>1. /\ \A x, q \in Active : x = q
        /\ Follows(session[p].prev, chain)
        /\ \A r \in chain : r.id < new.id
        /\ \A r \in chain : Follows(r.prev, Before(chain, r))
    BY <1>1 DEF IInv, Sequential
  <2>2. Active' = {} /\ \A q \in Writers : session'[q].pc # "inserted"
    BY <1>1, <1>3, <1>4, <2>1 DEF Active
  <2>3. Before(chain', new) = chain
    BY <1>0, <1>2, <2>1 DEF Before
  <2>4. \A r \in chain : Before(chain', r) = Before(chain, r)
    BY <1>0, <1>2, <2>1 DEF Before
  <2>5. \A r \in chain' : Follows(r.prev, Before(chain', r))
    BY <1>0, <1>1, <2>1, <2>3, <2>4
  <2> QED
    BY <2>2, <2>5 DEF Sequential
<1> QED
  BY <1>6, <1>7, <1>8

(* Altering a row leaves its id, link and digest as they are.              *)
LEMMA AlterKeeps ==
    ASSUME IInv, NEW r \in chain, NEW b \in BOOLEAN, AlterRow(r, b)
    PROVE  (Distinct /\ Grounded /\ Sequential)'
<1> DEFINE new == [r EXCEPT !.intact = b]
<1>1. /\ chain' = (chain \ {r}) \union {new}
      /\ UNCHANGED <<nextId, stored, digests, session, overlapped>>
  BY DEF AlterRow
<1>2. new.id = r.id /\ new.hash = r.hash /\ new.prev = r.prev
  BY DEF IInv, TypeOK, Row
<1> DEFINE old(x) == IF x = new THEN r ELSE x
<1>3. /\ \A x \in chain' : /\ old(x) \in chain
                           /\ old(x).id = x.id
                           /\ old(x).hash = x.hash
                           /\ old(x).prev = x.prev
      /\ \A x \in chain : \E y \in chain' : y.id = x.id /\ y.hash = x.hash
  BY <1>1, <1>2
<1>4. \A x, y \in chain : (x.id = y.id => x = y) /\ (x.hash = y.hash => x = y)
  BY DEF IInv, Distinct
<1>5. \A x, y \in chain' : old(x) = old(y) => x = y
  BY <1>1, <1>2, <1>4
<1>6. Hashes(chain') = Hashes(chain) /\ Active' = Active
  <2>1. Hashes(chain') \subseteq Hashes(chain)
    BY <1>3 DEF Hashes
  <2>2. Hashes(chain) \subseteq Hashes(chain')
    BY <1>3 DEF Hashes
  <2> QED
    BY <1>1, <2>1, <2>2 DEF Active
<1> HIDE DEF old
<1>7. Distinct'
  <2>1. \A x, y \in chain' : (x.id = y.id => x = y) /\ (x.hash = y.hash => x = y)
    BY <1>3, <1>4, <1>5
  <2>2. \A x \in chain' : x.id < nextId /\ x.hash <= digests
    BY <1>3 DEF IInv, Distinct
  <2>3. \A p \in Writers : session[p].pc = "inserted" =>
          \A x \in chain' : x.id # session[p].id
    BY <1>3 DEF IInv, Distinct
  <2>4. Hashes(chain)' = Hashes(chain)
    BY <1>6 DEF Hashes
  <2> QED
    BY <1>1, <1>6, <2>1, <2>2, <2>3, <2>4 DEF IInv, Distinct
<1>8. Grounded'
  <2>1. PICK n \in chain : IsNewest(n, chain)
    BY DEF IInv, Grounded
  <2>2. PICK m \in chain' : m.id = n.id
    BY <1>3, <2>1
  <2>3. IsNewest(m, chain')
    BY <1>3, <2>1, <2>2 DEF IsNewest
  <2>4. \A x \in chain' : x.hash \in stored
    BY <1>3 DEF IInv, Grounded
  <2>5. Hashes(chain)' = Hashes(chain)
    BY <1>6 DEF Hashes
  <2> QED
    BY <1>1, <1>6, <2>2, <2>3, <2>4, <2>5 DEF IInv, Grounded, IsNewest
<1>9. Sequential'
  <2> SUFFICES ASSUME ~overlapped PROVE Sequential'
    BY <1>1 DEF Sequential
  <2>1. ASSUME NEW prev, NEW rows \in SUBSET chain, NEW rows2 \in SUBSET chain',
               Follows(prev, rows),
               \A x \in rows2 : old(x) \in rows,
               \A x \in rows : \E y \in rows2 : y.id = x.id /\ y.hash = x.hash
        PROVE  Follows(prev, rows2)
    <3>1. CASE rows = {}
      BY <2>1, <3>1 DEF Follows
    <3>2. CASE rows # {}
      <4>1. PICK n \in rows : IsNewest(n, rows) /\ n.hash = prev
        BY <2>1, <3>2 DEF Follows
      <4>2. PICK m \in rows2 : m.id = n.id /\ m.hash = n.hash
        BY <2>1
      <4>3. \A x \in rows2 : x.id <= m.id
        BY <1>3, <2>1, <4>1, <4>2 DEF IsNewest
      <4> QED
        BY <4>1, <4>2, <4>3 DEF Follows, IsNewest
    <3> QED
      BY <3>1, <3>2
  <2>2. \A p \in Active : Follows(session[p].prev, chain')
    <3>1. \A p \in Active : Follows(session[p].prev, chain)
      BY DEF IInv, Sequential
    <3> QED
      BY <1>3, <2>1, <3>1
  <2>3. ASSUME NEW x \in chain' PROVE Follows(x.prev, Before(chain', x))
    <3>1. Follows(x.prev, Before(chain, old(x)))
      BY <1>3 DEF IInv, Sequential
    <3>2. \A y \in Before(chain', x) : old(y) \in Before(chain, old(x))
      BY <1>3 DEF Before
    <3>3. ASSUME NEW y \in Before(chain, old(x))
          PROVE  \E z \in Before(chain', x) : z.id = y.id /\ z.hash = y.hash
      BY <1>3 DEF Before
    <3>4. Before(chain, old(x)) \in SUBSET chain /\ Before(chain', x) \in SUBSET chain'
      BY DEF Before
    <3> QED
      BY <2>1, <3>1, <3>2, <3>3, <3>4
  <2>4. \A p \in Active : session[p].pc = "inserted" =>
          \A x \in chain' : x.id < session[p].id
    BY <1>3 DEF IInv, Sequential
  <2>5. \A p, q \in Active : p = q
    BY DEF IInv, Sequential
  <2> QED
    BY <1>1, <1>6, <2>2, <2>3, <2>4, <2>5 DEF Sequential, Follows, Before, IsNewest
<1> QED
  BY <1>7, <1>8, <1>9

-----------------------------------------------------------------------------

LEMMA StepKeeps ==
    ASSUME IInv, [Next]_vars
    PROVE  IInv'
<1> USE DEF bounds, stores, watchVars, vars, Writers
<1>0. TypeOK'
  BY TypeHolds
<1> DEFINE Kept == (Distinct /\ Grounded /\ Sequential)'
<1>1. DOMAIN session = Writers
  BY DEF IInv, TypeOK
<1>2. ASSUME NEW p \in Appenders, Call(p) PROVE Kept
  BY <1>2, SealKeeps DEF Call
<1>3. ASSUME NEW p \in Appenders, FailCall(p) PROVE Kept
  BY <1>1, <1>3, QuietKeeps DEF FailCall
<1>4. ASSUME NEW p \in Writers, Append(p) PROVE Kept
  BY <1>4, PutKeeps, InsertKeeps, CommitKeeps DEF Append
<1>5. ASSUME FetchRows \/ CheckRows \/ FinishTick PROVE Kept
  BY <1>1, <1>5, QuietKeeps DEF FetchRows, CheckRows, FinishTick
<1>6. ASSUME NEW e \in todo, Report(e) PROVE Kept
  BY <1>6, SealKeeps DEF Report
<1>7. ASSUME FailTick PROVE Kept
  BY <1>1, <1>7, QuietKeeps DEF FailTick
<1>8. ASSUME Restart PROVE Kept
  BY <1>1, <1>8, QuietKeeps DEF Restart
<1>9. ASSUME NEW r \in chain, AlterRow(r, ~r.intact) PROVE Kept
  BY <1>9, AlterKeeps DEF IInv, TypeOK, Row
<1>10. ASSUME NEW r \in chain, ShadowObject(r) \/ UncoverObject(r) PROVE Kept
  BY <1>1, <1>10, QuietKeeps DEF ShadowObject, UncoverObject
<1>11. ASSUME UNCHANGED vars PROVE Kept
  BY <1>1, <1>11, QuietKeeps
<1>12. Kept
  BY <1>2, <1>3, <1>4, <1>5, <1>6, <1>7, <1>8, <1>9, <1>10, <1>11 DEF Next, Tick, Outside
<1> QED
  BY <1>0, <1>12 DEF IInv

LEMMA InitHolds == Init => IInv
<1> SUFFICES ASSUME Init PROVE IInv
  OBVIOUS
<1>1. TypeOK
  <2>1. Idle \in [pc : {"idle", "sealed", "stored", "inserted"},
                  event : Events, prev : Nat, hash : Nat, id : Nat]
    <3>1. Request \in Events
      BY DEF Request, Events
    <3> QED
      BY <3>1 DEF Idle, Genesis
  <2>2. session \in [Writers -> [pc : {"idle", "sealed", "stored", "inserted"},
                                event : Events, prev : Nat, hash : Nat, id : Nat]]
    BY <2>1 DEF Init
  <2>3. watch \in [pc : {"sleep", "check", "report"}, rows : SUBSET Row]
    BY DEF Init
  <2>4. /\ {calls, damages, faults} \subseteq Nat
        /\ digests \in Nat /\ nextId \in Nat
    BY DEF Init
  <2>5. overlapped \in BOOLEAN /\ lost \in SUBSET known
    BY DEF Init
  <2>6. chain \in SUBSET Row /\ stored \in SUBSET Nat /\ shadowed \in SUBSET stored
        /\ known \in SUBSET Nat /\ todo \in SUBSET Events
    BY DEF Init
  <2> QED
    BY <2>2, <2>3, <2>4, <2>5, <2>6 DEF TypeOK
<1>2. Active = {} /\ \A p \in Writers : session[p].pc # "inserted"
  BY DEF Init, Active, Idle
<1>3. Distinct /\ Grounded /\ Sequential
  BY <1>2 DEF Init, Distinct, Grounded, Sequential
<1> QED
  BY <1>1, <1>3 DEF IInv

LEMMA Invariance == Spec => []IInv
  BY InitHolds, StepKeeps, PTL DEF Spec

(* Every reachable state of the log and its watchdog has the declared      *)
(* types; only stored objects are ever shadowed.                           *)
THEOREM AuditTypeCorrect == Spec => []TypeOK
<1>1. IInv => TypeOK
  BY DEF IInv
<1> QED
  BY <1>1, Invariance, PTL

LEMMA SequentialHolds == IInv => SequentialVerifies
<1> SUFFICES ASSUME IInv, Undamaged, ~overlapped, NEW r \in chain
             PROVE  /\ r.intact
                    /\ r.prev = Tip(Before(chain, r))
                    /\ r.hash \in stored /\ r.hash \notin shadowed
  BY DEF SequentialVerifies, Breaks
<1>1. r.intact /\ r.hash \in stored /\ r.hash \notin shadowed
  BY DEF IInv, Grounded, Undamaged
<1>2. Follows(r.prev, Before(chain, r))
  BY DEF IInv, Sequential
<1>3. \A x, y \in Before(chain, r) : x.id \in Nat /\ (x.id = y.id => x = y)
  BY RowTypes DEF IInv, TypeOK, Distinct, Before
<1> QED
  BY <1>1, <1>2, <1>3, FollowsIsTip

(* _compute_breaks finds nothing in a chain that nobody altered and to     *)
(* which appends came one at a time, however many failed or were cut off   *)
(* by a restart.                                                           *)
THEOREM SequentialChainVerifies == Spec => []SequentialVerifies
  BY SequentialHolds, Invariance, PTL

-----------------------------------------------------------------------------
(* The watchdog's findings.                                                *)

Detected(i) == Finding("detected", i)

Resolved(i) == Finding("resolved", i)

(* The watchdog has still to write this finding, or is writing it.         *)
Pending(event) ==
    \/ event \in todo
    \/ session[Watchdog].pc # "idle" /\ session[Watchdog].event = event

(* The newest entry about the row says that it broke.                      *)
OnRecord(i) ==
    \E r \in AboutBreak(i) :
        r.event = Detected(i) /\ \A q \in AboutBreak(i) : q.id <= r.id

(* Only the watchdog writes findings, and only within its tick.            *)
OneReporter ==
    /\ session[Watchdog].pc # "idle" => watch.pc = "report"
    /\ watch.pc # "report" => todo = {}
    /\ \A p \in Appenders : session[p].event = Request

(* What it has still to write agrees with what it knows.                   *)
PendingAgrees ==
    \A e \in Events : Pending(e) =>
        \/ e.kind = "detected" /\ e.id \in known
        \/ e.kind = "resolved" /\ e.id \notin known

(* A finding about to be committed is newer than those in the chain.       *)
FindingsInOrder ==
    session[Watchdog].pc = "inserted" =>
        \A r \in chain : r.event.kind # "request" => r.id < session[Watchdog].id

KnownRecorded == \A i \in known \ lost : Pending(Detected(i)) \/ OnRecord(i)

Findings == OneReporter /\ PendingAgrees /\ FindingsInOrder /\ KnownRecorded

FindingsInv == IInv /\ Findings

LEMMA FindingNames ==
    ASSUME NEW i, NEW j
    PROVE  /\ Detected(i) = Detected(j) => i = j
           /\ Detected(i) # Resolved(j)
           /\ Detected(i) # Request /\ Resolved(i) # Request
           /\ Detected(i).kind = "detected" /\ Detected(i).id = i
           /\ Resolved(i).kind = "resolved" /\ Resolved(i).id = i
  BY DEF Detected, Resolved, Finding, Request

(* A step that leaves the findings where they are: in the chain, in the    *)
(* watchdog's append and among those to be written.                        *)
LEMMA QuietFindings ==
    ASSUME FindingsInv, UNCHANGED <<known, todo, lost>>,
           session[Watchdog].pc # "idle" \/ todo # {} => watch'.pc = "report",
           session'[Watchdog].pc # "idle" <=> session[Watchdog].pc # "idle",
           session'[Watchdog].pc # "idle" =>
              session'[Watchdog].event = session[Watchdog].event,
           session'[Watchdog].pc = "inserted" =>
              \/ session[Watchdog].pc = "inserted" /\ session'[Watchdog].id = session[Watchdog].id
              \/ \A r \in chain' : r.id < session'[Watchdog].id,
           \A p \in Appenders : session'[p].event = Request,
           \A r \in chain' : r.event = Request
              \/ \E q \in chain : q.id = r.id /\ q.event = r.event,
           \A q \in chain : \E r \in chain' : r.id = q.id /\ r.event = q.event
    PROVE  Findings'
<1>1. OneReporter'
  BY DEF FindingsInv, Findings, OneReporter
<1>2. \A e : Pending(e)' <=> Pending(e)
  BY DEF Pending
<1>3. PendingAgrees'
  BY <1>2 DEF FindingsInv, Findings, PendingAgrees
<1>4. FindingsInOrder'
  BY DEF FindingsInv, Findings, FindingsInOrder, Request
<1>5. ASSUME NEW i, OnRecord(i) PROVE OnRecord(i)'
  <2>1. PICK r \in AboutBreak(i) : r.event = Detected(i) /\ \A q \in AboutBreak(i) : q.id <= r.id
    BY <1>5 DEF OnRecord
  <2>2. PICK x \in chain' : x.id = r.id /\ x.event = r.event
    BY DEF AboutBreak
  <2>3. ASSUME NEW q \in chain', q.event \in {Detected(i), Resolved(i)} PROVE q.id <= x.id
    <3>0. q.event # Request
      BY <2>3 DEF Detected, Resolved, Finding, Request
    <3>1. PICK y \in chain : y.id = q.id /\ y.event = q.event
      BY <2>3, <3>0
    <3> QED
      BY <2>1, <2>2, <2>3, <3>1 DEF AboutBreak, Detected, Resolved
  <2> QED
    BY <2>1, <2>2, <2>3 DEF OnRecord, AboutBreak, Detected, Resolved
<1>6. KnownRecorded'
  BY <1>2, <1>5 DEF FindingsInv, Findings, KnownRecorded
<1> QED
  BY <1>1, <1>3, <1>4, <1>6 DEF Findings

(* The row a session committed is the newest about what it reports, and    *)
(* changes nothing for the other rows.                                     *)
LEMMA CommitFindings ==
    ASSUME FindingsInv, Commit(Watchdog)
    PROVE  Findings'
<1> DEFINE e == session[Watchdog].event
           new == RowOf(session[Watchdog])
<1>1. /\ chain' = chain \union {new}
      /\ session' = [session EXCEPT ![Watchdog] = Idle]
      /\ session[Watchdog].pc = "inserted"
      /\ UNCHANGED <<watch, known, todo, lost>>
  BY DEF Commit, watchVars
<1>2. new.event = e /\ new.id = session[Watchdog].id
  BY DEF RowOf
<1>3. session'[Watchdog] = Idle /\ \A p \in Appenders : session'[p] = session[p]
  BY <1>1, AuditAssumption DEF FindingsInv, IInv, TypeOK, Writers
<1>4. session'[Watchdog].pc = "idle"
  BY <1>3 DEF Idle
<1>5. e \in Events /\ new.id \in Nat
  BY <1>2 DEF FindingsInv, IInv, TypeOK, Writers
<1>6. OneReporter'
  BY <1>1, <1>3, <1>4 DEF FindingsInv, Findings, OneReporter
<1>7. PendingAgrees'
  BY <1>1, <1>4 DEF FindingsInv, Findings, PendingAgrees, Pending
<1>8. FindingsInOrder'
  BY <1>4 DEF FindingsInOrder
<1>9. \A r \in chain : r.event.kind # "request" => r.id < new.id
  BY <1>1, <1>2 DEF FindingsInv, Findings, FindingsInOrder
<1>10. ASSUME NEW i \in known \ lost PROVE Pending(Detected(i))' \/ OnRecord(i)'
  <2>1. CASE e = Detected(i)
    <3>1. ASSUME NEW q \in chain', q.event \in {Detected(i), Resolved(i)}
          PROVE  q.id <= new.id
      <4>1. q.event.kind # "request"
        BY <3>1, FindingNames
      <4>2. q \in chain => q.id \in Nat
        BY DEF FindingsInv, IInv, TypeOK, Row
      <4> QED
        BY <1>1, <1>5, <1>9, <4>1, <4>2
    <3> QED
      BY <1>1, <1>2, <2>1, <3>1 DEF OnRecord, AboutBreak, Detected, Resolved
  <2>2. CASE e # Detected(i)
    <3>1. e # Resolved(i)
      <4>1. Pending(e)
        BY <1>1 DEF Pending
      <4>2. e.kind = "resolved" => e.id \notin known
        BY <1>5, <4>1 DEF FindingsInv, Findings, PendingAgrees
      <4> QED
        BY <4>2, FindingNames
    <3>2. AboutBreak(i)' = AboutBreak(i)
      BY <1>1, <1>2, <2>2, <3>1 DEF AboutBreak, Detected, Resolved
    <3>3. Pending(Detected(i)) => Pending(Detected(i))'
      BY <1>1, <2>2 DEF Pending, Detected
    <3>4. OnRecord(i) => OnRecord(i)'
      BY <3>2 DEF OnRecord, Detected
    <3> QED
      BY <3>3, <3>4 DEF FindingsInv, Findings, KnownRecorded
  <2> QED
    BY <2>1, <2>2
<1>11. KnownRecorded'
  BY <1>1, <1>10 DEF KnownRecorded
<1> QED
  BY <1>6, <1>7, <1>8, <1>11 DEF Findings

LEMMA CheckFindings ==
    ASSUME FindingsInv, CheckRows
    PROVE  Findings'
<1> DEFINE broken == Breaks(watch.rows)
<1>1. /\ watch.pc = "check" /\ watch'.pc = "report"
      /\ known' = broken
      /\ todo' = {Detected(i) : i \in broken \ known} \union {Resolved(i) : i \in known \ broken}
      /\ lost' = lost \intersect broken
      /\ UNCHANGED <<chain, session>>
  BY DEF CheckRows, Compare, Detected, Resolved, stores
<1>2. session[Watchdog].pc = "idle" /\ todo = {}
  BY <1>1 DEF FindingsInv, Findings, OneReporter
<1> HIDE DEF broken
<1>3. OneReporter'
  BY <1>1, <1>2 DEF FindingsInv, Findings, OneReporter
<1>4. PendingAgrees'
  <2>1. \A e : Pending(e)' <=> e \in todo'
    BY <1>1, <1>2 DEF Pending
  <2>2. ASSUME NEW e \in todo'
        PROVE  \/ e.kind = "detected" /\ e.id \in known'
               \/ e.kind = "resolved" /\ e.id \notin known'
    BY <1>1, <2>2, FindingNames
  <2> QED
    BY <2>1, <2>2 DEF PendingAgrees
<1>5. FindingsInOrder'
  BY <1>1, <1>2 DEF FindingsInOrder
<1>6. ASSUME NEW i \in known' \ lost' PROVE Pending(Detected(i))' \/ OnRecord(i)'
  <2>1. CASE i \in known
    <3>1. i \in known \ lost
      BY <1>1, <1>6, <2>1
    <3>2. ~Pending(Detected(i))
      BY <1>2 DEF Pending
    <3>3. OnRecord(i)
      BY <3>1, <3>2 DEF FindingsInv, Findings, KnownRecorded
    <3> QED
      BY <1>1, <3>3 DEF OnRecord, AboutBreak, Detected
  <2>2. CASE i \notin known
    BY <1>1, <2>2 DEF Pending, Detected
  <2> QED
    BY <2>1, <2>2
<1>7. KnownRecorded'
  BY <1>6 DEF KnownRecorded
<1> QED
  BY <1>3, <1>4, <1>5, <1>7 DEF Findings

LEMMA ReportFindings ==
    ASSUME FindingsInv, NEW e \in todo, Report(e)
    PROVE  Findings'
<1>1. /\ watch.pc = "report" /\ todo' = todo \ {e}
      /\ UNCHANGED <<chain, watch, known, lost>>
      /\ Seal(Watchdog, e)
  BY DEF Report, stores
<1>2. /\ session[Watchdog].pc = "idle"
      /\ session'[Watchdog].pc = "sealed" /\ session'[Watchdog].event = e
      /\ \A p \in Appenders : session'[p] = session[p]
  BY <1>1, AuditAssumption DEF Seal, FindingsInv, IInv, TypeOK, Writers
<1>3. OneReporter'
  BY <1>1, <1>2 DEF FindingsInv, Findings, OneReporter
<1>4. \A x : Pending(x)' <=> Pending(x)
  BY <1>1, <1>2 DEF Pending
<1>5. PendingAgrees'
  BY <1>1, <1>4 DEF FindingsInv, Findings, PendingAgrees
<1>6. FindingsInOrder'
  BY <1>2 DEF FindingsInOrder
<1>7. KnownRecorded'
  BY <1>1, <1>4 DEF FindingsInv, Findings, KnownRecorded, OnRecord, AboutBreak, Detected
<1> QED
  BY <1>3, <1>5, <1>6, <1>7 DEF Findings

(* The rest of a tick is lost with a fault, or with the service.           *)
LEMMA FaultFindings ==
    ASSUME FindingsInv, FailTick \/ Restart
    PROVE  Findings'
<1>1. /\ todo' = {} /\ UNCHANGED chain
      /\ session'[Watchdog] = Idle
      /\ \A p \in Appenders : session'[p] = session[p] \/ session'[p] = Idle
  BY AuditAssumption DEF FailTick, Restart, FindingsInv, IInv, TypeOK, Writers, stores
<1>2. session'[Watchdog].pc = "idle" /\ Idle.event = Request
  BY <1>1 DEF Idle
<1>3. OneReporter' /\ FindingsInOrder'
  BY <1>1, <1>2 DEF FindingsInv, Findings, OneReporter, FindingsInOrder
<1>4. PendingAgrees'
  BY <1>1, <1>2 DEF PendingAgrees, Pending
<1>5. KnownRecorded'
  <2>1. CASE Restart
    BY <2>1 DEF Restart, KnownRecorded
  <2>2. CASE FailTick
    <3>1. known' = known /\ lost' = lost \union {i \in known : Pending(Detected(i))}
      BY <2>2 DEF FailTick, BeingWritten, Pending, Detected
    <3> QED
      BY <1>1, <3>1 DEF FindingsInv, Findings, KnownRecorded, OnRecord, AboutBreak, Detected
  <2> QED
    BY <2>1, <2>2
<1> QED
  BY <1>3, <1>4, <1>5 DEF Findings

LEMMA FindingsStep ==
    ASSUME FindingsInv, [Next]_vars
    PROVE  FindingsInv'
<1> USE DEF bounds, stores, watchVars, vars
<1>0. IInv'
  BY StepKeeps DEF FindingsInv
<1>1. /\ session \in [Writers -> [pc : {"idle", "sealed", "stored", "inserted"},
                                  event : Events, prev : Nat, hash : Nat, id : Nat]]
      /\ chain \subseteq Row
      /\ Watchdog \in Writers /\ Appenders \subseteq Writers /\ Watchdog \notin Appenders
      /\ Idle.event = Request /\ Idle.pc = "idle"
      /\ \A p \in Appenders : session[p].event = Request
      /\ session[Watchdog].pc # "idle" \/ todo # {} => watch.pc = "report"
  BY AuditAssumption DEF FindingsInv, IInv, TypeOK, Findings, OneReporter, Writers, Idle
<1>2. ASSUME NEW p \in Appenders, Call(p) PROVE Findings'
  <2>1. /\ \A q \in Writers : q # p => session'[q] = session[q]
        /\ session'[p].event = Request
    BY <1>1, <1>2 DEF Call, Seal
  <2> QED
    BY <1>1, <1>2, <2>1, QuietFindings DEF Call
<1>3. ASSUME NEW p \in Appenders, FailCall(p) PROVE Findings'
  <2>1. /\ \A q \in Writers : q # p => session'[q] = session[q]
        /\ session'[p].event = Request
    BY <1>1, <1>3 DEF FailCall
  <2> QED
    BY <1>1, <1>3, <2>1, QuietFindings DEF FailCall
<1>4. ASSUME NEW p \in Writers, PutObject(p) PROVE Findings'
  <2>1. /\ \A q \in Writers : q # p => session'[q] = session[q]
        /\ session'[p].event = session[p].event /\ session'[p].pc = "stored"
        /\ session[p].pc = "sealed"
    BY <1>1, <1>4 DEF PutObject
  <2>2. session'[Watchdog].event = session[Watchdog].event
    BY <1>1, <2>1
  <2>3. session'[Watchdog].pc # "idle" <=> session[Watchdog].pc # "idle"
    BY <1>1, <2>1
  <2>4. session'[Watchdog].pc = "inserted" => session'[Watchdog] = session[Watchdog]
    BY <1>1, <2>1
  <2>5. \A q \in Appenders : session'[q].event = Request
    BY <1>1, <2>1
  <2> QED
    BY <1>1, <1>4, <2>2, <2>3, <2>4, <2>5, QuietFindings DEF PutObject
<1>5. ASSUME NEW p \in Writers, InsertRow(p) PROVE Findings'
  <2>1. /\ \A q \in Writers : q # p => session'[q] = session[q]
        /\ session'[p].event = session[p].event
        /\ session'[p].pc = "inserted" /\ session'[p].id = nextId
        /\ session[p].pc = "stored"
    BY <1>1, <1>5 DEF InsertRow
  <2>2. session'[Watchdog].event = session[Watchdog].event
    BY <1>1, <2>1
  <2>3. session'[Watchdog].pc # "idle" <=> session[Watchdog].pc # "idle"
    BY <1>1, <2>1
  <2>4. session'[Watchdog].pc = "inserted" =>
           session'[Watchdog] = session[Watchdog] \/ session'[Watchdog].id = nextId
    BY <1>1, <2>1
  <2>5. \A q \in Appenders : session'[q].event = Request
    BY <1>1, <2>1
  <2>6. \A r \in chain : r.id < nextId
    BY DEF FindingsInv, IInv, Distinct
  <2> QED
    BY <1>1, <1>5, <2>2, <2>3, <2>4, <2>5, <2>6, QuietFindings DEF InsertRow
<1>6. ASSUME NEW p \in Writers, Commit(p) PROVE Findings'
  <2>1. CASE p = Watchdog
    BY <1>6, <2>1, CommitFindings
  <2>2. CASE p \in Appenders
    <3>1. /\ \A q \in Writers : q # p => session'[q] = session[q]
          /\ session'[p].event = Request
      BY <1>1, <1>6 DEF Commit
    <3>2. RowOf(session[p]).event = Request
      BY <1>1, <2>2 DEF RowOf
    <3>3. /\ \A r \in chain' : r.event = Request
                \/ \E q \in chain : q.id = r.id /\ q.event = r.event
          /\ \A q \in chain : \E r \in chain' : r.id = q.id /\ r.event = q.event
      BY <1>6, <3>2 DEF Commit
    <3> QED
      BY <1>1, <1>6, <2>2, <3>1, <3>3, QuietFindings DEF Commit
  <2> QED
    BY <2>1, <2>2 DEF Writers
<1>7. ASSUME FetchRows PROVE Findings'
  BY <1>1, <1>7, QuietFindings DEF FetchRows
<1>8. ASSUME FinishTick PROVE Findings'
  BY <1>1, <1>8, QuietFindings DEF FinishTick
<1>9. ASSUME NEW r \in chain, AlterRow(r, ~r.intact) PROVE Findings'
  <2> DEFINE new == [r EXCEPT !.intact = ~r.intact]
  <2>1. new.id = r.id /\ new.event = r.event
    BY <1>1 DEF Row
  <2>2. chain' = (chain \ {r}) \union {new}
    BY <1>9 DEF AlterRow
  <2> HIDE DEF new
  <2>3. /\ \A x \in chain' : \E q \in chain : q.id = x.id /\ q.event = x.event
        /\ \A q \in chain : \E x \in chain' : x.id = q.id /\ x.event = q.event
    BY <2>1, <2>2
  <2> QED
    BY <1>1, <1>9, <2>3, QuietFindings DEF AlterRow
<1>10. ASSUME NEW r \in chain, ShadowObject(r) \/ UncoverObject(r) PROVE Findings'
  BY <1>1, <1>10, QuietFindings DEF ShadowObject, UncoverObject
<1>11. ASSUME UNCHANGED vars PROVE Findings'
  BY <1>1, <1>11, QuietFindings
<1>12. Findings'
  BY <1>2, <1>3, <1>4, <1>5, <1>6, <1>7, <1>8, <1>9, <1>10, <1>11,
     CheckFindings, ReportFindings, FaultFindings DEF Next, Append, Tick, Outside
<1> QED
  BY <1>0, <1>12 DEF FindingsInv

(* Whatever broke and was found is on record: the newest finding about the *)
(* row says so, unless a fault lost the report or it is being written,     *)
(* through every interleaving of ticks, appends, faults and restarts.      *)
THEOREM KnownBreaksAreRecorded == Spec => []KnownIsOnRecord
<1>1. Init => FindingsInv
  <2> SUFFICES ASSUME Init PROVE Findings
    BY InitHolds DEF FindingsInv
  <2>1. \A p \in Writers : session[p] = Idle
    BY DEF Init
  <2>2. session[Watchdog].pc = "idle" /\ \A p \in Appenders : session[p].event = Request
    BY <2>1 DEF Writers, Idle
  <2> QED
    BY <2>2 DEF Init, Findings, OneReporter, PendingAgrees, Pending, FindingsInOrder,
                KnownRecorded
<1>2. FindingsInv => KnownIsOnRecord
  <2> SUFFICES ASSUME FindingsInv, NEW i \in known \ lost
               PROVE  \/ BeingWritten(i)
                      \/ /\ AboutBreak(i) # {}
                         /\ Newest(AboutBreak(i)).event.kind = "detected"
    BY DEF KnownIsOnRecord
  <2>1. Pending(Detected(i)) => BeingWritten(i)
    BY DEF Pending, BeingWritten, Detected
  <2>2. ASSUME OnRecord(i)
        PROVE  AboutBreak(i) # {} /\ Newest(AboutBreak(i)).event.kind = "detected"
    <3>1. PICK r \in AboutBreak(i) :
             r.event = Detected(i) /\ \A q \in AboutBreak(i) : q.id <= r.id
      BY <2>2 DEF OnRecord
    <3>2. \A x, y \in AboutBreak(i) : x.id \in Nat /\ (x.id = y.id => x = y)
      BY DEF AboutBreak, FindingsInv, IInv, TypeOK, Row, Distinct
    <3>3. Newest(AboutBreak(i)) = r
      BY <3>1, <3>2, TipOfNewest DEF IsNewest
    <3> QED
      BY <3>1, <3>3, FindingNames
  <2> QED
    BY <2>1, <2>2 DEF FindingsInv, Findings, KnownRecorded
<1> QED
  BY <1>1, <1>2, FindingsStep, PTL DEF Spec

-----------------------------------------------------------------------------
(* False alarms.                                                           *)

(* A row that verifies as long as nobody alters its object.                *)
Linked(rows, q) == q.intact /\ q.prev = Tip(Before(rows, q)) /\ q.hash \in stored

(* Nobody altered anything and no two appends overlapped: the watchdog     *)
(* knows of nothing, has nothing to report and is about to find nothing.   *)
Calm ==
    /\ Undamaged
    /\ watch.pc = "check" => \A q \in watch.rows : Linked(watch.rows, q)
    /\ known = {} /\ todo = {}
    /\ \A p \in Writers : session[p].event = Request
    /\ \A r \in chain : r.event = Request

AlarmInv == IInv /\ (damages = 0 /\ ~overlapped => Calm)

LEMMA LinkedStays ==
    ASSUME Calm, watch.pc = "check", UNCHANGED watch, stored \subseteq stored'
    PROVE  \A q \in watch'.rows : Linked(watch.rows, q)'
  BY DEF Calm, Linked

(* A step that the watchdog's findings are no part of.                     *)
LEMMA CalmStays ==
    ASSUME Calm, UNCHANGED <<watchVars, shadowed>>, stored \subseteq stored',
           \A r \in chain' : r.intact /\ r.event = Request,
           \A p \in Writers : session'[p].event = Request
    PROVE  Calm'
<1>1. watch'.pc = "check" => \A q \in watch'.rows : Linked(watch.rows, q)'
  BY LinkedStays DEF watchVars
<1> QED
  BY <1>1 DEF Calm, Undamaged, watchVars

LEMMA CalmStep ==
    ASSUME IInv, Calm, [Next]_vars, damages' = 0, damages = 0, ~overlapped
    PROVE  Calm'
<1> USE DEF bounds, stores, watchVars, vars
<1>1. /\ DOMAIN session = Writers
      /\ Watchdog \in Writers /\ Appenders \subseteq Writers
      /\ Idle.event = Request
      /\ \A r \in chain : r.intact /\ r.event = Request
      /\ \A p \in Writers : session[p].event = Request
      /\ todo = {} /\ known = {}
  BY DEF IInv, TypeOK, Writers, Idle, Calm, Undamaged
<1>2. ASSUME NEW p \in Appenders, Call(p) \/ FailCall(p) PROVE Calm'
  <2>1. \A q \in Writers : session'[q].event = Request
    BY <1>1, <1>2 DEF Call, Seal, FailCall
  <2> QED
    BY <1>1, <1>2, <2>1, CalmStays DEF Call, Seal, FailCall
<1>3. ASSUME NEW p \in Writers, Append(p) PROVE Calm'
  <2>1. \A q \in Writers : session'[q].event = Request
    <3>1. session \in [Writers -> [pc : {"idle", "sealed", "stored", "inserted"},
                                   event : Events, prev : Nat, hash : Nat, id : Nat]]
      BY DEF IInv, TypeOK
    <3>2. CASE PutObject(p)
      BY <1>1, <3>1, <3>2 DEF PutObject
    <3>3. CASE InsertRow(p)
      BY <1>1, <3>1, <3>3 DEF InsertRow
    <3>4. CASE Commit(p)
      BY <1>1, <3>1, <3>4 DEF Commit
    <3> QED
      BY <1>3, <3>2, <3>3, <3>4 DEF Append
  <2>2. \A r \in chain' : r.intact /\ r.event = Request
    BY <1>1, <1>3 DEF Append, PutObject, InsertRow, Commit, RowOf
  <2> QED
    BY <1>3, <2>1, <2>2, CalmStays DEF Append, PutObject, InsertRow, Commit
<1>4. CASE FetchRows
  <2>1. Breaks(chain) = {}
    BY SequentialHolds DEF SequentialVerifies, Calm
  <2>2. \A q \in chain : Linked(chain, q)
    BY <2>1 DEF Breaks, Linked
  <2>3. \A q \in watch'.rows : Linked(watch.rows, q)'
    BY <1>4, <2>2 DEF FetchRows, Linked
  <2> QED
    BY <1>1, <1>4, <2>3 DEF FetchRows, Calm, Undamaged
<1>5. CASE CheckRows
  <2>1. Breaks(watch.rows) = {}
    BY <1>5 DEF CheckRows, Calm, Undamaged, Linked, Breaks
  <2> QED
    BY <1>1, <1>5, <2>1 DEF CheckRows, Compare, Calm, Undamaged
<1>6. CASE FinishTick \/ FailTick \/ Restart
  <2>1. \A q \in Writers : session'[q].event = Request
    BY <1>1, <1>6 DEF FinishTick, FailTick, Restart
  <2> QED
    BY <1>1, <1>6, <2>1 DEF FinishTick, FailTick, Restart, Calm, Undamaged
<1>7. ~\E e \in todo : Report(e)
  BY <1>1
<1>8. ~Outside
  <2> SUFFICES ASSUME NEW r \in chain,
                      AlterRow(r, ~r.intact) \/ ShadowObject(r) \/ UncoverObject(r)
               PROVE  FALSE
    BY DEF Outside
  <2>1. r.intact /\ shadowed = {}
    BY DEF Calm, Undamaged
  <2>2. CASE AlterRow(r, ~r.intact) \/ ShadowObject(r)
    BY <2>1, <2>2 DEF AlterRow, ShadowObject, Damage
  <2> QED
    BY <2>1, <2>2 DEF UncoverObject
<1>9. ASSUME UNCHANGED vars PROVE Calm'
  BY <1>1, <1>9, CalmStays
<1> QED
  BY <1>2, <1>3, <1>4, <1>5, <1>6, <1>7, <1>8, <1>9 DEF Next, Tick

(* No finding is ever written about a log that nobody altered, as long as  *)
(* no two appends have overlapped: the fork of the chain is the only false *)
(* alarm, restarts, failing stores and rows that arrive while the watchdog *)
(* verifies are none.                                                      *)
THEOREM NoAlarmWithoutOverlap == Spec => [](~overlapped => NoFalseAlarm)
<1>1. Init => AlarmInv
  BY InitHolds DEF Init, AlarmInv, Calm, Undamaged, Writers, Idle
<1>2. AlarmInv /\ [Next]_vars => AlarmInv'
  <2> SUFFICES ASSUME AlarmInv, [Next]_vars, damages' = 0, ~overlapped'
               PROVE  Calm'
    BY StepKeeps DEF AlarmInv
  <2>1. damages = 0
    <3>1. damages \in Nat
      BY DEF AlarmInv, IInv, TypeOK
    <3>2. damages' = damages \/ damages' = damages + 1
      BY DEF Next, Call, FailCall, Append, PutObject, InsertRow, Commit, Seal,
             Tick, FetchRows, CheckRows, Report, FinishTick, FailTick, Fault, Restart,
             Outside, AlterRow, ShadowObject, UncoverObject, Damage, bounds, vars
    <3> QED
      BY <3>1, <3>2
  <2>2. ~overlapped
    BY DEF Next, Call, FailCall, Append, PutObject, InsertRow, Commit, Seal,
           Tick, FetchRows, CheckRows, Report, FinishTick, FailTick, Restart, Outside, AlterRow,
           ShadowObject, UncoverObject, vars
  <2> QED
    BY <2>1, <2>2, CalmStep DEF AlarmInv
<1>3. AlarmInv => (~overlapped => NoFalseAlarm)
  BY DEF AlarmInv, NoFalseAlarm, Calm, Request
<1> QED
  BY <1>1, <1>2, <1>3, PTL DEF Spec

-----------------------------------------------------------------------------
(* Refinement.                                                             *)

Entries(rows) == {[prev |-> r.prev, hash |-> r.hash] : r \in rows}

LEMMA CommitExtends ==
    ASSUME IInv, NEW p \in Writers, Commit(p)
    PROVE  Trail!Extend
<1> DEFINE new == RowOf(session[p])
           e == [prev |-> new.prev, hash |-> new.hash]
<1>1. chain' = chain \union {new} /\ UNCHANGED stored
  BY DEF Commit
<1>2. p \in Active /\ session[p].pc = "inserted"
      /\ new.prev = session[p].prev /\ new.hash = session[p].hash
  BY DEF Commit, Active, RowOf
<1>3. Entries(chain') = Entries(chain) \union {e}
  BY <1>1 DEF Entries
<1>4. {x.hash : x \in Entries(chain)} = Hashes(chain)
  <2>1. \A x \in Entries(chain) : x.hash \in Hashes(chain)
    BY DEF Entries, Hashes
  <2>2. ASSUME NEW r \in chain PROVE r.hash \in {x.hash : x \in Entries(chain)}
    <3>1. [prev |-> r.prev, hash |-> r.hash] \in Entries(chain)
      BY DEF Entries
    <3> QED
      BY <3>1
  <2> QED
    BY <2>1, <2>2 DEF Hashes
<1>5. /\ e.prev = Genesis \/ e.prev \in Hashes(chain)
      /\ e.hash \in stored
      /\ e.hash \notin Hashes(chain)
  BY <1>2 DEF IInv, Grounded, Distinct
<1> QED
  BY <1>1, <1>3, <1>4, <1>5 DEF Trail!Extend, Trail!Digests, Trail!Genesis, Entries, Genesis

(* custodian-audit-log implements the append-only tree of entries: no      *)
(* interleaving of appends, failure, restart or alteration in the database *)
(* removes or relinks an entry or commits one whose object was not put.    *)
THEOREM LogImplementsTrail == Spec => ImplementsTrail
<1>1. Init => Trail!Init
  BY DEF Init, Trail!Init
<1>2. ASSUME IInv, [Next]_vars
      PROVE  [Trail!Next]_<<stored, Entries(chain)>>
  <2> USE DEF bounds, stores, watchVars, vars
  <2>1. ASSUME NEW p \in Writers, PutObject(p) PROVE [Trail!Next]_<<stored, Entries(chain)>>
    BY <2>1 DEF PutObject, Trail!Next, Trail!Put, Entries
  <2>2. ASSUME NEW p \in Writers, Commit(p) PROVE [Trail!Next]_<<stored, Entries(chain)>>
    BY <1>2, <2>2, CommitExtends DEF Trail!Next
  <2>3. ASSUME NEW r \in chain, AlterRow(r, ~r.intact)
        PROVE  [Trail!Next]_<<stored, Entries(chain)>>
    <3>1. [r EXCEPT !.intact = ~r.intact].prev = r.prev
          /\ [r EXCEPT !.intact = ~r.intact].hash = r.hash
      BY <1>2 DEF IInv, TypeOK, Row
    <3>2. Entries(chain') = Entries(chain)
      BY <2>3, <3>1 DEF AlterRow, Entries
    <3> QED
      BY <2>3, <3>2 DEF AlterRow, Entries
  <2>4. CASE UNCHANGED <<stored, chain>>
    BY <2>4 DEF Entries
  <2>5. ASSUME NEW p \in Writers, InsertRow(p) PROVE UNCHANGED <<stored, chain>>
    BY <2>5 DEF InsertRow
  <2>6. ASSUME NEW p \in Appenders, Call(p) \/ FailCall(p) PROVE UNCHANGED <<stored, chain>>
    BY <2>6 DEF Call, FailCall
  <2>7. ASSUME Tick \/ FailTick \/ Restart PROVE UNCHANGED <<stored, chain>>
    BY <2>7 DEF Tick, FetchRows, CheckRows, Report, FinishTick, FailTick, Restart
  <2>8. ASSUME NEW r \in chain, ShadowObject(r) \/ UncoverObject(r)
        PROVE  UNCHANGED <<stored, chain>>
    BY <2>8 DEF ShadowObject, UncoverObject
  <2>9. CASE UNCHANGED vars
    BY <2>4, <2>9
  <2> QED
    BY <1>2, <2>1, <2>2, <2>3, <2>4, <2>5, <2>6, <2>7, <2>8, <2>9 DEF Next, Append, Outside
<1>3. [Trail!Next]_<<stored, Entries(chain)>> =>
      [Trail!Next]_<<stored, {[prev |-> r.prev, hash |-> r.hash] : r \in chain}>>
  BY DEF Entries
<1> QED
  BY <1>1, <1>2, <1>3, Invariance, PTL DEF Spec, ImplementsTrail, Trail!Spec
=============================================================================
