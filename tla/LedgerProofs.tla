---------------------------- MODULE LedgerProofs ----------------------------
(***************************************************************************)
(* Theorems about Ledger, for every set of workers, accounts, keys and     *)
(* requests.                                                               *)
(***************************************************************************)
EXTENDS Ledger, TLAPS, FiniteSetTheorems, SequenceTheorems

(* The amount an entry moves its account by is an integer.                 *)
LEMMA DeltaType == ASSUME NEW e \in Entry PROVE Delta(e) \in Int
  BY DEF Delta, Entry

(* Every non-empty set of naturals has a least element.                    *)
LEMMA LeastNatural ==
  ASSUME NEW T \in SUBSET Nat, T # {}
  PROVE  \E m \in T : \A k \in T : m <= k
<1> DEFINE R == {ss \in Nat \X Nat : ss[1] < ss[2]}
<1>1. IsWellFoundedOn(R, Nat)
  BY NatLessThanWellFounded DEF OpToRel
<1>2. PICK m \in T : \A k \in T : <<k, m>> \notin R
  <2> HIDE DEF R
  <2>1. QED
    BY <1>1, WFMin
<1>3. ASSUME NEW k \in T PROVE m <= k
  <2>1. k \in Nat /\ m \in Nat
    OBVIOUS
  <2>2. k < m => <<k, m>> \in R
    BY <2>1
  <2>3. QED
    BY <1>2, <2>1, <2>2
<1>4. QED
  BY <1>3

(* Of some subsets of a finite set one is a smallest.                      *)
LEMMA SmallestSubset ==
  ASSUME NEW D, IsFiniteSet(D), NEW B \in SUBSET SUBSET D, B # {}
  PROVE  \E s \in B : \A t \in B : Cardinality(s) <= Cardinality(t)
<1> DEFINE T == {Cardinality(s) : s \in B}
<1>1. T \in SUBSET Nat /\ T # {}
  BY FS_Subset, FS_CardinalityType
<1> HIDE DEF T
<1>2. PICK m \in T : \A k \in T : m <= k
  BY <1>1, LeastNatural
<1>3. PICK s \in B : m = Cardinality(s)
  BY DEF T
<1>4. QED
  BY <1>2, <1>3 DEF T

(* A non-empty set of positions of a sequence has a last one.              *)
LEMMA LastPosition ==
  ASSUME NEW n \in Nat, NEW S \in SUBSET (1..n), S # {}
  PROVE  Max(S) \in S /\ \A i \in S : Max(S) >= i
<1> DEFINE T == {n - i : i \in S}
<1>1. T \subseteq Nat /\ T # {}
  <2>1. \A i \in S : n - i \in Nat
    OBVIOUS
  <2>2. PICK i \in S : TRUE
    OBVIOUS
  <2>3. n - i \in T
    OBVIOUS
  <2>4. QED
    BY <2>1, <2>3
<1>3. PICK m \in T : \A k \in T : k >= m
  <2> HIDE DEF T
  <2>1. PICK m \in T : \A k \in T : m <= k
    BY <1>1, LeastNatural
  <2>2. \A k \in T : k \in Nat /\ m \in Nat
    BY <1>1
  <2>3. QED
    BY <2>1, <2>2
<1>4. PICK i \in S : m = n - i
  OBVIOUS
<1>5. \A j \in S : i >= j
  <2> SUFFICES ASSUME NEW j \in S PROVE i >= j
    OBVIOUS
  <2>1. n - j >= n - i
    BY <1>3, <1>4
  <2>2. QED
    BY <2>1
<1>6. QED
  BY <1>5 DEF Max

-----------------------------------------------------------------------------
(* Sums over a finite set, by induction on its size.                       *)

Pick(s) == CHOOSE x \in s : TRUE

(* h is the function that SumOf defines by recursion on the subsets of D.  *)
IsSum(h, f, D) ==
    h = [s \in SUBSET D |-> IF s = {} THEN 0 ELSE f[Pick(s)] + h[s \ {Pick(s)}]]

UpTo(D, n) == {s \in SUBSET D : Cardinality(s) <= n}

(* The same function on the subsets of at most n elements.                 *)
IsPartialSum(h, f, D, n) ==
    h = [s \in UpTo(D, n) |-> IF s = {} THEN 0 ELSE f[Pick(s)] + h[s \ {Pick(s)}]]

LEMMA SubsetSizes ==
  ASSUME NEW D, IsFiniteSet(D), NEW s \in SUBSET D
  PROVE  /\ IsFiniteSet(s) /\ Cardinality(s) \in Nat
         /\ Cardinality(s) = 0 <=> s = {}
         /\ s # {} => Pick(s) \in s
         /\ \A x \in s : Cardinality(s \ {x}) = Cardinality(s) - 1
<1>1. IsFiniteSet(s) /\ Cardinality(s) \in Nat
  BY FS_Subset, FS_CardinalityType
<1>2. s # {} => Pick(s) \in s
  BY DEF Pick
<1>3. \A x \in s : Cardinality(s \ {x}) = Cardinality(s) - 1
  BY <1>1, FS_RemoveElement
<1>4. QED
  BY <1>1, <1>2, <1>3, FS_EmptySet

LEMMA PartialSumExists ==
  ASSUME NEW D, IsFiniteSet(D), NEW f, NEW n \in Nat
  PROVE  \E h : IsPartialSum(h, f, D, n)
<1> DEFINE Bad == {m \in Nat : ~ \E h : IsPartialSum(h, f, D, m)}
<1> SUFFICES ASSUME Bad # {} PROVE FALSE
  OBVIOUS
<1>1. PICK m \in Bad : \A k \in Bad : m <= k
  BY LeastNatural
<1>2. m \in Nat /\ ~ \E h : IsPartialSum(h, f, D, m)
  OBVIOUS
<1>3. CASE m = 0
  <2> DEFINE h == [s \in UpTo(D, 0) |-> 0]
  <2>1. \A s \in UpTo(D, 0) : s = {}
    BY SubsetSizes DEF UpTo
  <2>2. h = [s \in UpTo(D, 0) |-> IF s = {} THEN 0 ELSE f[Pick(s)] + h[s \ {Pick(s)}]]
    BY <2>1
  <2>3. QED
    BY <1>2, <1>3, <2>2 DEF IsPartialSum
<1>4. CASE m > 0
  <2>1. m - 1 \in Nat /\ m - 1 \notin Bad
    BY <1>1, <1>2, <1>4
  <2>2. PICK g : IsPartialSum(g, f, D, m - 1)
    BY <2>1
  <2> DEFINE h == [s \in UpTo(D, m) |->
                     IF s = {} THEN 0 ELSE f[Pick(s)] + g[s \ {Pick(s)}]]
  <2>3. ASSUME NEW s \in UpTo(D, m), s # {}
        PROVE  s \ {Pick(s)} \in UpTo(D, m - 1)
    <3>1. /\ Cardinality(s) \in Nat /\ Cardinality(s) <= m
          /\ Cardinality(s \ {Pick(s)}) = Cardinality(s) - 1
          /\ s \ {Pick(s)} \in SUBSET D
      BY <2>3, SubsetSizes DEF UpTo
    <3>2. QED
      BY <1>2, <3>1 DEF UpTo
  <2>4. ASSUME NEW t \in UpTo(D, m - 1)
        PROVE  h[t] = g[t]
    <3>1. t \in UpTo(D, m)
      <4>1. Cardinality(t) \in Nat /\ Cardinality(t) <= m - 1
        BY SubsetSizes DEF UpTo
      <4>2. QED
        BY <1>2, <4>1 DEF UpTo
    <3>2. QED
      BY <2>2, <3>1 DEF IsPartialSum
  <2>5. h = [s \in UpTo(D, m) |-> IF s = {} THEN 0 ELSE f[Pick(s)] + h[s \ {Pick(s)}]]
    <3> HIDE DEF h
    <3>1. \A s \in UpTo(D, m) : s # {} => g[s \ {Pick(s)}] = h[s \ {Pick(s)}]
      BY <2>3, <2>4
    <3>2. QED
      BY <3>1 DEF h
  <2> HIDE DEF h
  <2>6. QED
    BY <1>2, <2>5 DEF IsPartialSum
<1>5. QED
  BY <1>2, <1>3, <1>4

(* The recursion defines a function, and SumOf is its value.               *)
LEMMA SumIsSum ==
  ASSUME NEW f, IsFiniteSet(DOMAIN f)
  PROVE  \E h : IsSum(h, f, DOMAIN f) /\ SumOf(f) = h[DOMAIN f]
<1> DEFINE D == DOMAIN f
<1>1. \E h : IsSum(h, f, D)
  <2>1. Cardinality(D) \in Nat /\ UpTo(D, Cardinality(D)) = SUBSET D
    BY FS_CardinalityType, FS_Subset DEF UpTo
  <2>2. PICK h : IsPartialSum(h, f, D, Cardinality(D))
    BY <2>1, PartialSumExists
  <2>3. IsSum(h, f, D)
    BY <2>1, <2>2 DEF IsSum, IsPartialSum
  <2>4. QED
    BY <2>3
<1>2. SumOf(f) = (CHOOSE h : IsSum(h, f, D))[D]
  BY Zenon DEF SumOf, MapThenSumSet, MapThenFoldSet, IsSum, Pick
<1>3. QED
  BY <1>1, <1>2

(* The order in which the elements are taken does not matter.              *)
AnyOrder(h, f, D) ==
    \A s \in SUBSET D : h[s] \in Int /\ \A x \in s : h[s] = f[x] + h[s \ {x}]

LEMMA TakeAny ==
  ASSUME NEW D, IsFiniteSet(D), NEW f \in [D -> Int], NEW h, IsSum(h, f, D)
  PROVE  AnyOrder(h, f, D)
<1> DEFINE Good(t) == h[t] \in Int /\ \A x \in t : h[t] = f[x] + h[t \ {x}]
           Bad == {t \in SUBSET D : ~Good(t)}
<1> SUFFICES ASSUME Bad # {} PROVE FALSE
  BY DEF AnyOrder
<1> HIDE DEF Good
<1>1. PICK t \in Bad : \A u \in Bad : Cardinality(t) <= Cardinality(u)
  BY SmallestSubset
<1>2. t \in SUBSET D /\ ~Good(t)
  OBVIOUS
<1>3. ASSUME NEW u \in SUBSET D, Cardinality(u) < Cardinality(t) PROVE Good(u)
  <2>1. Cardinality(u) \in Nat /\ Cardinality(t) \in Nat
    BY <1>2, SubsetSizes
  <2>2. QED
    BY <1>1, <1>3, <2>1
<1>4. t # {}
  <2>1. h[{}] = 0
    BY DEF IsSum
  <2>2. Good({})
    BY <2>1 DEF Good
  <2>3. QED
    BY <1>2, <2>2
<1> DEFINE y == Pick(t)
<1>5. y \in t /\ h[t] = f[y] + h[t \ {y}]
  BY <1>2, <1>4, SubsetSizes DEF IsSum
<1> HIDE DEF y
<1>6. \A x \in t : Cardinality(t \ {x}) < Cardinality(t)
  BY <1>2, SubsetSizes
<1>7. \A x \in t : Good(t \ {x})
  BY <1>2, <1>3, <1>6
<1>8. h[t] \in Int
  <2>1. h[t \ {y}] \in Int
    BY <1>5, <1>7 DEF Good
  <2>2. f[y] \in Int
    BY <1>2, <1>5
  <2>3. QED
    BY <1>5, <2>1, <2>2
<1>9. ASSUME NEW x \in t, x # y PROVE h[t] = f[x] + h[t \ {x}]
  <2> DEFINE rest == (t \ {y}) \ {x}
  <2>1. x \in t \ {y} /\ y \in t \ {x} /\ (t \ {x}) \ {y} = rest
    BY <1>5, <1>9
  <2>2. h[t \ {y}] = f[x] + h[rest]
    BY <1>5, <1>7, <2>1 DEF Good
  <2>3. h[t \ {x}] = f[y] + h[rest]
    BY <1>7, <2>1 DEF Good
  <2>4. h[rest] \in Int
    <3>1. Cardinality(rest) < Cardinality(t)
      <4>1. t \ {y} \in SUBSET D
        BY <1>2
      <4>2. /\ Cardinality(rest) = Cardinality(t \ {y}) - 1
            /\ Cardinality(t \ {y}) = Cardinality(t) - 1
            /\ Cardinality(t) \in Nat
        BY <1>2, <1>5, <2>1, <4>1, SubsetSizes
      <4>3. QED
        BY <4>2
    <3>2. QED
      BY <1>2, <1>3, <3>1 DEF Good
  <2>5. f[x] \in Int /\ f[y] \in Int
    BY <1>2, <1>5
  <2> HIDE DEF rest, Bad
  <2>6. QED
    BY <1>5, <2>2, <2>3, <2>4, <2>5
<1>10. Good(t)
  BY <1>5, <1>8, <1>9 DEF Good
<1>11. QED
  BY <1>2, <1>10

(* A sum depends on the values it adds up alone.                           *)
Agree(f, g, D) == \A x \in D : f[x] = g[x]

LEMMA SumsAgree ==
  ASSUME NEW D, IsFiniteSet(D), NEW E, D \subseteq E,
         NEW f, NEW g, Agree(f, g, D),
         NEW h, IsSum(h, f, D), NEW k, IsSum(k, g, E)
  PROVE  Agree(h, k, SUBSET D)
<1> DEFINE Bad == {t \in SUBSET D : h[t] # k[t]}
<1> SUFFICES ASSUME Bad # {} PROVE FALSE
  BY DEF Agree
<1>1. PICK t \in Bad : \A u \in Bad : Cardinality(t) <= Cardinality(u)
  BY SmallestSubset
<1>2. t \in SUBSET D /\ t \in SUBSET E /\ h[t] # k[t]
  OBVIOUS
<1>3. t # {}
  BY <1>2 DEF IsSum
<1>4. /\ Pick(t) \in t
      /\ Cardinality(t \ {Pick(t)}) = Cardinality(t) - 1 /\ Cardinality(t) \in Nat
  BY <1>2, <1>3, SubsetSizes
<1>5. h[t \ {Pick(t)}] = k[t \ {Pick(t)}]
  <2>1. t \ {Pick(t)} \in SUBSET D
    BY <1>2
  <2>2. ~(Cardinality(t) <= Cardinality(t \ {Pick(t)}))
    BY <1>4
  <2>3. QED
    BY <1>1, <2>1, <2>2
<1>6. h[t] = f[Pick(t)] + h[t \ {Pick(t)}] /\ k[t] = g[Pick(t)] + k[t \ {Pick(t)}]
  BY <1>2, <1>3 DEF IsSum
<1>7. f[Pick(t)] = g[Pick(t)]
  BY <1>2, <1>4 DEF Agree
<1>8. QED
  BY <1>2, <1>5, <1>6, <1>7

(* What a reader expects of a sum: it is an integer, nothing adds up to 0, *)
(* and one more value adds itself.                                         *)
LEMMA SumOfNothing ==
  ASSUME NEW f, DOMAIN f = {}
  PROVE  SumOf(f) = 0
<1>1. PICK h : IsSum(h, f, DOMAIN f) /\ SumOf(f) = h[DOMAIN f]
  BY SumIsSum, FS_EmptySet
<1>2. QED
  BY <1>1 DEF IsSum

LEMMA SumComputed ==
  ASSUME NEW E, IsFiniteSet(E), NEW g \in [E -> Int]
  PROVE  \E k : IsSum(k, g, E) /\ AnyOrder(k, g, E) /\ SumOf(g) = k[E]
<1>1. DOMAIN g = E
  OBVIOUS
<1>2. PICK k : IsSum(k, g, E) /\ SumOf(g) = k[E]
  BY <1>1, SumIsSum
<1>3. AnyOrder(k, g, E)
  BY <1>2, TakeAny
<1>4. QED
  BY <1>2, <1>3

LEMMA SumOfOneMore ==
  ASSUME NEW D, IsFiniteSet(D), NEW x, x \notin D,
         NEW f \in [D -> Int], NEW g \in [D \union {x} -> Int], Agree(f, g, D)
  PROVE  /\ SumOf(f) \in Int
         /\ SumOf(g) = SumOf(f) + g[x]
<1> DEFINE E == D \union {x}
<1>1. IsFiniteSet(E) /\ x \in E /\ E \ {x} = D /\ g[x] \in Int
  BY FS_AddElement
<1>2. PICK h : IsSum(h, f, D) /\ AnyOrder(h, f, D) /\ SumOf(f) = h[D]
  BY SumComputed
<1>3. PICK k : IsSum(k, g, E) /\ AnyOrder(k, g, E) /\ SumOf(g) = k[E]
  BY <1>1, SumComputed
<1>4. Agree(h, k, SUBSET D)
  <2>1. D \subseteq E
    OBVIOUS
  <2> HIDE DEF E
  <2>2. QED
    BY <1>2, <1>3, <2>1, SumsAgree
<1> HIDE DEF E
<1>5. h[D] = k[D] /\ h[D] \in Int
  BY <1>2, <1>4 DEF Agree, AnyOrder
<1>6. k[E] = g[x] + k[D]
  BY <1>1, <1>3 DEF AnyOrder
<1>7. QED
  BY <1>1, <1>2, <1>3, <1>5, <1>6

LEMMA SumOfOne ==
  ASSUME NEW x, NEW g \in [{x} -> Int]
  PROVE  SumOf(g) = g[x]
<1> DEFINE f == [y \in {} |-> 0]
<1>1. f \in [{} -> Int] /\ SumOf(f) = 0
  BY SumOfNothing
<1> DEFINE D == {}
<1>2. g \in [D \union {x} -> Int] /\ g[x] \in Int /\ x \notin D /\ IsFiniteSet(D)
  BY FS_EmptySet
<1>3. f \in [D -> Int] /\ Agree(f, g, D)
  BY DEF Agree
<1> HIDE DEF f, D
<1>4. SumOf(g) = SumOf(f) + g[x]
  BY <1>2, <1>3, SumOfOneMore
<1>5. QED
  BY <1>1, <1>2, <1>4

-----------------------------------------------------------------------------

IInv == TypeOK /\ SessionInv /\ AtMostOncePerKey /\ NoOverdraft

(* What is written back at commit is, for an account of the request, one   *)
(* of the balances the session computed under that account's lock.         *)
LEMMA WrittenUnderLock ==
  ASSUME TypeOK, SessionInv, NEW w \in Workers, pc[w] = "commit",
         NEW a \in Accounts, EntriesOf(req[w], a) # {}
  PROVE  /\ lockedBy[a] = w
         /\ WrittenBalance(w, a) \in Int
         /\ CanCover(a, WrittenBalance(w, a))
         /\ \E i \in EntriesOf(req[w], a) :
                WrittenBalance(w, a) = balance[a] + Delta(req[w].entries[i])
<1> DEFINE S == EntriesOf(req[w], a)
<1>1. /\ req[w] \in Request
      /\ req[w].entries \in Seq(Entry)
      /\ results[w] \in Seq(Int)
  BY LedgerAssumption DEF TypeOK, Request
<1>2. S \subseteq 1..Len(req[w].entries)
  BY <1>1 DEF EntriesOf
<1>3. Max(S) \in S
  <2>1. Len(req[w].entries) \in Nat /\ S # {}
    BY <1>1
  <2> HIDE DEF S
  <2>2. QED
    BY <1>2, <2>1, LastPosition
<1>4. Len(results[w]) = Len(req[w].entries)
  BY DEF SessionInv, ReadyToCommit
<1>5. Max(S) \in DOMAIN results[w]
  BY <1>1, <1>2, <1>3, <1>4
<1>6. req[w].entries[Max(S)].account = a
  BY <1>3 DEF EntriesOf
<1>7. WrittenBalance(w, a) = results[w][Max(S)]
  BY DEF WrittenBalance
<1>8. ResultsCurrent(w)
  BY DEF SessionInv
<1>9. /\ lockedBy[a] = w
      /\ results[w][Max(S)] = balance[a] + Delta(req[w].entries[Max(S)])
      /\ CanCover(a, results[w][Max(S)])
  BY <1>5, <1>6, <1>8 DEF ResultsCurrent
<1>10. results[w][Max(S)] \in Int
  BY <1>1, <1>5
<1>11. QED
  BY <1>3, <1>7, <1>9, <1>10

(* Leaving a handler with any answer keeps the invariant: the session      *)
(* gives up its locks and its results together.                            *)
LEMMA FailKeeps ==
  ASSUME IInv, NEW w \in Workers, NEW r \in Replies, Fail(w, r)
  PROVE  IInv'
<1>1. TypeOK'
  <2>1. LocksHeld'
    <3> SUFFICES ASSUME NEW a \in Accounts, lockedBy'[a] # NoOne
                 PROVE  pc'[lockedBy'[a]] \in {"validate", "commit"}
      BY DEF LocksHeld
    <3>1. lockedBy'[a] = lockedBy[a] /\ lockedBy[a] \in Workers \ {w}
      BY DEF IInv, TypeOK, Fail, Unlock
    <3>2. QED
      BY <3>1 DEF IInv, TypeOK, LocksHeld, Fail
  <2>2. QED
    BY <2>1 DEF IInv, TypeOK, Fail, Unlock, Phases
<1>2. SessionInv'
  <2> SUFFICES ASSUME NEW v \in Workers
               PROVE  /\ pc'[v] \notin {"validate", "commit"} => results'[v] = << >>
                      /\ Len(results'[v]) <= Len(req'[v].entries)
                      /\ ResultsCurrent(v)'
                      /\ pc'[v] = "commit" => ReadyToCommit(v)'
    BY DEF SessionInv
  <2>1. CASE v = w
    <3>1. results'[v] = << >> /\ pc'[v] = "done" /\ req'[v] \in Request
      BY <2>1, LedgerAssumption DEF IInv, TypeOK, Fail
    <3>2. Len(req'[v].entries) \in Nat
      BY <3>1 DEF Request
    <3>3. QED
      BY <3>1, <3>2 DEF ResultsCurrent
  <2>2. CASE v # w
    <3>1. /\ results'[v] = results[v]
          /\ pc'[v] = pc[v]
          /\ req' = req
          /\ balance' = balance
          /\ posted' = posted
          /\ \A a \in Accounts : lockedBy[a] = v => lockedBy'[a] = v
      BY <2>2 DEF IInv, TypeOK, Fail, Unlock
    <3>2. ResultsCurrent(v)'
      BY <3>1 DEF IInv, SessionInv, ResultsCurrent, CanCover
    <3>3. pc[v] = "commit" => ReadyToCommit(v)'
      <4> SUFFICES ASSUME pc[v] = "commit" PROVE ReadyToCommit(v)'
        OBVIOUS
      <4>1. ReadyToCommit(v)
        BY DEF IInv, SessionInv
      <4>2. ~KeyPending(v)'
        BY <3>1, <4>1 DEF ReadyToCommit, KeyPending, Fail, IInv, TypeOK
      <4>3. QED
        BY <3>1, <4>1, <4>2 DEF ReadyToCommit, KeyPosted
    <3>4. QED
      BY <3>1, <3>2, <3>3 DEF IInv, SessionInv
  <2>3. QED
    BY <2>1, <2>2
<1>3. AtMostOncePerKey' /\ NoOverdraft'
  BY DEF IInv, AtMostOncePerKey, NoOverdraft, Fail
<1>4. QED
  BY <1>1, <1>2, <1>3 DEF IInv

(* The goal of the next lemmas: every worker's session is in order after   *)
(* the step.                                                               *)
SessionOK(v) ==
    /\ pc[v] \notin {"validate", "commit"} => results[v] = << >>
    /\ Len(results[v]) <= Len(req[v].entries)
    /\ ResultsCurrent(v)
    /\ pc[v] = "commit" => ReadyToCommit(v)

LEMMA EntriesLength ==
  ASSUME TypeOK, NEW w \in Workers
  PROVE  /\ req[w].entries \in Seq(Entry)
         /\ Len(req[w].entries) \in Nat
         /\ results[w] \in Seq(Int)
  BY LedgerAssumption DEF TypeOK, Request

(* A request reaches an idle thread, or a thread becomes idle: no session  *)
(* is open in that thread, and the others do not notice.                   *)
LEMMA IdleKeeps ==
  ASSUME IInv, NEW w \in Workers, NEW r \in Requests, NEW phase \in Phases,
         pc[w] \notin {"validate", "commit"}, phase # "commit",
         req' = [req EXCEPT ![w] = r],
         pc' = [pc EXCEPT ![w] = phase],
         reply' \in [Workers -> Replies],
         UNCHANGED <<balance, posted, lockedBy, results>>
  PROVE  IInv'
<1>1. TypeOK'
  <2>1. LocksHeld'
    BY DEF IInv, TypeOK, LocksHeld
  <2>2. QED
    BY <2>1 DEF IInv, TypeOK
<1>2. ASSUME NEW v \in Workers PROVE SessionOK(v)'
  <2>0. SessionOK(v)
    BY DEF IInv, SessionInv, SessionOK
  <2>1. CASE v = w
    <3>1. results'[v] = << >> /\ pc'[v] = phase /\ req'[v] = r
      BY <2>1, <2>0 DEF IInv, TypeOK, SessionOK
    <3>2. Len(req'[v].entries) \in Nat
      BY <1>1, LedgerAssumption DEF TypeOK, Request
    <3>3. QED
      BY <3>1, <3>2 DEF SessionOK, ResultsCurrent
  <2>2. CASE v # w
    <3>1. pc'[v] = pc[v] /\ req'[v] = req[v]
      BY <2>2 DEF IInv, TypeOK
    <3>2. ~KeyPending(v) => ~KeyPending(v)'
      BY <3>1 DEF KeyPending, IInv, TypeOK
    <3>3. QED
      BY <2>0, <3>1, <3>2
         DEF SessionOK, ResultsCurrent, CanCover, ReadyToCommit, KeyPosted
  <2>3. QED
    BY <2>1, <2>2
<1>3. AtMostOncePerKey' /\ NoOverdraft'
  BY DEF IInv, AtMostOncePerKey, NoOverdraft
<1>4. QED
  BY <1>1, <1>2, <1>3 DEF IInv, SessionInv, SessionOK

LEMMA CheckKeeps ==
  ASSUME IInv, NEW w \in Workers, CheckExisting(w)
  PROVE  IInv'
<1>1. TypeOK'
  <2>1. LocksHeld'
    BY DEF IInv, TypeOK, LocksHeld, CheckExisting
  <2>2. QED
    BY <2>1 DEF IInv, TypeOK, CheckExisting, Phases
<1>2. ASSUME NEW v \in Workers PROVE SessionOK(v)'
  <2>1. SessionOK(v)
    BY DEF IInv, SessionInv, SessionOK
  <2>2. ~KeyPending(v) => ~KeyPending(v)'
    BY DEF KeyPending, CheckExisting, IInv, TypeOK
  <2>3. pc'[v] = "commit" => pc[v] = "commit"
    BY DEF CheckExisting, IInv, TypeOK
  <2>4. pc[v] # pc'[v] => pc'[v] = "validate"
    BY DEF CheckExisting, IInv, TypeOK
  <2>5. QED
    BY <2>1, <2>2, <2>3, <2>4
       DEF SessionOK, CheckExisting, ResultsCurrent, CanCover, ReadyToCommit, KeyPosted
<1>3. AtMostOncePerKey' /\ NoOverdraft'
  BY DEF IInv, AtMostOncePerKey, NoOverdraft, CheckExisting
<1>4. QED
  BY <1>1, <1>2, <1>3 DEF IInv, SessionInv, SessionOK

(* A row lock granted adds one balance, computed from the committed one.   *)
LEMMA LockKeeps ==
  ASSUME IInv, NEW w \in Workers, LockAccount(w)
  PROVE  IInv'
<1> DEFINE e == NextEntry(w)
           n == Len(results[w]) + 1
<1>1. /\ e = req[w].entries[n]
      /\ n \in 1..Len(req[w].entries)
      /\ e \in Entry
      /\ e.account \in Accounts
      /\ NewBalance(w) \in Int
  <2>1. n \in 1..Len(req[w].entries)
    BY EntriesLength DEF LockAccount, MoreEntries, IInv
  <2>2. e = req[w].entries[n] /\ e \in Entry
    BY <2>1, EntriesLength DEF NextEntry, IInv
  <2>3. e.account \in Accounts
    BY DEF LockAccount
  <2>4. balance[e.account] \in Int
    BY <2>3 DEF IInv, TypeOK
  <2>5. NewBalance(w) \in Int
    BY <2>2, <2>4, DeltaType DEF NewBalance
  <2>6. QED
    BY <2>1, <2>2, <2>3, <2>5
<1>2. TypeOK'
  <2>1. lockedBy' \in [Accounts -> Workers \union {NoOne}]
    BY DEF IInv, TypeOK, LockAccount
  <2>2. results' \in [Workers -> Seq(Int)]
    BY <1>1 DEF IInv, TypeOK, LockAccount
  <2>3. LocksHeld'
    BY DEF IInv, TypeOK, LocksHeld, LockAccount
  <2>4. QED
    BY <2>1, <2>2, <2>3 DEF IInv, TypeOK, LockAccount
<1>3. ASSUME NEW v \in Workers PROVE SessionOK(v)'
  <2>0. SessionOK(v) /\ req' = req /\ pc' = pc /\ balance' = balance /\ posted' = posted
    BY DEF IInv, SessionInv, SessionOK, LockAccount
  <2>1. \A a \in Accounts : lockedBy[a] = v => lockedBy'[a] = v
    BY WorkerAssumption DEF LockAccount, LockFree, IInv, TypeOK
  <2>2. CASE v = w
    <3>1. /\ results'[w] = Append(results[w], NewBalance(w))
          /\ lockedBy'[e.account] = w
          /\ pc[w] = "validate"
          /\ CanCover(e.account, NewBalance(w))
      BY <1>1 DEF LockAccount, IInv, TypeOK
    <3>2. Len(results'[w]) = n
      BY <3>1, EntriesLength DEF IInv
    <3>3. ResultsCurrent(w)'
      <4> SUFFICES ASSUME NEW i \in DOMAIN results'[w]
                   PROVE  LET x == req[w].entries[i]
                          IN  /\ x.account \in Accounts
                              /\ lockedBy'[x.account] = w
                              /\ results'[w][i] = balance[x.account] + Delta(x)
                              /\ CanCover(x.account, results'[w][i])
        BY <2>0 DEF ResultsCurrent, CanCover
      <4>1. i \in 1..n
        BY <1>2, <3>2 DEF TypeOK
      <4>2. CASE i = n
        <5>1. results'[w][n] = NewBalance(w)
          BY <3>1, <1>1, EntriesLength DEF IInv
        <5>2. NewBalance(w) = balance[e.account] + Delta(e)
          BY DEF NewBalance
        <5> HIDE DEF e, n
        <5>3. QED
          BY <4>2, <1>1, <3>1, <5>1, <5>2
      <4>3. CASE i # n
        <5>1. i \in DOMAIN results[w] /\ results'[w][i] = results[w][i]
          BY <4>1, <4>3, <3>1, EntriesLength DEF IInv
        <5>2. QED
          BY <5>1, <2>0, <2>1, <2>2 DEF SessionOK, ResultsCurrent
      <4>4. QED
        BY <4>2, <4>3
    <3>4. Len(results'[v]) <= Len(req'[v].entries)
      BY <1>1, <2>0, <2>2, <3>2
    <3>5. QED
      BY <2>0, <2>2, <3>1, <3>3, <3>4 DEF SessionOK
  <2>3. CASE v # w
    <3>1. results'[v] = results[v]
      BY <2>3 DEF LockAccount, IInv, TypeOK
    <3>2. ResultsCurrent(v)'
      BY <2>0, <2>1, <3>1 DEF SessionOK, ResultsCurrent, CanCover
    <3>3. ReadyToCommit(v) => ReadyToCommit(v)'
      BY <2>0, <3>1 DEF ReadyToCommit, KeyPosted, KeyPending
    <3>4. QED
      BY <2>0, <3>1, <3>2, <3>3 DEF SessionOK
  <2>4. QED
    BY <2>2, <2>3
<1>4. AtMostOncePerKey' /\ NoOverdraft'
  BY DEF IInv, AtMostOncePerKey, NoOverdraft, LockAccount
<1>5. QED
  BY <1>2, <1>3, <1>4 DEF IInv, SessionInv, SessionOK

(* Flushing the new row leaves the session alone with an unposted key.     *)
LEMMA InsertKeeps ==
  ASSUME IInv, NEW w \in Workers, InsertTransaction(w)
  PROVE  IInv'
<1>1. TypeOK'
  <2>1. LocksHeld'
    BY DEF IInv, TypeOK, LocksHeld, InsertTransaction
  <2>2. QED
    BY <2>1 DEF IInv, TypeOK, InsertTransaction, Phases
<1>2. ASSUME NEW v \in Workers PROVE SessionOK(v)'
  <2>0. SessionOK(v) /\ UNCHANGED <<balance, posted, lockedBy, req, results>>
    BY DEF IInv, SessionInv, SessionOK, InsertTransaction
  <2>1. ResultsCurrent(v)'
    BY <2>0 DEF SessionOK, ResultsCurrent, CanCover
  <2>2. CASE v = w
    <3>1. Len(results[w]) = Len(req[w].entries)
      BY <2>0, <2>2, EntriesLength
         DEF IInv, SessionOK, InsertTransaction, Validated, MoreEntries
    <3>2. ~KeyPending(w)'
      BY <2>0 DEF InsertTransaction, KeyPending, IInv, TypeOK
    <3>3. ReadyToCommit(w)'
      BY <2>0, <3>1, <3>2 DEF ReadyToCommit, InsertTransaction, Validated, KeyPosted
    <3>4. pc'[w] = "commit"
      BY DEF InsertTransaction, IInv, TypeOK
    <3>5. QED
      BY <2>0, <2>1, <2>2, <3>3, <3>4 DEF SessionOK
  <2>3. CASE v # w
    <3>1. pc'[v] = pc[v]
      BY <2>3 DEF InsertTransaction, IInv, TypeOK
    <3>2. ASSUME pc[v] = "commit" PROVE ReadyToCommit(v)'
      <4>1. req[v].key # req[w].key
        BY <2>3, <3>2 DEF InsertTransaction, KeyPending
      <4>2. ~KeyPending(v)'
        BY <2>0, <3>2, <4>1 DEF SessionOK, ReadyToCommit, KeyPending, InsertTransaction, IInv, TypeOK
      <4>3. QED
        BY <2>0, <3>2, <4>2 DEF SessionOK, ReadyToCommit, KeyPosted
    <3>3. QED
      BY <2>0, <2>1, <3>1, <3>2 DEF SessionOK
  <2>4. QED
    BY <2>2, <2>3
<1>3. AtMostOncePerKey' /\ NoOverdraft'
  BY DEF IInv, AtMostOncePerKey, NoOverdraft, InsertTransaction
<1>4. QED
  BY <1>1, <1>2, <1>3 DEF IInv, SessionInv, SessionOK

(* Commit writes only balances of rows it locked, so no other session's    *)
(* results go stale, and appends a key no row has.                         *)
LEMMA CommitKeeps ==
  ASSUME IInv, NEW w \in Workers, Commit(w)
  PROVE  IInv'
<1>0. /\ TypeOK /\ SessionInv /\ pc[w] = "commit" /\ ReadyToCommit(w)
      /\ posted \in Seq(Requests) /\ req[w] \in Requests
  BY DEF IInv, SessionInv, Commit, TypeOK
<1>1. \A a \in Accounts : balance'[a] = WrittenBalance(w, a)
  BY DEF Commit
<1>2. \A a \in Accounts : /\ WrittenBalance(w, a) \in Int
                          /\ lockedBy[a] # w => WrittenBalance(w, a) = balance[a]
                          /\ AllowNegative[a] \/ WrittenBalance(w, a) >= 0
  <2> SUFFICES ASSUME NEW a \in Accounts
               PROVE  /\ WrittenBalance(w, a) \in Int
                      /\ lockedBy[a] # w => WrittenBalance(w, a) = balance[a]
                      /\ AllowNegative[a] \/ WrittenBalance(w, a) >= 0
    OBVIOUS
  <2>1. CASE EntriesOf(req[w], a) = {}
    <3>1. WrittenBalance(w, a) = balance[a]
      BY <2>1 DEF WrittenBalance
    <3>2. QED
      BY <3>1 DEF IInv, TypeOK, NoOverdraft
  <2>2. CASE EntriesOf(req[w], a) # {}
    BY <1>0, <2>2, WrittenUnderLock DEF CanCover
  <2>3. QED
    BY <2>1, <2>2
<1>3. TypeOK'
  <2>1. balance' \in [Accounts -> Int]
    BY <1>1, <1>2 DEF Commit
  <2>2. posted' \in Seq(Requests)
    BY <1>0 DEF Commit
  <2>3. LocksHeld'
    BY DEF IInv, TypeOK, LocksHeld, Commit, Unlock
  <2>4. QED
    BY <2>1, <2>2, <2>3 DEF IInv, TypeOK, Commit, Unlock, Phases
<1>4. \A k : KeyPosted(k)' <=> KeyPosted(k) \/ k = req[w].key
  <2>1. /\ Len(posted') = Len(posted) + 1
        /\ DOMAIN posted' = 1..(Len(posted) + 1)
        /\ \A i \in 1..Len(posted) : posted'[i] = posted[i]
        /\ posted'[Len(posted) + 1] = req[w]
    BY <1>0 DEF Commit
  <2>2. DOMAIN posted = 1..Len(posted) /\ Len(posted) \in Nat
    BY <1>0
  <2>3. QED
    BY <2>1, <2>2 DEF KeyPosted
<1>5. ASSUME NEW v \in Workers PROVE SessionOK(v)'
  <2>0. SessionOK(v) /\ req' = req
    BY DEF IInv, SessionInv, SessionOK, Commit
  <2>1. CASE v = w
    <3>1. pc'[v] = "answer" /\ results'[v] = << >>
      BY <2>1 DEF Commit, IInv, TypeOK
    <3>2. Len(req'[v].entries) \in Nat
      BY <1>0, <2>0, EntriesLength
    <3>3. QED
      BY <3>1, <3>2 DEF SessionOK, ResultsCurrent
  <2>2. CASE v # w
    <3>1. pc'[v] = pc[v] /\ results'[v] = results[v]
      BY <2>2 DEF Commit, IInv, TypeOK
    <3>2. \A a \in Accounts : lockedBy[a] = v => lockedBy'[a] = v /\ balance'[a] = balance[a]
      BY <1>1, <1>2, <2>2 DEF Commit, Unlock
    <3>3. ResultsCurrent(v)'
      BY <2>0, <3>1, <3>2 DEF SessionOK, ResultsCurrent, CanCover
    <3>4. ASSUME pc[v] = "commit" PROVE ReadyToCommit(v)'
      <4>1. req[v].key # req[w].key
        BY <1>0, <2>2, <3>4 DEF ReadyToCommit, KeyPending
      <4>2. ~KeyPosted(req[v].key)'
        BY <1>4, <2>0, <3>4, <4>1 DEF SessionOK, ReadyToCommit
      <4>3. ~KeyPending(v)'
        BY <2>0, <3>4 DEF SessionOK, ReadyToCommit, KeyPending, Commit, IInv, TypeOK
      <4>4. QED
        BY <2>0, <3>1, <3>4, <4>2, <4>3 DEF SessionOK, ReadyToCommit, KeyPosted
    <3>5. QED
      BY <2>0, <3>1, <3>3, <3>4 DEF SessionOK
  <2>3. QED
    BY <2>1, <2>2
<1>6. AtMostOncePerKey'
  <2>1. \A i \in DOMAIN posted : posted[i].key # req[w].key
    BY <1>0 DEF ReadyToCommit, KeyPosted
  <2>2. /\ DOMAIN posted' = 1..(Len(posted) + 1)
        /\ DOMAIN posted = 1..Len(posted)
        /\ Len(posted) \in Nat
        /\ \A i \in 1..Len(posted) : posted'[i] = posted[i]
        /\ posted'[Len(posted) + 1] = req[w]
    BY <1>0 DEF Commit
  <2>3. QED
    BY <2>1, <2>2 DEF AtMostOncePerKey, IInv
<1>7. NoOverdraft'
  BY <1>1, <1>2 DEF NoOverdraft
<1>8. QED
  BY <1>3, <1>5, <1>6, <1>7 DEF IInv, SessionInv, SessionOK

LEMMA RestartKeeps ==
  ASSUME IInv, Restart
  PROVE  IInv'
<1>1. TypeOK'
  <2>1. LocksHeld'
    BY DEF LocksHeld, Restart
  <2>2. QED
    BY <2>1 DEF IInv, TypeOK, Restart, Phases, Replies
<1>2. ASSUME NEW v \in Workers PROVE SessionOK(v)'
  <2>1. results'[v] = << >> /\ pc'[v] \in {"idle", "done"} /\ req' = req
    BY <1>2 DEF Restart
  <2>2. Len(req[v].entries) \in Nat
    BY <1>2, EntriesLength DEF IInv
  <2>3. QED
    BY <2>1, <2>2 DEF SessionOK, ResultsCurrent
<1>3. AtMostOncePerKey' /\ NoOverdraft'
  BY DEF IInv, AtMostOncePerKey, NoOverdraft, Restart
<1>4. QED
  BY <1>1, <1>2, <1>3 DEF IInv, SessionInv, SessionOK

LEMMA InitIInv == Init => IInv
<1> SUFFICES ASSUME Init PROVE IInv
  OBVIOUS
<1>1. NoRequest \in Requests
  BY WorkerAssumption DEF NoRequest
<1>2. TypeOK
  BY <1>1, LedgerAssumption DEF Init, TypeOK, LocksHeld, Phases, Replies
<1>3. SessionInv
  <2>1. \A w \in Workers : Len(req[w].entries) \in Nat
    BY <1>2, EntriesLength
  <2>2. QED
    BY <2>1 DEF Init, SessionInv, ResultsCurrent
<1>4. AtMostOncePerKey /\ NoOverdraft
  BY LedgerAssumption DEF Init, AtMostOncePerKey, NoOverdraft
<1>5. QED
  BY <1>2, <1>3, <1>4 DEF IInv

LEMMA StepIInv == IInv /\ [Next]_vars => IInv'
<1> SUFFICES ASSUME IInv, [Next]_vars PROVE IInv'
  OBVIOUS
<1> USE DEF Replies
<1>1. ASSUME NEW w \in Workers, NEW r \in Requests, Receive(w, r) PROVE IInv'
  <2>1. PICK phase \in {"check", "validate"} : pc' = [pc EXCEPT ![w] = phase]
    BY <1>1 DEF Receive
  <2>2. QED
    BY <1>1, <2>1, IdleKeeps DEF Receive, Phases, IInv, TypeOK
<1>2. ASSUME NEW w \in Workers, CheckExisting(w) PROVE IInv'
  BY <1>2, CheckKeeps
<1>3. ASSUME NEW w \in Workers, RejectExisting(w) PROVE IInv'
  BY <1>3, FailKeeps DEF RejectExisting
<1>4. ASSUME NEW w \in Workers, RejectUnbalanced(w) PROVE IInv'
  BY <1>4, FailKeeps DEF RejectUnbalanced
<1>5. ASSUME NEW w \in Workers, RejectUnknownAccount(w) PROVE IInv'
  BY <1>5, FailKeeps DEF RejectUnknownAccount
<1>6. ASSUME NEW w \in Workers, RejectOverdraft(w) PROVE IInv'
  BY <1>6, FailKeeps DEF RejectOverdraft
<1>7. ASSUME NEW w \in Workers, AnswerDryRun(w) PROVE IInv'
  BY <1>7, FailKeeps DEF AnswerDryRun
<1>8. ASSUME NEW w \in Workers, InsertTransaction(w) PROVE IInv'
  BY <1>8, InsertKeeps
<1>9. ASSUME NEW w \in Workers, InsertConflict(w) PROVE IInv'
  BY <1>9, FailKeeps DEF InsertConflict
<1>10. ASSUME NEW w \in Workers, Commit(w) PROVE IInv'
  BY <1>10, CommitKeeps
<1>11. ASSUME NEW w \in Workers, CommitConflict(w) PROVE IInv'
  BY <1>11, FailKeeps DEF CommitConflict
<1>12. ASSUME NEW w \in Workers, AnswerCreated(w) PROVE IInv'
  BY <1>12, FailKeeps DEF AnswerCreated
<1>13. ASSUME NEW w \in Workers, Return(w) PROVE IInv'
  <2>1. NoRequest \in Requests
    BY WorkerAssumption DEF NoRequest
  <2>2. reply' \in [Workers -> Replies]
    BY <1>13 DEF Return, IInv, TypeOK
  <2>3. QED
    BY <1>13, <2>1, <2>2, IdleKeeps DEF Return, Phases
<1>14. ASSUME NEW w \in Workers, LockAccount(w) PROVE IInv'
  BY <1>14, LockKeeps
<1>15. ASSUME NEW w \in Workers, BreakDeadlock(w) PROVE IInv'
  BY <1>15, FailKeeps DEF BreakDeadlock
<1>16. CASE Restart
  BY <1>16, RestartKeeps
<1>17. CASE UNCHANGED vars
  BY <1>17 DEF IInv, TypeOK, LocksHeld, SessionInv, ResultsCurrent, ReadyToCommit, CanCover,
               KeyPosted, KeyPending, AtMostOncePerKey, NoOverdraft, vars
<1>18. QED
  BY <1>1, <1>2, <1>3, <1>4, <1>5, <1>6, <1>7, <1>8, <1>9, <1>10, <1>11, <1>12,
     <1>13, <1>14, <1>15, <1>16, <1>17 DEF Next, Step

LEMMA Invariance == Spec => []IInv
  BY InitIInv, StepIInv, PTL DEF Spec

-----------------------------------------------------------------------------

(* Every state of the service has the declared types.                      *)
THEOREM TypeCorrect == Spec => []TypeOK
  BY Invariance, PTL DEF IInv

(* Row locks, the results computed under them and the unflushed keys stay  *)
(* consistent between the sessions.                                        *)
THEOREM SessionsConsistent == Spec => []SessionInv
  BY Invariance, PTL DEF IInv

(* However many payments race, no protected account is overdrawn.          *)
THEOREM NeverOverdrawn == Spec => []NoOverdraft
  BY Invariance, PTL DEF IInv

(* An idempotency key moves money at most once.                            *)
THEOREM NeverPaidTwice == Spec => []AtMostOncePerKey
  BY Invariance, PTL DEF IInv

-----------------------------------------------------------------------------

(* The abstract book reads a request as the service does.                  *)
LEMMA SameVocabulary ==
  /\ \A r, a : Book!EntriesOf(r, a) = EntriesOf(r, a)
  /\ \A e : Book!Delta(e) = Delta(e)
  /\ \A r : Book!Balanced(r) = Balanced(r)
<1>1. \A r, a : Book!EntriesOf(r, a) = EntriesOf(r, a)
  BY DEF EntriesOf, Book!EntriesOf
<1>2. \A e : Book!Delta(e) = Delta(e)
  BY DEF Delta, Book!Delta, IncreasesOnDebit, Book!IncreasesOnDebit
<1>3. ASSUME NEW r PROVE Book!Balanced(r) = Balanced(r)
  BY DEF Balanced, Book!Balanced, TotalOf, Book!TotalOf, SumOf, Book!SumOf,
         MapThenSumSet, Book!MapThenSumSet, MapThenFoldSet, Book!MapThenFoldSet
<1>4. QED
  BY <1>1, <1>2, <1>3

DistinctAccounts(r) ==
    \A i, j \in DOMAIN r.entries :
        r.entries[i].account = r.entries[j].account => i = j

(* With no account repeated, the written balance is the abstract one.      *)
LEMMA WrittenIsAbstract ==
  ASSUME IInv, NEW w \in Workers, pc[w] = "commit", NEW a \in Accounts,
         DistinctAccounts(req[w])
  PROVE  WrittenBalance(w, a) = Book!BalanceAfter(req[w], a)
<1>1. CASE EntriesOf(req[w], a) = {}
  BY <1>1, SameVocabulary DEF WrittenBalance, Book!BalanceAfter
<1>2. CASE EntriesOf(req[w], a) # {}
  <2>1. PICK i \in EntriesOf(req[w], a) :
           WrittenBalance(w, a) = balance[a] + Delta(req[w].entries[i])
    BY <1>2, WrittenUnderLock DEF IInv
  <2>2. \A j \in EntriesOf(req[w], a) : j = i
    BY DEF EntriesOf, DistinctAccounts
  <2>3. (CHOOSE j \in EntriesOf(req[w], a) : TRUE) = i
    BY <2>2
  <2>4. QED
    BY <1>2, <2>1, <2>3, SameVocabulary DEF Book!BalanceAfter
<1>3. QED
  BY <1>1, <1>2

(* The unique index on entries leaves it no other way to repeat an account.*)
LEMMA CommittedDistinct ==
  ASSUME NEW w \in Workers, Commit(w), OneWay(req[w])
  PROVE  DistinctAccounts(req[w])
  BY DEF Commit, OneWay, RepeatsAnEntry, DistinctAccounts

LEMMA CommitPosts ==
  ASSUME IInv, NEW w \in Workers, Commit(w), DistinctAccounts(req[w])
  PROVE  Book!Post(req[w])
<1>1. /\ TypeOK /\ SessionInv /\ pc[w] = "commit" /\ ReadyToCommit(w)
      /\ ResultsCurrent(w)
  BY DEF IInv, SessionInv, Commit
<1>2. /\ req[w].op = "post"
      /\ ~Book!KeyPosted(req[w].key)
      /\ Balanced(req[w])
  BY <1>1 DEF ReadyToCommit, KeyPosted, Book!KeyPosted
<1>3. \A i \in DOMAIN req[w].entries : req[w].entries[i].account \in Accounts
  <2>1. DOMAIN results[w] = DOMAIN req[w].entries
    BY <1>1, EntriesLength DEF ReadyToCommit
  <2>2. QED
    BY <1>1, <2>1 DEF ResultsCurrent
<1>4. \A a \in Accounts : WrittenBalance(w, a) = Book!BalanceAfter(req[w], a)
  BY <1>1, WrittenIsAbstract
<1>5. ASSUME NEW a \in Accounts
      PROVE  EntriesOf(req[w], a) = {} \/ AllowNegative[a] \/ Book!BalanceAfter(req[w], a) >= 0
  <2>1. CASE EntriesOf(req[w], a) # {}
    <3>1. CanCover(a, WrittenBalance(w, a))
      BY <1>1, <2>1, WrittenUnderLock
    <3>2. QED
      BY <1>4, <3>1 DEF CanCover
  <2>2. QED
    BY <2>1
<1>6. posted' = Append(posted, req[w])
  BY DEF Commit
<1>7. balance' = [a \in Accounts |-> Book!BalanceAfter(req[w], a)]
  BY <1>4 DEF Commit
<1>8. QED
  BY <1>2, <1>3, <1>5, <1>6, <1>7, SameVocabulary DEF Book!Post

(* No step but a commit moves money.                                       *)
LEMMA OnlyCommitPosts ==
  ASSUME [Next]_vars
  PROVE  (\E w \in Workers : Commit(w)) \/ UNCHANGED <<balance, posted>>
<1>1. ASSUME NEW w \in Workers, Step(w) PROVE Commit(w) \/ UNCHANGED <<balance, posted>>
  BY <1>1 DEF Step, CheckExisting, RejectExisting, RejectUnbalanced,
     RejectUnknownAccount, RejectOverdraft, AnswerDryRun, InsertTransaction,
     InsertConflict, CommitConflict, AnswerCreated, Return, Fail
<1>2. ASSUME NEW w \in Workers, LockAccount(w) \/ BreakDeadlock(w)
      PROVE  UNCHANGED <<balance, posted>>
  BY <1>2 DEF LockAccount, BreakDeadlock, Fail
<1>3. ASSUME NEW w \in Workers, NEW r \in Requests, Receive(w, r)
      PROVE  UNCHANGED <<balance, posted>>
  BY <1>3 DEF Receive
<1>4. Restart => UNCHANGED <<balance, posted>>
  BY DEF Restart
<1>5. UNCHANGED vars => UNCHANGED <<balance, posted>>
  BY DEF vars
<1>6. QED
  BY <1>1, <1>2, <1>3, <1>4, <1>5 DEF Next

(* Every commit of the service is one atomic posting of the abstract book, *)
(* when no request debits and credits one account: the backend, the only   *)
(* client, debits an expense account and credits operating-cash.           *)
THEOREM LedgerImplementsBook ==
  ASSUME \A r \in Requests : OneWay(r)
  PROVE  Spec => ImplementsBook
<1>1. Init => Book!Init
  BY DEF Init, Book!Init
<1>2. IInv /\ [Next]_vars => [Book!Next]_<<balance, posted>>
  <2> SUFFICES ASSUME IInv, [Next]_vars PROVE [Book!Next]_<<balance, posted>>
    OBVIOUS
  <2>1. ASSUME NEW w \in Workers, Commit(w) PROVE Book!Next
    <3>1. req[w] \in Requests
      BY DEF IInv, TypeOK
    <3>2. QED
      BY <2>1, <3>1, CommittedDistinct, CommitPosts DEF Book!Next
  <2>2. QED
    BY <2>1, OnlyCommitPosts
<1>3. QED
  BY <1>1, <1>2, Invariance, PTL DEF Spec, ImplementsBook, Book!Spec

-----------------------------------------------------------------------------
(* The running balances and the entries.                                   *)

LEMMA SumIsInteger ==
  ASSUME NEW D, IsFiniteSet(D), NEW f \in [D -> Int]
  PROVE  SumOf(f) \in Int
<1>1. PICK h : AnyOrder(h, f, D) /\ SumOf(f) = h[D]
  BY SumComputed
<1>2. QED
  BY <1>1 DEF AnyOrder

LEMMA MovedByType ==
  ASSUME NEW r \in Request, NEW a
  PROVE  MovedBy(r, a) \in Int
<1> DEFINE D == EntriesOf(r, a)
           f == [n \in D |-> Delta(r.entries[n])]
<1>1. r.entries \in Seq(Entry)
  BY DEF Request
<1>2. IsFiniteSet(D)
  <2>1. D \in SUBSET (1..Len(r.entries)) /\ Len(r.entries) \in Nat
    BY <1>1 DEF EntriesOf
  <2>2. IsFiniteSet(1..Len(r.entries))
    BY <2>1, FS_Interval
  <2> HIDE DEF D
  <2>3. QED
    BY <2>1, <2>2, FS_Subset
<1>3. f \in [D -> Int]
  <2>1. \A n \in D : r.entries[n] \in Entry
    BY <1>1 DEF EntriesOf
  <2>2. QED
    BY <2>1, DeltaType
<1>4. SumOf(f) \in Int
  <2> HIDE DEF D, f
  <2>1. QED
    BY <1>2, <1>3, SumIsInteger
<1>5. QED
  BY <1>4 DEF MovedBy

(* A commit moves an account by what its entries say.                      *)
LEMMA WrittenIsMoved ==
  ASSUME IInv, NEW w \in Workers, pc[w] = "commit", NEW a \in Accounts,
         DistinctAccounts(req[w])
  PROVE  WrittenBalance(w, a) = balance[a] + MovedBy(req[w], a)
<1> DEFINE f == [n \in EntriesOf(req[w], a) |-> Delta(req[w].entries[n])]
<1>0. balance[a] \in Int
  BY DEF IInv, TypeOK
<1>1. MovedBy(req[w], a) = SumOf(f)
  BY DEF MovedBy
<1>2. CASE EntriesOf(req[w], a) = {}
  <2>1. DOMAIN f = {}
    BY <1>2
  <2>2. SumOf(f) = 0
    BY <2>1, SumOfNothing
  <2>3. QED
    BY <1>0, <1>1, <1>2, <2>2 DEF WrittenBalance
<1>3. CASE EntriesOf(req[w], a) # {}
  <2>1. PICK i \in EntriesOf(req[w], a) :
           WrittenBalance(w, a) = balance[a] + Delta(req[w].entries[i])
    BY <1>3, WrittenUnderLock DEF IInv
  <2>2. EntriesOf(req[w], a) = {i}
    BY DEF EntriesOf, DistinctAccounts
  <2>3. Delta(req[w].entries[i]) \in Int
    <3>1. req[w].entries[i] \in Entry
      BY EntriesLength DEF IInv, EntriesOf
    <3>2. QED
      BY <3>1, DeltaType
  <2>4. f \in [{i} -> Int] /\ f[i] = Delta(req[w].entries[i])
    BY <2>2, <2>3
  <2> HIDE DEF f
  <2>5. SumOf(f) = Delta(req[w].entries[i])
    BY <2>4, SumOfOne
  <2>6. QED
    BY <1>1, <2>1, <2>5
<1>4. QED
  BY <1>2, <1>3

(* A transaction appended to the log adds what it moves.                   *)
LEMMA OneMorePosted ==
  ASSUME TypeOK, NEW r \in Requests, posted' = Append(posted, r), NEW a
  PROVE  EntryTotal(a) \in Int /\ EntryTotal(a)' = EntryTotal(a) + MovedBy(r, a)
<1> DEFINE D == 1..Len(posted)
           x == Len(posted) + 1
           f == [i \in DOMAIN posted |-> MovedBy(posted[i], a)]
           g == [i \in DOMAIN posted' |-> MovedBy(posted'[i], a)]
<1>1. /\ DOMAIN posted' = D \union {x}
      /\ DOMAIN posted = D
      /\ Len(posted) \in Nat
      /\ \A i \in D : posted'[i] = posted[i] /\ posted[i] \in Requests
      /\ posted'[x] = r
  BY DEF TypeOK
<1>2. \A q \in Requests : MovedBy(q, a) \in Int
  BY MovedByType, LedgerAssumption
<1>3. f \in [D -> Int] /\ g \in [D \union {x} -> Int] /\ g[x] = MovedBy(r, a)
  BY <1>1, <1>2
<1>4. Agree(f, g, D)
  BY <1>1 DEF Agree
<1>5. IsFiniteSet(D) /\ x \notin D
  BY <1>1, FS_Interval
<1>6. EntryTotal(a) = SumOf(f) /\ EntryTotal(a)' = SumOf(g)
  BY DEF EntryTotal
<1> HIDE DEF D, x, f, g
<1>7. SumOf(f) \in Int /\ SumOf(g) = SumOf(f) + g[x]
  BY <1>3, <1>4, <1>5, SumOfOneMore
<1>8. QED
  BY <1>3, <1>6, <1>7

(* Whatever commits race, the balance of every account is its opening      *)
(* balance and the sum of its entries: no update is lost.                  *)
THEOREM BooksAlwaysAgree ==
  ASSUME \A r \in Requests : OneWay(r)
  PROVE  Spec => []BooksAgree
<1>1. Init => BooksAgree
  <2> SUFFICES ASSUME Init, NEW a \in Accounts
               PROVE  balance[a] = OpeningBalance[a] + EntryTotal(a)
    BY DEF BooksAgree
  <2> DEFINE f == [i \in DOMAIN posted |-> MovedBy(posted[i], a)]
  <2>1. DOMAIN f = {}
    BY DEF Init
  <2>2. EntryTotal(a) = SumOf(f)
    BY DEF EntryTotal
  <2> HIDE DEF f
  <2>3. EntryTotal(a) = 0
    BY <2>1, <2>2, SumOfNothing
  <2>4. balance[a] = OpeningBalance[a] /\ OpeningBalance[a] \in Int
    BY LedgerAssumption DEF Init
  <2>5. QED
    BY <2>3, <2>4
<1>2. IInv /\ BooksAgree /\ [Next]_vars => BooksAgree'
  <2> SUFFICES ASSUME IInv, BooksAgree, [Next]_vars PROVE BooksAgree'
    OBVIOUS
  <2>1. ASSUME NEW w \in Workers, Commit(w) PROVE BooksAgree'
    <3>1. req[w] \in Requests /\ pc[w] = "commit" /\ posted' = Append(posted, req[w])
      BY <2>1 DEF Commit, IInv, TypeOK
    <3>2. DistinctAccounts(req[w])
      BY <2>1, <3>1, CommittedDistinct
    <3>3. ASSUME NEW a \in Accounts
          PROVE  balance'[a] = OpeningBalance[a] + EntryTotal(a)'
      <4>1. balance'[a] = balance[a] + MovedBy(req[w], a)
        BY <2>1, <3>1, <3>2, WrittenIsMoved DEF Commit
      <4>2. EntryTotal(a) \in Int /\ EntryTotal(a)' = EntryTotal(a) + MovedBy(req[w], a)
        BY <3>1, OneMorePosted DEF IInv
      <4>3. MovedBy(req[w], a) \in Int /\ OpeningBalance[a] \in Int
        BY <3>1, MovedByType, LedgerAssumption
      <4>4. balance[a] = OpeningBalance[a] + EntryTotal(a)
        BY DEF BooksAgree
      <4>5. QED
        BY <4>1, <4>2, <4>3, <4>4
    <3>4. QED
      BY <3>3 DEF BooksAgree
  <2>2. UNCHANGED <<balance, posted>> => BooksAgree'
    BY DEF BooksAgree, EntryTotal
  <2>3. QED
    BY <2>1, <2>2, OnlyCommitPosts DEF IInv
<1>3. QED
  BY <1>1, <1>2, Invariance, PTL DEF Spec

-----------------------------------------------------------------------------

AnswerInv ==
    /\ \A w \in Workers :
          /\ pc[w] # "done" => reply[w] = "none"
          /\ pc[w] = "answer" => \E i \in DOMAIN posted : posted[i] = req[w]
    /\ AnswersTruthful

LEMMA PostedGrows ==
  ASSUME TypeOK, NEW r \in Requests, posted' = Append(posted, r)
  PROVE  /\ \A x : (\E i \in DOMAIN posted : posted[i] = x) => \E i \in DOMAIN posted' : posted'[i] = x
         /\ \A k : KeyPosted(k) => KeyPosted(k)'
         /\ \E i \in DOMAIN posted' : posted'[i] = r
<1>1. /\ DOMAIN posted' = 1..(Len(posted) + 1)
      /\ DOMAIN posted = 1..Len(posted)
      /\ Len(posted) \in Nat
      /\ \A i \in 1..Len(posted) : posted'[i] = posted[i]
      /\ posted'[Len(posted) + 1] = r
  BY DEF TypeOK
<1>2. QED
  BY <1>1 DEF KeyPosted

(* A 200 says the request itself was recorded and a 409 that its key was   *)
(* or that it repeats an entry, through every race and restart.            *)
THEOREM AnswersAreTruthful == Spec => []AnswersTruthful
<1>1. Init => AnswerInv
  BY DEF Init, AnswerInv, AnswersTruthful
<1>2. IInv /\ AnswerInv /\ [Next]_vars => AnswerInv'
  <2> SUFFICES ASSUME IInv, AnswerInv, [Next]_vars PROVE AnswerInv'
    OBVIOUS
  <2>0. TypeOK
    BY DEF IInv
  <2>1. ASSUME NEW w \in Workers, NEW r \in Replies, Fail(w, r),
               r = "created" => \E i \in DOMAIN posted : posted[i] = req[w],
               r = "duplicate" => KeyPosted(req[w].key) \/ RepeatsAnEntry(req[w])
        PROVE  AnswerInv'
    BY <2>0, <2>1 DEF AnswerInv, AnswersTruthful, Fail, TypeOK, KeyPosted
  <2>2. ASSUME NEW w \in Workers, NEW r \in {"unbalanced", "account_not_found",
                  "insufficient_funds", "valid", "error"}, Fail(w, r)
        PROVE  AnswerInv'
    BY <2>1, <2>2 DEF Replies
  <2>3. ASSUME NEW w \in Workers, Commit(w) PROVE AnswerInv'
    <3>1. req[w] \in Requests
      BY <2>0 DEF TypeOK
    <3>2. posted' = Append(posted, req[w])
      BY <2>3 DEF Commit
    <3>3. QED
      BY <2>0, <2>3, <3>1, <3>2, PostedGrows DEF AnswerInv, AnswersTruthful, Commit, TypeOK
  <2>4. ASSUME NEW w \in Workers, Step(w) PROVE AnswerInv'
    <3>1. CASE CheckExisting(w) \/ InsertTransaction(w)
      <4>1. /\ UNCHANGED <<posted, req, reply>>
            /\ \A v \in Workers : pc'[v] = pc[v] \/ (pc[v] # "done" /\ pc'[v] # "answer")
        BY <2>0, <3>1 DEF CheckExisting, InsertTransaction, Validated, TypeOK
      <4>2. QED
        BY <4>1 DEF AnswerInv, AnswersTruthful, KeyPosted
    <3>2. CASE RejectExisting(w)
      BY <2>1, <3>2 DEF RejectExisting, Replies
    <3>3. CASE \/ RejectUnbalanced(w) \/ RejectUnknownAccount(w) \/ RejectOverdraft(w)
               \/ AnswerDryRun(w) \/ InsertConflict(w)
      BY <2>2, <3>3 DEF RejectUnbalanced, RejectUnknownAccount, RejectOverdraft,
                        AnswerDryRun, InsertConflict
    <3>4. CASE CommitConflict(w)
      BY <2>1, <3>4 DEF CommitConflict, Replies
    <3>5. CASE AnswerCreated(w)
      BY <2>1, <3>5 DEF AnswerCreated, AnswerInv, Replies
    <3>6. CASE Return(w)
      BY <2>0, <3>6 DEF AnswerInv, AnswersTruthful, KeyPosted, Return, TypeOK
    <3>7. QED
      BY <2>3, <2>4, <3>1, <3>2, <3>3, <3>4, <3>5, <3>6 DEF Step
  <2>5. ASSUME NEW w \in Workers, LockAccount(w) PROVE AnswerInv'
    BY <2>5 DEF AnswerInv, AnswersTruthful, KeyPosted, LockAccount
  <2>6. ASSUME NEW w \in Workers, BreakDeadlock(w) PROVE AnswerInv'
    BY <2>2, <2>6 DEF BreakDeadlock
  <2>7. ASSUME NEW w \in Workers, NEW r \in Requests, Receive(w, r) PROVE AnswerInv'
    BY <2>0, <2>7 DEF AnswerInv, AnswersTruthful, KeyPosted, Receive, TypeOK
  <2>8. CASE Restart
    BY <2>0, <2>8 DEF AnswerInv, AnswersTruthful, KeyPosted, Restart, TypeOK
  <2>9. CASE UNCHANGED vars
    BY <2>9 DEF AnswerInv, AnswersTruthful, KeyPosted, vars
  <2>10. QED
    BY <2>4, <2>5, <2>6, <2>7, <2>8, <2>9 DEF Next
<1>3. QED
  BY <1>1, <1>2, Invariance, PTL DEF Spec, AnswerInv
=============================================================================
