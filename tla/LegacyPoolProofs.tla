-------------------------- MODULE LegacyPoolProofs --------------------------
(***************************************************************************)
(* Proofs about LegacyPool.  The pool is a function of the accounts and    *)
(* every operation works on one account at a time, so the invariant is a   *)
(* predicate of one account's lists and the nonce of its state, kept by    *)
(* each of removeTx, enqueueTx, promote, demote, truncate and evict; the   *)
(* bounds add sums over the accounts to it.                                *)
(***************************************************************************)
EXTENDS LegacyPool, FoldFacts, TLAPS

AccountTxs == [pending : SUBSET Tx, queue : SUBSET Tx, known : SUBSET Tx,
               next : 0..Nonces, beat : Beat, held : BOOLEAN]

Unique(txs) == \A s, t \in txs : s.n = t.n => s = t

\* The books of one account, but for the reservation.
Books(A) ==
  /\ A \in AccountTxs /\ IsFiniteSet(A.known)
  /\ Unique(A.pending \cup A.queue) /\ A.pending \cap A.queue = {}
  /\ LookupMatchesLists(A) /\ QueuedHasBeat(A)

\* From nonce n on, the pending list is the unbroken run of nonces below m.
Ahead(A, n, m) == \A k \in n..Nonces : (\E t \in A.pending : t.n = k) <=> k < m

\* The pending list is the run of nonces from n up to the next nonce.
Runs(A, n) == /\ n <= A.next /\ Ahead(A, n, A.next)
              /\ \A t \in A.pending : t.n >= n

Whole(A, n) == Books(A) /\ ReservedMatches(A) /\ Runs(A, n)

AllWhole == \A a \in Account : Whole(pool[a], head.nonce[a])

\* Accounts never go back, so a reset never has to look below the old state.
HeadBehind == \A a \in Account : head.nonce[a] <= chain.nonce[a]

PoolTyped ==
  /\ chain \in ChainState /\ head \in ChainState /\ pool \in [Account -> AccountTxs]
  /\ changes \in Nat /\ request \in Request /\ run \in Request /\ scene \in Scenes

IndInv == PoolTyped /\ AllWhole /\ HeadBehind /\ PoolBounded

-----------------------------------------------------------------------------
(* Numbers.                                                                *)

\* A non-empty set of naturals has a least member (the lowest nonce a list is cut at).
LEMMA MinFacts ==
  ASSUME NEW S, S \subseteq Nat, S # {}
  PROVE  Min(S) \in S /\ \A y \in S : Min(S) <= y
<1>1. \E x \in S : \A y \in S : x <= y
  BY LeastNat
<1> QED BY <1>1 DEF Min

\* A non-empty bounded set of naturals has a greatest member.
LEMMA MaxFacts ==
  ASSUME NEW m \in Nat, NEW S, S \subseteq 0..m, S # {}
  PROVE  Max(S) \in S /\ \A y \in S : Max(S) >= y
<1> DEFINE T == {m - x : x \in S}
<1>1. T \subseteq Nat /\ T # {}
  <2>1. \A x \in S : m - x \in Nat
    OBVIOUS
  <2> QED BY <2>1
<1>2. PICK z \in T : \A y \in T : z <= y
  BY <1>1, LeastNat
<1>3. PICK x \in S : z = m - x
  OBVIOUS
<1>4. \A y \in S : m - x <= m - y
  BY <1>2, <1>3
<1>5. \A y \in S : x >= y
  BY <1>4
<1> QED BY <1>5 DEF Max

\* Transactions have a nonce below the bound and a price.
LEMMA TxFields ==
  ASSUME NEW t \in Tx
  PROVE  /\ t.n \in 0..Nonces - 1 /\ t.n \in 0..Nonces /\ t.n \in Nat
         /\ t.p \in Prices /\ t.p \in Nat /\ t.n < Nonces
<1>1. Nonces \in Nat /\ Prices \subseteq Nat
  BY PoolAssumption
<1>2. t.n \in 0..Nonces - 1 /\ t.p \in Prices
  BY DEF Tx
<1>3. t.n \in 0..Nonces /\ t.n \in Nat /\ t.n < Nonces
  BY <1>1, <1>2
<1>4. t.p \in Nat
  BY <1>1, <1>2, Zenon
<1> QED BY <1>2, <1>3, <1>4, Zenon

-----------------------------------------------------------------------------
(* The place of a transaction in its list.                                 *)

\* The position of a transaction in nonce order: within the list's length, increasing with the
\* nonce and equal only for equal nonces.
LEMMA RankFacts ==
  ASSUME NEW txs \in SUBSET Tx, IsFiniteSet(txs)
  PROVE  /\ \A t \in txs : Rank(txs, t) \in 0..Cardinality(txs) - 1
         /\ \A s, t \in txs : s.n < t.n => Rank(txs, s) < Rank(txs, t)
         /\ \A s, t \in txs : s.n = t.n => Rank(txs, s) = Rank(txs, t)
<1> DEFINE Below(t) == {s \in txs : s.n < t.n}
<1>0. \A t \in txs : t.n \in Nat
  BY TxFields
<1>1. Cardinality(txs) \in Nat
  BY FS_CardinalityType
<1>2. ASSUME NEW t \in txs
      PROVE  IsFiniteSet(Below(t)) /\ Cardinality(Below(t)) \in Nat
  <2>1. Below(t) \in SUBSET txs
    OBVIOUS
  <2> QED BY <2>1, FS_Subset, FS_CardinalityType
<1>3. ASSUME NEW t \in txs PROVE Rank(txs, t) \in 0..Cardinality(txs) - 1
  <2>1. Below(t) \in SUBSET (txs \ {t})
    BY <1>0
  <2>2. IsFiniteSet(txs \ {t}) /\ Cardinality(txs \ {t}) = Cardinality(txs) - 1
    BY FS_RemoveElement
  <2>3. Cardinality(Below(t)) <= Cardinality(txs \ {t})
    BY <2>1, <2>2, FS_Subset
  <2> QED BY <1>1, <1>2, <2>2, <2>3 DEF Rank
<1>4. ASSUME NEW s \in txs, NEW t \in txs, s.n < t.n PROVE Rank(txs, s) < Rank(txs, t)
  <2> DEFINE more == Below(s) \cup {s}
  <2>1. s \notin Below(s)
    BY <1>0
  <2>2. more \in SUBSET Below(t)
    BY <1>0, <1>4
  <2>3. Cardinality(more) = Cardinality(Below(s)) + 1
    BY <1>2, <2>1, FS_AddElement
  <2>4. Cardinality(more) <= Cardinality(Below(t))
    BY <1>2, <2>2, FS_Subset
  <2>5. Rank(txs, s) = Cardinality(Below(s)) /\ Rank(txs, t) = Cardinality(Below(t))
    BY DEF Rank
  <2>6. Cardinality(Below(s)) \in Nat /\ Cardinality(Below(t)) \in Nat
    BY <1>2
  <2> HIDE DEF more, Below
  <2> QED BY <2>3, <2>4, <2>5, <2>6
<1>5. ASSUME NEW s \in txs, NEW t \in txs, s.n = t.n PROVE Rank(txs, s) = Rank(txs, t)
  BY <1>5 DEF Rank
<1> QED BY <1>3, <1>4, <1>5

\* With one transaction per nonce every place is taken.
LEMMA RankCovers ==
  ASSUME NEW txs \in SUBSET Tx, IsFiniteSet(txs), Unique(txs)
  PROVE  /\ \A i \in 0..Cardinality(txs) - 1 : \E t \in txs : Rank(txs, t) = i
         /\ \A s, t \in txs : Rank(txs, s) = Rank(txs, t) => s = t
<1> DEFINE c == Cardinality(txs)
           I == 0..c - 1
           f == [t \in txs |-> Rank(txs, t)]
<1>1. c \in Nat
  BY FS_CardinalityType
<1>2. IsFiniteSet(I) /\ Cardinality(I) = c
  BY <1>1, FS_Interval
<1>3. ASSUME NEW s \in txs, NEW t \in txs, Rank(txs, s) = Rank(txs, t) PROVE s = t
  <2>1. s.n \in Nat /\ t.n \in Nat
    BY TxFields
  <2>2. /\ s.n < t.n => Rank(txs, s) < Rank(txs, t)
        /\ t.n < s.n => Rank(txs, t) < Rank(txs, s)
        /\ Rank(txs, s) \in I /\ Rank(txs, t) \in I
    BY RankFacts
  <2>3. s.n = t.n
    BY <1>1, <1>3, <2>1, <2>2
  <2> QED BY <2>3 DEF Unique
<1>4. f \in Injection(txs, I)
  <2>1. f \in [txs -> I]
    BY RankFacts
  <2>2. IsInjective(f)
    BY <1>3 DEF IsInjective
  <2> HIDE DEF f
  <2> QED BY <2>1, <2>2 DEF Injection
<1>5. f \in Surjection(txs, I)
  <2> HIDE DEF f, I
  <2> QED BY <1>2, <1>4, FS_Injection
<1>6. ASSUME NEW i \in I PROVE \E t \in txs : Rank(txs, t) = i
  <2>1. \E t \in txs : f[t] = i
    <3> HIDE DEF f
    <3> QED BY <1>5 DEF Surjection
  <2> QED BY <2>1
<1> QED BY <1>3, <1>6

\* A sequence that lists a set of transactions.
Lists(o, txs) == o \in Seq(Tx) /\ {o[i] : i \in 1..Len(o)} = txs

\* Flattening a list whose nonces are unique yields each of its transactions once, and so does
\* the reverse order in which truncateQueue drops them.
LEMMA ByNonceLists ==
  ASSUME NEW txs \in SUBSET Tx, IsFiniteSet(txs), Unique(txs)
  PROVE  Lists(ByNonce(txs), txs) /\ Lists(Reverse(ByNonce(txs)), txs)
<1> DEFINE c == Cardinality(txs)
           o == ByNonce(txs)
           r == Reverse(o)
<1>1. c \in Nat
  BY FS_CardinalityType
<1>2. ASSUME NEW i \in 1..c PROVE o[i] \in txs /\ Rank(txs, o[i]) = i - 1
  <2>1. i - 1 \in 0..c - 1
    BY <1>1
  <2>2. \E t \in txs : Rank(txs, t) = i - 1
    BY <2>1, RankCovers
  <2>3. o[i] = CHOOSE t \in txs : Rank(txs, t) = i - 1
    BY DEF ByNonce
  <2> QED BY <2>2, <2>3
<1>3. o \in [1..c -> txs]
  BY <1>2 DEF ByNonce
<1>4. o \in Seq(Tx) /\ Len(o) = c
  <2> HIDE DEF o
  <2> QED BY <1>1, <1>3
<1>5. ASSUME NEW t \in txs PROVE \E i \in 1..c : o[i] = t
  <2>1. Rank(txs, t) \in 0..c - 1
    BY RankFacts
  <2>2. Rank(txs, t) + 1 \in 1..c /\ (Rank(txs, t) + 1) - 1 = Rank(txs, t)
    BY <1>1, <2>1
  <2>3. o[Rank(txs, t) + 1] = t
    BY <1>2, <2>2, RankCovers
  <2> QED BY <2>2, <2>3
<1> HIDE DEF o
<1>6. Lists(o, txs)
  BY <1>2, <1>4, <1>5 DEF Lists
<1>7. r = [i \in 1..c |-> o[(c - i) + 1]]
  BY <1>4 DEF Reverse
<1> HIDE DEF r
<1>8. \A i \in 1..c : (c - i) + 1 \in 1..c /\ (c - ((c - i) + 1)) + 1 = i
  BY <1>1
<1>9. r \in [1..c -> txs]
  BY <1>3, <1>7, <1>8
<1>10. r \in Seq(Tx) /\ Len(r) = c
  BY <1>1, <1>9
<1>11. ASSUME NEW t \in txs PROVE \E i \in 1..c : r[i] = t
  <2>1. PICK i \in 1..c : o[i] = t
    BY <1>5
  <2>2. r[(c - i) + 1] = o[i]
    BY <1>7, <1>8
  <2> QED BY <1>8, <2>1, <2>2
<1>12. Lists(r, txs)
  BY <1>9, <1>10, <1>11 DEF Lists
<1> QED BY <1>6, <1>12 DEF r, o

-----------------------------------------------------------------------------
(* One account's operations: what they leave in each field.                *)

\* Ageing a heartbeat keeps it a heartbeat, and never creates or loses one.
LEMMA BeatFacts ==
  /\ None \in Beat /\ 0 \in Beat /\ 0 # None
  /\ \A b \in Beat : Older(b) \in Beat /\ (Older(b) = None <=> b = None)
<1>1. MaxAge \in Nat /\ None \notin Nat
  BY PoolAssumption
<1>2. None \in Beat /\ 0 \in Beat /\ 0 # None
  BY <1>1 DEF Beat
<1>3. ASSUME NEW b \in Beat PROVE Older(b) \in Beat /\ (Older(b) = None <=> b = None)
  <2>1. CASE b = None
    BY <1>2, <2>1 DEF Older
  <2>2. CASE b # None
    <3>1. b \in 0..MaxAge
      BY <2>2 DEF Beat
    <3> DEFINE T == {b + 1, MaxAge}
    <3>2. T \subseteq Nat /\ T # {}
      BY <1>1, <3>1
    <3>3. Min(T) \in T /\ Min(T) <= MaxAge
      <4> HIDE DEF T
      <4>1. Min(T) \in T /\ \A y \in T : Min(T) <= y
        BY <3>2, MinFacts
      <4> QED BY <4>1 DEF T
    <3>4. Min(T) \in 0..MaxAge
      BY <1>1, <3>2, <3>3
    <3>5. Older(b) = Min(T)
      BY <2>2 DEF Older
    <3> HIDE DEF T
    <3> QED BY <1>1, <2>2, <3>4, <3>5 DEF Beat
  <2> QED BY <2>1, <2>2
<1> QED BY <1>2, <1>3

\* setIfLower on the pending nonce: the result is the least of the old value and the removed
\* nonces.
LEMMA LowerFacts ==
  ASSUME NEW next \in 0..Nonces, NEW txs \in SUBSET Tx
  PROVE  /\ Lower(next, txs) \in 0..Nonces /\ Lower(next, txs) <= next
         /\ \A t \in txs : Lower(next, txs) <= t.n
         /\ Lower(next, txs) = next \/ \E t \in txs : Lower(next, txs) = t.n
<1> DEFINE T == {next} \cup NonceOf(txs)
<1>0. Nonces \in Nat
  BY PoolAssumption
<1>1. \A t \in txs : t.n \in 0..Nonces
  BY TxFields
<1>2. T \subseteq 0..Nonces
  BY <1>1 DEF NonceOf
<1>3. T \subseteq Nat /\ T # {}
  BY <1>0, <1>2
<1>4. Min(T) \in T /\ \A y \in T : Min(T) <= y
  <2> HIDE DEF T
  <2> QED BY <1>3, MinFacts
<1>5. Lower(next, txs) = Min(T)
  BY DEF Lower
<1> QED BY <1>2, <1>4, <1>5 DEF NonceOf

\* Releasing the address touches the reservation only, and keeps it exactly when the account
\* still has a pending or a queued list.
LEMMA UnreserveFacts ==
  ASSUME NEW A \in AccountTxs
  PROVE  /\ Unreserve(A) \in AccountTxs
         /\ Unreserve(A).pending = A.pending /\ Unreserve(A).queue = A.queue
         /\ Unreserve(A).known = A.known /\ Unreserve(A).next = A.next
         /\ Unreserve(A).beat = A.beat
         /\ Unreserve(A).held <=> A.held /\ (A.pending # {} \/ A.queue # {})
BY DEF Unreserve, AccountTxs

\* enqueueTx: what moves to the queue replaces the queued transactions of the same nonces,
\* there and in the lookup, and starts a heartbeat where there was none.
LEMMA EnqueueFacts ==
  ASSUME NEW A \in AccountTxs, NEW txs \in SUBSET Tx
  PROVE  LET E == Enqueue(A, txs)
             replaced == {s \in A.queue : At(txs, s.n) # {}}
         IN  /\ E \in AccountTxs
             /\ E.pending = A.pending /\ E.queue = (A.queue \ replaced) \cup txs
             /\ E.known = (A.known \ replaced) \cup txs
             /\ E.next = A.next /\ E.held = A.held
             /\ E.beat = IF txs # {} /\ A.beat = None THEN 0 ELSE A.beat
BY BeatFacts DEF Enqueue, AccountTxs

\* removeTx keeps the account's lists well typed.
LEMMA RemoveTxType ==
  ASSUME NEW A \in AccountTxs, NEW t \in Tx
  PROVE  RemoveFrom(A, t) \in AccountTxs /\ RemoveTx(A, t) \in AccountTxs
<1> DEFINE later == {s \in A.pending : s.n > t.n}
           kept == [A EXCEPT !.known = @ \ {t}, !.pending = (@ \ {t}) \ later]
<1>1. kept \in AccountTxs /\ later \in SUBSET Tx
  BY DEF AccountTxs
<1>2. Enqueue(kept, later) \in AccountTxs
  <2> HIDE DEF kept, later
  <2> QED BY <1>1, EnqueueFacts
<1>3. Lower(Enqueue(kept, later).next, {t}) \in 0..Nonces
  <2>1. Enqueue(kept, later).next \in 0..Nonces
    BY <1>2 DEF AccountTxs
  <2> QED BY <2>1, LowerFacts
<1>4. [Enqueue(kept, later) EXCEPT !.next = Lower(@, {t})] \in AccountTxs
  BY <1>2, <1>3 DEF AccountTxs
<1>5. RemoveFrom(A, t) \in AccountTxs
  <2>1. CASE t \in A.pending
    <3>1. RemoveFrom(A, t) = [Enqueue(kept, later) EXCEPT !.next = Lower(@, {t})]
      BY <2>1 DEF RemoveFrom
    <3> QED BY <1>4, <3>1
  <2>2. CASE t \notin A.pending
    <3>1. RemoveFrom(A, t) = [A EXCEPT !.known = @ \ {t}, !.queue = @ \ {t},
                                !.beat = IF A.queue \subseteq {t} THEN None ELSE @]
      BY <2>2 DEF RemoveFrom
    <3> QED BY <3>1, BeatFacts DEF AccountTxs
  <2> QED BY <2>1, <2>2
<1>6. RemoveTx(A, t) \in AccountTxs
  BY <1>5, UnreserveFacts DEF RemoveTx
<1> QED BY <1>5, <1>6

\* The values a fold of RemoveTx goes through.
Removes(h, A, o) ==
  /\ h \in [0 .. Len(o) -> AccountTxs]
  /\ h[0] = A
  /\ \A k \in 1 .. Len(o) : h[k] = RemoveTx(h[k - 1], o[k])

\* What FoldLeft's own recursion says, over sets of indices.
Removing(f, A, o) ==
  \A r \in SUBSET (1 .. Len(o)) :
    f[r] = IF r = {} THEN A ELSE RemoveTx(f[r \ {Max(r)}], o[Max(r)])

\* All its values are accounts.
LEMMA RemovingTyped ==
  ASSUME NEW A \in AccountTxs, NEW o \in Seq(Tx), NEW f, Removing(f, A, o)
  PROVE  \A r \in SUBSET (1 .. Len(o)) : f[r] \in AccountTxs
<1> DEFINE I == 1 .. Len(o)
           K == {r \in SUBSET I : f[r] \in AccountTxs}
<1>1. IsFiniteSet(I) /\ Len(o) \in Nat /\ \A k \in I : o[k] \in Tx
  BY FS_Interval
<1>2. ASSUME NEW r \in SUBSET I, \A x \in r : r \ {x} \in K PROVE r \in K
  <2>1. CASE r = {}
    BY <2>1 DEF Removing
  <2>2. CASE r # {}
    <3> DEFINE x == Max(r)
    <3>1. x \in r
      BY <1>1, <2>2, MaxIndex
    <3>2. f[r] = RemoveTx(f[r \ {x}], o[x])
      BY <2>2 DEF Removing
    <3> HIDE DEF x
    <3>3. f[r \ {x}] \in AccountTxs /\ o[x] \in Tx
      BY <1>1, <1>2, <3>1
    <3> QED BY <3>2, <3>3, RemoveTxType
  <2> QED BY <2>1, <2>2
<1>3. SUBSET I \subseteq K
  <2> HIDE DEF K, I
  <2> QED BY <1>1, <1>2, SubsetInduction
<1> QED BY <1>3

\* FoldLeft removes the transactions one after the other.
LEMMA RemovedFold ==
  ASSUME NEW A \in AccountTxs, NEW o \in Seq(Tx)
  PROVE  \E h : Removes(h, A, o) /\ FoldLeft(RemoveTx, A, o) = h[Len(o)]
<1> DEFINE n == Len(o)
           I == 1 .. n
           F == [p \in I \X AccountTxs |-> RemoveTx(p[2], o[p[1]])]
           Step(g, r) == IF r = {} THEN A ELSE LET x == Max(r) IN RemoveTx(g[r \ {x}], o[x])
           Iter(it) == it = [r \in SUBSET I |->
                               IF r = {} THEN A
                               ELSE LET x == Max(r) IN RemoveTx(it[r \ {x}], o[x])]
           fold == CHOOSE it : Iter(it)
<1>1. n \in Nat /\ DOMAIN o = I /\ \A k \in I : o[k] \in Tx
  OBVIOUS
<1>2. F \in [I \X AccountTxs -> AccountTxs]
  BY <1>1, RemoveTxType
<1>3. \A k \in I, x \in AccountTxs : F[<<k, x>>] = RemoveTx(x, o[k])
  OBVIOUS
<1> HIDE DEF F
<1>4. PICK g \in [SUBSET I -> AccountTxs] : Folding(g, n, A, F)
  BY <1>1, <1>2, FoldingExists
<1>5. Iter(g)
  <2>1. ASSUME NEW r \in SUBSET I PROVE g[r] = Step(g, r)
    <3>1. CASE r = {}
      BY <1>4, <3>1 DEF Folding
    <3>2. CASE r # {}
      <4> DEFINE x == Max(r)
      <4>1. x \in I
        BY <1>1, <3>2, MaxIndex
      <4>2. g[r] = F[<<x, g[r \ {x}]>>]
        BY <1>4, <3>2 DEF Folding
      <4>3. g[r \ {x}] \in AccountTxs
        BY <1>4
      <4> HIDE DEF x
      <4>4. g[r] = RemoveTx(g[r \ {x}], o[x])
        BY <1>3, <4>1, <4>2, <4>3
      <4> QED BY <3>2, <4>4 DEF x
    <3> QED BY <3>1, <3>2
  <2>2. g = [r \in SUBSET I |-> g[r]]
    OBVIOUS
  <2> QED BY <2>1, <2>2, Zenon
<1>6. Iter(fold)
  <2> HIDE DEF Iter
  <2> QED BY <1>5
<1>7. FoldLeft(RemoveTx, A, o) = fold[I]
  BY <1>1 DEF FoldLeft, MapThenFoldSet
<1> HIDE DEF fold
<1>8. \A r \in SUBSET I : fold[r] = Step(fold, r)
  BY <1>6, Zenon
<1> HIDE DEF Iter
<1>9. fold[{}] = A
  <2>1. {} \in SUBSET I
    OBVIOUS
  <2> QED BY <1>8, <2>1
<1>10. ASSUME NEW r \in SUBSET I, r # {}
       PROVE  Max(r) \in r /\ fold[r] = RemoveTx(fold[r \ {Max(r)}], o[Max(r)])
  <2>1. Max(r) \in r
    BY <1>1, <1>10, MaxIndex
  <2> QED BY <1>8, <1>10, <2>1
<1>11. \A r \in SUBSET I : fold[r] \in AccountTxs
  <2>1. Removing(fold, A, o)
    BY <1>8 DEF Removing
  <2> QED BY <2>1, RemovingTyped
<1> HIDE DEF Step
<1> DEFINE h == [k \in 0 .. n |-> fold[1 .. k]]
<1>12. h[0] = A
  <2>1. 1 .. 0 = {} /\ 0 \in 0 .. n
    BY <1>1
  <2>2. h[0] = fold[1 .. 0]
    BY <2>1
  <2> HIDE DEF h
  <2> QED BY <1>9, <2>1, <2>2
<1>13. ASSUME NEW k \in I PROVE h[k] = RemoveTx(h[k - 1], o[k])
  <2>1. 1 .. k \in SUBSET I /\ 1 .. k # {} /\ k \in Nat \ {0} /\ k \in 0 .. n /\ k - 1 \in 0 .. n
    BY <1>1
  <2>2. Max(1 .. k) = k /\ (1 .. k) \ {k} = 1 .. (k - 1)
    BY <2>1, MaxOfFirst
  <2>3. fold[1 .. k] = RemoveTx(fold[(1 .. k) \ {Max(1 .. k)}], o[Max(1 .. k)])
    BY <1>10, <2>1
  <2>4. h[k] = fold[1 .. k] /\ h[k - 1] = fold[1 .. (k - 1)]
    BY <2>1
  <2> HIDE DEF h
  <2> QED BY <2>2, <2>3, <2>4, Zenon
<1>14. h \in [0 .. n -> AccountTxs]
  <2>1. \A k \in 0 .. n : 1 .. k \in SUBSET I
    BY <1>1
  <2>2. \A k \in 0 .. n : fold[1 .. k] \in AccountTxs
    BY <1>11, <2>1
  <2> QED BY <2>2
<1>15. FoldLeft(RemoveTx, A, o) = h[n]
  <2>1. n \in 0 .. n
    BY <1>1
  <2>2. h[n] = fold[I]
    BY <2>1
  <2> QED BY <1>7, <2>2
<1> HIDE DEF h
<1>16. Removes(h, A, o)
  BY <1>12, <1>13, <1>14 DEF Removes
<1> QED BY <1>15, <1>16

-----------------------------------------------------------------------------
(* The books are kept.                                                     *)

\* Enqueued transactions whose nonces the queue does not have replace none.
LEMMA EnqueueNew ==
  ASSUME NEW A \in AccountTxs, NEW txs \in SUBSET Tx,
         \A s \in A.queue, t \in txs : s.n # t.n
  PROVE  LET E == Enqueue(A, txs)
         IN  /\ E \in AccountTxs
             /\ E.pending = A.pending /\ E.queue = A.queue \cup txs
             /\ E.known = A.known \cup txs /\ E.next = A.next /\ E.held = A.held
             /\ QueuedHasBeat(A) => QueuedHasBeat(E)
<1> DEFINE E == Enqueue(A, txs)
           replaced == {s \in A.queue : At(txs, s.n) # {}}
<1>1. replaced = {}
  BY DEF At
<1>2. /\ E \in AccountTxs
      /\ E.pending = A.pending /\ E.queue = (A.queue \ replaced) \cup txs
      /\ E.known = (A.known \ replaced) \cup txs
      /\ E.next = A.next /\ E.held = A.held
      /\ E.beat = IF txs # {} /\ A.beat = None THEN 0 ELSE A.beat
  BY EnqueueFacts
<1> HIDE DEF E, replaced
<1>3. E.queue = A.queue \cup txs /\ E.known = A.known \cup txs
  BY <1>1, <1>2
<1>4. QueuedHasBeat(A) => QueuedHasBeat(E)
  BY <1>2, <1>3, BeatFacts DEF QueuedHasBeat
<1> QED BY <1>2, <1>3, <1>4 DEF E

\* removeTx of a pending transaction: the later nonces go back to the queue, the lookup loses
\* the one transaction, and the pending list still runs without a gap from the state's nonce.
LEMMA RemoveFromPending ==
  ASSUME NEW A, Books(A), NEW n \in 0..Nonces, Runs(A, n), NEW t \in A.pending
  PROVE  LET R == RemoveFrom(A, t)
         IN  /\ Books(R) /\ Runs(R, n)
             /\ R.known = A.known \ {t} /\ R.held = A.held /\ R.pending \subseteq A.pending
<1> DEFINE R == RemoveFrom(A, t)
           later == {s \in A.pending : s.n > t.n}
           kept == [A EXCEPT !.known = @ \ {t}, !.pending = (@ \ {t}) \ later]
           E == Enqueue(kept, later)
<1>0. Nonces \in Nat
  BY PoolAssumption
<1>1. /\ A \in AccountTxs /\ IsFiniteSet(A.known) /\ Unique(A.pending \cup A.queue)
      /\ A.pending \cap A.queue = {} /\ A.known = A.pending \cup A.queue /\ QueuedHasBeat(A)
  BY DEF Books, LookupMatchesLists
<1>2. /\ A.pending \in SUBSET Tx /\ A.queue \in SUBSET Tx /\ A.next \in 0..Nonces
      /\ t \in Tx /\ later \in SUBSET Tx
  BY <1>1 DEF AccountTxs
<1>3. \A s \in A.pending \cup A.queue : s.n \in Nat /\ s.n \in 0..Nonces
  BY <1>2, TxFields
<1>4. /\ kept \in AccountTxs /\ kept.queue = A.queue /\ kept.known = A.known \ {t}
      /\ kept.pending = (A.pending \ {t}) \ later /\ kept.next = A.next
      /\ kept.held = A.held /\ kept.beat = A.beat
  BY <1>1 DEF AccountTxs
<1>5. \A s \in A.queue, u \in later : s.n # u.n
  BY <1>1 DEF Unique
<1>6. QueuedHasBeat(kept)
  BY <1>1, <1>4 DEF QueuedHasBeat
<1>7. R = [E EXCEPT !.next = Lower(@, {t})]
  BY DEF RemoveFrom
<1>8. \A s \in kept.queue, u \in later : s.n # u.n
  BY <1>4, <1>5
<1> HIDE DEF kept
<1>9. /\ E \in AccountTxs /\ E.pending = kept.pending /\ E.queue = kept.queue \cup later
      /\ E.known = kept.known \cup later /\ E.next = kept.next /\ E.held = kept.held
      /\ QueuedHasBeat(E)
  <2> HIDE DEF later
  <2> QED BY <1>2, <1>4, <1>6, <1>8, EnqueueNew
<1> HIDE DEF E
<1>10. /\ R.pending = (A.pending \ {t}) \ later /\ R.queue = A.queue \cup later
       /\ R.known = (A.known \ {t}) \cup later /\ R.next = Lower(A.next, {t})
       /\ R.held = A.held /\ R.beat = E.beat
  BY <1>4, <1>7, <1>9 DEF AccountTxs
<1>11. R \in AccountTxs
  BY <1>1, <1>2, RemoveTxType
<1> HIDE DEF R
<1>12. R.known = A.known \ {t}
  BY <1>1, <1>3, <1>10
<1>13. R.known = R.pending \cup R.queue /\ R.pending \cap R.queue = {}
  BY <1>1, <1>3, <1>10, <1>12
<1>14. IsFiniteSet(R.known)
  BY <1>1, <1>12, FS_RemoveElement
<1>15. Unique(R.pending \cup R.queue)
  <2>1. R.pending \cup R.queue \subseteq A.pending \cup A.queue
    BY <1>10
  <2> QED BY <1>1, <2>1 DEF Unique
<1>16. QueuedHasBeat(R)
  BY <1>4, <1>9, <1>10 DEF QueuedHasBeat
<1>17. Books(R)
  BY <1>11, <1>13, <1>14, <1>15, <1>16 DEF Books, LookupMatchesLists
<1>18. R.next = t.n /\ t.n >= n
  <2>1. t.n < A.next /\ t.n >= n
    BY <1>2, <1>3 DEF Runs, Ahead
  <2>2. /\ Lower(A.next, {t}) <= t.n
        /\ Lower(A.next, {t}) = A.next \/ Lower(A.next, {t}) = t.n
    BY <1>2, LowerFacts
  <2> QED BY <1>2, <1>3, <1>10, <2>1, <2>2
<1>19. \A s \in A.pending : s \in R.pending <=> s.n < t.n
  BY <1>1, <1>3, <1>10 DEF Unique
<1>20. Ahead(R, n, t.n)
  <2> SUFFICES ASSUME NEW k \in n..Nonces
               PROVE  (\E s \in R.pending : s.n = k) <=> k < t.n
    BY DEF Ahead
  <2>1. ASSUME NEW s \in R.pending, s.n = k PROVE k < t.n
    BY <1>10, <1>19, <2>1
  <2>2. ASSUME k < t.n PROVE \E s \in R.pending : s.n = k
    <3>1. t.n < A.next
      BY <1>2, <1>3 DEF Runs, Ahead
    <3>2. k < A.next
      BY <1>2, <1>3, <2>2, <3>1
    <3>3. PICK s \in A.pending : s.n = k
      BY <3>2 DEF Runs, Ahead
    <3> QED BY <1>19, <2>2, <3>3
  <2> QED BY <2>1, <2>2
<1>21. Runs(R, n)
  BY <1>10, <1>18, <1>20 DEF Runs
<1> QED BY <1>10, <1>12, <1>17, <1>21 DEF R

\* removeTx of a queued transaction: the queue and the lookup lose it and nothing else changes.
LEMMA RemoveFromQueue ==
  ASSUME NEW A, Books(A), NEW n \in 0..Nonces, Runs(A, n), NEW t \in A.queue
  PROVE  LET R == RemoveFrom(A, t)
         IN  /\ Books(R) /\ Runs(R, n)
             /\ R.known = A.known \ {t} /\ R.held = A.held
             /\ R.pending = A.pending /\ R.queue = A.queue \ {t}
<1> DEFINE R == RemoveFrom(A, t)
<1>1. /\ A \in AccountTxs /\ IsFiniteSet(A.known) /\ Unique(A.pending \cup A.queue)
      /\ A.pending \cap A.queue = {} /\ A.known = A.pending \cup A.queue /\ QueuedHasBeat(A)
  BY DEF Books, LookupMatchesLists
<1>2. t \notin A.pending /\ t \in Tx
  BY <1>1 DEF AccountTxs
<1>3. R = [A EXCEPT !.known = @ \ {t}, !.queue = @ \ {t},
                    !.beat = IF A.queue \subseteq {t} THEN None ELSE @]
  BY <1>2 DEF RemoveFrom
<1>4. /\ R.pending = A.pending /\ R.queue = A.queue \ {t} /\ R.known = A.known \ {t}
      /\ R.next = A.next /\ R.held = A.held
      /\ R.beat = IF A.queue \subseteq {t} THEN None ELSE A.beat
  BY <1>1, <1>3 DEF AccountTxs
<1>5. R \in AccountTxs
  BY <1>1, <1>2, RemoveTxType
<1> HIDE DEF R
<1>6. QueuedHasBeat(R)
  BY <1>1, <1>4 DEF QueuedHasBeat
<1>7. IsFiniteSet(R.known)
  BY <1>1, <1>4, FS_RemoveElement
<1>8. Unique(R.pending \cup R.queue)
  BY <1>1, <1>4 DEF Unique
<1>9. R.known = R.pending \cup R.queue /\ R.pending \cap R.queue = {}
  BY <1>1, <1>2, <1>4
<1>10. Books(R)
  BY <1>5, <1>6, <1>7, <1>8, <1>9 DEF Books, LookupMatchesLists
<1>11. Runs(R, n)
  BY <1>4 DEF Runs, Ahead
<1> QED BY <1>4, <1>10, <1>11 DEF R

\* removeTx keeps an account whole and takes out one transaction.
LEMMA RemoveTxWhole ==
  ASSUME NEW A, NEW n \in 0..Nonces, Whole(A, n), NEW t \in A.known
  PROVE  LET R == RemoveTx(A, t)
         IN  /\ Whole(R, n) /\ R.known = A.known \ {t} /\ R.pending \subseteq A.pending
             /\ t \in A.queue => R.pending = A.pending /\ R.queue = A.queue \ {t}
<1> DEFINE F == RemoveFrom(A, t)
           R == Unreserve(F)
<1>1. /\ Books(A) /\ Runs(A, n) /\ ReservedMatches(A) /\ t \in A.pending \cup A.queue
      /\ A.held
  BY DEF Whole, Books, LookupMatchesLists, ReservedMatches
<1>2. /\ Books(F) /\ Runs(F, n) /\ F.known = A.known \ {t} /\ F.held = A.held
      /\ F.pending \subseteq A.pending
      /\ t \in A.queue => F.pending = A.pending /\ F.queue = A.queue \ {t}
  <2>1. CASE t \in A.pending
    <3>1. t \notin A.queue
      BY <1>1, <2>1 DEF Books
    <3> QED BY <1>1, <2>1, <3>1, RemoveFromPending
  <2>2. CASE t \in A.queue
    BY <1>1, <2>2, RemoveFromQueue
  <2> QED BY <1>1, <2>1, <2>2
<1> HIDE DEF F
<1>3. F \in AccountTxs
  BY <1>2 DEF Books
<1>4. /\ R \in AccountTxs /\ R.pending = F.pending /\ R.queue = F.queue
      /\ R.known = F.known /\ R.next = F.next /\ R.beat = F.beat
      /\ R.held <=> F.held /\ (F.pending # {} \/ F.queue # {})
  BY <1>3, UnreserveFacts
<1>5. RemoveTx(A, t) = R
  BY DEF RemoveTx, F
<1> HIDE DEF R
<1>6. Books(R)
  BY <1>2, <1>4 DEF Books, LookupMatchesLists, QueuedHasBeat
<1>7. Runs(R, n)
  BY <1>2, <1>4 DEF Runs, Ahead
<1>8. ReservedMatches(R)
  <2>1. F.held
    BY <1>1, <1>2
  <2>2. F.known # {} <=> (F.pending # {} \/ F.queue # {})
    BY <1>2 DEF Books, LookupMatchesLists
  <2> QED BY <1>4, <2>1, <2>2 DEF ReservedMatches
<1> QED BY <1>2, <1>4, <1>5, <1>6, <1>7, <1>8 DEF Whole

\* Removing the transactions of a list one by one takes out exactly those.
LEMMA RemoveAllWhole ==
  ASSUME NEW A, NEW n \in 0..Nonces, Whole(A, n), NEW S \in SUBSET Tx, NEW o, Lists(o, S)
  PROVE  LET R == FoldLeft(RemoveTx, A, o)
         IN  /\ Whole(R, n) /\ R.known = A.known \ S /\ R.pending \subseteq A.pending
             /\ S \subseteq A.queue => R.pending = A.pending /\ R.queue = A.queue \ S
<1> DEFINE c == Len(o)
           Out(k) == {o[i] : i \in 1..k}
           Fine(R, k) ==
             /\ Whole(R, n) /\ R.known = A.known \ Out(k) /\ R.pending \subseteq A.pending
             /\ S \subseteq A.queue => R.pending = A.pending /\ R.queue = A.queue \ Out(k)
<1>1. o \in Seq(Tx) /\ c \in Nat /\ Out(c) = S /\ \A k \in 1..c : o[k] \in S
  BY DEF Lists
<1>2. A \in AccountTxs
  BY DEF Whole, Books
<1>3. PICK h : Removes(h, A, o) /\ FoldLeft(RemoveTx, A, o) = h[c]
  BY <1>1, <1>2, RemovedFold
<1>4. h[0] = A /\ \A k \in 1..c : h[k] = RemoveTx(h[k - 1], o[k])
  BY <1>3 DEF Removes
<1> DEFINE K == {k \in Nat : k <= c => Fine(h[k], k)}
<1>5. 0 \in K
  <2>1. Out(0) = {}
    OBVIOUS
  <2> HIDE DEF Out
  <2>2. Fine(A, 0)
    BY <2>1
  <2> HIDE DEF Fine
  <2> QED BY <1>4, <2>2
<1>6. ASSUME NEW k \in Nat, k \in K PROVE k + 1 \in K
  <2> SUFFICES ASSUME k + 1 <= c PROVE Fine(h[k + 1], k + 1)
    OBVIOUS
  <2> DEFINE j == k + 1
             t == o[j]
             B == h[k]
             R == RemoveTx(B, t)
  <2>1. k <= c /\ j \in 1..c /\ j - 1 = k
    BY <1>1
  <2>2. Fine(B, k)
    BY <1>6, <2>1
  <2>3. h[j] = R
    BY <1>4, <2>1
  <2>4. Out(j) = Out(k) \cup {t}
    OBVIOUS
  <2>5. t \in S
    BY <1>1, <2>1
  <2> HIDE DEF j, t, B, Out
  <2>6. CASE t \in B.known
    <3>1. /\ Whole(R, n) /\ R.known = B.known \ {t} /\ R.pending \subseteq B.pending
          /\ t \in B.queue => R.pending = B.pending /\ R.queue = B.queue \ {t}
      BY <2>2, <2>6, RemoveTxWhole
    <3> HIDE DEF R
    <3>2. S \subseteq A.queue => t \in B.queue
      BY <2>2, <2>5, <2>6
    <3> QED BY <2>2, <2>3, <2>4, <3>1, <3>2 DEF j
  <2>7. CASE t \notin B.known
    <3>1. R = B
      BY <2>7 DEF RemoveTx
    <3> HIDE DEF R
    <3>2. R.known = A.known \ Out(j)
      BY <2>2, <2>4, <2>7, <3>1
    <3>3. ASSUME S \subseteq A.queue PROVE R.queue = A.queue \ Out(j)
      <4>1. t \notin B.queue
        BY <2>2, <2>7 DEF Whole, Books, LookupMatchesLists
      <4> QED BY <2>2, <2>4, <3>1, <3>3, <4>1
    <3> QED BY <2>2, <2>3, <3>1, <3>2, <3>3 DEF j
  <2> QED BY <2>6, <2>7
<1>7. Nat \subseteq K
  <2> HIDE DEF K
  <2> QED BY <1>5, <1>6, NatSetInduction
<1>8. Fine(h[c], c)
  BY <1>1, <1>7
<1> HIDE DEF Out
<1> QED BY <1>1, <1>3, <1>8

\* Ready, when every transaction is at m or above and the lists start at or
\* below m: the unbroken run from m on.
LEMMA ReadyFacts ==
  ASSUME NEW txs \in SUBSET Tx, NEW m \in 0..Nonces, NEW start \in 0..Nonces, start <= m,
         \A t \in txs : t.n >= m
  PROVE  LET R == Ready(txs, start)
             top == Max(NonceOf(R)) + 1
         IN  /\ R \subseteq txs
             /\ start < m => R = {}
             /\ R # {} => /\ top \in m..Nonces /\ m < top
                          /\ \A k \in m..Nonces : (\E t \in R : t.n = k) <=> k < top
<1> DEFINE R == Ready(txs, start)
           low == Min(NonceOf(txs))
           top == Max(NonceOf(R)) + 1
<1>0. Nonces \in Nat
  BY PoolAssumption
<1>1. R \subseteq txs /\ \A t \in txs : t \in R <=> /\ \E s \in txs : s.n <= start
                                                    /\ \A k \in low..t.n : At(txs, k) # {}
  BY DEF Ready
<1>2. \A t \in txs : t.n \in 0..Nonces /\ t.n < Nonces /\ t.n \in Nat
  BY TxFields
<1>3. start < m => R = {}
  <2>1. ASSUME start < m, NEW s \in txs PROVE ~(s.n <= start)
    BY <1>0, <1>2, <2>1
  <2> HIDE DEF R, low
  <2> QED BY <1>1, <2>1
<1>4. ASSUME R # {}
      PROVE  /\ top \in m..Nonces /\ m < top
             /\ \A k \in m..Nonces : (\E t \in R : t.n = k) <=> k < top
  <2>1. PICK s \in txs : s.n <= start
    <3> HIDE DEF R, low
    <3> QED BY <1>1, <1>4
  <2>2. low = m
    <3> DEFINE N == NonceOf(txs)
    <3>1. N \subseteq Nat /\ N # {} /\ s.n \in N /\ \A x \in N : x >= m
      BY <1>2, <2>1 DEF NonceOf
    <3>2. low \in N /\ low <= s.n
      <4> HIDE DEF N
      <4> QED BY <3>1, MinFacts DEF N
    <3>3. s.n <= m
      BY <1>0, <1>2, <2>1
    <3> QED BY <1>0, <1>2, <3>1, <3>2, <3>3
  <2> HIDE DEF R, low
  <2>3. \A t \in txs : t \in R <=> \A k \in m..t.n : At(txs, k) # {}
    BY <1>1, <2>1, <2>2
  <2> DEFINE N == NonceOf(R)
  <2>4. N \subseteq 0..Nonces /\ N # {}
    BY <1>1, <1>2, <1>4 DEF NonceOf
  <2>5. Max(N) \in N /\ \A y \in N : Max(N) >= y
    <3> HIDE DEF N
    <3> QED BY <1>0, <2>4, MaxFacts
  <2>6. PICK t \in R : Max(N) = t.n
    BY <2>5 DEF NonceOf
  <2>7. top = t.n + 1 /\ t \in txs /\ t.n \in m..Nonces - 1
    BY <1>0, <1>1, <1>2, <2>6
  <2>8. \A u \in R : u.n <= t.n /\ u.n \in Nat
    BY <1>1, <1>2, <2>5, <2>6 DEF NonceOf
  <2> HIDE DEF top, N
  <2>9. ASSUME NEW k \in m..Nonces, k < top PROVE \E u \in R : u.n = k
    <3>1. k \in m..t.n
      BY <1>0, <1>2, <2>7, <2>9
    <3>2. PICK u \in txs : u.n = k
      BY <2>3, <2>6, <2>7, <3>1 DEF At
    <3>3. \A i \in m..k : i \in m..t.n
      BY <1>0, <1>2, <2>7, <3>1
    <3>4. \A i \in m..k : At(txs, i) # {}
      BY <2>3, <2>6, <2>7, <3>3
    <3> QED BY <2>3, <3>2, <3>4
  <2>10. ASSUME NEW k \in m..Nonces, NEW u \in R, u.n = k PROVE k < top
    BY <1>0, <2>7, <2>8, <2>10
  <2> QED BY <1>0, <2>7, <2>9, <2>10
<1> QED BY <1>1, <1>3, <1>4

\* The transactions beyond the k lowest are the highest of their list.
LEMMA BeyondFacts ==
  ASSUME NEW txs \in SUBSET Tx, IsFiniteSet(txs), NEW k \in Int
  PROVE  /\ Beyond(txs, k) \subseteq txs
         /\ \A s \in Beyond(txs, k), t \in txs : s.n <= t.n => t \in Beyond(txs, k)
<1>1. ASSUME NEW s \in Beyond(txs, k), NEW t \in txs, s.n <= t.n PROVE t \in Beyond(txs, k)
  <2>1. s \in txs /\ Rank(txs, s) >= k
    BY DEF Beyond
  <2>2. s.n \in Nat /\ t.n \in Nat /\ Cardinality(txs) \in Nat
    BY <2>1, TxFields, FS_CardinalityType
  <2>3. /\ s.n < t.n => Rank(txs, s) < Rank(txs, t)
        /\ s.n = t.n => Rank(txs, s) = Rank(txs, t)
        /\ Rank(txs, s) \in 0..Cardinality(txs) - 1 /\ Rank(txs, t) \in 0..Cardinality(txs) - 1
    BY <2>1, RankFacts
  <2>4. Rank(txs, s) <= Rank(txs, t)
    BY <1>1, <2>2, <2>3
  <2>5. Rank(txs, t) >= k
    BY <2>1, <2>2, <2>3, <2>4
  <2> QED BY <2>5 DEF Beyond
<1> QED BY <1>1 DEF Beyond

\* promoteExecutables, of an account whose pending list is from the state's
\* nonce n on the run below m: with the next nonce at m it prolongs the run,
\* with the next nonce at the state's, as during a reset, it adds nothing to a
\* run that is there.
LEMMA PromoteWhole ==
  ASSUME NEW A, Books(A), ReservedMatches(A), NEW S, NEW n \in 0..Nonces, S.nonce = n,
         NEW m \in n..Nonces, Ahead(A, n, m), A.next \in {n, m}
  PROVE  LET P == Promote(A, S)
         IN  /\ Books(P) /\ ReservedMatches(P) /\ P.known \subseteq A.known
             /\ \A t \in P.pending : t \in A.pending \/ t.n >= n
             /\ \E q \in n..Nonces : Ahead(P, n, q) /\ (A.next = m => P.next = q)
<1> DEFINE dead == {t \in A.queue : t.n < S.nonce \/ t.p > S.balance}
           alive == A.queue \ dead
           ready == Ready(alive, A.next)
           over == Beyond(alive \ ready, AccountQueue)
           left == (alive \ ready) \ over
           top == Max(NonceOf(ready)) + 1
           P0 == [A EXCEPT !.pending = @ \cup ready, !.queue = left,
                           !.known = @ \ (dead \cup over),
                           !.next = IF ready = {} THEN @ ELSE top,
                           !.beat = IF left = {} THEN None ELSE IF ready # {} THEN 0 ELSE @]
           P == Promote(A, S)
<1>0. Nonces \in Nat /\ AccountQueue \in Nat
  BY PoolAssumption
<1>1. /\ A \in AccountTxs /\ IsFiniteSet(A.known) /\ Unique(A.pending \cup A.queue)
      /\ A.pending \cap A.queue = {} /\ A.known = A.pending \cup A.queue /\ QueuedHasBeat(A)
  BY DEF Books, LookupMatchesLists
<1>2. /\ A.pending \in SUBSET Tx /\ A.queue \in SUBSET Tx /\ A.next \in 0..Nonces
      /\ A.beat \in Beat
  BY <1>1 DEF AccountTxs
<1>3. CASE A.queue = {}
  <2>1. P = A
    BY <1>3 DEF Promote
  <2> QED BY <2>1
<1>4. CASE A.queue # {}
  <2>1. P = Unreserve(P0)
    BY <1>4 DEF Promote
  <2>2. \A t \in A.pending \cup A.queue : t.n \in Nat /\ t.n \in 0..Nonces
    BY <1>2, TxFields
  <2>3. ASSUME NEW t \in alive PROVE t.n >= n /\ t.n >= m
    <3>1. t.n >= n
      BY <2>2
    <3>2. t.n < m => \E s \in A.pending : s.n = t.n
      BY <1>0, <2>2, <3>1 DEF Ahead
    <3>3. \A s \in A.pending : s.n # t.n
      BY <1>1 DEF Unique
    <3> QED BY <1>0, <2>2, <3>1, <3>2, <3>3
  <2>4. A.next <= m /\ m \in 0..Nonces /\ alive \in SUBSET Tx
    BY <1>0, <1>2
  <2>5. /\ ready \subseteq alive
        /\ A.next < m => ready = {}
        /\ ready # {} => /\ top \in m..Nonces /\ m < top
                         /\ \A k \in m..Nonces : (\E t \in ready : t.n = k) <=> k < top
    <3> HIDE DEF alive
    <3> QED BY <1>2, <2>3, <2>4, ReadyFacts
  <2>6. IsFiniteSet(alive \ ready)
    <3>1. alive \ ready \in SUBSET A.known
      BY <1>1
    <3> HIDE DEF alive, ready
    <3> QED BY <1>1, <3>1, FS_Subset
  <2>7. over \subseteq alive \ ready
    <3>1. alive \ ready \in SUBSET Tx
      BY <2>4
    <3> HIDE DEF alive, ready
    <3> QED BY <1>0, <2>6, <3>1, BeyondFacts
  <2>8. dead \subseteq A.queue /\ alive \subseteq A.queue /\ dead \cap alive = {}
        /\ A.queue = dead \cup alive
    OBVIOUS
  <2> HIDE DEF dead, alive, ready, over, top
  <2>9. left \subseteq A.queue /\ left \cap ready = {} /\ left \subseteq alive
    BY <2>8
  <2>10. (A.pending \cup ready) \cup left = A.known \ (dead \cup over)
    BY <1>1, <2>5, <2>7, <2>8
  <2> HIDE DEF left
  <2>11. (IF ready = {} THEN A.next ELSE top) \in 0..Nonces
    BY <1>0, <1>2, <2>5
  <2>12. (IF left = {} THEN None ELSE IF ready # {} THEN 0 ELSE A.beat) \in Beat
    BY <1>2, BeatFacts
  <2>13. P0 \in AccountTxs
    <3>1. A.pending \cup ready \in SUBSET Tx /\ left \in SUBSET Tx /\ A.known \ (dead \cup over) \in SUBSET Tx
      BY <1>1, <1>2, <2>5, <2>8, <2>9
    <3> QED BY <1>1, <2>11, <2>12, <3>1 DEF AccountTxs
  <2>14. /\ P0.pending = A.pending \cup ready /\ P0.queue = left
         /\ P0.known = A.known \ (dead \cup over)
         /\ P0.next = IF ready = {} THEN A.next ELSE top
         /\ P0.beat = IF left = {} THEN None ELSE IF ready # {} THEN 0 ELSE A.beat
         /\ P0.held = A.held
    BY <1>1 DEF AccountTxs
  <2> HIDE DEF P0
  <2>15. /\ P \in AccountTxs /\ P.pending = P0.pending /\ P.queue = P0.queue
         /\ P.known = P0.known /\ P.next = P0.next /\ P.beat = P0.beat
         /\ P.held <=> P0.held /\ (P0.pending # {} \/ P0.queue # {})
    BY <2>1, <2>13, UnreserveFacts
  <2> HIDE DEF P
  <2>16. Unique(P.pending \cup P.queue)
    <3>1. P.pending \cup P.queue \subseteq A.pending \cup A.queue
      BY <2>5, <2>8, <2>9, <2>14, <2>15
    <3> QED BY <1>1, <3>1 DEF Unique
  <2>17. P.pending \cap P.queue = {} /\ P.known = P.pending \cup P.queue /\ P.known \subseteq A.known
    BY <1>1, <2>9, <2>10, <2>14, <2>15
  <2>18. IsFiniteSet(P.known)
    BY <1>1, <2>17, FS_Subset
  <2>19. QueuedHasBeat(P)
    BY <1>1, <1>4, <2>14, <2>15, BeatFacts DEF QueuedHasBeat
  <2>20. Books(P)
    BY <2>15, <2>16, <2>17, <2>18, <2>19 DEF Books, LookupMatchesLists
  <2>21. ReservedMatches(P)
    <3>1. P0.held
      BY <1>1, <1>4, <2>14 DEF ReservedMatches
    <3>2. P.known # {} <=> (P0.pending # {} \/ P0.queue # {})
      BY <2>15, <2>17
    <3> QED BY <2>15, <3>1, <3>2 DEF ReservedMatches
  <2>22. \A t \in P.pending : t \in A.pending \/ t.n >= n
    BY <2>3, <2>5, <2>14, <2>15
  <2>23. CASE ready = {}
    <3>1. P.pending = A.pending /\ P.next = A.next
      BY <2>14, <2>15, <2>23
    <3>2. Ahead(P, n, m)
      BY <3>1 DEF Ahead
    <3> QED BY <2>17, <2>20, <2>21, <2>22, <3>1, <3>2 DEF P
  <2>24. CASE ready # {}
    <3>1. P.next = top /\ top \in n..Nonces /\ m < top /\ top \in m..Nonces
      BY <1>0, <2>5, <2>14, <2>15, <2>24
    <3>2. Ahead(P, n, top)
      <4> SUFFICES ASSUME NEW k \in n..Nonces
                   PROVE  (\E t \in P.pending : t.n = k) <=> k < top
        BY DEF Ahead
      <4>1. (\E t \in P.pending : t.n = k) <=>
              (\E t \in A.pending : t.n = k) \/ (\E t \in ready : t.n = k)
        BY <2>14, <2>15
      <4>2. (\E t \in A.pending : t.n = k) <=> k < m
        BY DEF Ahead
      <4>3. CASE k < m
        BY <1>0, <3>1, <4>1, <4>2, <4>3
      <4>4. CASE k >= m
        <5>1. k \in m..Nonces
          BY <1>0, <4>4
        <5>2. (\E t \in ready : t.n = k) <=> k < top
          BY <2>5, <2>24, <5>1
        <5> QED BY <1>0, <4>1, <4>2, <4>4, <5>2
      <4> QED BY <1>0, <4>3, <4>4
    <3> QED BY <2>17, <2>20, <2>21, <2>22, <3>1, <3>2 DEF P
  <2> QED BY <2>23, <2>24
<1> QED BY <1>3, <1>4

\* demoteUnexecutables and setAll at the end of a reset, of an account whose
\* pending list is an unbroken run from the state's nonce n on.
LEMMA DemoteWhole ==
  ASSUME NEW A, Books(A), ReservedMatches(A), NEW S, NEW n \in 0..Nonces, S.nonce = n,
         NEW m \in n..Nonces, Ahead(A, n, m)
  PROVE  LET D == NextAfterReset(Demote(A, S), S)
         IN  Whole(D, n) /\ D.known \subseteq A.known
<1> DEFINE old == {t \in A.pending : t.n < S.nonce}
           poor == {t \in A.pending \ old : t.p > S.balance}
           after == {t \in (A.pending \ old) \ poor : \E s \in poor : s.n < t.n}
           rest == ((A.pending \ old) \ poor) \ after
           gapped == IF At(rest, S.nonce) = {} THEN rest ELSE {}
           back == after \cup gapped
           F == rest \ gapped
           kept == [A EXCEPT !.pending = F, !.known = @ \ (old \cup poor)]
           E == Enqueue(kept, back)
           U == Demote(A, S)
           D == NextAfterReset(U, S)
<1>0. Nonces \in Nat
  BY PoolAssumption
<1>1. /\ A \in AccountTxs /\ IsFiniteSet(A.known) /\ Unique(A.pending \cup A.queue)
      /\ A.pending \cap A.queue = {} /\ A.known = A.pending \cup A.queue /\ QueuedHasBeat(A)
  BY DEF Books, LookupMatchesLists
<1>2. /\ A.pending \in SUBSET Tx /\ A.queue \in SUBSET Tx /\ A.known \in SUBSET Tx
  BY <1>1 DEF AccountTxs
<1>3. \A t \in A.pending : t.n \in Nat /\ t.n \in 0..Nonces /\ t.n < Nonces
  BY <1>2, TxFields
<1>4. U = Unreserve(E)
  BY DEF Demote
<1>5. \A t \in rest, s \in A.pending : n <= s.n /\ s.n <= t.n => s \in rest
  <2> SUFFICES ASSUME NEW t \in rest, NEW s \in A.pending, n <= s.n, s.n <= t.n
               PROVE  s \in rest
    OBVIOUS
  <2>1. s \notin old
    BY <1>3
  <2>2. s \notin poor
    <3>1. s.n = t.n => s = t
      BY <1>1 DEF Unique
    <3>2. s \in poor => ~(s.n < t.n)
      OBVIOUS
    <3> QED BY <1>3, <3>1, <3>2
  <2>3. s \notin after
    <3>1. ASSUME NEW p \in poor, p.n < s.n PROVE FALSE
      <4>1. p.n < t.n
        BY <1>3, <3>1
      <4> QED BY <4>1
    <3> QED BY <3>1
  <2> QED BY <2>1, <2>2, <2>3
<1>6. /\ F \subseteq A.pending /\ back \subseteq A.pending /\ F \cap back = {}
      /\ A.pending = ((old \cup poor) \cup F) \cup back
      /\ (old \cup poor) \cap F = {} /\ (old \cup poor) \cap back = {}
      /\ old \cup poor \subseteq A.pending
  OBVIOUS
<1>7. \A t \in F : t.n >= n
  BY <1>3
<1>8. \A t \in F, s \in A.pending : n <= s.n /\ s.n <= t.n => s \in F
  <2>1. F = rest \/ F = {}
    OBVIOUS
  <2> HIDE DEF F, rest
  <2> QED BY <1>5, <2>1
<1> DEFINE gone == old \cup poor
<1>9. kept = [A EXCEPT !.pending = F, !.known = @ \ gone]
  OBVIOUS
<1> HIDE DEF F, back, gone
<1>10. /\ F \subseteq A.pending /\ back \subseteq A.pending /\ F \cap back = {}
       /\ A.pending = (gone \cup F) \cup back
       /\ gone \cap F = {} /\ gone \cap back = {} /\ gone \subseteq A.pending
  BY <1>6 DEF gone
<1> HIDE DEF kept
<1>11. /\ kept \in AccountTxs /\ kept.pending = F /\ kept.queue = A.queue
       /\ kept.known = A.known \ gone /\ kept.next = A.next /\ kept.held = A.held
       /\ kept.beat = A.beat
  BY <1>1, <1>2, <1>9, <1>10 DEF AccountTxs
<1>12. QueuedHasBeat(kept)
  BY <1>1, <1>11 DEF QueuedHasBeat
<1>13. \A s \in kept.queue, t \in back : s.n # t.n
  BY <1>1, <1>10, <1>11 DEF Unique
<1>14. back \in SUBSET Tx
  BY <1>2, <1>10
<1>15. /\ E \in AccountTxs /\ E.pending = F /\ E.queue = A.queue \cup back
       /\ E.known = (A.known \ gone) \cup back /\ E.held = A.held
       /\ QueuedHasBeat(E)
  BY <1>11, <1>12, <1>13, <1>14, EnqueueNew
<1> HIDE DEF E
<1>16. /\ U \in AccountTxs /\ U.pending = F /\ U.queue = A.queue \cup back
       /\ U.known = (A.known \ gone) \cup back /\ U.beat = E.beat
       /\ U.held <=> A.held /\ (F # {} \/ A.queue \cup back # {})
  BY <1>4, <1>15, UnreserveFacts
<1> HIDE DEF U
<1> DEFINE q == IF F = {} THEN n ELSE Max(NonceOf(F)) + 1
<1>17. D = [U EXCEPT !.next = q]
  BY <1>16 DEF NextAfterReset
<1>18. /\ q \in n..Nonces
       /\ \A k \in n..Nonces : (\E t \in F : t.n = k) <=> k < q
  <2>1. CASE F = {}
    <3>1. q = n
      BY <2>1
    <3> HIDE DEF q
    <3> QED BY <1>0, <2>1, <3>1
  <2>2. CASE F # {}
    <3> DEFINE N == NonceOf(F)
    <3>1. N \subseteq 0..Nonces /\ N # {}
      BY <1>3, <1>10, <2>2 DEF NonceOf
    <3>2. Max(N) \in N /\ \A y \in N : Max(N) >= y
      <4> HIDE DEF N
      <4> QED BY <1>0, <3>1, MaxFacts
    <3>3. PICK t \in F : Max(N) = t.n
      BY <3>2 DEF NonceOf
    <3>4. \A u \in F : u.n <= t.n /\ u.n \in Nat
      BY <1>3, <1>10, <3>2, <3>3 DEF NonceOf
    <3>5. q = t.n + 1 /\ t \in A.pending
      BY <1>10, <2>2, <3>3
    <3> HIDE DEF q, N
    <3>6. q \in n..Nonces /\ t.n \in n..Nonces
      BY <1>0, <1>3, <1>7, <3>3, <3>5
    <3>7. ASSUME NEW k \in n..Nonces, k < q PROVE \E u \in F : u.n = k
      <4>1. t.n < m
        BY <1>0, <3>5, <3>6 DEF Ahead
      <4>2. k <= t.n /\ k < m
        BY <1>0, <1>3, <3>5, <3>6, <3>7, <4>1
      <4>3. PICK u \in A.pending : u.n = k
        BY <4>2 DEF Ahead
      <4> QED BY <1>0, <1>8, <3>3, <4>2, <4>3
    <3>8. ASSUME NEW k \in n..Nonces, NEW u \in F, u.n = k PROVE k < q
      BY <1>0, <1>3, <3>4, <3>5, <3>8
    <3> QED BY <3>6, <3>7, <3>8
  <2> QED BY <2>1, <2>2
<1> HIDE DEF q
<1>19. q \in 0..Nonces
  BY <1>0, <1>18
<1>20. /\ D \in AccountTxs /\ D.pending = F /\ D.queue = A.queue \cup back
       /\ D.known = (A.known \ gone) \cup back /\ D.beat = E.beat /\ D.next = q
       /\ D.held = U.held
  BY <1>16, <1>17, <1>19 DEF AccountTxs
<1> HIDE DEF D
<1>21. /\ D.known = D.pending \cup D.queue /\ D.pending \cap D.queue = {}
       /\ D.pending \cup D.queue \subseteq A.pending \cup A.queue
  BY <1>1, <1>10, <1>20
<1>22. D.known \subseteq A.known
  BY <1>1, <1>21
<1>23. Unique(D.pending \cup D.queue)
  BY <1>1, <1>21 DEF Unique
<1>24. IsFiniteSet(D.known)
  BY <1>1, <1>22, FS_Subset
<1>25. QueuedHasBeat(D)
  BY <1>15, <1>20 DEF QueuedHasBeat
<1>26. Books(D)
  BY <1>20, <1>21, <1>23, <1>24, <1>25 DEF Books, LookupMatchesLists
<1>27. ReservedMatches(D)
  <2>1. D.known # {} => A.held
    BY <1>22 DEF ReservedMatches
  <2>2. D.known # {} <=> (F # {} \/ A.queue \cup back # {})
    BY <1>20, <1>21
  <2>3. D.held <=> A.held /\ (F # {} \/ A.queue \cup back # {})
    BY <1>16, <1>20
  <2> QED BY <2>1, <2>2, <2>3 DEF ReservedMatches
<1>28. Runs(D, n)
  BY <1>0, <1>7, <1>18, <1>20 DEF Runs, Ahead
<1> QED BY <1>22, <1>26, <1>27, <1>28 DEF Whole, D, U

\* What truncatePending does to one account: it keeps the level lowest.
LEMMA TruncateWhole ==
  ASSUME NEW A, NEW n \in 0..Nonces, Whole(A, n), NEW level \in Nat \ {0}
  PROVE  LET over == Beyond(A.pending, level)
             T == [A EXCEPT !.pending = @ \ over, !.known = @ \ over,
                            !.next = Lower(@, over)]
         IN  /\ Whole(T, n) /\ T.known \subseteq A.known
             /\ T.pending = A.pending \ over /\ T.queue = A.queue
<1> DEFINE over == Beyond(A.pending, level)
           T == [A EXCEPT !.pending = @ \ over, !.known = @ \ over, !.next = Lower(@, over)]
<1>0. Nonces \in Nat
  BY PoolAssumption
<1>1. /\ A \in AccountTxs /\ IsFiniteSet(A.known) /\ Unique(A.pending \cup A.queue)
      /\ A.pending \cap A.queue = {} /\ A.known = A.pending \cup A.queue /\ QueuedHasBeat(A)
  BY DEF Whole, Books, LookupMatchesLists
<1>2. /\ A.pending \in SUBSET Tx /\ A.queue \in SUBSET Tx /\ A.known \in SUBSET Tx
      /\ A.next \in 0..Nonces /\ IsFiniteSet(A.pending)
  BY <1>1, FS_Subset DEF AccountTxs
<1>3. \A t \in A.pending : t.n \in Nat /\ t.n \in 0..Nonces
  BY <1>2, TxFields
<1>4. /\ over \subseteq A.pending
      /\ \A s \in over, t \in A.pending : s.n <= t.n => t \in over
  BY <1>2, BeyondFacts
<1> DEFINE q == Lower(A.next, over)
<1>5. /\ q \in 0..Nonces /\ q <= A.next
      /\ \A t \in over : q <= t.n
      /\ q = A.next \/ \E t \in over : q = t.n
  <2>1. over \in SUBSET Tx
    BY <1>2, <1>4
  <2> HIDE DEF over
  <2> QED BY <1>2, <2>1, LowerFacts
<1> HIDE DEF over, q
<1>6. /\ T \in AccountTxs /\ T.pending = A.pending \ over /\ T.queue = A.queue
      /\ T.known = A.known \ over /\ T.next = q /\ T.held = A.held /\ T.beat = A.beat
  BY <1>1, <1>2, <1>5 DEF AccountTxs, q
<1> HIDE DEF T
<1>7. /\ T.known = T.pending \cup T.queue /\ T.pending \cap T.queue = {}
      /\ T.pending \cup T.queue \subseteq A.pending \cup A.queue /\ T.known \subseteq A.known
  BY <1>1, <1>4, <1>6
<1>8. Unique(T.pending \cup T.queue) /\ IsFiniteSet(T.known) /\ QueuedHasBeat(T)
  BY <1>1, <1>6, <1>7, FS_Subset DEF Unique, QueuedHasBeat
<1>9. Books(T)
  BY <1>6, <1>7, <1>8 DEF Books, LookupMatchesLists
<1>10. /\ n <= A.next /\ \A t \in A.pending : t.n >= n
       /\ \A k \in n..Nonces : (\E t \in A.pending : t.n = k) <=> k < A.next
  BY DEF Whole, Runs, Ahead
<1>11. n <= q
  BY <1>0, <1>2, <1>3, <1>4, <1>5, <1>10
<1>12. ASSUME NEW k \in n..Nonces, k < q PROVE \E t \in T.pending : t.n = k
  <2>1. PICK t \in A.pending : t.n = k
    BY <1>0, <1>2, <1>5, <1>10, <1>12
  <2>2. t \notin over
    BY <1>0, <1>3, <1>5, <1>12, <2>1
  <2> QED BY <1>6, <2>1, <2>2
<1>13. ASSUME NEW k \in n..Nonces, NEW t \in T.pending, t.n = k PROVE k < q
  <2>1. t \in A.pending /\ t \notin over
    BY <1>6
  <2>2. CASE q = A.next
    BY <1>10, <1>13, <2>1, <2>2
  <2>3. CASE \E s \in over : q = s.n
    BY <1>0, <1>3, <1>4, <1>5, <1>13, <2>1, <2>3
  <2> QED BY <1>5, <2>2, <2>3
<1>14. Runs(T, n)
  BY <1>6, <1>10, <1>11, <1>12, <1>13 DEF Runs, Ahead
<1>15. ReservedMatches(T)
  <2>1. ASSUME A.pending # {} PROVE T.pending # {}
    <3>1. Cardinality(A.pending) \in Nat /\ Cardinality(A.pending) # 0
      BY <1>2, <2>1, FS_CardinalityType, FS_EmptySet
    <3>2. 0 \in 0..Cardinality(A.pending) - 1
      BY <3>1
    <3>3. Unique(A.pending)
      BY <1>1 DEF Unique
    <3>4. PICK t \in A.pending : Rank(A.pending, t) = 0
      BY <1>2, <3>2, <3>3, RankCovers
    <3>5. t \notin over
      BY <3>4 DEF over, Beyond
    <3> QED BY <1>6, <3>4, <3>5
  <2>2. A.known # {} <=> T.known # {}
    BY <1>1, <1>6, <1>7, <2>1
  <2> QED BY <1>6, <2>2 DEF Whole, ReservedMatches
<1> QED BY <1>6, <1>7, <1>9, <1>14, <1>15 DEF T, over, Whole

-----------------------------------------------------------------------------
(* Sizes.                                                                  *)

\* The k lowest of a list are at most k.
LEMMA KeptSize ==
  ASSUME NEW txs \in SUBSET Tx, IsFiniteSet(txs), Unique(txs), NEW k \in Nat
  PROVE  LET kept == txs \ Beyond(txs, k)
         IN  /\ IsFiniteSet(kept) /\ Cardinality(kept) \in Nat
             /\ Cardinality(kept) <= k /\ Cardinality(kept) <= Cardinality(txs)
<1> DEFINE kept == txs \ Beyond(txs, k)
           I == 0..k - 1
           f == [t \in kept |-> Rank(txs, t)]
<1>1. kept \in SUBSET txs
  OBVIOUS
<1>2. IsFiniteSet(kept) /\ Cardinality(kept) \in Nat /\ Cardinality(kept) <= Cardinality(txs)
  <2> HIDE DEF kept
  <2> QED BY <1>1, FS_Subset, FS_CardinalityType
<1>3. IsFiniteSet(I) /\ Cardinality(I) = k
  BY FS_Interval
<1>4. ASSUME NEW t \in kept PROVE Rank(txs, t) \in I
  <2>1. Rank(txs, t) \in 0..Cardinality(txs) - 1 /\ ~(Rank(txs, t) >= k) /\ Cardinality(txs) \in Nat
    BY RankFacts, FS_CardinalityType DEF Beyond
  <2> QED BY <2>1
<1>5. \A s, t \in kept : Rank(txs, s) = Rank(txs, t) => s = t
  BY RankCovers
<1>6. f \in Injection(kept, I)
  <2>1. f \in [kept -> I]
    BY <1>4
  <2>2. IsInjective(f)
    BY <1>5 DEF IsInjective
  <2> HIDE DEF f, kept, I
  <2> QED BY <2>1, <2>2 DEF Injection
<1>7. Cardinality(kept) <= Cardinality(I)
  <2> HIDE DEF f, kept, I
  <2> QED BY <1>3, <1>6, FS_Injection
<1> HIDE DEF kept, I
<1> QED BY <1>2, <1>3, <1>7 DEF kept

\* A list is no longer than there are nonces.
LEMMA ListSize ==
  ASSUME NEW txs \in SUBSET Tx, Unique(txs)
  PROVE  IsFiniteSet(txs) /\ Cardinality(txs) \in 0..Nonces
<1> DEFINE I == 0..Nonces - 1
           f == [t \in txs |-> t.n]
<1>0. Nonces \in Nat
  BY PoolAssumption
<1>1. IsFiniteSet(I) /\ Cardinality(I) = Nonces
  BY <1>0, FS_Interval
<1>2. f \in Injection(txs, I)
  <2>1. f \in [txs -> I]
    BY TxFields
  <2>2. IsInjective(f)
    BY DEF IsInjective, Unique
  <2> HIDE DEF f, I
  <2> QED BY <2>1, <2>2 DEF Injection
<1>3. IsFiniteSet(txs) /\ Cardinality(txs) <= Cardinality(I)
  <2> HIDE DEF f, I
  <2> QED BY <1>1, <1>2, FS_Injection
<1>4. Cardinality(txs) \in Nat
  BY <1>3, FS_CardinalityType
<1> HIDE DEF I
<1> QED BY <1>0, <1>1, <1>3, <1>4

\* The lists of an account in order are finite sets with one transaction per nonce, so no
\* longer than the nonces there are.
LEMMA BooksSizes ==
  ASSUME NEW A, Books(A)
  PROVE  /\ A.pending \in SUBSET Tx /\ A.queue \in SUBSET Tx /\ A.known \in SUBSET Tx
         /\ IsFiniteSet(A.pending) /\ IsFiniteSet(A.queue) /\ IsFiniteSet(A.known)
         /\ Unique(A.pending) /\ Unique(A.queue)
         /\ Cardinality(A.pending) \in 0..Nonces /\ Cardinality(A.queue) \in 0..Nonces
         /\ Cardinality(A.known) \in Nat /\ Cardinality(A.pending) \in Nat
         /\ Cardinality(A.queue) \in Nat
<1>1. /\ A.pending \in SUBSET Tx /\ A.queue \in SUBSET Tx /\ A.known \in SUBSET Tx
      /\ IsFiniteSet(A.known) /\ Unique(A.pending) /\ Unique(A.queue)
  BY DEF Books, AccountTxs, Unique
<1>2. /\ IsFiniteSet(A.pending) /\ Cardinality(A.pending) \in 0..Nonces
      /\ IsFiniteSet(A.queue) /\ Cardinality(A.queue) \in 0..Nonces
  BY <1>1, ListSize
<1>3. /\ Cardinality(A.known) \in Nat /\ Cardinality(A.pending) \in Nat
      /\ Cardinality(A.queue) \in Nat
  BY <1>1, <1>2, FS_CardinalityType
<1> QED BY <1>1, <1>2, <1>3

\* Totals are the sums of FoldFacts.
LEMMA TotalIsSum ==
  ASSUME NEW f
  PROVE  Total(f) = SumFrom(0, f, Account)
BY DEF Total, MapThenSumSet, SumFrom, FoldFunctionOnSet

\* The sum of natural counts over the accounts is natural.
LEMMA TotalNat ==
  ASSUME NEW f, \A a \in Account : f[a] \in Nat
  PROVE  Total(f) \in Nat
<1>1. IsFiniteSet(Account)
  BY PoolAssumption
<1> QED BY <1>1, SumNat, TotalIsSum

\* A total grows with its summands.
LEMMA TotalAtMost ==
  ASSUME NEW f, NEW g, \A a \in Account : f[a] \in Nat /\ g[a] \in Nat /\ g[a] <= f[a]
  PROVE  Total(g) <= Total(f)
<1>1. IsFiniteSet(Account)
  BY PoolAssumption
<1>2. Summable(f, Account) /\ Summable(g, Account)
  BY <1>1 DEF Summable
<1>3. \A a \in Account : g[a] <= f[a] + (IF a \in {} THEN 0 ELSE 0)
  OBVIOUS
<1>4. SumFrom(0, g, Account) <= SumFrom(0, f, Account) + 0 * Cardinality({})
  BY <1>2, <1>3, SumSlack
<1>5. SumFrom(0, f, Account) \in Int
  BY <1>2, SumType
<1> QED BY <1>4, <1>5, TotalIsSum, FS_EmptySet

\* The slots of a pool that holds no transaction the other one does not.
LEMMA SlotsAtMost ==
  ASSUME NEW P, NEW Q, \A a \in Account : IsFiniteSet(P[a].known) /\ Q[a].known \subseteq P[a].known
  PROVE  Slots(Q) <= Slots(P) /\ Slots(Q) \in Nat /\ Slots(P) \in Nat
<1> DEFINE f == [a \in Account |-> Cardinality(P[a].known)]
           g == [a \in Account |-> Cardinality(Q[a].known)]
<1>1. ASSUME NEW a \in Account PROVE f[a] \in Nat /\ g[a] \in Nat /\ g[a] <= f[a]
  <2>1. IsFiniteSet(Q[a].known) /\ Cardinality(Q[a].known) <= Cardinality(P[a].known)
    BY FS_Subset
  <2> QED BY <2>1, FS_CardinalityType
<1> HIDE DEF f, g
<1>2. Total(g) <= Total(f) /\ Total(g) \in Nat /\ Total(f) \in Nat
  BY <1>1, TotalAtMost, TotalNat
<1> QED BY <1>2 DEF Slots, f, g

-----------------------------------------------------------------------------
(* A run of the reorg loop.                                                *)

\* Without a reset a dirty account is promoted in the state it is in.
LEMMA PromoteKeepsWhole ==
  ASSUME NEW A, NEW n \in 0..Nonces, Whole(A, n), NEW S, S.nonce = n
  PROVE  Whole(Promote(A, S), n) /\ Promote(A, S).known \subseteq A.known
<1> DEFINE P == Promote(A, S)
<1>0. Nonces \in Nat
  BY PoolAssumption
<1>1. Books(A) /\ ReservedMatches(A) /\ Runs(A, n) /\ A.next \in 0..Nonces
  BY DEF Whole, Books, AccountTxs
<1>2. A.next \in n..Nonces /\ Ahead(A, n, A.next) /\ A.next \in {n, A.next}
  BY <1>0, <1>1 DEF Runs
<1>3. /\ Books(P) /\ ReservedMatches(P) /\ P.known \subseteq A.known
      /\ \A t \in P.pending : t \in A.pending \/ t.n >= n
      /\ \E q \in n..Nonces : Ahead(P, n, q) /\ (A.next = A.next => P.next = q)
  <2> DEFINE m == A.next
  <2>1. m \in n..Nonces /\ Ahead(A, n, m) /\ A.next \in {n, m}
    BY <1>2
  <2> HIDE DEF m
  <2>2. /\ Books(P) /\ ReservedMatches(P) /\ P.known \subseteq A.known
        /\ \A t \in P.pending : t \in A.pending \/ t.n >= n
        /\ \E q \in n..Nonces : Ahead(P, n, q) /\ (A.next = m => P.next = q)
    BY <1>1, <2>1, PromoteWhole
  <2> QED BY <2>2 DEF m
<1> HIDE DEF P
<1>4. PICK q \in n..Nonces : Ahead(P, n, q) /\ P.next = q
  BY <1>3
<1>5. Runs(P, n)
  BY <1>0, <1>1, <1>3, <1>4 DEF Runs
<1> QED BY <1>3, <1>5 DEF Whole, P

\* With a reset to a state that is not behind the old one, all is set anew.
LEMMA ResetWhole ==
  ASSUME NEW A, NEW was \in 0..Nonces, Whole(A, was), NEW n \in 0..Nonces, was <= n,
         NEW S, S.nonce = n
  PROVE  LET D == NextAfterReset(Demote(Promote([A EXCEPT !.next = n], S), S), S)
         IN  Whole(D, n) /\ D.known \subseteq A.known
<1> DEFINE B == [A EXCEPT !.next = n]
           P == Promote(B, S)
           m == IF A.next <= n THEN n ELSE A.next
<1>0. Nonces \in Nat
  BY PoolAssumption
<1>1. Books(A) /\ ReservedMatches(A) /\ Runs(A, was) /\ A.next \in 0..Nonces /\ A \in AccountTxs
  BY DEF Whole, Books, AccountTxs
<1>2. /\ B \in AccountTxs /\ B.pending = A.pending /\ B.queue = A.queue /\ B.known = A.known
      /\ B.next = n /\ B.held = A.held /\ B.beat = A.beat
  BY <1>1 DEF AccountTxs
<1> HIDE DEF B
<1>3. Books(B) /\ ReservedMatches(B)
  BY <1>1, <1>2 DEF Books, ReservedMatches, LookupMatchesLists, QueuedHasBeat
<1>4. m \in n..Nonces
  BY <1>0, <1>1
<1>5. Ahead(B, n, m)
  <2> SUFFICES ASSUME NEW k \in n..Nonces PROVE (\E t \in B.pending : t.n = k) <=> k < m
    BY DEF Ahead
  <2>1. k \in was..Nonces
    BY <1>0
  <2>2. (\E t \in A.pending : t.n = k) <=> k < A.next
    BY <1>1, <2>1 DEF Runs, Ahead
  <2>3. k < A.next <=> k < m
    BY <1>0, <1>1
  <2> QED BY <1>2, <2>2, <2>3
<1> HIDE DEF m
<1>6. /\ Books(P) /\ ReservedMatches(P) /\ P.known \subseteq B.known
      /\ \E q \in n..Nonces : Ahead(P, n, q)
  BY <1>2, <1>3, <1>4, <1>5, PromoteWhole
<1> HIDE DEF P
<1>7. PICK q \in n..Nonces : Ahead(P, n, q)
  BY <1>6
<1> DEFINE D == NextAfterReset(Demote(P, S), S)
<1>8. Whole(D, n) /\ D.known \subseteq P.known
  BY <1>6, <1>7, DemoteWhole
<1> HIDE DEF D
<1>9. D.known \subseteq A.known
  BY <1>2, <1>6, <1>8
<1> QED BY <1>8, <1>9 DEF D, P, B

\* A pool whose accounts are whole with the nonces of h, and which holds
\* nothing that the pool did not hold before.
Sound(P, h) == \A a \in Account : Whole(P[a], h.nonce[a]) /\ P[a].known \subseteq pool[a].known

\* The first part of runReorg (reset, promoteExecutables, demoteUnexecutables and the new
\* pending nonces) leaves a sound pool for the head it works with.
LEMMA ReorgedSound ==
  ASSUME IndInv, NEW reset, NEW dirty, NEW h, h = IF reset THEN chain ELSE head
  PROVE  Sound(Reorged(h, reset, dirty), h) /\ h \in ChainState
<1>1. /\ AllWhole /\ HeadBehind /\ head \in ChainState /\ chain \in ChainState
  BY DEF IndInv, PoolTyped
<1>2. h \in ChainState
  BY <1>1
<1>3. ASSUME NEW a \in Account
      PROVE  /\ h.nonce[a] \in 0..Nonces /\ head.nonce[a] \in 0..Nonces
             /\ Whole(pool[a], head.nonce[a]) /\ head.nonce[a] <= h.nonce[a]
             /\ StateOf(h, a).nonce = h.nonce[a]
  <2>1. h.nonce[a] \in 0..Nonces /\ head.nonce[a] \in 0..Nonces
    BY <1>1, <1>2 DEF ChainState
  <2>2. head.nonce[a] <= h.nonce[a]
    <3>1. Nonces \in Nat
      BY PoolAssumption
    <3> QED BY <1>1, <2>1, <3>1 DEF HeadBehind
  <2> QED BY <1>1, <2>1, <2>2 DEF AllWhole, StateOf
<1>4. CASE reset
  <2> SUFFICES ASSUME NEW a \in Account
               PROVE  /\ Whole(Reorged(h, reset, dirty)[a], h.nonce[a])
                      /\ Reorged(h, reset, dirty)[a].known \subseteq pool[a].known
    BY <1>2 DEF Sound
  <2> DEFINE A == pool[a]
             n == h.nonce[a]
             S == StateOf(h, a)
             D == NextAfterReset(Demote(Promote([A EXCEPT !.next = n], S), S), S)
  <2>1. Reorged(h, reset, dirty)[a] = D
    BY <1>4 DEF Reorged, DemoteAll, PromoteAll
  <2> HIDE DEF A, n, S
  <2>2. Whole(D, n) /\ D.known \subseteq A.known
    BY <1>3, ResetWhole DEF A, n, S
  <2> QED BY <2>1, <2>2 DEF A, n
<1>5. CASE ~reset
  <2> SUFFICES ASSUME NEW a \in Account
               PROVE  /\ Whole(Reorged(h, reset, dirty)[a], h.nonce[a])
                      /\ Reorged(h, reset, dirty)[a].known \subseteq pool[a].known
    BY <1>2 DEF Sound
  <2>1. Reorged(h, reset, dirty)[a] =
          IF a \in dirty THEN Promote(pool[a], StateOf(h, a)) ELSE pool[a]
    BY <1>5 DEF Reorged, PromoteAll
  <2>2. h = head
    BY <1>5
  <2>3. /\ Whole(Promote(pool[a], StateOf(h, a)), h.nonce[a])
        /\ Promote(pool[a], StateOf(h, a)).known \subseteq pool[a].known
    BY <1>3, <2>2, PromoteKeepsWhole
  <2> QED BY <1>3, <2>1, <2>2, <2>3
<1> QED BY <1>2, <1>4, <1>5

\* The least of two integers.
LEMMA MinOfTwo ==
  ASSUME NEW x \in Int, NEW y \in Int
  PROVE  Min({x, y}) = IF x <= y THEN x ELSE y
<1> DEFINE m == IF x <= y THEN x ELSE y
<1>1. m \in {x, y} /\ \A z \in {x, y} : m <= z
  OBVIOUS
<1>2. \A z \in {x, y} : (\A w \in {x, y} : z <= w) => z = m
  OBVIOUS
<1> HIDE DEF m
<1>3. Min({x, y}) = m
  BY <1>1, <1>2 DEF Min
<1> QED BY <1>3 DEF m

\* The greatest of two integers.
LEMMA MaxOfTwo ==
  ASSUME NEW x \in Int, NEW y \in Int
  PROVE  Max({x, y}) = IF x >= y THEN x ELSE y
<1> DEFINE m == IF x >= y THEN x ELSE y
<1>1. m \in {x, y} /\ \A z \in {x, y} : m >= z
  OBVIOUS
<1>2. \A z \in {x, y} : (\A w \in {x, y} : z >= w) => z = m
  OBVIOUS
<1> HIDE DEF m
<1>3. Max({x, y}) = m
  BY <1>1, <1>2 DEF Max
<1> QED BY <1>3 DEF m

\* The level of truncatePending: AccountSlots, or one at which the total fits.
LEMMA LevelFacts ==
  ASSUME NEW P, \A a \in Account : Books(P[a])
  PROVE  /\ Level(P) \in Nat \ {0}
         /\ \/ Level(P) = AccountSlots
            \/ Total([a \in Account |-> Min({Cardinality(P[a].pending), Level(P)})]) <= GlobalSlots
<1> DEFINE Fits(l) == Total([a \in Account |-> Min({Cardinality(P[a].pending), l})]) <= GlobalSlots
           C == {Cardinality(P[a].pending) : a \in Account} \cup {AccountSlots}
           Longest == Max(C)
           L == {AccountSlots} \cup {l \in AccountSlots..Longest : Fits(l)}
           top == Nonces + AccountSlots
<1>0. Nonces \in Nat /\ AccountSlots \in Nat \ {0} /\ top \in Nat
  BY PoolAssumption
<1>1. C \subseteq 0..top /\ C # {}
  <2>1. \A a \in Account : Cardinality(P[a].pending) \in 0..Nonces
    BY BooksSizes
  <2>2. \A a \in Account : Cardinality(P[a].pending) \in 0..top
    BY <1>0, <2>1
  <2>3. AccountSlots \in 0..top
    BY <1>0
  <2> HIDE DEF top
  <2> QED BY <2>2, <2>3
<1>2. Longest \in 0..top
  <2> HIDE DEF C, top
  <2>1. Max(C) \in C
    BY <1>0, <1>1, MaxFacts
  <2> QED BY <1>1, <2>1
<1> HIDE DEF C, Longest, Fits
<1>3. L \subseteq 0..top /\ L # {}
  <2>1. \A l \in AccountSlots..Longest : l \in 0..top
    BY <1>0, <1>2
  <2>2. AccountSlots \in 0..top
    BY <1>0
  <2> HIDE DEF top
  <2> QED BY <2>1, <2>2
<1>4. Max(L) \in L
  <2> HIDE DEF L, top
  <2> QED BY <1>0, <1>3, MaxFacts
<1>5. Level(P) = Max(L)
  BY DEF Level, Fits, Longest, C
<1>6. Max(L) \in Nat \ {0}
  BY <1>0, <1>2, <1>4
<1>7. Max(L) = AccountSlots \/ Fits(Max(L))
  BY <1>4
<1> HIDE DEF L
<1>8. Level(P) = AccountSlots \/ Fits(Level(P))
  BY <1>5, <1>7
<1> QED BY <1>5, <1>6, <1>8 DEF Fits

\* truncatePending keeps the pool sound and the queue as it was, and ends under the global
\* limit or with every account within its guaranteed slots.
LEMMA TruncatePendingSound ==
  ASSUME NEW P, NEW h, Sound(P, h), h \in ChainState
  PROVE  LET T == TruncatePending(P)
         IN  /\ Sound(T, h)
             /\ \A a \in Account : T[a].queue = P[a].queue
             /\ \/ Total([a \in Account |-> Cardinality(T[a].pending)]) <= GlobalSlots
                \/ \A a \in Account : Cardinality(T[a].pending) <= AccountSlots
<1> DEFINE T == TruncatePending(P)
           l == Level(P)
           f == [a \in Account |-> Cardinality(T[a].pending)]
           g == [a \in Account |-> Min({Cardinality(P[a].pending), l})]
<1>0. GlobalSlots \in Nat /\ AccountSlots \in Nat
  BY PoolAssumption
<1>1. \A a \in Account : Books(P[a]) /\ Whole(P[a], h.nonce[a]) /\ h.nonce[a] \in 0..Nonces
  BY DEF Sound, Whole, ChainState
<1>2. l \in Nat \ {0} /\ (l = AccountSlots \/ Total(g) <= GlobalSlots)
  BY <1>1, LevelFacts
<1> HIDE DEF l
<1>3. ASSUME NEW a \in Account
      PROVE  /\ Whole(T[a], h.nonce[a]) /\ T[a].known \subseteq P[a].known
             /\ T[a].pending = P[a].pending \ Beyond(P[a].pending, l) /\ T[a].queue = P[a].queue
  <2> DEFINE A == P[a]
             n == h.nonce[a]
             over == Beyond(A.pending, l)
             X == [A EXCEPT !.pending = @ \ over, !.known = @ \ over, !.next = Lower(@, over)]
  <2>1. T[a] = X
    BY DEF TruncatePending, l
  <2> HIDE DEF A, n
  <2>2. /\ Whole(X, n) /\ X.known \subseteq A.known
        /\ X.pending = A.pending \ over /\ X.queue = A.queue
    BY <1>1, <1>2, TruncateWhole DEF A, n
  <2> QED BY <2>1, <2>2 DEF A, n
<1>4. Sound(T, h)
  BY <1>3 DEF Sound
<1>5. ASSUME NEW a \in Account
      PROVE  /\ f[a] \in Nat /\ g[a] \in Nat /\ f[a] <= g[a] /\ f[a] <= l
             /\ f[a] = Cardinality(T[a].pending)
  <2> DEFINE txs == P[a].pending
  <2>1. txs \in SUBSET Tx /\ IsFiniteSet(txs) /\ Unique(txs) /\ Cardinality(txs) \in Nat
    BY <1>1, BooksSizes
  <2> HIDE DEF txs, T
  <2>2. /\ Cardinality(txs \ Beyond(txs, l)) \in Nat
        /\ Cardinality(txs \ Beyond(txs, l)) <= l
        /\ Cardinality(txs \ Beyond(txs, l)) <= Cardinality(txs)
    BY <1>2, <2>1, KeptSize
  <2>3. f[a] = Cardinality(txs \ Beyond(txs, l)) /\ g[a] = Min({Cardinality(txs), l})
        /\ f[a] = Cardinality(T[a].pending)
    BY <1>3 DEF txs
  <2>4. Min({Cardinality(txs), l}) = IF Cardinality(txs) <= l THEN Cardinality(txs) ELSE l
    BY <1>2, <2>1, MinOfTwo
  <2> HIDE DEF f, g
  <2> QED BY <1>2, <2>1, <2>2, <2>3, <2>4
<1>6. CASE l = AccountSlots
  <2>1. \A a \in Account : Cardinality(T[a].pending) <= AccountSlots
    <3> HIDE DEF f, g, T
    <3> QED BY <1>5, <1>6
  <2> QED BY <1>3, <1>4, <2>1
<1>7. CASE Total(g) <= GlobalSlots
  <2>1. Total(f) <= Total(g) /\ Total(f) \in Nat /\ Total(g) \in Nat
    <3> HIDE DEF f, g, T
    <3> QED BY <1>5, TotalAtMost, TotalNat
  <2>2. Total(f) <= GlobalSlots
    <3> HIDE DEF f, g
    <3> QED BY <1>0, <1>7, <2>1
  <2> QED BY <1>3, <1>4, <2>2
<1> QED BY <1>2, <1>6, <1>7

-----------------------------------------------------------------------------
(* Cutting the queues.                                                     *)

\* What comes before each account in the order o, and what is cut of it.
Numbers(q) == \A a \in Account : q[a] \in Nat
OneByOne(o, c) == o \in [1..c -> Account] /\ \A i, j \in 1..c : i # j => o[i] # o[j]
Visits(o, c, q) == \A a \in Account : q[a] = 0 \/ \E i \in 1..c : o[i] = a
BeforeIn(o, q, before) ==
  \A a \in Account :
    before[a] = Total([b \in Account |->
                  IF \E i, j \in DOMAIN o : i < j /\ o[i] = b /\ o[j] = a THEN q[b] ELSE 0])
Cuts(q, before, excess, drop) ==
  \A a \in Account : drop[a] = Max({0, Min({q[a], excess - before[a]})})

\* What comes before the account after the first k is the sum of those k.
LEMMA BeforeNext ==
  ASSUME NEW c \in Nat, NEW o, OneByOne(o, c), NEW q, Numbers(q),
         NEW before, BeforeIn(o, q, before), NEW k \in Nat, k + 1 <= c
  PROVE  before[o[k + 1]] = SumFrom(0, q, {o[i] : i \in 1..k})
<1> USE DEF OneByOne, Numbers
<1> DEFINE x == o[k + 1]
           F == {o[i] : i \in 1..k}
           Earlier(b) == \E i, j \in DOMAIN o : i < j /\ o[i] = b /\ o[j] = x
           g == [b \in Account |-> IF Earlier(b) THEN q[b] ELSE 0]
<1>0. IsFiniteSet(Account)
  BY PoolAssumption
<1>1. x \in Account /\ F \in SUBSET Account /\ DOMAIN o = 1..c
  OBVIOUS
<1>2. \A b \in Account : Earlier(b) <=> b \in F
  <2> SUFFICES ASSUME NEW b \in Account PROVE Earlier(b) <=> b \in F
    OBVIOUS
  <2>1. ASSUME b \in F PROVE Earlier(b)
    <3>1. PICK i \in 1..k : o[i] = b
      BY <2>1
    <3>2. i \in DOMAIN o /\ k + 1 \in DOMAIN o /\ i < k + 1
      BY <1>1
    <3> QED BY <3>1, <3>2
  <2>2. ASSUME Earlier(b) PROVE b \in F
    <3>1. PICK i, j \in 1..c : i < j /\ o[i] = b /\ o[j] = x
      BY <1>1, <2>2
    <3>2. j = k + 1
      BY <3>1
    <3>3. i \in 1..k
      BY <3>1, <3>2
    <3> QED BY <3>1, <3>3
  <2> QED BY <2>1, <2>2
<1>3. before[x] = Total(g)
  BY <1>1 DEF BeforeIn
<1> HIDE DEF Earlier, F, x
<1>4. /\ \A b \in Account : g[b] \in Int
      /\ \A b \in Account \ F : g[b] = 0
      /\ \A b \in F : q[b] = g[b]
  BY <1>1, <1>2
<1> HIDE DEF g
<1>5. Summable(g, Account) /\ IsFiniteSet(F)
  BY <1>0, <1>1, <1>4, FS_Subset DEF Summable
<1>6. Summable(g, F)
  BY <1>1, <1>5, SummableSubset
<1>7. SumFrom(0, g, Account) = SumFrom(0, g, F)
  BY <1>1, <1>4, <1>5, SumSupport
<1>8. SumFrom(0, q, F) = SumFrom(0, g, F)
  BY <1>4, <1>6, SumAgree
<1> QED BY <1>3, <1>7, <1>8, TotalIsSum DEF x, F

\* A cut is between nothing and everything.
LEMMA CutFacts ==
  ASSUME NEW q \in Nat, NEW r \in Int
  PROVE  LET d == Max({0, Min({q, r})})
         IN  d \in 0..q /\ (d = q \/ d >= r)
<1> DEFINE m == Min({q, r})
           d == Max({0, m})
<1>1. m = IF q <= r THEN q ELSE r
  BY MinOfTwo
<1> HIDE DEF m
<1>2. m \in Int
  BY <1>1
<1>3. d = IF 0 >= m THEN 0 ELSE m
  BY <1>2, MaxOfTwo
<1> HIDE DEF d
<1>4. d \in 0..q /\ (d = q \/ d >= r)
  BY <1>1, <1>2, <1>3
<1> QED BY <1>4 DEF d, m

\* Cutting along an order that visits every account with something to cut
\* removes the excess.
LEMMA CutsExcess ==
  ASSUME NEW c \in Nat, NEW o, OneByOne(o, c), NEW q, Numbers(q), Visits(o, c, q),
         NEW before, BeforeIn(o, q, before), NEW limit \in Nat,
         NEW drop, Cuts(q, before, Total(q) - limit, drop),
         NEW left, \A a \in Account : left[a] = q[a] - drop[a]
  PROVE  Total(left) <= limit /\ \A a \in Account : drop[a] \in 0..q[a] /\ before[a] \in Nat
<1> DEFINE excess == Total(q) - limit
           F(k) == {o[i] : i \in 1..k}
           D(k) == SumFrom(0, drop, F(k))
           Q(k) == SumFrom(0, q, F(k))
           K == {k \in Nat : k <= c => D(k) >= excess \/ D(k) >= Q(k)}
<1>0. IsFiniteSet(Account)
  BY PoolAssumption
<1>1. Total(q) \in Nat /\ excess \in Int
  BY TotalNat DEF Numbers
<1>2. \A a \in Account : before[a] \in Nat
  <2> SUFFICES ASSUME NEW a \in Account PROVE before[a] \in Nat
    OBVIOUS
  <2> DEFINE g == [b \in Account |->
                    IF \E i, j \in DOMAIN o : i < j /\ o[i] = b /\ o[j] = a THEN q[b] ELSE 0]
  <2>1. \A b \in Account : g[b] \in Nat
    BY DEF Numbers
  <2>2. before[a] = Total(g)
    BY DEF BeforeIn
  <2> HIDE DEF g
  <2> QED BY <2>1, <2>2, TotalNat
<1>3. \A a \in Account : /\ drop[a] \in 0..q[a]
                         /\ drop[a] = q[a] \/ drop[a] >= excess - before[a]
  <2> SUFFICES ASSUME NEW a \in Account
               PROVE  /\ drop[a] \in 0..q[a]
                      /\ drop[a] = q[a] \/ drop[a] >= excess - before[a]
    OBVIOUS
  <2>1. drop[a] = Max({0, Min({q[a], excess - before[a]})})
    BY DEF Cuts
  <2>2. q[a] \in Nat /\ excess - before[a] \in Int
    BY <1>1, <1>2 DEF Numbers
  <2> HIDE DEF excess
  <2> QED BY <2>1, <2>2, CutFacts
<1> HIDE DEF excess
<1>4. \A a \in Account : drop[a] \in Nat /\ drop[a] \in Int /\ q[a] \in Int /\ left[a] \in Int
  BY <1>3 DEF Numbers
<1>5. /\ Summable(q, Account) /\ Summable(drop, Account) /\ Summable(left, Account)
  BY <1>0, <1>4 DEF Summable
<1>6. \A k \in Nat : k <= c => F(k) \in SUBSET Account
  BY DEF OneByOne
<1>7. \A k \in Nat : k <= c => /\ Summable(q, F(k)) /\ Summable(drop, F(k))
                              /\ Q(k) \in Int /\ D(k) \in Int
  <2> SUFFICES ASSUME NEW k \in Nat, k <= c
               PROVE  Summable(q, F(k)) /\ Summable(drop, F(k)) /\ Q(k) \in Int /\ D(k) \in Int
    OBVIOUS
  <2>1. F(k) \in SUBSET Account
    BY <1>6
  <2> HIDE DEF F
  <2>2. Summable(q, F(k)) /\ Summable(drop, F(k))
    BY <1>5, <2>1, SummableSubset
  <2> QED BY <2>2, SumType
<1>8. 0 \in K
  <2>1. F(0) = {}
    OBVIOUS
  <2> HIDE DEF F
  <2>2. D(0) = 0 /\ Q(0) = 0
    BY <2>1, SumEmpty
  <2> QED BY <2>2
<1>9. ASSUME NEW k \in Nat, k \in K PROVE k + 1 \in K
  <2> SUFFICES ASSUME k + 1 <= c PROVE D(k + 1) >= excess \/ D(k + 1) >= Q(k + 1)
    OBVIOUS
  <2> DEFINE x == o[k + 1]
  <2>1. x \in Account /\ x \in F(k + 1) /\ F(k + 1) \ {x} = F(k)
    BY DEF OneByOne
  <2>2. before[x] = Q(k)
    BY BeforeNext
  <2>3. /\ Summable(q, F(k + 1)) /\ Summable(drop, F(k + 1))
        /\ Q(k) \in Int /\ D(k) \in Int /\ Q(k + 1) \in Int /\ D(k + 1) \in Int
    <3>1. k <= c /\ k + 1 \in Nat
      OBVIOUS
    <3> HIDE DEF F, D, Q
    <3> QED BY <1>7, <3>1
  <2>4. D(k) >= excess \/ D(k) >= Q(k)
    BY <1>9
  <2> HIDE DEF F, x
  <2>5. D(k + 1) = drop[x] + D(k) /\ Q(k + 1) = q[x] + Q(k)
    BY <2>1, <2>3, SumRemove
  <2>6. drop[x] \in Nat /\ q[x] \in Nat /\ (drop[x] = q[x] \/ drop[x] >= excess - before[x])
    BY <1>3, <1>4, <2>1 DEF Numbers
  <2> HIDE DEF D, Q
  <2> QED BY <1>1, <2>2, <2>3, <2>4, <2>5, <2>6
<1>10. Nat \subseteq K
  <2> HIDE DEF K
  <2> QED BY <1>8, <1>9, NatSetInduction
<1>11. D(c) >= excess \/ D(c) >= Q(c)
  <2> HIDE DEF D, Q
  <2> QED BY <1>10
<1>12. F(c) \in SUBSET Account /\ \A a \in Account \ F(c) : q[a] = 0
  BY DEF OneByOne, Visits
<1>13. \A a \in Account \ F(c) : drop[a] = 0
  <2> HIDE DEF F
  <2> QED BY <1>3, <1>12
<1> HIDE DEF F
<1>14. Total(q) = Q(c) /\ Total(drop) = D(c)
  BY <1>5, <1>12, <1>13, SumSupport, TotalIsSum
<1>15. \A a \in Account : q[a] = left[a] + drop[a]
  BY <1>4
<1>16. SumFrom(0, q, Account) = SumFrom(0, left, Account) + SumFrom(0, drop, Account)
  BY <1>5, <1>15, SumAdd
<1>17. SumFrom(0, left, Account) \in Int
  BY <1>5, SumType
<1>18. Q(c) \in Int /\ D(c) \in Int
  BY <1>7
<1> HIDE DEF Q, D
<1>19. Total(left) <= limit
  BY <1>1, <1>11, <1>14, <1>16, <1>17, <1>18, TotalIsSum DEF excess
<1> QED BY <1>2, <1>3, <1>19

\* An order of truncateQueue visits every account with a queue once.
LEMMA OldestVisits ==
  ASSUME NEW P, NEW o \in Oldest(P), NEW q,
         \A a \in Account : q[a] = 0 \/ P[a].queue # {}
  PROVE  \E c \in Nat : OneByOne(o, c) /\ Visits(o, c, q)
<1> DEFINE S == {a \in Account : P[a].queue # {}}
           c == Cardinality(S)
           I == 1..c
<1>0. IsFiniteSet(Account)
  BY PoolAssumption
<1>1. S \in SUBSET Account
  OBVIOUS
<1>2. IsFiniteSet(S) /\ c \in Nat
  <2> HIDE DEF S
  <2> QED BY <1>0, <1>1, FS_Subset, FS_CardinalityType
<1>3. o \in [I -> S] /\ \A i, j \in I : i # j => o[i] # o[j]
  BY DEF Oldest, SetToSeqs
<1> HIDE DEF c
<1>4. Cardinality(I) = c /\ IsFiniteSet(I)
  BY <1>2, FS_Interval
<1>5. o \in Surjection(I, S)
  <2> HIDE DEF S, I
  <2>1. o \in Injection(I, S)
    BY <1>3 DEF Injection, IsInjective
  <2> QED BY <1>2, <1>4, <2>1, FS_Injection DEF c
<1>6. \A a \in S : \E i \in I : o[i] = a
  <2> HIDE DEF S, I
  <2> QED BY <1>5 DEF Surjection
<1>7. OneByOne(o, c)
  BY <1>1, <1>3 DEF OneByOne
<1>8. Visits(o, c, q)
  BY <1>6 DEF Visits
<1> QED BY <1>2, <1>7, <1>8

\* truncateQueue keeps the pool sound and the pending lists as they were, and ends with the
\* queue under the global limit.
LEMMA TruncateQueueSound ==
  ASSUME NEW P, NEW h, Sound(P, h), h \in ChainState, NEW o \in Oldest(P)
  PROVE  LET T == TruncateQueue(P, o)
         IN  /\ Sound(T, h) /\ T = [a \in Account |-> T[a]]
             /\ \A a \in Account : T[a].pending = P[a].pending
             /\ Total([a \in Account |-> Cardinality(T[a].queue)]) <= GlobalQueue
<1> DEFINE T == TruncateQueue(P, o)
           q == [a \in Account |-> Cardinality(P[a].queue)]
           excess == Total(q) - GlobalQueue
           before == [a \in Account |-> Total([b \in Account |->
                       IF \E i, j \in DOMAIN o : i < j /\ o[i] = b /\ o[j] = a
                         THEN q[b] ELSE 0])]
           drop == [a \in Account |-> Max({0, Min({q[a], excess - before[a]})})]
           left == [a \in Account |-> q[a] - drop[a]]
           Surplus(a) == Beyond(P[a].queue, q[a] - drop[a])
<1>0. GlobalQueue \in Nat
  BY PoolAssumption
<1>1. \A a \in Account : Books(P[a]) /\ Whole(P[a], h.nonce[a]) /\ h.nonce[a] \in 0..Nonces
  BY DEF Sound, Whole, ChainState
<1>2. \A a \in Account : /\ P[a].queue \in SUBSET Tx /\ IsFiniteSet(P[a].queue)
                         /\ Unique(P[a].queue) /\ Cardinality(P[a].queue) \in Nat
  BY <1>1, BooksSizes
<1>3. /\ \A a \in Account : T[a] = FoldLeft(RemoveTx, P[a], Reverse(ByNonce(Surplus(a))))
      /\ T = [a \in Account |-> T[a]]
  <2> DEFINE Queued(a) == Cardinality(P[a].queue)
             Excess == Total([a \in Account |-> Queued(a)]) - GlobalQueue
             Before(a) == Total([b \in Account |->
                            IF \E i, j \in DOMAIN o : i < j /\ o[i] = b /\ o[j] = a
                              THEN Queued(b) ELSE 0])
             Drop(a) == Max({0, Min({Queued(a), Excess - Before(a)})})
  <2>1. T = [a \in Account |-> FoldLeft(RemoveTx, P[a],
                Reverse(ByNonce(Beyond(P[a].queue, Queued(a) - Drop(a)))))]
    BY DEF TruncateQueue
  <2>2. Excess = excess /\ \A a \in Account : Queued(a) = q[a]
    OBVIOUS
  <2>3. \A a \in Account : Before(a) = before[a]
    <3> SUFFICES ASSUME NEW a \in Account PROVE Before(a) = before[a]
      OBVIOUS
    <3> DEFINE E(b) == \E i, j \in DOMAIN o : i < j /\ o[i] = b /\ o[j] = a
    <3>1. [b \in Account |-> IF E(b) THEN Queued(b) ELSE 0]
            = [b \in Account |-> IF E(b) THEN q[b] ELSE 0]
      <4> HIDE DEF E
      <4> QED OBVIOUS
    <3> QED BY <3>1
  <2> HIDE DEF Excess, excess, Before, before
  <2>4. \A a \in Account : Drop(a) = drop[a]
    BY <2>2, <2>3
  <2> HIDE DEF Drop, drop
  <2>5. \A a \in Account : Beyond(P[a].queue, Queued(a) - Drop(a)) = Surplus(a)
    BY <2>2, <2>4
  <2> HIDE DEF Surplus, Queued, T
  <2>6. T = [a \in Account |-> FoldLeft(RemoveTx, P[a], Reverse(ByNonce(Surplus(a))))]
    BY <2>1, <2>5
  <2> QED BY <2>6
<1>4. PICK c \in Nat : OneByOne(o, c) /\ Visits(o, c, q)
  <2>1. \A a \in Account : q[a] = 0 \/ P[a].queue # {}
    BY FS_EmptySet
  <2> HIDE DEF q
  <2> QED BY <2>1, OldestVisits
<1>5. Numbers(q)
  BY <1>2 DEF Numbers
<1>6. BeforeIn(o, q, before) /\ Cuts(q, before, excess, drop)
  <2>1. BeforeIn(o, q, before)
    BY DEF BeforeIn
  <2> HIDE DEF before, excess, q
  <2>2. Cuts(q, before, excess, drop)
    BY DEF Cuts
  <2> QED BY <2>1, <2>2
<1>7. \A a \in Account : left[a] = q[a] - drop[a] /\ q[a] = Cardinality(P[a].queue)
  <2> HIDE DEF drop
  <2> QED OBVIOUS
<1> HIDE DEF q, before, drop, left, T
<1>8. Total(left) <= GlobalQueue /\ \A a \in Account : drop[a] \in 0..q[a]
  BY <1>0, <1>4, <1>5, <1>6, <1>7, CutsExcess
<1> HIDE DEF excess
<1>9. ASSUME NEW a \in Account
      PROVE  /\ Whole(T[a], h.nonce[a]) /\ T[a].known \subseteq P[a].known
             /\ T[a].pending = P[a].pending /\ T[a].queue = P[a].queue \ Surplus(a)
             /\ left[a] \in Nat /\ Cardinality(T[a].queue) \in Nat
             /\ Cardinality(T[a].queue) <= left[a]
  <2> DEFINE A == P[a]
             n == h.nonce[a]
             l == q[a] - drop[a]
             S == Beyond(A.queue, l)
             s == Reverse(ByNonce(S))
             R == FoldLeft(RemoveTx, A, s)
  <2>1. T[a] = R /\ left[a] = l /\ Surplus(a) = S
    BY <1>3, <1>7
  <2>2. l \in Nat
    BY <1>5, <1>8 DEF Numbers
  <2>3. Whole(A, n) /\ n \in 0..Nonces
    BY <1>1
  <2>4. A.queue \in SUBSET Tx /\ IsFiniteSet(A.queue) /\ Unique(A.queue)
    BY <1>2
  <2> HIDE DEF A, n, l
  <2>5. S \subseteq A.queue
    BY <2>2, <2>4, BeyondFacts
  <2>6. S \in SUBSET Tx /\ IsFiniteSet(S) /\ Unique(S)
    <3> HIDE DEF S
    <3> QED BY <2>4, <2>5, FS_Subset DEF Unique
  <2>7. /\ IsFiniteSet(A.queue \ S) /\ Cardinality(A.queue \ S) \in Nat
        /\ Cardinality(A.queue \ S) <= l
    BY <2>2, <2>4, KeptSize
  <2> HIDE DEF S
  <2>8. Lists(s, S)
    BY <2>6, ByNonceLists
  <2> HIDE DEF s
  <2>9. /\ Whole(R, n) /\ R.known = A.known \ S
        /\ R.pending = A.pending /\ R.queue = A.queue \ S
    BY <2>3, <2>5, <2>6, <2>8, RemoveAllWhole
  <2> HIDE DEF R
  <2> QED BY <2>1, <2>2, <2>7, <2>9 DEF A, n
<1> HIDE DEF Surplus
<1>10. Sound(T, h)
  BY <1>9 DEF Sound
<1> DEFINE f == [a \in Account |-> Cardinality(T[a].queue)]
<1>11. \A a \in Account : f[a] \in Nat /\ left[a] \in Nat /\ f[a] <= left[a]
  BY <1>9
<1> HIDE DEF f
<1>12. Total(f) <= Total(left) /\ Total(f) \in Nat /\ Total(left) \in Nat
  BY <1>11, TotalAtMost, TotalNat
<1>13. Total(f) <= GlobalQueue
  BY <1>0, <1>8, <1>12
<1> QED BY <1>3, <1>9, <1>10, <1>13 DEF f, T

-----------------------------------------------------------------------------
(* Adding a transaction.                                                   *)

\* The end of add on one account, whose own eviction may have left it without
\* a transaction but still reserved.
Inserted(A, t) ==
  LET B == [A EXCEPT !.held = TRUE] IN
  IF At(B.pending, t.n) # {}
    THEN [B EXCEPT !.pending = (@ \ At(@, t.n)) \cup {t},
                   !.known = (@ \ At(B.pending, t.n)) \cup {t}, !.beat = 0]
    ELSE Enqueue(B, {t})

\* add: inserting a transaction that is not below the account's nonce, in either list, keeps
\* the account's books and its run of pending nonces.
LEMMA InsertWhole ==
  ASSUME NEW A, Books(A), NEW n \in 0..Nonces, Runs(A, n), NEW t \in Tx, t.n >= n
  PROVE  Whole(Inserted(A, t), n) /\ Inserted(A, t).known \subseteq A.known \cup {t}
<1> DEFINE B == [A EXCEPT !.held = TRUE]
           same == At(A.pending, t.n)
           X == [B EXCEPT !.pending = (@ \ At(@, t.n)) \cup {t},
                          !.known = (@ \ At(B.pending, t.n)) \cup {t}, !.beat = 0]
           E == Enqueue(B, {t})
           R == Inserted(A, t)
<1>10. R = IF At(B.pending, t.n) # {} THEN X ELSE E
  BY DEF Inserted
<1>0. Nonces \in Nat /\ t.n \in Nat
  BY PoolAssumption, TxFields
<1>1. /\ A \in AccountTxs /\ IsFiniteSet(A.known) /\ Unique(A.pending \cup A.queue)
      /\ A.pending \cap A.queue = {} /\ A.known = A.pending \cup A.queue /\ QueuedHasBeat(A)
      /\ A.pending \in SUBSET Tx /\ A.queue \in SUBSET Tx
  BY DEF Books, LookupMatchesLists, AccountTxs
<1>2. /\ B \in AccountTxs /\ B.pending = A.pending /\ B.queue = A.queue /\ B.known = A.known
      /\ B.next = A.next /\ B.beat = A.beat /\ B.held
  BY <1>1 DEF AccountTxs
<1> HIDE DEF B
<1>3. n <= A.next /\ Ahead(A, n, A.next) /\ \A s \in A.pending : s.n >= n
  BY DEF Runs
<1>4. CASE same # {}
  <2>1. /\ X \in AccountTxs /\ X.pending = (A.pending \ same) \cup {t} /\ X.queue = A.queue
        /\ X.known = (A.known \ same) \cup {t} /\ X.next = A.next /\ X.beat = 0 /\ X.held
    <3>1. same = At(B.pending, t.n)
      BY <1>2
    <3> HIDE DEF same
    <3>2. X = [B EXCEPT !.pending = (@ \ same) \cup {t},
                        !.known = (@ \ same) \cup {t}, !.beat = 0]
      BY <3>1, <1>2
    <3> HIDE DEF X
    <3> QED BY <1>2, <3>2, BeatFacts DEF AccountTxs
  <2> HIDE DEF X
  <2>2. same \subseteq A.pending /\ (\A s \in A.pending : s.n = t.n <=> s \in same)
    BY DEF At
  <2>3. \A s \in A.queue : s.n # t.n
    BY <1>1, <1>4, <2>2 DEF Unique
  <2>4. Unique(X.pending \cup X.queue) /\ X.pending \cap X.queue = {}
    BY <1>1, <2>1, <2>2, <2>3 DEF Unique
  <2>5. LookupMatchesLists(X) /\ QueuedHasBeat(X) /\ ReservedMatches(X)
    BY <1>1, <2>1, <2>2, BeatFacts DEF LookupMatchesLists, QueuedHasBeat, ReservedMatches
  <2>6. IsFiniteSet(X.known) /\ X.known \subseteq A.known \cup {t}
    <3>1. IsFiniteSet(A.known \cup {t})
      BY <1>1, FS_AddElement
    <3>2. X.known \in SUBSET (A.known \cup {t})
      BY <2>1
    <3> QED BY <3>1, <3>2, FS_Subset
  <2>7. \A k \in n..Nonces : (\E s \in X.pending : s.n = k) <=> (\E s \in A.pending : s.n = k)
    BY <1>4, <2>1, <2>2
  <2>8. Runs(X, n)
    BY <1>3, <2>1, <2>7 DEF Runs, Ahead
  <2>9. R = X
    BY <1>2, <1>4, <1>10
  <2> HIDE DEF R
  <2> QED BY <2>1, <2>4, <2>5, <2>6, <2>8, <2>9 DEF Whole, Books, R
<1>5. CASE same = {}
  <2> DEFINE replaced == {s \in B.queue : At({t}, s.n) # {}}
  <2>1. /\ E \in AccountTxs /\ E.pending = B.pending /\ E.queue = (B.queue \ replaced) \cup {t}
        /\ E.known = (B.known \ replaced) \cup {t} /\ E.next = B.next /\ E.held = B.held
        /\ E.beat = IF {t} # {} /\ B.beat = None THEN 0 ELSE B.beat
    BY <1>2, EnqueueFacts
  <2>2. replaced \subseteq A.queue /\ (\A s \in A.queue : s.n = t.n <=> s \in replaced)
    BY <1>2 DEF At
  <2>3. \A s \in A.pending : s.n # t.n
    BY <1>5 DEF At
  <2> HIDE DEF E, replaced
  <2>4. /\ E.pending = A.pending /\ E.queue = (A.queue \ replaced) \cup {t}
        /\ E.known = (A.known \ replaced) \cup {t} /\ E.next = A.next /\ E.held
        /\ E.beat # None
    BY <1>2, <2>1, BeatFacts
  <2>5. Unique(E.pending \cup E.queue) /\ E.pending \cap E.queue = {}
    BY <1>1, <2>2, <2>3, <2>4 DEF Unique
  <2>6. LookupMatchesLists(E) /\ QueuedHasBeat(E) /\ ReservedMatches(E)
    BY <1>1, <2>2, <2>4 DEF LookupMatchesLists, QueuedHasBeat, ReservedMatches
  <2>7. IsFiniteSet(E.known) /\ E.known \subseteq A.known \cup {t}
    <3>1. IsFiniteSet(A.known \cup {t})
      BY <1>1, FS_AddElement
    <3>2. E.known \in SUBSET (A.known \cup {t})
      BY <2>4
    <3> QED BY <3>1, <3>2, FS_Subset
  <2>8. Runs(E, n)
    BY <1>3, <2>4 DEF Runs, Ahead
  <2>9. R = E
    BY <1>2, <1>5, <1>10
  <2> HIDE DEF R
  <2> QED BY <2>1, <2>5, <2>6, <2>7, <2>8, <2>9 DEF Whole, Books, R
<1> QED BY <1>4, <1>5

\* An account changes its part of the lookup: what that makes of the slots.
LEMMA SlotsUpdate ==
  ASSUME NEW P, NEW Q, NEW a \in Account,
         \A x \in Account : IsFiniteSet(P[x].known) /\ IsFiniteSet(Q[x].known),
         \A x \in Account \ {a} : Q[x].known = P[x].known
  PROVE  /\ Slots(Q) = Slots(P) + (Cardinality(Q[a].known) - Cardinality(P[a].known))
         /\ Slots(P) \in Nat /\ Slots(Q) \in Nat
         /\ Cardinality(Q[a].known) \in Nat /\ Cardinality(P[a].known) \in Nat
<1> DEFINE f == [x \in Account |-> Cardinality(P[x].known)]
           g == [x \in Account |-> Cardinality(Q[x].known)]
<1>0. IsFiniteSet(Account)
  BY PoolAssumption
<1>1. \A x \in Account : f[x] \in Nat /\ g[x] \in Nat
  BY FS_CardinalityType
<1>2. \A x \in Account \ {a} : g[x] = f[x]
  OBVIOUS
<1>3. f[a] = Cardinality(P[a].known) /\ g[a] = Cardinality(Q[a].known)
  OBVIOUS
<1> HIDE DEF f, g
<1>4. Summable(f, Account) /\ g[a] \in Int
  BY <1>0, <1>1 DEF Summable
<1>5. SumFrom(0, g, Account) = SumFrom(0, f, Account) + (g[a] - f[a])
  BY <1>2, <1>4, SumUpdate
<1>6. Total(f) \in Nat /\ Total(g) \in Nat
  BY <1>1, TotalNat
<1>7. Slots(P) = Total(f) /\ Slots(Q) = Total(g)
  BY DEF Slots, f, g
<1> QED BY <1>1, <1>3, <1>5, <1>6, <1>7, TotalIsSum

\* A pool whose accounts are whole with the nonces of the head.
PoolWhole(P) == P \in [Account -> AccountTxs] /\ \A x \in Account : Whole(P[x], head.nonce[x])

\* The end of add in the pool P, where room was made.
LEMMA ConcludeWhole ==
  ASSUME head \in ChainState, NEW a \in Account, NEW t \in Tx, t.n >= head.nonce[a],
         NEW P \in [Account -> AccountTxs],
         \A x \in Account \ {a} : Whole(P[x], head.nonce[x]),
         Books(P[a]), Runs(P[a], head.nonce[a]), P[a].known # {} => ReservedMatches(P[a]),
         Slots(P) + 1 <= GlobalSlots + GlobalQueue,
         NEW Q, Q = IF Bumps(t, P[a].pending \cup P[a].queue) THEN Insert(P, a, t) ELSE P
  PROVE  PoolWhole(Q) /\ Slots(Q) <= GlobalSlots + GlobalQueue
<1>0. GlobalSlots \in Nat /\ GlobalQueue \in Nat
  BY PoolAssumption
<1>1. head.nonce[a] \in 0..Nonces
  BY DEF ChainState
<1>2. \A x \in Account : Books(P[x]) /\ IsFiniteSet(P[x].known)
  BY DEF Whole, Books
<1>3. CASE Bumps(t, P[a].pending \cup P[a].queue)
  <2> DEFINE A == P[a]
             n == head.nonce[a]
             R == Inserted(A, t)
  <2>1. Q = [P EXCEPT ![a] = R]
    BY <1>3 DEF Insert, Inserted
  <2>2. Books(A) /\ Runs(A, n) /\ n \in 0..Nonces /\ t.n >= n
    BY <1>1
  <2> HIDE DEF A, n
  <2>3. Whole(R, n) /\ R.known \subseteq A.known \cup {t}
    BY <2>2, InsertWhole
  <2> HIDE DEF R
  <2>4. R \in AccountTxs /\ IsFiniteSet(R.known)
    BY <2>3 DEF Whole, Books
  <2>5. /\ Q \in [Account -> AccountTxs] /\ Q[a] = R
        /\ \A x \in Account \ {a} : Q[x] = P[x]
    BY <2>1, <2>4
  <2>6. PoolWhole(Q)
    BY <2>3, <2>5 DEF PoolWhole, n
  <2>7. IsFiniteSet(A.known) /\ A.known = P[a].known
    BY <1>2 DEF A
  <2>8. /\ IsFiniteSet(A.known \cup {t}) /\ Cardinality(A.known \cup {t}) <= Cardinality(A.known) + 1
    <3>1. /\ IsFiniteSet(A.known \cup {t}) /\ Cardinality(A.known) \in Nat
          /\ Cardinality(A.known \cup {t}) =
               IF t \in A.known THEN Cardinality(A.known) ELSE Cardinality(A.known) + 1
      BY <2>7, FS_AddElement, FS_CardinalityType
    <3> QED BY <3>1
  <2>9. Cardinality(R.known) <= Cardinality(A.known) + 1
    <3>1. Cardinality(R.known) <= Cardinality(A.known \cup {t})
      BY <2>3, <2>8, FS_Subset
    <3>2. /\ Cardinality(R.known) \in Nat /\ Cardinality(A.known) \in Nat
          /\ Cardinality(A.known \cup {t}) \in Nat
      BY <2>4, <2>7, <2>8, FS_CardinalityType
    <3> QED BY <2>8, <3>1, <3>2
  <2>10. \A x \in Account : IsFiniteSet(Q[x].known)
    BY <1>2, <2>4, <2>5
  <2>11. /\ Slots(Q) = Slots(P) + (Cardinality(Q[a].known) - Cardinality(P[a].known))
         /\ Slots(P) \in Nat /\ Slots(Q) \in Nat
         /\ Cardinality(Q[a].known) \in Nat /\ Cardinality(P[a].known) \in Nat
    BY <1>2, <2>5, <2>10, SlotsUpdate
  <2>12. Cardinality(Q[a].known) <= Cardinality(P[a].known) + 1
    BY <2>5, <2>7, <2>9
  <2> QED BY <1>0, <2>6, <2>11, <2>12
<1>4. CASE ~Bumps(t, P[a].pending \cup P[a].queue)
  <2>1. Q = P
    BY <1>4
  <2>2. P[a].known # {}
    <3>1. P[a].pending \cup P[a].queue # {}
      BY <1>4 DEF Bumps, At
    <3> QED BY <3>1 DEF Books, LookupMatchesLists
  <2>3. PoolWhole(P)
    BY <2>2 DEF PoolWhole, Whole
  <2>4. Slots(P) \in Nat
    BY <1>2, SlotsAtMost
  <2> QED BY <1>0, <2>1, <2>3, <2>4
<1> QED BY <1>3, <1>4

-----------------------------------------------------------------------------
(* The steps.                                                              *)

\* The reorg request stays well typed when a reset or a set of dirty accounts is merged into
\* it.
LEMMA RequestTyped ==
  ASSUME NEW r \in Request
  PROVE  /\ Nothing \in Request /\ [r EXCEPT !.wanted = TRUE] \in Request
         /\ [r EXCEPT !.wanted = TRUE, !.reset = TRUE] \in Request
         /\ \A d \in SUBSET Account : [r EXCEPT !.wanted = TRUE, !.dirty = d] \in Request
         /\ r.dirty \in SUBSET Account
<1>1. r.dirty \in SUBSET Account
  BY DEF Request
<1>2. Nothing \in Request
  BY DEF Request, Nothing
<1>3. [r EXCEPT !.wanted = TRUE] \in Request
  BY Zenon DEF Request
<1>4. [r EXCEPT !.wanted = TRUE, !.reset = TRUE] \in Request
  BY Zenon DEF Request
<1>5. \A d \in SUBSET Account : [r EXCEPT !.wanted = TRUE, !.dirty = d] \in Request
  BY Zenon DEF Request
<1> QED BY <1>1, <1>2, <1>3, <1>4, <1>5, Zenon

\* The empty pool satisfies the inductive invariant.
LEMMA InitInv == Init => IndInv
<1> SUFFICES ASSUME Init PROVE IndInv
  OBVIOUS
<1>0. /\ IsFiniteSet(Account) /\ Nonces \in Nat /\ GlobalSlots \in Nat /\ GlobalQueue \in Nat
  BY PoolAssumption
<1>1. scene \in Scenes /\ scene.balances \subseteq Nat /\ scene.baseFees \subseteq Nat
  BY PoolAssumption DEF Init
<1>2. PICK b \in [Account -> scene.balances], f \in scene.baseFees :
        chain = [nonce |-> [a \in Account |-> 0], balance |-> b, baseFee |-> f]
  BY DEF Init
<1>3. chain \in ChainState /\ head = chain /\ \A a \in Account : chain.nonce[a] = 0
  <2>1. b \in [Account -> Nat] /\ f \in Nat /\ [a \in Account |-> 0] \in [Account -> 0..Nonces]
    BY <1>0, <1>1
  <2> QED BY <1>2, <2>1 DEF Init, ChainState
<1>4. /\ NoTxs \in AccountTxs /\ NoTxs.pending = {} /\ NoTxs.queue = {} /\ NoTxs.known = {}
      /\ NoTxs.next = 0 /\ ~NoTxs.held
  BY <1>0, BeatFacts DEF NoTxs, AccountTxs
<1>5. pool = [a \in Account |-> NoTxs]
  BY DEF Init
<1> HIDE DEF NoTxs
<1>6. Whole(NoTxs, 0)
  <2>1. Books(NoTxs) /\ ReservedMatches(NoTxs)
    BY <1>4, FS_EmptySet DEF Books, LookupMatchesLists, QueuedHasBeat, Unique, ReservedMatches
  <2>2. Runs(NoTxs, 0)
    BY <1>0, <1>4 DEF Runs, Ahead
  <2> QED BY <2>1, <2>2 DEF Whole
<1>7. AllWhole /\ HeadBehind
  BY <1>3, <1>5, <1>6 DEF AllWhole, HeadBehind
<1>8. request \in Request /\ run \in Request /\ changes \in Nat
  BY DEF Init, Request, Nothing
<1>9. PoolTyped
  BY <1>1, <1>3, <1>4, <1>5, <1>8 DEF PoolTyped
<1>10. PoolBounded
  <2> DEFINE g == [a \in Account |-> Cardinality(pool[a].known)]
  <2>1. \A a \in Account : g[a] = 0
    BY <1>4, <1>5, FS_EmptySet
  <2> HIDE DEF g
  <2>2. Summable(g, Account)
    BY <1>0, <2>1 DEF Summable
  <2>3. SumFrom(0, g, Account) = SumFrom(0, g, {})
    BY <2>1, <2>2, SumSupport
  <2>4. SumFrom(0, g, {}) = 0
    BY SumEmpty
  <2>5. Slots(pool) = Total(g)
    BY DEF Slots, g
  <2> QED BY <1>0, <2>3, <2>4, <2>5, TotalIsSum DEF PoolBounded
<1> QED BY <1>7, <1>9, <1>10 DEF IndInv

\* A step that leaves the pool and its head alone only has to be typed.
LEMMA PoolAlone ==
  ASSUME IndInv, PoolTyped', HeadBehind', UNCHANGED <<head, pool>>
  PROVE  IndInv'
<1>1. AllWhole'
  BY DEF IndInv, AllWhole
<1>2. PoolBounded'
  BY DEF IndInv, PoolBounded, Slots
<1> QED BY <1>1, <1>2 DEF IndInv

\* A step that changes the pool alone, and leaves it no fuller than allowed.
LEMMA PoolOnly ==
  ASSUME IndInv, PoolWhole(pool'), Slots(pool') <= GlobalSlots + GlobalQueue,
         UNCHANGED <<chain, head, run, scene>>, changes' \in Nat, request' \in Request
  PROVE  IndInv'
<1>1. PoolTyped'
  BY DEF IndInv, PoolTyped, PoolWhole
<1>2. AllWhole' /\ HeadBehind'
  BY DEF IndInv, PoolWhole, AllWhole, HeadBehind
<1>3. PoolBounded'
  BY DEF PoolBounded, Slots
<1> QED BY <1>1, <1>2, <1>3 DEF IndInv

\* A block that arrives while the pool still works on the old head keeps the invariant.
LEMMA NewHeadInv ==
  ASSUME IndInv, NEW a \in Account, NewHead(a)
  PROVE  IndInv'
<1>0. Nonces \in Nat
  BY PoolAssumption
<1>1. /\ chain \in ChainState /\ head \in ChainState /\ request \in Request /\ scene \in Scenes
      /\ HeadBehind
  BY DEF IndInv, PoolTyped
<1>2. PICK n \in {chain.nonce[a], chain.nonce[a] + 1}, b \in scene.balances, f \in scene.baseFees :
        /\ n <= scene.mined
        /\ chain' = [chain EXCEPT !.nonce[a] = n, !.balance[a] = b, !.baseFee = f]
  BY Zenon DEF NewHead
<1>3. /\ scene.nonces \in 0..Nonces /\ scene.mined \in 0..scene.nonces
      /\ scene.balances \subseteq Nat /\ scene.baseFees \subseteq Nat
  BY <1>1, PoolAssumption
<1>4. /\ chain.nonce \in [Account -> 0..Nonces] /\ chain.balance \in [Account -> Nat]
      /\ chain.nonce[a] \in 0..Nonces
  BY <1>1 DEF ChainState
<1>5. n \in 0..Nonces /\ b \in Nat /\ f \in Nat /\ chain.nonce[a] <= n
  BY <1>0, <1>2, <1>3, <1>4
<1>6. /\ chain'.nonce = [chain.nonce EXCEPT ![a] = n]
      /\ chain' \in ChainState
  BY <1>1, <1>2, <1>4, <1>5 DEF ChainState
<1>7. HeadBehind'
  <2> SUFFICES ASSUME NEW x \in Account PROVE head'.nonce[x] <= chain'.nonce[x]
    BY DEF HeadBehind
  <2>1. head'.nonce[x] = head.nonce[x]
    BY DEF NewHead
  <2>2. head.nonce[x] <= chain.nonce[x] /\ head.nonce[x] \in 0..Nonces /\ chain.nonce[x] \in 0..Nonces
    BY <1>1, <1>4 DEF HeadBehind, ChainState
  <2>3. chain'.nonce[x] = IF x = a THEN n ELSE chain.nonce[x]
    BY <1>4, <1>6
  <2> QED BY <1>0, <1>5, <2>1, <2>2, <2>3
<1>8. request' \in Request
  <2>1. request' = [request EXCEPT !.wanted = TRUE, !.reset = TRUE]
    BY DEF NewHead
  <2> QED BY <1>1, <2>1, RequestTyped, Zenon
<1>9. PoolTyped'
  BY <1>6, <1>8 DEF IndInv, PoolTyped, NewHead
<1> QED BY <1>7, <1>9, PoolAlone DEF NewHead

\* A transaction the pool refuses changes nothing the invariant speaks of.
LEMMA RefuseInv ==
  ASSUME IndInv, NEW a \in Account, Refuse(a)
  PROVE  IndInv'
<1>1. request' \in Request
  <2>1. request \in Request /\ request' = [request EXCEPT !.wanted = TRUE]
    BY DEF Refuse, IndInv, PoolTyped
  <2> QED BY <2>1, RequestTyped, Zenon
<1>2. PoolTyped' /\ HeadBehind'
  BY <1>1 DEF IndInv, PoolTyped, HeadBehind, Refuse
<1> QED BY <1>2, PoolAlone DEF Refuse

\* Starting a reorg run, which takes the merged request, keeps the invariant.
LEMMA LaunchInv ==
  ASSUME IndInv, Launch
  PROVE  IndInv'
<1>1. request \in Request /\ request' = Nothing /\ run' = request
  BY DEF IndInv, PoolTyped, Launch
<1>2. request' \in Request /\ run' \in Request
  BY <1>1, RequestTyped, Zenon
<1>3. PoolTyped' /\ HeadBehind'
  BY <1>2 DEF IndInv, PoolTyped, HeadBehind, Launch
<1> QED BY <1>3, PoolAlone DEF Launch

\* The removal of a transaction whose execution failed keeps the invariant.
LEMMA RemoveFailedInv ==
  ASSUME IndInv, NEW a \in Account, RemoveFailed(a)
  PROVE  IndInv'
<1>0. GlobalSlots \in Nat /\ GlobalQueue \in Nat
  BY PoolAssumption
<1>1. PICK t \in pool[a].known : pool' = [pool EXCEPT ![a] = RemoveTx(@, t)]
  BY DEF RemoveFailed
<1>2. /\ pool \in [Account -> AccountTxs] /\ head.nonce[a] \in 0..Nonces
      /\ \A x \in Account : Whole(pool[x], head.nonce[x])
  BY DEF IndInv, PoolTyped, AllWhole, ChainState
<1> DEFINE R == RemoveTx(pool[a], t)
<1>3. Whole(R, head.nonce[a]) /\ R.known \subseteq pool[a].known
  BY <1>2, RemoveTxWhole
<1>4. pool' = [pool EXCEPT ![a] = R]
  BY <1>1
<1> HIDE DEF R
<1>5. R \in AccountTxs
  BY <1>3 DEF Whole, Books
<1>6. PoolWhole(pool')
  BY <1>2, <1>3, <1>4, <1>5 DEF PoolWhole
<1>7. \A x \in Account : IsFiniteSet(pool[x].known) /\ pool'[x].known \subseteq pool[x].known
  BY <1>2, <1>3, <1>4 DEF Whole, Books
<1>8. Slots(pool') <= Slots(pool) /\ Slots(pool') \in Nat /\ Slots(pool) \in Nat
  BY <1>7, SlotsAtMost
<1>9. Slots(pool') <= GlobalSlots + GlobalQueue
  BY <1>0, <1>8 DEF IndInv, PoolBounded
<1>10. changes' \in Nat /\ request' \in Request
  BY DEF IndInv, PoolTyped, RemoveFailed
<1> QED BY <1>6, <1>9, <1>10, PoolOnly DEF RemoveFailed

\* What kicking a transaction out of a full pool leaves.
LEMMA EvictedRoom ==
  ASSUME IndInv, NEW a \in Account, NEW b \in Account, NEW s \in pool[b].known, NEW P,
         P = [pool EXCEPT ![b] = IF b = a THEN RemoveFrom(@, s) ELSE RemoveTx(@, s)]
  PROVE  /\ P \in [Account -> AccountTxs]
         /\ \A x \in Account \ {a} : Whole(P[x], head.nonce[x])
         /\ Books(P[a]) /\ Runs(P[a], head.nonce[a])
         /\ P[a].known # {} => ReservedMatches(P[a])
         /\ Slots(P) + 1 <= GlobalSlots + GlobalQueue
         /\ Cardinality(pool[b].pending \ P[b].pending) \in Nat
<1>0. GlobalSlots \in Nat /\ GlobalQueue \in Nat
  BY PoolAssumption
<1>1. /\ pool \in [Account -> AccountTxs]
      /\ \A x \in Account : head.nonce[x] \in 0..Nonces /\ Whole(pool[x], head.nonce[x])
  BY DEF IndInv, PoolTyped, AllWhole, ChainState
<1>2. \A x \in Account : /\ Books(pool[x]) /\ Runs(pool[x], head.nonce[x])
                         /\ ReservedMatches(pool[x]) /\ IsFiniteSet(pool[x].known)
                         /\ IsFiniteSet(pool[x].pending)
  BY <1>1, BooksSizes DEF Whole, Books
<1> DEFINE F == RemoveFrom(pool[b], s)
           T == RemoveTx(pool[b], s)
           R == IF b = a THEN F ELSE T
<1>3. s \in pool[b].pending \/ s \in pool[b].queue
  BY <1>2 DEF Books, LookupMatchesLists
<1>4. /\ Books(F) /\ Runs(F, head.nonce[b]) /\ F.known = pool[b].known \ {s}
      /\ F.held = pool[b].held
  <2>1. CASE s \in pool[b].pending
    BY <1>1, <1>2, <2>1, RemoveFromPending
  <2>2. CASE s \in pool[b].queue
    BY <1>1, <1>2, <2>2, RemoveFromQueue
  <2> QED BY <1>3, <2>1, <2>2
<1>5. Whole(T, head.nonce[b]) /\ T.known = pool[b].known \ {s}
  BY <1>1, RemoveTxWhole
<1>6. P = [pool EXCEPT ![b] = R]
  OBVIOUS
<1> HIDE DEF F, T
<1>7. F.known # {} => ReservedMatches(F)
  BY <1>2, <1>4 DEF ReservedMatches
<1>8. Books(R) /\ Runs(R, head.nonce[b]) /\ R.known = pool[b].known \ {s}
  BY <1>4, <1>5 DEF Whole
<1>9. (b # a => Whole(R, head.nonce[b])) /\ (b = a => R = F)
  BY <1>5
<1> HIDE DEF R
<1>10. R \in AccountTxs /\ IsFiniteSet(R.known)
  BY <1>8 DEF Books
<1>11. /\ P \in [Account -> AccountTxs] /\ P[b] = R
       /\ \A x \in Account \ {b} : P[x] = pool[x]
  BY <1>1, <1>6, <1>10
<1>12. \A x \in Account \ {a} : Whole(P[x], head.nonce[x])
  BY <1>1, <1>9, <1>11
<1>13. Books(P[a]) /\ Runs(P[a], head.nonce[a]) /\ (P[a].known # {} => ReservedMatches(P[a]))
  <2>1. CASE a = b
    BY <1>7, <1>8, <1>9, <1>11, <2>1
  <2>2. CASE a # b
    BY <1>2, <1>11, <2>2
  <2> QED BY <2>1, <2>2
<1>14. \A x \in Account : IsFiniteSet(P[x].known)
  BY <1>2, <1>10, <1>11
<1>15. /\ Slots(P) = Slots(pool) + (Cardinality(P[b].known) - Cardinality(pool[b].known))
       /\ Slots(pool) \in Nat /\ Slots(P) \in Nat
       /\ Cardinality(P[b].known) \in Nat /\ Cardinality(pool[b].known) \in Nat
  BY <1>2, <1>11, <1>14, SlotsUpdate
<1>16. Cardinality(P[b].known) = Cardinality(pool[b].known) - 1
  <2> DEFINE K == pool[b].known
  <2>1. IsFiniteSet(K) /\ s \in K /\ P[b].known = K \ {s}
    BY <1>2, <1>8, <1>11
  <2> HIDE DEF K
  <2>2. Cardinality(K \ {s}) = Cardinality(K) - 1
    BY <2>1, FS_RemoveElement
  <2> QED BY <2>1, <2>2 DEF K
<1>17. Slots(P) + 1 <= GlobalSlots + GlobalQueue
  BY <1>0, <1>15, <1>16 DEF IndInv, PoolBounded
<1>18. Cardinality(pool[b].pending \ P[b].pending) \in Nat
  <2> DEFINE gone == pool[b].pending \ P[b].pending
  <2>1. gone \in SUBSET pool[b].pending
    OBVIOUS
  <2> HIDE DEF gone
  <2>2. IsFiniteSet(gone)
    BY <1>2, <2>1, FS_Subset
  <2> QED BY <2>2, FS_CardinalityType DEF gone
<1> QED BY <1>11, <1>12, <1>13, <1>17, <1>18

\* A transaction that is added, replaces one or evicts others keeps the invariant.
LEMMA AddInv ==
  ASSUME IndInv, NEW a \in Account, Add(a)
  PROVE  IndInv'
<1>1. PICK t \in Offered(a) :
        /\ Valid(a, t)
        /\ \/ /\ Room
              /\ Conclude(pool, a, t)
              /\ UNCHANGED changes
           \/ /\ ~Room
              /\ \E v \in Discardable(a, t) :
                   LET P == [pool EXCEPT ![v[1]] = IF v[1] = a THEN RemoveFrom(@, v[2])
                                                               ELSE RemoveTx(@, v[2])]
                   IN /\ Conclude(P, a, t)
                      /\ changes' = changes + Cardinality(pool[v[1]].pending \ P[v[1]].pending)
        /\ UNCHANGED <<chain, head, run, scene>>
  BY Zenon DEF Add
<1>2. t \in Tx /\ t.n >= head.nonce[a] /\ UNCHANGED <<chain, head, run, scene>>
  BY <1>1 DEF Offered, Valid
<1>3. /\ head \in ChainState /\ pool \in [Account -> AccountTxs] /\ changes \in Nat
      /\ request \in Request /\ \A x \in Account : Whole(pool[x], head.nonce[x])
  BY DEF IndInv, PoolTyped, AllWhole
<1>4. ASSUME NEW P, Conclude(P, a, t) PROVE request' \in Request
  <2> DEFINE d == IF At(P[a].pending \cup P[a].queue, t.n) = {}
                    THEN request.dirty \cup {a} ELSE request.dirty
  <2>1. request' = [request EXCEPT !.wanted = TRUE, !.dirty = d]
    BY <1>4 DEF Conclude
  <2>2. d \in SUBSET Account
    BY <1>3 DEF Request
  <2> HIDE DEF d
  <2> QED BY <1>3, <2>1, <2>2, RequestTyped, Zenon
<1>5. CASE Room /\ Conclude(pool, a, t) /\ UNCHANGED changes
  <2>1. pool' = IF Bumps(t, pool[a].pending \cup pool[a].queue) THEN Insert(pool, a, t) ELSE pool
    BY <1>5 DEF Conclude
  <2>2. Books(pool[a]) /\ Runs(pool[a], head.nonce[a]) /\ ReservedMatches(pool[a])
    BY <1>3 DEF Whole
  <2>3. Slots(pool) + 1 <= GlobalSlots + GlobalQueue
    BY <1>5 DEF Room
  <2>4. PoolWhole(pool') /\ Slots(pool') <= GlobalSlots + GlobalQueue
    BY <1>2, <1>3, <2>1, <2>2, <2>3, ConcludeWhole
  <2> QED BY <1>2, <1>3, <1>4, <1>5, <2>4, PoolOnly
<1>6. ASSUME NEW v \in Discardable(a, t), NEW P,
             P = [pool EXCEPT ![v[1]] = IF v[1] = a THEN RemoveFrom(@, v[2])
                                                    ELSE RemoveTx(@, v[2])],
             Conclude(P, a, t),
             changes' = changes + Cardinality(pool[v[1]].pending \ P[v[1]].pending)
      PROVE  IndInv'
  <2> DEFINE b == v[1]
             s == v[2]
  <2>1. b \in Account /\ s \in pool[b].known
    BY DEF Discardable, Chosen
  <2>2. P = [pool EXCEPT ![b] = IF b = a THEN RemoveFrom(@, s) ELSE RemoveTx(@, s)]
    BY <1>6
  <2>3. changes' = changes + Cardinality(pool[b].pending \ P[b].pending)
    BY <1>6
  <2> HIDE DEF b, s
  <2>4. /\ P \in [Account -> AccountTxs]
        /\ \A x \in Account \ {a} : Whole(P[x], head.nonce[x])
        /\ Books(P[a]) /\ Runs(P[a], head.nonce[a])
        /\ P[a].known # {} => ReservedMatches(P[a])
        /\ Slots(P) + 1 <= GlobalSlots + GlobalQueue
        /\ Cardinality(pool[b].pending \ P[b].pending) \in Nat
    BY <2>1, <2>2, EvictedRoom
  <2>5. pool' = IF Bumps(t, P[a].pending \cup P[a].queue) THEN Insert(P, a, t) ELSE P
    BY <1>6 DEF Conclude
  <2>6. PoolWhole(pool') /\ Slots(pool') <= GlobalSlots + GlobalQueue
    BY <1>2, <1>3, <2>4, <2>5, ConcludeWhole
  <2>7. changes' \in Nat
    BY <1>3, <2>3, <2>4
  <2> QED BY <1>2, <1>4, <1>6, <2>6, <2>7, PoolOnly
<1> QED BY <1>1, <1>5, <1>6

\* After a run the pool is within its limits.
Limits(P) ==
  /\ \/ Total([a \in Account |-> Cardinality(P[a].pending)]) <= GlobalSlots
     \/ \A a \in Account : Cardinality(P[a].pending) <= AccountSlots
  /\ Total([a \in Account |-> Cardinality(P[a].queue)]) <= GlobalQueue

\* A whole reorg run keeps the invariant and ends with the pool within its limits.
LEMMA RunReorgInv ==
  ASSUME IndInv, RunReorg
  PROVE  IndInv' /\ Limits(pool')
<1>0. GlobalSlots \in Nat /\ GlobalQueue \in Nat
  BY PoolAssumption
<1> DEFINE P == Reorged(head', run.reset, run.dirty)
           T == TruncatePending(P)
<1>1. head' = IF run.reset THEN chain ELSE head
  BY DEF RunReorg
<1>2. PICK o \in Oldest(T) : pool' = TruncateQueue(T, o)
  BY DEF RunReorg
<1>3. Sound(P, head') /\ head' \in ChainState
  BY <1>1, ReorgedSound
<1> HIDE DEF P
<1>4. /\ Sound(T, head')
      /\ \/ Total([a \in Account |-> Cardinality(T[a].pending)]) <= GlobalSlots
         \/ \A a \in Account : Cardinality(T[a].pending) <= AccountSlots
  BY <1>3, TruncatePendingSound
<1> HIDE DEF T
<1>5. /\ Sound(pool', head') /\ pool' = [a \in Account |-> pool'[a]]
      /\ \A a \in Account : pool'[a].pending = T[a].pending
      /\ Total([a \in Account |-> Cardinality(pool'[a].queue)]) <= GlobalQueue
  BY <1>2, <1>3, <1>4, TruncateQueueSound
<1>6. Limits(pool')
  <2>1. [a \in Account |-> Cardinality(pool'[a].pending)]
          = [a \in Account |-> Cardinality(T[a].pending)]
    BY <1>5
  <2> QED BY <1>4, <1>5, <2>1 DEF Limits
<1>7. \A a \in Account : Whole(pool'[a], head'.nonce[a]) /\ pool'[a].known \subseteq pool[a].known
  BY <1>5 DEF Sound
<1>8. pool' \in [Account -> AccountTxs]
  <2>1. \A a \in Account : pool'[a] \in AccountTxs
    BY <1>7 DEF Whole, Books
  <2> QED BY <1>5, <2>1
<1>9. \A a \in Account : IsFiniteSet(pool[a].known)
  BY DEF IndInv, AllWhole, Whole, Books
<1>10. Slots(pool') <= Slots(pool) /\ Slots(pool') \in Nat /\ Slots(pool) \in Nat
  BY <1>7, <1>9, SlotsAtMost
<1>11. PoolBounded'
  <2>1. Slots(pool') <= GlobalSlots + GlobalQueue
    BY <1>0, <1>10 DEF IndInv, PoolBounded
  <2> QED BY <2>1 DEF PoolBounded, Slots
<1>12. AllWhole'
  BY <1>7 DEF AllWhole
<1>13. HeadBehind'
  <2> SUFFICES ASSUME NEW a \in Account PROVE head'.nonce[a] <= chain'.nonce[a]
    BY DEF HeadBehind
  <2>1. chain' = chain /\ head.nonce[a] <= chain.nonce[a]
    BY DEF RunReorg, IndInv, HeadBehind
  <2>2. chain.nonce[a] \in 0..Nonces
    BY DEF IndInv, PoolTyped, ChainState
  <2> QED BY <1>1, <2>1, <2>2
<1>14. PoolTyped'
  <2>1. run' \in Request /\ changes' \in Nat
    BY DEF RunReorg, Request, Nothing
  <2> QED BY <1>3, <1>8, <2>1 DEF RunReorg, IndInv, PoolTyped
<1> QED BY <1>6, <1>11, <1>12, <1>13, <1>14 DEF IndInv

-----------------------------------------------------------------------------
(* The eviction timer.                                                     *)

\* A heartbeat that grows older leaves the account's books in order.
LEMMA AgedWhole ==
  ASSUME NEW A, NEW n \in 0..Nonces, Whole(A, n)
  PROVE  LET B == [A EXCEPT !.beat = Older(@)]
         IN  Whole(B, n) /\ B.known = A.known
<1> DEFINE B == [A EXCEPT !.beat = Older(@)]
<1>1. A \in AccountTxs
  BY DEF Whole, Books
<1>2. A.beat \in Beat
  BY <1>1 DEF AccountTxs
<1>3. Older(A.beat) \in Beat /\ (Older(A.beat) = None <=> A.beat = None)
  BY <1>2, BeatFacts
<1>4. /\ B \in AccountTxs /\ B.pending = A.pending /\ B.queue = A.queue /\ B.known = A.known
      /\ B.next = A.next /\ B.beat = Older(A.beat) /\ B.held = A.held
  BY <1>1, <1>3 DEF AccountTxs
<1> HIDE DEF B
<1>5. Books(B) /\ ReservedMatches(B)
  BY <1>3, <1>4 DEF Whole, Books, LookupMatchesLists, QueuedHasBeat, ReservedMatches
<1>6. Runs(B, n)
  BY <1>4 DEF Whole, Runs, Ahead
<1> QED BY <1>4, <1>5, <1>6 DEF Whole, B

\* Queued transactions that are too old go; then none of this account is left
\* when the pending ones go too, so that the heartbeat can be forgotten.
LEMMA EvictWhole ==
  ASSUME NEW A, NEW n \in 0..Nonces, Whole(A, n)
  PROVE  LET E == EvictPending(EvictQueue(A))
         IN  Whole(E, n) /\ E.known \subseteq A.known
<1> DEFINE C == EvictQueue(A)
           R == FoldLeft(RemoveTx, C, ByNonce(C.pending))
           X == [R EXCEPT !.beat = None]
           E == EvictPending(C)
<1>1. /\ Whole(C, n) /\ C.known \subseteq A.known
      /\ C.queue = {} \/ ~(Age(C.beat) > Lifetime)
  <2>1. CASE A.queue # {} /\ Age(A.beat) > Lifetime
    <3>1. A.queue \in SUBSET Tx /\ IsFiniteSet(A.queue) /\ Unique(A.queue)
      BY BooksSizes DEF Whole
    <3> DEFINE o == ByNonce(A.queue)
    <3>2. Lists(o, A.queue)
      BY <3>1, ByNonceLists
    <3> DEFINE F == FoldLeft(RemoveTx, A, o)
    <3>3. C = F
      BY <2>1 DEF EvictQueue
    <3> HIDE DEF o, C
    <3>4. Whole(F, n) /\ F.known = A.known \ A.queue /\ F.queue = A.queue \ A.queue
      BY <3>1, <3>2, RemoveAllWhole
    <3> HIDE DEF F
    <3> QED BY <3>3, <3>4
  <2>2. CASE ~(A.queue # {} /\ Age(A.beat) > Lifetime)
    <3>1. C = A
      BY <2>2 DEF EvictQueue
    <3> QED BY <2>2, <3>1
  <2> QED BY <2>1, <2>2
<1> HIDE DEF C
<1>2. CASE C.pending = {} \/ Age(C.beat) <= Lifetime \/ (Age(C.beat) < HardEvict /\ FeeStuck(C))
  <2>1. E = C
    BY <1>2 DEF EvictPending
  <2> HIDE DEF E
  <2> QED BY <1>1, <2>1 DEF E, C
<1>3. CASE ~(C.pending = {} \/ Age(C.beat) <= Lifetime \/ (Age(C.beat) < HardEvict /\ FeeStuck(C)))
  <2>1. E = X
    BY <1>3 DEF EvictPending
  <2>2. Age(C.beat) > Lifetime
    <3>1. /\ C.beat \in Beat /\ Lifetime \in Nat /\ MaxAge \in Nat
      BY <1>1, PoolAssumption DEF Whole, Books, AccountTxs
    <3>2. Age(C.beat) \in Nat
      BY <3>1 DEF Age, Beat
    <3> QED BY <1>3, <3>1, <3>2
  <2>3. C.queue = {}
    BY <1>1, <2>2
  <2>4. C.pending \in SUBSET Tx /\ IsFiniteSet(C.pending) /\ Unique(C.pending)
    BY <1>1, BooksSizes DEF Whole
  <2> DEFINE o == ByNonce(C.pending)
  <2>5. Lists(o, C.pending)
    BY <2>4, ByNonceLists
  <2> DEFINE F == FoldLeft(RemoveTx, C, o)
  <2>6. R = F
    OBVIOUS
  <2> HIDE DEF o, R
  <2>7. Whole(R, n) /\ R.known = C.known \ C.pending
    <3>1. Whole(F, n) /\ F.known = C.known \ C.pending
      BY <1>1, <2>4, <2>5, RemoveAllWhole
    <3> HIDE DEF F
    <3> QED BY <2>6, <3>1
  <2>8. R \in AccountTxs
    BY <2>7 DEF Whole, Books
  <2>9. R.known = {} /\ R.queue = {}
    BY <1>1, <2>3, <2>7 DEF Whole, Books, LookupMatchesLists
  <2>10. /\ X \in AccountTxs /\ X.pending = R.pending /\ X.queue = R.queue /\ X.known = R.known
         /\ X.next = R.next /\ X.held = R.held
    BY <2>8, BeatFacts DEF AccountTxs
  <2> HIDE DEF X
  <2>11. Books(X) /\ ReservedMatches(X)
    BY <2>7, <2>9, <2>10
    DEF Whole, Books, LookupMatchesLists, QueuedHasBeat, ReservedMatches
  <2>12. Runs(X, n)
    BY <2>7, <2>10 DEF Whole, Runs, Ahead
  <2>13. Whole(X, n) /\ X.known \subseteq A.known
    BY <2>9, <2>10, <2>11, <2>12 DEF Whole
  <2> HIDE DEF E
  <2> QED BY <2>1, <2>13 DEF E, C
<1> QED BY <1>2, <1>3

\* The eviction loop, which drops the queues of the accounts whose heartbeat is too old, keeps
\* the invariant.
LEMMA TickInv ==
  ASSUME IndInv, Tick
  PROVE  IndInv'
<1>0. GlobalSlots \in Nat /\ GlobalQueue \in Nat
  BY PoolAssumption
<1>1. \A a \in Account : /\ head.nonce[a] \in 0..Nonces /\ Whole(pool[a], head.nonce[a])
                         /\ IsFiniteSet(pool[a].known)
  BY DEF IndInv, PoolTyped, AllWhole, ChainState, Whole, Books
<1>2. pool' = [a \in Account |-> EvictPending(EvictQueue([pool[a] EXCEPT !.beat = Older(@)]))]
  BY DEF Tick
<1>3. ASSUME NEW a \in Account
      PROVE  Whole(pool'[a], head.nonce[a]) /\ pool'[a].known \subseteq pool[a].known
  <2> DEFINE B == [pool[a] EXCEPT !.beat = Older(@)]
             n == head.nonce[a]
  <2>1. Whole(B, n) /\ B.known = pool[a].known /\ n \in 0..Nonces
    BY <1>1, AgedWhole
  <2>2. pool'[a] = EvictPending(EvictQueue(B))
    BY <1>2
  <2> HIDE DEF B, n
  <2>3. /\ Whole(EvictPending(EvictQueue(B)), n)
        /\ EvictPending(EvictQueue(B)).known \subseteq B.known
    BY <2>1, EvictWhole
  <2> QED BY <2>1, <2>2, <2>3 DEF n
<1>4. PoolWhole(pool')
  <2>1. \A a \in Account : pool'[a] \in AccountTxs
    BY <1>3 DEF Whole, Books
  <2> DEFINE g(a) == EvictPending(EvictQueue([pool[a] EXCEPT !.beat = Older(@)]))
  <2>2. pool' = [a \in Account |-> g(a)]
    BY <1>2
  <2> HIDE DEF g
  <2>3. pool' \in [Account -> AccountTxs]
    BY <2>1, <2>2
  <2> QED BY <1>3, <2>3 DEF PoolWhole
<1>5. Slots(pool') <= Slots(pool) /\ Slots(pool') \in Nat /\ Slots(pool) \in Nat
  BY <1>1, <1>3, SlotsAtMost
<1>6. Slots(pool') <= GlobalSlots + GlobalQueue
  BY <1>0, <1>5 DEF IndInv, PoolBounded
<1>7. changes' \in Nat /\ request' \in Request
  BY DEF IndInv, PoolTyped, Tick
<1> QED BY <1>4, <1>6, <1>7, PoolOnly DEF Tick

-----------------------------------------------------------------------------
(* The invariant and what follows from it.                                 *)

\* Every step keeps the inductive invariant.
LEMMA NextInv == IndInv /\ [Next]_vars => IndInv'
<1> SUFFICES ASSUME IndInv, [Next]_vars PROVE IndInv'
  OBVIOUS
<1>1. \A a \in scene.accounts : a \in Account
  BY PoolAssumption DEF IndInv, PoolTyped
<1>2. CASE \E a \in scene.accounts : NewHead(a)
  BY <1>1, <1>2, NewHeadInv
<1>3. CASE \E a \in scene.accounts : Add(a)
  BY <1>1, <1>3, AddInv
<1>4. CASE \E a \in scene.accounts : Refuse(a)
  BY <1>1, <1>4, RefuseInv
<1>5. CASE \E a \in scene.accounts : RemoveFailed(a)
  BY <1>1, <1>5, RemoveFailedInv
<1>6. CASE Launch
  BY <1>6, LaunchInv
<1>7. CASE RunReorg
  BY <1>7, RunReorgInv
<1>8. CASE Tick
  BY <1>8, TickInv
<1>9. CASE UNCHANGED vars
  <2>1. PoolTyped' /\ HeadBehind'
    BY <1>9 DEF IndInv, PoolTyped, HeadBehind, vars
  <2> QED BY <1>9, <2>1, PoolAlone DEF vars
<1> QED BY <1>2, <1>3, <1>4, <1>5, <1>6, <1>7, <1>8, <1>9, Zenon DEF Next

\* The inductive invariant of the pool: every account's lists, lookup, next
\* nonce, heartbeat and reservation agree after every handler, reorg run and
\* eviction (legacypool.go), and the slots stay within the configuration.
THEOREM PoolInvariance == Spec => []IndInv
BY InitInv, NextInv, PTL DEF Spec

\* Every variable of the pool keeps its type, one transaction per nonce in the
\* lists of an account: what legacypool.go's list.Add and the moves between the
\* two lists never break.
THEOREM PoolTypeCorrect == Spec => []TypeOK
<1>1. IndInv => TypeOK
  <2> SUFFICES ASSUME IndInv PROVE TypeOK
    OBVIOUS
  <2>1. ASSUME NEW a \in Account
        PROVE  /\ pool[a].pending \in SUBSET Tx /\ pool[a].queue \in SUBSET Tx
               /\ pool[a].known \in SUBSET Tx
               /\ pool[a].next \in 0..Nonces /\ pool[a].beat \in Beat /\ pool[a].held \in BOOLEAN
               /\ \A s, t \in pool[a].pending \cup pool[a].queue : s.n = t.n => s = t
    <3>1. pool[a] \in AccountTxs
      BY DEF IndInv, PoolTyped
    <3>2. Unique(pool[a].pending \cup pool[a].queue)
      BY DEF IndInv, AllWhole, Whole, Books
    <3> QED BY <3>1, <3>2 DEF AccountTxs, Unique
  <2> QED BY <2>1 DEF IndInv, PoolTyped, TypeOK
<1> QED BY <1>1, PoolInvariance, PTL

\* The lookup holds exactly the listed transactions, an account is reserved
\* exactly while it has one, and a queued account has a heartbeat: whatever
\* add, removeTx, promoteExecutables, demoteUnexecutables, the truncations and
\* the eviction loop moved or dropped, and in whatever order.
THEOREM PoolBookkeeping == Spec => []Bookkeeping
<1>1. IndInv => Bookkeeping
  BY DEF IndInv, AllWhole, Whole, Books, Bookkeeping
<1> QED BY <1>1, PoolInvariance, PTL

\* The pending list of an account is the unbroken run of nonces from the
\* state's nonce to the pending nonce: removeTx, demoteUnexecutables and
\* truncatePending leave no gap for a proposer to meet.
THEOREM PoolContiguous == Spec => []PendingContiguous
<1>1. IndInv => PendingContiguous
  <2> SUFFICES ASSUME IndInv, NEW a \in Account
               PROVE  NonceOf(pool[a].pending) = head.nonce[a]..pool[a].next - 1
    BY DEF PendingContiguous
  <2> DEFINE A == pool[a]
             n == head.nonce[a]
  <2>0. Nonces \in Nat
    BY PoolAssumption
  <2>1. /\ n \in 0..Nonces /\ A.next \in 0..Nonces /\ A.pending \in SUBSET Tx
        /\ Ahead(A, n, A.next) /\ \A t \in A.pending : t.n >= n
    BY DEF IndInv, PoolTyped, ChainState, AccountTxs, AllWhole, Whole, Runs
  <2> HIDE DEF A, n
  <2>2. \A t \in A.pending : t.n \in 0..Nonces
    BY <2>1, TxFields
  <2>3. ASSUME NEW t \in A.pending PROVE t.n \in n..A.next - 1
    <3>1. t.n \in n..Nonces /\ t.n \in Nat
      BY <2>0, <2>1, <2>2
    <3>2. t.n < A.next
      BY <2>1, <3>1 DEF Ahead
    <3> QED BY <2>0, <2>1, <3>1, <3>2
  <2>4. ASSUME NEW k \in n..A.next - 1 PROVE \E t \in A.pending : t.n = k
    <3>1. k \in n..Nonces /\ k < A.next
      BY <2>0, <2>1
    <3> QED BY <2>1, <3>1 DEF Ahead
  <2>5. NonceOf(A.pending) = n..A.next - 1
    <3>1. \A x \in NonceOf(A.pending) : x \in n..A.next - 1
      BY <2>3 DEF NonceOf
    <3>2. \A x \in n..A.next - 1 : x \in NonceOf(A.pending)
      BY <2>4 DEF NonceOf
    <3> QED BY <3>1, <3>2
  <2> QED BY <2>5 DEF A, n
<1> QED BY <1>1, PoolInvariance, PTL

\* The pool never holds more transactions than GlobalSlots + GlobalQueue, also
\* when add has just kicked one out of a full pool.
THEOREM PoolWithinBounds == Spec => []PoolBounded
<1>1. IndInv => PoolBounded
  BY DEF IndInv
<1> QED BY <1>1, PoolInvariance, PTL

\* A run of the reorg loop brings the pool back within its limits: truncatePending
\* leaves the pending lists within GlobalSlots or each within AccountSlots, and
\* truncateQueue, which cuts whole queues and then part of one, leaves the
\* queues within GlobalQueue.
THEOREM RunLimits == Spec => RunRestoresLimits
<1>1. ASSUME IndInv, [Next]_vars, RunEnds PROVE Limits(pool')
  <2>1. ~UNCHANGED run
    BY <1>1 DEF RunEnds
  <2>2. ASSUME NEW a PROVE ~NewHead(a) /\ ~Add(a) /\ ~Refuse(a) /\ ~RemoveFailed(a)
    <3>1. ~NewHead(a) /\ ~Refuse(a)
      BY <2>1, Zenon DEF NewHead, Refuse
    <3>2. ~Add(a)
      BY <2>1, Zenon DEF Add
    <3>3. ~RemoveFailed(a)
      BY <2>1, Zenon DEF RemoveFailed
    <3> QED BY <3>1, <3>2, <3>3
  <2>3. ~Tick /\ ~Launch /\ ~UNCHANGED vars
    BY <1>1, <2>1 DEF Tick, Launch, vars, RunEnds
  <2>4. RunReorg
    BY <1>1, <2>2, <2>3 DEF Next
  <2> QED BY <1>1, <2>4, RunReorgInv
<1> DEFINE L == /\ \/ Total([a \in Account |-> Cardinality(pool'[a].pending)]) <= GlobalSlots
                   \/ \A a \in Account : Cardinality(pool'[a].pending) <= AccountSlots
                /\ Total([a \in Account |-> Cardinality(pool'[a].queue)]) <= GlobalQueue
<1>2. IndInv /\ [Next]_vars => [RunEnds => L]_vars
  BY <1>1 DEF Limits
<1> QED BY <1>2, PoolInvariance, PTL DEF Spec, RunRestoresLimits
=============================================================================
