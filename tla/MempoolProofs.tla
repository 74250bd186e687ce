--------------------------- MODULE MempoolProofs ----------------------------
(***************************************************************************)
(* Proofs about the way into the mempool and about its goroutines.         *)
(* Admission: for every set of wallets and of transactions, every cap and  *)
(* every lag of the block events.  ReorgLoop: for every set of callers and *)
(* every number of heads and calls, who holds which lock, which run        *)
(* releases which caller, and in which order heads reach the pool.  The    *)
(* two share no state: their invariants are proved side by side.           *)
(***************************************************************************)
EXTENDS Admission, ReorgLoop, FoldFacts, FiniteSetTheorems, SequenceTheorems, TLAPS

-----------------------------------------------------------------------------
(* Admission.                                                              *)

\* The type of the state; the pool is finite, so its parts can be counted.
TypeInv ==
  /\ chain \in [Wallet -> Nat] /\ check \in [Wallet -> Nat]
  /\ latest \in [Wallet -> Nat] /\ poolSeq \in [Wallet -> Nat]
  /\ read \subseteq Wallet /\ resetting \in BOOLEAN
  /\ pool \subseteq Tx /\ IsFiniteSet(pool)
  /\ checking \subseteq Tx /\ comet \in Seq(Tx) /\ recheck \in Seq(Tx)
  /\ events \in Nat /\ evicted \subseteq Wallet /\ lost \subseteq Wallet
  /\ late \in BOOLEAN

\* The pool's state has loaded the wallets the pool holds something of: a
\* Remove can no longer move what it sees of them.
PoolRead == \A t \in pool : t.w \in read

\* A view of the nonces that is ahead of the chain is ahead over filled slots.
Backed(view) ==
  \A w \in Wallet \ (evicted \cup lost) : \A n \in Nat :
    chain[w] <= n /\ n < view[w] => Pooled(w, n)

\* The pool's own nonces are never ahead of the chain: a reset that reads a
\* nonce Remove moved past the chain drops the unmined transaction below it.
PoolBehind == \A w \in Wallet \ (evicted \cup lost) : poolSeq[w] <= chain[w]

\* The inductive invariant.
IndInv == TypeInv /\ CapHolds /\ PoolRead /\ Backed(check) /\ Backed(latest) /\ PoolBehind

-----------------------------------------------------------------------------
(* Operators.                                                              *)

\* The fields of a transaction.
LEMMA TxFields ==
  ASSUME NEW t \in Tx
  PROVE  t.w \in Wallet /\ t.n \in Nat /\ t.p \in Nat
BY AdmissionAssumption

\* A nonce moved on.
LEMMA BumpIs ==
  ASSUME NEW v \in [Wallet -> Nat], NEW w \in Wallet
  PROVE  /\ Bump(v, w) \in [Wallet -> Nat]
         /\ Bump(v, w)[w] = v[w] + 1
         /\ \A u \in Wallet : u # w => Bump(v, w)[u] = v[u]
BY DEF Bump

\* Backed is what the run checks.
LEMMA BackedSuffices == TypeInv /\ Backed(check) => NoHoleBelowCheck
<1> SUFFICES ASSUME TypeInv, Backed(check), NEW w \in Wallet \ (evicted \cup lost),
                    NEW n \in chain[w]..check[w]-1
             PROVE  Pooled(w, n)
  BY DEF NoHoleBelowCheck
<1>1. chain[w] \in Nat /\ check[w] \in Nat
  BY DEF TypeInv
<1>2. n \in Nat /\ chain[w] <= n /\ n < check[w]
  BY <1>1
<1> QED BY <1>2 DEF Backed

\* legacypool.Add keeps every slot filled that was.
LEMMA PoolWithKeepsSlots ==
  ASSUME NEW t, NEW w, NEW n, Pooled(w, n)
  PROVE  \E s \in PoolWith(t) : s.w = w /\ s.n = n
BY DEF PoolWith, SameSlot, Pooled

\* It takes at most one place more of its sender's, and nobody else's share
\* changes.
LEMMA PoolWithShares ==
  ASSUME TypeInv, NEW t \in Tx
  PROVE  /\ PoolWith(t) \subseteq Tx /\ IsFiniteSet(PoolWith(t))
         /\ Cardinality({s \in PoolWith(t) : s.w = t.w}) <= Cardinality(Of(t.w)) + 1
         /\ \A w \in Wallet \ {t.w} : {s \in PoolWith(t) : s.w = w} = Of(w)
<1> DEFINE Mine == Of(t.w) \ SameSlot(t)
<1>1. IsFiniteSet(Of(t.w)) /\ Cardinality(Of(t.w)) \in Nat
  BY FS_Subset, FS_CardinalityType DEF TypeInv, Of
<1>2. IsFiniteSet(Mine) /\ Cardinality(Mine) \in Nat /\ Cardinality(Mine) <= Cardinality(Of(t.w))
  BY <1>1, FS_Subset, FS_CardinalityType
<1>3. {s \in PoolWith(t) : s.w = t.w} = Mine \cup {t}
  BY DEF PoolWith, Of, SameSlot
<1>4. Cardinality(Mine \cup {t}) <= Cardinality(Mine) + 1
  <2>1. Cardinality(Mine \cup {t}) = IF t \in Mine THEN Cardinality(Mine) ELSE Cardinality(Mine) + 1
    BY <1>2, FS_AddElement
  <2> HIDE DEF Mine
  <2> QED BY <1>2, <2>1
<1>5. IsFiniteSet(PoolWith(t))
  <2>1. IsFiniteSet(pool \ SameSlot(t))
    BY FS_Subset DEF TypeInv
  <2> QED BY <2>1, FS_AddElement DEF PoolWith
<1>6. PoolWith(t) \subseteq Tx
  BY DEF PoolWith, TypeInv
<1>7. \A w \in Wallet \ {t.w} : {s \in PoolWith(t) : s.w = w} = Of(w)
  BY DEF PoolWith, Of, SameSlot
<1>8. Cardinality(Mine \cup {t}) \in Nat
  BY <1>2, FS_AddElement, FS_CardinalityType
<1>9. Cardinality({s \in PoolWith(t) : s.w = t.w}) <= Cardinality(Of(t.w)) + 1
  <2> HIDE DEF Mine
  <2> QED BY <1>1, <1>2, <1>3, <1>4, <1>8
<1> QED BY <1>5, <1>6, <1>7, <1>9

\* A pool that only loses transactions keeps its type and the cap.
LEMMA ShrinkKeepsCap ==
  ASSUME IndInv, pool' \subseteq pool
  PROVE  pool' \subseteq Tx /\ IsFiniteSet(pool') /\ CapHolds'
<1> SUFFICES ASSUME NEW w \in Wallet PROVE Cardinality(Of(w)') <= MaxPending
  BY FS_Subset DEF IndInv, TypeInv, CapHolds
<1>1. Of(w)' \subseteq Of(w) /\ IsFiniteSet(Of(w))
  BY FS_Subset DEF IndInv, TypeInv, Of
<1>2. Cardinality(Of(w)') <= Cardinality(Of(w))
  BY <1>1, FS_Subset
<1>3. Cardinality(Of(w)) \in Nat /\ Cardinality(Of(w)') \in Nat
  BY <1>1, FS_Subset, FS_CardinalityType
<1> QED BY <1>2, <1>3, AdmissionAssumption DEF IndInv, CapHolds

\* What a step takes from the pool of a wallet it does not count as lost, a
\* block has used: the slots from the committed nonce on stay filled.
LEMMA SlotsKept ==
  ASSUME TypeInv, Losing, NEW w \in Wallet, w \notin lost', NEW n \in Nat, chain'[w] <= n,
         chain' \in [Wallet -> Nat], Pooled(w, n)
  PROVE  Pooled(w, n)' /\ w \notin lost
<1>1. PICK t \in pool : t.w = w /\ t.n = n
  BY DEF Pooled
<1>2. ASSUME t \notin pool' PROVE FALSE
  <2>1. n >= chain'[w]
    BY DEF TypeInv
  <2>2. t \in {s \in pool \ pool' : s.n >= chain'[s.w]}
    BY <1>1, <1>2, <2>1
  <2> QED BY <1>1, <2>2 DEF Losing
<1> QED BY <1>1, <1>2 DEF Losing, Pooled

\* The history of losses only grows, over wallets.
LEMMA LosingType ==
  ASSUME TypeInv, Losing
  PROVE  lost \subseteq lost' /\ lost' \subseteq Wallet
BY TxFields DEF Losing, TypeInv

-----------------------------------------------------------------------------
(* The invariant is inductive.                                             *)

\* The empty node.
LEMMA InitInv == Init => IndInv
<1> SUFFICES ASSUME Init PROVE IndInv
  OBVIOUS
<1>1. TypeInv
  <2>1. Zero \in [Wallet -> Nat] /\ IsFiniteSet(pool) /\ <<>> \in Seq(Tx)
    BY FS_EmptySet DEF Init, Zero
  <2> QED BY <2>1 DEF Init, TypeInv
<1>2. \A w \in Wallet : Of(w) = {}
  BY DEF Init, Of
<1>3. CapHolds
  BY <1>2, FS_EmptySet, AdmissionAssumption DEF CapHolds
<1>4. PoolRead /\ Backed(check) /\ Backed(latest) /\ PoolBehind
  BY DEF Init, Zero, PoolRead, Backed, PoolBehind
<1> QED BY <1>1, <1>3, <1>4 DEF IndInv

\* Submit: the cap is tested before a transaction is added, and the check
\* state moves on only over a slot the pool fills, already or now, or the
\* chain has used.
LEMMA SubmitInv ==
  ASSUME IndInv, NEW t \in Tx, Submit(t)
  PROVE  IndInv'
<1> USE DEF IndInv
<1>0. t.w \in Wallet /\ t.n \in Nat /\ t.p \in Nat
  BY TxFields
<1>1. UNCHANGED <<chain, latest, poolSeq, resetting, comet, recheck, events, evicted, lost, late>>
  BY DEF Submit
<1>2. check' \in [Wallet -> Nat] /\ checking' \subseteq Tx /\ read' \subseteq Wallet
  BY <1>0, BumpIs DEF Submit, TypeInv
<1>3. \A w, n : Pooled(w, n) => Pooled(w, n)'
  <2>1. CASE pool' = pool
    BY <2>1 DEF Pooled
  <2>2. CASE pool' = PoolWith(t)
    BY <2>2, PoolWithKeepsSlots DEF Pooled
  <2> QED BY <2>1, <2>2 DEF Submit
<1>4. TypeInv' /\ CapHolds' /\ PoolRead'
  <2>1. CASE Offered(t) /\ PoolTakes(t)
    <3>1. ~AtCap(t.w) /\ pool' = PoolWith(t) /\ read' = read \cup {t.w}
      BY <2>1 DEF Submit, Offered, PoolTakes
    <3>2. pool' \subseteq Tx /\ IsFiniteSet(pool')
      BY <3>1, PoolWithShares
    <3>3. CapHolds'
      <4> SUFFICES ASSUME NEW w \in Wallet PROVE Cardinality(Of(w)') <= MaxPending
        BY DEF CapHolds
      <4>1. Of(w)' = {s \in PoolWith(t) : s.w = w}
        BY <3>1 DEF Of
      <4>2. IsFiniteSet(Of(w)) /\ IsFiniteSet(Of(w)')
        BY <3>2, FS_Subset DEF TypeInv, Of
      <4>3. Cardinality(Of(w)) \in Nat /\ Cardinality(Of(w)') \in Nat
        BY <4>2, FS_CardinalityType
      <4>4. CASE w = t.w
        <5>1. Cardinality(Of(w)) < MaxPending
          BY <3>1, <4>3, <4>4, AdmissionAssumption DEF AtCap
        <5>2. Cardinality(Of(w)') <= Cardinality(Of(w)) + 1
          BY <4>1, <4>4, PoolWithShares
        <5> QED BY <4>3, <5>1, <5>2, AdmissionAssumption
      <4>5. CASE w # t.w
        BY <4>1, <4>5, PoolWithShares DEF CapHolds
      <4> QED BY <4>4, <4>5
    <3>4. PoolRead'
      BY <3>1 DEF PoolRead, PoolWith
    <3> QED BY <1>1, <1>2, <3>2, <3>3, <3>4 DEF TypeInv
  <2>2. CASE ~(Offered(t) /\ PoolTakes(t))
    <3>1. pool' = pool /\ read \subseteq read'
      BY <2>2 DEF Submit
    <3> QED BY <1>1, <1>2, <3>1 DEF TypeInv, CapHolds, Of, PoolRead
  <2> QED BY <2>1, <2>2
<1>5. Backed(check)'
  <2> SUFFICES ASSUME NEW w \in Wallet \ (evicted \cup lost), NEW n \in Nat,
                      chain[w] <= n, n < check'[w]
               PROVE  Pooled(w, n)'
    BY <1>1 DEF Backed
  <2>1. CASE n < check[w]
    BY <1>3, <2>1 DEF Backed
  <2>2. CASE ~(n < check[w])
    <3>1. w = t.w /\ n = t.n /\ Passes(t)
      <4>1. Passes(t)
        BY <2>2 DEF Submit
      <4>2. check' = Bump(check, t.w) /\ t.n = check[t.w]
        BY <4>1 DEF Submit, Passes
      <4>3. check[w] \in Nat /\ check'[w] \in Nat
        BY <1>2 DEF TypeInv
      <4>4. w = t.w
        <5>1. w # t.w => check'[w] = check[w]
          BY <1>0, <4>2, IndInv DEF IndInv, TypeInv, Bump
        <5> QED BY <2>2, <5>1
      <4>5. check'[w] = check[w] + 1
        BY <1>0, <4>2, <4>4, BumpIs DEF TypeInv
      <4> QED BY <2>2, <4>1, <4>2, <4>3, <4>4, <4>5
    <3>2. CASE PoolTakes(t)
      <4>1. pool' = PoolWith(t)
        BY <3>1, <3>2 DEF Submit, Offered, Passes
      <4> QED BY <3>1, <4>1 DEF PoolWith, Pooled
    <3>3. CASE ~PoolTakes(t)
      <4>1. poolSeq[w] <= chain[w] /\ poolSeq[w] \in Nat /\ chain[w] \in Nat
        BY DEF PoolBehind, TypeInv
      <4>2. t.n >= poolSeq[t.w]
        BY <3>1, <4>1
      <4>3. Pooled(w, n)
        BY <3>1, <3>3, <4>2 DEF PoolTakes, SameSlot, Pooled
      <4> QED BY <1>3, <4>3
    <3> QED BY <3>2, <3>3
  <2> QED BY <2>1, <2>2
<1>6. Backed(latest)'
  BY <1>1, <1>3 DEF Backed
<1>7. PoolBehind'
  BY <1>1 DEF PoolBehind
<1> QED BY <1>4, <1>5, <1>6, <1>7

\* The transaction reaches CometBFT's list.
LEMMA AnswerInv == IndInv /\ Answer => IndInv'
<1> SUFFICES ASSUME IndInv, Answer PROVE IndInv'
  OBVIOUS
<1> USE DEF IndInv
<1>1. UNCHANGED <<nonces, views, pool, recheck, events, evicted, lost, late>>
  BY DEF Answer
<1>2. checking' \subseteq Tx /\ comet' \in Seq(Tx)
  BY DEF Answer, TypeInv
<1>3. TypeInv'
  BY <1>1, <1>2 DEF TypeInv, nonces, views
<1> QED BY <1>1, <1>3 DEF CapHolds, Of, PoolRead, Backed, PoolBehind, Pooled, nonces, views

\* mempool.Remove of a transaction, the chain at the nonces of the step's end:
\* the pool only shrinks, and the latest context moves over a slot that is
\* filled or used.
LEMMA RemoveTxIs ==
  ASSUME IndInv, NEW t \in Tx, RemoveTx(t)
  PROVE  /\ pool' \subseteq pool /\ latest' \in [Wallet -> Nat] /\ poolSeq' \in [Wallet -> Nat]
         /\ \A w \in Wallet, n \in Nat : n < latest'[w] /\ ~(n < latest[w]) => w = t.w /\ n = t.n
         /\ \A w \in Wallet : \/ poolSeq'[w] = poolSeq[w]
                              \/ w = t.w /\ w \notin read /\ poolSeq'[w] = poolSeq[w] + 1
<1> USE DEF IndInv
<1>0. t.w \in Wallet /\ t.n \in Nat
  BY TxFields
<1>1. pool' \subseteq pool
  BY DEF RemoveTx
<1>2. latest' \in [Wallet -> Nat] /\ poolSeq' \in [Wallet -> Nat]
  BY <1>0, BumpIs DEF RemoveTx, TypeInv
<1>3. ASSUME NEW w \in Wallet, NEW n \in Nat, n < latest'[w], ~(n < latest[w])
      PROVE  w = t.w /\ n = t.n
  <2>1. t.n = latest[t.w] /\ latest' = Bump(latest, t.w)
    BY <1>3 DEF RemoveTx
  <2>2. latest[w] \in Nat /\ latest'[w] \in Nat
    BY <1>2 DEF TypeInv
  <2>3. w = t.w
    BY <1>0, <1>3, <2>1, BumpIs DEF TypeInv
  <2>4. latest'[w] = latest[w] + 1
    BY <1>0, <2>1, <2>3, BumpIs DEF TypeInv
  <2> QED BY <1>3, <2>1, <2>2, <2>3, <2>4
<1>4. ASSUME NEW w \in Wallet
      PROVE  \/ poolSeq'[w] = poolSeq[w]
             \/ w = t.w /\ w \notin read /\ poolSeq'[w] = poolSeq[w] + 1
  <2>1. CASE poolSeq' = poolSeq
    BY <2>1
  <2>2. CASE poolSeq' = Bump(poolSeq, t.w) /\ t.w \notin read
    <3>1. w # t.w => poolSeq'[w] = poolSeq[w]
      BY <1>0, <2>2, BumpIs DEF TypeInv
    <3>2. w = t.w => poolSeq'[w] = poolSeq[w] + 1
      BY <1>0, <2>2, IndInv DEF IndInv, TypeInv, Bump
    <3> QED BY <2>2, <3>1, <3>2
  <2> QED BY <2>1, <2>2 DEF RemoveTx
<1> QED BY <1>1, <1>2, <1>3, <1>4

Slot(t) == <<t.w, t.n>>
Distinct(s) == \A i, j \in 1..Len(s) : i # j => Slot(s[i]) # Slot(s[j])

\* What a block leaves of CometBFT's list.
LEMMA RestIs ==
  ASSUME NEW s \in Seq(Tx), NEW t
  PROVE  /\ RemoveFirst(s, t) \in Seq(Tx)
         /\ Distinct(s) => Distinct(RemoveFirst(s, t))
<1>1. CASE ~ \E i \in 1..Len(s) : s[i] = t
  <2>1. RemoveFirst(s, t) = s
    BY <1>1 DEF RemoveFirst
  <2> QED BY <2>1
<1>2. CASE \E i \in 1..Len(s) : s[i] = t
  <2> DEFINE I == {i \in 1..Len(s) : s[i] = t}
             r == RemoveFirst(s, t)
  <2>1. \E k \in I : \A i \in I : k <= i
    <3>1. I \subseteq Nat /\ I # {}
      BY <1>2
    <3> HIDE DEF I
    <3> QED BY <3>1, LeastNat
  <2>2. Min(I) \in I
    BY <2>1 DEF Min
  <2>3. SelectInSeq(s, LAMBDA v : v = t) = Min(I)
    BY <1>2 DEF SelectInSeq
  <2>4. PICK m \in 1..Len(s) : r = SubSeq(s, 1, m-1) \o SubSeq(s, m+1, Len(s))
    BY <1>2, <2>2, <2>3 DEF RemoveFirst, RemoveAt
  <2> HIDE DEF r
  <2>5. r \in Seq(Tx) /\ Len(r) = Len(s) - 1
        /\ \A i \in 1..Len(r) : r[i] = IF i < m THEN s[i] ELSE s[i+1]
    <3> DEFINE x == SubSeq(s, 1, m-1)
               y == SubSeq(s, m+1, Len(s))
    <3>1. x \in Seq(Tx) /\ Len(x) = m - 1 /\ \A i \in 1..m-1 : x[i] = s[i]
      BY SubSeqProperties
    <3>2. y \in Seq(Tx) /\ Len(y) = Len(s) - m /\ \A i \in 1..Len(s)-m : y[i] = s[m+i]
      BY SubSeqProperties
    <3> HIDE DEF x, y
    <3>3. r = x \o y
      BY <2>4 DEF x, y
    <3>4. r \in Seq(Tx) /\ Len(r) = Len(x) + Len(y)
          /\ \A i \in 1..Len(x)+Len(y) : r[i] = IF i <= Len(x) THEN x[i] ELSE y[i - Len(x)]
      BY ONLY <3>1, <3>2, <3>3, ConcatProperties
    <3>5. ASSUME NEW i \in 1..Len(r) PROVE r[i] = IF i < m THEN s[i] ELSE s[i+1]
      <4>1. CASE i < m
        BY <3>1, <3>4, <4>1
      <4>2. CASE ~(i < m)
        <5>1. i - (m - 1) \in 1..Len(s)-m /\ m + (i - (m - 1)) = i + 1
          BY <3>1, <3>2, <3>4, <4>2
        <5>2. r[i] = y[i - (m - 1)]
          BY <3>1, <3>4, <4>2
        <5> QED BY <3>2, <4>2, <5>1, <5>2
      <4> QED BY <4>1, <4>2
    <3> QED BY <3>1, <3>2, <3>4, <3>5
  <2>7. ASSUME Distinct(s), NEW i \in 1..Len(r), NEW j \in 1..Len(r), i # j
        PROVE  Slot(r[i]) # Slot(r[j])
    <3> DEFINE At(x) == IF x < m THEN x ELSE x + 1
    <3>1. At(i) \in 1..Len(s) /\ At(j) \in 1..Len(s) /\ At(i) # At(j)
      BY <2>5, <2>7
    <3>2. s[At(i)] = r[i] /\ s[At(j)] = r[j]
      BY <2>5
    <3> HIDE DEF At
    <3> QED BY <2>7, <3>1, <3>2 DEF Distinct
  <2>8. Distinct(s) => Distinct(r)
    BY <2>7 DEF Distinct
  <2> QED BY <2>5, <2>8 DEF r
<1> QED BY <1>1, <1>2

\* A block: the check state restarts from the committed one, and what the
\* delivered transaction's Remove moves, the block has moved too.
LEMMA CommitInv ==
  ASSUME IndInv, NEW t \in Tx, Commit(t)
  PROVE  IndInv'
<1> USE DEF IndInv
<1>0. t.w \in Wallet /\ t.n \in Nat
  BY TxFields
<1>1. /\ t.n = chain[t.w] /\ chain' = Bump(chain, t.w) /\ RemoveTx(t) /\ Losing
      /\ check' = chain' /\ recheck' = RemoveFirst(comet, t) /\ comet' = <<>>
      /\ events' = events + 1 /\ late' = (late \/ events > 0 \/ resetting)
      /\ UNCHANGED <<checking, read, resetting, evicted>>
  BY DEF Commit, Block, RemoveTx
<1>2. chain' \in [Wallet -> Nat] /\ \A w \in Wallet : chain[w] <= chain'[w]
  <2>1. chain' \in [Wallet -> Nat]
    BY <1>0, <1>1, BumpIs DEF TypeInv
  <2>2. ASSUME NEW w \in Wallet PROVE chain[w] <= chain'[w]
    <3>1. w # t.w => chain'[w] = chain[w]
      BY <1>0, <1>1, BumpIs DEF TypeInv
    <3>2. w = t.w => chain'[w] = chain[w] + 1
      BY <1>0, <1>1, IndInv DEF IndInv, TypeInv, Bump
    <3>3. chain[w] \in Nat
      BY DEF TypeInv
    <3> QED BY <3>1, <3>2, <3>3
  <2> QED BY <2>1, <2>2
<1>3. chain'[t.w] = t.n + 1
  <2>1. Bump(chain, t.w)[t.w] = chain[t.w] + 1
    BY <1>0, BumpIs DEF TypeInv
  <2> QED BY <1>1, <2>1
<1>4. TypeInv'
  <2>1. pool' \subseteq Tx /\ IsFiniteSet(pool') /\ latest' \in [Wallet -> Nat]
        /\ poolSeq' \in [Wallet -> Nat]
    BY <1>1, RemoveTxIs, ShrinkKeepsCap
  <2>2. lost' \subseteq Wallet
    BY <1>1, LosingType
  <2>3. comet' \in Seq(Tx) /\ recheck' \in Seq(Tx)
    BY <1>1, RestIs DEF TypeInv
  <2>4. events' \in Nat /\ late' \in BOOLEAN
    BY <1>1 DEF TypeInv
  <2> QED BY <1>1, <1>2, <2>1, <2>2, <2>3, <2>4 DEF TypeInv
<1>5. CapHolds' /\ PoolRead'
  <2>1. pool' \subseteq pool
    BY <1>1, RemoveTxIs
  <2> QED BY <1>1, <2>1, ShrinkKeepsCap DEF PoolRead
<1>6. Backed(check)'
  BY <1>1, <1>4 DEF Backed, TypeInv
<1>7. Backed(latest)'
  <2> SUFFICES ASSUME NEW w \in Wallet \ (evicted \cup lost'), NEW n \in Nat,
                      chain'[w] <= n, n < latest'[w]
               PROVE  Pooled(w, n)'
    BY <1>1 DEF Backed
  <2>0. chain[w] \in Nat /\ chain'[w] \in Nat /\ chain[w] <= chain'[w]
    BY <1>2 DEF TypeInv
  <2>1. n < latest[w]
    <3> SUFFICES ASSUME ~(n < latest[w]) PROVE FALSE
      OBVIOUS
    <3>1. w = t.w /\ n = t.n
      BY <1>1, RemoveTxIs
    <3> QED BY <1>0, <1>3, <3>1
  <2>2. w \notin lost
    BY <1>1, LosingType
  <2>3. Pooled(w, n)
    BY <2>0, <2>1, <2>2 DEF Backed
  <2> QED BY <1>1, <1>2, <2>3, SlotsKept
<1>8. PoolBehind'
  <2> SUFFICES ASSUME NEW w \in Wallet \ (evicted \cup lost') PROVE poolSeq'[w] <= chain'[w]
    BY <1>1 DEF PoolBehind
  <2>1. w \notin lost
    BY <1>1, LosingType
  <2>2. poolSeq[w] <= chain[w] /\ poolSeq[w] \in Nat /\ chain[w] \in Nat /\ chain'[w] \in Nat
        /\ chain[w] <= chain'[w]
    BY <1>2, <2>1 DEF PoolBehind, TypeInv
  <2>3. poolSeq'[w] = poolSeq[w] \/ (w = t.w /\ poolSeq'[w] = poolSeq[w] + 1)
    BY <1>1, RemoveTxIs
  <2>4. w = t.w => chain'[w] = chain[w] + 1
    BY <1>1, <1>3
  <2> QED BY <2>2, <2>3, <2>4
<1> QED BY <1>4, <1>5, <1>6, <1>7, <1>8

\* A block with nothing of the pool's.
LEMMA EmptyBlockInv == IndInv /\ EmptyBlock => IndInv'
<1> SUFFICES ASSUME IndInv, EmptyBlock PROVE IndInv'
  OBVIOUS
<1> USE DEF IndInv
<1>1. /\ UNCHANGED <<chain, latest, poolSeq, pool, lost, checking, read, resetting, evicted>>
      /\ check' = chain /\ recheck' = comet /\ comet' = <<>> /\ events' = events + 1
      /\ late' = (late \/ events > 0 \/ resetting)
  BY DEF EmptyBlock, Block
<1>2. TypeInv'
  BY <1>1 DEF TypeInv
<1>3. Backed(check)'
  BY <1>1 DEF Backed, TypeInv
<1> QED BY <1>1, <1>2, <1>3 DEF CapHolds, Of, PoolRead, Backed, PoolBehind, Pooled

\* A recheck advances the check state over a pooled transaction; a refused one
\* moves the latest context over its own slot, which is filled.
LEMMA RecheckInv == IndInv /\ Recheck => IndInv'
<1> SUFFICES ASSUME IndInv, Recheck PROVE IndInv'
  OBVIOUS
<1> USE DEF IndInv
<1> DEFINE t == Head(recheck)
<1>0. t \in Tx /\ recheck' \in Seq(Tx)
  BY HeadTailProperties DEF Recheck, TypeInv
<1>1. UNCHANGED <<chain, read, resetting, checking, events, evicted, late>>
  BY DEF Recheck
<1>2. \/ Orphan(t) /\ UNCHANGED <<comet, check, latest, poolSeq, pool, lost>>
      \/ /\ ~Orphan(t) /\ Passes(t) /\ comet' = Append(comet, t) /\ check' = Bump(check, t.w)
         /\ UNCHANGED <<latest, poolSeq, pool, lost>>
      \/ ~Orphan(t) /\ ~Passes(t) /\ UNCHANGED <<comet, check>> /\ RemoveTx(t)
  BY DEF Recheck
<1> HIDE DEF t
<1>3. t.w \in Wallet /\ t.n \in Nat
  BY <1>0, TxFields
<1>4. CASE UNCHANGED <<comet, check, latest, poolSeq, pool, lost>>
  <2>1. TypeInv'
    BY <1>0, <1>1, <1>4 DEF TypeInv
  <2> QED BY <1>1, <1>4, <2>1 DEF CapHolds, Of, PoolRead, Backed, PoolBehind, Pooled
<1>5. CASE /\ ~Orphan(t) /\ Passes(t) /\ comet' = Append(comet, t) /\ check' = Bump(check, t.w)
           /\ UNCHANGED <<latest, poolSeq, pool, lost>>
  <2>1. TypeInv'
    <3>1. comet' \in Seq(Tx) /\ check' \in [Wallet -> Nat]
      BY <1>0, <1>3, <1>5, BumpIs, AppendProperties DEF TypeInv
    <3> QED BY <1>0, <1>1, <1>5, <3>1 DEF TypeInv
  <2>2. Backed(check)'
    <3> SUFFICES ASSUME NEW w \in Wallet \ (evicted \cup lost), NEW n \in Nat,
                        chain[w] <= n, n < check'[w]
                 PROVE  Pooled(w, n)
      BY <1>1, <1>5 DEF Backed, Pooled
    <3>1. CASE n < check[w]
      BY <3>1 DEF Backed
    <3>2. CASE ~(n < check[w])
      <4>1. w # t.w => check'[w] = check[w]
        BY <1>3, <1>5, IndInv DEF IndInv, TypeInv, Bump
      <4>2. w = t.w
        BY <3>2, <4>1
      <4>3. check'[w] = check[w] + 1 /\ check[w] \in Nat
        BY <1>3, <1>5, <4>2, IndInv DEF IndInv, TypeInv, Bump
      <4>4. n = t.n
        BY <1>5, <3>2, <4>2, <4>3 DEF Passes
      <4> QED BY <1>5, <4>2, <4>4 DEF Orphan, Pooled
    <3> QED BY <3>1, <3>2
  <2> QED BY <1>1, <1>5, <2>1, <2>2 DEF CapHolds, Of, PoolRead, Backed, PoolBehind, Pooled
<1>6. CASE ~Orphan(t) /\ ~Passes(t) /\ UNCHANGED <<comet, check>> /\ RemoveTx(t)
  <2>0. t \in pool /\ Losing /\ pool' \subseteq pool
    BY <1>6 DEF Orphan, RemoveTx
  <2>1. TypeInv'
    <3>1. pool' \subseteq Tx /\ IsFiniteSet(pool') /\ lost' \subseteq Wallet
      BY <2>0, ShrinkKeepsCap, LosingType
    <3>2. latest' \in [Wallet -> Nat] /\ poolSeq' \in [Wallet -> Nat]
      BY <1>0, <1>6, RemoveTxIs
    <3> QED BY <1>0, <1>1, <1>6, <3>1, <3>2 DEF TypeInv
  <2>2. CapHolds' /\ PoolRead'
    BY <1>1, <2>0, ShrinkKeepsCap DEF PoolRead
  <2>3. \A w \in Wallet \ (evicted \cup lost'), n \in Nat :
          chain[w] <= n /\ Pooled(w, n) => Pooled(w, n)'
    BY <1>1, <2>0, SlotsKept DEF TypeInv
  <2>4. lost \subseteq lost'
    BY <2>0, LosingType
  <2>5. Backed(check)'
    BY <1>1, <1>6, <2>3, <2>4 DEF Backed
  <2>6. Backed(latest)'
    <3> SUFFICES ASSUME NEW w \in Wallet \ (evicted \cup lost'), NEW n \in Nat,
                        chain[w] <= n, n < latest'[w]
                 PROVE  Pooled(w, n)
      BY <1>1, <2>3 DEF Backed
    <3>1. CASE n < latest[w]
      BY <2>4, <3>1 DEF Backed
    <3>2. CASE ~(n < latest[w])
      <4>1. w = t.w /\ n = t.n
        BY <1>0, <1>6, <3>2, RemoveTxIs
      <4> QED BY <2>0, <4>1 DEF Pooled
    <3> QED BY <3>1, <3>2
  <2>7. PoolBehind'
    <3>1. t.w \in read
      BY <2>0 DEF PoolRead
    <3>2. poolSeq' = poolSeq
      BY <1>6, <3>1 DEF RemoveTx
    <3> QED BY <1>1, <2>4, <3>2 DEF PoolBehind
  <2> QED BY <2>1, <2>2, <2>5, <2>6, <2>7
<1> QED BY <1>2, <1>4, <1>5, <1>6

\* The block event replaces the latest context.
LEMMA NotifyInv == IndInv /\ Notify => IndInv'
<1> SUFFICES ASSUME IndInv, Notify PROVE IndInv'
  OBVIOUS
<1> USE DEF IndInv
<1>1. /\ events' = events - 1 /\ events > 0 /\ latest' = chain /\ resetting' = TRUE
      /\ UNCHANGED <<chain, check, poolSeq, read, pool, checking, comet, recheck, evicted, lost,
                     late>>
  BY DEF Notify, nonces, lists, TypeInv
<1>2. TypeInv'
  BY <1>1 DEF TypeInv
<1>3. Backed(latest)'
  BY <1>1 DEF Backed, TypeInv
<1> QED BY <1>1, <1>2, <1>3 DEF CapHolds, Of, PoolRead, Backed, PoolBehind, Pooled

\* The pool is reset to the latest context: where that is ahead of the chain,
\* the unmined transaction at the committed nonce is dropped.
LEMMA ResetInv == IndInv /\ Reset => IndInv'
<1> SUFFICES ASSUME IndInv, Reset PROVE IndInv'
  OBVIOUS
<1> USE DEF IndInv
<1>1. /\ resetting' = FALSE /\ poolSeq' = latest /\ read' = {t.w : t \in pool}
      /\ pool' = {t \in pool : t.n >= latest[t.w]} /\ Losing
      /\ UNCHANGED <<chain, check, latest, checking, comet, recheck, events, evicted, late>>
  BY DEF Reset, nonces, lists
<1>2. pool' \subseteq Tx /\ IsFiniteSet(pool') /\ CapHolds' /\ lost \subseteq lost'
      /\ lost' \subseteq Wallet
  BY <1>1, ShrinkKeepsCap, LosingType
<1>3. TypeInv'
  BY <1>1, <1>2, TxFields DEF TypeInv
<1>4. PoolRead'
  BY <1>1 DEF PoolRead
<1>5. \A w \in Wallet \ (evicted \cup lost'), n \in Nat :
        chain[w] <= n /\ Pooled(w, n) => Pooled(w, n)'
  BY <1>1, SlotsKept DEF TypeInv
<1>6. Backed(check)' /\ Backed(latest)'
  BY <1>1, <1>2, <1>5 DEF Backed
<1>7. PoolBehind'
  <2> SUFFICES ASSUME NEW w \in Wallet \ (evicted \cup lost'), ~(latest[w] <= chain[w])
               PROVE  FALSE
    BY <1>1 DEF PoolBehind
  <2>1. PICK n \in Nat : n = chain[w] /\ n < latest[w] /\ latest[w] \in Nat
    BY DEF TypeInv
  <2>2. Pooled(w, n)
    BY <1>2, <2>1 DEF Backed
  <2>3. Pooled(w, n)'
    BY <1>5, <2>1, <2>2
  <2>4. PICK t \in pool' : t.w = w /\ t.n = n
    BY <2>3 DEF Pooled
  <2> QED BY <1>1, <2>1, <2>4
<1> QED BY <1>2, <1>3, <1>4, <1>6, <1>7

\* A wallet of which the pool gives a transaction up is excepted from then on.
LEMMA EvictInv == IndInv /\ Evict => IndInv'
<1> SUFFICES ASSUME IndInv, Evict PROVE IndInv'
  OBVIOUS
<1> USE DEF IndInv
<1>1. PICK t \in pool : pool' = pool \ {t} /\ evicted' = evicted \cup {t.w}
  BY DEF Evict
<1>2. UNCHANGED <<chain, check, latest, poolSeq, read, resetting, checking, comet, recheck,
                  events, lost, late>>
  BY DEF Evict, nonces, views, lists
<1>3. pool' \subseteq Tx /\ IsFiniteSet(pool') /\ CapHolds' /\ evicted' \subseteq Wallet
  BY <1>1, ShrinkKeepsCap, TxFields DEF TypeInv
<1>4. TypeInv'
  BY <1>2, <1>3 DEF TypeInv
<1>5. \A w \in Wallet \ (evicted' \cup lost), n \in Nat : Pooled(w, n) => Pooled(w, n)'
  BY <1>1 DEF Pooled
<1>6. Backed(check)' /\ Backed(latest)'
  BY <1>1, <1>2, <1>5 DEF Backed
<1>7. PoolRead' /\ PoolBehind'
  BY <1>1, <1>2 DEF PoolRead, PoolBehind
<1> QED BY <1>3, <1>4, <1>6, <1>7

\* A block of either kind.
LEMMA BlockCases ==
  ASSUME TypeInv, AnyBlock
  PROVE  EmptyBlock \/ \E t \in Tx : Commit(t)
BY DEF AnyBlock, Propose, Foreign, Of, TypeInv

\* The inductive invariant holds in every reachable state.
THEOREM Invariance == Spec => []IndInv
<1>1. IndInv /\ [Next]_vars => IndInv'
  <2> SUFFICES ASSUME IndInv, [Next]_vars PROVE IndInv'
    OBVIOUS
  <2>1. CASE AnyBlock
    <3>1. TypeInv
      BY DEF IndInv
    <3>2. EmptyBlock \/ \E t \in Tx : Commit(t)
      BY <2>1, <3>1, BlockCases
    <3> QED BY <3>2, CommitInv, EmptyBlockInv
  <2>2. CASE UNCHANGED vars
    <3>1. TypeInv'
      BY <2>2 DEF vars, nonces, views, lists, IndInv, TypeInv
    <3> QED BY <2>2, <3>1 DEF vars, nonces, views, lists, IndInv, CapHolds, Of, PoolRead, Backed,
                            Pooled, PoolBehind
  <2> QED BY <2>1, <2>2, SubmitInv, AnswerInv, RecheckInv, NotifyInv, ResetInv, EvictInv DEF Next
<1> QED BY InitInv, <1>1, PTL DEF Spec, Safety

\* No wallet ever holds more than the cap: the ante decorator's count, taken
\* before the pool adds, is enough although gapped and replacing transactions
\* enter past it and the pool lags behind the chain.
THEOREM CapAlwaysHolds == Spec => []CapHolds
<1>1. IndInv => CapHolds
  BY DEF IndInv
<1> QED BY Invariance, <1>1, PTL

\* The check state never runs ahead of what the pool holds, for a wallet of
\* which it has lost or given up nothing.
THEOREM CheckNeverAhead == Spec => []NoHoleBelowCheck
<1>1. IndInv => NoHoleBelowCheck
  BY BackedSuffices DEF IndInv
<1> QED BY Invariance, <1>1, PTL

-----------------------------------------------------------------------------
(* Nothing is lost while the block events keep up.                         *)

\* CometBFT holds at most one transaction of a slot: what it was told to keep
\* is below the check state, which stands at the nonce of the next one.
Apart ==
  /\ \A t \in checking : t.n < check[t.w]
  /\ \A i \in 1..Len(comet) : comet[i].n < check[comet[i].w]
  /\ \A s, t \in checking : Slot(s) = Slot(t) => s = t
  /\ \A s \in checking : \A i \in 1..Len(comet) : Slot(s) # Slot(comet[i])
  /\ Distinct(comet) /\ Distinct(recheck)
  /\ recheck # <<>> => checking = {}

\* As long as no block overtook the event of the one before it: the latest
\* context is the chain's between an event and the next block, and ahead of it
\* only over what CometBFT has rechecked since.
InTime ==
  ~late =>
    /\ lost = {} /\ events <= 1
    /\ recheck # <<>> => events = 1
    /\ events = 1 => ~resetting
    /\ events = 0 => latest = chain
    /\ \A i \in 1..Len(recheck) :
         chain[recheck[i].w] <= recheck[i].n => latest[recheck[i].w] <= recheck[i].n

\* A list with one more element at its end.
LEMMA AppendIs ==
  ASSUME NEW s \in Seq(Tx), NEW t \in Tx
  PROVE  /\ Len(Append(s, t)) = Len(s) + 1
         /\ \A i \in 1..Len(s) : Append(s, t)[i] = s[i]
         /\ Append(s, t)[Len(s) + 1] = t
         /\ \A i \in 1..Len(Append(s, t)) : i \in 1..Len(s) \/ i = Len(s) + 1
BY AppendProperties

\* CheckTx: the admitted one is at the check state's nonce, above all others.
LEMMA SubmitApart ==
  ASSUME IndInv, Apart, NEW t \in Tx, Submit(t)
  PROVE  Apart'
<1> USE DEF IndInv
<1>0. t.w \in Wallet /\ t.n \in Nat /\ check \in [Wallet -> Nat]
  BY TxFields DEF TypeInv
<1>1. recheck = <<>> /\ UNCHANGED <<comet, recheck>>
  BY DEF Submit
<1>2. \A w \in Wallet : check[w] \in Nat /\ check'[w] \in Nat /\ check[w] <= check'[w]
  <2> SUFFICES ASSUME NEW w \in Wallet
               PROVE  check[w] \in Nat /\ check'[w] \in Nat /\ check[w] <= check'[w]
    OBVIOUS
  <2>1. CASE check' = check
    BY <1>0, <2>1
  <2>2. CASE check' = Bump(check, t.w)
    BY <1>0, <2>2 DEF Bump
  <2> QED BY <2>1, <2>2 DEF Submit
<1>3. \A s \in Tx : s.w \in Wallet /\ s.n \in Nat
  BY TxFields
<1>4. \A i \in 1..Len(comet) : comet[i] \in Tx
  BY DEF TypeInv
<1>5. \A i \in 1..Len(comet) : comet[i].n < check'[comet[i].w]
  <2> SUFFICES ASSUME NEW i \in 1..Len(comet) PROVE comet[i].n < check'[comet[i].w]
    OBVIOUS
  <2>1. comet[i].w \in Wallet /\ comet[i].n \in Nat /\ comet[i].n < check[comet[i].w]
    BY <1>3, <1>4 DEF Apart
  <2> QED BY <1>2, <2>1
<1>6. \A s \in checking : s.n < check'[s.w]
  <2> SUFFICES ASSUME NEW s \in checking PROVE s.n < check'[s.w]
    OBVIOUS
  <2>1. s.w \in Wallet /\ s.n \in Nat /\ s.n < check[s.w]
    BY <1>3 DEF Apart, TypeInv
  <2> QED BY <1>2, <2>1
<1>7. CASE checking' = checking
  BY <1>1, <1>5, <1>6, <1>7 DEF Apart
<1>8. CASE Admits(t) /\ checking' = checking \cup {t}
  <2>1. t.n = check[t.w] /\ check'[t.w] = t.n + 1
    BY <1>0, <1>8 DEF Admits, Passes, Submit, Bump
  <2>2. \A s \in checking : Slot(s) # Slot(t)
    <3> SUFFICES ASSUME NEW s \in checking, s.w = t.w, s.n = t.n PROVE FALSE
      BY DEF Slot
    <3> QED BY <1>0, <2>1 DEF Apart
  <2>3. \A i \in 1..Len(comet) : Slot(t) # Slot(comet[i])
    <3> SUFFICES ASSUME NEW i \in 1..Len(comet), comet[i].w = t.w, comet[i].n = t.n PROVE FALSE
      BY DEF Slot
    <3>1. comet[i].n < check[comet[i].w]
      BY DEF Apart
    <3> QED BY <1>0, <2>1, <3>1
  <2>4. t.n < check'[t.w]
    BY <1>0, <2>1
  <2> QED BY <1>1, <1>5, <1>6, <1>8, <2>2, <2>3, <2>4 DEF Apart
<1> QED BY <1>7, <1>8 DEF Submit

\* From the callers to the list.
LEMMA AnswerApart == IndInv /\ Apart /\ Answer => Apart'
<1> SUFFICES ASSUME IndInv, Apart, Answer PROVE Apart'
  OBVIOUS
<1> USE DEF IndInv
<1>1. PICK t \in checking : checking' = checking \ {t} /\ comet' = Append(comet, t)
  BY DEF Answer
<1>2. UNCHANGED <<check, recheck>>
  BY DEF Answer, nonces
<1>3. t \in Tx /\ comet \in Seq(Tx)
  BY DEF TypeInv
<1>4. /\ Len(comet') = Len(comet) + 1 /\ Len(comet) \in Nat
      /\ \A i \in 1..Len(comet) : comet'[i] = comet[i]
      /\ comet'[Len(comet) + 1] = t
      /\ \A i \in 1..Len(comet') : i \in 1..Len(comet) \/ i = Len(comet) + 1
  BY <1>1, <1>3, AppendIs
<1>5. \A i \in 1..Len(comet') : comet'[i].n < check[comet'[i].w]
  BY <1>1, <1>4 DEF Apart
<1>6. \A s \in checking' : \A i \in 1..Len(comet') : Slot(s) # Slot(comet'[i])
  BY <1>1, <1>4 DEF Apart
<1>7. Distinct(comet')
  BY <1>1, <1>4 DEF Apart, Distinct
<1> QED BY <1>1, <1>2, <1>5, <1>6, <1>7 DEF Apart

\* A block moves the list to the rechecks.
LEMMA BlockApart ==
  ASSUME IndInv, Apart, AnyBlock
  PROVE  Apart'
<1> USE DEF IndInv
<1>1. checking = {} /\ checking' = {} /\ comet' = <<>>
  BY BlockCases DEF EmptyBlock, Commit, Block
<1>2. Distinct(recheck')
  <2>1. CASE recheck' = comet
    BY <2>1 DEF Apart
  <2>2. ASSUME NEW t, recheck' = RemoveFirst(comet, t)
        PROVE  Distinct(recheck')
    BY <2>2, RestIs DEF Apart, TypeInv
  <2> QED BY <2>1, <2>2, BlockCases DEF EmptyBlock, Commit, Block
<1>3. Len(comet') = 0
  BY <1>1
<1> QED BY <1>1, <1>2, <1>3 DEF Apart, Distinct

\* A recheck takes the first of the list, and appends it if it is at the check
\* state's nonce.
LEMMA RecheckApart == IndInv /\ Apart /\ Recheck => Apart'
<1> SUFFICES ASSUME IndInv, Apart, Recheck PROVE Apart'
  OBVIOUS
<1> USE DEF IndInv
<1> DEFINE t == Head(recheck)
<1>0. /\ t \in Tx /\ recheck' \in Seq(Tx) /\ Len(recheck') = Len(recheck) - 1
      /\ \A i \in 1..Len(recheck') : recheck'[i] = recheck[i+1]
      /\ Len(recheck) \in Nat
  BY HeadTailProperties DEF Recheck, TypeInv
<1>1. checking = {} /\ checking' = {}
  BY DEF Recheck, Apart
<1>2. \/ UNCHANGED <<comet, check>>
      \/ Passes(t) /\ comet' = Append(comet, t) /\ check' = Bump(check, t.w)
  BY DEF Recheck
<1> HIDE DEF t
<1>3. Distinct(recheck')
  <2> SUFFICES ASSUME NEW i \in 1..Len(recheck'), NEW j \in 1..Len(recheck'), i # j
               PROVE  Slot(recheck'[i]) # Slot(recheck'[j])
    BY DEF Distinct
  <2>1. i + 1 \in 1..Len(recheck) /\ j + 1 \in 1..Len(recheck) /\ i + 1 # j + 1
    BY <1>0
  <2> QED BY <1>0, <2>1 DEF Apart, Distinct
<1>4. CASE UNCHANGED <<comet, check>>
  BY <1>1, <1>3, <1>4 DEF Apart
<1>5. CASE Passes(t) /\ comet' = Append(comet, t) /\ check' = Bump(check, t.w)
  <2>0. t.w \in Wallet /\ t.n \in Nat /\ check \in [Wallet -> Nat] /\ comet \in Seq(Tx)
    BY <1>0, TxFields DEF TypeInv
  <2>1. t.n = check[t.w] /\ check'[t.w] = t.n + 1
    BY <1>5, <2>0 DEF Passes, Bump
  <2>2. /\ Len(comet') = Len(comet) + 1 /\ Len(comet) \in Nat
        /\ \A i \in 1..Len(comet) : comet'[i] = comet[i]
        /\ comet'[Len(comet) + 1] = t
        /\ \A i \in 1..Len(comet') : i \in 1..Len(comet) \/ i = Len(comet) + 1
    BY <1>0, <1>5, <2>0, AppendIs
  <2>3. \A i \in 1..Len(comet) : /\ comet[i].w \in Wallet /\ comet[i].n \in Nat
                                 /\ comet[i].n < check[comet[i].w]
    BY <2>0, TxFields DEF Apart
  <2>4. \A i \in 1..Len(comet) : comet[i].n < check'[comet[i].w] /\ Slot(comet[i]) # Slot(t)
    <3> SUFFICES ASSUME NEW i \in 1..Len(comet)
                 PROVE  comet[i].n < check'[comet[i].w] /\ Slot(comet[i]) # Slot(t)
      OBVIOUS
    <3> DEFINE c == comet[i]
    <3>1. c.w \in Wallet /\ c.n \in Nat /\ c.n < check[c.w]
      BY <2>3
    <3> HIDE DEF c
    <3>2. CASE c.w = t.w
      BY <2>0, <2>1, <3>1, <3>2 DEF Slot, c
    <3>3. CASE c.w # t.w
      <4>1. check'[c.w] = check[c.w]
        BY <1>5, <2>0, <3>1, <3>3 DEF Bump
      <4> QED BY <3>1, <3>3, <4>1 DEF Slot, c
    <3> QED BY <3>2, <3>3
  <2>5. \A i \in 1..Len(comet') : comet'[i].n < check'[comet'[i].w]
    <3>1. t.n < check'[t.w]
      BY <2>0, <2>1
    <3> QED BY <2>2, <2>4, <3>1
  <2>6. Distinct(comet')
    BY <2>2, <2>4 DEF Apart, Distinct
  <2> QED BY <1>1, <1>3, <2>5, <2>6 DEF Apart
<1> QED BY <1>2, <1>4, <1>5

\* A pool that keeps what no block has used loses nothing.
LEMMA NothingLost ==
  ASSUME TypeInv, Losing, lost = {}, \A s \in pool : s \in pool' \/ ~(s.n >= chain'[s.w])
  PROVE  lost' = {}
BY DEF Losing

\* A block in time: the latest context moves with the chain.
LEMMA BlockInTime ==
  ASSUME IndInv, InTime, AnyBlock
  PROVE  InTime'
<1> USE DEF IndInv
<1> SUFFICES ASSUME ~late' PROVE InTime'
  BY DEF InTime
<1>1. /\ events < MaxLag /\ events' = events + 1 /\ late' = (late \/ events > 0 \/ resetting)
      /\ resetting' = resetting
  BY BlockCases DEF EmptyBlock, Commit, Block
<1>2. ~late /\ events = 0 /\ ~resetting
  <2>1. ~late /\ ~(events > 0) /\ ~resetting
    BY <1>1
  <2> QED BY <2>1 DEF TypeInv
<1>3. latest = chain /\ lost = {}
  BY <1>2 DEF InTime
<1>4. latest' = chain' /\ lost' = {} /\ chain' \in [Wallet -> Nat] /\ recheck' \in Seq(Tx)
  <2>1. CASE EmptyBlock
    BY <1>3, <2>1 DEF EmptyBlock, Block, TypeInv
  <2>2. ASSUME NEW t \in Tx, Commit(t)
        PROVE  latest' = chain' /\ lost' = {} /\ chain' \in [Wallet -> Nat] /\ recheck' \in Seq(Tx)
    <3>0. t.w \in Wallet /\ t.n \in Nat
      BY TxFields
    <3>1. t.n = latest[t.w] /\ chain' = Bump(chain, t.w) /\ RemoveTx(t)
      BY <1>3, <2>2 DEF Commit
    <3>2. latest' = chain' /\ pool' = pool /\ Losing
      BY <1>3, <3>0, <3>1 DEF RemoveTx
    <3>3. lost' = {}
      BY <1>3, <3>2, NothingLost
    <3> QED BY <2>2, <3>2, <3>3, CommitInv DEF TypeInv
  <2> QED BY <2>1, <2>2, BlockCases
<1>5. \A i \in 1..Len(recheck') :
         chain'[recheck'[i].w] <= recheck'[i].n => latest'[recheck'[i].w] <= recheck'[i].n
  BY <1>4
<1> QED BY <1>1, <1>2, <1>4, <1>5 DEF InTime

\* A recheck in time: what a Remove drops is mined, and the context moves over
\* the rechecked transaction's slot, which no other one on the list has.
LEMMA RecheckInTime == IndInv /\ Apart /\ InTime /\ Recheck => InTime'
<1> SUFFICES ASSUME IndInv, Apart, InTime, Recheck, ~late' PROVE InTime'
  BY DEF InTime
<1> USE DEF IndInv
<1> DEFINE t == Head(recheck)
<1>0. /\ t \in Tx /\ recheck' \in Seq(Tx) /\ Len(recheck') = Len(recheck) - 1
      /\ \A i \in 1..Len(recheck') : recheck'[i] = recheck[i+1]
      /\ Len(recheck) \in Nat \ {0} /\ t = recheck[1]
  BY HeadTailProperties DEF Recheck, TypeInv
<1>1. UNCHANGED <<chain, resetting, events, late>> /\ recheck # <<>>
  BY DEF Recheck
<1>2. \/ UNCHANGED <<latest, pool, lost>>
      \/ RemoveTx(t)
  BY DEF Recheck
<1> HIDE DEF t
<1>3. ~late /\ lost = {} /\ events = 1 /\ ~resetting
  BY <1>1 DEF InTime
<1>4. \A i \in 1..Len(recheck) :
        chain[recheck[i].w] <= recheck[i].n => latest[recheck[i].w] <= recheck[i].n
  BY <1>3 DEF InTime
<1>5. t.w \in Wallet /\ t.n \in Nat /\ chain[t.w] \in Nat /\ latest[t.w] \in Nat
  BY <1>0, TxFields DEF TypeInv
<1>6. chain[t.w] <= t.n => latest[t.w] <= t.n
  BY <1>0, <1>4
<1>7. lost' = {}
  <2>1. CASE UNCHANGED lost
    BY <1>3, <2>1
  <2>2. CASE RemoveTx(t)
    <3>1. \A s \in pool : s \in pool' \/ (s = t /\ t.n < latest[t.w])
      BY <2>2 DEF RemoveTx
    <3>2. t.n < latest[t.w] => ~(t.n >= chain'[t.w])
      BY <1>1, <1>5, <1>6
    <3>3. Losing
      BY <2>2 DEF RemoveTx
    <3> QED BY <1>3, <3>1, <3>2, <3>3, NothingLost
  <2> QED BY <1>2, <2>1, <2>2
<1>8. \A i \in 1..Len(recheck') :
         chain[recheck'[i].w] <= recheck'[i].n => latest'[recheck'[i].w] <= recheck'[i].n
  <2> SUFFICES ASSUME NEW i \in 1..Len(recheck'), chain[recheck'[i].w] <= recheck'[i].n
               PROVE  latest'[recheck'[i].w] <= recheck'[i].n
    OBVIOUS
  <2> DEFINE s == recheck'[i]
  <2>1. i + 1 \in 1..Len(recheck) /\ 1 \in 1..Len(recheck) /\ i + 1 # 1 /\ s = recheck[i + 1]
    BY <1>0
  <2>2. Slot(s) # Slot(t) /\ latest[s.w] <= s.n
    BY <1>0, <1>4, <2>1 DEF Apart, Distinct
  <2>3. s \in Tx
    BY <1>0
  <2> HIDE DEF s
  <2>4. s.w \in Wallet /\ s.n \in Nat
    BY <2>3, TxFields
  <2>5. CASE latest' = latest
    BY <2>2, <2>5 DEF s
  <2>6. CASE t.n = latest[t.w] /\ latest' = Bump(latest, t.w)
    <3>1. CASE s.w = t.w
      <4>1. latest'[s.w] = t.n + 1
        BY <1>5, <2>6, <3>1 DEF TypeInv, Bump
      <4>2. s.n # t.n
        BY <2>2, <3>1 DEF Slot
      <4> QED BY <1>5, <2>2, <2>4, <2>6, <3>1, <4>1, <4>2 DEF s
    <3>2. CASE s.w # t.w
      <4>1. latest'[s.w] = latest[s.w]
        BY <1>5, <2>4, <2>6, <3>2 DEF TypeInv, Bump
      <4> QED BY <2>2, <4>1 DEF s
    <3> QED BY <3>1, <3>2
  <2> QED BY <1>2, <2>5, <2>6 DEF RemoveTx
<1> QED BY <1>1, <1>3, <1>7, <1>8 DEF InTime

\* The pool's reset in time reads the chain.
LEMMA ResetInTime == IndInv /\ InTime /\ Reset => InTime'
<1> SUFFICES ASSUME IndInv, InTime, Reset, ~late' PROVE InTime'
  BY DEF InTime
<1> USE DEF IndInv
<1>1. /\ UNCHANGED <<chain, latest, recheck, events, late>> /\ resetting /\ resetting' = FALSE
      /\ pool' = {t \in pool : t.n >= latest[t.w]} /\ Losing
  BY DEF Reset, nonces, lists
<1>2. latest = chain /\ lost = {} /\ events = 0
  BY <1>1 DEF InTime, TypeInv
<1>3. lost' = {}
  BY <1>1, <1>2, NothingLost
<1> QED BY <1>1, <1>2, <1>3 DEF InTime

\* The block event restores the chain's nonces in the latest context.
LEMMA NotifyInTime == IndInv /\ InTime /\ Notify => InTime'
<1> SUFFICES ASSUME IndInv, InTime, Notify, ~late' PROVE InTime'
  BY DEF InTime
<1> USE DEF IndInv
<1>1. /\ UNCHANGED <<chain, recheck, lost, late>> /\ latest' = chain /\ events' = events - 1
      /\ events > (IF recheck = <<>> THEN 0 ELSE 1)
  BY DEF Notify, nonces, lists
<1>2. events = 1 /\ recheck = <<>> /\ lost = {}
  BY <1>1 DEF InTime, TypeInv
<1>3. events' = 0 /\ Len(recheck') = 0
  BY <1>1, <1>2
<1> QED BY <1>1, <1>2, <1>3 DEF InTime

\* An unmined transaction is dropped as mined only after a block overtook the
\* event of the one before it: the nonces mempool.Remove moves in the latest
\* context never reach a Remove of the same block's rechecks, nor the pool.
THEOREM LossOnlyLate == Spec => []OnlyLateLoses
<1>1. Init => Apart /\ InTime
  BY DEF Init, Apart, Distinct, InTime
<1>2. Apart /\ InTime /\ IndInv /\ IndInv' /\ [Next]_vars => Apart' /\ InTime'
  <2> SUFFICES ASSUME Apart, InTime, IndInv, [Next]_vars PROVE Apart' /\ InTime'
    OBVIOUS
  <2>1. ASSUME NEW t \in Tx, Submit(t) PROVE Apart' /\ InTime'
    <3>1. InTime'
      BY <2>1 DEF Submit, InTime
    <3> QED BY <2>1, <3>1, SubmitApart
  <2>2. CASE Answer
    <3>1. InTime'
      BY <2>2 DEF Answer, nonces, views, InTime
    <3> QED BY <2>2, <3>1, AnswerApart
  <2>3. CASE AnyBlock
    BY <2>3, BlockApart, BlockInTime
  <2>4. CASE Recheck
    BY <2>4, RecheckApart, RecheckInTime
  <2>5. CASE Notify
    <3>1. Apart'
      BY <2>5 DEF Notify, nonces, lists, Apart
    <3> QED BY <2>5, <3>1, NotifyInTime
  <2>6. CASE Reset
    <3>1. Apart'
      BY <2>6 DEF Reset, nonces, lists, Apart
    <3> QED BY <2>6, <3>1, ResetInTime
  <2>7. CASE Evict
    BY <2>7 DEF Evict, nonces, views, lists, Apart, InTime
  <2>8. CASE UNCHANGED vars
    BY <2>8 DEF vars, nonces, views, lists, Apart, InTime
  <2> QED BY <2>1, <2>2, <2>3, <2>4, <2>5, <2>6, <2>7, <2>8 DEF Next
<1>3. InTime => OnlyLateLoses
  BY DEF InTime, OnlyLateLoses
<1> QED BY Invariance, <1>1, <1>2, <1>3, PTL DEF Spec, Safety

-----------------------------------------------------------------------------
(* ReorgLoop.                                                              *)

Place == {"idle", "lock", "event", "unlock", "request", "await", "wait", "report"}
Channel == {"none", "next", "cur", "closed"}
LoopState == [pc : {"select", "reply", "drain", "gone"}, to : Caller \cup {Nobody},
              cur : {"none", "open", "closed"}, launch : BOOLEAN, reqs : SUBSET Caller,
              head : Nat]
RunState == [pc : {"none", "lock", "work", "end"}, reqs : SUBSET Caller, head : Nat]
TopState == [up : BOOLEAN, old : Nat, new : Nat, target : Nat, busy : BOOLEAN]

\* The type of the state.
LoopType ==
  /\ pc \in [Caller -> Place] /\ ch \in [Caller -> Channel]
  /\ loop \in LoopState /\ run \in RunState /\ top \in TopState
  /\ mtx \in Inserter \cup {Nobody} /\ mu \in Caller \cup {Runner, Nobody}
  /\ announced \in Nat /\ poolHead \in Nat /\ shutdown \in BOOLEAN /\ served \subseteq Caller

\* The mempool's mutex is held by exactly the inserter whose call is under
\* way.  The pool lock is held by exactly the caller that is between taking
\* and releasing it, or by the run while it works, and the done channel of
\* the current run is open exactly while there is a run: runReorg never works
\* beside a caller that changes the lists, and no two runs overlap.
LocksExclude ==
  /\ \A c \in Inserter : pc[c] # "idle" <=> mtx = c
  /\ \A c \in Caller : pc[c] \in {"event", "unlock"} <=> mu = c
  /\ mu = Runner <=> run.pc = "work"
  /\ loop.cur = "open" <=> run.pc # "none"

\* What a caller holds and what the loop and the run know of it: the request
\* behind the channel of the next run is in the loop's hands, the request
\* behind the channel of the current run was given to that run.
Requests ==
  /\ loop.pc = "reply" => loop.to \in loop.reqs /\ pc[loop.to] = "await"
  /\ \A c \in Caller :
       /\ ch[c] # "none" => pc[c] = "wait"
       /\ ch[c] = "next" => c \in loop.reqs
       /\ ch[c] = "cur" => c \in run.reqs /\ run.pc # "none"
       /\ pc[c] = "report" => c = Resetter
  /\ loop.pc = "drain" => shutdown
  /\ ~top.busy => pc[Resetter] = "idle"

\* Heads travel in order from the chain through the reset under way, the
\* loop's next run and the current run to the pool.
HeadsInOrder ==
  /\ top.new = announced /\ top.target <= announced
  /\ poolHead <= top.target /\ loop.head <= top.target /\ run.head <= top.target
  /\ run.head # 0 => poolHead <= run.head
  /\ loop.head # 0 => poolHead <= loop.head /\ run.head <= loop.head

\* The inductive invariant.
LoopInv == LoopType /\ LocksExclude /\ Requests /\ ReleasedByOwnRun /\ HeadsInOrder

-----------------------------------------------------------------------------
(* Updates of the records that have Boolean fields.                        *)

\* What TxPool.loop does to its state keeps its type.
LEMMA TopUpdates ==
  ASSUME NEW t \in TopState, NEW n \in Nat
  PROVE  /\ [t EXCEPT !.new = n] \in TopState
         /\ [t EXCEPT !.busy = TRUE, !.target = n] \in TopState
         /\ [t EXCEPT !.busy = FALSE, !.old = n] \in TopState
         /\ [t EXCEPT !.up = FALSE] \in TopState
BY Zenon DEF TopState

\* What scheduleReorgLoop does to its state keeps its type.
LEMMA LoopUpdates ==
  ASSUME NEW l \in LoopState, NEW p \in {"select", "reply", "drain", "gone"},
         NEW c \in Caller \cup {Nobody}, NEW d \in {"none", "open", "closed"},
         NEW r \in SUBSET Caller, NEW h \in Nat
  PROVE  /\ [l EXCEPT !.pc = p, !.to = c, !.launch = TRUE, !.reqs = r, !.head = h]
               \in LoopState
         /\ [l EXCEPT !.pc = p, !.to = c] \in LoopState
         /\ [l EXCEPT !.cur = d, !.launch = FALSE, !.reqs = r, !.head = h] \in LoopState
         /\ [l EXCEPT !.cur = d] \in LoopState
         /\ [l EXCEPT !.pc = p] \in LoopState
         /\ [l EXCEPT !.pc = p, !.cur = d] \in LoopState
BY Zenon DEF LoopState
-----------------------------------------------------------------------------
USE DEF Caller, Place, Channel, Goto

\* The initial state.
LEMMA LoopInitInv == LoopInit => LoopInv
<1> SUFFICES ASSUME LoopInit PROVE LoopInv
  OBVIOUS
<1> USE LoopAssumption DEF LoopInit, NoRun
<1>1. loop \in LoopState /\ top \in TopState
  BY Zenon DEF LoopState, TopState
<1>2. LoopType
  BY <1>1 DEF LoopType, RunState
<1>3. LocksExclude /\ Requests /\ ReleasedByOwnRun /\ HeadsInOrder
  BY DEF LocksExclude, Requests, ReleasedByOwnRun, HeadsInOrder
<1> QED BY <1>2, <1>3 DEF LoopInv

\* Every step keeps the type of the state.
LEMMA TypePreserved == LoopInv /\ [LoopNext]_loopVars => LoopType'
<1> SUFFICES ASSUME LoopInv, [LoopNext]_loopVars PROVE LoopType'
  OBVIOUS
<1> USE LoopAssumption DEF LoopInv, LoopType, RunState
<1>1. ASSUME NEW c \in Caller, Call(c) PROVE LoopType'
  BY <1>1 DEF Call
<1>2. ASSUME NEW c \in Caller, LockPool(c) PROVE LoopType'
  <2>1. PICK l \in {"event", "unlock"} : pc' = [pc EXCEPT ![c] = l]
    BY <1>2 DEF LockPool
  <2> QED BY <1>2, <2>1 DEF LockPool
<1>3. ASSUME NEW c \in Caller, QueueTxEvent(c) PROVE LoopType'
  BY <1>3 DEF QueueTxEvent, Selecting
<1>4. ASSUME NEW c \in Caller, UnlockPool(c) PROVE LoopType'
  BY <1>4 DEF UnlockPool
<1>5. ASSUME NEW c \in Caller, Request(c) PROVE LoopType'
  <2>1. PICK h \in Nat : loop' = [loop EXCEPT !.pc = "reply", !.to = c, !.launch = TRUE,
                                           !.reqs = loop.reqs \cup {c}, !.head = h]
    BY <1>5 DEF Request, LoopState, TopState
  <2>2. loop.reqs \cup {c} \in SUBSET Caller
    BY DEF LoopState
  <2>3. loop' \in LoopState
    BY <2>1, <2>2, LoopUpdates
  <2> QED BY <1>5, <2>3 DEF Request
<1>6. ASSUME NEW c \in Caller, RequestClosed(c) PROVE LoopType'
  BY <1>6 DEF RequestClosed
<1>7. ASSUME NEW c \in Caller, Return(c) PROVE LoopType'
  BY <1>7 DEF Return
<1>8. CASE Reply
  <2>1. loop' \in LoopState
    BY <1>8, LoopUpdates DEF Reply
  <2> QED BY <1>8, <2>1 DEF Reply, Requests
<1>9. CASE Launch
  <2>1. loop' \in LoopState
    BY <1>9, LoopUpdates DEF Launch
  <2>2. run' \in RunState
    BY <1>9 DEF Launch, LoopState
  <2>3. ch' \in [Caller -> Channel]
    BY <1>9 DEF Launch, Aged
  <2> QED BY <1>9, <2>1, <2>2, <2>3 DEF Launch
<1>10. CASE NoticeDone
  <2>1. loop' \in LoopState
    BY <1>10, LoopUpdates DEF NoticeDone, Selecting
  <2> QED BY <1>10, <2>1 DEF NoticeDone, Selecting
<1>11. CASE Drain
  <2>1. \/ loop' = [loop EXCEPT !.pc = "drain"]
        \/ loop' = [loop EXCEPT !.pc = "gone", !.cur = "none"]
    BY <1>11 DEF Drain
  <2>2. loop' \in LoopState
    BY <2>1, LoopUpdates
  <2>3. ch' \in [Caller -> Channel]
    BY <1>11 DEF Drain
  <2> QED BY <1>11, <2>2, <2>3 DEF Drain
<1>12. CASE RunLock
  BY <1>12 DEF RunLock
<1>13. CASE RunWork
  BY <1>13 DEF RunWork
<1>14. CASE RunEnd
  <2>1. loop' \in LoopState
    BY <1>14, LoopUpdates DEF RunEnd, NoRun
  <2> QED BY <1>14, <2>1 DEF RunEnd, NoRun
<1>15. CASE StartReset
  <2>1. top' \in TopState
    <3>1. top.new \in Nat
      BY DEF TopState
    <3> QED BY <1>15, <3>1, TopUpdates DEF StartReset
  <2> QED BY <1>15, <2>1 DEF StartReset
<1>16. CASE ResetDone
  <2>1. top' \in TopState
    <3>1. top.target \in Nat
      BY DEF TopState
    <3> QED BY <1>16, <3>1, TopUpdates DEF ResetDone
  <2> QED BY <1>16, <2>1 DEF ResetDone
<1>17. CASE NewHead
  <2>1. top' \in TopState
    <3>1. announced + 1 \in Nat
      OBVIOUS
    <3> QED BY <1>17, <3>1, TopUpdates DEF NewHead
  <2> QED BY <1>17, <2>1 DEF NewHead
<1>18. CASE Quit
  <2>1. top' \in TopState
    BY <1>18, TopUpdates DEF Quit
  <2> QED BY <1>18, <2>1 DEF Quit
<1>19. CASE Close
  BY <1>19 DEF Close
<1>20. CASE UNCHANGED loopVars
  BY <1>20 DEF loopVars
<1> QED BY <1>1, <1>2, <1>3, <1>4, <1>5, <1>6, <1>7, <1>8, <1>9, <1>10, <1>11, <1>12,
           <1>13, <1>14, <1>15, <1>16, <1>17, <1>18, <1>19, <1>20 DEF LoopNext, System

\* Every step hands the locks over one holder at a time.
LEMMA LocksPreserved == LoopInv /\ [LoopNext]_loopVars => LocksExclude'
<1> SUFFICES ASSUME LoopInv, [LoopNext]_loopVars PROVE LocksExclude'
  OBVIOUS
<1> USE LoopAssumption DEF LoopInv, LoopType, RunState, LoopState, LocksExclude, Requests
<1>1. ASSUME NEW c \in Caller, Call(c) PROVE LocksExclude'
  BY <1>1 DEF Call
<1>2. ASSUME NEW c \in Caller, LockPool(c) PROVE LocksExclude'
  BY <1>2 DEF LockPool
<1>3. ASSUME NEW c \in Caller, QueueTxEvent(c) PROVE LocksExclude'
  BY <1>3 DEF QueueTxEvent, Selecting
<1>4. ASSUME NEW c \in Caller, UnlockPool(c) PROVE LocksExclude'
  BY <1>4 DEF UnlockPool
<1>5. ASSUME NEW c \in Caller, Request(c) PROVE LocksExclude'
  BY <1>5 DEF Request, Selecting
<1>6. ASSUME NEW c \in Caller, RequestClosed(c) PROVE LocksExclude'
  BY <1>6 DEF RequestClosed
<1>7. ASSUME NEW c \in Caller, Return(c) PROVE LocksExclude'
  BY <1>7 DEF Return
<1>8. CASE Reply
  BY <1>8 DEF Reply
<1>9. CASE Launch
  BY <1>9 DEF Launch, Aged
<1>10. CASE NoticeDone
  BY <1>10 DEF NoticeDone, Selecting
<1>11. CASE Drain
  BY <1>11 DEF Drain, Selecting
<1>12. CASE RunLock
  BY <1>12 DEF RunLock
<1>13. CASE RunWork
  BY <1>13 DEF RunWork
<1>14. CASE RunEnd
  BY <1>14 DEF RunEnd, NoRun
<1>15. CASE StartReset
  BY <1>15 DEF StartReset
<1>16. CASE ResetDone
  BY <1>16 DEF ResetDone
<1>17. CASE NewHead
  BY <1>17 DEF NewHead
<1>18. CASE Quit
  BY <1>18 DEF Quit
<1>19. CASE Close
  BY <1>19 DEF Close
<1>20. CASE UNCHANGED loopVars
  BY <1>20 DEF loopVars
<1> QED BY <1>1, <1>2, <1>3, <1>4, <1>5, <1>6, <1>7, <1>8, <1>9, <1>10, <1>11, <1>12,
           <1>13, <1>14, <1>15, <1>16, <1>17, <1>18, <1>19, <1>20 DEF LoopNext, System

\* Every step keeps what callers wait for in step with what the loop and
\* the run were asked.
LEMMA RequestsPreserved == LoopInv /\ [LoopNext]_loopVars => Requests'
<1> SUFFICES ASSUME LoopInv, [LoopNext]_loopVars PROVE Requests'
  OBVIOUS
<1> USE LoopAssumption DEF LoopInv, LoopType, RunState, LoopState, TopState, Requests, LocksExclude
<1>1. ASSUME NEW c \in Caller, Call(c) PROVE Requests'
  BY <1>1 DEF Call
<1>2. ASSUME NEW c \in Caller, LockPool(c) PROVE Requests'
  BY <1>2 DEF LockPool
<1>3. ASSUME NEW c \in Caller, QueueTxEvent(c) PROVE Requests'
  BY <1>3 DEF QueueTxEvent, Selecting
<1>4. ASSUME NEW c \in Caller, UnlockPool(c) PROVE Requests'
  BY <1>4 DEF UnlockPool
<1>5. ASSUME NEW c \in Caller, Request(c) PROVE Requests'
  BY <1>5 DEF Request, Selecting
<1>6. ASSUME NEW c \in Caller, RequestClosed(c) PROVE Requests'
  BY <1>6 DEF RequestClosed
<1>7. ASSUME NEW c \in Caller, Return(c) PROVE Requests'
  BY <1>7 DEF Return
<1>8. CASE Reply
  BY <1>8 DEF Reply
<1>9. CASE Launch
  <2>1. ASSUME NEW x \in Caller
        PROVE  /\ ch'[x] # "none" => pc'[x] = "wait"
               /\ ch'[x] # "next"
               /\ ch'[x] = "cur" => x \in run'.reqs
    <3>1. ch'[x] = IF ch[x] = "next" THEN "cur" ELSE ch[x]
      BY <1>9 DEF Launch, Aged
    <3>2. run.pc = "none" /\ run'.reqs = loop.reqs
      BY <1>9 DEF Launch
    <3>3. ch[x] # "cur"
      BY <3>2
    <3> QED BY <1>9, <3>1, <3>2, <3>3 DEF Launch
  <2> QED BY <1>9, <2>1 DEF Launch
<1>10. CASE NoticeDone
  BY <1>10 DEF NoticeDone, Selecting
<1>11. CASE Drain
  <2>1. shutdown = TRUE
    BY <1>11 DEF Drain, Selecting
  <2>2. CASE loop' = [loop EXCEPT !.pc = "drain"] /\ ch' = ch
    BY <1>11, <2>1, <2>2 DEF Drain
  <2>3. CASE /\ loop' = [loop EXCEPT !.pc = "gone", !.cur = "none"]
             /\ ch' = [x \in Caller |-> IF ch[x] = "next" THEN "closed" ELSE ch[x]]
    BY <1>11, <2>1, <2>3 DEF Drain
  <2> QED BY <1>11, <2>2, <2>3 DEF Drain
<1>12. CASE RunLock
  BY <1>12 DEF RunLock
<1>13. CASE RunWork
  BY <1>13 DEF RunWork
<1>14. CASE RunEnd
  BY <1>14 DEF RunEnd, NoRun
<1>15. CASE StartReset
  BY <1>15 DEF StartReset
<1>16. CASE ResetDone
  BY <1>16 DEF ResetDone
<1>17. CASE NewHead
  BY <1>17 DEF NewHead
<1>18. CASE Quit
  BY <1>18 DEF Quit
<1>19. CASE Close
  BY <1>19 DEF Close
<1>20. CASE UNCHANGED loopVars
  BY <1>20 DEF loopVars
<1> QED BY <1>1, <1>2, <1>3, <1>4, <1>5, <1>6, <1>7, <1>8, <1>9, <1>10, <1>11, <1>12,
           <1>13, <1>14, <1>15, <1>16, <1>17, <1>18, <1>19, <1>20 DEF LoopNext, System

\* No step closes a caller's channel before its own run has finished.
LEMMA ReleasePreserved == LoopInv /\ [LoopNext]_loopVars => ReleasedByOwnRun'
<1> SUFFICES ASSUME LoopInv, [LoopNext]_loopVars PROVE ReleasedByOwnRun'
  OBVIOUS
<1> USE LoopAssumption DEF LoopInv, LoopType, RunState, LoopState, Requests, ReleasedByOwnRun
<1>1. ASSUME NEW c \in Caller, Call(c) PROVE ReleasedByOwnRun'
  BY <1>1 DEF Call
<1>2. ASSUME NEW c \in Caller, LockPool(c) PROVE ReleasedByOwnRun'
  BY <1>2 DEF LockPool
<1>3. ASSUME NEW c \in Caller, QueueTxEvent(c) PROVE ReleasedByOwnRun'
  BY <1>3 DEF QueueTxEvent, Selecting
<1>4. ASSUME NEW c \in Caller, UnlockPool(c) PROVE ReleasedByOwnRun'
  BY <1>4 DEF UnlockPool
<1>5. ASSUME NEW c \in Caller, Request(c) PROVE ReleasedByOwnRun'
  BY <1>5 DEF Request, Selecting
<1>6. ASSUME NEW c \in Caller, RequestClosed(c) PROVE ReleasedByOwnRun'
  BY <1>6 DEF RequestClosed
<1>7. ASSUME NEW c \in Caller, Return(c) PROVE ReleasedByOwnRun'
  BY <1>7 DEF Return
<1>8. CASE Reply
  BY <1>8 DEF Reply
<1>9. CASE Launch
  BY <1>9 DEF Launch, Aged
<1>10. CASE NoticeDone
  BY <1>10 DEF NoticeDone, Selecting
<1>11. CASE Drain
  <2>1. shutdown = TRUE
    BY <1>11 DEF Drain, Selecting
  <2>2. CASE loop' = [loop EXCEPT !.pc = "drain"] /\ ch' = ch
    BY <1>11, <2>1, <2>2 DEF Drain
  <2>3. CASE /\ loop' = [loop EXCEPT !.pc = "gone", !.cur = "none"]
             /\ ch' = [x \in Caller |-> IF ch[x] = "next" THEN "closed" ELSE ch[x]]
    BY <1>11, <2>1, <2>3 DEF Drain
  <2> QED BY <1>11, <2>2, <2>3 DEF Drain
<1>12. CASE RunLock
  BY <1>12 DEF RunLock
<1>13. CASE RunWork
  BY <1>13 DEF RunWork
<1>14. CASE RunEnd
  BY <1>14 DEF RunEnd, NoRun
<1>15. CASE StartReset
  BY <1>15 DEF StartReset
<1>16. CASE ResetDone
  BY <1>16 DEF ResetDone
<1>17. CASE NewHead
  BY <1>17 DEF NewHead
<1>18. CASE Quit
  BY <1>18 DEF Quit
<1>19. CASE Close
  BY <1>19 DEF Close
<1>20. CASE UNCHANGED loopVars
  BY <1>20 DEF loopVars
<1> QED BY <1>1, <1>2, <1>3, <1>4, <1>5, <1>6, <1>7, <1>8, <1>9, <1>10, <1>11, <1>12,
           <1>13, <1>14, <1>15, <1>16, <1>17, <1>18, <1>19, <1>20 DEF LoopNext, System

\* No step lets a head overtake a later one.
LEMMA HeadsPreserved == LoopInv /\ [LoopNext]_loopVars => HeadsInOrder'
<1> SUFFICES ASSUME LoopInv, [LoopNext]_loopVars PROVE HeadsInOrder'
  OBVIOUS
<1> USE LoopAssumption DEF LoopInv, LoopType, RunState, LoopState, TopState, HeadsInOrder
<1>1. ASSUME NEW c \in Caller, Call(c) PROVE HeadsInOrder'
  BY <1>1 DEF Call
<1>2. ASSUME NEW c \in Caller, LockPool(c) PROVE HeadsInOrder'
  BY <1>2 DEF LockPool
<1>3. ASSUME NEW c \in Caller, QueueTxEvent(c) PROVE HeadsInOrder'
  BY <1>3 DEF QueueTxEvent, Selecting
<1>4. ASSUME NEW c \in Caller, UnlockPool(c) PROVE HeadsInOrder'
  BY <1>4 DEF UnlockPool
<1>5. ASSUME NEW c \in Caller, Request(c) PROVE HeadsInOrder'
  BY <1>5 DEF Request, Selecting
<1>6. ASSUME NEW c \in Caller, RequestClosed(c) PROVE HeadsInOrder'
  BY <1>6 DEF RequestClosed
<1>7. ASSUME NEW c \in Caller, Return(c) PROVE HeadsInOrder'
  BY <1>7 DEF Return
<1>8. CASE Reply
  BY <1>8 DEF Reply
<1>9. CASE Launch
  BY <1>9 DEF Launch, Aged
<1>10. CASE NoticeDone
  BY <1>10 DEF NoticeDone, Selecting
<1>11. CASE Drain
  <2>1. CASE loop' = [loop EXCEPT !.pc = "drain"] /\ ch' = ch
    BY <1>11, <2>1 DEF Drain
  <2>2. CASE /\ loop' = [loop EXCEPT !.pc = "gone", !.cur = "none"]
             /\ ch' = [x \in Caller |-> IF ch[x] = "next" THEN "closed" ELSE ch[x]]
    BY <1>11, <2>2 DEF Drain
  <2> QED BY <1>11, <2>1, <2>2 DEF Drain
<1>12. CASE RunLock
  BY <1>12 DEF RunLock
<1>13. CASE RunWork
  BY <1>13 DEF RunWork
<1>14. CASE RunEnd
  BY <1>14 DEF RunEnd, NoRun
<1>15. CASE StartReset
  BY <1>15 DEF StartReset
<1>16. CASE ResetDone
  BY <1>16 DEF ResetDone
<1>17. CASE NewHead
  BY <1>17 DEF NewHead
<1>18. CASE Quit
  BY <1>18 DEF Quit
<1>19. CASE Close
  BY <1>19 DEF Close
<1>20. CASE UNCHANGED loopVars
  BY <1>20 DEF loopVars
<1> QED BY <1>1, <1>2, <1>3, <1>4, <1>5, <1>6, <1>7, <1>8, <1>9, <1>10, <1>11, <1>12,
           <1>13, <1>14, <1>15, <1>16, <1>17, <1>18, <1>19, <1>20 DEF LoopNext, System

-----------------------------------------------------------------------------
(* Results.                                                                *)

\* The inductive invariant holds in every reachable state.
THEOREM LoopInvariance == LoopSpec => []LoopInv
<1>1. LoopInv /\ [LoopNext]_loopVars => LoopInv'
  BY TypePreserved, LocksPreserved, RequestsPreserved, ReleasePreserved, HeadsPreserved
     DEF LoopInv
<1> QED BY LoopInitInv, <1>1, PTL DEF LoopSpec

\* A run and a caller never change the lists at the same time, one inserter
\* at a time holds the mempool, and there is at most one run.
THEOREM LocksAlwaysExclude == LoopSpec => []LocksExclude
<1>1. LoopInv => LocksExclude
  BY DEF LoopInv
<1> QED BY LoopInvariance, <1>1, PTL

\* Whatever is merged and however long a run takes, a caller that waits is
\* released by a run launched after its request, or by the shutdown.
THEOREM AlwaysReleasedByOwnRun == LoopSpec => []ReleasedByOwnRun
<1>1. LoopInv => ReleasedByOwnRun
  BY DEF LoopInv
<1> QED BY LoopInvariance, <1>1, PTL

\* No run sets the pool back to an older head: the one action that moves the
\* head moves it to the head of a run, which HeadsInOrder puts ahead.
THEOREM HeadOnlyAdvances == LoopSpec => HeadNeverGoesBack
<1>1. LoopInv /\ [LoopNext]_loopVars => poolHead' >= poolHead
  <2> SUFFICES ASSUME LoopInv, [LoopNext]_loopVars PROVE poolHead' >= poolHead
    OBVIOUS
  <2> USE DEF LoopInv, LoopType, HeadsInOrder
  <2>1. CASE RunWork
    BY <2>1 DEF RunWork, RunState
  <2>2. CASE UNCHANGED poolHead
    BY <2>2
  <2> QED BY <2>1, <2>2 DEF LoopNext, System, loopVars, Call, LockPool, QueueTxEvent, UnlockPool,
             Request, RequestClosed, Return, Reply, Launch, NoticeDone, Drain, RunLock,
             RunEnd, StartReset, ResetDone, NewHead, Quit, Close
<1> QED BY LoopInvariance, <1>1, PTL DEF LoopSpec, HeadNeverGoesBack
=============================================================================
