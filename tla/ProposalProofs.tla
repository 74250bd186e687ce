--------------------------- MODULE ProposalProofs ---------------------------
(***************************************************************************)
(* Proofs about Proposal for every mempool, every set of transactions that *)
(* fail, cannot be converted or make the handler panic, and every limit.   *)
(***************************************************************************)
EXTENDS Proposal, FoldFacts

-----------------------------------------------------------------------------
(* The inductive invariant.                                                *)

\* The iterators keep to their lanes.
Lanes == (\A t \in evmLeft : IsEVM(t)) /\ (\A t \in cosmosLeft : ~IsEVM(t))

\* What the loop has examined is behind both iterators.
Unseen == Looping => seen \cap (evmLeft \cup cosmosLeft) = {}

\* Only PrepareProposalHandler's own loop counts its turns.
InnerUncounted == phase = "inner" => iterCount = 0

\* The accounts' sequences once the transactions have been executed.
Run(s, txs) == FoldLeft(Executed, s, txs)

\* Accepted, for a validator whose accounts are at s.
Valid(s, txs) ==
  \A i \in 1 .. Len(txs) :
    /\ txs[i] \notin Bad
    /\ Info[txs[i]].nonce = Run(s, SubSeq(txs, 1, i - 1))[Info[txs[i]].from]

\* The loop follows what executing its selection would do: an account without
\* an entry is where the verification left it, one with an entry expects the
\* successor of that entry.
Follows ==
  \A a \in Account :
    /\ picked[a] = NoEntry => prepSeq[a] = Run(seq, selected)[a]
    /\ picked[a] # NoEntry => picked[a] + 1 = Run(seq, selected)[a]

OuterAccepted == phase = "outer" => Valid(seq, selected) /\ Follows
CleanAccepted == phase \in {"clean", "proposed"} /\ iterCount > 0 => Valid(seq, selected)

LoopInv == Lanes /\ Unseen /\ InnerUncounted /\ OuterAccepted /\ CleanAccepted

IndInv == TypeOK /\ LoopInv

-----------------------------------------------------------------------------
(* The iterators.                                                          *)

\* Some transaction of a finite set has the best tip.
LEMMA SomeBestTip ==
  ASSUME NEW S \in SUBSET Tx, S # {}
  PROVE  \E t \in S : \A u \in S : Info[u].tip <= Info[t].tip
<1> DEFINE P == {s \in SUBSET Tx : s # {} => \E t \in s : \A u \in s : Info[u].tip <= Info[t].tip}
<1>1. \A t \in Tx : Info[t].tip \in Nat
  BY ProposalAssumption
<1>2. ASSUME NEW s \in SUBSET Tx, \A x \in s : s \ {x} \in P PROVE s \in P
  <2> SUFFICES ASSUME s # {} PROVE \E t \in s : \A u \in s : Info[u].tip <= Info[t].tip
    OBVIOUS
  <2>1. PICK x \in s : TRUE
    OBVIOUS
  <2>2. CASE s \ {x} = {}
    BY <1>1, <2>1, <2>2
  <2>3. CASE s \ {x} # {}
    <3>1. PICK t \in s \ {x} : \A u \in s \ {x} : Info[u].tip <= Info[t].tip
      BY <1>2, <2>1, <2>3
    <3>2. CASE Info[x].tip <= Info[t].tip
      BY <3>1, <3>2
    <3>3. CASE ~ (Info[x].tip <= Info[t].tip)
      BY <1>1, <2>1, <3>1, <3>3
    <3> QED BY <3>2, <3>3
  <2> QED BY <2>2, <2>3
<1>3. SUBSET Tx \subseteq P
  <2> HIDE DEF P
  <2> QED BY <1>2, SubsetInduction, ProposalAssumption
<1> QED BY <1>3

\* An iterator that is not exhausted has a best transaction, and it is one of
\* those it holds, and its signer's first.
LEMMA BestIn ==
  ASSUME NEW S \in SUBSET Tx, S # {}
  PROVE  Best(S) \in S /\ Best(S) \in Heads(S)
<1>1. PICK u \in S : TRUE
  OBVIOUS
<1> DEFINE own == {t \in S : Info[t].from = Info[u].from}
           N == {Info[t].nonce : t \in own}
<1>2. \A t \in Tx : Info[t].nonce \in Nat
  BY ProposalAssumption
<1>3. N \subseteq Nat /\ N # {}
  BY <1>1, <1>2
<1>4. PICK n \in N : \A m \in N : n <= m
  BY <1>3, LeastNat
<1>5. PICK t \in own : Info[t].nonce = n
  OBVIOUS
<1>6. t \in Heads(S)
  BY <1>4, <1>5 DEF Heads
<1>7. Heads(S) \in SUBSET Tx /\ Heads(S) \subseteq S
  BY DEF Heads
<1>8. \E v \in Heads(S) : \A w \in Heads(S) : Info[w].tip <= Info[v].tip
  <2> DEFINE H == Heads(S)
  <2> HIDE DEF H
  <2>1. H \in SUBSET Tx /\ H # {}
    BY <1>6, <1>7 DEF H
  <2>2. \E v \in H : \A w \in H : Info[w].tip <= Info[v].tip
    BY <2>1, SomeBestTip
  <2> QED BY <2>2 DEF H
<1>9. Best(S) \in Heads(S)
  BY <1>8 DEF Best
<1> QED BY <1>7, <1>9

\* Tx returns a transaction of the lane it says it is from.
LEMMA CurrentIn ==
  ASSUME TypeOK, HasTx
  PROVE  /\ Current \in Tx
         /\ ReturnsEVM => Current \in evmLeft
         /\ ~ReturnsEVM => Current \in cosmosLeft
<1>1. evmLeft \in SUBSET Tx /\ cosmosLeft \in SUBSET Tx
  BY DEF TypeOK
<1>2. CASE ReturnsEVM
  <2>1. evmLeft # {} /\ Current = Best(evmLeft)
    BY <1>2 DEF ReturnsEVM, shouldUseEVM, Current
  <2>2. Best(evmLeft) \in evmLeft
    BY <1>1, <2>1, BestIn
  <2> QED BY <1>1, <1>2, <2>1, <2>2
<1>3. CASE ~ReturnsEVM
  <2>1. cosmosLeft # {} /\ Current = Best(cosmosLeft)
    BY <1>3 DEF HasTx, Current
  <2>2. Best(cosmosLeft) \in cosmosLeft
    BY <1>1, <2>1, BestIn
  <2> QED BY <1>1, <1>3, <2>1, <2>2
<1> QED BY <1>2, <1>3

\* Advance and Pop both put the current transaction behind the iterators.
LEMMA Behind ==
  ASSUME TypeOK, Lanes, HasTx, Advance \/ (ReturnsEVM /\ Pop)
  PROVE  /\ evmLeft' \subseteq evmLeft /\ cosmosLeft' \subseteq cosmosLeft
         /\ Current \notin evmLeft' \cup cosmosLeft'
<1> DEFINE c == Current
<1>1. /\ c \in Tx /\ (ReturnsEVM => c \in evmLeft) /\ (~ReturnsEVM => c \in cosmosLeft)
  BY CurrentIn
<1>2. evmLeft \cap cosmosLeft = {}
  BY DEF Lanes
<1>3. CASE Advance
  <2>1. \/ ReturnsEVM /\ evmLeft' = evmLeft \ {c} /\ cosmosLeft' = cosmosLeft
        \/ ~ReturnsEVM /\ cosmosLeft' = cosmosLeft \ {c} /\ evmLeft' = evmLeft
    BY <1>3 DEF Advance
  <2> HIDE DEF c
  <2>2. /\ evmLeft' \subseteq evmLeft /\ cosmosLeft' \subseteq cosmosLeft
        /\ c \notin evmLeft' \cup cosmosLeft'
    BY <1>1, <1>2, <2>1
  <2> QED BY <2>2 DEF c
<1>4. CASE ReturnsEVM /\ Pop
  <2>1. /\ evmLeft' = {t \in evmLeft : Info[t].from # Info[c].from}
        /\ cosmosLeft' = cosmosLeft
    BY <1>4 DEF Pop
  <2> HIDE DEF c
  <2>2. /\ evmLeft' \subseteq evmLeft /\ cosmosLeft' \subseteq cosmosLeft
        /\ c \notin evmLeft' \cup cosmosLeft'
    BY <1>1, <1>2, <1>4, <2>1
  <2> QED BY <2>2 DEF c
<1> QED BY <1>3, <1>4

-----------------------------------------------------------------------------
(* What the folds compute.                                                 *)

\* One execution gives sequences again.
LEMMA ExecutedType ==
  ASSUME NEW s \in AccountSeqs, NEW t \in Tx
  PROVE  Executed(s, t) \in AccountSeqs
BY ProposalAssumption DEF Executed, AccountSeqs, Bump

\* The values a fold of Executed goes through.
Executes(h, s, txs) ==
  /\ h \in [0 .. Len(txs) -> AccountSeqs]
  /\ h[0] = s
  /\ \A k \in 1 .. Len(txs) : h[k] = Executed(h[k - 1], txs[k])

\* What FoldLeft's own recursion says, over sets of indices.
Executing(f, s, txs) ==
  \A r \in SUBSET (1 .. Len(txs)) :
    f[r] = IF r = {} THEN s ELSE Executed(f[r \ {Max(r)}], txs[Max(r)])

\* All its values are sequences.
LEMMA ExecutingTyped ==
  ASSUME NEW s \in AccountSeqs, NEW txs \in Seq(Tx), NEW f, Executing(f, s, txs)
  PROVE  \A r \in SUBSET (1 .. Len(txs)) : f[r] \in AccountSeqs
<1> DEFINE I == 1 .. Len(txs)
           K == {r \in SUBSET I : f[r] \in AccountSeqs}
<1>1. IsFiniteSet(I) /\ Len(txs) \in Nat /\ \A k \in I : txs[k] \in Tx
  BY FS_Interval
<1>2. ASSUME NEW r \in SUBSET I, \A x \in r : r \ {x} \in K PROVE r \in K
  <2>1. CASE r = {}
    BY <2>1 DEF Executing
  <2>2. CASE r # {}
    <3> DEFINE x == Max(r)
    <3>1. x \in r
      BY <1>1, <2>2, MaxIndex
    <3>2. f[r] = Executed(f[r \ {x}], txs[x])
      BY <2>2 DEF Executing
    <3> HIDE DEF x
    <3>3. f[r \ {x}] \in AccountSeqs /\ txs[x] \in Tx
      BY <1>1, <1>2, <3>1
    <3> QED BY <3>2, <3>3, ExecutedType
  <2> QED BY <2>1, <2>2
<1>3. SUBSET I \subseteq K
  <2> HIDE DEF K, I
  <2> QED BY <1>1, <1>2, SubsetInduction
<1> QED BY <1>3

\* FoldLeft executes the transactions one after the other.
LEMMA ExecutedFold ==
  ASSUME NEW s \in AccountSeqs, NEW txs \in Seq(Tx)
  PROVE  \E h : Executes(h, s, txs) /\ FoldLeft(Executed, s, txs) = h[Len(txs)]
<1> DEFINE n == Len(txs)
           I == 1 .. n
           F == [p \in I \X AccountSeqs |-> Executed(p[2], txs[p[1]])]
           Step(g, r) == IF r = {} THEN s ELSE LET x == Max(r) IN Executed(g[r \ {x}], txs[x])
           Iter(it) == it = [r \in SUBSET I |->
                               IF r = {} THEN s
                               ELSE LET x == Max(r) IN Executed(it[r \ {x}], txs[x])]
           fold == CHOOSE it : Iter(it)
<1>1. n \in Nat /\ DOMAIN txs = I /\ \A k \in I : txs[k] \in Tx
  OBVIOUS
<1>2. F \in [I \X AccountSeqs -> AccountSeqs]
  BY <1>1, ExecutedType
<1>3. \A k \in I, x \in AccountSeqs : F[<<k, x>>] = Executed(x, txs[k])
  OBVIOUS
<1> HIDE DEF F
<1>4. PICK g \in [SUBSET I -> AccountSeqs] : Folding(g, n, s, F)
  BY <1>1, <1>2, FoldingExists
<1>5. Iter(g)
  <2>1. ASSUME NEW r \in SUBSET I PROVE g[r] = Step(g, r)
    <3>1. CASE r = {}
      BY <1>4, <3>1 DEF Folding
    <3>2. CASE r # {}
      <4> DEFINE x == Max(r)
      <4>1. x \in I
        BY <1>1, <3>2, MaxIndex
      <4>2. g[r] = F[<<x, g[r \ {x}]>>]
        BY <1>4, <3>2 DEF Folding
      <4>3. g[r \ {x}] \in AccountSeqs
        BY <1>4
      <4> HIDE DEF x
      <4>4. g[r] = Executed(g[r \ {x}], txs[x])
        BY <1>3, <4>1, <4>2, <4>3
      <4> QED BY <3>2, <4>4 DEF x
    <3> QED BY <3>1, <3>2
  <2>2. g = [r \in SUBSET I |-> g[r]]
    OBVIOUS
  <2> QED BY <2>1, <2>2, Zenon
<1>6. Iter(fold)
  <2> HIDE DEF Iter
  <2> QED BY <1>5
<1>7. FoldLeft(Executed, s, txs) = fold[I]
  BY <1>1 DEF FoldLeft, MapThenFoldSet
<1> HIDE DEF fold
<1>8. \A r \in SUBSET I : fold[r] = Step(fold, r)
  BY <1>6, Zenon
<1> HIDE DEF Iter
<1>9. fold[{}] = s
  <2>1. {} \in SUBSET I
    OBVIOUS
  <2> QED BY <1>8, <2>1
<1>10. ASSUME NEW r \in SUBSET I, r # {}
       PROVE  Max(r) \in r /\ fold[r] = Executed(fold[r \ {Max(r)}], txs[Max(r)])
  <2>1. Max(r) \in r
    BY <1>1, <1>10, MaxIndex
  <2> QED BY <1>8, <1>10, <2>1
<1>11. \A r \in SUBSET I : fold[r] \in AccountSeqs
  <2>1. Executing(fold, s, txs)
    BY <1>8 DEF Executing
  <2> QED BY <2>1, ExecutingTyped
<1> HIDE DEF Step
<1> DEFINE h == [k \in 0 .. n |-> fold[1 .. k]]
<1>12. h[0] = s
  <2>1. 1 .. 0 = {} /\ 0 \in 0 .. n
    BY <1>1
  <2>2. h[0] = fold[1 .. 0]
    BY <2>1
  <2> HIDE DEF h
  <2> QED BY <1>9, <2>1, <2>2
<1>13. ASSUME NEW k \in I PROVE h[k] = Executed(h[k - 1], txs[k])
  <2>1. 1 .. k \in SUBSET I /\ 1 .. k # {} /\ k \in Nat \ {0} /\ k \in 0 .. n /\ k - 1 \in 0 .. n
    BY <1>1
  <2>2. Max(1 .. k) = k /\ (1 .. k) \ {k} = 1 .. (k - 1)
    BY <2>1, MaxOfFirst
  <2>3. fold[1 .. k] = Executed(fold[(1 .. k) \ {Max(1 .. k)}], txs[Max(1 .. k)])
    BY <1>10, <2>1
  <2>4. h[k] = fold[1 .. k] /\ h[k - 1] = fold[1 .. (k - 1)]
    BY <2>1
  <2> HIDE DEF h
  <2> QED BY <2>2, <2>3, <2>4, Zenon
<1>14. h \in [0 .. n -> AccountSeqs]
  <2>1. \A k \in 0 .. n : 1 .. k \in SUBSET I
    BY <1>1
  <2>2. \A k \in 0 .. n : fold[1 .. k] \in AccountSeqs
    BY <1>11, <2>1
  <2> QED BY <2>2
<1>15. FoldLeft(Executed, s, txs) = h[n]
  <2>1. n \in 0 .. n
    BY <1>1
  <2>2. h[n] = fold[I]
    BY <2>1
  <2> QED BY <1>7, <2>2
<1> HIDE DEF h
<1>16. Executes(h, s, txs)
  BY <1>12, <1>13, <1>14 DEF Executes
<1> QED BY <1>15, <1>16

\* Executing one transaction more executes it where the others have led.
LEMMA ExecutedAppend ==
  ASSUME NEW s \in AccountSeqs, NEW txs \in Seq(Tx), NEW t \in Tx
  PROVE  FoldLeft(Executed, s, Append(txs, t)) = Executed(FoldLeft(Executed, s, txs), t)
<1> DEFINE n == Len(txs)
           more == Append(txs, t)
<1>1. n \in Nat
  OBVIOUS
<1>2. more \in Seq(Tx) /\ Len(more) = n + 1 /\ more[n + 1] = t /\ \A k \in 1 .. n : more[k] = txs[k]
  OBVIOUS
<1>4. PICK h : Executes(h, s, txs) /\ FoldLeft(Executed, s, txs) = h[n]
  BY ExecutedFold
<1> HIDE DEF more
<1>5. PICK g : Executes(g, s, more) /\ FoldLeft(Executed, s, more) = g[Len(more)]
  BY <1>2, ExecutedFold
<1>6. h[0] = s /\ \A k \in 1 .. n : h[k] = Executed(h[k - 1], txs[k])
  BY <1>4 DEF Executes
<1>7. g[0] = s /\ \A k \in 1 .. (n + 1) : g[k] = Executed(g[k - 1], more[k])
  BY <1>2, <1>5 DEF Executes
<1> HIDE DEF n
<1> DEFINE K == {k \in Nat : k <= n => h[k] = g[k]}
<1>9. Nat \subseteq K
  <2>1. 0 \in K
    BY <1>6, <1>7
  <2>2. ASSUME NEW k \in Nat, k \in K PROVE k + 1 \in K
    <3> SUFFICES ASSUME k + 1 <= n PROVE h[k + 1] = g[k + 1]
      OBVIOUS
    <3> DEFINE j == k + 1
    <3>1. j \in 1 .. n /\ j \in 1 .. (n + 1) /\ j - 1 = k /\ h[k] = g[k]
      BY <1>1, <2>2
    <3> HIDE DEF j
    <3>2. h[j] = Executed(h[j - 1], txs[j]) /\ g[j] = Executed(g[j - 1], more[j])
      BY <1>6, <1>7, <3>1
    <3>3. h[j] = g[j]
      BY <1>2, <3>1, <3>2
    <3> QED BY <3>3 DEF j
  <2> HIDE DEF K
  <2> QED BY <2>1, <2>2, NatSetInduction
<1>10. h[n] = g[n]
  BY <1>1, <1>9
<1>11. g[n + 1] = Executed(g[n], t)
  <2> DEFINE j == n + 1
  <2>1. j \in 1 .. (n + 1) /\ j - 1 = n /\ more[j] = t
    BY <1>1, <1>2 DEF n
  <2> HIDE DEF j
  <2>2. g[j] = Executed(g[j - 1], more[j])
    BY <1>7, <2>1
  <2>3. g[j] = Executed(g[n], t)
    BY <2>1, <2>2, Zenon
  <2> QED BY <2>3 DEF j
<1>12. FoldLeft(Executed, s, more) = g[n + 1]
  BY <1>2, <1>5 DEF n
<1> QED BY <1>4, <1>10, <1>11, <1>12 DEF more, n

\* Executing nothing changes nothing, and executing gives sequences again.
LEMMA RunSteps ==
  ASSUME NEW s \in AccountSeqs, NEW txs \in Seq(Tx)
  PROVE  /\ Run(s, << >>) = s
         /\ Run(s, txs) \in AccountSeqs
         /\ \A t \in Tx : Run(s, Append(txs, t)) = Executed(Run(s, txs), t)
<1>1. Run(s, << >>) = s
  <2>1. << >> \in Seq(Tx) /\ Len(<< >>) = 0
    OBVIOUS
  <2>2. PICK h : Executes(h, s, << >>) /\ FoldLeft(Executed, s, << >>) = h[Len(<< >>)]
    BY <2>1, ExecutedFold
  <2>3. h[0] = s
    BY <2>2 DEF Executes
  <2> QED BY <2>1, <2>2, <2>3 DEF Run
<1>2. Run(s, txs) \in AccountSeqs
  <2>1. PICK h : Executes(h, s, txs) /\ FoldLeft(Executed, s, txs) = h[Len(txs)]
    BY ExecutedFold
  <2>2. h[Len(txs)] \in AccountSeqs
    BY <2>1 DEF Executes
  <2> QED BY <2>1, <2>2 DEF Run
<1>3. \A t \in Tx : Run(s, Append(txs, t)) = Executed(Run(s, txs), t)
  BY ExecutedAppend DEF Run
<1> QED BY <1>1, <1>2, <1>3

\* A valid block stays valid when a transaction is appended that its own
\* sequences admit.
LEMMA ValidAppend ==
  ASSUME NEW s \in AccountSeqs, NEW txs \in Seq(Tx), NEW t \in Tx,
         Valid(s, txs), t \notin Bad, Info[t].nonce = Run(s, txs)[Info[t].from]
  PROVE  Valid(s, Append(txs, t))
<1> DEFINE n == Len(txs)
           more == Append(txs, t)
<1>1. /\ n \in Nat /\ Len(more) = n + 1 /\ more[n + 1] = t
      /\ \A k \in 1 .. n : more[k] = txs[k]
  OBVIOUS
<1>2. ASSUME NEW i \in 1 .. (n + 1)
      PROVE  SubSeq(more, 1, i - 1) = SubSeq(txs, 1, i - 1)
  <2>1. \A k \in 1 .. (i - 1) : more[k] = txs[k]
    BY <1>1
  <2>2. /\ SubSeq(more, 1, i - 1) = [k \in 1 .. (i - 1) |-> more[k]]
        /\ SubSeq(txs, 1, i - 1) = [k \in 1 .. (i - 1) |-> txs[k]]
    BY <1>1
  <2> QED BY <2>1, <2>2
<1>3. SubSeq(txs, 1, n) = txs
  OBVIOUS
<1> HIDE DEF more
<1>4. ASSUME NEW i \in 1 .. (n + 1)
      PROVE  /\ more[i] \notin Bad
             /\ Info[more[i]].nonce = Run(s, SubSeq(more, 1, i - 1))[Info[more[i]].from]
  <2>1. SubSeq(more, 1, i - 1) = SubSeq(txs, 1, i - 1)
    BY <1>2
  <2>2. CASE i \in 1 .. n
    <3>1. more[i] = txs[i]
      BY <1>1, <2>2
    <3>2. txs[i] \notin Bad /\ Info[txs[i]].nonce = Run(s, SubSeq(txs, 1, i - 1))[Info[txs[i]].from]
      BY <2>2 DEF Valid
    <3> QED BY <2>1, <3>1, <3>2, Zenon
  <2>3. CASE i = n + 1
    <3>1. i - 1 = n /\ more[i] = t
      BY <1>1, <2>3
    <3>2. SubSeq(txs, 1, i - 1) = txs
      BY <1>3, <3>1
    <3>3. SubSeq(more, 1, i - 1) = txs
      BY <2>1, <3>2
    <3> QED BY <3>1, <3>3, Zenon
  <2> QED BY <1>1, <2>2, <2>3
<1> QED BY <1>1, <1>4 DEF Valid, more

\* An empty block is valid.
LEMMA ValidEmpty == \A s : Valid(s, << >>)
BY DEF Valid

\* Valid is what Accepted asks of the committed state.
LEMMA AcceptedValid ==
  ASSUME NEW txs
  PROVE  Accepted(txs) <=> Valid(seq, txs)
BY DEF Accepted, Valid, Run

-----------------------------------------------------------------------------
(* What Remove leaves.                                                     *)

\* The mempool's part of the state.
PoolState == [pool : SUBSET Tx, latestSeq : AccountSeqs]

\* One removal gives a mempool again.
LEMMA RemoveType ==
  ASSUME NEW st \in PoolState, NEW t \in Tx
  PROVE  RemoveTx(st, t) \in PoolState
<1>1. Info[t].from \in Account
  BY ProposalAssumption
<1>2. st.pool \in SUBSET Tx /\ st.latestSeq \in AccountSeqs
  BY DEF PoolState
<1>3. Bump(st.latestSeq, Info[t].from) \in AccountSeqs
  BY <1>1, <1>2 DEF Bump, AccountSeqs
<1>4. \/ RemoveTx(st, t) = [st EXCEPT !.pool = @ \ {t}]
      \/ RemoveTx(st, t) = [st EXCEPT !.latestSeq = Bump(@, Info[t].from)]
      \/ RemoveTx(st, t) = st
  BY DEF RemoveTx
<1> QED BY <1>2, <1>3, <1>4 DEF PoolState

\* FoldLeft's recursion for a list of removals.
Removing(f, st, txs) ==
  \A r \in SUBSET (1 .. Len(txs)) :
    f[r] = IF r = {} THEN st ELSE RemoveTx(f[r \ {Max(r)}], txs[Max(r)])

\* What every removal of the list keeps, all its values have.
LEMMA RemovingIn ==
  ASSUME NEW G, NEW st \in G, NEW txs \in Seq(Tx), NEW f, Removing(f, st, txs),
         \A x \in G, k \in 1 .. Len(txs) : RemoveTx(x, txs[k]) \in G
  PROVE  \A r \in SUBSET (1 .. Len(txs)) : f[r] \in G
<1> DEFINE I == 1 .. Len(txs)
           K == {r \in SUBSET I : f[r] \in G}
<1>1. IsFiniteSet(I) /\ Len(txs) \in Nat
  BY FS_Interval
<1>2. ASSUME NEW r \in SUBSET I, \A x \in r : r \ {x} \in K PROVE r \in K
  <2>1. CASE r = {}
    BY <2>1 DEF Removing
  <2>2. CASE r # {}
    <3> DEFINE x == Max(r)
    <3>1. x \in r
      BY <1>1, <2>2, MaxIndex
    <3>2. f[r] = RemoveTx(f[r \ {x}], txs[x])
      BY <2>2 DEF Removing
    <3> HIDE DEF x
    <3>3. f[r \ {x}] \in G /\ x \in I
      BY <1>1, <1>2, <3>1
    <3> QED BY <3>2, <3>3
  <2> QED BY <2>1, <2>2
<1>3. SUBSET I \subseteq K
  <2> HIDE DEF K, I
  <2> QED BY <1>1, <1>2, SubsetInduction
<1> QED BY <1>3

\* FoldLeft removes the transactions one after the other.
LEMMA RemoveFold ==
  ASSUME NEW st \in PoolState, NEW txs \in Seq(Tx)
  PROVE  \E f : Removing(f, st, txs) /\ FoldLeft(RemoveTx, st, txs) = f[1 .. Len(txs)]
<1> DEFINE n == Len(txs)
           I == 1 .. n
           F == [p \in I \X PoolState |-> RemoveTx(p[2], txs[p[1]])]
           Step(g, r) == IF r = {} THEN st ELSE LET x == Max(r) IN RemoveTx(g[r \ {x}], txs[x])
           Iter(it) == it = [r \in SUBSET I |->
                               IF r = {} THEN st
                               ELSE LET x == Max(r) IN RemoveTx(it[r \ {x}], txs[x])]
           fold == CHOOSE it : Iter(it)
<1>1. n \in Nat /\ DOMAIN txs = I /\ \A k \in I : txs[k] \in Tx
  OBVIOUS
<1>2. F \in [I \X PoolState -> PoolState]
  BY <1>1, RemoveType
<1>3. \A k \in I, x \in PoolState : F[<<k, x>>] = RemoveTx(x, txs[k])
  OBVIOUS
<1> HIDE DEF F
<1>4. PICK g \in [SUBSET I -> PoolState] : Folding(g, n, st, F)
  BY <1>1, <1>2, FoldingExists
<1>5. Iter(g)
  <2>1. ASSUME NEW r \in SUBSET I PROVE g[r] = Step(g, r)
    <3>1. CASE r = {}
      BY <1>4, <3>1 DEF Folding
    <3>2. CASE r # {}
      <4> DEFINE x == Max(r)
      <4>1. x \in I
        BY <1>1, <3>2, MaxIndex
      <4>2. g[r] = F[<<x, g[r \ {x}]>>]
        BY <1>4, <3>2 DEF Folding
      <4>3. g[r \ {x}] \in PoolState
        BY <1>4
      <4> HIDE DEF x
      <4>4. g[r] = RemoveTx(g[r \ {x}], txs[x])
        BY <1>3, <4>1, <4>2, <4>3
      <4> QED BY <3>2, <4>4 DEF x
    <3> QED BY <3>1, <3>2
  <2>2. g = [r \in SUBSET I |-> g[r]]
    OBVIOUS
  <2> QED BY <2>1, <2>2, Zenon
<1>6. Iter(fold)
  <2> HIDE DEF Iter
  <2> QED BY <1>5
<1>7. FoldLeft(RemoveTx, st, txs) = fold[I]
  BY <1>1 DEF FoldLeft, MapThenFoldSet
<1> HIDE DEF fold
<1>8. \A r \in SUBSET I : fold[r] = Step(fold, r)
  BY <1>6, Zenon
<1>9. Removing(fold, st, txs)
  BY <1>8 DEF Removing
<1> QED BY <1>7, <1>9

\* What Remove, called for a list of transactions, leaves has what each
\* removal of the list keeps.
LEMMA RemoveAllIn ==
  ASSUME NEW txs \in Seq(Tx), TypeOK, RemoveAll(txs),
         NEW G, [pool |-> pool, latestSeq |-> latestSeq] \in G,
         \A x \in G, k \in 1 .. Len(txs) : RemoveTx(x, txs[k]) \in G
  PROVE  \E x \in G : pool' = x.pool /\ latestSeq' = x.latestSeq
<1> DEFINE st == [pool |-> pool, latestSeq |-> latestSeq]
           after == FoldLeft(RemoveTx, st, txs)
<1>1. st \in PoolState
  BY DEF TypeOK, PoolState
<1>2. pool' = after.pool /\ latestSeq' = after.latestSeq
  BY DEF RemoveAll
<1>3. st \in G
  OBVIOUS
<1> HIDE DEF st
<1>4. PICK f : Removing(f, st, txs) /\ after = f[1 .. Len(txs)]
  BY <1>1, RemoveFold
<1>5. \A r \in SUBSET (1 .. Len(txs)) : f[r] \in G
  BY <1>3, <1>4, RemovingIn
<1>6. 1 .. Len(txs) \in SUBSET (1 .. Len(txs))
  OBVIOUS
<1>7. after \in G
  BY <1>4, <1>5, <1>6, Zenon
<1> HIDE DEF after
<1> QED BY <1>2, <1>7

\* Remove, called for a list of transactions, keeps the mempool's type.
LEMMA RemoveAllType ==
  ASSUME NEW txs \in Seq(Tx), TypeOK, RemoveAll(txs)
  PROVE  pool' \subseteq Tx /\ latestSeq' \in AccountSeqs
<1>1. [pool |-> pool, latestSeq |-> latestSeq] \in PoolState
  BY DEF TypeOK, PoolState
<1>2. \A k \in 1 .. Len(txs) : txs[k] \in Tx
  OBVIOUS
<1>3. \A x \in PoolState, k \in 1 .. Len(txs) : RemoveTx(x, txs[k]) \in PoolState
  BY <1>2, RemoveType
<1>4. PICK x \in PoolState : pool' = x.pool /\ latestSeq' = x.latestSeq
  BY <1>1, <1>3, RemoveAllIn
<1> QED BY <1>4 DEF PoolState

-----------------------------------------------------------------------------
(* Type correctness.                                                       *)

\* The initial state satisfies the invariant.
LEMMA InitInv == Init => IndInv
<1> SUFFICES ASSUME Init PROVE IndInv
  OBVIOUS
<1>1. TypeOK
  <2>1. [a \in Account |-> 0] \in AccountSeqs
    BY DEF AccountSeqs
  <2>2. << >> \in Seq(Tx) /\ 0 \in 0 .. MaxIterations /\ (Init => Caps)
    BY ProposalAssumption DEF Init, Caps
  <2>3. [a \in Account |-> NoEntry] \in [Account -> {NoEntry} \cup (Nat \cup {-1})]
    OBVIOUS
  <2> QED BY <2>1, <2>2, <2>3 DEF Init, TypeOK
<1>2. LoopInv
  BY DEF Init, LoopInv, Lanes, Unseen, Looping, InnerUncounted, OuterAccepted, CleanAccepted
<1> QED BY <1>1, <1>2 DEF IndInv

\* What Select returns is in the lane it is selected for.
LEMMA SelectLanes ==
  ASSUME NEW p \in SUBSET Tx
  PROVE  Pending(p) \subseteq Tx /\ \A t \in Pending(p) : IsEVM(t)
BY DEF Pending

\* A loop that starts has fresh variables of the right types.
LEMMA StartLoopType ==
  ASSUME pool' \subseteq Tx, StartLoop
  PROVE  /\ evmLeft' \subseteq Tx /\ cosmosLeft' \subseteq Tx /\ seen' \subseteq Tx
         /\ picked' \in [Account -> {NoEntry} \cup (Nat \cup {-1})]
         /\ selected' \in Seq(Tx) /\ invalid' \in Seq(Tx)
         /\ iterCount' \in 0 .. MaxIterations
BY SelectLanes, ProposalAssumption DEF StartLoop, Pending

\* The iterators' moves keep them within the mempool's transactions.
LEMMA MovesType ==
  ASSUME TypeOK, Advance \/ Pop
  PROVE  evmLeft' \subseteq Tx /\ cosmosLeft' \subseteq Tx
BY DEF TypeOK, Advance, Pop

\* A turn of the loop counts within the cap and examines a transaction.
LEMMA TurnType ==
  ASSUME TypeOK, Turn
  PROVE  Current \in Tx /\ seen' \subseteq Tx /\ iterCount' \in 0 .. MaxIterations
<1>1. Current \in Tx
  BY CurrentIn DEF Turn
<1>2. seen' \subseteq Tx
  BY <1>1 DEF Turn, TypeOK
<1>3. iterCount' \in 0 .. MaxIterations
  BY ProposalAssumption DEF Turn, TypeOK
<1> QED BY <1>1, <1>2, <1>3

\* What is recorded of a signer is an entry.
LEMMA RecordedType ==
  ASSUME TypeOK, NEW t \in Tx, NEW fits
  PROVE  Recorded(t, fits) \in Nat \cup {-1}
<1>1. Info[t].nonce \in Nat /\ Info[t].from \in Account
  BY ProposalAssumption
<1>2. picked[Info[t].from] \in {NoEntry} \cup (Nat \cup {-1})
  BY <1>1 DEF TypeOK
<1> QED BY <1>1, <1>2 DEF Recorded

\* A turn keeps what is noted as invalid within its cap.
LEMMA TurnCaps ==
  ASSUME TypeOK, Turn, phase' = phase \/ phase' = "clean",
         \/ invalid' = invalid
         \/ invalid' = IF phase = "outer" /\ Len(invalid) >= MaxInvalid
                       THEN invalid ELSE Append(invalid, Current)
  PROVE  Caps'
<1> DEFINE c == Current
<1> HIDE DEF c
<1>1. /\ invalid \in Seq(Tx) /\ Len(invalid) \in Nat /\ MaxInvalid \in Nat
      /\ iterCount \in Nat
  BY ProposalAssumption DEF TypeOK
<1>2. /\ phase \in {"outer", "inner"}
      /\ iterCount' = IF phase = "outer" THEN iterCount + 1 ELSE iterCount
  BY DEF Turn, Looping
<1>3. /\ phase = "inner" => iterCount = 0
      /\ phase = "outer" => Len(invalid) <= MaxInvalid
  BY DEF TypeOK, Caps
<1>4. \/ phase # "outer" \/ invalid' = invalid
      \/ Len(invalid) < MaxInvalid /\ invalid' = Append(invalid, c)
  BY <1>1 DEF c
<1>5. Len(Append(invalid, c)) = Len(invalid) + 1
  BY <1>1
<1>6. phase = "outer" => Len(invalid') <= MaxInvalid
  BY <1>1, <1>3, <1>4, <1>5
<1>7. phase = "inner" => iterCount' = 0
  BY <1>2, <1>3
<1> QED BY <1>2, <1>6, <1>7 DEF Caps

\* Every step keeps the loop's caps.
LEMMA CapsPreserved ==
  ASSUME TypeOK, [Next]_vars
  PROVE  Caps'
<1>0. Caps
  BY DEF TypeOK
<1>1. CASE UNCHANGED <<phase, iterCount, invalid>>
  BY <1>0, <1>1 DEF Caps
<1>2. CASE iterCount' = 0 /\ invalid' = << >>
  BY <1>2, ProposalAssumption DEF Caps
<1>3. CASE Skip
  <2>1. Turn /\ phase' = phase /\ invalid' = invalid
    BY <1>3 DEF Skip
  <2> QED BY <2>1, TurnCaps
<1>4. CASE Reject
  <2>1. /\ Turn /\ phase' = phase
        /\ invalid' = IF phase = "outer" /\ Len(invalid) >= MaxInvalid
                      THEN invalid ELSE Append(invalid, Current)
    BY <1>4 DEF Reject
  <2> QED BY <2>1, TurnCaps
<1>5. CASE SelectTx
  <2>1. Turn /\ (phase' = phase \/ phase' = "clean") /\ invalid' = invalid
    BY <1>5 DEF SelectTx
  <2> QED BY <2>1, TurnCaps
<1>6. CASE EndLoop \/ Clean
  <2>1. phase' \in {"clean", "proposed"} /\ iterCount' = iterCount /\ invalid' = invalid
    BY <1>6 DEF EndLoop, Clean, loop
  <2> QED BY <1>0, <2>1 DEF Caps
<1>7. CASE PanicAgain
  <2>1. phase = "inner" /\ phase' = "proposed" /\ iterCount' = iterCount /\ invalid' = << >>
    BY <1>7 DEF PanicAgain
  <2> QED BY <2>1, ProposalAssumption DEF Caps
<1>8. ASSUME NEW t \in Tx, Insert(t) PROVE UNCHANGED <<phase, iterCount, invalid>>
  BY <1>8 DEF Insert, loop
<1>9. CASE NotifyNewBlock \/ ResetPool \/ UNCHANGED vars
  BY <1>1, <1>9 DEF NotifyNewBlock, ResetPool, vars, loop
<1>10. CASE PrepareProposal \/ Panic
  BY <1>2, <1>10 DEF PrepareProposal, Panic, StartLoop
<1>11. CASE Escape \/ Decide \/ Lose
  BY <1>2, <1>11 DEF Escape, Decide, Lose, ForgetProposal, ForgetLoop
<1> QED BY <1>1, <1>3, <1>4, <1>5, <1>6, <1>7, <1>8, <1>9, <1>10, <1>11 DEF Next, HandlerStep

\* What CometBFT reaps is a sequence of transactions.
LEMMA ReapedType == Reaped \subseteq Seq(Tx)
<1> SUFFICES ASSUME NEW txs \in Reaped PROVE txs \in Seq(Tx)
  OBVIOUS
<1>1. PICK n \in 0 .. MaxTxBytes : txs \in [1 .. n -> {t \in Tx \ waiting : ~Used(t)}]
  BY DEF Reaped, SeqOf
<1>2. n \in Nat
  BY ProposalAssumption
<1> QED BY <1>1, <1>2

\* Every step keeps the types.
LEMMA TypePreserved ==
  ASSUME TypeOK, [Next]_vars
  PROVE  TypeOK'
<1>0. Caps'
  BY CapsPreserved
<1> USE <1>0
<1>1. ASSUME NEW t \in Tx, Insert(t) PROVE TypeOK'
  BY <1>1 DEF Insert, TypeOK, iterators, loop
<1>2. CASE NotifyNewBlock
  BY <1>2 DEF NotifyNewBlock, TypeOK, iterators, loop
<1>3. CASE ResetPool
  BY <1>3 DEF ResetPool, TypeOK, iterators, loop
<1>4. CASE PrepareProposal
  <2>1. pool' \subseteq Tx
    BY <1>4 DEF PrepareProposal, TypeOK, chain
  <2>2. StartLoop
    BY <1>4 DEF PrepareProposal
  <2>3. prepSeq' = seq /\ phase' = "outer" /\ UNCHANGED chain
    BY <1>4 DEF PrepareProposal
  <2> QED BY <2>1, <2>2, <2>3, StartLoopType DEF TypeOK, chain
<1>5. CASE Skip
  <2>1. Turn /\ Advance /\ UNCHANGED <<chain, phase, prepSeq, picked, selected, invalid>>
    BY <1>5 DEF Skip
  <2> QED BY <2>1, TurnType, MovesType DEF TypeOK, chain
<1>6. CASE Reject
  <2>1. Turn /\ (Advance \/ Pop) /\ UNCHANGED <<chain, phase, prepSeq, picked, selected>>
    BY <1>6 DEF Reject
  <2>2. invalid' = invalid \/ invalid' = Append(invalid, Current)
    BY <1>6 DEF Reject
  <2>3. Current \in Tx
    BY <2>1, TurnType
  <2>4. invalid' \in Seq(Tx)
    <3> DEFINE c == Current
    <3> HIDE DEF c
    <3>1. c \in Tx /\ (invalid' = invalid \/ invalid' = Append(invalid, c))
      BY <2>2, <2>3 DEF c
    <3> QED BY <3>1 DEF TypeOK
  <2> QED BY <2>1, <2>4, TurnType, MovesType DEF TypeOK, chain
<1>7. CASE SelectTx
  <2> DEFINE t == Current
             fits == Bytes(selected) + Info[t].size <= MaxTxBytes
  <2>1. /\ Turn /\ prepSeq' = Bump(prepSeq, Info[t].from)
        /\ selected' = IF fits THEN Append(selected, t) ELSE selected
        /\ \/ phase' = "clean" /\ UNCHANGED <<iterators, picked>>
           \/ /\ picked' = [picked EXCEPT ![Info[t].from] = Recorded(t, fits)]
              /\ Advance /\ UNCHANGED phase
        /\ UNCHANGED <<chain, invalid>>
    BY <1>7 DEF SelectTx
  <2>2. t \in Tx
    BY <2>1, TurnType
  <2>3. Recorded(t, fits) \in Nat \cup {-1}
    <3> HIDE DEF t, fits
    <3> QED BY <2>2, RecordedType
  <2>4. evmLeft' \subseteq Tx /\ cosmosLeft' \subseteq Tx
    <3>1. CASE Advance
      BY <3>1, MovesType
    <3>2. CASE UNCHANGED iterators
      BY <3>2 DEF iterators, TypeOK
    <3> QED BY <2>1, <3>1, <3>2
  <2>5. seen' \subseteq Tx /\ iterCount' \in 0 .. MaxIterations
    BY <2>1, TurnType
  <2> HIDE DEF t, fits
  <2>6. prepSeq' \in AccountSeqs
    BY <2>1, <2>2, ProposalAssumption DEF TypeOK, AccountSeqs, Bump
  <2>7. picked' \in [Account -> {NoEntry} \cup (Nat \cup {-1})]
    BY <2>1, <2>2, <2>3 DEF TypeOK
  <2>8. selected' \in Seq(Tx)
    BY <2>1, <2>2 DEF TypeOK
  <2> QED BY <2>1, <2>4, <2>5, <2>6, <2>7, <2>8 DEF TypeOK, chain
<1>8. CASE EndLoop
  <2>1. UNCHANGED <<chain, iterators, loop>> /\ phase' = "clean"
    BY <1>8 DEF EndLoop
  <2> QED BY <2>1 DEF TypeOK, chain, iterators, loop
<1>9. CASE Panic
  <2>1. RemoveAll(<<Current>>) /\ StartLoop /\ phase' = "inner" /\ HasTx
    BY <1>9 DEF Panic
  <2>2. Current \in Tx
    BY <2>1, CurrentIn
  <2>3. <<Current>> \in Seq(Tx)
    <3> DEFINE c == Current
    <3> HIDE DEF c
    <3>1. c \in Tx
      BY <2>2 DEF c
    <3>2. <<c>> \in Seq(Tx)
      BY <3>1
    <3> QED BY <3>2 DEF c
  <2>4. pool' \subseteq Tx /\ latestSeq' \in AccountSeqs
    BY <2>1, <2>3, RemoveAllType
  <2>5. UNCHANGED <<seq, waiting, poolSeq, notify, reset, prepSeq>>
    BY <1>9 DEF Panic
  <2> QED BY <2>1, <2>4, <2>5, StartLoopType DEF TypeOK
<1>10. CASE PanicAgain
  BY <1>10 DEF PanicAgain, TypeOK, chain, iterators
<1>15. CASE Escape
  <2>1. selected' \in Seq(Tx)
    BY <1>15, ReapedType DEF Escape
  <2>2. UNCHANGED chain /\ ForgetLoop /\ phase' = "proposed"
    BY <1>15 DEF Escape
  <2> QED BY <2>1, <2>2, ProposalAssumption DEF TypeOK, ForgetLoop, AccountSeqs, chain
<1>11. CASE Clean
  <2>1. RemoveAll(invalid) /\ invalid \in Seq(Tx)
    BY <1>11 DEF Clean, TypeOK
  <2>2. pool' \subseteq Tx /\ latestSeq' \in AccountSeqs
    BY <2>1, RemoveAllType
  <2>3. phase' = "proposed" /\ UNCHANGED <<seq, waiting, poolSeq, notify, reset, iterators, loop>>
    BY <1>11 DEF Clean
  <2> QED BY <2>2, <2>3 DEF TypeOK, iterators, loop
<1>12. CASE Decide
  <2>1. RemoveAll(selected) /\ selected \in Seq(Tx)
    BY <1>12 DEF Decide, TypeOK
  <2>2. pool' \subseteq Tx /\ latestSeq' \in AccountSeqs
    BY <2>1, RemoveAllType
  <2>3. seq' = Run(seq, selected)
    BY <1>12 DEF Decide, Run
  <2>4. seq' \in AccountSeqs
    BY <2>3, RunSteps DEF TypeOK
  <2>5. notify' = TRUE /\ ForgetProposal /\ UNCHANGED <<waiting, poolSeq, reset>>
    BY <1>12 DEF Decide
  <2> QED BY <2>2, <2>4, <2>5, ProposalAssumption DEF TypeOK, ForgetProposal, ForgetLoop, AccountSeqs
<1>13. CASE Lose
  BY <1>13, ProposalAssumption DEF Lose, TypeOK, ForgetProposal, ForgetLoop, AccountSeqs, chain
<1>14. CASE UNCHANGED vars
  BY <1>14 DEF TypeOK, vars, chain, iterators, loop
<1> QED BY <1>1, <1>2, <1>3, <1>4, <1>5, <1>6, <1>7, <1>8, <1>9, <1>10, <1>11, <1>12, <1>13,
           <1>14, <1>15 DEF Next, HandlerStep

-----------------------------------------------------------------------------
(* The loop.                                                               *)

\* What neither commits nor touches the loop keeps its invariant.
LEMMA LoopKept ==
  ASSUME LoopInv, UNCHANGED <<seq, phase, iterators, loop>>
  PROVE  LoopInv'
<1>1. /\ seq' = seq /\ phase' = phase /\ evmLeft' = evmLeft /\ cosmosLeft' = cosmosLeft
      /\ prepSeq' = prepSeq /\ picked' = picked /\ selected' = selected
      /\ iterCount' = iterCount /\ seen' = seen
  BY DEF iterators, loop
<1>2. Run(seq, selected)' = Run(seq, selected) /\ Valid(seq, selected)' = Valid(seq, selected)
  BY <1>1
<1>3. Lanes' /\ Unseen' /\ InnerUncounted' /\ CleanAccepted'
  BY <1>1, <1>2 DEF LoopInv, Lanes, Unseen, Looping, InnerUncounted, CleanAccepted
<1>4. OuterAccepted'
  BY <1>1, <1>2 DEF LoopInv, OuterAccepted, Follows
<1> QED BY <1>3, <1>4 DEF LoopInv

\* An idle handler has nothing to keep.
LEMMA Forgotten ==
  ASSUME ForgetProposal
  PROVE  LoopInv'
BY DEF ForgetProposal, ForgetLoop, LoopInv, Lanes, Unseen, Looping, InnerUncounted, OuterAccepted,
       CleanAccepted

\* A loop that starts has examined nothing and selected nothing; when it
\* starts on the committed state, it follows it.
LEMMA Started ==
  ASSUME pool' \subseteq Tx, seq' \in AccountSeqs, StartLoop, phase' \in {"outer", "inner"},
         phase' = "outer" => prepSeq' = seq'
  PROVE  LoopInv'
<1>1. /\ evmLeft' = Pending(pool') /\ cosmosLeft' = {t \in pool' : ~IsEVM(t)}
      /\ picked' = [a \in Account |-> NoEntry] /\ selected' = << >>
      /\ iterCount' = 0 /\ seen' = {}
  BY DEF StartLoop
<1>2. Lanes'
  BY <1>1, SelectLanes DEF Lanes, Pending
<1>3. Unseen' /\ InnerUncounted' /\ CleanAccepted'
  BY <1>1 DEF Unseen, InnerUncounted, CleanAccepted
<1>4. << >> \in Seq(Tx)
  OBVIOUS
<1>5. Run(seq', << >>) = seq'
  BY <1>4, RunSteps
<1>6. Run(seq, selected)' = seq' /\ Valid(seq, selected)'
  BY <1>1, <1>5, ValidEmpty
<1>7. OuterAccepted'
  BY <1>1, <1>6 DEF OuterAccepted, Follows
<1> QED BY <1>2, <1>3, <1>7 DEF LoopInv

\* A turn whose transaction goes behind the iterators keeps the lanes, and
\* nothing that was examined is ahead.
LEMMA TurnSeen ==
  ASSUME TypeOK, LoopInv, Turn, Advance \/ (ReturnsEVM /\ Pop), phase' = phase
  PROVE  Lanes' /\ Unseen' /\ InnerUncounted'
<1> DEFINE c == Current
<1>1. /\ evmLeft' \subseteq evmLeft /\ cosmosLeft' \subseteq cosmosLeft
      /\ c \notin evmLeft' \cup cosmosLeft'
  BY Behind DEF LoopInv, Turn
<1>2. Looping /\ seen' = seen \cup {c} /\ (phase = "inner" => iterCount' = iterCount)
  BY DEF Turn
<1>3. Lanes /\ Unseen /\ InnerUncounted
  BY DEF LoopInv
<1> HIDE DEF c
<1>4. Lanes'
  BY <1>1, <1>3 DEF Lanes, IsEVM
<1>5. Unseen'
  BY <1>1, <1>2, <1>3 DEF Unseen
<1>6. InnerUncounted'
  BY <1>2, <1>3 DEF InnerUncounted
<1> QED BY <1>4, <1>5, <1>6

\* A turn that selects nothing keeps the selection valid.
LEMMA TurnKeeps ==
  ASSUME TypeOK, LoopInv, Turn, Advance \/ (ReturnsEVM /\ Pop),
         UNCHANGED <<chain, phase, prepSeq, picked, selected>>
  PROVE  LoopInv'
<1>1. Lanes' /\ Unseen' /\ InnerUncounted'
  BY TurnSeen
<1>2. /\ seq' = seq /\ phase' = phase /\ prepSeq' = prepSeq /\ picked' = picked
      /\ selected' = selected
  BY DEF chain
<1>3. Run(seq, selected)' = Run(seq, selected) /\ Valid(seq, selected)' = Valid(seq, selected)
  BY <1>2
<1>4. OuterAccepted'
  BY <1>2, <1>3 DEF LoopInv, OuterAccepted, Follows
<1>5. CleanAccepted'
  BY <1>2 DEF CleanAccepted, Turn, Looping
<1> QED BY <1>1, <1>4, <1>5 DEF LoopInv

\* The transaction that SelectTx verifies is the next of its signer after the
\* selection so far.
LEMMA VerifiedNext ==
  ASSUME TypeOK, Follows, NEW t \in Tx, NextInSequence(t), Verifies(t)
  PROVE  t \notin Bad /\ Info[t].nonce = Run(seq, selected)[Info[t].from]
<1>1. Info[t].from \in Account
  BY ProposalAssumption
<1>2. t \notin Bad /\ Info[t].nonce = prepSeq[Info[t].from]
  BY DEF Verifies
<1>3. CASE picked[Info[t].from] = NoEntry
  BY <1>1, <1>2, <1>3 DEF Follows
<1>4. CASE picked[Info[t].from] # NoEntry
  BY <1>1, <1>2, <1>4 DEF Follows, NextInSequence
<1> QED BY <1>3, <1>4

\* With it the selection stays valid, and the loop follows the new one.
LEMMA Selecting ==
  ASSUME TypeOK, Valid(seq, selected), Follows, NEW t \in Tx, NextInSequence(t), Verifies(t),
         NEW fits \in BOOLEAN,
         seq' = seq, selected' = IF fits THEN Append(selected, t) ELSE selected
  PROVE  /\ Valid(seq, selected)'
         /\ prepSeq' = Bump(prepSeq, Info[t].from)
              /\ picked' = [picked EXCEPT ![Info[t].from] = Recorded(t, fits)] => Follows'
<1> DEFINE a == Info[t].from
           R == Run(seq, selected)
<1>1. a \in Account /\ Info[t].nonce \in Nat
  BY ProposalAssumption
<1>2. t \notin Bad /\ Info[t].nonce = R[a]
  BY VerifiedNext
<1>3. /\ seq \in AccountSeqs /\ selected \in Seq(Tx) /\ prepSeq \in [Account -> Nat]
      /\ picked \in [Account -> {NoEntry} \cup (Nat \cup {-1})]
  BY DEF TypeOK, AccountSeqs
<1>4. R \in [Account -> Nat] /\ Run(seq, Append(selected, t)) = Executed(R, t)
  BY <1>3, RunSteps DEF AccountSeqs
<1>5. Valid(seq, Append(selected, t))
  BY <1>2, <1>3, ValidAppend
<1> DEFINE R1 == Run(seq', selected')
<1>6. R1 = IF fits THEN Bump(R, a) ELSE R
  <2>1. CASE fits
    <3>1. R1 = Run(seq, Append(selected, t))
      BY <2>1
    <3>2. Executed(R, t) = Bump(R, a)
      BY <1>2 DEF Executed
    <3> HIDE DEF R, R1, a
    <3> QED BY <1>4, <2>1, <3>1, <3>2
  <2>2. CASE ~fits
    BY <2>2
  <2> QED BY <2>1, <2>2
<1>7. Valid(seq', selected')
  BY <1>5
<1>8. ASSUME prepSeq' = Bump(prepSeq, a), picked' = [picked EXCEPT ![a] = Recorded(t, fits)]
      PROVE  Follows'
  <2>1. \A b \in Account : /\ picked[b] = NoEntry => prepSeq[b] = R[b]
                           /\ picked[b] # NoEntry => picked[b] + 1 = R[b]
    BY DEF Follows
  <2>2. Recorded(t, fits) = IF fits THEN Info[t].nonce
                            ELSE IF picked[a] = NoEntry THEN Info[t].nonce - 1 ELSE picked[a]
    BY DEF Recorded
  <2>3. R1 \in [Account -> Nat] /\ R1[a] = IF fits THEN R[a] + 1 ELSE R[a]
    <3> HIDE DEF R, R1, a
    <3> QED BY <1>1, <1>4, <1>6 DEF Bump
  <2>4. \A b \in Account \ {a} : R1[b] = R[b]
    <3> HIDE DEF R, R1, a
    <3> QED BY <1>1, <1>4, <1>6 DEF Bump
  <2>5. ASSUME NEW b \in Account
        PROVE  /\ picked'[b] = NoEntry => prepSeq'[b] = R1[b]
               /\ picked'[b] # NoEntry => picked'[b] + 1 = R1[b]
    <3> HIDE DEF R, R1, a
    <3>1. CASE b = a
      <4>1. picked'[a] = Recorded(t, fits)
        BY <1>1, <1>3, <1>8
      <4>2. picked'[a] # NoEntry
        BY <1>1, <1>3, <2>2, <4>1 DEF NoEntry
      <4>3. picked'[a] + 1 = R1[a]
        <5>1. R[a] \in Nat /\ picked[a] \in {NoEntry} \cup (Nat \cup {-1})
          BY <1>1, <1>3, <1>4
        <5>2. picked[a] # NoEntry => picked[a] + 1 = R[a]
          BY <1>1, <2>1
        <5> QED BY <1>1, <1>2, <2>2, <2>3, <4>1, <5>1, <5>2
      <4> QED BY <3>1, <4>2, <4>3
    <3>2. CASE b # a
      <4>1. picked'[b] = picked[b] /\ prepSeq'[b] = prepSeq[b]
        BY <1>3, <1>8, <3>2 DEF Bump
      <4> QED BY <2>1, <2>4, <3>2, <4>1
    <3> QED BY <3>1, <3>2
  <2> QED BY <2>5 DEF Follows
<1> QED BY <1>7, <1>8

\* Every step keeps the loop's invariant.
LEMMA LoopPreserved ==
  ASSUME TypeOK, LoopInv, [Next]_vars
  PROVE  LoopInv'
<1>0. TypeOK'
  BY TypePreserved
<1>1. ASSUME NEW t \in Tx, Insert(t) PROVE LoopInv'
  <2>1. UNCHANGED <<seq, phase, iterators, loop>>
    BY <1>1 DEF Insert
  <2> QED BY <2>1, LoopKept
<1>2. CASE NotifyNewBlock
  <2>1. UNCHANGED <<seq, phase, iterators, loop>>
    BY <1>2 DEF NotifyNewBlock
  <2> QED BY <2>1, LoopKept
<1>3. CASE ResetPool
  <2>1. UNCHANGED <<seq, phase, iterators, loop>>
    BY <1>3 DEF ResetPool
  <2> QED BY <2>1, LoopKept
<1>4. CASE PrepareProposal
  <2>1. StartLoop /\ prepSeq' = seq /\ seq' = seq /\ phase' = "outer"
    BY <1>4 DEF PrepareProposal, chain
  <2>2. pool' \subseteq Tx /\ seq' \in AccountSeqs
    BY <1>0 DEF TypeOK
  <2> QED BY <2>1, <2>2, Started
<1>5. CASE Skip
  <2>1. Turn /\ Advance /\ UNCHANGED <<chain, phase, prepSeq, picked, selected>>
    BY <1>5 DEF Skip
  <2> QED BY <2>1, TurnKeeps
<1>6. CASE Reject
  <2>1. /\ Turn /\ (Advance \/ (ReturnsEVM /\ Pop))
        /\ UNCHANGED <<chain, phase, prepSeq, picked, selected>>
    BY <1>6 DEF Reject
  <2> QED BY <2>1, TurnKeeps
<1>7. CASE SelectTx
  <2> DEFINE t == Current
             fits == Bytes(selected) + Info[t].size <= MaxTxBytes
  <2>1. /\ Turn /\ NextInSequence(t) /\ Verifies(t)
        /\ prepSeq' = Bump(prepSeq, Info[t].from)
        /\ selected' = IF fits THEN Append(selected, t) ELSE selected
        /\ \/ phase' = "clean" /\ UNCHANGED <<iterators, picked>>
           \/ /\ picked' = [picked EXCEPT ![Info[t].from] = Recorded(t, fits)]
              /\ Advance /\ UNCHANGED phase
        /\ UNCHANGED <<chain, invalid>>
    BY <1>7 DEF SelectTx
  <2>2. t \in Tx
    BY <2>1, TurnType
  <2>3. seq' = seq
    BY <2>1 DEF chain
  <2>4. ASSUME phase = "outer"
        PROVE  /\ Valid(seq, selected)'
               /\ picked' = [picked EXCEPT ![Info[t].from] = Recorded(t, fits)] => Follows'
    <3>1. Valid(seq, selected) /\ Follows
      BY <2>4 DEF LoopInv, OuterAccepted
    <3>2. fits \in BOOLEAN
      OBVIOUS
    <3> HIDE DEF t, fits
    <3> QED BY <2>1, <2>2, <2>3, <3>1, <3>2, Selecting
  <2>5. CASE phase' = "clean" /\ UNCHANGED <<iterators, picked>>
    <3>1. evmLeft' = evmLeft /\ cosmosLeft' = cosmosLeft
      BY <2>5 DEF iterators
    <3>2. Lanes' /\ Unseen' /\ InnerUncounted' /\ OuterAccepted'
      BY <2>5, <3>1 DEF LoopInv, Lanes, Unseen, Looping, InnerUncounted, OuterAccepted, IsEVM
    <3>3. phase = "inner" => iterCount' = 0
      BY <2>1 DEF Turn, LoopInv, InnerUncounted
    <3>4. phase = "outer" \/ phase = "inner"
      BY <2>1 DEF Turn, Looping
    <3>5. CleanAccepted'
      BY <2>4, <3>3, <3>4 DEF CleanAccepted
    <3> QED BY <3>2, <3>5 DEF LoopInv
  <2>6. CASE /\ picked' = [picked EXCEPT ![Info[t].from] = Recorded(t, fits)]
             /\ Advance /\ UNCHANGED phase
    <3>1. Lanes' /\ Unseen' /\ InnerUncounted'
      BY <2>1, <2>6, TurnSeen
    <3>2. phase' = phase
      BY <2>6
    <3>3. OuterAccepted'
      BY <2>4, <2>6, <3>2 DEF OuterAccepted
    <3>4. CleanAccepted'
      BY <2>1, <3>2 DEF CleanAccepted, Turn, Looping
    <3> QED BY <3>1, <3>3, <3>4 DEF LoopInv
  <2> QED BY <2>1, <2>5, <2>6
<1>8. CASE EndLoop
  <2>0. Looping
    BY <1>8 DEF EndLoop, Looping
  <2>1. /\ Looping /\ phase' = "clean" /\ seq' = seq /\ evmLeft' = evmLeft
        /\ cosmosLeft' = cosmosLeft /\ selected' = selected /\ iterCount' = iterCount
        /\ seen' = seen
    BY <1>8, <2>0 DEF EndLoop, chain, iterators, loop
  <2>2. Lanes' /\ Unseen' /\ InnerUncounted' /\ OuterAccepted'
    BY <2>1 DEF LoopInv, Lanes, Unseen, Looping, InnerUncounted, OuterAccepted, IsEVM
  <2>3. Valid(seq, selected)' = Valid(seq, selected)
    BY <2>1
  <2>4. CleanAccepted'
    BY <2>1, <2>3 DEF LoopInv, Looping, InnerUncounted, OuterAccepted, CleanAccepted
  <2> QED BY <2>2, <2>4 DEF LoopInv
<1>9. CASE Panic
  <2>1. StartLoop /\ phase' = "inner"
    BY <1>9 DEF Panic
  <2>2. pool' \subseteq Tx /\ seq' \in AccountSeqs
    BY <1>0 DEF TypeOK
  <2> QED BY <2>1, <2>2, Started
<1>10. CASE PanicAgain
  <2>1. /\ phase' = "proposed" /\ evmLeft' = evmLeft /\ cosmosLeft' = cosmosLeft
        /\ selected' = << >>
    BY <1>10 DEF PanicAgain, iterators
  <2>2. Lanes' /\ Unseen' /\ InnerUncounted' /\ OuterAccepted'
    BY <2>1 DEF LoopInv, Lanes, Unseen, Looping, InnerUncounted, OuterAccepted, IsEVM
  <2>3. CleanAccepted'
    BY <2>1, ValidEmpty DEF CleanAccepted
  <2> QED BY <2>2, <2>3 DEF LoopInv
<1>15. CASE Escape
  BY <1>15 DEF Escape, ForgetLoop, LoopInv, Lanes, Unseen, Looping, InnerUncounted,
               OuterAccepted, CleanAccepted
<1>11. CASE Clean
  <2>1. /\ phase = "clean" /\ phase' = "proposed" /\ seq' = seq /\ evmLeft' = evmLeft
        /\ cosmosLeft' = cosmosLeft /\ selected' = selected /\ iterCount' = iterCount
    BY <1>11 DEF Clean, iterators, loop
  <2>2. Lanes' /\ Unseen' /\ InnerUncounted' /\ OuterAccepted'
    BY <2>1 DEF LoopInv, Lanes, Unseen, Looping, InnerUncounted, OuterAccepted, IsEVM
  <2>3. Valid(seq, selected)' = Valid(seq, selected)
    BY <2>1
  <2>4. CleanAccepted'
    BY <2>1, <2>3 DEF LoopInv, CleanAccepted
  <2> QED BY <2>2, <2>4 DEF LoopInv
<1>12. CASE Decide
  BY <1>12, Forgotten DEF Decide
<1>13. CASE Lose
  BY <1>13, Forgotten DEF Lose
<1>14. CASE UNCHANGED vars
  <2>1. UNCHANGED <<seq, phase, iterators, loop>>
    BY <1>14 DEF vars, chain
  <2> QED BY <2>1, LoopKept
<1> QED BY <1>1, <1>2, <1>3, <1>4, <1>5, <1>6, <1>7, <1>8, <1>9, <1>10, <1>11, <1>12, <1>13,
           <1>14, <1>15 DEF Next, HandlerStep

-----------------------------------------------------------------------------
(* The theorems.                                                           *)

\* Every reachable state satisfies the invariant.
THEOREM Invariance == Spec => []IndInv
<1>1. IndInv /\ [Next]_vars => IndInv'
  BY TypePreserved, LoopPreserved DEF IndInv
<1> QED BY <1>1, InitInv, PTL DEF Spec

\* Type correctness: the loop of PrepareProposalHandler stays within its
\* iteration cap, and the folds over the mempool and the block keep their types.
THEOREM TypeCorrect == Spec => []TypeOK
<1>1. IndInv => TypeOK
  BY DEF IndInv
<1> QED BY <1>1, Invariance, PTL

\* No validator rejects a block that PrepareProposalHandler's own loop built,
\* for every mempool: cascade skips, what did not fit and nonces that both
\* lanes hold included.
THEOREM AlwaysAccepted == Spec => []ProposalAccepted
<1>1. IndInv => ProposalAccepted
  BY AcceptedValid DEF IndInv, LoopInv, CleanAccepted, ProposalAccepted
<1> QED BY <1>1, Invariance, PTL

\* The merged iterator never returns a transaction twice within one loop.
THEOREM AlwaysForward == Spec => []NeverReexamined
<1>1. IndInv => NeverReexamined
  <2> SUFFICES ASSUME IndInv, Looping, HasTx PROVE Current \notin seen
    BY DEF NeverReexamined
  <2>1. Current \in evmLeft \cup cosmosLeft
    BY CurrentIn DEF IndInv
  <2>2. seen \cap (evmLeft \cup cosmosLeft) = {}
    BY DEF IndInv, LoopInv, Unseen
  <2> DEFINE c == Current
  <2> HIDE DEF c
  <2>3. c \notin seen
    BY <2>1, <2>2 DEF c
  <2> QED BY <2>3 DEF c
<1> QED BY <1>1, Invariance, PTL

-----------------------------------------------------------------------------
(* What a proposal leaves in the mempool.                                  *)

\* The mempools HealthyKept holds for.  No transaction makes the handler panic:
\* the fallback would judge transactions by a state that the loop has used.  An
\* account sends in one lane only, and no nonce twice.
Orderly ==
  /\ Poison = {}
  /\ \A t, u \in Tx : Info[t].from = Info[u].from =>
       /\ Info[t].lane = Info[u].lane
       /\ Info[t].nonce = Info[u].nonce => t = u

\* A transaction that cannot be executed any more: its signer will not get
\* past one that the ante handler refuses for a reason of its own.
Doomed(t) == \E w \in Bad : Info[w].from = Info[t].from /\ Info[w].nonce <= Info[t].nonce

\* Sequences that executed transactions have led to.
Grounded(s) ==
  \A a \in Account, n \in Nat :
    n < s[a] => \E t \in Tx \ Bad : Info[t].from = a /\ Info[t].nonce = n

\* A transaction that left the mempool for good reason, when the accounts are at s.
Gone(s, t) == Doomed(t) \/ Info[t].nonce < s[Info[t].from]

\* A Cosmos transaction has predecessors, and those are in T or gone.
Chained(t) ==
  \A n \in Nat : n < Info[t].nonce =>
    \E u \in Tx : Info[u].from = Info[t].from /\ Info[u].nonce = n
Covered(s, T, t) ==
  \A u \in Tx : Info[u].from = Info[t].from /\ Info[u].nonce < Info[t].nonce =>
    u \in T \/ Gone(s, u)
Rooted(s, S, T) == \A t \in S : ~IsEVM(t) => Chained(t) /\ Covered(s, T, t)

\* What fails verification can be handed to Remove: the ante handler refuses it
\* anyway, or it is used, or it is ahead of its signer, where Remove keeps it if
\* it is an EVM transaction and nothing is lost if it is not.
Failing(s, t) ==
  \/ t \in Bad
  \/ Info[t].nonce < s[Info[t].from]
  \/ Info[t].nonce > s[Info[t].from] /\ (IsEVM(t) \/ Doomed(t))

\* The loop's own state: every sequence that prepareState has gone through is
\* that of an examined transaction, and an account without an entry has had
\* no transaction that could have been verified.
Examined ==
  /\ \A a \in Account :
       /\ prepSeq[a] >= seq[a]
       /\ picked[a] = NoEntry => prepSeq[a] = seq[a]
       /\ picked[a] # NoEntry => picked[a] + 1 <= prepSeq[a]
       /\ \A n \in Nat : seq[a] <= n /\ n < prepSeq[a] =>
            \E u \in seen : Info[u].from = a /\ Info[u].nonce = n
  /\ \A u \in seen : picked[Info[u].from] = NoEntry =>
       u \in Bad \/ Info[u].nonce # seq[Info[u].from]

LatestBehind == \A a \in Account : latestSeq[a] <= seq[a]
OuterRooted == phase = "outer" => Rooted(seq, cosmosLeft, cosmosLeft \cup seen)
OuterExamined == phase = "outer" => Examined
InvalidFailing ==
  phase \in {"outer", "clean"} => \A i \in 1 .. Len(invalid) : Failing(seq, invalid[i])

KeptInv ==
  /\ phase # "inner" /\ Grounded(seq) /\ LatestBehind /\ Rooted(seq, pool, pool)
  /\ OuterRooted /\ OuterExamined /\ InvalidFailing

\* No account gets past a transaction that is refused.
LEMMA BadAhead ==
  ASSUME Orderly, NEW s \in AccountSeqs, Grounded(s), NEW w \in Bad
  PROVE  s[Info[w].from] <= Info[w].nonce
<1>1. w \in Tx /\ Info[w].from \in Account /\ Info[w].nonce \in Nat
  BY ProposalAssumption
<1>2. s[Info[w].from] \in Nat
  BY <1>1 DEF AccountSeqs
<1>3. ASSUME Info[w].nonce < s[Info[w].from] PROVE FALSE
  <2>1. PICK t \in Tx \ Bad : Info[t].from = Info[w].from /\ Info[t].nonce = Info[w].nonce
    BY <1>1, <1>3 DEF Grounded
  <2>2. t = w
    BY <1>1, <2>1 DEF Orderly
  <2> QED BY <2>1, <2>2
<1> QED BY <1>1, <1>2, <1>3

\* What is doomed is not executable.
LEMMA DoomedStuck ==
  ASSUME Orderly, TypeOK, Grounded(seq), NEW t \in pool, Executable(t)
  PROVE  ~Doomed(t)
<1> SUFFICES ASSUME Doomed(t) PROVE FALSE
  OBVIOUS
<1>1. PICK w \in Bad : Info[w].from = Info[t].from /\ Info[w].nonce <= Info[t].nonce
  BY DEF Doomed
<1>2. w \in Tx /\ t \in Tx /\ Info[w].nonce \in Nat /\ Info[t].nonce \in Nat /\ Info[t].from \in Account
  BY ProposalAssumption DEF TypeOK
<1>3. seq \in AccountSeqs /\ seq[Info[t].from] \in Nat
  BY <1>2 DEF TypeOK, AccountSeqs
<1>4. seq[Info[t].from] <= Info[w].nonce
  BY <1>1, <1>3, BadAhead
<1>5. Info[w].nonce \in seq[Info[t].from] .. Info[t].nonce
  BY <1>1, <1>2, <1>3, <1>4
<1>6. PICK u \in pool : Sound(u) /\ Info[u].from = Info[t].from /\ Info[u].nonce = Info[w].nonce
  BY <1>5 DEF Executable
<1>7. u = w
  BY <1>1, <1>2, <1>6 DEF Orderly, TypeOK
<1> QED BY <1>6, <1>7 DEF Sound

-----------------------------------------------------------------------------
(* Removing what fails.                                                    *)

\* What removals may have made of the mempool p, when the accounts are at s.
PoolKept(p, s) ==
  {x \in PoolState :
     /\ x.pool \subseteq p
     /\ \A a \in Account : x.latestSeq[a] <= s[a]
     /\ \A t \in p : t \notin x.pool => Gone(s, t)}

\* One removal of a transaction that fails.
LEMMA RemoveKeeps ==
  ASSUME NEW p \in SUBSET Tx, NEW s \in AccountSeqs, NEW x \in PoolKept(p, s),
         NEW t \in Tx, Failing(s, t)
  PROVE  RemoveTx(x, t) \in PoolKept(p, s)
<1> DEFINE a == Info[t].from
<1>1. a \in Account /\ Info[t].nonce \in Nat /\ s[a] \in Nat
  BY ProposalAssumption DEF AccountSeqs
<1>2. /\ x \in PoolState /\ x.pool \in SUBSET Tx /\ x.latestSeq \in AccountSeqs
      /\ x.pool \subseteq p
      /\ \A b \in Account : x.latestSeq[b] <= s[b]
      /\ \A u \in p : u \notin x.pool => Gone(s, u)
  BY DEF PoolKept, PoolState
<1>3. x.latestSeq[a] \in Nat /\ x.latestSeq[a] <= s[a]
  BY <1>1, <1>2 DEF AccountSeqs
<1>4. CASE ~IsEVM(t) \/ t \in Bad \/ Info[t].nonce < x.latestSeq[a]
  <2> DEFINE y == [x EXCEPT !.pool = @ \ {t}]
  <2>0. ~ (IsEVM(t) /\ t \notin Bad /\ Info[t].nonce = x.latestSeq[a])
    BY <1>1, <1>3, <1>4
  <2>1. RemoveTx(x, t) = y
    BY <1>4, <2>0 DEF RemoveTx
  <2>2. y \in PoolState /\ y.pool = x.pool \ {t} /\ y.latestSeq = x.latestSeq
    BY <1>2 DEF PoolState
  <2>3. Gone(s, t)
    <3>1. t \in Bad => Doomed(t)
      BY <1>1 DEF Doomed
    <3> QED BY <1>1, <1>3, <1>4, <3>1 DEF Failing, Gone
  <2> HIDE DEF y
  <2>4. y \in PoolKept(p, s)
    BY <1>2, <2>2, <2>3 DEF PoolKept
  <2> QED BY <2>1, <2>4
<1>5. CASE IsEVM(t) /\ t \notin Bad /\ Info[t].nonce = x.latestSeq[a]
  <2> DEFINE y == [x EXCEPT !.latestSeq = Bump(@, a)]
  <2>1. RemoveTx(x, t) = y
    BY <1>1, <1>3, <1>5 DEF RemoveTx
  <2>2. y.pool = x.pool /\ y.latestSeq = Bump(x.latestSeq, a)
    BY <1>2 DEF PoolState
  <2>3. y \in PoolState
    BY <2>1, <1>2, RemoveType
  <2>4. Info[t].nonce < s[a]
    BY <1>1, <1>3, <1>5 DEF Failing
  <2>5. \A b \in Account : y.latestSeq[b] <= s[b]
    BY <1>1, <1>2, <1>3, <1>5, <2>2, <2>4 DEF Bump, AccountSeqs
  <2> HIDE DEF y
  <2>6. y \in PoolKept(p, s)
    BY <1>2, <2>2, <2>3, <2>5 DEF PoolKept
  <2> QED BY <2>1, <2>6
<1>6. CASE ~ (~IsEVM(t) \/ t \in Bad \/ Info[t].nonce < x.latestSeq[a])
           /\ ~ (IsEVM(t) /\ t \notin Bad /\ Info[t].nonce = x.latestSeq[a])
  <2>1. RemoveTx(x, t) = x
    BY <1>6 DEF RemoveTx
  <2> QED BY <2>1
<1> QED BY <1>4, <1>5, <1>6

\* Remove, called for a list of transactions that fail.
LEMMA RemoveAllKeeps ==
  ASSUME TypeOK, NEW txs \in Seq(Tx), RemoveAll(txs), NEW s \in AccountSeqs,
         \A a \in Account : latestSeq[a] <= s[a],
         \A k \in 1 .. Len(txs) : Failing(s, txs[k])
  PROVE  /\ pool' \subseteq pool
         /\ \A a \in Account : latestSeq'[a] <= s[a]
         /\ \A t \in pool : t \notin pool' => Gone(s, t)
<1> DEFINE G == PoolKept(pool, s)
           st == [pool |-> pool, latestSeq |-> latestSeq]
<1>1. pool \in SUBSET Tx /\ \A k \in 1 .. Len(txs) : txs[k] \in Tx
  BY DEF TypeOK
<1>2. st \in G
  <2>1. st \in PoolState /\ st.pool = pool /\ st.latestSeq = latestSeq
    BY DEF TypeOK, PoolState
  <2> HIDE DEF st
  <2> QED BY <2>1 DEF PoolKept
<1>3. \A x \in G, k \in 1 .. Len(txs) : RemoveTx(x, txs[k]) \in G
  BY <1>1, RemoveKeeps
<1> HIDE DEF G
<1>4. PICK x \in G : pool' = x.pool /\ latestSeq' = x.latestSeq
  BY <1>2, <1>3, RemoveAllIn
<1> QED BY <1>4 DEF G, PoolKept

-----------------------------------------------------------------------------
(* What executing a valid block does.                                      *)

\* Sequences that come after s, in which the first k transactions are used.
Beyond(s, txs, k, r) ==
  /\ r \in AccountSeqs /\ Grounded(r)
  /\ \A a \in Account : s[a] <= r[a]
  /\ \A i \in 1 .. k : Info[txs[i]].nonce < r[Info[txs[i]].from]

\* One more of its transactions.
LEMMA BeyondStep ==
  ASSUME NEW s \in AccountSeqs, NEW txs \in Seq(Tx), NEW k \in Nat, k + 1 <= Len(txs),
         NEW r, Beyond(s, txs, k, r), txs[k + 1] \notin Bad,
         Info[txs[k + 1]].nonce = r[Info[txs[k + 1]].from]
  PROVE  Beyond(s, txs, k + 1, Executed(r, txs[k + 1]))
<1> DEFINE t == txs[k + 1]
           a == Info[t].from
           q == Executed(r, t)
<1>1. t \in Tx /\ \A i \in 1 .. (k + 1) : txs[i] \in Tx
  OBVIOUS
<1>2. r \in AccountSeqs /\ Grounded(r) /\ \A b \in Account : s[b] <= r[b]
  BY DEF Beyond
<1>3. \A i \in 1 .. k : Info[txs[i]].nonce < r[Info[txs[i]].from]
  BY DEF Beyond
<1>4. t \notin Bad /\ Info[t].nonce = r[a]
  OBVIOUS
<1>5. \A i \in 1 .. (k + 1) : i \in 1 .. k \/ txs[i] = t
  OBVIOUS
<1>6. \A i \in 1 .. (k + 1) : Info[txs[i]].from \in Account /\ Info[txs[i]].nonce \in Nat
  BY <1>1, ProposalAssumption
<1> HIDE DEF t
<1>7. a \in Account /\ Info[t].nonce \in Nat
  BY <1>1, ProposalAssumption
<1>8. q = [r EXCEPT ![a] = @ + 1]
  BY <1>4 DEF Executed, Bump
<1>9. q \in AccountSeqs /\ q[a] = r[a] + 1 /\ \A b \in Account : b # a => q[b] = r[b]
  BY <1>2, <1>7, <1>8 DEF AccountSeqs
<1>10. \A b \in Account : r[b] \in Nat /\ s[b] \in Nat
  BY <1>2 DEF AccountSeqs
<1> HIDE DEF q
<1>11. \A b \in Account : s[b] <= q[b] /\ r[b] <= q[b]
  BY <1>2, <1>9, <1>10
<1>12. Grounded(q)
  <2> SUFFICES ASSUME NEW b \in Account, NEW n \in Nat, n < q[b]
               PROVE  \E u \in Tx \ Bad : Info[u].from = b /\ Info[u].nonce = n
    BY DEF Grounded
  <2>1. CASE n < r[b]
    BY <1>2, <2>1 DEF Grounded
  <2>2. CASE ~ (n < r[b])
    <3>1. b = a /\ n = r[a]
      BY <1>9, <1>10, <2>2
    <3> QED BY <1>1, <1>4, <3>1
  <2> QED BY <2>1, <2>2
<1>13. ASSUME NEW i \in 1 .. (k + 1) PROVE Info[txs[i]].nonce < q[Info[txs[i]].from]
  <2>1. CASE i \in 1 .. k
    BY <1>3, <1>6, <1>9, <1>10, <1>11, <2>1
  <2>2. CASE txs[i] = t
    BY <1>4, <1>7, <1>9, <1>10, <2>2
  <2> QED BY <1>5, <2>1, <2>2
<1>14. Beyond(s, txs, k + 1, q)
  BY <1>9, <1>11, <1>12, <1>13 DEF Beyond
<1> QED BY <1>14 DEF q, t

\* A valid block uses each of its transactions.
LEMMA RunValid ==
  ASSUME NEW s \in AccountSeqs, NEW txs \in Seq(Tx), Valid(s, txs), Grounded(s)
  PROVE  Beyond(s, txs, Len(txs), Run(s, txs))
<1> DEFINE n == Len(txs)
           First(k) == SubSeq(txs, 1, k)
           K == {k \in Nat : k <= n => Beyond(s, txs, k, Run(s, First(k)))}
<1>1. n \in Nat /\ First(n) = txs /\ First(0) = << >>
  OBVIOUS
<1>2. ASSUME NEW k \in Nat, k + 1 <= n
      PROVE  /\ First(k) \in Seq(Tx) /\ First(k + 1) = Append(First(k), txs[k + 1])
             /\ txs[k + 1] \in Tx
  <2>1. \A i \in 1 .. (k + 1) : txs[i] \in Tx
    BY <1>1, <1>2
  <2>2. /\ First(k) \in Seq(Tx) /\ Len(First(k)) = k
        /\ \A i \in 1 .. k : First(k)[i] = txs[i]
    BY <1>1, <1>2
  <2>3. First(k + 1) = [i \in 1 .. (k + 1) |-> txs[i]]
    BY <1>1, <1>2
  <2> DEFINE p == First(k)
             q == Append(p, txs[k + 1])
  <2>4. q = [i \in 1 .. (k + 1) |-> q[i]] /\ \A i \in 1 .. (k + 1) : q[i] = txs[i]
    <3> HIDE DEF First, p
    <3>1. p \in Seq(Tx) /\ Len(p) = k /\ \A i \in 1 .. k : p[i] = txs[i]
      BY <2>2 DEF p
    <3> QED BY <2>1, <3>1
  <2>5. First(k + 1) = q
    <3> HIDE DEF First, q
    <3> QED BY <2>3, <2>4
  <2> QED BY <2>1, <2>2, <2>5
<1>3. ASSUME NEW k \in Nat, k + 1 <= n
      PROVE  /\ txs[k + 1] \notin Bad
             /\ Info[txs[k + 1]].nonce = Run(s, First(k))[Info[txs[k + 1]].from]
  <2> DEFINE j == k + 1
  <2>1. j \in 1 .. n /\ j - 1 = k
    BY <1>1, <1>3
  <2> HIDE DEF j
  <2>2. /\ txs[j] \notin Bad
        /\ Info[txs[j]].nonce = Run(s, First(j - 1))[Info[txs[j]].from]
    BY <2>1 DEF Valid
  <2>3. /\ txs[j] \notin Bad
        /\ Info[txs[j]].nonce = Run(s, First(k))[Info[txs[j]].from]
    BY <2>1, <2>2, Zenon
  <2> QED BY <2>3 DEF j
<1> HIDE DEF First
<1>4. 0 \in K
  <2>1. Run(s, First(0)) = s
    BY <1>1, RunSteps
  <2>2. Beyond(s, txs, 0, s)
    BY DEF Beyond, AccountSeqs
  <2> QED BY <2>1, <2>2
<1>5. ASSUME NEW k \in Nat, k \in K PROVE k + 1 \in K
  <2> SUFFICES ASSUME k + 1 <= n PROVE Beyond(s, txs, k + 1, Run(s, First(k + 1)))
    OBVIOUS
  <2>1. Beyond(s, txs, k, Run(s, First(k)))
    BY <1>1, <1>5
  <2>2. Run(s, First(k + 1)) = Executed(Run(s, First(k)), txs[k + 1])
    <3> DEFINE p == First(k)
               t == txs[k + 1]
    <3>1. p \in Seq(Tx) /\ t \in Tx /\ First(k + 1) = Append(p, t)
      BY <1>2
    <3> HIDE DEF p, t
    <3>2. Run(s, Append(p, t)) = Executed(Run(s, p), t)
      BY <3>1, RunSteps
    <3> QED BY <3>1, <3>2 DEF p, t
  <2>3. Beyond(s, txs, k + 1, Executed(Run(s, First(k)), txs[k + 1]))
    BY <1>3, <2>1, BeyondStep
  <2> QED BY <2>2, <2>3
<1>6. Nat \subseteq K
  <2> HIDE DEF K
  <2> QED BY <1>4, <1>5, NatSetInduction
<1>7. Beyond(s, txs, n, Run(s, First(n)))
  BY <1>1, <1>6
<1> QED BY <1>1, <1>7

-----------------------------------------------------------------------------
(* What CheckTx asks of a Cosmos transaction.                              *)

\* The nonces of a's transactions in the mempool.
Nonces(a) == {Info[t].nonce : t \in {u \in pool : Info[u].from = a}}

\* Some nonce that CheckSeq considers is not in the mempool.
LEMMA FreeNonce ==
  ASSUME TypeOK, NEW a \in Account
  PROVE  /\ Cardinality(pool) \in Nat
         /\ \E n \in seq[a] .. (seq[a] + Cardinality(pool)) : n \notin Nonces(a)
<1> DEFINE own == {u \in pool : Info[u].from = a}
           f == [t \in own |-> Info[t].nonce]
           N == Nonces(a)
           top == seq[a] + Cardinality(pool)
<1>1. IsFiniteSet(pool) /\ Cardinality(pool) \in Nat
  BY ProposalAssumption, FS_Subset, FS_CardinalityType DEF TypeOK
<1>2. IsFiniteSet(own) /\ Cardinality(own) <= Cardinality(pool) /\ Cardinality(own) \in Nat
  <2>1. own \in SUBSET pool
    OBVIOUS
  <2> HIDE DEF own
  <2> QED BY <1>1, <2>1, FS_Subset, FS_CardinalityType
<1>3. f \in Surjection(own, N)
  BY DEF Surjection, Nonces
<1>4. IsFiniteSet(N) /\ Cardinality(N) <= Cardinality(own)
  <2> HIDE DEF own, f, N
  <2> QED BY <1>2, <1>3, FS_Surjection
<1>5. seq[a] \in Nat
  BY DEF TypeOK, AccountSeqs
<1>6. top \in Nat /\ seq[a] <= top /\ top - seq[a] = Cardinality(pool)
  BY <1>1, <1>5
<1>7. Cardinality(seq[a] .. top) = top - seq[a] + 1
  <2> HIDE DEF top
  <2> QED BY <1>5, <1>6, FS_Interval
<1>8. ASSUME seq[a] .. top \subseteq N PROVE FALSE
  <2>1. Cardinality(seq[a] .. top) <= Cardinality(N)
    <3> HIDE DEF N, top
    <3> QED BY <1>4, <1>8, FS_Subset
  <2>2. Cardinality(N) \in Nat
    BY <1>4, FS_CardinalityType
  <2> HIDE DEF N, own, top
  <2> QED BY <1>1, <1>2, <1>4, <1>6, <1>7, <2>1, <2>2
<1> QED BY <1>1, <1>8

\* The sequence in the check state: the mempool has all the nonces below it.
LEMMA CheckSeqIs ==
  ASSUME TypeOK, NEW a \in Account
  PROVE  /\ CheckSeq(a) \in Nat
         /\ \A k \in Nat : seq[a] <= k /\ k < CheckSeq(a) =>
              \E t \in pool : Info[t].from = a /\ Info[t].nonce = k
<1> DEFINE top == seq[a] + Cardinality(pool)
           Filled(n) == {k \in seq[a] .. n : \E t \in pool : Info[t].from = a /\ Info[t].nonce = k}
           free == {n \in seq[a] .. top : n \notin Nonces(a)}
<1>1. Cardinality(pool) \in Nat /\ free # {}
  BY FreeNonce
<1>2. seq[a] \in Nat
  BY DEF TypeOK, AccountSeqs
<1>3. free \subseteq Nat
  BY <1>1, <1>2
<1>4. PICK n \in free : \A m \in free : n <= m
  <2> HIDE DEF free
  <2> QED BY <1>1, <1>3, LeastNat
<1>5. \A k \in Nat : k \in Nonces(a) <=> \E t \in pool : Info[t].from = a /\ Info[t].nonce = k
  BY DEF Nonces
<1>6. n \in seq[a] .. top /\ n \in Nat
  BY <1>3
<1>7. Filled(n) = seq[a] .. (n - 1)
  <2>1. ASSUME NEW k \in seq[a] .. n, k \in Nonces(a) PROVE k \in seq[a] .. (n - 1)
    <3>1. k # n
      BY <2>1
    <3> QED BY <1>2, <1>6, <3>1
  <2>2. ASSUME NEW k \in seq[a] .. (n - 1) PROVE k \in seq[a] .. n /\ k \in Nonces(a)
    <3>1. k \in seq[a] .. top /\ k \in seq[a] .. n /\ ~ (n <= k)
      BY <1>1, <1>2, <1>6
    <3>2. k \notin free
      <4> HIDE DEF free
      <4> QED BY <1>4, <3>1
    <3> QED BY <3>1, <3>2
  <2>3. \A k \in seq[a] .. n : k \in Nat
    BY <1>2, <1>6
  <2>4. \A k \in seq[a] .. (n - 1) : k \in Nat
    BY <1>2, <1>6
  <2> QED BY <1>5, <2>1, <2>2, <2>3, <2>4
<1> DEFINE c == CheckSeq(a)
<1>8. c \in seq[a] .. top /\ Filled(c) = seq[a] .. (c - 1)
  <2>1. c = CHOOSE m \in seq[a] .. top : Filled(m) = seq[a] .. (m - 1)
    BY DEF CheckSeq
  <2> HIDE DEF Filled, c, top
  <2> QED BY <1>6, <1>7, <2>1
<1> HIDE DEF c
<1>9. c \in Nat
  BY <1>1, <1>2, <1>8
<1>10. ASSUME NEW k \in Nat, seq[a] <= k, k < c
       PROVE  \E t \in pool : Info[t].from = a /\ Info[t].nonce = k
  <2>1. k \in seq[a] .. (c - 1)
    BY <1>2, <1>9, <1>10
  <2> QED BY <1>8, <2>1
<1> QED BY <1>9, <1>10 DEF c

-----------------------------------------------------------------------------
(* The invariant is kept.                                                  *)

\* What a step may take out of the mempool.
PoolStep == \A t \in pool : t \in pool' \/ Gone(seq', t)

\* Predecessors stay accounted for while the accounts move on and Cosmos
\* transactions leave for good reason only.
LEMMA RootedMoves ==
  ASSUME Orderly, NEW s \in AccountSeqs, NEW r \in AccountSeqs, \A a \in Account : s[a] <= r[a],
         NEW S \in SUBSET Tx, NEW T \in SUBSET Tx, Rooted(s, S, T),
         NEW S2 \in SUBSET S, NEW T2, \A u \in T : ~IsEVM(u) => u \in T2 \/ Gone(r, u)
  PROVE  Rooted(r, S2, T2)
<1> SUFFICES ASSUME NEW t \in S2, ~IsEVM(t) PROVE Chained(t) /\ Covered(r, T2, t)
  BY DEF Rooted
<1>1. t \in Tx /\ Chained(t) /\ Covered(s, T, t)
  BY DEF Rooted
<1>2. ASSUME NEW u \in Tx, Info[u].from = Info[t].from, Info[u].nonce < Info[t].nonce
      PROVE  u \in T2 \/ Gone(r, u)
  <2>1. u \in T \/ Gone(s, u)
    BY <1>1, <1>2 DEF Covered
  <2>2. CASE u \in T
    <3>1. ~IsEVM(u)
      BY <1>1, <1>2 DEF Orderly, IsEVM
    <3> QED BY <2>2, <3>1
  <2>3. CASE Gone(s, u)
    <3>1. Info[u].from \in Account /\ Info[u].nonce \in Nat
      BY ProposalAssumption
    <3>2. s[Info[u].from] \in Nat /\ r[Info[u].from] \in Nat /\ s[Info[u].from] <= r[Info[u].from]
      BY <3>1 DEF AccountSeqs
    <3> QED BY <2>3, <3>1, <3>2 DEF Gone
  <2> QED BY <2>1, <2>2, <2>3
<1>3. Covered(r, T2, t)
  BY <1>2 DEF Covered
<1> QED BY <1>1, <1>3

\* A step that leaves the accounts and the loop alone keeps what is said of them.
LEMMA LoopKeptSame ==
  ASSUME OuterRooted, OuterExamined, InvalidFailing, UNCHANGED <<seq, phase, iterators, loop>>
  PROVE  OuterRooted' /\ OuterExamined' /\ InvalidFailing'
<1>1. /\ seq' = seq /\ phase' = phase /\ cosmosLeft' = cosmosLeft /\ prepSeq' = prepSeq
      /\ picked' = picked /\ invalid' = invalid /\ seen' = seen
  BY DEF iterators, loop
<1>2. OuterRooted'
  BY <1>1 DEF OuterRooted
<1>3. OuterExamined'
  <2>1. phase = "outer" => Examined
    BY DEF OuterExamined
  <2>2. Examined => Examined'
    BY <1>1 DEF Examined
  <2> QED BY <1>1, <2>1, <2>2 DEF OuterExamined
<1>4. InvalidFailing'
  BY <1>1 DEF InvalidFailing
<1> QED BY <1>2, <1>3, <1>4

\* Outside the loop there is nothing to say of it.
LEMMA LoopOver ==
  ASSUME phase' # "outer"
  PROVE  /\ OuterRooted' /\ OuterExamined'
         /\ phase' # "clean" => InvalidFailing'
BY DEF OuterRooted, OuterExamined, InvalidFailing

\* A Cosmos transaction that CheckTx admits has its predecessors.
LEMMA AdmittedRooted ==
  ASSUME Orderly, TypeOK, Grounded(seq), NEW t \in Tx, Admitted(t), ~IsEVM(t)
  PROVE  Chained(t) /\ Covered(seq, pool, t)
<1> DEFINE a == Info[t].from
<1>1. a \in Account /\ Info[t].nonce \in Nat /\ CheckSeq(a) = Info[t].nonce
  BY ProposalAssumption DEF Admitted
<1>2. \A k \in Nat : seq[a] <= k /\ k < Info[t].nonce =>
        \E u \in pool : Info[u].from = a /\ Info[u].nonce = k
  BY <1>1, CheckSeqIs
<1>3. seq[a] \in Nat /\ pool \subseteq Tx
  BY <1>1 DEF TypeOK, AccountSeqs
<1>4. Chained(t)
  <2> SUFFICES ASSUME NEW n \in Nat, n < Info[t].nonce
               PROVE  \E u \in Tx : Info[u].from = a /\ Info[u].nonce = n
    BY DEF Chained
  <2>1. CASE n < seq[a]
    BY <1>1, <2>1 DEF Grounded
  <2>2. CASE ~ (n < seq[a])
    BY <1>2, <1>3, <2>2
  <2> QED BY <2>1, <2>2
<1>5. Covered(seq, pool, t)
  <2> SUFFICES ASSUME NEW u \in Tx, Info[u].from = a, Info[u].nonce < Info[t].nonce
               PROVE  u \in pool \/ Gone(seq, u)
    BY DEF Covered
  <2>1. Info[u].nonce \in Nat
    BY ProposalAssumption
  <2>2. CASE Info[u].nonce < seq[a]
    BY <2>2 DEF Gone
  <2>3. CASE ~ (Info[u].nonce < seq[a])
    <3>1. PICK v \in pool : Info[v].from = a /\ Info[v].nonce = Info[u].nonce
      BY <1>2, <1>3, <2>1, <2>3
    <3>2. v = u
      BY <1>3, <3>1 DEF Orderly
    <3> QED BY <3>1, <3>2
  <2> QED BY <2>2, <2>3
<1> QED BY <1>4, <1>5

\* CheckTx and Insert.
LEMMA InsertKept ==
  ASSUME Orderly, TypeOK, KeptInv, NEW t \in Tx, Insert(t)
  PROVE  KeptInv' /\ PoolStep
<1>1. /\ Admitted(t) /\ pool' = pool \cup {t} /\ seq' = seq /\ latestSeq' = latestSeq
      /\ phase' = phase /\ UNCHANGED <<seq, phase, iterators, loop>>
  BY DEF Insert
<1>2. /\ phase # "inner" /\ Grounded(seq) /\ LatestBehind /\ Rooted(seq, pool, pool)
      /\ OuterRooted /\ OuterExamined /\ InvalidFailing
  BY DEF KeptInv
<1>3. pool \in SUBSET Tx /\ seq \in AccountSeqs /\ \A a \in Account : seq[a] <= seq[a]
  BY DEF TypeOK, AccountSeqs
<1>4. Rooted(seq, pool, pool')
  BY <1>1, <1>2, <1>3, RootedMoves
<1>5. ~IsEVM(t) => Chained(t) /\ Covered(seq, pool', t)
  <2>1. Covered(seq, pool, t) => Covered(seq, pool', t)
    BY <1>1 DEF Covered
  <2> QED BY <1>1, <1>2, <2>1, AdmittedRooted
<1>6. Rooted(seq, pool', pool')
  <2>1. \A u \in pool' : u \in pool \/ u = t
    BY <1>1
  <2> QED BY <1>4, <1>5, <2>1 DEF Rooted
<1>7. OuterRooted' /\ OuterExamined' /\ InvalidFailing'
  BY <1>1, <1>2, LoopKeptSame
<1>8. LatestBehind'
  BY <1>1, <1>2 DEF LatestBehind
<1>9. KeptInv'
  BY <1>1, <1>2, <1>6, <1>7, <1>8 DEF KeptInv
<1>10. PoolStep
  BY <1>1 DEF PoolStep
<1> QED BY <1>9, <1>10

\* Any step that leaves the accounts and the loop alone, lets the mempool's view
\* of the accounts stay behind them and takes only used EVM transactions.
LEMMA PoolMovesKept ==
  ASSUME Orderly, TypeOK, KeptInv, UNCHANGED <<seq, phase, iterators, loop>>,
         LatestBehind', pool' \subseteq pool,
         \A t \in pool : t \notin pool' => IsEVM(t) /\ Gone(seq, t)
  PROVE  KeptInv' /\ PoolStep
<1>1. seq' = seq /\ phase' = phase
  OBVIOUS
<1>2. /\ phase # "inner" /\ Grounded(seq) /\ LatestBehind /\ Rooted(seq, pool, pool)
      /\ OuterRooted /\ OuterExamined /\ InvalidFailing
  BY DEF KeptInv
<1>3. pool \in SUBSET Tx /\ seq \in AccountSeqs /\ \A a \in Account : seq[a] <= seq[a]
  BY DEF TypeOK, AccountSeqs
<1>4. Rooted(seq, pool', pool')
  BY <1>2, <1>3, RootedMoves
<1>5. OuterRooted' /\ OuterExamined' /\ InvalidFailing'
  BY <1>2, LoopKeptSame
<1>6. KeptInv'
  BY <1>1, <1>2, <1>4, <1>5 DEF KeptInv
<1>7. PoolStep
  BY <1>1 DEF PoolStep
<1> QED BY <1>6, <1>7

-----------------------------------------------------------------------------
(* The turns of the loop.                                                  *)

\* What the turn examines is on one of the iterators, has not been examined,
\* and is its signer's first if it comes from the Cosmos lane.
LEMMA TurnFacts ==
  ASSUME TypeOK, LoopInv, Turn
  PROVE  /\ Current \in Tx /\ Current \notin seen /\ seen' = seen \cup {Current}
         /\ ~IsEVM(Current) => Current \in Heads(cosmosLeft)
<1>1. HasTx /\ Looping /\ seen' = seen \cup {Current}
  BY DEF Turn
<1>2. /\ Current \in Tx /\ (ReturnsEVM => Current \in evmLeft)
      /\ (~ReturnsEVM => Current \in cosmosLeft)
  BY <1>1, CurrentIn
<1>3. seen \cap (evmLeft \cup cosmosLeft) = {} /\ \A t \in evmLeft : IsEVM(t)
  BY <1>1 DEF LoopInv, Unseen, Lanes
<1>4. ASSUME ~ReturnsEVM PROVE Current \in Heads(cosmosLeft)
  <2>1. cosmosLeft # {} /\ Current = Best(cosmosLeft) /\ cosmosLeft \in SUBSET Tx
    BY <1>1, <1>4 DEF HasTx, Current, TypeOK
  <2> QED BY <2>1, BestIn
<1> DEFINE c == Current
<1> HIDE DEF c
<1>5. /\ c \in Tx /\ c \notin seen /\ (~IsEVM(c) => ~ReturnsEVM)
  BY <1>2, <1>3 DEF c
<1> QED BY <1>1, <1>4, <1>5 DEF c

\* Predecessors that were on the iterator are still there or were examined.
LEMMA TurnRooted ==
  ASSUME Orderly, TypeOK, Rooted(seq, cosmosLeft, cosmosLeft \cup seen),
         seq' = seq, seen' = seen \cup {Current}, Advance \/ Pop
  PROVE  Rooted(seq', cosmosLeft', cosmosLeft' \cup seen')
<1> DEFINE c == Current
           T == cosmosLeft \cup seen
<1>1. cosmosLeft' = cosmosLeft \/ cosmosLeft' = cosmosLeft \ {c}
  BY DEF Advance, Pop
<1>2. seen' = seen \cup {c}
  OBVIOUS
<1> HIDE DEF c
<1>3. cosmosLeft' \in SUBSET cosmosLeft /\ \A u \in T : u \in cosmosLeft' \cup seen'
  BY <1>1, <1>2
<1>4. /\ cosmosLeft \in SUBSET Tx /\ T \in SUBSET Tx /\ seq \in AccountSeqs
      /\ \A a \in Account : seq[a] <= seq[a]
  BY DEF TypeOK, AccountSeqs
<1>5. Rooted(seq, cosmosLeft, T)
  OBVIOUS
<1> HIDE DEF T
<1>6. Rooted(seq, cosmosLeft', cosmosLeft' \cup seen')
  BY <1>3, <1>4, <1>5, RootedMoves
<1> QED BY <1>6

\* A Cosmos transaction that is first on the iterator, ahead of its signer and
\* whose signer has had nothing verified follows a refused one.
LEMMA HeadDoomed ==
  ASSUME Orderly, TypeOK, Examined, Rooted(seq, cosmosLeft, cosmosLeft \cup seen),
         NEW t \in Heads(cosmosLeft), ~IsEVM(t),
         picked[Info[t].from] = NoEntry, seq[Info[t].from] < Info[t].nonce
  PROVE  Doomed(t)
<1> DEFINE a == Info[t].from
<1>1. /\ t \in Tx /\ t \in cosmosLeft
      /\ \A u \in cosmosLeft : Info[u].from = a => Info[t].nonce <= Info[u].nonce
  BY DEF Heads, TypeOK
<1>2. a \in Account /\ Info[t].nonce \in Nat
  BY <1>1, ProposalAssumption
<1>3. seq[a] \in Nat
  BY <1>2 DEF TypeOK, AccountSeqs
<1>4. Chained(t) /\ Covered(seq, cosmosLeft \cup seen, t)
  BY <1>1 DEF Rooted
<1>5. PICK u \in Tx : Info[u].from = a /\ Info[u].nonce = seq[a]
  BY <1>3, <1>4 DEF Chained
<1>6. u \in cosmosLeft \/ u \in seen \/ Gone(seq, u)
  BY <1>4, <1>5 DEF Covered
<1>7. u \notin cosmosLeft
  BY <1>1, <1>2, <1>3, <1>5
<1>8. CASE u \in seen
  <2>1. u \in Bad
    BY <1>5, <1>8 DEF Examined
  <2> QED BY <1>2, <1>3, <1>5, <2>1 DEF Doomed
<1>9. CASE Gone(seq, u)
  <2>1. Doomed(u)
    BY <1>3, <1>5, <1>9 DEF Gone
  <2>2. PICK w \in Bad : Info[w].from = Info[u].from /\ Info[w].nonce <= Info[u].nonce
    BY <2>1 DEF Doomed
  <2>3. Info[w].nonce \in Nat
    BY ProposalAssumption
  <2>4. Info[w].from = Info[t].from /\ Info[w].nonce <= Info[t].nonce
    BY <1>2, <1>3, <1>5, <2>2, <2>3
  <2> QED BY <2>4 DEF Doomed
<1> QED BY <1>6, <1>7, <1>8, <1>9

\* What the loop rejects fails for good.
LEMMA RejectedFails ==
  ASSUME Orderly, TypeOK, Examined, Rooted(seq, cosmosLeft, cosmosLeft \cup seen),
         NEW t \in Tx, t \notin seen, ~IsEVM(t) => t \in Heads(cosmosLeft),
         NextInSequence(t), ~Verifies(t)
  PROVE  Failing(seq, t)
<1> DEFINE a == Info[t].from
           n == Info[t].nonce
<1>1. a \in Account /\ n \in Nat
  BY ProposalAssumption
<1>2. seq[a] \in Nat /\ prepSeq[a] \in Nat /\ seen \subseteq Tx
  BY <1>1 DEF TypeOK, AccountSeqs
<1>3. /\ prepSeq[a] >= seq[a]
      /\ picked[a] = NoEntry => prepSeq[a] = seq[a]
      /\ picked[a] # NoEntry => picked[a] + 1 <= prepSeq[a]
  BY <1>1 DEF Examined
<1>4. picked[a] # NoEntry => n = picked[a] + 1
  BY DEF NextInSequence
<1>5. t \in Bad \/ n # prepSeq[a]
  BY DEF Verifies
<1>6. ~ (seq[a] <= n /\ n < prepSeq[a])
  <2> SUFFICES ASSUME seq[a] <= n, n < prepSeq[a] PROVE FALSE
    OBVIOUS
  <2>1. PICK u \in seen : Info[u].from = a /\ Info[u].nonce = n
    BY <1>1 DEF Examined
  <2>2. u = t
    BY <1>2, <2>1 DEF Orderly
  <2> QED BY <2>1, <2>2
<1>7. CASE t \in Bad \/ n < seq[a]
  BY <1>7 DEF Failing
<1>8. CASE t \notin Bad /\ seq[a] <= n
  <2>1. prepSeq[a] < n
    BY <1>1, <1>2, <1>5, <1>6, <1>8
  <2>2. picked[a] = NoEntry
    <3> SUFFICES ASSUME picked[a] # NoEntry PROVE FALSE
      OBVIOUS
    <3>1. n = picked[a] + 1 /\ picked[a] + 1 <= prepSeq[a]
      BY <1>3, <1>4
    <3> QED BY <1>1, <1>2, <2>1, <3>1
  <2>3. seq[a] < n
    BY <1>3, <2>1, <2>2
  <2>4. ~IsEVM(t) => Doomed(t)
    BY <2>2, <2>3, HeadDoomed
  <2> QED BY <1>1, <1>2, <2>3, <2>4 DEF Failing
<1> QED BY <1>1, <1>2, <1>7, <1>8

\* Examining a transaction that is not verified.
LEMMA ExaminedMore ==
  ASSUME TypeOK, Examined, NEW t \in Tx, seen' = seen \cup {t},
         UNCHANGED <<seq, prepSeq, picked>>, ~NextInSequence(t) \/ ~Verifies(t)
  PROVE  Examined'
<1> DEFINE a == Info[t].from
<1>1. a \in Account
  BY ProposalAssumption
<1>2. picked[a] = NoEntry => t \in Bad \/ Info[t].nonce # seq[a]
  <2>1. picked[a] = NoEntry => prepSeq[a] = seq[a]
    BY <1>1 DEF Examined
  <2> QED BY <2>1 DEF NextInSequence, Verifies
<1>3. seq' = seq /\ prepSeq' = prepSeq /\ picked' = picked
  OBVIOUS
<1>4. \A b \in Account :
        /\ prepSeq[b] >= seq[b]
        /\ picked[b] = NoEntry => prepSeq[b] = seq[b]
        /\ picked[b] # NoEntry => picked[b] + 1 <= prepSeq[b]
        /\ \A n \in Nat : seq[b] <= n /\ n < prepSeq[b] =>
             \E u \in seen' : Info[u].from = b /\ Info[u].nonce = n
  BY DEF Examined
<1>5. \A u \in seen' : picked[Info[u].from] = NoEntry =>
        u \in Bad \/ Info[u].nonce # seq[Info[u].from]
  BY <1>2 DEF Examined
<1> QED BY <1>3, <1>4, <1>5 DEF Examined

\* A transaction that is verified, whether it fits or not.
LEMMA ExaminedVerified ==
  ASSUME TypeOK, Examined, NEW t \in Tx, seen' = seen \cup {t}, NextInSequence(t), Verifies(t),
         NEW fits \in BOOLEAN, seq' = seq, prepSeq' = Bump(prepSeq, Info[t].from),
         picked' = [picked EXCEPT ![Info[t].from] = Recorded(t, fits)]
  PROVE  Examined'
<1> DEFINE a == Info[t].from
           n == Info[t].nonce
<1>1. a \in Account /\ n \in Nat /\ n = prepSeq[a]
  BY ProposalAssumption DEF Verifies
<1>2. \A b \in Account : seq[b] \in Nat /\ prepSeq[b] \in Nat
  BY DEF TypeOK, AccountSeqs
<1>3. /\ prepSeq'[a] = n + 1 /\ picked'[a] = Recorded(t, fits)
      /\ \A b \in Account : b # a => prepSeq'[b] = prepSeq[b] /\ picked'[b] = picked[b]
  BY <1>1 DEF Bump, TypeOK, AccountSeqs
<1>4. prepSeq[a] >= seq[a] /\ (picked[a] # NoEntry => picked[a] + 1 <= prepSeq[a])
  BY <1>1 DEF Examined
<1>5. picked[a] \in {NoEntry} \cup (Nat \cup {-1})
  BY <1>1 DEF TypeOK
<1>6. Recorded(t, fits) # NoEntry /\ Recorded(t, fits) + 1 <= n + 1
  <2>1. CASE fits
    BY <1>1, <2>1 DEF Recorded, NoEntry
  <2>2. CASE ~fits /\ picked[a] = NoEntry
    BY <1>1, <2>2 DEF Recorded, NoEntry
  <2>3. CASE ~fits /\ picked[a] # NoEntry
    <3>1. Recorded(t, fits) = picked[a]
      BY <2>3 DEF Recorded
    <3>2. picked[a] \in Int
      BY <1>5, <2>3
    <3> QED BY <1>1, <1>4, <2>3, <3>1, <3>2
  <2> QED BY <2>1, <2>2, <2>3
<1>7. ASSUME NEW b \in Account
      PROVE  /\ prepSeq'[b] >= seq[b]
             /\ picked'[b] = NoEntry => prepSeq'[b] = seq[b]
             /\ picked'[b] # NoEntry => picked'[b] + 1 <= prepSeq'[b]
             /\ \A m \in Nat : seq[b] <= m /\ m < prepSeq'[b] =>
                  \E u \in seen' : Info[u].from = b /\ Info[u].nonce = m
  <2>1. CASE b = a
    <3>1. prepSeq'[a] >= seq[a]
      BY <1>1, <1>2, <1>3, <1>4
    <3>2. picked'[a] # NoEntry /\ picked'[a] + 1 <= prepSeq'[a]
      BY <1>3, <1>6
    <3>3. ASSUME NEW m \in Nat, seq[a] <= m, m < prepSeq'[a]
          PROVE  \E u \in seen' : Info[u].from = a /\ Info[u].nonce = m
      <4>1. CASE m = n
        BY <4>1
      <4>2. CASE m # n
        <5>1. m < prepSeq[a]
          BY <1>1, <1>3, <3>3, <4>2
        <5> QED BY <1>1, <3>3, <5>1 DEF Examined
      <4> QED BY <4>1, <4>2
    <3> QED BY <2>1, <3>1, <3>2, <3>3
  <2>2. CASE b # a
    BY <1>3, <2>2 DEF Examined
  <2> QED BY <2>1, <2>2
<1>8. ASSUME NEW u \in seen', picked'[Info[u].from] = NoEntry
      PROVE  u \in Bad \/ Info[u].nonce # seq[Info[u].from]
  <2>1. Info[u].from # a
    BY <1>3, <1>6, <1>8
  <2>2. u \in seen /\ u \in Tx /\ Info[u].from \in Account
    BY <2>1, ProposalAssumption DEF TypeOK
  <2>3. picked[Info[u].from] = NoEntry
    BY <1>3, <1>8, <2>1, <2>2
  <2> QED BY <2>2, <2>3 DEF Examined
<1> QED BY <1>7, <1>8 DEF Examined

-----------------------------------------------------------------------------
(* The steps of the handler.                                               *)

\* A step of the handler that leaves the chain and the mempool alone.
LEMMA HandlerKept ==
  ASSUME KeptInv, UNCHANGED chain, phase' # "inner",
         OuterRooted', OuterExamined', InvalidFailing'
  PROVE  KeptInv' /\ PoolStep
<1>1. seq' = seq /\ pool' = pool /\ latestSeq' = latestSeq
  BY DEF chain
<1>2. Grounded(seq)' /\ LatestBehind' /\ Rooted(seq, pool, pool)'
  BY <1>1 DEF KeptInv, LatestBehind
<1>3. KeptInv'
  BY <1>2 DEF KeptInv
<1>4. PoolStep
  BY <1>1 DEF PoolStep
<1> QED BY <1>3, <1>4

\* The loop starts: everything on the Cosmos iterator comes from the mempool.
LEMMA PrepareKept ==
  ASSUME Orderly, TypeOK, KeptInv, PrepareProposal
  PROVE  KeptInv' /\ PoolStep
<1>1. /\ UNCHANGED chain /\ phase' = "outer" /\ prepSeq' = seq /\ StartLoop
  BY DEF PrepareProposal
<1>2. seq' = seq /\ pool' = pool
  BY <1>1 DEF chain
<1>3. /\ cosmosLeft' = {t \in pool : ~IsEVM(t)} /\ invalid' = << >> /\ seen' = {}
      /\ picked' = [a \in Account |-> NoEntry]
  BY <1>1, <1>2 DEF StartLoop
<1>4. pool \in SUBSET Tx /\ seq \in AccountSeqs /\ \A a \in Account : seq[a] \in Nat /\ seq[a] <= seq[a]
  BY DEF TypeOK, AccountSeqs
<1>5. Rooted(seq, cosmosLeft', cosmosLeft' \cup seen')
  <2>1. cosmosLeft' \in SUBSET pool /\ \A u \in pool : ~IsEVM(u) => u \in cosmosLeft' \cup seen'
    BY <1>3
  <2> QED BY <1>4, <2>1, RootedMoves DEF KeptInv
<1>6. OuterRooted'
  BY <1>2, <1>5 DEF OuterRooted
<1>7. Examined'
  BY <1>1, <1>2, <1>3, <1>4 DEF Examined
<1>8. InvalidFailing'
  BY <1>3 DEF InvalidFailing
<1> QED BY <1>1, <1>6, <1>7, <1>8, HandlerKept DEF OuterExamined

\* A transaction out of its signer's sequence is passed over.
LEMMA SkipKept ==
  ASSUME Orderly, TypeOK, LoopInv, KeptInv, Skip
  PROVE  KeptInv' /\ PoolStep
<1>1. /\ Turn /\ ~NextInSequence(Current) /\ Advance /\ phase' = phase
      /\ UNCHANGED chain /\ UNCHANGED <<seq, prepSeq, picked>> /\ invalid' = invalid
  BY DEF Skip, chain
<1>2. phase = "outer" /\ Examined /\ Rooted(seq, cosmosLeft, cosmosLeft \cup seen)
      /\ \A i \in 1 .. Len(invalid) : Failing(seq, invalid[i])
  BY <1>1 DEF KeptInv, OuterExamined, OuterRooted, InvalidFailing, Turn, Looping
<1>3. Current \in Tx /\ seen' = seen \cup {Current}
  BY <1>1, TurnFacts
<1>4. Rooted(seq', cosmosLeft', cosmosLeft' \cup seen')
  BY <1>1, <1>2, <1>3, TurnRooted
<1>5. Examined'
  BY <1>1, <1>2, <1>3, ExaminedMore
<1>6. InvalidFailing'
  BY <1>1, <1>2 DEF InvalidFailing
<1> QED BY <1>1, <1>2, <1>4, <1>5, <1>6, HandlerKept DEF OuterExamined, OuterRooted

\* A transaction that fails verification is noted for removal.
LEMMA RejectKept ==
  ASSUME Orderly, TypeOK, LoopInv, KeptInv, Reject
  PROVE  KeptInv' /\ PoolStep
<1> DEFINE c == Current
<1>1. /\ Turn /\ NextInSequence(c) /\ ~Verifies(c) /\ (Advance \/ Pop) /\ phase' = phase
      /\ UNCHANGED chain /\ UNCHANGED <<seq, prepSeq, picked>>
      /\ invalid' = invalid \/ invalid' = Append(invalid, c)
  BY DEF Reject, chain
<1>2. phase = "outer" /\ Examined /\ Rooted(seq, cosmosLeft, cosmosLeft \cup seen)
      /\ \A i \in 1 .. Len(invalid) : Failing(seq, invalid[i])
  BY <1>1 DEF KeptInv, OuterExamined, OuterRooted, InvalidFailing, Turn, Looping
<1>3. /\ c \in Tx /\ c \notin seen /\ seen' = seen \cup {c}
      /\ ~IsEVM(c) => c \in Heads(cosmosLeft)
  BY <1>1, TurnFacts
<1>4. Rooted(seq', cosmosLeft', cosmosLeft' \cup seen')
  BY <1>1, <1>2, <1>3, TurnRooted
<1> HIDE DEF c
<1>5. Examined'
  BY <1>1, <1>2, <1>3, ExaminedMore
<1>6. Failing(seq, c)
  BY <1>1, <1>2, <1>3, RejectedFails
<1>7. InvalidFailing'
  <2>1. invalid \in Seq(Tx) /\ seq' = seq
    BY <1>1 DEF TypeOK
  <2>2. \A i \in 1 .. Len(invalid') : Failing(seq, invalid'[i])
    <3>1. CASE invalid' = invalid
      BY <1>2, <3>1
    <3>2. CASE invalid' = Append(invalid, c)
      <4> SUFFICES ASSUME NEW i \in 1 .. Len(invalid') PROVE Failing(seq, invalid'[i])
        OBVIOUS
      <4>1. (i \in 1 .. Len(invalid) /\ invalid'[i] = invalid[i]) \/ invalid'[i] = c
        BY <2>1, <3>2
      <4> QED BY <1>2, <1>6, <4>1
    <3> QED BY <1>1, <3>1, <3>2
  <2> QED BY <2>1, <2>2 DEF InvalidFailing
<1> QED BY <1>1, <1>2, <1>4, <1>5, <1>7, HandlerKept DEF OuterExamined, OuterRooted

\* A transaction is verified, and selected if it fits.
LEMMA SelectKept ==
  ASSUME Orderly, TypeOK, LoopInv, KeptInv, SelectTx
  PROVE  KeptInv' /\ PoolStep
<1> DEFINE c == Current
           fits == Bytes(selected) + Info[c].size <= MaxTxBytes
<1>1. /\ Turn /\ NextInSequence(c) /\ Verifies(c) /\ prepSeq' = Bump(prepSeq, Info[c].from)
      /\ UNCHANGED chain /\ seq' = seq /\ invalid' = invalid
      /\ \/ phase' = "clean"
         \/ /\ picked' = [picked EXCEPT ![Info[c].from] = Recorded(c, fits)]
            /\ Advance /\ phase' = phase
  BY DEF SelectTx, chain
<1>2. phase = "outer" /\ Examined /\ Rooted(seq, cosmosLeft, cosmosLeft \cup seen)
      /\ \A i \in 1 .. Len(invalid) : Failing(seq, invalid[i])
  BY <1>1 DEF KeptInv, OuterExamined, OuterRooted, InvalidFailing, Turn, Looping
<1>3. c \in Tx /\ seen' = seen \cup {c}
  BY <1>1, TurnFacts
<1>4. InvalidFailing'
  BY <1>1, <1>2 DEF InvalidFailing
<1>5. CASE phase' = "clean"
  BY <1>1, <1>4, <1>5, LoopOver, HandlerKept
<1>6. CASE /\ picked' = [picked EXCEPT ![Info[c].from] = Recorded(c, fits)]
           /\ Advance /\ phase' = phase
  <2>1. Rooted(seq', cosmosLeft', cosmosLeft' \cup seen')
    BY <1>1, <1>2, <1>3, <1>6, TurnRooted
  <2>2. fits \in BOOLEAN
    OBVIOUS
  <2> HIDE DEF c, fits
  <2>3. Examined'
    BY <1>1, <1>2, <1>3, <1>6, <2>2, ExaminedVerified
  <2> QED BY <1>1, <1>2, <1>4, <1>6, <2>1, <2>3, HandlerKept DEF OuterExamined, OuterRooted
<1> QED BY <1>1, <1>5, <1>6

\* The loop ends with what it has noted.
LEMMA EndLoopKept ==
  ASSUME KeptInv, EndLoop
  PROVE  KeptInv' /\ PoolStep
<1>1. /\ phase = "outer" /\ phase' = "clean" /\ UNCHANGED chain /\ seq' = seq
      /\ invalid' = invalid
  BY DEF EndLoop, KeptInv, Looping, loop, chain
<1>2. InvalidFailing'
  BY <1>1 DEF KeptInv, InvalidFailing
<1> QED BY <1>1, <1>2, LoopOver, HandlerKept

\* The mempool is cleaned of what failed.
LEMMA CleanKept ==
  ASSUME Orderly, TypeOK, KeptInv, Clean
  PROVE  KeptInv' /\ PoolStep
<1>1. phase = "clean" /\ RemoveAll(invalid) /\ phase' = "proposed" /\ seq' = seq
  BY DEF Clean
<1>2. /\ Grounded(seq) /\ LatestBehind /\ Rooted(seq, pool, pool)
      /\ \A k \in 1 .. Len(invalid) : Failing(seq, invalid[k])
  BY <1>1 DEF KeptInv, InvalidFailing
<1>3. /\ invalid \in Seq(Tx) /\ seq \in AccountSeqs /\ pool \in SUBSET Tx
      /\ \A a \in Account : seq[a] <= seq[a]
  BY DEF TypeOK, AccountSeqs
<1>4. /\ pool' \subseteq pool
      /\ \A a \in Account : latestSeq'[a] <= seq[a]
      /\ \A t \in pool : t \notin pool' => Gone(seq, t)
  BY <1>1, <1>2, <1>3, RemoveAllKeeps DEF LatestBehind
<1>5. Rooted(seq, pool', pool')
  BY <1>2, <1>3, <1>4, RootedMoves
<1>6. OuterRooted' /\ OuterExamined' /\ InvalidFailing'
  BY <1>1, LoopOver
<1>7. KeptInv'
  BY <1>1, <1>2, <1>4, <1>5, <1>6 DEF KeptInv, LatestBehind
<1>8. PoolStep
  BY <1>1, <1>4 DEF PoolStep
<1> QED BY <1>7, <1>8

\* A block is decided: what it executes is used.
LEMMA DecideKept ==
  ASSUME Orderly, TypeOK, KeptInv, Decide
  PROVE  KeptInv' /\ PoolStep
<1> DEFINE r == Run(seq, selected)
<1>1. /\ Accepted(selected) /\ seq' = r /\ RemoveAll(selected) /\ phase' = "idle"
  BY DEF Decide, ForgetProposal, Run
<1>2. Grounded(seq) /\ LatestBehind /\ Rooted(seq, pool, pool)
  BY DEF KeptInv
<1>3. selected \in Seq(Tx) /\ seq \in AccountSeqs /\ pool \in SUBSET Tx /\ latestSeq \in AccountSeqs
  BY DEF TypeOK
<1>4. Beyond(seq, selected, Len(selected), r)
  <2>1. Valid(seq, selected)
    BY <1>1, AcceptedValid
  <2> QED BY <1>2, <1>3, <2>1, RunValid
<1> HIDE DEF r
<1>5. /\ r \in AccountSeqs /\ Grounded(r) /\ \A a \in Account : seq[a] <= r[a]
      /\ \A k \in 1 .. Len(selected) : Failing(r, selected[k])
  BY <1>4 DEF Beyond, Failing
<1>6. \A a \in Account : latestSeq[a] <= r[a]
  BY <1>2, <1>3, <1>5 DEF LatestBehind, AccountSeqs
<1>7. /\ pool' \subseteq pool
      /\ \A a \in Account : latestSeq'[a] <= r[a]
      /\ \A t \in pool : t \notin pool' => Gone(r, t)
  BY <1>1, <1>3, <1>5, <1>6, RemoveAllKeeps
<1>8. Rooted(r, pool', pool')
  BY <1>2, <1>3, <1>5, <1>7, RootedMoves
<1>9. OuterRooted' /\ OuterExamined' /\ InvalidFailing'
  BY <1>1, LoopOver
<1>10. KeptInv'
  BY <1>1, <1>5, <1>7, <1>8, <1>9 DEF KeptInv, LatestBehind
<1>11. PoolStep
  BY <1>1, <1>7 DEF PoolStep
<1> QED BY <1>10, <1>11

\* Every step keeps the invariant and takes from the mempool only what is gone.
LEMMA StepKept ==
  ASSUME Orderly, TypeOK, LoopInv, KeptInv, [Next]_vars
  PROVE  KeptInv' /\ PoolStep
<1>1. ASSUME NEW t \in Tx, Insert(t) PROVE KeptInv' /\ PoolStep
  BY <1>1, InsertKept
<1>2. CASE NotifyNewBlock
  <2>1. /\ UNCHANGED <<seq, phase, iterators, loop>> /\ pool' = pool /\ latestSeq' = seq /\ seq' = seq
    BY <1>2 DEF NotifyNewBlock
  <2>2. LatestBehind'
    BY <2>1 DEF LatestBehind, TypeOK, AccountSeqs
  <2> QED BY <2>1, <2>2, PoolMovesKept
<1>3. CASE ResetPool
  <2>1. /\ UNCHANGED <<seq, phase, iterators, loop>> /\ latestSeq' = latestSeq /\ seq' = seq
        /\ pool' = {t \in pool : IsEVM(t) => latestSeq[Info[t].from] <= Info[t].nonce}
    BY <1>3 DEF ResetPool
  <2>2. LatestBehind'
    BY <2>1 DEF LatestBehind, KeptInv
  <2>3. ASSUME NEW t \in pool, t \notin pool' PROVE IsEVM(t) /\ Gone(seq, t)
    <3>1. IsEVM(t) /\ ~ (latestSeq[Info[t].from] <= Info[t].nonce)
      BY <2>1, <2>3
    <3>2. t \in Tx /\ Info[t].from \in Account /\ Info[t].nonce \in Nat
      BY ProposalAssumption DEF TypeOK
    <3>3. /\ latestSeq[Info[t].from] \in Nat /\ seq[Info[t].from] \in Nat
          /\ latestSeq[Info[t].from] <= seq[Info[t].from]
      BY <3>2 DEF TypeOK, AccountSeqs, KeptInv, LatestBehind
    <3>4. Info[t].nonce < seq[Info[t].from]
      BY <3>1, <3>2, <3>3
    <3> QED BY <3>1, <3>4 DEF Gone
  <2> QED BY <2>1, <2>2, <2>3, PoolMovesKept
<1>4. CASE PrepareProposal
  BY <1>4, PrepareKept
<1>5. CASE Skip
  BY <1>5, SkipKept
<1>6. CASE Reject
  BY <1>6, RejectKept
<1>7. CASE SelectTx
  BY <1>7, SelectKept
<1>8. CASE EndLoop
  BY <1>8, EndLoopKept
<1>9. CASE Panic
  BY <1>9 DEF Panic, Orderly
<1>10. CASE PanicAgain
  BY <1>10 DEF PanicAgain, KeptInv
<1>15. CASE Escape
  BY <1>15 DEF Escape, Fails, KeptInv, Orderly
<1>11. CASE Clean
  BY <1>11, CleanKept
<1>12. CASE Decide
  BY <1>12, DecideKept
<1>13. CASE Lose
  <2>1. UNCHANGED chain /\ phase' = "idle"
    BY <1>13 DEF Lose, ForgetProposal
  <2> QED BY <2>1, LoopOver, HandlerKept
<1>14. CASE UNCHANGED vars
  <2>1. UNCHANGED <<seq, phase, iterators, loop>> /\ UNCHANGED chain
    BY <1>14 DEF vars, chain
  <2>2. phase' # "inner"
    BY <2>1 DEF KeptInv
  <2> QED BY <2>1, <2>2, LoopKeptSame, HandlerKept DEF KeptInv
<1> QED BY <1>1, <1>2, <1>3, <1>4, <1>5, <1>6, <1>7, <1>8, <1>9, <1>10, <1>11, <1>12, <1>13,
           <1>14, <1>15 DEF Next, HandlerStep

\* The initial state satisfies it.
LEMMA InitKept ==
  ASSUME Init
  PROVE  KeptInv
<1>1. /\ phase = "idle" /\ pool = {} /\ seq = [a \in Account |-> 0] /\ latestSeq = seq
  BY DEF Init
<1>2. Grounded(seq) /\ LatestBehind
  BY <1>1 DEF Grounded, LatestBehind
<1> QED BY <1>1, <1>2 DEF KeptInv, Rooted, OuterRooted, OuterExamined, InvalidFailing

\* In an orderly mempool neither the cleaning after a proposal, nor the removal
\* of a block's transactions, nor the EVM pool's reset takes an executable
\* transaction that no block has used: a stale view of the accounts, the cascade
\* skip, full blocks and both caps included.
THEOREM HealthyStay ==
  ASSUME Orderly
  PROVE  Spec => HealthyKept
<1> DEFINE Keeps == \A t \in pool : Sound(t) /\ Executable(t) => t \in pool' \/ Used(t)'
<1>1. IndInv /\ KeptInv /\ [Next]_vars => KeptInv'
  BY StepKept DEF IndInv
<1>2. IndInv /\ KeptInv /\ [Next]_vars => Keeps
  <2> SUFFICES ASSUME IndInv, KeptInv, [Next]_vars, NEW t \in pool, Executable(t)
               PROVE  t \in pool' \/ Used(t)'
    OBVIOUS
  <2>1. t \in pool' \/ Gone(seq', t)
    BY StepKept DEF IndInv, PoolStep
  <2>2. ~Doomed(t)
    BY DoomedStuck DEF IndInv, KeptInv
  <2> QED BY <2>1, <2>2 DEF Gone, Used
<1>3. Init => KeptInv
  BY InitKept
<1> QED BY <1>1, <1>2, <1>3, Invariance, PTL DEF Spec, HealthyKept
=============================================================================
