----------------------------- MODULE Admission -----------------------------
(***************************************************************************)
(* How an EVM transaction gets into a node: CometBFT's mempool asks the    *)
(* application (CheckTx), the ante handler applies the per-wallet cap and  *)
(* compares the nonce with the check state, the EVM pool keeps the         *)
(* transaction, CometBFT appends it to its own list, and after every block *)
(* asks again about each one it still holds (recheck).  A delivered and a  *)
(* refused transaction are offered to mempool.Remove, which runs the ante  *)
(* handler on the shared latest context and so moves the nonces there; the *)
(* block event replaces that context, and the pool reads it later still.   *)
(* The pool is reduced to the set of what it holds (its lists are in       *)
(* LegacyPool) and PrepareProposal to its outcome (it is in Proposal).     *)
(***************************************************************************)
EXTENDS Integers, FiniteSets, Sequences, SequencesExt

CONSTANTS
  Wallet,
  Tx,         \* bound: the transactions sent; their prices are a bump apart
  MaxPending, \* the cap
  MaxLag      \* bound: block events on their way

ASSUME AdmissionAssumption ==
  /\ Tx \subseteq [w : Wallet, n : Nat, p : Nat]
  /\ MaxPending \in Nat \ {0} /\ MaxLag \in Nat \ {0}

VARIABLES
  chain,      \* committed nonces
  check,      \* nonces in the check state
  latest,     \* nonces in Blockchain.latestCtx
  poolSeq,    \* nonces in the state the pool was last reset to
  read,       \* wallets whose nonce that state has loaded: it caches them
  resetting,  \* the latest context was replaced, the pool still has the old one
  pool,       \* what the EVM pool holds
  checking,   \* admitted by CheckTx, not yet in CometBFT's mempool
  comet,      \* CometBFT's mempool
  recheck,    \* what CometBFT still has to recheck
  events,     \* block events that have not reached the mempool
  evicted,    \* history: the wallets of which the pool gave up a transaction
  lost,       \* history: the wallets of which it dropped an unmined one as mined
  late        \* history: a block came before the one before it had reached the pool

nonces == <<chain, check>>
views == <<latest, poolSeq, read, resetting>>
lists == <<checking, comet, recheck>>
vars == <<nonces, views, pool, lists, events, evicted, lost, late>>

Of(w) == {t \in pool : t.w = w}
SameSlot(t) == {s \in pool : s.w = t.w /\ s.n = t.n}
Pooled(w, n) == \E t \in pool : t.w = w /\ t.n = n
Bump(seqs, w) == [seqs EXCEPT ![w] = @ + 1]

\* What leaves the pool in this step and no block has used.
Losing == lost' = lost \cup {t.w : t \in {s \in pool \ pool' : s.n >= chain'[s.w]}}

-----------------------------------------------------------------------------
(* The answer to CheckTx.                                                  *)

CapOffByOne(w) == Cardinality(Of(w)) > MaxPending

\* MaxPendingTxPerWalletDecorator: pending and queued transactions of the
\* sender, on a recheck the rechecked one included
AtCap(w) == Cardinality(Of(w)) >= MaxPending

PoolTakesAhead(t) == t \notin pool /\ t.n > poolSeq[t.w] /\ \A s \in SameSlot(t) : t.p > s.p

\* legacypool.Add
PoolTakes(t) == t \notin pool /\ t.n >= poolSeq[t.w] /\ \A s \in SameSlot(t) : t.p > s.p
PoolWith(t) == (pool \ SameSlot(t)) \cup {t}

\* The ante handler: the cap, then the nonce in the check state
Passes(t) == ~AtCap(t.w) /\ t.n = check[t.w]

\* A nonce that does not match is handed to the pool (InsertInvalidNonce) and
\* still answered with the nonce error.
Offered(t) == ~AtCap(t.w)
Admits(t) == Passes(t) /\ PoolTakes(t)

\* IsOrphanEVMTx: the EVM pool no longer holds it
Orphan(t) == t \notin pool

-----------------------------------------------------------------------------
Zero == [w \in Wallet |-> 0]

Init ==
  /\ chain = Zero /\ check = Zero /\ latest = Zero /\ poolSeq = Zero
  /\ read = {} /\ resetting = FALSE /\ pool = {}
  /\ checking = {} /\ comet = <<>> /\ recheck = <<>> /\ events = 0
  /\ evicted = {} /\ lost = {} /\ late = FALSE

\* CheckTx of a transaction CometBFT does not hold.  The check state moves on
\* as soon as the ante handler passes, also if the pool then refuses it; the
\* pool answers before its own run, which may give the transaction up again.
Submit(t) ==
  /\ recheck = <<>> /\ t \notin checking \cup Range(comet)
  /\ pool' = IF Offered(t) /\ PoolTakes(t) THEN PoolWith(t) ELSE pool
  /\ read' = IF Offered(t) /\ t \notin pool THEN read \cup {t.w} ELSE read
  /\ check' = IF Passes(t) THEN Bump(check, t.w) ELSE check
  /\ checking' = IF Admits(t) THEN checking \cup {t} ELSE checking
  /\ UNCHANGED <<chain, latest, poolSeq, resetting, comet, recheck, events, evicted, lost,
                 late>>

\* CometBFT has the answer and appends the transaction; several callers wait for
\* theirs at a time.
Answer ==
  /\ \E t \in checking : checking' = checking \ {t} /\ comet' = Append(comet, t)
  /\ UNCHANGED <<nonces, views, pool, recheck, events, evicted, lost, late>>

\* mempool.Remove asks the ante handler, without the cap, on the latest context
\* itself: what passes there stays in the pool and moves the context on, so does
\* stay what is ahead.  The pool's own state is that context until the next
\* block event, but for the wallets it has loaded.
RemoveTx(t) ==
  LET passes == t.n = latest[t.w]
  IN  /\ latest' = IF passes THEN Bump(latest, t.w) ELSE latest
      /\ poolSeq' = IF passes /\ ~resetting /\ t.w \notin read THEN Bump(poolSeq, t.w)
                    ELSE poolSeq
      /\ pool' = IF t.n < latest[t.w] THEN pool \ {t} ELSE pool
      /\ Losing

\* A block: the check state restarts from the committed one and CometBFT
\* rechecks what the block leaves of its mempool.
Block(rest) ==
  /\ recheck = <<>> /\ checking = {} /\ events < MaxLag
  /\ check' = chain'
  /\ recheck' = rest
  /\ comet' = <<>>
  /\ events' = events + 1
  /\ late' = (late \/ events > 0 \/ resetting)
  /\ UNCHANGED <<checking, read, resetting, evicted>>

\* A block with the next transaction of a wallet, which FinalizeBlock removes.
Commit(t) ==
  /\ t.n = chain[t.w]
  /\ chain' = Bump(chain, t.w)
  /\ RemoveTx(t)
  /\ Block(RemoveFirst(comet, t))

\* Pending: the pool has everything from its own nonce up to t.
Pending(t) == t \in pool /\ \A n \in poolSeq[t.w]..t.n : Pooled(t.w, n)

\* Proposed from the pool, by this node or by one that holds the same, or
\* from a pool that holds another transaction
Propose(w) == \E t \in Of(w) : Pending(t) /\ Commit(t)
Foreign(w) == \E t \in Tx \ pool : t.w = w /\ Commit(t)
EmptyBlock == UNCHANGED <<chain, latest, poolSeq, pool, lost>> /\ Block(comet)

RecheckUnaware ==
  /\ recheck # <<>>
  /\ LET t == Head(recheck)
     IN  /\ comet' = IF Passes(t) THEN Append(comet, t) ELSE comet
         /\ check' = IF Passes(t) THEN Bump(check, t.w) ELSE check
  /\ recheck' = Tail(recheck)
  /\ UNCHANGED <<chain, views, pool, checking, events, evicted, lost, late>>

\* CheckTx of the next transaction CometBFT rechecks: orphans are dropped, a
\* refused one is offered to mempool.Remove, and CometBFT forgets it.
Recheck ==
  /\ recheck # <<>>
  /\ recheck' = Tail(recheck)
  /\ UNCHANGED <<chain, read, resetting, checking, events, evicted, late>>
  /\ LET t == Head(recheck)
     IN  \/ /\ Orphan(t)
            /\ UNCHANGED <<comet, check, latest, poolSeq, pool, lost>>
         \/ /\ ~Orphan(t) /\ Passes(t)
            /\ comet' = Append(comet, t)
            /\ check' = Bump(check, t.w)
            /\ UNCHANGED <<latest, poolSeq, pool, lost>>
         \/ /\ ~Orphan(t) /\ ~Passes(t)
            /\ UNCHANGED <<comet, check>>
            /\ RemoveTx(t)

NotifyStale ==
  /\ events > IF recheck = <<>> THEN 0 ELSE 1
  /\ events' = events - 1
  /\ resetting' = TRUE
  /\ UNCHANGED <<nonces, latest, poolSeq, read, pool, lists, evicted, lost, late>>

\* NotifyNewBlock.  The event of a block is sent when its recheck is over, and
\* the context is that of the last block whatever event it is.
Notify ==
  /\ events > IF recheck = <<>> THEN 0 ELSE 1
  /\ events' = events - 1
  /\ latest' = chain
  /\ resetting' = TRUE
  /\ UNCHANGED <<nonces, poolSeq, read, pool, lists, evicted, lost, late>>

ResetSameNonces ==
  /\ resetting
  /\ resetting' = FALSE
  /\ pool' = {t \in pool : t.n >= latest[t.w]}
  /\ UNCHANGED <<nonces, latest, poolSeq, read, lists, events, evicted, late>>
  /\ Losing

\* The pool's reset reads the latest context, for the wallets it holds something
\* of.  What it promotes is broadcast with a client context that has no node
\* yet: that fails and CometBFT learns nothing.
Reset ==
  /\ resetting
  /\ resetting' = FALSE
  /\ poolSeq' = latest
  /\ read' = {t.w : t \in pool}
  /\ pool' = {t \in pool : t.n >= latest[t.w]}
  /\ UNCHANGED <<nonces, latest, lists, events, evicted, late>>
  /\ Losing

\* The pool gives up a transaction: lifetime, truncation, balance.
Evict ==
  /\ \E t \in pool : pool' = pool \ {t} /\ evicted' = evicted \cup {t.w}
  /\ UNCHANGED <<nonces, views, lists, events, lost, late>>

AnyBlock == EmptyBlock \/ \E w \in Wallet : Propose(w) \/ Foreign(w)

Next ==
  \/ \E t \in Tx : Submit(t)
  \/ Answer \/ AnyBlock \/ Recheck \/ Notify \/ Reset \/ Evict

Safety == Init /\ [][Next]_vars

\* The goroutines of CometBFT, of the event bus and of the pool run; blocks keep
\* coming, and do not pass over what a wallet has pending for ever.
Fairness ==
  /\ WF_vars(Answer) /\ WF_vars(Recheck) /\ WF_vars(Notify) /\ WF_vars(Reset)
  /\ SF_vars(AnyBlock)
  /\ \A w \in Wallet : SF_vars(Propose(w))

Spec == Safety /\ Fairness

-----------------------------------------------------------------------------
\* No wallet ever holds more than MaxPending slots of the pool, through any mix
\* of gapped, replacing and admitted transactions, recheck and block events
\* that lag behind the chain.
CapHolds == \A w \in Wallet : Cardinality(Of(w)) <= MaxPending

\* The check state never runs ahead of the pool: as long as the pool gave up
\* none of the wallet's transactions, every nonce between the committed one and
\* the one CheckTx would accept next is pooled, so what CheckTx admits is
\* executable once its predecessors are mined.
NoHoleBelowCheck ==
  \A w \in Wallet \ (evicted \cup lost) : \A n \in chain[w]..check[w]-1 : Pooled(w, n)

\* mempool.Remove moves the latest context past what is committed; neither a
\* later Remove nor the pool's reset takes that for the committed nonce and
\* drops an unmined transaction, unless a block is executed before the event of
\* the one before it has reached the pool.
OnlyLateLoses == lost # {} => late

\* What the pool gave up while CometBFT holds it, in between CheckTx and the
\* append too, leaves CometBFT's mempool with the rechecks, or comes back.
Held == Range(comet) \cup Range(recheck)
OrphansLeave ==
  \A t \in Tx : (t \in Held /\ t \notin pool) ~> (t \notin Held \/ t \in pool)

\* Every transaction CometBFT holds gets mined, or one that replaced it, unless
\* the pool gives up one of the wallet's: although the recheck at the cap makes
\* CometBFT drop them all, blocks are built from the pool.
AdmittedMined ==
  \A t \in Tx : t \in Range(comet) ~> (chain[t.w] > t.n \/ t.w \in evicted \cup lost)
=============================================================================
