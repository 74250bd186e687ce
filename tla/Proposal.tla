------------------------------ MODULE Proposal ------------------------------
(***************************************************************************)
(* Building a block: STOCProposalHandler walks the iterator that merges    *)
(* the EVM pool and the Cosmos pool by fee, verifies each transaction      *)
(* against the proposal's own state, selects what fits, and cleans the     *)
(* mempool of what failed.  The block, when it is decided, moves the       *)
(* accounts' sequences; the mempool's view of them follows later, when the *)
(* event bus delivers the new header and the EVM pool resets itself.       *)
(*                                                                         *)
(* A transaction has one signer and is not unordered.                      *)
(***************************************************************************)
EXTENDS Integers, Sequences, SequencesExt, FiniteSets

CONSTANTS
  Tx, Account,
  Info,          \* of each transaction: its lane, signer, nonce, tip and size
  Bad,           \* those the ante handler refuses for a reason of their own
  Opaque,        \* EVM transactions convertEVMToSDKTx cannot convert
  Poison,        \* those on which the handler panics or cannot read the signers
  MaxTxBytes,    \* req.MaxTxBytes
  MaxInvalid,    \* maxInvalidTxsPerBlock, 1024 in the code
  MaxIterations  \* maxIterations, 8192 in the code

ASSUME ProposalAssumption ==
  /\ IsFiniteSet(Tx)
  /\ Info \in [Tx -> [lane : {"evm", "cosmos"}, from : Account, nonce : Nat,
                      tip : Nat, size : Nat \ {0}]]
  /\ Bad \subseteq Tx /\ Opaque \subseteq Tx /\ Poison \subseteq Tx
  /\ MaxTxBytes \in Nat /\ MaxInvalid \in Nat /\ MaxIterations \in Nat

VARIABLES
  seq,          \* committed state: the sequence of each account
  waiting,      \* transactions nobody has sent yet
  pool,         \* the mempool's transactions, of both lanes
  latestSeq,    \* sequences in Blockchain.latestCtx
  poolSeq,      \* sequences at the EVM pool's last reset
  notify,       \* a header the event bus has not delivered
  reset,        \* a chain head the EVM pool has not seen
  phase,        \* "idle", "outer" or "inner" (the two handlers' loops), "clean", "proposed"
  evmLeft, cosmosLeft, \* what the iterators still hold
  prepSeq,      \* prepareState: sequences after the verified transactions
  picked,       \* selectedTxsSignersSeqs
  selected, invalid, \* the proposal, and what failed verification
  iterCount,
  seen          \* transactions this loop has examined

chain == <<seq, waiting, pool, latestSeq, poolSeq, notify, reset>>
iterators == <<evmLeft, cosmosLeft>>
loop == <<prepSeq, picked, selected, invalid, iterCount, seen>>
vars == <<chain, phase, iterators, loop>>

IsEVM(t) == Info[t].lane = "evm"
Looping == phase \in {"outer", "inner"}
Bump(s, a) == [s EXCEPT ![a] = @ + 1]
NoEntry == -2

\* A block has had a transaction of this signer and nonce.
Used(t) == Info[t].nonce < seq[Info[t].from]

-----------------------------------------------------------------------------
(* The iterators.                                                          *)

\* TransactionsByPriceAndNonce and the Cosmos pool's iterator: each signer's
\* lowest nonce, and of these the best tip.
Heads(S) == {t \in S : \A u \in S :
                Info[u].from = Info[t].from => Info[t].nonce <= Info[u].nonce}
Best(S) == CHOOSE t \in Heads(S) : \A u \in Heads(S) : Info[u].tip <= Info[t].tip

\* legacypool Pending: an account's transactions without a gap from the
\* pool's nonce on; the others are queued.
Pending(p) ==
  {t \in p : /\ IsEVM(t) /\ poolSeq[Info[t].from] <= Info[t].nonce
             /\ \A n \in poolSeq[Info[t].from]..Info[t].nonce :
                  \E u \in p : /\ IsEVM(u) /\ Info[u].from = Info[t].from
                               /\ Info[u].nonce = n}

shouldUseEVM ==
  /\ evmLeft # {}
  /\ cosmosLeft # {} => Info[Best(cosmosLeft)].tip <= Info[Best(evmLeft)].tip

\* getPreferredTransaction; its result is kept in lastReturnedFromEVM.
ReturnsEVM == shouldUseEVM /\ Best(evmLeft) \notin Opaque
HasTx == ReturnsEVM \/ cosmosLeft # {}
Current == IF ReturnsEVM THEN Best(evmLeft) ELSE Best(cosmosLeft)

AdvanceRequery ==
  IF shouldUseEVM
  THEN evmLeft' = evmLeft \ {Best(evmLeft)} /\ UNCHANGED cosmosLeft
  ELSE cosmosLeft' = cosmosLeft \ {Best(cosmosLeft)} /\ UNCHANGED evmLeft

\* Next: the lane that returned the transaction moves on.
Advance ==
  IF ReturnsEVM
  THEN evmLeft' = evmLeft \ {Current} /\ UNCHANGED cosmosLeft
  ELSE cosmosLeft' = cosmosLeft \ {Current} /\ UNCHANGED evmLeft

\* PopCurrentAccount: the signer's whole bucket.
Pop ==
  /\ evmLeft' = {t \in evmLeft : Info[t].from # Info[Current].from}
  /\ UNCHANGED cosmosLeft

-----------------------------------------------------------------------------
(* The mempool.                                                            *)

\* Remove.  shouldRemoveFromEVMPool asks the ante handler on latestCtx itself,
\* which keeps the sequence it increments there: a transaction that passes, or
\* whose nonce is ahead, stays.
RemoveTx(st, t) ==
  LET a == Info[t].from
  IN  CASE ~IsEVM(t) \/ t \in Bad \/ Info[t].nonce < st.latestSeq[a]
             -> [st EXCEPT !.pool = @ \ {t}]
        [] IsEVM(t) /\ t \notin Bad /\ Info[t].nonce = st.latestSeq[a]
             -> [st EXCEPT !.latestSeq = Bump(@, a)]
        [] OTHER -> st

RemoveAll(txs) ==
  LET st == FoldLeft(RemoveTx, [pool |-> pool, latestSeq |-> latestSeq], txs)
  IN  pool' = st.pool /\ latestSeq' = st.latestSeq

\* The check state: the sequence after an account's transactions in the
\* mempool, as they were checked or, after a block, rechecked.
CheckSeq(a) ==
  CHOOSE n \in seq[a]..(seq[a] + Cardinality(pool)) :
    {k \in seq[a]..n : \E t \in pool : Info[t].from = a /\ Info[t].nonce = k}
      = seq[a]..(n - 1)

\* A Cosmos transaction has to be the next of its signer.  An EVM transaction
\* goes to the EVM pool also when it is not (InsertInvalidNonce), which
\* refuses only a nonce below its own.
Admitted(t) ==
  IF IsEVM(t) THEN poolSeq[Info[t].from] <= Info[t].nonce
              ELSE CheckSeq(Info[t].from) = Info[t].nonce

\* CheckTx and Insert.
Insert(t) ==
  /\ t \in waiting
  /\ Admitted(t)
  /\ waiting' = waiting \ {t}
  /\ pool' = pool \cup {t}
  /\ UNCHANGED <<seq, latestSeq, poolSeq, notify, reset, phase, iterators, loop>>

\* The event bus delivers a header to the mempool's Blockchain.
NotifyNewBlock ==
  /\ notify
  /\ latestSeq' = seq
  /\ notify' = FALSE /\ reset' = TRUE
  /\ UNCHANGED <<seq, waiting, pool, poolSeq, phase, iterators, loop>>

ResetPoolDropsNext ==
  /\ reset
  /\ poolSeq' = latestSeq
  /\ pool' = {t \in pool : IsEVM(t) => latestSeq[Info[t].from] < Info[t].nonce}
  /\ reset' = FALSE
  /\ UNCHANGED <<seq, waiting, latestSeq, notify, phase, iterators, loop>>

ResetPoolMissed ==
  /\ reset
  /\ reset' = FALSE
  /\ UNCHANGED <<seq, waiting, pool, poolSeq, latestSeq, notify, phase,
                 iterators, loop>>

\* The EVM pool's own loop resets it to the new head.
ResetPool ==
  /\ reset
  /\ poolSeq' = latestSeq
  /\ pool' = {t \in pool : IsEVM(t) => latestSeq[Info[t].from] <= Info[t].nonce}
  /\ reset' = FALSE
  /\ UNCHANGED <<seq, waiting, latestSeq, notify, phase, iterators, loop>>

-----------------------------------------------------------------------------
(* PrepareProposal.                                                        *)

\* Both handlers: Select, and the loop's variables.
StartLoop ==
  /\ evmLeft' = Pending(pool')
  /\ cosmosLeft' = {t \in pool' : ~IsEVM(t)}
  /\ picked' = [a \in Account |-> NoEntry]
  /\ selected' = << >> /\ invalid' = << >> /\ iterCount' = 0 /\ seen' = {}

\* The loop's variables go with the handler's return.
ForgetLoop ==
  /\ evmLeft' = {} /\ cosmosLeft' = {}
  /\ prepSeq' = [a \in Account |-> 0] /\ picked' = [a \in Account |-> NoEntry]
  /\ invalid' = << >> /\ iterCount' = 0 /\ seen' = {}

PrepareProposal ==
  /\ phase = "idle"
  /\ UNCHANGED chain
  /\ StartLoop
  /\ prepSeq' = seq
  /\ phase' = "outer"

\* One turn of the loop examines Current.
Turn ==
  /\ Looping /\ HasTx
  /\ phase = "outer" => iterCount < MaxIterations
  /\ iterCount' = IF phase = "outer" THEN iterCount + 1 ELSE iterCount
  /\ seen' = seen \cup {Current}

NextInSequence(t) ==
  picked[Info[t].from] # NoEntry => Info[t].nonce = picked[Info[t].from] + 1

\* PrepareProposalVerifyTx runs the ante handler on prepareState.
Verifies(t) == t \notin Bad /\ Info[t].nonce = prepSeq[Info[t].from]

Skip ==
  /\ Turn
  /\ Current \notin Poison /\ ~NextInSequence(Current)
  /\ Advance
  /\ UNCHANGED <<chain, phase, prepSeq, picked, selected, invalid>>

\* The sender's bucket is dropped on a nonce error of an EVM transaction, and
\* on one error that a transaction may have of its own ("intrinsic gas").
Reject ==
  /\ Turn
  /\ Current \notin Poison /\ NextInSequence(Current) /\ ~Verifies(Current)
  /\ invalid' = IF phase = "outer" /\ Len(invalid) >= MaxInvalid
                THEN invalid ELSE Append(invalid, Current)
  /\ \/ phase = "outer" /\ ReturnsEVM /\ Pop
     \/ (phase = "outer" /\ ReturnsEVM => Current \in Bad) /\ Advance
  /\ UNCHANGED <<chain, phase, prepSeq, picked, selected>>

Bytes(txs) == FoldLeft(LAMBDA n, t : n + Info[t].size, 0, txs)

RecordedIfSelected(t, fits) ==
  IF fits THEN Info[t].nonce ELSE picked[Info[t].from]

RecordedBelowEntry(t, fits) ==
  IF fits THEN Info[t].nonce ELSE picked[Info[t].from] - 1

\* selectedTxsSignersSeqs after t was verified: a first transaction that did
\* not fit is recorded one below, so that its successors do not follow it.
Recorded(t, fits) ==
  IF fits THEN Info[t].nonce
  ELSE IF picked[Info[t].from] = NoEntry THEN Info[t].nonce - 1
  ELSE picked[Info[t].from]

SelectTx ==
  LET t    == Current
      fits == Bytes(selected) + Info[t].size <= MaxTxBytes
  IN  /\ Turn
      /\ t \notin Poison /\ NextInSequence(t) /\ Verifies(t)
      /\ prepSeq' = Bump(prepSeq, Info[t].from)
      /\ selected' = IF fits THEN Append(selected, t) ELSE selected
      /\ IF Bytes(selected') >= MaxTxBytes
         THEN phase' = "clean" /\ UNCHANGED <<iterators, picked>>
         ELSE /\ picked' = [picked EXCEPT ![Info[t].from] = Recorded(t, fits)]
              /\ Advance
              /\ UNCHANGED phase
      /\ UNCHANGED <<chain, invalid>>

\* The iterator ran out, the iteration cap is reached or, in the loop of
\* PrepareProposalHandler, Tx returned nil.
EndLoop ==
  /\ IF phase = "outer" THEN ~HasTx \/ iterCount = MaxIterations
     ELSE phase = "inner" /\ evmLeft = {} /\ cosmosLeft = {}
  /\ phase' = "clean"
  /\ UNCHANGED <<chain, iterators, loop>>

\* The recovery: evict the transaction, then let the default handler build
\* the block on the same prepareState.
Panic ==
  /\ phase = "outer" /\ HasTx /\ iterCount < MaxIterations
  /\ Current \in Poison
  /\ RemoveAll(<<Current>>)
  /\ UNCHANGED <<seq, waiting, poolSeq, notify, reset, prepSeq>>
  /\ StartLoop
  /\ phase' = "inner"

PanicAgainRetries ==
  /\ phase = "inner" /\ HasTx
  /\ Current \in Poison
  /\ UNCHANGED <<chain, prepSeq, phase>>
  /\ StartLoop

\* A second panic: an empty block.
PanicAgain ==
  /\ phase = "inner" /\ HasTx
  /\ Current \in Poison
  /\ selected' = << >> /\ invalid' = << >>
  /\ phase' = "proposed"
  /\ UNCHANGED <<chain, iterators, prepSeq, picked, iterCount, seen>>

\* The handler returns an error, or a panic leaves it: it cannot read a
\* transaction's signers; the eviction, which runs the ante handler outside the
\* nested recover, panics like the loop did; or the default handler is given the
\* nil that Tx returns for an EVM transaction it cannot convert.
Fails ==
  /\ Looping
  /\ \/ /\ HasTx /\ Current \in Poison
        /\ phase = "outer" => iterCount < MaxIterations
     \/ phase = "inner" /\ ~HasTx /\ evmLeft # {}

\* req.Txs: what CometBFT reaped from its own list, which it rechecks after each
\* block; no transaction is empty.
Reaped ==
  {txs \in SeqOf({t \in Tx \ waiting : ~Used(t)}, MaxTxBytes) :
     IsInjective(txs) /\ Bytes(txs) <= MaxTxBytes}

\* BaseApp then proposes what CometBFT sent; nothing is cleaned.
Escape ==
  /\ Fails
  /\ selected' \in Reaped
  /\ phase' = "proposed"
  /\ ForgetLoop
  /\ UNCHANGED chain

\* What failed is removed from the mempool.
Clean ==
  /\ phase = "clean"
  /\ RemoveAll(invalid)
  /\ phase' = "proposed"
  /\ UNCHANGED <<seq, waiting, poolSeq, notify, reset, iterators, loop>>

ForgetProposal == phase' = "idle" /\ selected' = << >> /\ ForgetLoop

Executed(s, t) ==
  IF t \notin Bad /\ Info[t].nonce = s[Info[t].from] THEN Bump(s, Info[t].from) ELSE s

\* ProcessProposal: every transaction passes the ante handler in its turn.
Accepted(txs) ==
  \A i \in 1..Len(txs) :
    /\ txs[i] \notin Bad
    /\ Info[txs[i]].nonce =
         FoldLeft(Executed, seq, SubSeq(txs, 1, i - 1))[Info[txs[i]].from]

\* The proposal is accepted and decided: FinalizeBlock runs it, and removes
\* each transaction from the mempool as it does.
Decide ==
  /\ phase = "proposed" /\ Accepted(selected)
  /\ seq' = FoldLeft(Executed, seq, selected)
  /\ RemoveAll(selected)
  /\ notify' = TRUE
  /\ ForgetProposal
  /\ UNCHANGED <<waiting, poolSeq, reset>>

\* Another round's proposal, without these transactions, is decided or none.
Lose ==
  /\ phase = "proposed"
  /\ ForgetProposal
  /\ UNCHANGED chain

Init ==
  /\ seq = [a \in Account |-> 0]
  /\ waiting = Tx /\ pool = {}
  /\ latestSeq = seq /\ poolSeq = seq /\ notify = FALSE /\ reset = FALSE
  /\ phase = "idle" /\ evmLeft = {} /\ cosmosLeft = {}
  /\ prepSeq = seq /\ picked = [a \in Account |-> NoEntry]
  /\ selected = << >> /\ invalid = << >> /\ iterCount = 0 /\ seen = {}

HandlerStep ==
  \/ PrepareProposal \/ Skip \/ Reject \/ SelectTx \/ EndLoop \/ Panic
  \/ PanicAgain \/ Escape \/ Clean

Next ==
  \/ \E t \in Tx : Insert(t)
  \/ NotifyNewBlock \/ ResetPool
  \/ HandlerStep
  \/ Decide \/ Lose

Spec == Init /\ [][Next]_vars

\* The node goes on proposing and its handlers return; the goroutines of the
\* event bus and of the pool run; and not every proposal of it is lost.
Fairness ==
  /\ WF_vars(HandlerStep) /\ WF_vars(NotifyNewBlock) /\ WF_vars(ResetPool)
  /\ WF_vars(Lose \/ Decide) /\ SF_vars(Decide)

FairSpec == Spec /\ Fairness

\* Only the handler itself is bound to go on.
HandlerSpec == Spec /\ WF_vars(HandlerStep)

-----------------------------------------------------------------------------
(* Properties.                                                             *)

AccountSeqs == [Account -> Nat]

Caps ==
  /\ phase = "inner" => iterCount = 0
  /\ phase = "outer" \/ iterCount > 0 => Len(invalid) <= MaxInvalid

\* Every variable keeps its type, and the loop of PrepareProposalHandler stays
\* within its two caps: turns, and transactions noted as invalid.
TypeOK ==
  /\ seq \in AccountSeqs /\ latestSeq \in AccountSeqs /\ poolSeq \in AccountSeqs
  /\ prepSeq \in AccountSeqs
  /\ waiting \subseteq Tx /\ pool \subseteq Tx
  /\ notify \in BOOLEAN /\ reset \in BOOLEAN
  /\ phase \in {"idle", "outer", "inner", "clean", "proposed"}
  /\ evmLeft \subseteq Tx /\ cosmosLeft \subseteq Tx /\ seen \subseteq Tx
  /\ picked \in [Account -> {NoEntry} \cup (Nat \cup {-1})]
  /\ selected \in Seq(Tx) /\ invalid \in Seq(Tx)
  /\ iterCount \in 0..MaxIterations
  /\ Caps

\* No validator rejects what PrepareProposalHandler's own loop built: in the
\* proposal's order each transaction has the sequence its signer is at, whatever
\* did not fit, failed or came from the other lane in between.  (The fallback
\* after a panic verifies on a state that the loop has used, and what BaseApp
\* proposes when the handler fails is not verified at all: no such promise holds
\* for these, which count no iterations.)
ProposalAccepted == phase = "proposed" /\ iterCount > 0 => Accepted(selected)

\* The node has a proposal whatever makes PrepareProposalHandler panic: its own
\* selection, the fallback's, the empty block of the nested recover, or, when a
\* second panic or an error leaves the handler, what BaseApp proposes for it.
HandlerReturns == Looping ~> phase = "proposed"

\* The merged iterator returns no transaction twice, also when an EVM head
\* cannot be converted and the Cosmos lane steps in for it: the loop ends by
\* itself, well below the iteration cap.
NeverReexamined == Looping /\ HasTx => Current \notin seen

\* A transaction that would be executed if the accounts' transactions were
\* executed in order.
Sound(t) ==
  /\ t \notin Bad \cup Opaque \cup Poison
  /\ Info[t].size <= MaxTxBytes
Executable(t) ==
  \A n \in seq[Info[t].from]..Info[t].nonce :
    \E u \in pool : /\ Sound(u) /\ Info[u].from = Info[t].from
                    /\ Info[u].lane = Info[t].lane /\ Info[u].nonce = n

\* Neither cleaning the mempool after a proposal (Remove), nor a block, nor the
\* EVM pool's reset takes an executable transaction that no block has used.
\* This is said of mempools in which nothing makes the handler panic and no
\* account has the same nonce twice, and Executable asks for the account's
\* transactions in one lane: with both, the Cosmos transaction of nonce n+1 can
\* be examined before the EVM transaction of nonce n, fail and be evicted.
HealthyKept ==
  [][\A t \in pool : Sound(t) /\ Executable(t) => t \in pool' \/ Used(t)']_vars

\* Every executable transaction gets into a block: neither the cascade skip,
\* nor a stale pool, nor lost proposals, nor the caps keep it out for good.  As
\* for HealthyKept, the account's transactions up to it are in one lane.
Included == \A t \in Tx : (t \in pool /\ Executable(t)) ~> Used(t)
=============================================================================
