# Verification of STOChain

STOChain is a Cosmos SDK v0.53 / CometBFT application with an in-tree fork of
cosmos/evm v0.6.0 (`forks/cosmos-evm-v0.6.0`, below `fork/`). This directory holds
TLA+ models of the parts that carry its own logic, TLC instances that check them on
small sets, and TLAPS proofs of their safety properties for all sets.

The questions answered here:

* Do the tokens of `x/stoc` keep their books, their denoms and their terms over every
  sequence of transactions, taxes, rollbacks and exports? (`StocTx`)
* Do the guards around custom tokens hold over nested and stored messages, and do all
  nodes decide a transfer alike? (`MsgScreen`, `EscrowCache`)
* Does an EVM transaction over a coin with fewer decimals than the EVM's create,
  lose or misplace coins? (`EvmBank`)
* Does the journalled StateDB, with precompiles that write to the store beneath it,
  behave like a world of which whole copies are kept? (`StateDB`, `WorldState`)
* Does a transaction get from CheckTx into a block, with two mempools, a pool that
  follows the chain late, and limits everywhere? (`Admission`, `LegacyPool`,
  `ReorgLoop`, `Proposal`)

## 1. Inventory

| Component | State | Operations | Hard behaviour | What makes it correct |
|---|---|---|---|---|
| `x/stoc` token module | token by denom, uint64 denom counter | CreateToken, MintTokens, ReleaseTokens, BurnToken, InitGenesis, ExportGenesis, the crisis invariant | rounding of a distribution, counter at its limit, counter rebuilt from denoms, payment before registration, rollback in the middle | books agree with the bank after every message; a denom is created once; a token keeps its terms; wallets can burn |
| tax PostHandler (`x/stoc/ante/tax_post.go`) | none; the transaction's branch | one leg per transfer | runs after all messages: the recipient may have spent | tax between one unit and half; lost only if the payer spent it |
| bank send restrictions (`app/app.go`, `app/evm.go`) | escrow-address cache, per process | three restrictions on each transfer | what they know depends on when the denom is registered and the cache was filled | a registered token moves between wallets and the module only |
| custom-token and IBC ante decorators (`x/stoc/ante`) | none | walks over nested messages | proposals execute long after they were checked | a custom token is in no message the chain refuses |
| `x/evmutil` bank keeper | none | conversions of 6 and 18 decimals | each direction rounds its own way | no conversion pays out more than it took in |
| EVM state and gas (`fork/x/vm`, `fork/precompiles/common`) | StateDB objects and journal over a cached context | gas purchase, transfers, flush before a precompile, commit, revert, refund | a precompile changes the bank under the StateDB | the bank mirrors the EVM; fees and vesting coins are safe |
| proposal handler (`app/abci_proposal.go`) | sequences selected, list of invalid transactions | PrepareProposal, ProcessProposal | panics, caps, stale pool, two lanes of one account | terminates, is accepted by validators, cleans only what is dead |
| EVM mempool (`fork/mempool`) | legacy pool, Cosmos pool, latest context | CheckTx/Insert, Select, Remove, header delivery, reset | three goroutines: consensus, event bus, pool reset | nothing executable is evicted; everything executable is included |
| ante handlers (`app/ante`) | none of their own | AnteHandle | rechecks meet the pending cap; five walks count depth in five ways | an admitted transaction is within limits and is mined; nothing is run that was not screened |
| upgrades, zero-height export | store versions | handlers, export | restarts between steps | the result is a state the modules accept |
| fee market, ERC-20, JSON-RPC (`fork/`) | base fee, token pairs, streams | | | third-party; candidates below |

How they interact: CometBFT calls the application in one thread per connection.
`CheckTx` runs the ante handlers and inserts into the mempool. `PrepareProposal`
reads the mempool, verifies on its own branch of the store, and removes what failed.
`FinalizeBlock` runs each transaction (ante handlers, messages, PostHandler) on a
branch that is kept or dropped as a whole, and removes it from the mempool. `Commit`
publishes the store; the event bus then tells the mempool's `Blockchain`, whose
chain-head event makes the legacy pool reset itself in its own goroutine. All
transfers, those of x/stoc, of the tax and of the EVM included, go through the bank
with the application's send restrictions. Optimistic execution is off
(`app/app.go`), so `FinalizeBlock` runs once for a block.

`PROJECT.json` lists every component with its status, and the hazards at their lines.

## 2. Plan

Done, in this order:

1. `StocTx` with `StocTxProofs`: the asset logic, which is what the chain is for.
2. `EvmBank`: conversion, StateDB flushes, gas.
3. `Proposal`: mempool and block building.
4. `EscrowCache`: the cache of the third send restriction as calls fill it at
   different times, within a node and between nodes.
5. `MsgScreen`: the walks over nested messages, and proposals executed later.
6. `StateDB`, shown to implement `WorldState`.
7. `Admission`: the pending cap and rechecks beside CometBFT's mempool.
8. `LegacyPool` and `ReorgLoop`: the pool's lists, and the goroutines around them.

The modules meet as follows. `Admission` and `Proposal` see the pool as a set that
follows the chain late; `LegacyPool` is how that set is kept, and `ReorgLoop` when its
runs happen. `EvmBank` looks at the coins of one level of the StateDB, `StateDB` at the
nesting. `MsgScreen` reduces the registry and the tax of `StocTx` to sets. They are
not composed into one specification: the products are out of TLC's reach.

To do: the base-fee recurrence of the fee market, the bounded RPC stream, the upgrade
handlers with a restart between steps; unordered and multi-signer transactions in
`Proposal`.

Proofs: every safety property that a passing run checks, the refinement of `WorldState` included;
`Proposal`'s `HealthyKept` under the conditions it needs (section 5). They are in
`StocTxProofs`, `EvmBankProofs`, `ProposalProofs`, `LegacyPoolProofs` and `StateDBProofs` beside the
component, in `TransferGuardProofs` (`EscrowCache` and `MsgScreen`) and in `MempoolProofs`
(`Admission` and `ReorgLoop`). `FoldFacts` has the lemmas on sums and folds that they share
(section 14). A module with proofs about two components extends both, so `MsgScreen` and `ReorgLoop`
have their initial predicate, next-state relation and specification under names of their
own (`ScreenSpec`, `LoopSpec`).

## 3. StocTx

### Correspondence

| Model | Code |
|---|---|
| `tokens`, `counter` | the two key ranges of the x/stoc store |
| `bal`, `supply` | the bank, by denom and account |
| `committed` against the four above | the store, and the branch `runTx` works on |
| `CreateToken`, `MintTokens`, `ReleaseTokens`, `BurnToken`/`BurnAll` | the message server (`msg_server_*.go`), with `ValidateBasic`, `Validate` and `ValidateState` as guards |
| `MsgSend` | a bank transfer: MsgSend, one output of a MultiSend, or either inside authz.MsgExec |
| `StartPost`, `PostNoTax`, `PostCollect`, `PostSkip` | `TaxPostDecorator`, one leg a step |
| `CommitTx`, `AbortTx` | the end of `runTx` |
| `ExportImport` | ExportGenesis, then InitGenesis of the result |

A handler's early returns are the guard of its action; the transaction's failure is
`AbortTx`. Symbols are model values, a denom is the pair of symbol and suffix, since a
symbol is alphanumeric and the last underscore splits a denom in one way. The
distribution is a function from recipient to percentage with its last recipient
named, because duplicates are refused and only the last one is treated differently.
The bank is the SDK's and is modelled from the calls.

The counter keeps its width: `NextCounter` wraps at `MaxUint64`. One boundary shows in
`GenesisBoots`: a chain whose last suffix is `MaxUint64 - 1` runs, but InitGenesis
refuses its export; `ExportImport` is then disabled.

### Properties

* `SupplyInvariant`: after every message and every tax leg, not only at block ends,
  the bank's supply is TotalSupply and the module holds RemainingSupply.
* `CounterFresh`: the counter is one above the highest suffix in use, through
  rollbacks and export/import, and unused denoms have no coins.
* `WalletsCanBurn`: no check of BurnToken (`BurnChecks`: the drift guard, the validation of the
  reduced token, the bank and its send restrictions) refuses a wallet the burn of any part of
  what it holds. An account that is no wallet and was paid at creation can burn nothing
  (section 12).
* `SkippedOnlyIfDrained`: the PostHandler loses a tax only if the collector may not
  receive, or the recipient itself spent in the same transaction. Several taxes on
  one recipient never exhaust what it received, since each is at most half.
* `TermsKept`, `NonWalletFrozen`: action properties on the committed store.

### Runs

| Run | Instance | Result |
|---|---|---|
| `stoc_lifecycle` | two wallets, a vesting account, two symbols, counter up to 2, supply up to 3, one message a transaction, nine creation messages | passes |
| `stoc_tax` | three wallets, a vesting account, a precompile, one symbol, supply up to 4, three messages a transaction | passes |

Two symbols and a counter up to 2 give collisions of symbols, an ambiguous
`FindToken`, the last counter value and the unbootable export. The creation messages
include each kind of token, shares that truncate (3 units at 50/50), a share that
rounds to zero (1 unit at 40/60), a limited token with nothing to distribute, a blocked
recipient and an initial supply above the total; the last four are refused. Supply 3 and 4 are the smallest at which a release can be split, and a tax is
at its floor, between, and at its cap. Three messages are a transfer to the
recipient, one from it, and one more. Wallets are symmetric: no definition
distinguishes them, and the creation messages are closed under their exchange.

### Proofs (`StocTxProofs`)

For every set of accounts, symbols and creation messages and every bound, from
`StocAssumption` (the kinds of accounts are disjoint where the code's are, messages
are well typed, percentages are between 1 and 100, tax between 0 and 50, the accounts are
finitely many, and no precompile is a wallet):

* `TaxBounds`: the tax on at least two units is at least 1 and at most half;
* `Invariance`: `Spec => []IndInv`;
* `TypeCorrect`, `SupplyCorrect`, `CounterCorrect`: the invariants above;
* `TermsCorrect`, `FrozenCorrect`: the action properties.

The invariants are not inductive by themselves. `IndInv` adds: the same books and
counter for `committed`, because an abort returns to it; `BranchInv`, which says how
the branch may differ from the committed store, because `TermsKept` and
`NonWalletFrozen` speak of a whole transaction while a step sees one message; that
no recorded transfer goes to a blocked account and no registered token names one as
collector, because otherwise a tax leg could move the module's reserve; and that the
two stores agree between transactions. The argument follows the actions: a
transfer conserves a denom (`MoveLedger`, `TransferStep`), the remainder rule makes
the shares add up (`MintedAll`), an update of one managed denom leaves the others
alone (`ManagedUpdate`, `NativeUpdate`, `NewDenom`), and the rebuilt counter is the
old one because at most one number is the next suffix (`NextSuffixUnique`).

Two invariants compare one balance with the others and rest on sums over the set of
accounts, which the proofs take for any finite set:

* `BankBalanced`: the balances of a denom add up to its supply, on the branch and in the
  committed store. With `SupplyInvariant` it gives `BurnAlwaysPossible` (`WalletsCanBurn`):
  a balance and the reserve are together at most TotalSupply (`TwoShares`). That the reduced
  token is valid needs `Persisted`: what is in the registry was valid when it was put there
  (`StoredValid`).
* `TaxAlwaysCovered` (`SkippedOnlyIfDrained`) needs `TaxInv`: an account that spent nothing
  in the transaction still holds the sum of all transfers to it that the PostHandler has
  not come to yet (`CreditsKept`), and transfers of registered tokens go to wallets only
  (`SentToWallets`), from which the send restrictions let a tax pass. A leg takes no more than
  its own transfer, so the sum over the rest stays covered.

## 4. EvmBank

### Correspondence

| Model | Code |
|---|---|
| `coins`, `locked` | bank balances in ustoc, and LockedCoins of a vesting account |
| `evmModule`, `feeCollector`, `bonded` | the module accounts an EVM transaction passes through |
| `evm`, `snapshot`, `dirty` | StateDB: spendable astoc, `lockedBalance` as loaded, the journal |
| `backup` | the context under `ApplyTransaction`'s cached one |
| `BuyGas` | CheckSenderBalance and DeductTxCostsFromUserBalance, then `statedb.New` |
| `EvmTransfer` | SubBalance and AddBalance |
| `Delegate` | `runNativeAction` of the staking precompile: flush, native action, balance handler |
| `Commit`, `VmError`, `Abort`, `RefundGas` | the outcomes of `ApplyTransaction` |
| `Sweep`, `Vest` | the distribution module and the vesting schedule, external |

`Inflow` and `Outflow` are the two conversions of `bank_keeper.go`. A write of the
StateDB mints the difference rounded down or burns it rounded up, per account. The
accounts of one write are distinct, so writing them is one step. An account that a
module owns, or a precompile that would be credited, makes the write fail, and the
transaction with it.

Left out: storage, code, nested calls and their reverts and self-destruct (in `StateDB`,
section 8); undelegation and the other precompiles; PostTxProcessing hooks.

### Properties

* `BankMirrorsEvm`: after a commit each account owns in the bank the whole ustoc of
  its EVM balance on top of the vesting coins it was loaded with, also when they were
  delegated meanwhile. With the vesting coins re-read at the write (`TargetReread`,
  the behaviour of `SetBalance`) it fails.
* `DustBounded`: a committed transaction makes nobody richer in sum, and costs less
  than one ustoc per account it touched, however often it was flushed.
* `FeesKept`: the fee collector always covers the gas used in the block.
* `VestingStaysLocked`: vesting coins are not spent on gas, transfers or delegation.

### Runs

`evm_conversion`: three users (2 ustoc; 2 ustoc, one vesting; none), a module account
and a precompile, 3 astoc to the ustoc, fees up to 4 astoc, two transactions of two
steps. With three astoc to the ustoc there is a remainder of each sign; fees of 0 to 4
cover none, a fraction, exactly one and more than one ustoc; two steps give a transfer
before a delegation, one after it, and two flushes; two transactions share the fee
collector. The system may stop (`CHECK_DEADLOCK FALSE`) once the bounds are used up.

### Proofs (`EvmBankProofs`)

All five invariants, for every finite set of accounts, every factor between the decimals and every
genesis that `EvmBankAssumption` admits. `IndInv` adds: the copy the message falls back to is
sound (`BackupSound`), vesting coins only get fewer while a message runs
(`VestingLoaded`), an account that is not dirty has in the StateDB what it has in the bank
(`CleanMirrored`), and what all accounts should own plus what is bonded is the same in astoc as
before the message (`Conserved`), a sum over the accounts. `DustBounded` follows from the last two: only
dirty accounts are rounded, each by less than one ustoc (`SettledFloor`), and a sum with
such slack in some of its terms differs by less than that many units (`SumSlack`).

## 5. Proposal

### Correspondence

| Model | Code |
|---|---|
| `seq` | account sequences in the committed store |
| `pool` | legacy pool and Cosmos pool together; a transaction knows its lane |
| `latestSeq`, `notify` | `Blockchain.latestCtx`, and a header still in the event bus |
| `poolSeq`, `reset` | the state of the legacy pool's last reset, and a head it has not seen |
| `evmLeft`, `cosmosLeft` | the two iterators, snapshots taken by `Select` |
| `prepSeq` | the store branch of PrepareProposal |
| `picked`, `selected`, `invalid`, `iterCount` | the loop's variables in `abci_proposal.go` |
| `phase` `outer`/`inner` | the STOChain loop; the SDK's default handler after a panic |
| `Skip`, `Reject`, `SelectTx`, `EndLoop` | one turn of the loop, by outcome |
| `Panic`, `PanicAgain` | the two recovers |
| `Fails`, `Escape` | an error, or a panic the recovers do not stop, and what BaseApp does with it |
| `Clean`, `RemoveAll`, `RemoveTx` | eviction through `Remove` |
| `Insert`, `NotifyNewBlock`, `ResetPool` | the other goroutines, in any phase |
| `Decide`, `Lose` | consensus, external; a block is decided only if `Accepted` |

`RemoveTx` keeps a detail of the code that matters: `shouldRemoveFromEVMPool` runs the
ante handler on the shared latest context without branching it, so a check that passes
increments the sequence the next removal and the next reset see.

The handler does not always return a block of its own. `GetSigners` may fail, and it returns the error; the eviction
of the recovery (`abci_proposal.go:98`) runs the ante handler outside the nested recover, and may panic like the loop
did; and the SDK's default handler is handed the nil that `Tx` returns for an EVM head it cannot convert. In each case
BaseApp recovers or sees the error, and proposes the transactions CometBFT sent (`req.Txs`): `Escape` takes any of
the lists it may have reaped (`Reaped`), and cleans nothing.

Left out: transactions with several signers and unordered ones, the gas limit (bytes
play its part), the no-op mempool, `Remove`'s early return before the first block,
price replacement and pool limits (in `LegacyPool`). The branch of the loop for a repeated transaction
pointer cannot be reached, because each call of `Tx` converts anew. Rechecking after
a block is abstracted in `CheckSeq`.

### Properties

* `ProposalAccepted`: every validator's ProcessProposal accepts what the loop built. Of
  what the default handler builds after a panic, or BaseApp when the handler fails, this is not true
  (section 12).
* `NeverReexamined`: the merged iterator never returns a transaction twice, also when
  the EVM head cannot be converted and the Cosmos lane answers for it.
* `HandlerReturns`: whatever panics, and if the recovery does, the node has a proposal: the loop's, the
  fallback's, the empty block of the nested recover, or BaseApp's.
* `TypeOK` includes the two caps, on the invalid list and on the iterations.
* `HealthyKept`: no step evicts a transaction that would be executed. It needs a mempool
  in which nothing panics and no nonce is used twice (see the proofs below).
* `Included`: every executable transaction is eventually in a block.

In both, a transaction is `Executable` if the account's nonces up to it are in its own lane. An account that uses
both lanes has no such promise: its Cosmos transaction of nonce n+1 may be examined before its EVM transaction of
nonce n, fails and is evicted.

### Runs

| Run | Instance | Result |
|---|---|---|
| `proposal_mixed` | three accounts, five transactions, one account in both lanes, one transaction not convertible, one that makes the handler panic, 2 bytes, caps 2 and 3 | passes |
| `proposal_inclusion` | three accounts, five transactions, one always failing, caps 1 and 3, lost proposals | passes |

The byte limits are below the sum of the sizes, so proposals fill up and a transaction
that verified does not fit; the caps are below the number of transactions, so both are
reached. Two nonces per sender are enough for a stale head and its successor, also for
the successor of one that did not fit, in the other lane (`proposal_mixed`).

### Fairness

`FairSpec` assumes that the node goes on proposing and its handlers return (weak
fairness of the handler's steps), that the goroutines of the event bus and of the pool
run (weak fairness of `NotifyNewBlock` and `ResetPool`: each is a loop over a channel
that nothing blocks for ever), that a proposal is decided or lost, and that not every
acceptable proposal of this node is lost (strong fairness of `Decide`: in a live
network with rotating proposers, infinitely many heights go to each). No fairness is assumed
of senders. `proposal_mixed` uses `HandlerSpec`, with fairness of the handler's own steps
alone.

### Proofs (`ProposalProofs`)

`TypeOK`, `ProposalAccepted` and `NeverReexamined`, for every mempool, every set of transactions that
fail, cannot be converted or make the handler panic, and all limits. `IndInv` adds that the
iterators keep to their lanes and what was examined is behind both (`Unseen`), and that the
loop's two records, `prepSeq` and `picked`, follow what executing its selection would do (`Follows`):
an account without an entry is where the verification left it, one with an entry is at the
entry's successor. A transaction that verified but did not fit makes the two records differ, and
`Follows` shows that the entry one below is the one that counts. Executing a block is a fold; `ExecutedFold`
and `ExecutedAppend` solve its recursion, so that appending one transaction executes one more.
The fallback after a panic is in the model and in `IndInv`; it counts no iterations, and
`ProposalAccepted` promises nothing of it.

`HealthyStay` proves `HealthyKept`, for every mempool that is `Orderly` and all limits: no transaction
makes the handler panic, an account sends in one lane, and no nonce twice. `proposal_inclusion` is
such an instance. A panic breaks the property: the fallback judges
transactions by a state that the loop has used (section 12). A nonce that is in the mempool twice breaks
it too: when the first did not fit, the second fails, `Remove` checks it on the latest context, where it
passes, and the EVM pool's reset then takes the nonce for used. That an account keeps to one lane is what the
argument about predecessors uses. That a removal is right depends on why the transaction
failed, several turns earlier, so `KeptInv` carries the reason along. A
transaction is `Doomed` when its signer has a refused one at or below its nonce; no account gets past such a
nonce (`Grounded`, `BadAhead`), so what is doomed stays so. The predecessors of a Cosmos transaction
are in the mempool, used or doomed (`Rooted`), because CheckTx admits it only as the next
one: `FreeNonce` is the pigeonhole argument that `CheckSeq` finds a gap at all. During the loop the
predecessors are on the iterator or were examined (`OuterRooted`), and every sequence the
proposal state went through belongs to an examined transaction (`Examined`). Hence what the loop rejects is
refused, used, or ahead of its signer, and then an EVM transaction, which `Remove` keeps, or doomed
(`RejectedFails`). `RemoveAllKeeps` follows the list of removals, whose checks move the
latest context, and shows that it never passes the chain.

## 6. EscrowCache

| Model | Code (`blockCustomTokenIBCTransfers`, `app/app.go`) |
|---|---|
| `cache` | `escrowAddrs`, nil until built, and `cacheHeight`, one per process |
| `Check`, `Rebuild`, `Lookup` | the three critical sections of its RWMutex |
| `thread` | the consensus connection, and a simulation or query beside it |
| `Verify` | PrepareProposal and ProcessProposal, where the PostHandler's tax is a transfer |
| `FinalizeBlock`, `Other`, `Return` | a block's transactions on their branches, and Commit |
| `Simulate` | a simulation at any committed height, on its own branch |
| `Restart` | the memory is lost, an uncommitted block runs again |

An escrow address stands for its channel. Opening a channel is external to the
function, and any message may do it before, between or after transfers.

* `CacheMatchesState`: when a finalized transfer is looked up the cache covers every
  channel of the state before the block, and beyond these holds only channels the block
  itself opened; never one that a simulation or a dropped branch opened at another height.
* `DecidedByState`: unless a block both opens channels and moves custom tokens, its results follow
  from the state before it, whichever call filled the cache and after any restart. All
  nodes have that state, so this is agreement.
* `CacheNeverAges`: the second test of the height under the write lock.
* `NodesAgree` (run `escrow_nodes`) states the comment's claim without that exception, and is
  violated: section 12.

`escrow_cache` has one node, two channels, five blocks (empty, opening, transferring, both, one with a
transaction that opens a channel and then fails), three heights, two simulations and
a restart: three heights are needed for a simulation that waits with a height two
below. `escrow_nodes` has two nodes and one block. Neither uses fairness.

`TransferGuardProofs` proves the three properties for any number of nodes, channels, heights,
simulations and restarts, and any blocks of non-empty transactions. The invariant says how far
a running frame has got: its results are those of the block's first transactions, its operations the rest of the
next one, and what it sees was there before the block or is opened by it (`Follows`);
simulations run at committed heights only (`ReaderFrame`); and a cache of the height under way was
filled by the consensus connection from such a view (`CacheFresh`), which is why the lookup
needs no test of its own. `DecidedByState` then compares the recorded outcome of each block with
the state before it (`OutcomesGood`).

## 7. MsgScreen

A transaction is its messages in preorder, each with the index of its wrapper. There are five walks over it:
`AuthzPreSigScreen`, `AuthzLimiter`, `IBCRestriction`, `ChainOpsRestriction` (in `Ante`, in the order of
`newCosmosAnteHandler`) and the PostHandler's `Taxed`/`TaxFails`. Each is a walk of its own: `Met` is what a walk reaches
that goes on into a given set of wrappers, and each has its own set (`ScreenInto`, `LimiterInto`, `UnwrapInto`, `TaxInto`) with
its own measure of depth (`Depth`, `nestedLvl`, which counts siblings too), and its own treatment of what is deeper or
not decoded. What runs is a different set: `RunsWith`, authz's own recursion, which has no limit. `Deliver` runs what passes;
group and gov proposals go to `stored`, and `ExecProposal` runs them through the message router, past the ante handler
and the tax.

* `DirectMovesTaxed`: a transfer that a transaction carried out was met by the tax walk, however it was wrapped, or the
  transaction failed. It compares the walk of the PostHandler with authz's: a tax walk that stops silently at its depth,
  as the screen does, breaks it.
* `KnownTokensStayTaxed`: no proposal moves a token that was registered when the
  proposal was submitted.
* `OnlyProposalsDelegate`: messages that need the signer's own authority are run inside MsgExec, or granted, by no
  transaction's own messages, although the screen stops at depth 3 and sees grants at the top only and the limiter counts
  otherwise. Proposals are excepted: neither walk goes into one (section 12).

`msg_walkers` has all trees of up to three messages of five kinds, chains of up to four wrappers, of
five to seven MsgExec, rows of five to seven siblings, so every limit is met from both sides
(3, 3 and 7 as in the code), delivered in any order, with one stored proposal at a time.

`TransferGuardProofs` proves the three properties for all trees of any size and depth and any limits. A walk that goes into
every MsgExec it meets meets all that runs (`MeetsAll`, by induction along the path to a message); the tax walk, the limiter
and the restrictions do, since they fail where they would stop (`TaxMeets`, `LimiterMeets`, `ChainOpsMeets`).
The invariant keeps with every stored proposal that its whole transaction was cleared in the
registry of that moment (`Kept`), since a proposal may leave another behind that runs
later. Running messages is a fold, whose states all satisfy the invariant (`RunningSound`).
The proof of `OnlyProposalsDelegate` uses the limiter alone: the pre-signature screen, which stops at its own
depth, refuses earlier but nothing more.

## 8. StateDB and WorldState

`WorldState` is the promise: one world, whole copies of it for the open call frames, a
revert that brings a copy back, precompiles that see the world as it is, a commit that
takes all or nothing. `StateDB` keeps no copies.

| Model | Code |
|---|---|
| `db.objs`, `db.journal` | stateObjects with dirtyStorage, and the journal's entries |
| `Undo`, `UndoTo` | the Revert method of each entry; `journal.Revert` |
| `valid`, `next`, `Search` | validRevisions, nextRevisionID and the binary search |
| `db.access` | the access list, with its indices into a list of slot sets |
| `db.layers` | the snapshot stores a precompile call pushes |
| `Flushed`, `FlushToCacheCtx` | `commitWithCtx` into the top layer |
| `CanFlush` | what makes the keeper refuse a flush: a dirty module account (`SetBalanceWithLocked`), a dead one without code |
| `PrecompileWrites`, `PrecompilePays`, `PrecompileTakes`, `PrecompileConverts`, `PrecompileFails` | `runNativeAction` with a native write, a bank payment or debit replayed by the balance handler, a nested contract call, and an error |
| `Module`, `Blocked`, `native.paid` | module accounts, those the bank blocks, and what precompiles moved to or from the latter |

The balance handler replays a bank movement on the objects unless the address is blocked (`balance_handler.go:84-87`,
`101-104`). So a blocked account has two balances in the model: `acct[b].bal`, which the StateDB loads and goes on seeing, and
`native.paid[b]`, what the transaction's precompiles have moved since; the bank holds their sum, and a debit needs it to be positive. The first
cannot be flushed over the second, because the keeper refuses to write a module account at all, whatever its
balance: a transaction that makes one dirty can flush and commit no more. `WorldState` has the same two balances and keeps copies of
both, so a revert must restore what was paid too.

The refinement `ImplementsWorld` maps the world to what the objects, the access list and the
top layer stand for (`View`), and each saved copy to what undoing the journal to the
frame's revision would give (`Saved`): it is checked at every step, not only at a
revert. `JournalUnwinds` is what the undo steps rely on without a test: that deleting an
address, cutting the slot list and cutting the store stack touch nothing older.

`statedb` starts from four transactions: account and precompile operations over a wallet and a contract or an
empty address (three snapshots), the same over the wallet and a blocked module account (two), and refund, logs, transient storage and
access list (one); the groups share nothing but the journal, and `whom` bounds the addresses a group names. Three journal entries and
nesting two give a precompile in a frame in a frame, each reverted alone. A module account that is not blocked is
not in the instance; the proofs cover it.

A contract created and destroyed in one transaction at an address that the store holds without
code cannot be deleted by the keeper: the commit fails and the chain is left alone; the
abstract `Commit` allows that where there is a destroyed account or a module account. The second is weaker
than the code, which fails only if the module account is dirty; `WorldState` has no notion of dirty. Not modelled: native
handlers that branch the store themselves, `resetObjectChange` (no caller), the handler of fractional balances (PreciseBank is
not wired), gas. `processedEventsCount` is no variable: a flush sets it to the number of
events so far (`statedb.go:744-746`), undoing a precompile call sets it back (`journal.go:186-190`), and the call is one step here, so that each
event is applied once. What the counter does to coins that a native action moves before it calls a contract itself is not modelled:
the nested call's flush (`state_transition.go:545`) counts those events as processed. `Create` refuses an address with storage as
`GetStorageRoot` reports it, which reads the committed store and not the objects
(`StorageEmpty`). `commitWithCtx` tests a 32-byte value for length zero,
so its DeleteState branch is never taken; the model stores zeros likewise.

### Proofs (`StateDBProofs`)

`TypeOK`, `JournalUnwinds` and `ImplementsWorld` are proved for any addresses, slots, values and
limits, any number of journal entries and any depth of nesting, from `StateDBAssumption`: the
constants have their types, the limit on precompile calls is below what their counter can
hold (20 and 256 in the code), the sender is no module account, blocked accounts are module accounts, and the transactions a behaviour
may start with have well-formed stores in which module accounts exist and nothing was paid yet.

`JournalUnwinds` is not inductive, since undoing an entry leads to a state that has to be undone
further. So the invariant `StateInv` speaks of all the states that undoing goes through:

* `Fits(s, e)`: what the last entry e finds in s when it is undone. `Chain(s)`: the entries of s
  can be undone one after the other, each fitting the state it meets.
* `Sim(B, s, t)`: s and t stand for the same world over the store B. This is the subtle part.
  `getStateObject` loads an object without a journal entry, and undoing a storage write leaves the
  old value in dirtyStorage, so undoing does not bring the earlier state back but one with more in memory.
  Undoing the same entry keeps two states alike (`SimUndo`).
* `Grows(B, s, t)`: t has the journal of s and more, and undone to any position of s it is
  like s undone to it. Every operation is shown to grow its state; `Grows` is transitive, so
  a frame's snapshot stays what it was whatever follows.
* `Whole(B, s)`: a flush would write what the objects stand for, and what is not dirty is as in the
  store. `WholeBut` excepts the accounts whose layer a precompile has just changed.
* `Running`: the above in every state that an open frame can be reverted to, with revisions that increase in number and never
  decrease in journal position, so that the search finds the revision of an open frame (`SearchIs`).

For the refinement, `ViewIn` and `SavedIn` are `View` and `Saved` of any state, and like states have the same
view (`SimView`). Then every operation has a lemma: its effect on the view is the operation of
`WorldState`, and the saved worlds stay (`SavedNext`), grow by the present one (`SnapshotWorld`), or are
cut (`ReturnWorld`, `RevertWorld`). `CommitView` shows that the commit writes the view. For the payments, `NativeSteps` says that
no operation but a precompile's touches the native stores, `FlushedBalance` that a flush leaves in the store the balance the EVM
sees, blocked accounts included, and `PaymentWorld` that a replayed event and the bank's own change together are one change of the view.

The proof corrected `WorldState`, which now warms an address alone or with one of its slots: in the
earlier form both took a slot, so over an empty set of slots no address could be warmed.

## 9. Admission

| Model | Code |
|---|---|
| `chain`, `check` | the nonces of the chain and of the check state |
| `latest` | those of `Blockchain.latestCtx`, which the event bus replaces and `Remove` writes to |
| `poolSeq`, `read`, `resetting` | those of the pool's own state, which shares that context until the next event and caches what it has read; a reset under way |
| `pool` | the EVM pool as a set |
| `checking`, `comet`, `recheck` | admitted and not yet appended; CometBFT's mempool; what it has to recheck |
| `events` | block events on their way |
| `AtCap` | `MaxPendingTxPerWalletDecorator`, which on a recheck counts the rechecked one |
| `Submit`, `Answer` | CheckTx, with `InsertInvalidNonce` for nonces that do not match; CometBFT's append |
| `Recheck` | IsOrphanEVMTx, the ante handler, and `Remove` of what it refuses |
| `RemoveTx` | `mempool.Remove` with the ante handler on the latest context itself |
| `Notify`, `Reset` | `NotifyNewBlock`, which replaces the context; the pool's reset, later and in its goroutine |
| `Evict` | whatever the pool gives up: truncation, lifetime, balance |
| `Propose`, `Foreign`, `EmptyBlock` | blocks, from this pool, from another, or without any of these transactions |

Two details decide what holds here. `RemoveTx`: a check that passes increments the nonce in the latest context
(`mempool.go:391-397`), and in the pool's own state as well for a wallet it has not read since its last
reset. A block's delivered transaction and every refused recheck make such a check. And `Submit` is not the end of an admission: the
pool answers before the run that the addition asked for (`legacypool.go:1038-1056`, `1409-1410`), which may give the transaction up
(`Evict` with the transaction in `checking`); CometBFT then appends a transaction that the pool does not hold.

FinalizeBlock, Commit and the removal of what was delivered are one step, since the consensus connection and CometBFT's mempool
lock exclude CheckTx throughout; a block has at most one of the transactions. What PrepareProposal removes is in `Proposal`.

* `CapHolds`: no wallet has more than its cap, whatever mix of gapped and replacing
  transactions, late events and rechecks.
* `NoHoleBelowCheck`: what CheckTx admits is executable once its predecessors are mined, unless the pool dropped one of the wallet's.
* `OnlyLateLoses`: an unmined transaction is dropped as if it were mined only after a block was executed before the event of
  the one before it had reached the pool. In time, a reset never reads a nonce that `Remove` moved; late, it does (section 12).
* `OrphansLeave` (liveness): what CometBFT holds and the pool does not leaves CometBFT's mempool, or comes back.
* `AdmittedMined` (liveness): what CometBFT holds is mined, or its replacement, unless the pool dropped
  something of that wallet, although a recheck at the cap empties CometBFT's mempool.

`admission`: one wallet, four transactions of three nonces, one with a replacement, a cap of 2, and at most two events on their way (`MaxLag`).
Wallets share nothing here but the events. Three nonces exceed the cap, and two events are the first case in which
one is late. Fairness: CometBFT appends what it admitted, finishes its recheck
and delivers its events, and the pool's reset runs (weak fairness of `Answer`, `Recheck`, `Notify`, `Reset`: each is a loop that
nothing stops); blocks go on, and a wallet with a pending transaction is served by one
(strong fairness of `AnyBlock` and `Propose`, what `Included` shows for `Proposal`).

`MempoolProofs` proves `CapHolds`, `NoHoleBelowCheck` and `OnlyLateLoses` for any number of wallets,
nonces and late events and any cap. `IndInv` adds that a view of the nonces that is ahead of the chain is ahead over pooled
transactions only, for the check state and for the latest context (`Backed`), that the pool has read the nonces of what it holds
(`PoolRead`), and that its own nonces are not ahead of the chain (`PoolBehind`): all of them of wallets of which nothing was dropped.
`LossOnlyLate` needs two more. `Apart`: CometBFT holds no nonce twice, so that a recheck's removals do not meet a nonce they have
already moved. `InTime`: as long as no block was late, the latest context is the chain's between the event and the next block,
and beyond it is ahead only of what was rechecked. The two liveness properties stay with TLC.

## 10. LegacyPool

Per account `pool[a]` holds the pending list, the queue, the account's part of the
lookup (`known`), the pending nonce, the heartbeat and the reservation. `Add` and
`RemoveFailed` are what callers do under the pool lock; `RunReorg` is one background run:
reset, promotion, demotion, nonces, truncation, in the code's order; `Tick` the eviction
timer. `Ready`, `Beyond` are SortedMap's `Ready` and `Cap`; `Level` is the result of the
rounds of `truncatePending`. Which transaction a full pool discards is left to the price heaps:
`Chosen` is what they may choose. If they choose a pending one for a gapped transaction, it is put back and the new one refused
(ErrFutureReplacePending): `Add` discards what is in `Discardable`, and `Refuse` takes the rest.

* `Bookkeeping`: lookup, reservation and heartbeat agree with the lists on every path. (A pending account without a
  heartbeat, which the next tick drops, is no violation: section 12.)
* `PendingContiguous`: pending is the run of nonces from the state's to the pool's.
* `PoolBounded`, `RunRestoresLimits`: the slots are never exceeded, and a run brings
  pending and queue back under their limits.

`pool_lists` has two scenes: one account with three nonces, two prices, balances 1 and 3
and base fees 1 and 2, so that transactions become unpayable and fee-stuck; and two accounts
with two nonces each for two slots. All limits are 1, so that each is exceeded by the
second transaction. The accounts are symmetric.

`LegacyPoolProofs` proves `TypeOK`, `Bookkeeping`, `PendingContiguous`, `PoolBounded` and
`RunRestoresLimits` for any finite set of accounts, any nonces, prices, limits and chain. The
accounts' lists change one account at a time, so the core of the invariant is a predicate of
one account (`Whole`): its books agree, no nonce is in both lists or twice in one, and from the state's
nonce on the pending list is exactly what is below the pending nonce. The last is stronger than
`PendingContiguous`, which says nothing of the pending nonce of an empty list. Within a reset that does not hold: the nonces
have fallen back while the lists are still those of the old state, whose nonces may be behind the new ones.
There `Ahead` is used, which speaks of the nonces from the new state's on only; the state never
goes back (`HeadBehind`). `PromoteWhole` and `DemoteWhole` take lists through it
(`ReorgedSound`). The limits are sums over the accounts: `LevelFacts` says that the level
`truncatePending` ends at fits or is AccountSlots, and `CutsExcess` that what `truncateQueue` drops along
an order of the accounts, each after what was dropped before it, adds up to the excess. Removing the
transactions of a list one after the other is a fold of `RemoveTx` (`RemovedFold`), where a removal from the pending
list puts what follows it into the queue.

Not modelled: SetGasTip and Clear (no caller), the limits on delegated accounts,
transactions of several slots, the split of the price heaps.

## 11. ReorgLoop

The goroutines and what they wait for: inserters hold the mempool's mutex (`mtx`) and
wait for the run they asked for; gapped insertions do not wait; `TxPool.loop` resets to
chain heads, one at a time; `scheduleReorgLoop` merges requests into runs, one at a time;
the run needs the pool lock (`mu`), and so does a caller while it sends to the loop. A
done channel is "next" (of the run not yet launched), "cur" or "closed".

* `ReleasedByOwnRun`: a caller is released by a run launched after its request, or by Close.
* `PoolCatchesUp`: heads that arrive during a reset are kept as one, and the last is reached. A reset that
  cannot get the state of its head (`StateAt`, `legacypool.go:1450-1454`) keeps the old one; that path is left out, so this holds
  as long as the application can give a query context.
* `EveryCallReturns`: no order of steps, Close included, leaves a caller waiting.

`reorg_calls`: two inserters, one gapped insertion, two heads, two calls, Close at any
moment. Fairness is weak fairness of all the goroutines' steps together: some step that
can be taken is taken. Callers, blocks and Close are not fair. The instance may stop when the calls and heads are used up. The
`initSubscriptions` flag of TxPool.Close, which is read without a lock, is not modelled.

`MempoolProofs` proves `ReleasedByOwnRun` for any number of callers, calls and heads, that the pool's head
never goes back (`HeadOnlyAdvances`), and `LocksExclude`, which is part of the invariant: the pool lock is held by exactly
the caller or the run that is between taking and releasing it, and no two runs overlap. The rest
of the invariant says which of the loop and the run has a waiting caller's request
(`Requests`), and that heads travel in order (`HeadsInOrder`).

## 12. Where the code and its comments differ

One has a run, `escrow_nodes`. `app/app.go:676-677`: "gas is deterministic across all
nodes, independent of when the cache was built. Content/blocking decision unchanged."
The cache is filled by the first custom-token transfer at a height, and verifying a
proposal counts. If a block opens a channel and then touches its escrow address, a node
that verified a transfer before the block lets this pass, and one that replays the block
alone refuses it.

The others were met while modelling. They have no run; the models follow the code, and the passing
properties are worded so that they hold of it.

* Tax (`StocTx`). `tax_post.go:33-34`: "if tax collection fails, the transaction MUST fail." A
  leg that fails is logged and skipped (`PostSkip`); `SkippedOnlyIfDrained` says when.
* Wallets only (`StocTx`). `app.go:732-734`: the restriction "prevents custom stoc tokens from being sent to
  or from any account that is not a regular user wallet." CreateToken pays its
  distribution before it registers the denom; a vesting account that receives a share
  keeps it for ever (`NonWalletFrozen`).
* Burning (`StocTx`). `msg_server_burn_token.go:12`: "ANY token holder". That account cannot burn its share either: the
  coins would pass through the module account, which the send restriction refuses (`WalletsCanBurn` speaks of wallets).
* Dust (`EvmBank`). `bank_keeper.go:369-370`: "dust below 1 ustoc is burned by the conversion". A burn takes
  rounded up and burns rounded down; the ustoc in between stays in the x/vm module account.
* Cascade skip (`Proposal`). `permanent_nonce_err.go:7-9`: the next nonce of the account "would itself
  fail". With a stale pool it would have been executed; it is included later (`Included`).
* Fallback (`Proposal`). `abci_proposal.go:79-81`: "so the block still proposes (loses the cascade-skip
  benefit for THIS block only)". The default handler verifies on the proposal state that the loop
  has used. What the loop had verified fails there with a sequence error and is removed; `Remove` asks the ante
  handler again only for EVM transactions, so an executable Cosmos transaction leaves the mempool.
  TLC finds this in ten steps when `MCProposal_mixed.cfg` checks `HealthyKept` (with all transactions
  convertible), and not when nothing panics. For the same reason
  the validators may reject the block that the fallback builds.
* Poison (`Proposal`). `abci_proposal.go:94-96`: "the next PrepareProposal cycle sees a clean mempool head". Remove
  keeps an EVM transaction that passes the ante handler.
* Late registration (`MsgScreen`). `custom_token_restriction.go:239-241`: "any proposal entering chain state while
  this decorator is active is guaranteed not to carry custom-token inner messages." True of tokens
  registered at submission (`KnownTokensStayTaxed`), not of denoms registered later.
* Delegation (`MsgScreen`). `authz_disabled_types.go:39-40`: "Every supply-changing event must be directly signed by the
  issuer." The screen and the limiter look into MsgExec only: a group proposal may hold a MsgExec of such
  a message, and what it runs is not screened (`OnlyProposalsDelegate`).
* Module accounts (`StateDB`). `balance_handler.go:54-66` explains the bypass by authorization errors for "BlockedAddresses in
  app.go". A module account that the list does not name (`app_config.go:182-215`; gov's, for one) is not bypassed: a precompile
  that pays it makes its object dirty, and every later flush and the commit fail.
* Precompile limit (`StateDB`). `x/vm/types/call.go:12-14`: "MaxPrecompileCalls is the maximum number of precompile
  calls within a transaction." The counter is a uint8 that refused calls increment too;
  after 255 it starts again. The run's `CounterSize` is 256 and its bounds stay below.
* Replacements (`LegacyPool`). `validation.go:245-246`: replacements "skip — handled below". For a replacement
  only its own cost is compared with the balance.
* Promotion at a reset (`LegacyPool`). `legacypool.go:1346-1347`: "For resets, all addresses in the tx queue will
  be promoted". The pending nonces are set back first, so a queue that continues a
  pending list stays until the account's next event.
* Eviction (`LegacyPool`). `legacypool.go:401-403`: "Legitimate pending txs mine within seconds and never
  reach Lifetime." The heartbeat is deleted with the queue, a missing one reads as the
  zero time, and the next tick drops the pending list, however new.
* Removal checks (`Admission`). `mempool.go:391-397` checks a transaction on the latest context, and a check that passes writes to it.
  If the next block is executed before the event of the last one, the event bus delivers a context that later removals
  move, and the reset that follows takes unmined transactions of the wallet for mined (`OnlyLateLoses`).
* Cap at recheck (`Admission`). `max_pending_tx.go:69-71`: a gate on CheckTx only "would let a sender keep the pool
  full indefinitely via Recheck". The recheck is refused, CometBFT forgets the transaction, the pool
  keeps it. And at the cap a replacement is refused too, while the error (`:145`) says "cancel them".
* RPC (`Admission`). `rpc/backend/call_tx.go:193`: "tx.Nonce() < poolNonce → duplicate / replay". A replacement that the pool took is
  reported as an error.
* Gossip (`Admission`, `Notify`). `mempool.go:155-156`: the mempool "will broadcast transactions when it promotes them". `setEVMMempool`
  (`app/evm.go:240`) copies the client context before it has a client, so the broadcast fails.

## 13. Runs at a glance

| Run | Module | States | Checks |
|---|---|---|---|
| `stoc_lifecycle` | `StocTx` | 674 000 | books, counter, terms, frozen accounts |
| `stoc_tax` | `StocTx` | 489 000 | when a tax is lost |
| `escrow_cache` | `EscrowCache` | 1 204 000 | cache against state, one node |
| `escrow_nodes` | `EscrowCache` | (violation) | two nodes |
| `msg_walkers` | `MsgScreen` | @MSG | the five walks |
| `evm_conversion` | `EvmBank` | 1 190 000 | coins, fees, vesting |
| `statedb` | `StateDB` | 83 000 | refinement of `WorldState` |
| `proposal_mixed` | `Proposal` | 43 000 | acceptance, return |
| `proposal_inclusion` | `Proposal` | 14 000 | liveness, evictions |
| `admission` | `Admission` | 257 000 | cap, two mempools, liveness |
| `pool_lists` | `LegacyPool` | 297 000 | lists and limits |
| `reorg_calls` | `ReorgLoop` | 83 000 | waiting, shutdown, liveness |

Each takes less than two minutes with two workers. `CHECK_DEADLOCK FALSE` is set where the
bounds, or a finished transaction, end the behaviour.

## 14. What is only model-checked, and what is not modelled

TLAPS does not reason about liveness under fairness or ENABLED here, so `Included`,
`HandlerReturns`, `AdmittedMined`, `EveryCallReturns` and `PoolCatchesUp` stay with TLC. The safety
properties of the passing runs all have proofs.

The library's induction theorems are stated for every operator P(_), which the provers cannot
instantiate. `FoldFacts` therefore states induction for sets: a set of naturals
(`NatSetInduction`) or of subsets of a finite set (`SubsetInduction`, `RemovalInduction`) that is
closed under the induction step has all of them. From these follow what the models' sums are (empty, one
element more or less, pointwise sums, slack), and that the recursion behind FoldLeft has a
solution (`FoldingExists`). An operator handed to a fold cannot be a parameter of a lemma either, so each
operator that is folded (`Executed`, `RemoveTx`, the messages of `MsgScreen`) has its own short copy of the argument.

Not modelled: the EVM interpreter and Solidity contracts, JSON-RPC and the indexer, the
command line, application wiring, upgrades, the fee market and generated code; the
reasons are in `PROJECT.json`. About half of the
repository's Go code is generated protobuf code, and most of the rest is the fork with its
RPC layer, precompiles and test support; the application itself has some 10 000 lines. What is
mapped is the application's own logic and the parts of the fork it changes or leans on.

## 15. Running it

    tlc -workers 2 -config MCStocTx_lifecycle.cfg MCStocTx
    tlapm StocTxProofs.tla

and likewise for the other configurations, whose modules `PROJECT.json` names, and for
`FoldFacts` and the other `*Proofs` modules. Most take a few minutes; `StateDBProofs` takes
some ten.
