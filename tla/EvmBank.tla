------------------------------- MODULE EvmBank -------------------------------
(***************************************************************************)
(* An EVM transaction over the native coin.  The bank counts ustoc (6      *)
(* decimals), the EVM astoc (18 decimals); EvmBankKeeper converts between  *)
(* them.  A transaction buys its gas in the ante handler, moves astoc      *)
(* between accounts inside the StateDB, writes the accounts it touched     *)
(* back to the bank by minting or burning the difference (before every     *)
(* precompile call and at its end), and refunds the gas it did not use.    *)
(* The writes of one StateDB go to distinct accounts of one store branch,  *)
(* so their order is immaterial and a write of all of them is one step.    *)
(***************************************************************************)
EXTENDS Integers, FiniteSets, FiniteSetsExt, Functions

CONSTANTS
  Account,         \* accounts the EVM reaches
  NoPayer,         \* the payer while no transaction runs
  ModuleAccount,   \* those SetBalanceWithLocked refuses to write
  Precompile,      \* those no bank transfer may credit
  Multiplier,      \* ConversionMultiplier, 10^12 in the code
  GenesisCoins,    \* ustoc of each account at genesis
  GenesisLocked,   \* the vesting part of it
  MaxFee,          \* bound: astoc a transaction pays for its gas limit
  MaxSteps,        \* bound: transfers and precompile calls of a transaction
  MaxTxs           \* bound: transactions

ASSUME EvmBankAssumption ==
  /\ IsFiniteSet(Account) /\ NoPayer \notin Account
  /\ ModuleAccount \subseteq Account /\ Precompile \subseteq Account
  /\ Multiplier \in Nat \ {0}
  /\ MaxFee \in Nat /\ MaxSteps \in Nat /\ MaxTxs \in Nat
  /\ GenesisCoins \in [Account -> Nat] /\ GenesisLocked \in [Account -> Nat]
  /\ \A a \in Account : GenesisLocked[a] <= GenesisCoins[a]

VARIABLES
  coins,        \* bank: ustoc of each account
  locked,       \* bank: the vesting part of it, not spendable
  bonded,       \* bank: ustoc delegated, held by the staking pool
  evmModule,    \* bank: ustoc of the x/vm module account
  feeCollector, \* bank: ustoc of the fee collector
  phase,        \* "idle", "run", "refund" (committed), "failed" (reverted)
  payer, fee,   \* who bought the gas, and for how much astoc
  evm,          \* StateDB: spendable astoc of each account
  snapshot,     \* StateDB: Account.lockedBalance, read when it was loaded
  dirty,        \* StateDB: accounts in the journal
  nsteps, ntxs, \* how often the bounded actions were taken
  backup,       \* the bank as the ante handler left it
  earned        \* astoc the gas used since the last sweep cost

\* Accounts that a key or a contract moves coins from.
User == Account \ (ModuleAccount \cup Precompile)

bank == [coins |-> coins, locked |-> locked, bonded |-> bonded,
         evmModule |-> evmModule]
stateDB == <<evm, snapshot, dirty>>
gas == <<payer, fee>>
bounds == <<nsteps, ntxs>>
vars == <<coins, locked, bonded, evmModule, feeCollector, phase, payer, fee,
          evm, snapshot, dirty, nsteps, ntxs, backup, earned>>

\* Between transactions there is no StateDB.
NoBank == [coins |-> [a \in Account |-> 0], locked |-> [a \in Account |-> 0],
           bonded |-> 0, evmModule |-> 0]
EndTx ==
  /\ payer' = NoPayer /\ fee' = 0
  /\ evm' = NoBank.coins /\ snapshot' = NoBank.locked /\ dirty' = {}
  /\ backup' = NoBank /\ nsteps' = 0

-----------------------------------------------------------------------------
(* The conversions.                                                        *)

ToEvm(n) == n * Multiplier

InflowRoundDown(x) == x \div Multiplier

\* convertCoinsForInflow: up to the next ustoc.
Inflow(x) ==
  LET remainder == x % Multiplier
  IN  (IF remainder = 0 THEN x ELSE (x - remainder) + Multiplier) \div Multiplier

OutflowRoundUp(x) == Inflow(x)

\* convertCoinsForOutflow: down, and a leg below one ustoc is dropped.
Outflow(x) == x \div Multiplier

Spendable(a) == IF coins[a] > locked[a] THEN coins[a] - locked[a] ELSE 0

-----------------------------------------------------------------------------
(* Writing the StateDB to the bank.                                        *)

\* SetBalance, which reads LockedCoins when it writes.
TargetReread(a) == evm[a] + ToEvm(locked[a])

\* SetBalanceWithLocked: what the account should own in the bank, in astoc.
Target(a) == evm[a] + ToEvm(snapshot[a])

\* A module account is refused whatever the change, a precompile's address
\* when it is to be credited, by a send restriction.
CanWrite(a) ==
  /\ a \notin ModuleAccount
  /\ Target(a) > ToEvm(coins[a]) => a \notin Precompile

\* MintAmountToAccount mints and sends on rounded down; BurnAmountFromAccount
\* takes from the account rounded up.
Settled(a) ==
  IF Target(a) >= ToEvm(coins[a])
  THEN coins[a] + Outflow(Target(a) - ToEvm(coins[a]))
  ELSE coins[a] - Inflow(ToEvm(coins[a]) - Target(a))

\* BurnAmountFromAccount: what the module account received from a, rounded
\* up, less what it burns, rounded down.
Dust(a) ==
  LET x == ToEvm(coins[a]) - Target(a)
  IN  IF x > 0 THEN Inflow(x) - Outflow(x) ELSE 0

\* commitWithCtx: SetAccount for every journalled account.
Writable == \A a \in dirty : CanWrite(a)
Written == [a \in Account |-> IF a \in dirty THEN Settled(a) ELSE coins[a]]
DustKept == FoldFunctionOnSet(+, evmModule, [a \in Account |-> Dust(a)], dirty)

-----------------------------------------------------------------------------
(* The transaction.                                                        *)

CanPayLocked(a, f) == Inflow(f) <= coins[a]
CanPayTruncated(a, f) == InflowRoundDown(f) <= Spendable(a)

CanPay(a, f) == Inflow(f) <= Spendable(a)

\* The ante handler deducts the price of the whole gas limit; the message
\* then starts from a StateDB over that bank.
BuyGas(a, f) ==
  /\ phase = "idle" /\ ntxs < MaxTxs
  /\ CanPay(a, f)
  /\ UNCHANGED <<locked, bonded, evmModule, earned>>
  /\ coins' = [coins EXCEPT ![a] = @ - Inflow(f)]
  /\ feeCollector' = feeCollector + Inflow(f)
  /\ payer' = a /\ fee' = f
  /\ backup' = [bank EXCEPT !.coins = coins']
  /\ evm' = [b \in Account |-> ToEvm(Spendable(b)')]
  /\ snapshot' = locked /\ dirty' = {}
  /\ phase' = "run" /\ ntxs' = ntxs + 1 /\ UNCHANGED nsteps

\* SubBalance and AddBalance, and the journal's record of both.
EvmTransfer(a, b, x) ==
  /\ phase = "run" /\ nsteps < MaxSteps
  /\ x <= evm[a]
  /\ evm' = [[evm EXCEPT ![a] = @ - x] EXCEPT ![b] = @ + x]
  /\ dirty' = dirty \cup {a, b}
  /\ nsteps' = nsteps + 1
  /\ UNCHANGED <<coins, locked, bonded, evmModule, feeCollector, phase, gas,
                 snapshot, ntxs, backup, earned>>

\* runNativeAction of the staking precompile: flush, delegate (vesting coins
\* first), and subtract the bank's coin_spent event from the StateDB.
Delegate(a, n) ==
  /\ phase = "run" /\ nsteps < MaxSteps
  /\ Writable
  /\ n <= Written[a] /\ ToEvm(n) <= evm[a]
  /\ coins' = [Written EXCEPT ![a] = @ - n]
  /\ evmModule' = DustKept
  /\ bonded' = bonded + n
  /\ locked' = [locked EXCEPT ![a] = IF n < @ THEN @ - n ELSE 0]
  /\ evm' = [evm EXCEPT ![a] = @ - ToEvm(n)]
  /\ dirty' = dirty \cup {a}
  /\ nsteps' = nsteps + 1
  /\ UNCHANGED <<feeCollector, phase, gas, snapshot, ntxs, backup, earned>>

\* StateDB.Commit, and ApplyTransaction's commitFn.
Commit ==
  /\ phase = "run"
  /\ Writable
  /\ coins' = Written
  /\ evmModule' = DustKept
  /\ phase' = "refund"
  /\ UNCHANGED <<locked, bonded, feeCollector, gas, stateDB, bounds, backup,
                 earned>>

Restore ==
  /\ coins' = backup.coins /\ locked' = backup.locked
  /\ bonded' = backup.bonded /\ evmModule' = backup.evmModule

\* The EVM reverted: the branch is dropped, the unused gas is refunded.
VmError ==
  /\ phase = "run"
  /\ Restore
  /\ phase' = "failed"
  /\ UNCHANGED <<feeCollector, gas, stateDB, bounds, backup, earned>>

\* A delegation the StateDB's balance cannot bear: SubBalance panics.
Underflows == \E a \in User : Writable /\ ToEvm(Written[a]) > evm[a]

\* An error or a panic of the message: no refund, the whole fee stays.
Abort ==
  /\ phase = "run"
  /\ ~Writable \/ Underflows
  /\ Restore
  /\ phase' = "idle" /\ earned' = earned + fee
  /\ EndTx
  /\ UNCHANGED <<feeCollector, ntxs>>

\* RefundGas: the gas left over, from the fee collector.
RefundGas(x) ==
  /\ phase \in {"refund", "failed"}
  /\ x <= fee
  /\ coins' = [coins EXCEPT ![payer] = @ + Outflow(x)]
  /\ feeCollector' = feeCollector - Outflow(x)
  /\ earned' = earned + fee - x
  /\ phase' = "idle"
  /\ EndTx
  /\ UNCHANGED <<locked, bonded, evmModule, ntxs>>

\* The distribution module's BeginBlocker empties the fee collector.
Sweep ==
  /\ phase = "idle" /\ feeCollector > 0
  /\ feeCollector' = 0 /\ earned' = 0
  /\ UNCHANGED <<coins, locked, bonded, evmModule, phase, gas, stateDB,
                 bounds, backup>>

\* Vesting goes on from block to block.
Vest(a) ==
  /\ phase = "idle" /\ locked[a] > 0
  /\ locked' = [locked EXCEPT ![a] = @ - 1]
  /\ UNCHANGED <<coins, bonded, evmModule, feeCollector, phase, gas, stateDB,
                 bounds, backup, earned>>

Init ==
  /\ coins = GenesisCoins /\ locked = GenesisLocked
  /\ bonded = 0 /\ evmModule = 0 /\ feeCollector = 0
  /\ phase = "idle" /\ payer = NoPayer /\ fee = 0
  /\ evm = NoBank.coins /\ snapshot = NoBank.locked /\ dirty = {}
  /\ backup = NoBank
  /\ nsteps = 0 /\ ntxs = 0 /\ earned = 0

Next ==
  \/ \E a \in User, f \in 0..MaxFee : BuyGas(a, f)
  \/ \E a \in User, b \in Account : \E x \in 1..evm[a] : EvmTransfer(a, b, x)
  \/ \E a \in User : \E n \in 1..Outflow(evm[a]) : Delegate(a, n)
  \/ Commit \/ VmError \/ Abort
  \/ \E x \in 0..fee : RefundGas(x)
  \/ Sweep
  \/ \E a \in Account : Vest(a)

Spec == Init /\ [][Next]_vars

-----------------------------------------------------------------------------
(* Properties.                                                             *)

Bank == [coins : [Account -> Nat], locked : [Account -> Nat],
         bonded : Nat, evmModule : Nat]

\* Balances never go below zero, in the bank or in the StateDB.
TypeOK ==
  /\ bank \in Bank /\ backup \in Bank
  /\ feeCollector \in Nat /\ earned \in Nat
  /\ phase \in {"idle", "run", "refund", "failed"}
  /\ payer \in Account \cup {NoPayer} /\ fee \in Nat
  /\ evm \in [Account -> Nat] /\ snapshot \in [Account -> Nat]
  /\ dirty \subseteq Account
  /\ nsteps \in 0..MaxSteps /\ ntxs \in 0..MaxTxs

\* SetBalanceWithLocked leaves every account, once the transaction is
\* committed, the whole ustoc of what the EVM says it can spend on top of the
\* vesting coins it had when it was loaded, also when a precompile delegated
\* some of them meanwhile.
BankMirrorsEvm ==
  phase = "refund" =>
    \A a \in Account :
      /\ ToEvm(coins[a] - snapshot[a]) <= evm[a]
      /\ evm[a] < ToEvm(coins[a] - snapshot[a] + 1)

\* The rounding directions of EvmBankKeeper together: a committed transaction
\* makes its users no richer, and however often it flushed it costs them less
\* than one ustoc for each account it touched.
DustBounded ==
  phase = "refund" =>
    LET before == SumFunction(backup.coins) + backup.bonded
        after  == SumFunction(coins) + bonded
    IN  /\ after <= before
        /\ ToEvm(before - after) <= (Multiplier - 1) * Cardinality(dirty)

\* Vesting coins stay in their account whatever the transaction spends on
\* gas, transfers and delegations.
VestingStaysLocked == \A a \in Account : locked[a] <= coins[a]

\* RefundGas never takes from the fee collector what earlier transactions of
\* the block paid: it holds the price of all the gas used, and of the whole
\* limit of the transaction under way.
FeesKept ==
  LET pending == IF phase = "idle" THEN 0 ELSE fee
  IN  earned + pending <= ToEvm(feeCollector)
=============================================================================
