---------------------------- MODULE EvmBankProofs ----------------------------
(***************************************************************************)
(* Proofs about EvmBank for every set of accounts, every multiplier and    *)
(* every genesis.                                                          *)
(***************************************************************************)
EXTENDS EvmBank, FoldFacts

-----------------------------------------------------------------------------
(* The inductive invariant.                                                *)

\* What the accounts should own in the bank, in astoc.
Targets == [a \in Account |-> Target(a)]

\* The message's branch may be dropped at any time: the copy of the bank that
\* the ante handler left is itself sound.
BackupSound ==
  phase # "idle" => /\ payer \in Account
                    /\ \A a \in Account : backup.locked[a] <= backup.coins[a]

\* While the message runs vesting coins only get fewer.
VestingLoaded == phase = "run" => \A a \in Account : locked[a] <= snapshot[a]

\* The StateDB says of an account it did not touch what the bank says.
CleanMirrored ==
  phase \in {"run", "refund"} =>
    \A a \in Account \ dirty : evm[a] = ToEvm(coins[a] - snapshot[a])

\* The message moves astoc between accounts and into delegations, and neither
\* makes nor destroys any.
Conserved ==
  phase \in {"run", "refund"} =>
    SumFrom(0, Targets, Account) + ToEvm(bonded)
      = ToEvm(SumFrom(0, backup.coins, Account)) + ToEvm(backup.bonded)

IndInv ==
  /\ TypeOK /\ VestingStaysLocked /\ FeesKept /\ BankMirrorsEvm
  /\ BackupSound /\ VestingLoaded /\ CleanMirrored /\ Conserved

-----------------------------------------------------------------------------
(* The conversions.                                                        *)

\* convertCoinsForOutflow rounds down, by less than one ustoc.
LEMMA OutflowBounds ==
  ASSUME NEW x \in Nat
  PROVE  Outflow(x) \in Nat /\ ToEvm(Outflow(x)) <= x /\ x < ToEvm(Outflow(x) + 1)
BY EvmBankAssumption DEF Outflow, ToEvm

\* convertCoinsForInflow rounds up, by less than one ustoc.
LEMMA InflowBounds ==
  ASSUME NEW x \in Nat
  PROVE  Inflow(x) \in Nat /\ x <= ToEvm(Inflow(x)) /\ ToEvm(Inflow(x)) < x + Multiplier
BY EvmBankAssumption DEF Inflow, ToEvm

-----------------------------------------------------------------------------
(* Writing the StateDB to the bank.                                        *)

\* Whichever way SetBalanceWithLocked goes, by minting or by burning, the
\* account ends with the whole ustoc of its target.
LEMMA SettledFloor ==
  ASSUME NEW a \in Account, coins[a] \in Nat, evm[a] \in Nat, snapshot[a] \in Nat
  PROVE  /\ Settled(a) \in Nat /\ Target(a) \in Nat /\ snapshot[a] <= Settled(a)
         /\ ToEvm(Settled(a)) <= Target(a) /\ Target(a) < ToEvm(Settled(a) + 1)
         /\ Dust(a) \in Nat
<1> DEFINE T == Target(a)
           C == ToEvm(coins[a])
<1>1. /\ T \in Nat /\ C \in Nat /\ T = evm[a] + ToEvm(snapshot[a]) /\ Multiplier \in Nat
  BY EvmBankAssumption DEF Target, ToEvm
<1>2. Settled(a) = IF T >= C THEN coins[a] + Outflow(T - C) ELSE coins[a] - Inflow(C - T)
  BY DEF Settled
<1>3. Dust(a) = IF C - T > 0 THEN Inflow(C - T) - Outflow(C - T) ELSE 0
  BY DEF Dust
<1>4. Settled(a) \in Int /\ ToEvm(Settled(a)) <= T /\ T < ToEvm(Settled(a) + 1)
  <2>1. CASE T >= C
    <3> DEFINE o == Outflow(T - C)
    <3>1. T - C \in Nat
      BY <1>1, <2>1
    <3>2. o \in Nat /\ ToEvm(o) <= T - C /\ T - C < ToEvm(o + 1)
      BY <3>1, OutflowBounds
    <3>3. Settled(a) = coins[a] + o
      BY <1>2, <2>1
    <3> HIDE DEF o
    <3>4. ToEvm(coins[a] + o) = C + ToEvm(o) /\ ToEvm(o + 1) = ToEvm(o) + Multiplier
          /\ ToEvm(coins[a] + o + 1) = ToEvm(coins[a] + o) + Multiplier
          /\ ToEvm(o) \in Int
      BY <3>2, EvmBankAssumption DEF ToEvm
    <3> HIDE DEF T, C
    <3> QED BY <1>1, <3>2, <3>3, <3>4
  <2>2. CASE ~(T >= C)
    <3> DEFINE o == Inflow(C - T)
    <3>1. C - T \in Nat
      BY <1>1, <2>2
    <3>2. o \in Nat /\ C - T <= ToEvm(o) /\ ToEvm(o) < C - T + Multiplier
      BY <3>1, InflowBounds
    <3>3. Settled(a) = coins[a] - o
      BY <1>2, <2>2
    <3> HIDE DEF o
    <3>4. ToEvm(coins[a] - o) = C - ToEvm(o)
          /\ ToEvm(coins[a] - o + 1) = ToEvm(coins[a] - o) + Multiplier
          /\ ToEvm(o) \in Int
      BY <3>2, EvmBankAssumption DEF ToEvm
    <3> HIDE DEF T, C
    <3> QED BY <1>1, <3>2, <3>3, <3>4
  <2> QED BY <2>1, <2>2
<1>5. snapshot[a] <= Settled(a)
  <2>1. ToEvm(snapshot[a]) \in Int /\ ToEvm(Settled(a) + 1) \in Int
    BY <1>4, EvmBankAssumption DEF ToEvm
  <2>2. ToEvm(snapshot[a]) < ToEvm(Settled(a) + 1)
    <3> HIDE DEF T, C
    <3> QED BY <1>1, <1>4, <2>1
  <2>3. snapshot[a] < Settled(a) + 1
    BY <1>4, <2>2, EvmBankAssumption DEF ToEvm
  <2> QED BY <1>4, <2>3
<1>6. Dust(a) \in Nat
  <2>1. CASE C - T > 0
    <3> DEFINE x == C - T
    <3>1. x \in Nat
      BY <1>1, <2>1
    <3>2. Inflow(x) \in Nat /\ Outflow(x) \in Nat /\ ToEvm(Outflow(x)) <= x /\ x <= ToEvm(Inflow(x))
      BY <3>1, InflowBounds, OutflowBounds
    <3>3. ToEvm(Outflow(x)) \in Int /\ ToEvm(Inflow(x)) \in Int
      BY <3>2, EvmBankAssumption DEF ToEvm
    <3>4. ToEvm(Outflow(x)) <= ToEvm(Inflow(x))
      <4> HIDE DEF x
      <4> QED BY <3>1, <3>2, <3>3
    <3>5. Outflow(x) <= Inflow(x)
      BY <3>2, <3>4, EvmBankAssumption DEF ToEvm
    <3> QED BY <1>3, <2>1, <3>2, <3>5
  <2>2. CASE ~(C - T > 0)
    BY <1>3, <2>2
  <2> QED BY <2>1, <2>2
<1> QED BY <1>1, <1>4, <1>5, <1>6

\* What a write of the journalled accounts leaves in the bank.
LEMMA WrittenFacts ==
  ASSUME IndInv, phase = "run"
  PROVE  /\ Written \in [Account -> Nat] /\ DustKept \in Nat
         /\ \A a \in Account :
              /\ Target(a) \in Nat
              /\ snapshot[a] <= Written[a]
              /\ ToEvm(Written[a]) <= Target(a) /\ Target(a) < ToEvm(Written[a] + 1)
              /\ a \notin dirty => /\ Written[a] = coins[a]
                                   /\ ToEvm(Written[a]) = Target(a)
<1>1. \A a \in Account : coins[a] \in Nat /\ evm[a] \in Nat /\ snapshot[a] \in Nat
                         /\ locked[a] \in Nat
  BY DEF IndInv, TypeOK, Bank, bank
<1>2. \A a \in Account : Written[a] = IF a \in dirty THEN Settled(a) ELSE coins[a]
  BY DEF Written
<1>3. DustKept \in Nat
  <2> DEFINE f == [a \in Account |-> Dust(a)]
  <2>1. DustKept = SumFrom(evmModule, f, dirty)
    BY DEF DustKept, SumFrom
  <2>2. IsFiniteSet(dirty) /\ dirty \subseteq Account /\ evmModule \in Nat
    BY EvmBankAssumption, FS_Subset DEF IndInv, TypeOK, Bank, bank
  <2>3. \A a \in dirty : f[a] \in Nat
    BY <1>1, <2>2, SettledFloor
  <2> HIDE DEF f
  <2> QED BY <2>1, <2>2, <2>3, SumNat
<1>4. ASSUME NEW a \in Account
      PROVE  /\ Target(a) \in Nat
             /\ Written[a] \in Nat
             /\ snapshot[a] <= Written[a]
             /\ ToEvm(Written[a]) <= Target(a) /\ Target(a) < ToEvm(Written[a] + 1)
             /\ a \notin dirty => /\ Written[a] = coins[a]
                                  /\ ToEvm(Written[a]) = Target(a)
  <2>0. Target(a) \in Nat /\ Settled(a) \in Nat
    BY <1>1, SettledFloor
  <2>1. CASE a \in dirty
    <3>1. Written[a] = Settled(a)
      BY <1>2, <2>1
    <3> QED BY <1>1, <2>1, <3>1, SettledFloor
  <2>2. CASE a \notin dirty
    <3>1. Written[a] = coins[a]
      BY <1>2, <2>2
    <3>2. evm[a] = ToEvm(coins[a] - snapshot[a])
      BY <2>2 DEF IndInv, CleanMirrored
    <3>3. ToEvm(coins[a] - snapshot[a]) = ToEvm(coins[a]) - ToEvm(snapshot[a])
          /\ ToEvm(coins[a]) \in Int /\ ToEvm(snapshot[a]) \in Int
          /\ ToEvm(coins[a] + 1) = ToEvm(coins[a]) + Multiplier
      BY <1>1, EvmBankAssumption DEF ToEvm
    <3>4. Target(a) = ToEvm(coins[a])
      BY <3>2, <3>3 DEF Target
    <3>5. ToEvm(snapshot[a]) <= ToEvm(coins[a])
      BY <1>1, <3>2, <3>3
    <3>6. snapshot[a] <= coins[a]
      BY <1>1, <3>5, EvmBankAssumption DEF ToEvm
    <3> QED BY <1>1, <2>0, <2>2, <3>1, <3>3, <3>4, <3>6, EvmBankAssumption
  <2> QED BY <2>1, <2>2
<1>5. Written \in [Account -> Nat]
  BY <1>4 DEF Written
<1> QED BY <1>3, <1>4, <1>5

-----------------------------------------------------------------------------
(* The invariant is inductive.                                             *)

\* The variables' types, with the records taken apart.
LEMMA Unfolded ==
  ASSUME TypeOK
  PROVE  /\ coins \in [Account -> Nat] /\ locked \in [Account -> Nat]
         /\ bonded \in Nat /\ evmModule \in Nat /\ feeCollector \in Nat /\ earned \in Nat
         /\ backup \in Bank /\ backup.coins \in [Account -> Nat]
         /\ backup.locked \in [Account -> Nat] /\ backup.bonded \in Nat /\ backup.evmModule \in Nat
         /\ phase \in {"idle", "run", "refund", "failed"}
         /\ payer \in Account \cup {NoPayer} /\ fee \in Nat
         /\ evm \in [Account -> Nat] /\ snapshot \in [Account -> Nat] /\ dirty \subseteq Account
         /\ nsteps \in 0..MaxSteps /\ ntxs \in 0..MaxTxs
BY DEF TypeOK, bank, Bank

\* A bank from its parts.
LEMMA BankRecord ==
  ASSUME NEW c \in [Account -> Nat], NEW l \in [Account -> Nat], NEW n \in Nat, NEW m \in Nat
  PROVE  [coins |-> c, locked |-> l, bonded |-> n, evmModule |-> m] \in Bank
BY DEF Bank

\* What an idle node keeps of a transaction.
LEMMA NoBankType ==
  /\ NoBank \in Bank /\ NoBank.coins \in [Account -> Nat] /\ NoBank.locked \in [Account -> Nat]
BY DEF NoBank, Bank

\* The chain starts with no block running and with books that agree.
LEMMA InitInv == Init => IndInv
<1> SUFFICES ASSUME Init PROVE IndInv
  OBVIOUS
<1> USE DEF Init
<1>1. TypeOK
  BY NoBankType, EvmBankAssumption DEF TypeOK, bank, Bank
<1>2. VestingStaysLocked
  BY EvmBankAssumption DEF VestingStaysLocked
<1>3. FeesKept
  BY EvmBankAssumption DEF FeesKept, ToEvm
<1> QED BY <1>1, <1>2, <1>3
        DEF IndInv, BankMirrorsEvm, BackupSound, VestingLoaded, CleanMirrored, Conserved

\* One summand of a ledger's sum changes.
LEMMA SumShift ==
  ASSUME NEW f \in [Account -> Int], NEW g \in [Account -> Int], NEW a \in Account, NEW k \in Int,
         \A c \in Account : g[c] = IF c = a THEN f[c] + k ELSE f[c]
  PROVE  SumFrom(0, g, Account) = SumFrom(0, f, Account) + k
<1>1. Summable(f, Account)
  BY EvmBankAssumption DEF Summable
<1>2. g[a] \in Int /\ \A x \in Account \ {a} : g[x] = f[x]
  OBVIOUS
<1>3. SumFrom(0, g, Account) = SumFrom(0, f, Account) + (g[a] - f[a])
  BY <1>1, <1>2, SumUpdate
<1>4. g[a] - f[a] = k
  OBVIOUS
<1> QED BY <1>3, <1>4

\* The ante handler buys the gas.
LEMMA BuyGasInv ==
  ASSUME IndInv, NEW a \in User, NEW f \in 0..MaxFee, BuyGas(a, f)
  PROVE  IndInv'
<1> USE DEF BuyGas
<1>0. a \in Account /\ f \in Nat /\ Multiplier \in Nat \ {0}
  BY EvmBankAssumption DEF User
<1>1. TypeOK
  BY DEF IndInv
<1>2. Inflow(f) \in Nat /\ f <= ToEvm(Inflow(f))
  BY <1>0, InflowBounds
<1>3. Inflow(f) <= coins[a] - locked[a]
  BY <1>0, <1>1, <1>2, Unfolded DEF CanPay, Spendable, IndInv, VestingStaysLocked
<1>4. /\ coins' \in [Account -> Nat]
      /\ \A b \in Account : locked[b] <= coins'[b]
  BY <1>0, <1>1, <1>2, <1>3, Unfolded DEF IndInv, VestingStaysLocked
<1>5. /\ evm' \in [Account -> Nat]
      /\ \A b \in Account : evm'[b] = ToEvm(coins'[b] - locked[b])
  <2>1. ASSUME NEW b \in Account
        PROVE  Spendable(b)' = coins'[b] - locked[b] /\ coins'[b] - locked[b] \in Nat
    BY <1>1, <1>4, Unfolded DEF Spendable
  <2>2. \A n \in Nat : ToEvm(n) \in Nat
    BY <1>0 DEF ToEvm
  <2> QED BY <2>1, <2>2
<1>6. backup' = [coins |-> coins', locked |-> locked, bonded |-> bonded, evmModule |-> evmModule]
  BY DEF bank
<1>7. TypeOK'
  <2>1. backup' \in Bank
    <3>1. locked \in [Account -> Nat] /\ bonded \in Nat /\ evmModule \in Nat
      BY <1>1, Unfolded
    <3>2. [coins |-> coins', locked |-> locked, bonded |-> bonded, evmModule |-> evmModule] \in Bank
      BY <1>4, <3>1, BankRecord
    <3> QED BY <1>6, <3>2, Zenon
  <2>2. ntxs + 1 \in 0..MaxTxs
    BY <1>1, Unfolded, EvmBankAssumption
  <2> QED BY <1>0, <1>1, <1>2, <1>4, <1>5, <2>1, <2>2, Unfolded DEF TypeOK, bank, Bank
<1>8. VestingStaysLocked'
  BY <1>4 DEF VestingStaysLocked
<1>9. FeesKept'
  <2>1. earned <= ToEvm(feeCollector)
    BY <1>1, Unfolded DEF IndInv, FeesKept
  <2>2. ToEvm(feeCollector + Inflow(f)) = ToEvm(feeCollector) + ToEvm(Inflow(f))
        /\ ToEvm(feeCollector) \in Int /\ ToEvm(Inflow(f)) \in Int
    BY <1>0, <1>1, <1>2, Unfolded DEF ToEvm
  <2>3. feeCollector' = feeCollector + Inflow(f) /\ fee' = f /\ phase' = "run" /\ earned' = earned
    OBVIOUS
  <2>4. earned + f <= ToEvm(feeCollector + Inflow(f))
    BY <1>0, <1>1, <1>2, <2>1, <2>2, Unfolded
  <2> QED BY <2>3, <2>4 DEF FeesKept, ToEvm
<1>10. BankMirrorsEvm' /\ BackupSound' /\ VestingLoaded' /\ CleanMirrored'
  <2>1. BankMirrorsEvm'
    BY DEF BankMirrorsEvm
  <2>2. BackupSound'
    BY <1>0, <1>4, <1>6 DEF BackupSound
  <2>3. VestingLoaded'
    BY <1>1, Unfolded DEF VestingLoaded
  <2>4. CleanMirrored'
    BY <1>5 DEF CleanMirrored, ToEvm
  <2> QED BY <2>1, <2>2, <2>3, <2>4
<1>11. Conserved'
  <2> DEFINE g == Targets'
  <2>1. \A b \in Account : g[b] = coins'[b] * Multiplier
    <3> SUFFICES ASSUME NEW b \in Account PROVE g[b] = coins'[b] * Multiplier
      OBVIOUS
    <3>1. g[b] = evm'[b] + ToEvm(locked[b])
      BY DEF Targets, Target, ToEvm
    <3>2. g[b] = ToEvm(coins'[b] - locked[b]) + ToEvm(locked[b])
      BY <1>5, <3>1
    <3>3. coins'[b] \in Nat /\ locked[b] \in Nat
      BY <1>1, <1>4, Unfolded
    <3> HIDE DEF g
    <3> QED BY <1>0, <3>2, <3>3 DEF ToEvm
  <2>2. Summable(coins', Account)
    BY <1>4, EvmBankAssumption DEF Summable
  <2> DEFINE c == coins'
  <2>3. SumFrom(0, g, Account) = SumFrom(0, c, Account) * Multiplier
    <3>1. Summable(c, Account) /\ Multiplier \in Int /\ \A b \in Account : g[b] = c[b] * Multiplier
      BY <1>0, <2>1, <2>2
    <3> HIDE DEF c, g
    <3> QED BY <3>1, SumScale
  <2> HIDE DEF g
  <2>4. backup'.coins = coins' /\ backup'.bonded = bonded /\ bonded' = bonded
    BY <1>6
  <2>5. SumFrom(0, g, Account) + ToEvm(bonded')
          = ToEvm(SumFrom(0, backup'.coins, Account)) + ToEvm(backup'.bonded)
    BY <2>3, <2>4 DEF ToEvm
  <2> QED BY <2>5 DEF Conserved, g, ToEvm
<1> QED BY <1>7, <1>8, <1>9, <1>10, <1>11 DEF IndInv

\* A transfer inside the StateDB.
LEMMA EvmTransferInv ==
  ASSUME IndInv, NEW a \in User, NEW b \in Account, NEW x \in 1..evm[a], EvmTransfer(a, b, x)
  PROVE  IndInv'
<1>0. a \in Account /\ Multiplier \in Nat \ {0}
  BY EvmBankAssumption DEF User
<1>1. TypeOK
  BY DEF IndInv
<1>2. x \in Nat /\ x <= evm[a] /\ evm[a] \in Nat
  BY <1>0, <1>1, Unfolded
<1>3. /\ phase = "run" /\ phase' = "run" /\ dirty' = dirty \cup {a, b}
      /\ evm' = [[evm EXCEPT ![a] = @ - x] EXCEPT ![b] = @ + x]
      /\ nsteps' = nsteps + 1 /\ nsteps < MaxSteps
      /\ UNCHANGED <<coins, locked, bonded, evmModule, feeCollector, payer, fee,
                     snapshot, ntxs, backup, earned>>
  BY DEF EvmTransfer, gas
<1> DEFINE mid == [evm EXCEPT ![a] = @ - x]
<1>4. /\ mid \in [Account -> Nat] /\ evm' \in [Account -> Nat]
      /\ \A c \in Account : mid[c] = IF c = a THEN evm[c] - x ELSE evm[c]
      /\ \A c \in Account : evm'[c] = IF c = b THEN mid[c] + x ELSE mid[c]
  <2>0. evm \in [Account -> Nat]
    BY <1>1, Unfolded
  <2>1. mid \in [Account -> Nat] /\ \A c \in Account : mid[c] = IF c = a THEN evm[c] - x ELSE evm[c]
    BY <1>0, <1>2, <2>0
  <2>2. evm' = [mid EXCEPT ![b] = @ + x]
    BY <1>3
  <2> HIDE DEF mid
  <2> QED BY <1>2, <2>1, <2>2
<1> HIDE DEF mid
<1>5. TypeOK'
  <2>1. nsteps' \in 0..MaxSteps
    BY <1>1, <1>3, Unfolded, EvmBankAssumption
  <2> QED BY <1>0, <1>1, <1>3, <1>4, <2>1, Unfolded DEF TypeOK, bank, Bank
<1>6. VestingStaysLocked' /\ FeesKept' /\ BankMirrorsEvm' /\ BackupSound' /\ VestingLoaded'
  BY <1>3 DEF IndInv, VestingStaysLocked, FeesKept, ToEvm, BankMirrorsEvm, BackupSound,
              VestingLoaded
<1>7. CleanMirrored'
  <2>1. \A c \in Account \ dirty' : c \in Account \ dirty /\ evm'[c] = evm[c]
    BY <1>3, <1>4
  <2> QED BY <1>3, <2>1 DEF IndInv, CleanMirrored, ToEvm
<1>8. Conserved'
  <2> DEFINE f == Targets
             m == [c \in Account |-> mid[c] + ToEvm(snapshot[c])]
             g == Targets'
             y == 0 - x
  <2>1. \A c \in Account : ToEvm(snapshot[c]) \in Int /\ evm[c] \in Nat /\ mid[c] \in Nat
    BY <1>0, <1>1, <1>4, Unfolded DEF ToEvm
  <2>2. g = [c \in Account |-> evm'[c] + ToEvm(snapshot[c])]
    BY <1>3 DEF Targets, Target, ToEvm
  <2>3. f = [c \in Account |-> evm[c] + ToEvm(snapshot[c])]
    BY DEF Targets, Target
  <2>4. f \in [Account -> Int] /\ m \in [Account -> Int] /\ g \in [Account -> Int]
    BY <1>4, <2>1, <2>2, <2>3
  <2>5. y \in Int /\ \A c \in Account : m[c] = IF c = a THEN f[c] + y ELSE f[c]
    <3>1. \A c \in Account :
            m[c] = mid[c] + ToEvm(snapshot[c]) /\ f[c] = evm[c] + ToEvm(snapshot[c])
      BY <2>3
    <3> HIDE DEF f, m
    <3> QED BY <1>2, <1>4, <2>1, <3>1
  <2>6. \A c \in Account : g[c] = IF c = b THEN m[c] + x ELSE m[c]
    BY <1>2, <1>4, <2>1, <2>2
  <2> HIDE DEF f, m, g, y
  <2>7. SumFrom(0, m, Account) = SumFrom(0, f, Account) + y
    BY <1>0, <1>2, <2>4, <2>5, SumShift
  <2>8. SumFrom(0, g, Account) = SumFrom(0, m, Account) + x
    <3>1. x \in Int
      BY <1>2
    <3> QED BY <2>4, <2>6, <3>1, SumShift, Zenon
  <2>9. SumFrom(0, f, Account) \in Int
    <3>1. Summable(f, Account)
      BY <2>4, EvmBankAssumption DEF Summable
    <3> QED BY <3>1, SumType
  <2>10. SumFrom(0, g, Account) = SumFrom(0, f, Account)
    BY <1>2, <2>7, <2>8, <2>9 DEF y
  <2>11. SumFrom(0, f, Account) + ToEvm(bonded)
           = ToEvm(SumFrom(0, backup.coins, Account)) + ToEvm(backup.bonded)
    BY <1>3 DEF IndInv, Conserved, f
  <2>12. SumFrom(0, g, Account) + ToEvm(bonded')
           = ToEvm(SumFrom(0, backup'.coins, Account)) + ToEvm(backup'.bonded)
    BY <1>3, <2>10, <2>11
  <2> QED BY <2>12 DEF Conserved, g, ToEvm
<1> QED BY <1>5, <1>6, <1>7, <1>8 DEF IndInv

\* A delegation by the staking precompile.
LEMMA DelegateInv ==
  ASSUME IndInv, NEW a \in User, NEW n \in 1..Outflow(evm[a]), Delegate(a, n)
  PROVE  IndInv'
<1>0. a \in Account /\ Multiplier \in Nat \ {0}
  BY EvmBankAssumption DEF User
<1>1. TypeOK
  BY DEF IndInv
<1>2. Outflow(evm[a]) \in Nat /\ n \in Nat
  BY <1>0, <1>1, Unfolded, OutflowBounds
<1>3. /\ phase = "run" /\ phase' = "run" /\ dirty' = dirty \cup {a}
      /\ n <= Written[a] /\ ToEvm(n) <= evm[a]
      /\ coins' = [Written EXCEPT ![a] = @ - n]
      /\ evmModule' = DustKept /\ bonded' = bonded + n
      /\ locked' = [locked EXCEPT ![a] = IF n < @ THEN @ - n ELSE 0]
      /\ evm' = [evm EXCEPT ![a] = @ - ToEvm(n)]
      /\ nsteps' = nsteps + 1 /\ nsteps < MaxSteps
      /\ UNCHANGED <<feeCollector, payer, fee, snapshot, ntxs, backup, earned>>
  BY DEF Delegate, gas
<1>4. /\ Written \in [Account -> Nat] /\ DustKept \in Nat
      /\ \A c \in Account :
           /\ snapshot[c] <= Written[c]
           /\ ToEvm(Written[c]) <= Target(c) /\ Target(c) < ToEvm(Written[c] + 1)
           /\ c \notin dirty => Written[c] = coins[c]
  BY <1>3, WrittenFacts
<1>5. ToEvm(n) \in Nat /\ \A c \in Account : ToEvm(snapshot[c]) \in Nat
  BY <1>0, <1>1, <1>2, Unfolded DEF ToEvm
<1>6. /\ coins' \in [Account -> Nat] /\ locked' \in [Account -> Nat] /\ evm' \in [Account -> Nat]
      /\ \A c \in Account : coins'[c] = IF c = a THEN Written[c] - n ELSE Written[c]
      /\ \A c \in Account : evm'[c] = IF c = a THEN evm[c] - ToEvm(n) ELSE evm[c]
      /\ \A c \in Account : locked'[c] <= locked[c]
      /\ locked'[a] = IF n < locked[a] THEN locked[a] - n ELSE 0
  BY <1>0, <1>1, <1>2, <1>3, <1>4, <1>5, Unfolded
<1>7. TypeOK'
  <2>1. nsteps' \in 0..MaxSteps
    BY <1>1, <1>3, Unfolded, EvmBankAssumption
  <2> QED BY <1>0, <1>1, <1>2, <1>3, <1>4, <1>6, <2>1, Unfolded DEF TypeOK, bank, Bank
<1>8. VestingStaysLocked'
  <2>1. ASSUME NEW c \in Account PROVE locked'[c] <= coins'[c]
    <3>0. locked[c] <= snapshot[c] /\ locked[c] \in Nat /\ locked'[c] \in Nat
          /\ snapshot[c] \in Nat /\ Written[c] \in Nat
      BY <1>1, <1>3, <1>4, <1>6, Unfolded DEF IndInv, VestingLoaded
    <3>1. CASE c # a
      BY <1>4, <1>6, <3>0, <3>1
    <3>2. CASE c = a
      BY <1>2, <1>3, <1>4, <1>6, <3>0, <3>2
    <3> QED BY <3>1, <3>2
  <2> QED BY <2>1 DEF VestingStaysLocked
<1>9. FeesKept' /\ BankMirrorsEvm' /\ BackupSound'
  BY <1>3 DEF IndInv, FeesKept, ToEvm, BankMirrorsEvm, BackupSound
<1>10. VestingLoaded'
  <2>1. ASSUME NEW c \in Account PROVE locked'[c] <= snapshot[c]
    BY <1>1, <1>3, <1>6, Unfolded DEF IndInv, VestingLoaded
  <2> QED BY <1>3, <2>1 DEF VestingLoaded
<1>11. CleanMirrored'
  <2>1. \A c \in Account \ dirty' :
          c \in Account \ dirty /\ evm'[c] = evm[c] /\ coins'[c] = coins[c]
    BY <1>3, <1>4, <1>6
  <2> QED BY <1>3, <2>1 DEF IndInv, CleanMirrored, ToEvm
<1>12. Conserved'
  <2> DEFINE f == Targets
             g == Targets'
             k == ToEvm(n)
             y == 0 - k
  <2>2. g = [c \in Account |-> evm'[c] + ToEvm(snapshot[c])]
    BY <1>3 DEF Targets, Target, ToEvm
  <2>3. f = [c \in Account |-> evm[c] + ToEvm(snapshot[c])]
    BY DEF Targets, Target
  <2>4. f \in [Account -> Int] /\ g \in [Account -> Int]
    BY <1>1, <1>5, <1>6, <2>2, <2>3, Unfolded
  <2>5. k \in Nat
    BY <1>5
  <2>6. y \in Int /\ \A c \in Account : g[c] = IF c = a THEN f[c] + y ELSE f[c]
    <3> HIDE DEF k
    <3>1. \A c \in Account : evm'[c] = IF c = a THEN evm[c] - k ELSE evm[c]
      BY <1>6 DEF k
    <3>2. evm \in [Account -> Nat]
      BY <1>1, Unfolded
    <3> QED BY <1>5, <2>2, <2>3, <2>5, <3>1, <3>2
  <2> HIDE DEF f, g, k, y
  <2>7. SumFrom(0, g, Account) = SumFrom(0, f, Account) + y
    BY <1>0, <2>4, <2>5, <2>6, SumShift
  <2>9. SumFrom(0, f, Account) \in Int
    <3>1. Summable(f, Account)
      BY <2>4, EvmBankAssumption DEF Summable
    <3> QED BY <3>1, SumType
  <2>10. ToEvm(bonded') = ToEvm(bonded) + k /\ ToEvm(bonded) \in Int
    BY <1>0, <1>1, <1>2, <1>3, Unfolded DEF ToEvm, k
  <2>11. SumFrom(0, f, Account) + ToEvm(bonded)
           = ToEvm(SumFrom(0, backup.coins, Account)) + ToEvm(backup.bonded)
    BY <1>3 DEF IndInv, Conserved, f
  <2>12. SumFrom(0, g, Account) + ToEvm(bonded') = SumFrom(0, f, Account) + ToEvm(bonded)
    BY <2>5, <2>7, <2>9, <2>10 DEF y
  <2>13. SumFrom(0, g, Account) + ToEvm(bonded')
           = ToEvm(SumFrom(0, backup'.coins, Account)) + ToEvm(backup'.bonded)
    BY <1>3, <2>11, <2>12
  <2> QED BY <2>13 DEF Conserved, g, ToEvm
<1> QED BY <1>7, <1>8, <1>9, <1>10, <1>11, <1>12 DEF IndInv

\* The transaction commits.
LEMMA CommitInv ==
  ASSUME IndInv, Commit
  PROVE  IndInv'
<1>0. Multiplier \in Nat \ {0}
  BY EvmBankAssumption
<1>1. TypeOK
  BY DEF IndInv
<1>2. /\ phase = "run" /\ phase' = "refund" /\ coins' = Written /\ evmModule' = DustKept
      /\ UNCHANGED <<locked, bonded, feeCollector, payer, fee, evm, snapshot,
                     dirty, nsteps, ntxs, backup, earned>>
  BY DEF Commit, gas, stateDB, bounds
<1>3. /\ Written \in [Account -> Nat] /\ DustKept \in Nat
      /\ \A a \in Account :
              /\ snapshot[a] <= Written[a]
              /\ ToEvm(Written[a]) <= Target(a) /\ Target(a) < ToEvm(Written[a] + 1)
              /\ a \notin dirty => Written[a] = coins[a]
  BY <1>2, WrittenFacts
<1>4. TypeOK'
  BY <1>1, <1>2, <1>3, Unfolded DEF TypeOK, bank, Bank
<1>5. VestingStaysLocked'
  <2>1. ASSUME NEW a \in Account PROVE locked[a] <= Written[a]
    BY <1>1, <1>2, <1>3, Unfolded DEF IndInv, VestingLoaded
  <2> QED BY <1>2, <2>1 DEF VestingStaysLocked
<1>6. FeesKept' /\ BackupSound' /\ VestingLoaded'
  BY <1>2 DEF IndInv, FeesKept, ToEvm, BackupSound, VestingLoaded
<1>7. BankMirrorsEvm'
  <2> SUFFICES ASSUME NEW a \in Account
               PROVE  /\ ToEvm(coins'[a] - snapshot'[a]) <= evm'[a]
                      /\ evm'[a] < ToEvm(coins'[a] - snapshot'[a] + 1)
    BY DEF BankMirrorsEvm, ToEvm
  <2>1. coins'[a] = Written[a] /\ snapshot'[a] = snapshot[a] /\ evm'[a] = evm[a]
    BY <1>2
  <2>2. Written[a] \in Nat /\ snapshot[a] \in Nat /\ evm[a] \in Nat
    BY <1>1, <1>3, Unfolded
  <2>3. ToEvm(Written[a]) <= evm[a] + ToEvm(snapshot[a])
        /\ evm[a] + ToEvm(snapshot[a]) < ToEvm(Written[a] + 1)
    BY <1>3 DEF Target
  <2>4. ToEvm(Written[a] - snapshot[a]) = ToEvm(Written[a]) - ToEvm(snapshot[a])
        /\ ToEvm(Written[a] - snapshot[a] + 1) = ToEvm(Written[a] + 1) - ToEvm(snapshot[a])
        /\ ToEvm(Written[a]) \in Int /\ ToEvm(snapshot[a]) \in Int /\ ToEvm(Written[a] + 1) \in Int
    BY <1>0, <2>2 DEF ToEvm
  <2> QED BY <2>1, <2>2, <2>3, <2>4
<1>8. CleanMirrored'
  BY <1>2, <1>3 DEF IndInv, CleanMirrored, ToEvm
<1>9. Conserved'
  <2>1. Targets' = Targets
    BY <1>2 DEF Targets, Target, ToEvm
  <2> QED BY <1>2, <2>1 DEF IndInv, Conserved, ToEvm
<1> QED BY <1>4, <1>5, <1>6, <1>7, <1>8, <1>9 DEF IndInv

\* A dropped branch: the bank is the one the ante handler left.
LEMMA Restored ==
  ASSUME IndInv, phase = "run", Restore
  PROVE  /\ coins' \in [Account -> Nat] /\ locked' \in [Account -> Nat]
         /\ bonded' \in Nat /\ evmModule' \in Nat
         /\ \A a \in Account : locked'[a] <= coins'[a]
<1>1. TypeOK
  BY DEF IndInv
<1> QED BY <1>1, Unfolded DEF IndInv, BackupSound, Restore

\* The EVM reverted.
LEMMA VmErrorInv ==
  ASSUME IndInv, VmError
  PROVE  IndInv'
<1>1. TypeOK
  BY DEF IndInv
<1>2. /\ phase = "run" /\ phase' = "failed" /\ Restore
      /\ UNCHANGED <<feeCollector, payer, fee, evm, snapshot, dirty, nsteps, ntxs, backup, earned>>
  BY DEF VmError, gas, stateDB, bounds
<1>3. TypeOK'
  BY <1>1, <1>2, Restored, Unfolded DEF TypeOK, bank, Bank
<1>4. VestingStaysLocked'
  BY <1>2, Restored DEF VestingStaysLocked
<1>5. FeesKept'
  BY <1>2 DEF IndInv, FeesKept, ToEvm
<1> QED BY <1>2, <1>3, <1>4, <1>5
        DEF IndInv, BankMirrorsEvm, BackupSound, VestingLoaded, CleanMirrored, Conserved

\* The end of a transaction leaves nothing of it.
LEMMA EndTxType ==
  ASSUME EndTx
  PROVE  /\ payer' = NoPayer /\ fee' = 0 /\ evm' \in [Account -> Nat]
         /\ snapshot' \in [Account -> Nat] /\ dirty' = {} /\ backup' \in Bank /\ nsteps' = 0
BY NoBankType DEF EndTx

\* The message failed: the whole fee is earned.
LEMMA AbortInv ==
  ASSUME IndInv, Abort
  PROVE  IndInv'
<1>1. TypeOK
  BY DEF IndInv
<1>2. /\ phase = "run" /\ phase' = "idle" /\ Restore /\ EndTx /\ earned' = earned + fee
      /\ UNCHANGED <<feeCollector, ntxs>>
  BY DEF Abort
<1>3. TypeOK'
  <2>1. nsteps' \in 0..MaxSteps
    BY <1>2, EvmBankAssumption, EndTxType
  <2>2. earned' \in Nat
    BY <1>1, <1>2, Unfolded
  <2> QED BY <1>1, <1>2, <2>1, <2>2, Restored, EndTxType, Unfolded DEF TypeOK, bank, Bank
<1>4. VestingStaysLocked'
  BY <1>2, Restored DEF VestingStaysLocked
<1>5. FeesKept'
  BY <1>1, <1>2, Unfolded DEF IndInv, FeesKept, ToEvm
<1> QED BY <1>2, <1>3, <1>4, <1>5
        DEF IndInv, BankMirrorsEvm, BackupSound, VestingLoaded, CleanMirrored, Conserved

\* The refund of the gas left over.
LEMMA RefundGasInv ==
  ASSUME IndInv, NEW x \in 0..fee, RefundGas(x)
  PROVE  IndInv'
<1>0. Multiplier \in Nat \ {0}
  BY EvmBankAssumption
<1>1. TypeOK
  BY DEF IndInv
<1> DEFINE o == Outflow(x)
<1>2. /\ phase \in {"refund", "failed"} /\ phase' = "idle" /\ EndTx
      /\ coins' = [coins EXCEPT ![payer] = @ + o]
      /\ feeCollector' = feeCollector - o /\ earned' = earned + fee - x
      /\ UNCHANGED <<locked, bonded, evmModule, ntxs>>
  BY DEF RefundGas
<1>3. x \in Nat /\ x <= fee /\ fee \in Nat /\ earned \in Nat /\ feeCollector \in Nat
  BY <1>1, Unfolded
<1>4. o \in Nat /\ ToEvm(o) <= x
  BY <1>3, OutflowBounds
<1> HIDE DEF o
<1>5. earned + fee <= ToEvm(feeCollector)
  BY <1>2 DEF IndInv, FeesKept
<1>6. /\ ToEvm(feeCollector - o) = ToEvm(feeCollector) - ToEvm(o)
      /\ ToEvm(feeCollector) \in Int /\ ToEvm(o) \in Int
  BY <1>0, <1>3, <1>4 DEF ToEvm
<1>7. feeCollector - o \in Nat
  <2>1. ToEvm(o) <= ToEvm(feeCollector)
    BY <1>3, <1>4, <1>5, <1>6
  <2>2. o <= feeCollector
    BY <1>0, <1>3, <1>4, <2>1 DEF ToEvm
  <2> QED BY <1>3, <1>4, <2>2
<1>8. payer \in Account
  BY <1>2 DEF IndInv, BackupSound
<1>9. /\ coins' \in [Account -> Nat] /\ \A a \in Account : coins[a] <= coins'[a]
  BY <1>1, <1>2, <1>4, <1>8, Unfolded
<1>10. TypeOK'
  <2>1. nsteps' \in 0..MaxSteps
    BY <1>2, EvmBankAssumption, EndTxType
  <2>2. earned' \in Nat
    BY <1>2, <1>3
  <2> QED BY <1>1, <1>2, <1>7, <1>9, <2>1, <2>2, EndTxType, Unfolded DEF TypeOK, bank, Bank
<1>11. VestingStaysLocked'
  <2>1. ASSUME NEW a \in Account PROVE locked[a] <= coins'[a]
    BY <1>1, <1>9, Unfolded DEF IndInv, VestingStaysLocked
  <2> QED BY <1>2, <2>1 DEF VestingStaysLocked
<1>12. FeesKept'
  <2>1. earned + fee - x <= ToEvm(feeCollector - o)
    BY <1>3, <1>4, <1>5, <1>6
  <2>2. earned + fee - x \in Nat
    BY <1>3
  <2> QED BY <1>2, <2>1, <2>2 DEF FeesKept, ToEvm
<1> QED BY <1>2, <1>10, <1>11, <1>12
        DEF IndInv, BankMirrorsEvm, BackupSound, VestingLoaded, CleanMirrored, Conserved

\* The fee collector is swept.
LEMMA SweepInv ==
  ASSUME IndInv, Sweep
  PROVE  IndInv'
<1>1. TypeOK
  BY DEF IndInv
<1>2. /\ phase = "idle" /\ feeCollector' = 0 /\ earned' = 0
      /\ UNCHANGED <<coins, locked, bonded, evmModule, phase, payer, fee, evm, snapshot,
                     dirty, nsteps, ntxs, backup>>
  BY DEF Sweep, gas, stateDB, bounds
<1>3. TypeOK'
  BY <1>1, <1>2, Unfolded DEF TypeOK, bank, Bank
<1>4. FeesKept'
  BY <1>2, EvmBankAssumption DEF FeesKept, ToEvm
<1> QED BY <1>2, <1>3, <1>4
        DEF IndInv, VestingStaysLocked, BankMirrorsEvm, BackupSound, VestingLoaded,
            CleanMirrored, Conserved

\* A coin vests.
LEMMA VestInv ==
  ASSUME IndInv, NEW a \in Account, Vest(a)
  PROVE  IndInv'
<1>1. TypeOK
  BY DEF IndInv
<1>2. /\ phase = "idle" /\ locked[a] > 0 /\ locked' = [locked EXCEPT ![a] = @ - 1]
      /\ UNCHANGED <<coins, bonded, evmModule, feeCollector, phase, payer, fee, evm, snapshot,
                     dirty, nsteps, ntxs, backup, earned>>
  BY DEF Vest, gas, stateDB, bounds
<1>3. locked' \in [Account -> Nat] /\ \A b \in Account : locked'[b] <= locked[b]
  BY <1>1, <1>2, Unfolded
<1>4. TypeOK'
  BY <1>1, <1>2, <1>3, Unfolded DEF TypeOK, bank, Bank
<1>5. VestingStaysLocked'
  <2>1. ASSUME NEW b \in Account PROVE locked'[b] <= coins[b]
    BY <1>1, <1>3, Unfolded DEF IndInv, VestingStaysLocked
  <2> QED BY <1>2, <2>1 DEF VestingStaysLocked
<1>6. FeesKept'
  BY <1>2 DEF IndInv, FeesKept, ToEvm
<1> QED BY <1>2, <1>4, <1>5, <1>6
        DEF IndInv, BankMirrorsEvm, BackupSound, VestingLoaded, CleanMirrored, Conserved

-----------------------------------------------------------------------------
(* Results.                                                                *)

\* The inductive invariant holds in every reachable state.
THEOREM Invariance == Spec => []IndInv
<1>1. IndInv /\ [Next]_vars => IndInv'
  <2> SUFFICES ASSUME IndInv, [Next]_vars PROVE IndInv'
    OBVIOUS
  <2>1. ASSUME NEW a \in User, NEW f \in 0..MaxFee, BuyGas(a, f) PROVE IndInv'
    BY <2>1, BuyGasInv
  <2>2. ASSUME NEW a \in User, NEW b \in Account, NEW x \in 1..evm[a], EvmTransfer(a, b, x)
        PROVE  IndInv'
    BY <2>2, EvmTransferInv
  <2>3. ASSUME NEW a \in User, NEW n \in 1..Outflow(evm[a]), Delegate(a, n) PROVE IndInv'
    BY <2>3, DelegateInv
  <2>4. CASE Commit
    BY <2>4, CommitInv
  <2>5. CASE VmError
    BY <2>5, VmErrorInv
  <2>6. CASE Abort
    BY <2>6, AbortInv
  <2>7. ASSUME NEW x \in 0..fee, RefundGas(x) PROVE IndInv'
    BY <2>7, RefundGasInv
  <2>8. CASE Sweep
    BY <2>8, SweepInv
  <2>9. ASSUME NEW a \in Account, Vest(a) PROVE IndInv'
    BY <2>9, VestInv
  <2>10. CASE UNCHANGED vars
    BY <2>10 DEF vars, IndInv, TypeOK, bank, VestingStaysLocked, FeesKept, ToEvm, BankMirrorsEvm,
         BackupSound, VestingLoaded, CleanMirrored, Conserved, Targets, Target
  <2> QED BY <2>1, <2>2, <2>3, <2>4, <2>5, <2>6, <2>7, <2>8, <2>9, <2>10 DEF Next
<1> QED BY <1>1, InitInv, PTL DEF Spec

\* No balance goes below zero, in the bank or in the StateDB.
THEOREM TypeCorrect == Spec => []TypeOK
<1>1. IndInv => TypeOK
  BY DEF IndInv
<1> QED BY <1>1, Invariance, PTL

\* Vesting coins stay in their account whatever is spent on gas, transfers
\* and delegations, and whichever branch is dropped.
THEOREM VestingAlwaysLocked == Spec => []VestingStaysLocked
<1>1. IndInv => VestingStaysLocked
  BY DEF IndInv
<1> QED BY <1>1, Invariance, PTL

\* The fee collector holds the price of all the gas used.
THEOREM FeesAlwaysKept == Spec => []FeesKept
<1>1. IndInv => FeesKept
  BY DEF IndInv
<1> QED BY <1>1, Invariance, PTL

\* A committed StateDB and the bank agree to the ustoc.
THEOREM BankAlwaysMirrors == Spec => []BankMirrorsEvm
<1>1. IndInv => BankMirrorsEvm
  BY DEF IndInv
<1> QED BY <1>1, Invariance, PTL

\* Flushing costs the users less than one ustoc for each account touched, and
\* never enriches them.
THEOREM DustAlwaysBounded == Spec => []DustBounded
<1>1. IndInv => DustBounded
  <2> SUFFICES ASSUME IndInv, phase = "refund"
               PROVE  LET before == SumFunction(backup.coins) + backup.bonded
                          after  == SumFunction(coins) + bonded
                      IN  /\ after <= before
                          /\ ToEvm(before - after) <= (Multiplier - 1) * Cardinality(dirty)
    BY DEF DustBounded
  <2>0. Multiplier \in Nat \ {0} /\ IsFiniteSet(Account)
    BY EvmBankAssumption
  <2>1. /\ coins \in [Account -> Nat] /\ evm \in [Account -> Nat] /\ snapshot \in [Account -> Nat]
        /\ bonded \in Nat /\ backup.bonded \in Nat /\ dirty \in SUBSET Account
        /\ backup.coins \in [Account -> Nat]
    BY Unfolded DEF IndInv
  <2> DEFINE C == SumFrom(0, coins, Account)
             B == SumFrom(0, backup.coins, Account)
             T == SumFrom(0, Targets, Account)
             f == [a \in Account |-> coins[a] * Multiplier]
             F == SumFrom(0, f, Account)
  <2>2. SumFunction(coins) = C /\ SumFunction(backup.coins) = B
    <3>1. DOMAIN coins = Account /\ DOMAIN backup.coins = Account
      BY <2>1
    <3> QED BY <3>1, Zenon DEF SumFunction, SumFunctionOnSet, SumFrom
  <2>3. T + ToEvm(bonded) = ToEvm(B) + ToEvm(backup.bonded)
    BY DEF IndInv, Conserved
  <2>4. ASSUME NEW a \in Account
        PROVE  /\ Targets[a] \in Int /\ f[a] \in Int /\ f[a] <= Targets[a]
               /\ Targets[a] <= f[a] + (IF a \in dirty THEN Multiplier - 1 ELSE 0)
    <3>1. coins[a] \in Nat /\ evm[a] \in Nat /\ snapshot[a] \in Nat
      BY <2>1
    <3>2. Targets[a] = evm[a] + ToEvm(snapshot[a]) /\ f[a] = ToEvm(coins[a])
      BY DEF Targets, Target, ToEvm
    <3>3. ToEvm(coins[a] - snapshot[a]) <= evm[a] /\ evm[a] < ToEvm(coins[a] - snapshot[a] + 1)
      BY DEF IndInv, BankMirrorsEvm
    <3>4. a \notin dirty => evm[a] = ToEvm(coins[a] - snapshot[a])
      BY DEF IndInv, CleanMirrored
    <3>5. /\ ToEvm(coins[a] - snapshot[a]) = ToEvm(coins[a]) - ToEvm(snapshot[a])
          /\ ToEvm(coins[a] - snapshot[a] + 1) = ToEvm(coins[a]) - ToEvm(snapshot[a]) + Multiplier
          /\ ToEvm(coins[a]) \in Int /\ ToEvm(snapshot[a]) \in Int
      BY <2>0, <3>1 DEF ToEvm
    <3> HIDE DEF f
    <3> QED BY <2>0, <3>1, <3>2, <3>3, <3>4, <3>5
  <2>5. Summable(Targets, Account) /\ Summable(f, Account) /\ Summable(coins, Account)
        /\ Summable(backup.coins, Account)
    BY <2>0, <2>1, <2>4 DEF Summable
  <2>6. C \in Int /\ B \in Int /\ T \in Int /\ F \in Int
    <3> HIDE DEF f
    <3> QED BY <2>5, SumType
  <2>7. F = ToEvm(C)
    <3>1. \A a \in Account : f[a] = coins[a] * Multiplier
      OBVIOUS
    <3>2. Multiplier \in Int
      BY <2>0
    <3> HIDE DEF f
    <3> QED BY <2>5, <3>1, <3>2, SumScale DEF ToEvm
  <2>8. F <= T
    <3>1. \A a \in Account : f[a] <= Targets[a] + (IF a \in {} THEN 0 ELSE 0)
      BY <2>4
    <3>2. {} \in SUBSET Account /\ 0 \in Nat
      OBVIOUS
    <3> HIDE DEF f
    <3>3. F <= T + 0 * Cardinality({})
      BY <2>5, <3>1, <3>2, SumSlack
    <3>4. Cardinality({}) = 0
      BY FS_EmptySet
    <3> HIDE DEF F, T
    <3> QED BY <2>6, <3>3, <3>4
  <2>9. T <= F + (Multiplier - 1) * Cardinality(dirty)
    <3>1. \A a \in Account : Targets[a] <= f[a] + (IF a \in dirty THEN Multiplier - 1 ELSE 0)
      BY <2>4
    <3>2. Multiplier - 1 \in Nat
      BY <2>0
    <3> DEFINE m == Multiplier - 1
    <3> HIDE DEF f, m
    <3>3. m \in Nat /\ \A a \in Account : Targets[a] <= f[a] + (IF a \in dirty THEN m ELSE 0)
      BY <3>1, <3>2 DEF m
    <3>4. T <= F + m * Cardinality(dirty)
      BY <2>1, <2>5, <3>3, SumSlack
    <3> QED BY <3>4 DEF m
  <2> DEFINE k == (Multiplier - 1) * Cardinality(dirty)
             before == B + backup.bonded
             after == C + bonded
  <2>10. k \in Int
    <3>1. Cardinality(dirty) \in Nat
      BY <2>0, <2>1, FS_Subset, FS_CardinalityType
    <3> QED BY <2>0, <3>1
  <2> HIDE DEF C, B, T, F, f, k
  <2>11. /\ ToEvm(before - after) = ToEvm(B) + ToEvm(backup.bonded) - ToEvm(C) - ToEvm(bonded)
         /\ ToEvm(B) \in Int /\ ToEvm(C) \in Int /\ ToEvm(bonded) \in Int
         /\ ToEvm(backup.bonded) \in Int
    BY <2>0, <2>1, <2>6 DEF ToEvm
  <2>12. 0 <= ToEvm(before - after) /\ ToEvm(before - after) <= k
    <3>1. T <= F + k
      BY <2>9 DEF k
    <3> HIDE DEF before, after
    <3> QED BY <2>3, <2>6, <2>7, <2>8, <2>10, <2>11, <3>1
  <2>13. after <= before
    BY <2>0, <2>1, <2>6, <2>12 DEF ToEvm
  <2> QED BY <2>2, <2>12, <2>13 DEF k
<1> QED BY <1>1, Invariance, PTL
=============================================================================
