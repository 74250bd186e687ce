---------------------------- MODULE StocTxProofs ----------------------------
(***************************************************************************)
(* Proofs about StocTx for every set of accounts, every set of creation    *)
(* messages and every bound.  IndInv is the inductive invariant.  The key  *)
(* lemmas say what a change to one managed denom, or to the native denom,  *)
(* must respect; each handler is then shown to make such a change.  On top *)
(* of it stand two more invariants: Balances, about the sums of the bank's *)
(* ledgers, and TaxInv, about what the running transaction still owes.     *)
(***************************************************************************)
EXTENDS StocTx, FoldFacts

USE DEF Store, store, txvars

-----------------------------------------------------------------------------
(* Facts about the definitions.                                            *)

\* The tax on a transfer of at least two units is at least one unit and
\* leaves the recipient at least half: the floor and the cap of the
\* PostHandler never conflict.
THEOREM TaxBounds ==
  ASSUME NEW n \in Nat, n >= 2, NEW percent \in 0 .. 50
  PROVE  /\ TaxAmount(n, percent) \in Nat
         /\ TaxAmount(n, percent) >= 1
         /\ 2 * TaxAmount(n, percent) <= n
<1> DEFINE cut == (n * percent) \div 100
<1>1. cut \in Nat
  <2>1. n * percent \in Nat
    OBVIOUS
  <2> DEFINE x == n * percent
  <2> HIDE DEF x
  <2>2. x \div 100 \in Nat
    BY <2>1 DEF x
  <2> QED BY <2>2 DEF x
<1> HIDE DEF cut
<1>2. TaxAmount(n, percent) = IF (IF cut = 0 THEN 1 ELSE cut) > n \div 2
                              THEN n \div 2 ELSE (IF cut = 0 THEN 1 ELSE cut)
  BY DEF TaxAmount, cut
<1>3. n \div 2 \in Nat /\ n \div 2 >= 1 /\ 2 * (n \div 2) <= n
  OBVIOUS
<1> QED BY <1>1, <1>2, <1>3

\* SumFunction adds up all the values of a function.
LEMMA SumOfAll ==
  ASSUME NEW S, NEW T, NEW f \in [S -> T]
  PROVE  SumFunction(f) = SumFrom(0, f, S)
<1>1. DOMAIN f = S
  OBVIOUS
<1> QED BY <1>1, Zenon DEF SumFunction, SumFunctionOnSet, SumFrom

\* A transfer between two accounts of a ledger keeps it a ledger, and touches
\* no third account.
LEMMA MoveLedger ==
  ASSUME NEW L \in [Account -> Nat], NEW from \in Account, NEW to \in Account,
         NEW n \in Nat, L[from] >= n
  PROVE  /\ Move(L, from, to, n) \in [Account -> Nat]
         /\ \A a \in Account \ {from, to} : Move(L, from, to, n)[a] = L[a]
BY DEF Move

\* The distribution loop mints exactly the initial supply, whatever the
\* percentages round to: the last recipient takes what the others leave.
LEMMA MintedAll ==
  ASSUME NEW initial \in Nat, NEW dist, NEW last \in DOMAIN dist,
         Cuts(initial, dist, last) \in 0 .. initial
  PROVE  Minted(Share(initial, dist, last), last) = initial
<1> DEFINE share == Share(initial, dist, last)
           rest == [a \in DOMAIN dist \ {last} |-> Cut(initial, dist[a])]
<1>1. /\ DOMAIN share = DOMAIN dist
      /\ share[last] = initial - Cuts(initial, dist, last)
      /\ \A a \in DOMAIN dist \ {last} : share[a] = Cut(initial, dist[a])
  BY DEF Share
<1>2. [a \in DOMAIN share \ {last} |-> share[a]] = rest
  BY <1>1
<1>3. Cuts(initial, dist, last) = SumFunction(rest)
  BY DEF Cuts
<1>4. Minted(share, last) = SumFunction(rest) + share[last]
  BY <1>2 DEF Minted
<1> HIDE DEF share, rest
<1>5. Minted(share, last) = initial
  BY <1>1, <1>3, <1>4
<1> QED BY <1>5 DEF share

\* Every share is a natural number.
LEMMA ShareNat ==
  ASSUME NEW initial \in Nat, NEW dist, NEW last \in DOMAIN dist,
         \A a \in DOMAIN dist : dist[a] \in 1 .. 100,
         Cuts(initial, dist, last) \in 0 .. initial
  PROVE  /\ DOMAIN Share(initial, dist, last) = DOMAIN dist
         /\ \A a \in DOMAIN dist : Share(initial, dist, last)[a] \in Nat
<1>1. ASSUME NEW percent \in 1 .. 100
      PROVE  Cut(initial, percent) \in Nat
  <2> DEFINE x == initial * percent
  <2>1. x \in Nat
    OBVIOUS
  <2> HIDE DEF x
  <2>2. x \div 100 \in Nat
    BY <2>1
  <2> QED BY <2>2 DEF Cut, x
<1>2. initial - Cuts(initial, dist, last) \in Nat
  OBVIOUS
<1> QED BY <1>1, <1>2 DEF Share

\* The next suffix is unique: InitGenesis can rebuild only one counter.
LEMMA NextSuffixUnique ==
  ASSUME NEW i \in Nat, NEW j \in Nat, NEW toks,
         IsNextSuffix(i, toks), IsNextSuffix(j, toks)
  PROVE  i = j
<1>1. \A d \in Denom : Suffix(d) \in Nat
  BY StocAssumption DEF Denom, Suffix
<1> QED BY <1>1 DEF IsNextSuffix

\* A token whose TotalSupply changes, within its kind, keeps its terms.
LEMMA NewTotal ==
  ASSUME NEW x \in Token, NEW k \in Nat, x.unlimited \/ k <= x.total
  PROVE  LET t == [x EXCEPT !.total = k]
         IN  /\ t \in Token /\ t.total = k /\ t.remaining = x.remaining
             /\ SameTerms(x, t)
<1> DEFINE t == [x EXCEPT !.total = k]
<1>1. /\ t.creator = x.creator /\ t.unlimited = x.unlimited
      /\ t.taxPercent = x.taxPercent /\ t.taxTo = x.taxTo
      /\ t.total = k /\ t.remaining = x.remaining
  BY DEF Token
<1>2. t \in Token
  BY DEF Token
<1>3. t # NoToken
  BY <1>2, StocAssumption
<1> HIDE DEF t
<1>4. SameTerms(x, t)
  BY <1>1, <1>3 DEF SameTerms
<1> QED BY <1>1, <1>2, <1>4 DEF t

\* So does one whose RemainingSupply changes.
LEMMA NewRemaining ==
  ASSUME NEW x \in Token, NEW k \in Nat
  PROVE  LET t == [x EXCEPT !.remaining = k]
         IN  /\ t \in Token /\ t.total = x.total /\ t.remaining = k
             /\ SameTerms(x, t)
<1> DEFINE t == [x EXCEPT !.remaining = k]
<1>1. /\ t.creator = x.creator /\ t.unlimited = x.unlimited
      /\ t.taxPercent = x.taxPercent /\ t.taxTo = x.taxTo
      /\ t.total = x.total /\ t.remaining = k /\ x.total \in Nat
  BY DEF Token
<1>2. t \in Token
  BY DEF Token
<1>3. t # NoToken
  BY <1>2, StocAssumption
<1> HIDE DEF t
<1>4. t.total <= x.total
  BY <1>1
<1>5. SameTerms(x, t)
  BY <1>1, <1>3, <1>4 DEF SameTerms
<1> QED BY <1>1, <1>2, <1>5 DEF t

\* The conjuncts of the invariant, with the records taken apart.
LEMMA Unfolded ==
  ASSUME IndInv
  PROVE  /\ tokens \in [Denom -> Token \cup {NoToken}]
         /\ counter \in 0 .. MaxUint64
         /\ bal \in [AnyDenom -> [Account -> Nat]]
         /\ supply \in [AnyDenom -> Nat]
         /\ committed \in StoreType
         /\ committed.tokens \in [Denom -> Token \cup {NoToken}]
         /\ committed.bal \in [AnyDenom -> [Account -> Nat]]
         /\ \A d \in Denom : tokens[d] # NoToken =>
              /\ tokens[d] \in Token
              /\ supply[d] = tokens[d].total
              /\ bal[d][Stoc] = tokens[d].remaining
              /\ tokens[d].remaining <= tokens[d].total
              /\ tokens[d].taxTo \notin Blocked
         /\ \A d \in Denom : tokens[d] = NoToken =>
              supply[d] = 0 /\ \A a \in Account : bal[d][a] = 0
         /\ IsNextSuffix(counter, tokens)
         /\ StoreInv(committed) /\ BranchInv
BY DEF IndInv, TypeOK, StoreType, StoreInv, Books

\* The store part of the invariant from its components.
LEMMA Folded ==
  ASSUME tokens' \in [Denom -> Token \cup {NoToken}],
         counter' \in 0 .. MaxUint64,
         bal' \in [AnyDenom -> [Account -> Nat]],
         supply' \in [AnyDenom -> Nat],
         \A d \in Denom : tokens'[d] # NoToken =>
           /\ supply'[d] = tokens'[d].total
           /\ bal'[d][Stoc] = tokens'[d].remaining
           /\ tokens'[d].remaining <= tokens'[d].total
           /\ tokens'[d].taxTo \notin Blocked,
         \A d \in Denom : tokens'[d] = NoToken =>
           supply'[d] = 0 /\ \A a \in Account : bal'[d][a] = 0,
         IsNextSuffix(counter', tokens')
  PROVE  Store' \in StoreType /\ StoreInv(Store)'
<1>1. Store' \in StoreType
  BY DEF StoreType
<1>2. \A d \in Denom : Books(Store', d)
  BY DEF Books
<1>3. StoreInv(Store')
  BY <1>2 DEF StoreInv
<1> QED BY <1>1, <1>3

-----------------------------------------------------------------------------
(* The changes a message may make.                                         *)

\* Only the managed denom d changes, and its books, terms and frozen holdings agree.
LEMMA ManagedChange ==
  ASSUME IndInv, NEW d \in Denom, tokens[d] # NoToken,
         tokens' \in [Denom -> Token \cup {NoToken}],
         bal' \in [AnyDenom -> [Account -> Nat]],
         supply' \in [AnyDenom -> Nat],
         counter' = counter, committed' = committed,
         \A e \in Denom : e # d => /\ bal'[e] = bal[e] /\ supply'[e] = supply[e]
                                  /\ tokens'[e] = tokens[e],
         supply'[d] = tokens'[d].total, bal'[d][Stoc] = tokens'[d].remaining,
         tokens'[d].remaining <= tokens'[d].total,
         SameTerms(tokens[d], tokens'[d]),
         \A a \in NonWallet : bal'[d][a] = bal[d][a]
  PROVE  /\ Store' \in StoreType /\ committed' \in StoreType
         /\ StoreInv(Store)' /\ StoreInv(committed)'
         /\ BranchInv'
<1> USE Unfolded
<1>1. tokens'[d] # NoToken /\ tokens'[d] \in Token
  BY DEF SameTerms
<1>2. \A e \in Denom : tokens'[e] = NoToken <=> tokens[e] = NoToken
  BY <1>1
<1>3. Store' \in StoreType /\ StoreInv(Store)'
  <2>1. IsNextSuffix(counter', tokens')
    BY <1>2 DEF IsNextSuffix
  <2>2. \A e \in Denom : tokens'[e] = NoToken =>
          supply'[e] = 0 /\ \A a \in Account : bal'[e][a] = 0
    BY <1>1
  <2>3. tokens'[d].taxTo \notin Blocked
    BY DEF SameTerms
  <2>4. \A e \in Denom : tokens'[e] # NoToken =>
           /\ supply'[e] = tokens'[e].total
           /\ bal'[e][Stoc] = tokens'[e].remaining
           /\ tokens'[e].remaining <= tokens'[e].total
           /\ tokens'[e].taxTo \notin Blocked
    BY <2>3
  <2> QED BY <2>1, <2>2, <2>4, Folded
<1>4. BranchInv'
  <2>1. ASSUME NEW e \in Denom, committed.tokens[e] # NoToken
        PROVE  /\ SameTerms(committed.tokens[e], tokens'[e])
               /\ \A a \in NonWallet : bal'[e][a] = committed.bal[e][a]
    <3>1. CASE e # d
      BY <2>1, <3>1 DEF BranchInv
    <3>2. CASE e = d
      <4>1. SameTerms(committed.tokens[d], tokens[d])
        BY <2>1, <3>2 DEF BranchInv
      <4>2. committed.tokens[d] \in Token /\ tokens[d] \in Token
        BY <2>1, <3>2
      <4>3. SameTerms(committed.tokens[d], tokens'[d])
        BY <1>1, <4>1, <4>2 DEF SameTerms, Token
      <4>4. \A a \in NonWallet : bal[d][a] = committed.bal[d][a]
        BY <2>1, <3>2 DEF BranchInv
      <4> QED BY <3>2, <4>3, <4>4
    <3> QED BY <3>1, <3>2
  <2> QED BY <2>1 DEF BranchInv
<1>5. committed' \in StoreType /\ StoreInv(committed')
  OBVIOUS
<1> QED BY <1>3, <1>4, <1>5

\* The same, for a change written with EXCEPT.
LEMMA ManagedUpdate ==
  ASSUME IndInv, NEW d \in Denom, tokens[d] # NoToken,
         NEW L \in [Account -> Nat], NEW q \in Nat, NEW t \in Token,
         bal' = [bal EXCEPT ![d] = L],
         supply' = [supply EXCEPT ![d] = q],
         tokens' = [tokens EXCEPT ![d] = t],
         counter' = counter, committed' = committed,
         q = t.total, L[Stoc] = t.remaining, t.remaining <= t.total,
         SameTerms(tokens[d], t),
         \A a \in NonWallet : L[a] = bal[d][a]
  PROVE  /\ Store' \in StoreType /\ committed' \in StoreType
         /\ StoreInv(Store)' /\ StoreInv(committed)'
         /\ BranchInv'
<1> USE Unfolded
<1>1. d \in AnyDenom
  BY DEF AnyDenom
<1>2. \A e \in Denom : e # d => /\ bal'[e] = bal[e] /\ supply'[e] = supply[e]
                                /\ tokens'[e] = tokens[e]
  BY DEF AnyDenom
<1>3. bal'[d] = L /\ supply'[d] = q /\ tokens'[d] = t
  BY <1>1
<1>4. /\ tokens' \in [Denom -> Token \cup {NoToken}]
      /\ bal' \in [AnyDenom -> [Account -> Nat]]
      /\ supply' \in [AnyDenom -> Nat]
  BY <1>1
<1>5. /\ supply'[d] = tokens'[d].total /\ bal'[d][Stoc] = tokens'[d].remaining
      /\ tokens'[d].remaining <= tokens'[d].total
      /\ SameTerms(tokens[d], tokens'[d])
      /\ \A a \in NonWallet : bal'[d][a] = bal[d][a]
  BY <1>3
<1> QED BY <1>2, <1>4, <1>5, ManagedChange

\* Only the native denom changes.
LEMMA NativeUpdate ==
  ASSUME IndInv, NEW L \in [Account -> Nat], NEW q \in Nat,
         bal' = [bal EXCEPT ![Native] = L],
         supply' = [supply EXCEPT ![Native] = q],
         tokens' = tokens, counter' = counter, committed' = committed
  PROVE  /\ Store' \in StoreType /\ committed' \in StoreType
         /\ StoreInv(Store)' /\ StoreInv(committed)'
         /\ BranchInv'
<1> USE Unfolded
<1>1. \A e \in Denom : bal'[e] = bal[e] /\ supply'[e] = supply[e]
  BY StocAssumption DEF AnyDenom
<1>2. bal' \in [AnyDenom -> [Account -> Nat]] /\ supply' \in [AnyDenom -> Nat]
  BY DEF AnyDenom
<1>3. Store' \in StoreType /\ StoreInv(Store)'
  BY <1>1, <1>2, Folded
<1>4. BranchInv'
  BY <1>1 DEF BranchInv
<1>5. committed' \in StoreType /\ StoreInv(committed')
  OBVIOUS
<1> QED BY <1>3, <1>4, <1>5

\* An account can only move coins of a registered token or native ones.
LEMMA MovedDenom ==
  ASSUME IndInv, NEW d \in AnyDenom, NEW a \in Account, NEW n \in Nat,
         n > 0, bal[d][a] >= n
  PROVE  (d \in Denom /\ tokens[d] # NoToken) \/ d = Native
BY Unfolded DEF AnyDenom

-----------------------------------------------------------------------------
(* Each step keeps the store part of the invariant.                        *)

StorePart ==
  /\ Store \in StoreType /\ committed \in StoreType
  /\ StoreInv(Store) /\ StoreInv(committed)
  /\ BranchInv

\* A transfer between accounts other than x/stoc's, as MsgSend and the tax
\* collection make it.
LEMMA TransferStep ==
  ASSUME IndInv, NEW from \in Account, NEW to \in Account, NEW d \in AnyDenom,
         NEW n \in Nat, n > 0, from # Stoc, to # Stoc,
         SendCoins(from, to, d, n),
         UNCHANGED <<tokens, counter, supply, committed>>
  PROVE  StorePart'
<1> USE Unfolded
<1> DEFINE L == Move(bal[d], from, to, n)
<1>1. bal[d] \in [Account -> Nat] /\ bal[d][from] >= n
  BY DEF SendCoins, CanSend
<1>2. /\ L \in [Account -> Nat]
      /\ \A a \in Account \ {from, to} : L[a] = bal[d][a]
  BY <1>1, MoveLedger
<1>3. bal' = [bal EXCEPT ![d] = L]
  BY DEF SendCoins
<1> HIDE DEF L
<1>4. CASE d \in Denom /\ tokens[d] # NoToken
  <2>1. SendRestriction(from, to, d) /\ HasToken(d)
    BY <1>4 DEF SendCoins, CanSend, HasToken
  <2>2. {from, to} \cap NonWallet = {}
    BY <2>1 DEF SendRestriction
  <2>3. \A a \in NonWallet : L[a] = bal[d][a]
    BY <2>2, <1>2 DEF Account
  <2>4. L[Stoc] = tokens[d].remaining
    BY <1>2, <1>4 DEF Account
  <2>5. SameTerms(tokens[d], tokens[d])
    <3>1. tokens[d].total <= tokens[d].total
      BY <1>4 DEF Token
    <3> QED BY <1>4, <3>1 DEF SameTerms
  <2>6. /\ bal' \in [AnyDenom -> [Account -> Nat]] /\ bal'[d] = L
        /\ \A e \in Denom : e # d => bal'[e] = bal[e]
    BY <1>2, <1>3 DEF AnyDenom
  <2> QED BY <1>4, <2>3, <2>4, <2>5, <2>6, ManagedChange DEF StorePart
<1>5. CASE d = Native
  <2>1. supply' = [supply EXCEPT ![Native] = supply[Native]] /\ supply[Native] \in Nat
    BY <1>5
  <2> QED BY <1>2, <1>3, <1>5, <2>1, NativeUpdate DEF StorePart
<1> QED BY <1>1, <1>4, <1>5, MovedDenom

\* MintTokens: TotalSupply, the bank's supply and the creator's balance grow
\* by the same amount.
LEMMA MintStep ==
  ASSUME IndInv, NEW signer \in Signer, NEW ref, NEW n \in Amount,
         MintTokens(signer, ref, n)
  PROVE  StorePart'
<1> USE Unfolded
<1>1. PICK d \in Denom :
        /\ tokens[d] # NoToken /\ tokens[d].unlimited
        /\ signer \notin Blocked /\ SendRestriction(Stoc, signer, d)
        /\ bal' = [bal EXCEPT ![d][signer] = @ + n]
        /\ supply' = [supply EXCEPT ![d] = @ + n]
        /\ tokens' = [tokens EXCEPT ![d] = [tokens[d] EXCEPT !.total = @ + n]]
        /\ UNCHANGED <<counter, committed>>
  BY DEF MintTokens, Resolves, HasToken, SetToken
<1> DEFINE L == [bal[d] EXCEPT ![signer] = @ + n]
           t == [tokens[d] EXCEPT !.total = @ + n]
<1>2. n \in Nat /\ signer \in Account /\ d \in AnyDenom
  BY StocAssumption DEF Amount, Signer, Account, AnyDenom
<1>3. bal[d] \in [Account -> Nat] /\ tokens[d] \in Token
  BY <1>1, <1>2
<1>4. L \in [Account -> Nat] /\ bal' = [bal EXCEPT ![d] = L]
  BY <1>1, <1>2, <1>3
<1>5. /\ t \in Token /\ t.total = tokens[d].total + n
      /\ t.remaining = tokens[d].remaining
      /\ SameTerms(tokens[d], t)
  <2>1. tokens[d].total \in Nat /\ tokens[d].total + n \in Nat
    BY <1>2, <1>3 DEF Token
  <2> QED BY <1>1, <1>3, <2>1, NewTotal
<1>6. signer \notin NonWallet /\ signer # Stoc
  BY <1>1 DEF SendRestriction, HasToken, Blocked
<1>7. L[Stoc] = tokens[d].remaining /\ \A a \in NonWallet : L[a] = bal[d][a]
  BY <1>1, <1>3, <1>6 DEF Account
<1>8. supply' = [supply EXCEPT ![d] = t.total] /\ t.total \in Nat
  BY <1>1, <1>2, <1>5 DEF Token
<1>9. t.remaining <= t.total
  BY <1>1, <1>2, <1>3, <1>5 DEF Token
<1>10. /\ tokens[d] # NoToken /\ tokens' = [tokens EXCEPT ![d] = t]
       /\ counter' = counter /\ committed' = committed /\ L[Stoc] = t.remaining
  BY <1>1, <1>5, <1>7
<1> HIDE DEF L, t
<1> QED BY <1>4, <1>5, <1>7, <1>8, <1>9, <1>10, ManagedUpdate DEF StorePart

\* ReleaseTokens: RemainingSupply and the module's balance shrink by the sum
\* of the outputs.
LEMMA ReleaseStep ==
  ASSUME IndInv, NEW signer \in Signer, NEW ref, NEW out \in Outputs,
         ReleaseTokens(signer, ref, out)
  PROVE  StorePart'
<1> USE Unfolded
<1> DEFINE total == SumFunction(out)
<1>0. DOMAIN out \subseteq Account /\ \A a \in DOMAIN out : out[a] \in Nat
  BY StocAssumption DEF Outputs, Amount
<1>1. PICK d \in Denom :
        /\ tokens[d] # NoToken
        /\ total \in 1 .. tokens[d].remaining
        /\ \A a \in DOMAIN out : a \notin Blocked /\ SendRestriction(Stoc, a, d)
        /\ bal[d][Stoc] >= total
        /\ bal' = [bal EXCEPT ![d] =
                     [a \in Account |-> bal[d][a]
                        + (IF a \in DOMAIN out THEN out[a] ELSE 0)
                        - (IF a = Stoc THEN total ELSE 0)]]
        /\ tokens' = [tokens EXCEPT ![d] = [tokens[d] EXCEPT !.remaining = @ - total]]
        /\ UNCHANGED <<counter, supply, committed>>
  BY DEF ReleaseTokens, Resolves, HasToken, SetToken
<1> HIDE DEF total
<1> DEFINE L == [a \in Account |-> bal[d][a]
                   + (IF a \in DOMAIN out THEN out[a] ELSE 0)
                   - (IF a = Stoc THEN total ELSE 0)]
           t == [tokens[d] EXCEPT !.remaining = @ - total]
<1>2. tokens[d] \in Token /\ tokens[d].remaining \in Nat /\ tokens[d].total \in Nat
  BY <1>1 DEF Token
<1>3. total \in Nat /\ total <= tokens[d].remaining
  BY <1>1, <1>2
<1>4. bal[d] \in [Account -> Nat]
  BY DEF AnyDenom
<1>5. L \in [Account -> Nat]
  BY <1>0, <1>1, <1>3, <1>4
<1>6. Stoc \in Account /\ Stoc \notin DOMAIN out
  BY <1>1 DEF Account, Blocked
<1>7. L[Stoc] = tokens[d].remaining - total
  BY <1>1, <1>2, <1>3, <1>6
<1>8. \A a \in NonWallet : a \notin DOMAIN out /\ a # Stoc
  BY <1>1, StocAssumption DEF SendRestriction, HasToken
<1>9. \A a \in NonWallet : L[a] = bal[d][a]
  BY <1>4, <1>8 DEF Account
<1>10. /\ t \in Token /\ t.remaining = tokens[d].remaining - total
       /\ t.total = tokens[d].total /\ SameTerms(tokens[d], t)
  <2>1. tokens[d].remaining - total \in Nat
    BY <1>2, <1>3
  <2> QED BY <1>2, <2>1, NewRemaining
<1>11. t.remaining <= t.total
  BY <1>1, <1>2, <1>3, <1>10
<1> DEFINE q == supply[d]
<1>12. supply' = [supply EXCEPT ![d] = q] /\ q = t.total /\ q \in Nat
  BY <1>1, <1>2, <1>10
<1>13. /\ tokens[d] # NoToken /\ tokens' = [tokens EXCEPT ![d] = t]
       /\ bal' = [bal EXCEPT ![d] = L] /\ L[Stoc] = t.remaining
       /\ counter' = counter /\ committed' = committed
  BY <1>1, <1>7, <1>10
<1> HIDE DEF L, t, q
<1> QED BY <1>5, <1>9, <1>10, <1>11, <1>12, <1>13, ManagedUpdate DEF StorePart

\* BurnToken: the holder's balance, the bank's supply and TotalSupply shrink
\* together; a denom x/stoc does not manage leaves the tokens alone.
LEMMA BurnStep ==
  ASSUME IndInv, NEW signer \in Signer, NEW d \in AnyDenom, NEW n \in Nat,
         BurnToken(signer, d, n)
  PROVE  StorePart'
<1> USE Unfolded
<1> DEFINE L == [bal[d] EXCEPT ![signer] = @ - n]
<1>1. n > 0 /\ bal[d][signer] >= n /\ supply[d] >= n
  BY DEF BurnToken, BurnChecks, CanSend
<1>2. signer \in Account /\ signer # Stoc
  BY StocAssumption DEF Signer, Account
<1>3. bal[d] \in [Account -> Nat] /\ L \in [Account -> Nat]
  BY <1>1, <1>2
<1>4. bal' = [bal EXCEPT ![d] = L] /\ supply' = [supply EXCEPT ![d] = supply[d] - n]
  BY DEF BurnToken
<1>5. supply[d] - n \in Nat
  BY <1>1
<1>6. CASE d \in Denom /\ tokens[d] # NoToken
  <2> DEFINE t == [tokens[d] EXCEPT !.total = @ - n]
  <2>1. /\ HasToken(d) /\ SendRestriction(signer, Stoc, d)
        /\ ValidateState(t) /\ tokens' = [tokens EXCEPT ![d] = t]
        /\ UNCHANGED <<counter, committed>>
    BY <1>6 DEF BurnToken, BurnChecks, CanSend, HasToken, SetToken
  <2>2. tokens[d] \in Token /\ tokens[d].total \in Nat /\ supply[d] = tokens[d].total
    BY <1>6 DEF Token
  <2>3. /\ t \in Token /\ t.total = tokens[d].total - n
        /\ t.remaining = tokens[d].remaining /\ SameTerms(tokens[d], t)
    <3>1. tokens[d].total - n \in Nat /\ tokens[d].total - n <= tokens[d].total
      BY <1>5, <2>2
    <3> QED BY <2>2, <3>1, NewTotal
  <2>4. t.remaining <= t.total
    BY <2>1 DEF ValidateState
  <2>5. signer \notin NonWallet
    BY <2>1 DEF SendRestriction
  <2>6. L[Stoc] = t.remaining /\ \A a \in NonWallet : L[a] = bal[d][a]
    BY <1>2, <1>3, <1>6, <2>3, <2>5 DEF Account
  <2> HIDE DEF L, t
  <2> QED BY <1>3, <1>4, <1>5, <1>6, <2>1, <2>2, <2>3, <2>4, <2>6, ManagedUpdate DEF StorePart
<1>7. CASE d = Native
  <2>1. UNCHANGED <<tokens, counter, committed>>
    BY <1>7, StocAssumption DEF BurnToken, HasToken
  <2> HIDE DEF L
  <2> QED BY <1>3, <1>4, <1>5, <1>7, <2>1, NativeUpdate DEF StorePart
<1> QED BY <1>1, <1>2, <1>6, <1>7, MovedDenom

\* A denom is created at the counter, which moves past it.
LEMMA NewDenom ==
  ASSUME IndInv, NEW d \in Denom, tokens[d] = NoToken, Suffix(d) = counter,
         NEW L \in [Account -> Nat], NEW q \in Nat, NEW t \in Token,
         bal' = [bal EXCEPT ![d] = L],
         supply' = [supply EXCEPT ![d] = q],
         tokens' = [tokens EXCEPT ![d] = t],
         counter' = counter + 1, counter < MaxUint64, committed' = committed,
         q = t.total, L[Stoc] = t.remaining, t.remaining <= t.total,
         t.taxTo \notin Blocked
  PROVE  StorePart'
<1> USE Unfolded
<1>1. d \in AnyDenom /\ t # NoToken
  BY StocAssumption DEF AnyDenom
<1>2. \A e \in Denom : e # d => /\ bal'[e] = bal[e] /\ supply'[e] = supply[e]
                                /\ tokens'[e] = tokens[e]
  BY DEF AnyDenom
<1>3. bal'[d] = L /\ supply'[d] = q /\ tokens'[d] = t
  BY <1>1
<1>4. /\ tokens' \in [Denom -> Token \cup {NoToken}]
      /\ bal' \in [AnyDenom -> [Account -> Nat]]
      /\ supply' \in [AnyDenom -> Nat]
      /\ counter' \in 0 .. MaxUint64
  BY <1>1, StocAssumption
<1>5. IsNextSuffix(counter', tokens')
  <2>1. \A e \in Denom : Suffix(e) \in Nat
    BY StocAssumption DEF Denom, Suffix
  <2> QED BY <1>1, <1>2, <1>3, <2>1 DEF IsNextSuffix
<1>6. Store' \in StoreType /\ StoreInv(Store)'
  <2>1. \A e \in Denom : tokens'[e] # NoToken =>
           /\ supply'[e] = tokens'[e].total
           /\ bal'[e][Stoc] = tokens'[e].remaining
           /\ tokens'[e].remaining <= tokens'[e].total
           /\ tokens'[e].taxTo \notin Blocked
    BY <1>2, <1>3
  <2>2. \A e \in Denom : tokens'[e] = NoToken =>
          supply'[e] = 0 /\ \A a \in Account : bal'[e][a] = 0
    BY <1>1, <1>2, <1>3
  <2> QED BY <1>4, <1>5, <2>1, <2>2, Folded
<1>7. BranchInv'
  <2>1. committed.tokens[d] = NoToken
    BY DEF BranchInv, SameTerms
  <2> QED BY <1>2, <2>1 DEF BranchInv
<1>8. committed' \in StoreType /\ StoreInv(committed')
  OBVIOUS
<1> QED BY <1>6, <1>7, <1>8 DEF StorePart

\* CreateToken: the shares and the reserve add up to TotalSupply, and the
\* counter moves past the new denom.
LEMMA CreateStep ==
  ASSUME IndInv, NEW creator \in Signer, NEW m \in CreateMsg,
         CreateToken(creator, m)
  PROVE  StorePart'
<1> USE Unfolded
<1> DEFINE skip == m.unlimited /\ m.initial = 0
           dist == IF DOMAIN m.dist = {} THEN [a \in {creator} |-> 100] ELSE m.dist
           last == IF DOMAIN m.dist = {} THEN creator ELSE m.last
           share == IF skip THEN NoShare ELSE Share(m.initial, dist, last)
           minted == IF skip THEN 0 ELSE Minted(share, last)
           reserve == m.total - m.initial
           denom == MinimalDenom(m.symbol, counter)
           L == [a \in Account |-> bal[denom][a]
                      + (IF a \in DOMAIN share THEN share[a] ELSE 0)
                      + (IF a = Stoc THEN reserve ELSE 0)]
           q == supply[denom] + minted + reserve
           t == [creator |-> creator, unlimited |-> m.unlimited,
                 total |-> m.total, remaining |-> reserve,
                 taxPercent |-> m.taxPercent, taxTo |-> m.taxTo]
<1>1. /\ counter < MaxUint64 /\ Validate(m) /\ m.taxTo \notin Blocked
      /\ ~HasToken(denom)
      /\ skip \/ Cuts(m.initial, dist, last) \in 0 .. m.initial
      /\ \A a \in DOMAIN share : a \notin Blocked
  BY DEF CreateToken, CounterLeft
<1>2. /\ bal' = [bal EXCEPT ![denom] = L]
      /\ supply' = [supply EXCEPT ![denom] = @ + minted + reserve]
      /\ counter' = NextCounter
      /\ tokens' = [tokens EXCEPT ![denom] = t]
      /\ committed' = committed
  BY DEF CreateToken, SetToken
<1>3. /\ m.symbol \in Symbol /\ m.initial \in Nat /\ m.total \in Nat
      /\ m.unlimited \in BOOLEAN
      /\ DOMAIN m.dist \subseteq Account /\ m.dist \in [DOMAIN m.dist -> 1 .. 100]
      /\ m.taxPercent \in 0 .. 50 /\ m.taxTo \in Account \cup {NoAddr}
  BY StocAssumption DEF IsCreateMsg
<1>4. m.initial <= m.total /\ (DOMAIN m.dist = {} \/ m.last \in DOMAIN m.dist)
  BY <1>1 DEF Validate
<1>5. reserve \in Nat /\ reserve <= m.total
  BY <1>3, <1>4
<1>6. creator \in Account
  BY DEF Signer, Account
<1>7. last \in DOMAIN dist /\ \A a \in DOMAIN dist : dist[a] \in 1 .. 100
  BY <1>3, <1>4
<1>8. DOMAIN share \subseteq DOMAIN dist /\ \A a \in DOMAIN share : share[a] \in Nat
  <2>1. CASE skip
    BY <2>1 DEF NoShare
  <2>2. CASE ~skip
    <3> HIDE DEF dist, last
    <3> QED BY <2>2, <1>1, <1>3, <1>7, ShareNat
  <2> QED BY <2>1, <2>2
<1>9. minted = m.initial
  <2>1. CASE skip
    BY <2>1
  <2>2. CASE ~skip
    <3> HIDE DEF dist, last
    <3> QED BY <2>2, <1>1, <1>3, <1>7, MintedAll
  <2> QED BY <2>1, <2>2
<1>10. denom \in Denom /\ Suffix(denom) = counter
  BY <1>1, <1>3, StocAssumption DEF Denom, MinimalDenom, Suffix
<1>11. tokens[denom] = NoToken
  BY <1>1, <1>10 DEF HasToken
<1> HIDE DEF denom, share, minted, dist, last, skip
<1>12. denom \in AnyDenom /\ supply[denom] = 0 /\ \A a \in Account : bal[denom][a] = 0
  BY <1>10, <1>11 DEF AnyDenom
<1>13. L \in [Account -> Nat]
  BY <1>5, <1>8, <1>12
<1>14. L[Stoc] = reserve
  BY <1>1, <1>5, <1>12 DEF Account, Blocked
<1>15. t \in Token
  BY <1>3, <1>5, <1>6 DEF Token
<1>16. q = m.total
  BY <1>3, <1>4, <1>9, <1>12
<1>17. supply' = [supply EXCEPT ![denom] = q]
  BY <1>2
<1>18. /\ t.total = m.total /\ t.remaining = reserve /\ t.taxTo = m.taxTo
  OBVIOUS
<1>19. /\ q \in Nat /\ q = t.total /\ L[Stoc] = t.remaining
       /\ t.remaining <= t.total /\ t.taxTo \notin Blocked
  BY <1>1, <1>3, <1>5, <1>14, <1>16, <1>18
<1>20. counter' = counter + 1
  BY <1>1, <1>2 DEF NextCounter
<1> HIDE DEF L, q, t
<1> QED BY <1>1, <1>2, <1>10, <1>11, <1>13, <1>15, <1>17, <1>19, <1>20, NewDenom

-----------------------------------------------------------------------------
(* Each step keeps the invariant.                                          *)

TxPart ==
  /\ phase \in {"idle", "msgs", "post"} /\ nmsgs \in 0 .. MaxMsgs
  /\ sends \in Seq(Transfer) /\ burners \subseteq Signer
  /\ receipts \in Seq({"none", "paid", "skipped"}) /\ Len(receipts) <= Len(sends)
  /\ \A i \in 1 .. Len(sends) : sends[i].to \notin Blocked

\* The invariant is the invariant of the stores and that of the transaction.
LEMMA Parts ==
  IndInv <=> StorePart /\ TxPart /\ (phase = "idle" => Store = committed)
BY DEF IndInv, TypeOK, StorePart, TxPart

\* The same in the next state, as the steps below conclude it.
LEMMA NextParts ==
  ASSUME StorePart', TxPart', phase' = "idle" => Store' = committed'
  PROVE  IndInv'
BY DEF IndInv, TypeOK, StorePart, TxPart

\* A message that leaves the transfers alone.
LEMMA OtherMessage ==
  ASSUME TxPart, Deliver, UNCHANGED <<phase, sends, receipts>>,
         burners' \subseteq Signer
  PROVE  TxPart'
<1>1. nmsgs' \in 0 .. MaxMsgs
  BY StocAssumption DEF TxPart, Deliver
<1> QED BY <1>1 DEF TxPart

\* MsgSend records a transfer to an account that is not blocked.
LEMMA SendMessage ==
  ASSUME IndInv, Deliver, NEW from \in Signer, NEW to \in Account,
         NEW d \in AnyDenom, NEW n \in Amount, MsgSend(from, to, d, n)
  PROVE  StorePart' /\ TxPart'
<1>1. n \in Nat /\ n > 0
  BY StocAssumption DEF Amount
<1>2. from \in Account /\ from # Stoc /\ to # Stoc /\ to \notin Blocked
  BY StocAssumption DEF Signer, Account, Blocked, MsgSend
<1>3. StorePart'
  BY <1>1, <1>2, TransferStep DEF MsgSend
<1> DEFINE s == [from |-> from, to |-> to, denom |-> d, amount |-> n]
<1>4. s \in Transfer /\ s.to = to
  BY <1>1 DEF Transfer
<1>5. sends' = Append(sends, s) /\ UNCHANGED <<phase, burners, receipts>>
  BY DEF MsgSend
<1> HIDE DEF s
<1>6. nmsgs' \in 0 .. MaxMsgs
  BY Parts, StocAssumption DEF TxPart, Deliver
<1>7. TxPart'
  BY <1>2, <1>4, <1>5, <1>6, Parts DEF TxPart
<1> QED BY <1>3, <1>7

\* One message of the transaction.
LEMMA MessageStep ==
  ASSUME IndInv, Deliver, Message
  PROVE  IndInv'
<1> USE Parts
<1>1. ASSUME NEW c \in Signer, NEW m \in CreateMsg, CreateToken(c, m)
      PROVE  StorePart' /\ TxPart' /\ phase' = phase
  <2>1. UNCHANGED <<phase, sends, burners, receipts>>
    BY <1>1 DEF CreateToken
  <2>2. TxPart'
    BY <2>1, OtherMessage DEF TxPart
  <2> QED BY <1>1, <2>1, <2>2, CreateStep
<1>2. ASSUME NEW c \in Signer, NEW ref \in Ref, NEW n \in Amount, MintTokens(c, ref, n)
      PROVE  StorePart' /\ TxPart' /\ phase' = phase
  <2>1. UNCHANGED <<phase, sends, burners, receipts>>
    BY <1>2 DEF MintTokens
  <2>2. TxPart'
    BY <2>1, OtherMessage DEF TxPart
  <2> QED BY <1>2, <2>1, <2>2, MintStep
<1>3. ASSUME NEW c \in Signer, NEW ref \in Ref, NEW out \in Outputs, ReleaseTokens(c, ref, out)
      PROVE  StorePart' /\ TxPart' /\ phase' = phase
  <2>1. UNCHANGED <<phase, sends, burners, receipts>>
    BY <1>3 DEF ReleaseTokens
  <2>2. TxPart'
    BY <2>1, OtherMessage DEF TxPart
  <2> QED BY <1>3, <2>1, <2>2, ReleaseStep
<1>4. ASSUME NEW a \in Signer, NEW d \in AnyDenom, NEW n \in Nat, BurnToken(a, d, n)
      PROVE  StorePart' /\ TxPart' /\ phase' = phase
  <2>1. UNCHANGED <<phase, sends, receipts>> /\ burners' = burners \cup {a}
    BY <1>4 DEF BurnToken
  <2>2. TxPart'
    BY <2>1, OtherMessage DEF TxPart
  <2> QED BY <1>4, <2>1, <2>2, BurnStep
<1>5. ASSUME NEW a \in Signer, NEW b \in Account, NEW d \in AnyDenom,
             NEW n \in Amount, MsgSend(a, b, d, n)
      PROVE  StorePart' /\ TxPart' /\ phase' = phase
  <2>1. phase' = phase
    BY <1>5 DEF MsgSend
  <2> QED BY <1>5, <2>1, SendMessage
<1>6. \A a \in Signer, d \in AnyDenom : bal[d][a] \in Nat
  BY Unfolded DEF Signer, Account
<1>7. Amount \subseteq Nat
  BY StocAssumption DEF Amount
<1>8. StorePart' /\ TxPart' /\ phase' = phase
  BY <1>1, <1>2, <1>3, <1>4, <1>5, <1>6, <1>7 DEF Message, BurnAll
<1>9. phase' # "idle"
  BY <1>8 DEF Deliver
<1> QED BY <1>8, <1>9, NextParts

\* The tax the PostHandler collects moves at least one unit from the recipient
\* of the transfer to the collector, and neither of them is x/stoc.
LEMMA Collected ==
  ASSUME IndInv, NEW i \in 1 .. Len(sends), PostCollect(sends[i])
  PROVE  /\ sends[i].to \in Account /\ sends[i].to # Stoc /\ sends[i].denom \in AnyDenom
         /\ tokens[sends[i].denom].taxTo \in Account /\ tokens[sends[i].denom].taxTo # Stoc
         /\ TaxOf(sends[i]) \in Nat /\ TaxOf(sends[i]) >= 1
         /\ SendCoins(sends[i].to, tokens[sends[i].denom].taxTo, sends[i].denom, TaxOf(sends[i]))
         /\ UNCHANGED <<tokens, counter, supply, committed>>
<1> USE Parts
<1> DEFINE s == sends[i]
           c == tokens[s.denom].taxTo
           n == TaxOf(s)
<1>1. s \in Transfer /\ s.to \notin Blocked
  BY DEF TxPart
<1>2. /\ Taxable(s) /\ s.amount > 1 /\ SendCoins(s.to, c, s.denom, n)
      /\ UNCHANGED <<tokens, counter, supply, committed>>
  BY DEF PostCollect, Payer
<1>3. s.to \in Account /\ s.denom \in AnyDenom /\ s.amount \in Nat
  BY <1>1 DEF Transfer
<1>4. s.denom \in Denom /\ tokens[s.denom] # NoToken /\ c # NoAddr
  BY <1>2 DEF Taxable, Untaxed, HasToken
<1>5. tokens[s.denom] \in Token /\ c \notin Blocked
  BY <1>4, Unfolded
<1>6. c \in Account /\ tokens[s.denom].taxPercent \in 0 .. 50
  BY <1>4, <1>5 DEF Token
<1>7. n \in Nat /\ n >= 1
  <2> DEFINE k == s.amount
             percent == tokens[s.denom].taxPercent
  <2>1. k \in Nat /\ k >= 2 /\ percent \in 0 .. 50
    BY <1>2, <1>3, <1>6
  <2>2. n = TaxAmount(k, percent)
    BY DEF TaxOf
  <2> HIDE DEF k, percent, n
  <2> QED BY <2>1, <2>2, TaxBounds
<1>8. s.to # Stoc /\ c # Stoc
  BY <1>1, <1>5 DEF Blocked
<1> QED BY <1>2, <1>3, <1>6, <1>7, <1>8

\* So it is a transfer like any other.
LEMMA CollectStep ==
  ASSUME IndInv, NEW i \in 1 .. Len(sends), PostCollect(sends[i])
  PROVE  StorePart'
<1> DEFINE n == TaxOf(sends[i])
<1>1. n \in Nat /\ n > 0
  BY Collected
<1> HIDE DEF n
<1> QED BY <1>1, Collected, TransferStep DEF n

\* One transfer of the PostHandler, whatever becomes of its tax.
LEMMA PostStep ==
  ASSUME IndInv, PostHandle
  PROVE  IndInv'
<1> USE Parts
<1>1. PICK i \in 1 .. Len(sends) :
        PostNoTax(sends[i]) \/ PostCollect(sends[i]) \/ PostSkip(sends[i])
  BY DEF PostHandle
<1>2. StorePart'
  <2>1. CASE UNCHANGED <<tokens, counter, bal, supply, committed>>
    BY <2>1 DEF StorePart, StoreType, StoreInv, BranchInv, Books
  <2>2. CASE PostCollect(sends[i])
    BY <2>2, CollectStep
  <2> QED BY <1>1, <2>1, <2>2 DEF PostNoTax, PostSkip
<1>3. /\ phase = "post" /\ Len(receipts) < Len(sends)
      /\ UNCHANGED <<phase, nmsgs, sends, burners>>
      /\ \E r \in {"none", "paid", "skipped"} : receipts' = Append(receipts, r)
  BY <1>1 DEF PostNoTax, PostCollect, PostSkip, NextSend
<1>4. TxPart'
  BY <1>3 DEF TxPart
<1> QED BY <1>2, <1>3, <1>4, NextParts

\* Steps that leave both stores alone.
LEMMA UnchangedStore ==
  ASSUME StorePart, UNCHANGED <<tokens, counter, bal, supply, committed>>
  PROVE  StorePart'
BY DEF StorePart, StoreType, StoreInv, BranchInv, Books

\* CommitTx: what held of the branch holds of the committed store.
LEMMA CommitStep ==
  ASSUME IndInv, CommitTx
  PROVE  IndInv'
<1> USE Parts
<1>1. committed' = Store' /\ UNCHANGED <<tokens, counter, bal, supply>>
  BY DEF CommitTx
<1>2. Store' = Store
  BY <1>1
<1>3. BranchInv'
  <2>1. ASSUME NEW d \in Denom, tokens[d] # NoToken
        PROVE  SameTerms(tokens[d], tokens[d])
    <3>1. tokens[d].total <= tokens[d].total
      BY <2>1, Unfolded DEF Token
    <3> QED BY <2>1, <3>1 DEF SameTerms
  <2>2. committed'.tokens = tokens' /\ committed'.bal = bal'
    BY <1>1
  <2> QED BY <1>1, <2>1, <2>2 DEF BranchInv
<1>4. StorePart'
  BY <1>1, <1>2, <1>3 DEF StorePart
<1>5. TxPart'
  BY StocAssumption DEF CommitTx, EndTx, TxPart
<1> QED BY <1>1, <1>4, <1>5, NextParts

\* A dropped branch leaves the store as it was committed.
LEMMA AbortStep ==
  ASSUME IndInv, AbortTx
  PROVE  IndInv'
<1> USE Parts
<1>1. /\ committed' = committed
      /\ tokens' = committed.tokens /\ counter' = committed.counter
      /\ bal' = committed.bal /\ supply' = committed.supply
  BY DEF AbortTx
<1>2. committed \in StoreType
  BY DEF StorePart
<1>3. Store' = committed
  BY <1>1, <1>2 DEF StoreType
<1>4. BranchInv'
  <2>1. ASSUME NEW d \in Denom, committed.tokens[d] # NoToken
        PROVE  SameTerms(committed.tokens[d], committed.tokens[d])
    <3>1. committed.tokens[d].total <= committed.tokens[d].total
      BY <2>1, Unfolded DEF Token
    <3> QED BY <2>1, <3>1 DEF SameTerms
  <2> QED BY <1>1, <2>1 DEF BranchInv
<1>5. StorePart'
  BY <1>1, <1>3, <1>4 DEF StorePart
<1>6. TxPart'
  BY StocAssumption DEF AbortTx, EndTx, TxPart
<1> QED BY <1>1, <1>3, <1>5, <1>6, NextParts

\* InitGenesis rebuilds the very counter that was not exported.
LEMMA RebuiltIsCounter ==
  ASSUME IndInv
  PROVE  RebuiltCounter = counter
<1>1. counter \in 0 .. MaxUint64 /\ IsNextSuffix(counter, tokens)
  BY Unfolded
<1>2. RebuiltCounter \in 0 .. MaxUint64 /\ IsNextSuffix(RebuiltCounter, tokens)
  BY <1>1 DEF RebuiltCounter
<1>3. 0 .. MaxUint64 \subseteq Nat
  BY StocAssumption
<1> HIDE DEF RebuiltCounter
<1> QED BY <1>1, <1>2, <1>3, NextSuffixUnique

\* ExportGenesis and InitGenesis: the rebuilt counter is the old one.
LEMMA ExportImportStep ==
  ASSUME IndInv, ExportImport
  PROVE  IndInv' /\ committed' = committed
<1> USE Parts
<1>1. Store = committed
  BY DEF ExportImport
<1>2. counter' = counter /\ committed' = [committed EXCEPT !.counter = counter]
  BY RebuiltIsCounter DEF ExportImport
<1>3. committed' = committed
  BY <1>1, <1>2
<1>4. UNCHANGED <<tokens, bal, supply, phase, nmsgs, sends, burners, receipts>>
  BY DEF ExportImport
<1>5. StorePart'
  BY <1>2, <1>3, <1>4, UnchangedStore
<1>6. TxPart'
  BY <1>4 DEF TxPart
<1>7. Store' = committed'
  BY <1>1, <1>2, <1>3, <1>4
<1> QED BY <1>3, <1>5, <1>6, <1>7, NextParts

\* Every step keeps the invariant.
LEMMA NextStep ==
  ASSUME IndInv, [Next]_vars
  PROVE  IndInv'
<1> USE Parts
<1>1. CASE BeginTx \/ StartPost
  <2>1. /\ UNCHANGED <<tokens, counter, bal, supply, committed>>
        /\ phase' \in {"msgs", "post"}
        /\ UNCHANGED <<nmsgs, sends, burners, receipts>>
    BY <1>1 DEF BeginTx, StartPost
  <2>2. TxPart'
    BY <2>1 DEF TxPart
  <2> QED BY <2>1, <2>2, UnchangedStore, NextParts
<1>2. CASE Deliver /\ Message
  BY <1>2, MessageStep
<1>3. CASE PostHandle
  BY <1>3, PostStep
<1>4. CASE CommitTx
  BY <1>4, CommitStep
<1>5. CASE AbortTx
  BY <1>5, AbortStep
<1>6. CASE ExportImport
  BY <1>6, ExportImportStep
<1>7. CASE UNCHANGED vars
  <2>1. UNCHANGED <<tokens, counter, bal, supply, committed, phase, nmsgs,
                    sends, burners, receipts>>
    BY <1>7 DEF vars
  <2>2. TxPart' /\ Store' = Store
    BY <2>1 DEF TxPart
  <2> QED BY <2>1, <2>2, UnchangedStore, NextParts
<1> QED BY <1>1, <1>2, <1>3, <1>4, <1>5, <1>6, <1>7 DEF Next

\* Only CommitTx changes the committed store.
LEMMA CommittedOnlyByCommit ==
  ASSUME IndInv, [Next]_vars
  PROVE  CommitTx \/ committed' = committed
<1>1. CASE ExportImport
  BY <1>1, ExportImportStep
<1>2. CASE Message
  <2>1. ASSUME NEW c, NEW m, CreateToken(c, m) PROVE committed' = committed
    BY <2>1 DEF CreateToken
  <2>2. ASSUME NEW c, NEW ref, NEW n, MintTokens(c, ref, n) PROVE committed' = committed
    BY <2>2 DEF MintTokens
  <2>3. ASSUME NEW c, NEW ref, NEW out, ReleaseTokens(c, ref, out)
        PROVE  committed' = committed
    BY <2>3 DEF ReleaseTokens
  <2>4. ASSUME NEW a, NEW d, NEW n, BurnToken(a, d, n) PROVE committed' = committed
    BY <2>4 DEF BurnToken
  <2>5. ASSUME NEW a, NEW b, NEW d, NEW n, MsgSend(a, b, d, n)
        PROVE  committed' = committed
    BY <2>5 DEF MsgSend
  <2> QED BY <1>2, <2>1, <2>2, <2>3, <2>4, <2>5 DEF Message, BurnAll
<1>3. CASE PostHandle
  BY <1>3 DEF PostHandle, PostNoTax, PostCollect, PostSkip
<1> QED BY <1>1, <1>2, <1>3 DEF Next, BeginTx, StartPost, AbortTx, vars

\* The genesis state satisfies it.
LEMMA InitStep ==
  ASSUME Init
  PROVE  IndInv
<1>1. SumFunction(GenesisNative) \in Nat
  BY StocAssumption, SumNat, SumOfAll
<1>2. /\ tokens \in [Denom -> Token \cup {NoToken}] /\ counter \in 0 .. MaxUint64
      /\ bal \in [AnyDenom -> [Account -> Nat]] /\ supply \in [AnyDenom -> Nat]
  BY <1>1, StocAssumption DEF Init
<1>3. Store \in StoreType /\ committed = Store
  BY <1>2 DEF Init, StoreType
<1>4. \A d \in Denom : /\ tokens[d] = NoToken /\ supply[d] = 0 /\ d # Native
                       /\ \A a \in Account : bal[d][a] = 0
  BY StocAssumption DEF Init, AnyDenom
<1>5. IsNextSuffix(counter, tokens)
  BY <1>4 DEF Init, IsNextSuffix
<1>6. StoreInv(Store)
  BY <1>4, <1>5 DEF StoreInv, Books
<1>7. BranchInv
  BY <1>3, <1>4 DEF BranchInv
<1>8. TxPart
  BY StocAssumption DEF Init, TxPart
<1> QED BY <1>3, <1>6, <1>7, <1>8, Parts DEF StorePart

-----------------------------------------------------------------------------
(* The theorems.                                                           *)

\* The branch and the committed store satisfy the invariant after every
\* message, tax collection, commit, abort and export.
THEOREM Invariance == Spec => []IndInv
BY InitStep, NextStep, PTL DEF Spec

\* Every variable keeps its type; no balance, supply or reserve goes negative.
THEOREM TypeCorrect == Spec => []TypeOK
<1>1. IndInv => TypeOK
  BY DEF IndInv
<1> QED BY <1>1, Invariance, PTL

\* The code's SupplyInvariant never reports a drift.
THEOREM SupplyCorrect == Spec => []SupplyInvariant
<1>1. IndInv => SupplyInvariant
  BY DEF IndInv, StoreInv, SupplyInvariant
<1> QED BY <1>1, Invariance, PTL

\* CreateToken never meets a denom that exists or has coins, also after an
\* export and import.
THEOREM CounterCorrect == Spec => []CounterFresh
<1>1. IndInv => CounterFresh
  BY Unfolded DEF CounterFresh
<1> QED BY <1>1, Invariance, PTL

\* A committed token keeps its terms, and its supply cap if it has one.
THEOREM TermsCorrect == Spec => TermsKept
<1> DEFINE Kept == \A d \in Denom : committed.tokens[d] # NoToken =>
                     SameTerms(committed.tokens[d], committed'.tokens[d])
<1>1. ASSUME IndInv, [Next]_vars
      PROVE  Kept
  <2>1. CASE committed' = committed
    <3>1. ASSUME NEW d \in Denom, committed.tokens[d] # NoToken
          PROVE  SameTerms(committed.tokens[d], committed.tokens[d])
      <4>1. committed.tokens[d].total <= committed.tokens[d].total
        BY <1>1, <3>1, Unfolded DEF Token
      <4> QED BY <3>1, <4>1 DEF SameTerms
    <3> QED BY <2>1, <3>1
  <2>2. CASE CommitTx
    <3>1. committed'.tokens = tokens
      BY <2>2 DEF CommitTx
    <3> QED BY <1>1, <3>1, Unfolded DEF BranchInv
  <2> QED BY <1>1, <2>1, <2>2, CommittedOnlyByCommit
<1> QED BY <1>1, Invariance, PTL DEF Spec, TermsKept

\* No message or tax moves a registered token into or out of an account that
\* is not a wallet.
THEOREM FrozenCorrect == Spec => NonWalletFrozen
<1> DEFINE Frozen == \A d \in Denom, a \in NonWallet :
                       committed.tokens[d] # NoToken =>
                         committed'.bal[d][a] = committed.bal[d][a]
<1>1. ASSUME IndInv, [Next]_vars
      PROVE  Frozen
  <2>1. CASE committed' = committed
    BY <2>1
  <2>2. CASE CommitTx
    <3>1. committed'.bal = bal
      BY <2>2 DEF CommitTx
    <3> QED BY <1>1, <3>1, Unfolded DEF BranchInv
  <2> QED BY <1>1, <2>1, <2>2, CommittedOnlyByCommit
<1> QED BY <1>1, Invariance, PTL DEF Spec, NonWalletFrozen

-----------------------------------------------------------------------------
(* The bank's books: the supply is the sum of the balances.                *)

\* The bank's books: the supply of a denom is what all accounts hold of it.
Balanced(s) == \A d \in AnyDenom : SumFrom(0, s.bal[d], Account) = s.supply[d]
Balances == Balanced(Store) /\ Balanced(committed)

\* What a ledger needs to be summed.
LEMMA LedgerSum ==
  ASSUME NEW L \in [Account -> Nat]
  PROVE  Summable(L, Account) /\ SumFrom(0, L, Account) \in Nat
<1>1. Summable(L, Account)
  BY StocAssumption DEF Summable
<1> QED BY <1>1, StocAssumption, SumNat

\* An account is credited, or debited, x.
LEMMA CreditSum ==
  ASSUME NEW L \in [Account -> Nat], NEW a \in Account, NEW x \in Int, NEW M,
         M[a] = L[a] + x, \A b \in Account \ {a} : M[b] = L[b]
  PROVE  SumFrom(0, M, Account) = SumFrom(0, L, Account) + x
<1>1. Summable(L, Account) /\ SumFrom(0, L, Account) \in Int
  BY LedgerSum
<1>2. M[a] \in Int /\ L[a] \in Int
  OBVIOUS
<1>3. SumFrom(0, M, Account) = SumFrom(0, L, Account) + (M[a] - L[a])
  BY <1>1, <1>2, SumUpdate
<1> QED BY <1>1, <1>2, <1>3

\* A transfer between two accounts leaves the sum alone.
LEMMA MoveSum ==
  ASSUME NEW L \in [Account -> Nat], NEW from \in Account, NEW to \in Account,
         NEW n \in Nat, L[from] >= n
  PROVE  SumFrom(0, Move(L, from, to, n), Account) = SumFrom(0, L, Account)
<1> DEFINE M == [L EXCEPT ![from] = @ - n]
           N == [M EXCEPT ![to] = @ + n]
           y == 0 - n
<1>1. M \in [Account -> Nat] /\ M[from] = L[from] + y /\ \A b \in Account \ {from} : M[b] = L[b]
  OBVIOUS
<1>2. N[to] = M[to] + n /\ \A b \in Account \ {to} : N[b] = M[b]
  BY <1>1
<1>3. y \in Int /\ y = 0 - n /\ Move(L, from, to, n) = N
  BY DEF Move
<1> HIDE DEF M, N, y
<1>4. SumFrom(0, M, Account) = SumFrom(0, L, Account) + y
  BY <1>1, <1>3, CreditSum
<1>5. SumFrom(0, N, Account) = SumFrom(0, M, Account) + n
  BY <1>1, <1>2, CreditSum
<1>6. SumFrom(0, L, Account) \in Nat
  BY LedgerSum
<1> QED BY <1>3, <1>4, <1>5, <1>6

\* M is L with each account of S credited its share, and x/stoc's account x.
Credited(M, L, S, share, x) ==
  \A a \in Account : M[a] = L[a] + (IF a \in S THEN share[a] ELSE 0)
                                 + (IF a = Stoc THEN x ELSE 0)

\* Then the sum of M is that of L, of the shares and of x.
LEMMA SharesSum ==
  ASSUME NEW L \in [Account -> Nat], NEW S \in SUBSET Account, NEW share \in [S -> Nat],
         NEW x \in Int, NEW M, Credited(M, L, S, share, x)
  PROVE  /\ SumFunction(share) \in Nat
         /\ SumFrom(0, M, Account) = SumFrom(0, L, Account) + SumFunction(share) + x
<1> DEFINE g == [a \in Account |-> IF a \in S THEN share[a] ELSE 0]
           K == [a \in Account |-> L[a] + g[a]]
<1>1. g \in [Account -> Nat] /\ K \in [Account -> Nat]
  OBVIOUS
<1>2. /\ \A a \in S : share[a] = g[a]
      /\ \A a \in Account \ S : g[a] = 0
      /\ \A a \in Account : K[a] = L[a] + g[a]
  OBVIOUS
<1>3. Stoc \in Account /\ M[Stoc] = K[Stoc] + x /\ \A b \in Account \ {Stoc} : M[b] = K[b]
  BY DEF Account, Credited
<1> HIDE DEF g, K
<1>4. SumFrom(0, M, Account) = SumFrom(0, K, Account) + x
  <2> DEFINE c == Stoc
  <2>1. K \in [Account -> Nat]
    BY <1>1
  <2>2. c \in Account
    BY <1>3
  <2>3. M[c] = K[c] + x
    BY <1>3
  <2>4. \A b \in Account \ {c} : M[b] = K[b]
    BY <1>3
  <2> HIDE DEF c
  <2> QED BY <2>1, <2>2, <2>3, <2>4, CreditSum
<1>5. Summable(L, Account) /\ Summable(g, Account) /\ SumFrom(0, g, Account) \in Nat
  BY <1>1, LedgerSum
<1>6. SumFrom(0, K, Account) = SumFrom(0, L, Account) + SumFrom(0, g, Account)
  BY <1>2, <1>5, SumAdd
<1>7. SumFrom(0, g, Account) = SumFrom(0, g, S)
  BY <1>2, <1>5, SumSupport
<1>8. Summable(g, S)
  BY <1>5, SummableSubset
<1>9. SumFrom(0, share, S) = SumFrom(0, g, S)
  BY <1>2, <1>8, SumAgree
<1>10. SumFunction(share) = SumFrom(0, share, S)
  BY SumOfAll
<1>11. SumFrom(0, L, Account) \in Nat
  BY LedgerSum
<1> QED BY <1>4, <1>5, <1>6, <1>7, <1>9, <1>10, <1>11

\* The MintCoins calls of the distribution loop mint the sum of the shares.
LEMMA MintedIsSum ==
  ASSUME NEW S \in SUBSET Account, NEW share \in [S -> Nat], NEW last \in S
  PROVE  Minted(share, last) = SumFunction(share)
<1> DEFINE R == S \ {last}
           rest == [a \in R |-> share[a]]
<1>1. Summable(share, S) /\ DOMAIN share = S
  BY StocAssumption, FS_Subset DEF Summable
<1>2. SumFunction(share) = SumFrom(0, share, S)
  BY SumOfAll
<1>3. SumFrom(0, share, S) = share[last] + SumFrom(0, share, R)
  BY <1>1, SumRemove
<1>4. Summable(share, R)
  BY <1>1, SummableSubset
<1>5. rest \in [R -> Nat] /\ \A a \in R : rest[a] = share[a]
  OBVIOUS
<1>6. Minted(share, last) = SumFunction(rest) + share[last]
  BY <1>1 DEF Minted
<1> HIDE DEF R, rest
<1>7. SumFunction(rest) = SumFrom(0, rest, R)
  BY <1>5, SumOfAll
<1>8. SumFrom(0, rest, R) = SumFrom(0, share, R)
  BY <1>4, <1>5, SumAgree
<1>9. share[last] \in Int /\ SumFrom(0, share, R) \in Int
  BY <1>4, SumType
<1> QED BY <1>2, <1>3, <1>6, <1>7, <1>8, <1>9

\* A change to the books of one denom.
LEMMA BooksUpdate ==
  ASSUME Balanced(Store), bal \in [AnyDenom -> [Account -> Nat]], supply \in [AnyDenom -> Nat],
         NEW d \in AnyDenom, NEW L, NEW q,
         bal' = [bal EXCEPT ![d] = L], supply' = [supply EXCEPT ![d] = q],
         SumFrom(0, L, Account) = q
  PROVE  Balanced(Store)'
<1>1. ASSUME NEW e \in AnyDenom PROVE SumFrom(0, bal'[e], Account) = supply'[e]
  <2>1. CASE e = d
    <3>1. bal'[e] = L /\ supply'[e] = q
      BY <2>1
    <3> QED BY <3>1
  <2>2. CASE e # d
    <3>1. bal'[e] = bal[e] /\ supply'[e] = supply[e]
      BY <2>2
    <3> QED BY <3>1 DEF Balanced
  <2> QED BY <2>1, <2>2
<1> QED BY <1>1 DEF Balanced

\* A transfer, by MsgSend or by the tax collection.
LEMMA TransferBalances ==
  ASSUME IndInv, Balanced(Store), NEW from \in Account, NEW to \in Account,
         NEW d \in AnyDenom, NEW n \in Nat, SendCoins(from, to, d, n), supply' = supply
  PROVE  Balanced(Store)'
<1> DEFINE L == Move(bal[d], from, to, n)
           q == supply[d]
<1>1. bal \in [AnyDenom -> [Account -> Nat]] /\ supply \in [AnyDenom -> Nat]
  BY Unfolded
<1>2. bal' = [bal EXCEPT ![d] = L] /\ bal[d][from] >= n
  BY DEF SendCoins, CanSend
<1>3. supply' = [supply EXCEPT ![d] = q]
  BY <1>1
<1>4. SumFrom(0, L, Account) = q
  <2>1. bal[d] \in [Account -> Nat]
    BY <1>1
  <2>2. SumFrom(0, L, Account) = SumFrom(0, bal[d], Account)
    BY <1>2, <2>1, MoveSum
  <2> QED BY <2>2 DEF Balanced
<1> HIDE DEF L, q
<1> QED BY <1>1, <1>2, <1>3, <1>4, BooksUpdate

\* One account and the supply change by the same amount, as in a mint or a burn.
LEMMA CreditBalances ==
  ASSUME IndInv, Balanced(Store), NEW d \in AnyDenom, NEW a \in Account, NEW x \in Int,
         bal' = [bal EXCEPT ![d] = [bal[d] EXCEPT ![a] = bal[d][a] + x]],
         supply' = [supply EXCEPT ![d] = supply[d] + x]
  PROVE  Balanced(Store)'
<1> DEFINE K == bal[d]
           L == [K EXCEPT ![a] = K[a] + x]
           q == supply[d] + x
<1>1. bal \in [AnyDenom -> [Account -> Nat]] /\ supply \in [AnyDenom -> Nat]
  BY Unfolded
<1>2. bal' = [bal EXCEPT ![d] = L] /\ supply' = [supply EXCEPT ![d] = q]
  OBVIOUS
<1>3. K \in [Account -> Nat]
  BY <1>1
<1>4. SumFrom(0, K, Account) = supply[d]
  BY DEF Balanced
<1>5. L[a] = K[a] + x /\ \A b \in Account \ {a} : L[b] = K[b]
  BY <1>3
<1> HIDE DEF K, L
<1>6. SumFrom(0, L, Account) = SumFrom(0, K, Account) + x
  BY <1>3, <1>5, CreditSum
<1>7. SumFrom(0, L, Account) = q
  BY <1>4, <1>6
<1> HIDE DEF q
<1> QED BY <1>1, <1>2, <1>7, BooksUpdate

\* MintTokens credits the creator what it adds to the supply.
LEMMA MintBalances ==
  ASSUME IndInv, Balanced(Store), NEW signer \in Signer, NEW ref, NEW n \in Amount,
         MintTokens(signer, ref, n)
  PROVE  Balanced(Store)'
<1>1. PICK d \in Denom : /\ bal' = [bal EXCEPT ![d][signer] = @ + n]
                         /\ supply' = [supply EXCEPT ![d] = @ + n]
  BY DEF MintTokens
<1>2. signer \in Account /\ n \in Int /\ d \in AnyDenom
  BY StocAssumption DEF Signer, Account, Amount, AnyDenom
<1>3. /\ bal' = [bal EXCEPT ![d] = [bal[d] EXCEPT ![signer] = bal[d][signer] + n]]
      /\ supply' = [supply EXCEPT ![d] = supply[d] + n]
  BY <1>1
<1> QED BY <1>2, <1>3, CreditBalances

\* BurnToken takes from the holder what it takes from the supply.
LEMMA BurnBalances ==
  ASSUME IndInv, Balanced(Store), NEW signer \in Signer, NEW d \in AnyDenom, NEW n \in Nat,
         BurnToken(signer, d, n)
  PROVE  Balanced(Store)'
<1> DEFINE x == 0 - n
<1>1. signer \in Account /\ x \in Int
  BY DEF Signer, Account
<1>2. bal[d][signer] \in Nat /\ supply[d] \in Nat
  BY <1>1, Unfolded
<1>3. bal[d][signer] - n = bal[d][signer] + x /\ supply[d] - n = supply[d] + x
  BY <1>2
<1>4. /\ bal' = [bal EXCEPT ![d] = [bal[d] EXCEPT ![signer] = bal[d][signer] - n]]
      /\ supply' = [supply EXCEPT ![d] = supply[d] - n]
  BY DEF BurnToken
<1> HIDE DEF x
<1>5. /\ bal' = [bal EXCEPT ![d] = [bal[d] EXCEPT ![signer] = bal[d][signer] + x]]
      /\ supply' = [supply EXCEPT ![d] = supply[d] + x]
  BY <1>3, <1>4
<1> QED BY <1>1, <1>5, CreditBalances

\* Shares are handed out and x/stoc's account changes by x, as in a creation
\* and in a release.
LEMMA SharesBalances ==
  ASSUME IndInv, Balanced(Store), NEW d \in AnyDenom,
         NEW S \in SUBSET Account, NEW share \in [S -> Nat], NEW x \in Int, NEW L, NEW q,
         Credited(L, bal[d], S, share, x), q = supply[d] + SumFunction(share) + x,
         bal' = [bal EXCEPT ![d] = L], supply' = [supply EXCEPT ![d] = q]
  PROVE  Balanced(Store)'
<1> DEFINE K == bal[d]
<1>1. bal \in [AnyDenom -> [Account -> Nat]] /\ supply \in [AnyDenom -> Nat]
  BY Unfolded
<1>2. K \in [Account -> Nat] /\ SumFrom(0, K, Account) = supply[d]
  BY <1>1 DEF Balanced
<1>3. Credited(L, K, S, share, x)
  OBVIOUS
<1> HIDE DEF K
<1>4. SumFrom(0, L, Account) = SumFrom(0, K, Account) + SumFunction(share) + x
  BY <1>2, <1>3, SharesSum
<1>5. SumFrom(0, L, Account) = q
  BY <1>2, <1>4
<1> QED BY <1>1, <1>5, BooksUpdate

\* ReleaseTokens hands out what x/stoc's account loses.
LEMMA ReleaseBalances ==
  ASSUME IndInv, Balanced(Store), NEW signer \in Signer, NEW ref, NEW out \in Outputs,
         ReleaseTokens(signer, ref, out)
  PROVE  Balanced(Store)'
<1> DEFINE S == DOMAIN out
           total == SumFunction(out)
           x == 0 - total
<1>1. S \in SUBSET Account /\ out \in [S -> Nat]
  BY StocAssumption DEF Outputs, Amount
<1>2. PICK d \in Denom :
        /\ total \in 1 .. tokens[d].remaining
        /\ bal' = [bal EXCEPT ![d] =
                     [a \in Account |-> bal[d][a]
                        + (IF a \in DOMAIN out THEN out[a] ELSE 0)
                        - (IF a = Stoc THEN total ELSE 0)]]
        /\ supply' = supply
  BY DEF ReleaseTokens
<1> DEFINE L == [a \in Account |-> bal[d][a] + (IF a \in S THEN out[a] ELSE 0)
                                             - (IF a = Stoc THEN total ELSE 0)]
           q == supply[d]
<1>3. total \in Int
  BY <1>2
<1>4. d \in AnyDenom /\ bal[d] \in [Account -> Nat] /\ supply[d] \in Nat
  BY Unfolded DEF AnyDenom
<1>5. bal' = [bal EXCEPT ![d] = L]
  BY <1>2
<1>6. supply' = [supply EXCEPT ![d] = q]
  BY <1>2, Unfolded
<1> HIDE DEF total
<1>7. q = supply[d] + total + x /\ x \in Int
  BY <1>3, <1>4
<1>8. Credited(L, bal[d], S, out, x)
  BY <1>1, <1>3, <1>4 DEF Credited
<1>9. q = supply[d] + SumFunction(out) + x
  BY <1>7 DEF total
<1> HIDE DEF L, q, x, S
<1> QED BY <1>1, <1>4, <1>5, <1>6, <1>7, <1>8, <1>9, SharesBalances

\* CreateToken mints the shares and the reserve.
LEMMA CreateBalances ==
  ASSUME IndInv, Balanced(Store), NEW creator \in Signer, NEW m \in CreateMsg,
         CreateToken(creator, m)
  PROVE  Balanced(Store)'
<1> DEFINE skip == m.unlimited /\ m.initial = 0
           dist == IF DOMAIN m.dist = {} THEN [a \in {creator} |-> 100] ELSE m.dist
           last == IF DOMAIN m.dist = {} THEN creator ELSE m.last
           share == IF skip THEN NoShare ELSE Share(m.initial, dist, last)
           minted == IF skip THEN 0 ELSE Minted(share, last)
           reserve == m.total - m.initial
           denom == MinimalDenom(m.symbol, counter)
           S == DOMAIN share
           L == [a \in Account |-> bal[denom][a]
                      + (IF a \in S THEN share[a] ELSE 0)
                      + (IF a = Stoc THEN reserve ELSE 0)]
           q == supply[denom] + minted + reserve
<1>1. /\ counter < MaxUint64 /\ Validate(m)
      /\ skip \/ Cuts(m.initial, dist, last) \in 0 .. m.initial
      /\ bal' = [bal EXCEPT ![denom] = L] /\ supply' = [supply EXCEPT ![denom] = q]
  BY DEF CreateToken, CounterLeft
<1>2. /\ m.symbol \in Symbol /\ m.initial \in Nat /\ m.total \in Nat
      /\ DOMAIN m.dist \subseteq Account /\ m.dist \in [DOMAIN m.dist -> 1 .. 100]
  BY StocAssumption DEF IsCreateMsg
<1>3. denom \in AnyDenom /\ reserve \in Int
  BY <1>1, <1>2, StocAssumption, Unfolded DEF Denom, AnyDenom, MinimalDenom
<1>4. /\ DOMAIN dist \subseteq Account /\ last \in DOMAIN dist
      /\ \A a \in DOMAIN dist : dist[a] \in 1 .. 100
  BY <1>1, <1>2 DEF Validate, Signer, Account
<1>5. /\ S \in SUBSET Account /\ share \in [S -> Nat]
      /\ minted = SumFunction(share)
  <2>1. CASE skip
    <3>1. share = NoShare /\ minted = 0
      BY <2>1
    <3>2. NoShare \in [{} -> Nat] /\ DOMAIN NoShare = {}
      BY DEF NoShare
    <3>3. SumFunction(NoShare) = SumFrom(0, NoShare, {})
      BY <3>2, SumOfAll
    <3>4. SumFrom(0, NoShare, {}) = 0
      BY SumEmpty
    <3> HIDE DEF share, minted
    <3> QED BY <3>1, <3>2, <3>3, <3>4
  <2>2. CASE ~skip
    <3>1. share = Share(m.initial, dist, last) /\ minted = Minted(share, last)
      BY <2>2
    <3>2. Cuts(m.initial, dist, last) \in 0 .. m.initial
      BY <1>1, <2>2
    <3> HIDE DEF dist, last
    <3>3. DOMAIN share = DOMAIN dist /\ \A a \in DOMAIN dist : share[a] \in Nat
      BY <1>2, <1>4, <3>1, <3>2, ShareNat
    <3>4. share \in [DOMAIN dist -> Nat]
      BY <3>1, <3>3 DEF Share
    <3> HIDE DEF share, minted
    <3>5. Minted(share, last) = SumFunction(share)
      BY <1>4, <3>4, MintedIsSum
    <3> QED BY <1>4, <3>1, <3>3, <3>4, <3>5
  <2> QED BY <2>1, <2>2
<1> HIDE DEF skip, share, minted, reserve, denom, dist, last
<1>6. Credited(L, bal[denom], S, share, reserve)
  BY DEF Credited
<1>7. q = supply[denom] + SumFunction(share) + reserve
  BY <1>5
<1> HIDE DEF L, q, S
<1> QED BY <1>1, <1>3, <1>5, <1>6, <1>7, SharesBalances

\* One message keeps the bank's books balanced.
LEMMA MessageBalances ==
  ASSUME IndInv, Balanced(Store), Message
  PROVE  Balanced(Store)'
<1>1. ASSUME NEW a \in Signer, NEW b \in Account, NEW d \in AnyDenom, NEW n \in Amount,
             MsgSend(a, b, d, n)
      PROVE  Balanced(Store)'
  <2>1. a \in Account /\ n \in Nat
    BY StocAssumption DEF Signer, Account, Amount
  <2>2. SendCoins(a, b, d, n) /\ supply' = supply
    BY <1>1 DEF MsgSend
  <2> QED BY <2>1, <2>2, TransferBalances
<1>2. ASSUME NEW a \in Signer, NEW d \in AnyDenom, BurnAll(a, d)
      PROVE  Balanced(Store)'
  <2>1. bal[d][a] \in Nat
    BY Unfolded DEF Signer, Account
  <2> QED BY <1>2, <2>1, BurnBalances DEF BurnAll
<1>3. Amount \subseteq Nat
  BY StocAssumption DEF Amount
<1>4. ASSUME NEW a \in Signer, NEW d \in AnyDenom, NEW n \in Amount, BurnToken(a, d, n)
      PROVE  Balanced(Store)'
  BY <1>3, <1>4, BurnBalances
<1> HIDE DEF Store
<1>5. ASSUME NEW c \in Signer, NEW m \in CreateMsg, CreateToken(c, m) PROVE Balanced(Store)'
  BY <1>5, CreateBalances
<1>6. ASSUME NEW c \in Signer, NEW ref \in Ref, NEW n \in Amount, MintTokens(c, ref, n)
      PROVE  Balanced(Store)'
  BY <1>6, MintBalances
<1>7. ASSUME NEW c \in Signer, NEW ref \in Ref, NEW out \in Outputs, ReleaseTokens(c, ref, out)
      PROVE  Balanced(Store)'
  BY <1>7, ReleaseBalances
<1> QED BY <1>1, <1>2, <1>4, <1>5, <1>6, <1>7 DEF Message

\* Every step keeps both books balanced.
LEMMA NextBalances ==
  ASSUME IndInv, Balances, [Next]_vars
  PROVE  Balances'
<1>1. CASE UNCHANGED <<bal, supply, committed>>
  BY <1>1 DEF Balances, Balanced
<1>2. CASE Message
  <2>1. committed' = committed
    <3>1. ASSUME NEW a, NEW d, NEW n, BurnToken(a, d, n) PROVE committed' = committed
      BY <3>1 DEF BurnToken
    <3>2. ASSUME NEW c, NEW m, CreateToken(c, m) PROVE committed' = committed
      BY <3>2 DEF CreateToken
    <3>3. ASSUME NEW c, NEW ref, NEW x, MintTokens(c, ref, x) \/ ReleaseTokens(c, ref, x)
          PROVE  committed' = committed
      BY <3>3 DEF MintTokens, ReleaseTokens
    <3>4. ASSUME NEW a, NEW b, NEW d, NEW n, MsgSend(a, b, d, n) PROVE committed' = committed
      BY <3>4 DEF MsgSend
    <3> QED BY <1>2, <3>1, <3>2, <3>3, <3>4 DEF Message, BurnAll
  <2>2. Balanced(Store)'
    BY <1>2, MessageBalances DEF Balances
  <2> QED BY <2>1, <2>2 DEF Balances, Balanced
<1>3. ASSUME NEW i \in 1 .. Len(sends), PostCollect(sends[i])
      PROVE  Balances'
  <2>1. Balanced(Store)'
    <3> HIDE DEF Store
    <3> QED BY <1>3, Collected, TransferBalances DEF Balances
  <2>2. committed' = committed
    BY <1>3, Collected
  <2> QED BY <2>1, <2>2 DEF Balances, Balanced
<1>4. CASE CommitTx
  BY <1>4 DEF CommitTx, Balances, Balanced
<1>5. CASE AbortTx
  BY <1>5 DEF AbortTx, Balances, Balanced
<1>6. CASE ExportImport
  <2>1. committed' = committed
    BY <1>6, ExportImportStep
  <2> QED BY <1>1, <1>6, <2>1 DEF ExportImport
<1>7. CASE PostHandle
  <2>1. PICK i \in 1 .. Len(sends) :
          PostNoTax(sends[i]) \/ PostCollect(sends[i]) \/ PostSkip(sends[i])
    BY <1>7 DEF PostHandle
  <2> QED BY <1>1, <1>3, <2>1 DEF PostNoTax, PostSkip
<1> QED BY <1>1, <1>2, <1>4, <1>5, <1>6, <1>7 DEF Next, BeginTx, StartPost, vars

\* At genesis only native coins exist, and their supply is their sum.
LEMMA InitBalances ==
  ASSUME Init
  PROVE  Balances
<1>1. ASSUME NEW d \in AnyDenom PROVE SumFrom(0, bal[d], Account) = supply[d]
  <2>1. CASE d = Native
    <3>1. bal[d] = GenesisNative /\ supply[d] = SumFunction(GenesisNative)
      BY <2>1, StocAssumption DEF Init
    <3>2. SumFunction(GenesisNative) = SumFrom(0, GenesisNative, Account)
      BY StocAssumption, SumOfAll
    <3> QED BY <3>1, <3>2
  <2>2. CASE d # Native
    <3> DEFINE L == bal[d]
    <3>1. L \in [Account -> Nat] /\ supply[d] = 0 /\ \A a \in Account \ {} : L[a] = 0
      BY <2>2 DEF Init
    <3> HIDE DEF L
    <3>2. Summable(L, Account)
      BY <3>1, LedgerSum
    <3>3. SumFrom(0, L, Account) = SumFrom(0, L, {})
      BY <3>1, <3>2, SumSupport
    <3>4. SumFrom(0, L, {}) = 0
      BY SumEmpty
    <3> QED BY <3>1, <3>3, <3>4 DEF L
  <2> QED BY <2>1, <2>2
<1>2. committed.bal = bal /\ committed.supply = supply
  BY DEF Init
<1> QED BY <1>1, <1>2 DEF Balances, Balanced

\* In the branch and in the committed store the supply of every denom, the
\* native one included, is the sum of all balances of it.
THEOREM BankBalanced == Spec => []Balances
<1>1. IndInv /\ Balances /\ [Next]_vars => Balances'
  BY NextBalances
<1>2. Init => Balances
  BY InitBalances
<1> QED BY <1>1, <1>2, Invariance, PTL DEF Spec

\* Two accounts of a ledger hold at most all of it.
LEMMA TwoShares ==
  ASSUME NEW L \in [Account -> Nat], NEW a \in Account, NEW b \in Account, a # b
  PROVE  L[a] + L[b] <= SumFrom(0, L, Account)
<1> DEFINE R == Account \ {a}
           T == R \ {b}
<1>1. Summable(L, Account) /\ IsFiniteSet(T) /\ \A x \in T : L[x] \in Nat
  BY LedgerSum, StocAssumption, FS_Subset
<1>2. Summable(L, R) /\ b \in R
  BY <1>1, SummableSubset
<1>3. SumFrom(0, L, Account) = L[a] + SumFrom(0, L, R)
  BY <1>1, SumRemove
<1>4. SumFrom(0, L, R) = L[b] + SumFrom(0, L, T)
  <2> HIDE DEF R
  <2> QED BY <1>2, SumRemove
<1> HIDE DEF R, T
<1>5. SumFrom(0, L, T) \in Nat
  BY <1>1, SumNat
<1>6. L[a] \in Nat /\ L[b] \in Nat
  OBVIOUS
<1> QED BY <1>3, <1>4, <1>5, <1>6

\* What is registered, in the branch and in the committed store, is valid.
AllValid(toks) == \A d \in Denom : toks[d] # NoToken => ValidateState(toks[d])
Persisted == AllValid(tokens) /\ AllValid(committed.tokens)

\* SetToken refuses a token that is not valid.
LEMMA SetTokenValid ==
  ASSUME tokens \in [Denom -> Token \cup {NoToken}], AllValid(tokens),
         NEW d \in Denom, NEW t, SetToken(d, t)
  PROVE  AllValid(tokens)'
BY DEF AllValid, SetToken, ValidateState

\* Every token is stored through SetToken; a commit and an abort copy tokens.
LEMMA PersistedStep ==
  ASSUME IndInv, Persisted, [Next]_vars
  PROVE  Persisted'
<1> tokens \in [Denom -> Token \cup {NoToken}]
  BY Unfolded
<1>1. CASE UNCHANGED <<tokens, committed>>
  BY <1>1 DEF Persisted, AllValid, ValidateState
<1>2. ASSUME NEW d \in Denom, NEW t, SetToken(d, t), UNCHANGED committed
      PROVE  Persisted'
  BY <1>2, SetTokenValid DEF Persisted, AllValid, ValidateState
<1>3. ASSUME NEW a, NEW d \in AnyDenom, NEW n, BurnToken(a, d, n) PROVE Persisted'
  <2>1. CASE HasToken(d)
    BY <1>2, <1>3, <2>1 DEF BurnToken, HasToken
  <2>2. CASE ~HasToken(d)
    BY <1>1, <1>3, <2>2 DEF BurnToken
  <2> QED BY <2>1, <2>2
<1>4. CASE Message
  <2>1. ASSUME NEW c \in Signer, NEW m \in CreateMsg, CreateToken(c, m) PROVE Persisted'
    <3>1. MinimalDenom(m.symbol, counter) \in Denom
      BY <2>1, StocAssumption, Unfolded DEF MinimalDenom, Denom, IsCreateMsg
    <3> QED BY <1>2, <2>1, <3>1 DEF CreateToken
  <2>2. ASSUME NEW c, NEW ref, NEW n, MintTokens(c, ref, n) PROVE Persisted'
    BY <1>2, <2>2 DEF MintTokens
  <2>3. ASSUME NEW c, NEW ref, NEW out, ReleaseTokens(c, ref, out) PROVE Persisted'
    BY <1>2, <2>3 DEF ReleaseTokens
  <2>4. ASSUME NEW a, NEW b, NEW d, NEW n, MsgSend(a, b, d, n) PROVE Persisted'
    BY <1>1, <2>4 DEF MsgSend
  <2> QED BY <1>3, <1>4, <2>1, <2>2, <2>3, <2>4 DEF Message, BurnAll
<1>5. CASE CommitTx
  <2>1. tokens' = tokens /\ committed'.tokens = tokens
    BY <1>5 DEF CommitTx, Store, store
  <2> QED BY <2>1 DEF Persisted, AllValid, ValidateState
<1>6. CASE AbortTx
  BY <1>6 DEF AbortTx, Persisted, AllValid, ValidateState
<1>7. CASE ExportImport
  <2>1. tokens' = tokens /\ committed'.tokens = committed.tokens
    BY <1>7, Unfolded DEF ExportImport, StoreType
  <2> QED BY <2>1 DEF Persisted, AllValid, ValidateState
<1>8. CASE PostHandle
  BY <1>1, <1>8 DEF PostHandle, PostNoTax, PostCollect, PostSkip, store
<1>9. CASE BeginTx \/ StartPost \/ UNCHANGED vars
  BY <1>1, <1>9 DEF BeginTx, StartPost, vars, store
<1> QED BY <1>4, <1>5, <1>6, <1>7, <1>8, <1>9 DEF Next

\* Every registered token passes ValidateState, the one an aborted transaction
\* goes back to included.
THEOREM StoredValid == Spec => []Persisted
<1>1. Init => Persisted
  BY DEF Init, Store, Persisted, AllValid
<1> QED BY <1>1, PersistedStep, Invariance, PTL DEF Spec

\* A balance and the reserve together stay within the total supply: all of a
\* balance can be taken from the total and the reserve still fits.
LEMMA BurnFits ==
  ASSUME IndInv, Balances, NEW d \in Denom, NEW a \in Account \ {Stoc}, HasToken(d)
  PROVE  bal[d][a] <= tokens[d].total - tokens[d].remaining
<1> DEFINE L == bal[d]
<1>1. /\ tokens[d] \in Token /\ supply[d] = tokens[d].total
      /\ L[Stoc] = tokens[d].remaining
  BY Unfolded DEF HasToken
<1>2. d \in AnyDenom /\ Stoc \in Account /\ L \in [Account -> Nat]
  BY Unfolded DEF AnyDenom, Account
<1>3. SumFrom(0, L, Account) = supply[d]
  BY <1>2 DEF Balances, Balanced
<1>4. L[a] + L[Stoc] <= SumFrom(0, L, Account)
  <2> HIDE DEF L
  <2> QED BY <1>2, TwoShares
<1>5. L[a] \in Nat /\ tokens[d].total \in Nat /\ tokens[d].remaining \in Nat
  BY <1>1, <1>2 DEF Token
<1> QED BY <1>1, <1>3, <1>4, <1>5

\* Every check of BurnToken lets a wallet burn any part of its balance of a
\* registered token, and stops everyone else.
THEOREM BurnAlwaysPossible == Spec => []WalletsCanBurn
<1>1. ASSUME IndInv, Balances, Persisted PROVE WalletsCanBurn
  <2> SUFFICES ASSUME NEW d \in Denom, NEW a \in Signer, HasToken(d), NEW n \in 1 .. bal[d][a]
               PROVE  BurnChecks(a, d, n) <=> a \in Wallet
    BY DEF WalletsCanBurn
  <2> DEFINE t == [tokens[d] EXCEPT !.total = @ - n]
  <2>1. a \in Account \ {Stoc}
    BY StocAssumption DEF Signer, Account
  <2>2. /\ bal[d][a] \in Nat /\ tokens[d] \in Token /\ supply[d] = tokens[d].total
        /\ tokens[d].total \in Nat /\ tokens[d].remaining \in Nat
    BY <1>1, <2>1, Unfolded DEF HasToken, AnyDenom, Token
  <2>3. bal[d][a] <= tokens[d].total - tokens[d].remaining
    BY <1>1, <2>1, BurnFits
  <2>4. n \in Nat /\ n > 0 /\ bal[d][a] >= n
    BY <2>2
  <2>5. tokens[d].total >= n /\ supply[d] >= n
        /\ tokens[d].total - n \in Nat /\ tokens[d].remaining <= tokens[d].total - n
    BY <2>2, <2>3, <2>4
  <2>6. /\ t.total = tokens[d].total - n /\ t.remaining = tokens[d].remaining
        /\ t.taxTo = tokens[d].taxTo /\ t.taxPercent = tokens[d].taxPercent
    BY <2>2, <2>5 DEF Token
  <2>7. ValidateState(tokens[d]) /\ MaxTokenSupply \in Nat
    BY <1>1, StocAssumption DEF Persisted, AllValid, HasToken
  <2>8. ValidateState(t)
    <3> HIDE DEF t
    <3> QED BY <2>2, <2>4, <2>5, <2>6, <2>7 DEF ValidateState
  <2>9. SendRestriction(a, Stoc, d) <=> a \in Wallet
    BY StocAssumption DEF SendRestriction, Signer
  <2> QED BY <2>4, <2>5, <2>8, <2>9 DEF BurnChecks, CanSend
<1> QED BY <1>1, Invariance, BankBalanced, StoredValid, PTL

-----------------------------------------------------------------------------
(* What a recipient was credited covers the taxes on it.                   *)

\* The transfers of d to r that the PostHandler has not looked at after k
\* receipts, and what they add up to.
AmountsOf(ss) == [j \in 1 .. Len(ss) |-> ss[j].amount]
Due(ss, k, r, d) == {j \in 1 .. Len(ss) : j > k /\ ss[j].to = r /\ ss[j].denom = d}
Owed(ss, k, r, d) == SumFrom(0, AmountsOf(ss), Due(ss, k, r, d))

\* An account that has not spent anything in the running transaction.
Unspent(r) == r \notin burners /\ \A j \in 1 .. Len(sends) : sends[j].from # r

\* The PostHandler runs after the messages.
NoReceiptYet == phase # "post" => receipts = <<>>
\* A registered token only went to accounts that may hold it.
SentToWallets ==
  \A i \in 1 .. Len(sends) : sends[i].denom \in Denom =>
    sends[i].to \notin NonWallet \cup BlockedModule
\* Who spent nothing still holds all it received and was not taxed for yet.
CreditsKept ==
  \A r \in Account \ {Stoc}, d \in Denom :
    Unspent(r) => Owed(sends, Len(receipts), r, d) <= bal[d][r]

TaxInv == NoReceiptYet /\ SentToWallets /\ CreditsKept /\ SkippedOnlyIfDrained

\* What is owed is a natural number.
LEMMA OwedSummable ==
  ASSUME NEW ss \in Seq(Transfer), NEW k \in Nat, NEW r, NEW d
  PROVE  /\ Summable(AmountsOf(ss), Due(ss, k, r, d))
         /\ Owed(ss, k, r, d) \in Nat
<1> DEFINE f == AmountsOf(ss)
           S == Due(ss, k, r, d)
<1>1. Len(ss) \in Nat
  OBVIOUS
<1>2. IsFiniteSet(1 .. Len(ss)) /\ S \subseteq 1 .. Len(ss)
  BY <1>1, FS_Interval DEF Due
<1>3. IsFiniteSet(S)
  BY <1>2, FS_Subset
<1>4. \A j \in S : f[j] \in Nat
  <2>1. \A j \in 1 .. Len(ss) : ss[j] \in Transfer
    OBVIOUS
  <2>2. \A j \in 1 .. Len(ss) : f[j] \in Nat
    BY <2>1 DEF AmountsOf, Transfer
  <2> QED BY <1>2, <2>2
<1>5. SumFrom(0, f, S) \in Nat
  <2> HIDE DEF f, S
  <2> QED BY <1>3, <1>4, SumNat
<1> QED BY <1>3, <1>4, <1>5 DEF Summable, Owed

\* Nothing is owed when there is no transfer.
LEMMA OwedNone ==
  ASSUME NEW k, NEW r, NEW d
  PROVE  Owed(<<>>, k, r, d) = 0
<1>1. Due(<<>>, k, r, d) = {}
  BY DEF Due
<1> QED BY <1>1, SumEmpty DEF Owed

\* The PostHandler moves past a transfer to r.
LEMMA OwedNext ==
  ASSUME NEW ss \in Seq(Transfer), NEW k \in Nat, k < Len(ss), NEW r, NEW d,
         ss[k + 1].to = r, ss[k + 1].denom = d
  PROVE  Owed(ss, k, r, d) = ss[k + 1].amount + Owed(ss, k + 1, r, d)
<1> DEFINE f == AmountsOf(ss)
           S == Due(ss, k, r, d)
           T == Due(ss, k + 1, r, d)
           i == k + 1
<1>1. i \in 1 .. Len(ss)
  OBVIOUS
<1>2. i \in S /\ T = S \ {i}
  BY <1>1 DEF Due
<1>3. f[i] = ss[k + 1].amount
  BY <1>1 DEF AmountsOf
<1>4. Summable(f, S)
  BY OwedSummable
<1> HIDE DEF f, S, T, i
<1>5. SumFrom(0, f, S) = f[i] + SumFrom(0, f, S \ {i})
  BY <1>2, <1>4, SumRemove
<1>6. SumFrom(0, f, S) = ss[k + 1].amount + SumFrom(0, f, T)
  BY <1>2, <1>3, <1>5
<1> QED BY <1>6 DEF Owed, f, S, T

\* Or past any other one.
LEMMA OwedOther ==
  ASSUME NEW ss \in Seq(Transfer), NEW k \in Nat, k < Len(ss), NEW r, NEW d,
         ~ (ss[k + 1].to = r /\ ss[k + 1].denom = d)
  PROVE  Owed(ss, k + 1, r, d) = Owed(ss, k, r, d)
<1>1. Due(ss, k + 1, r, d) = Due(ss, k, r, d)
  BY DEF Due
<1> QED BY <1>1 DEF Owed

\* A message appends a transfer.
LEMMA OwedAppend ==
  ASSUME NEW ss \in Seq(Transfer), NEW k \in Nat, k <= Len(ss), NEW s \in Transfer, NEW r, NEW d
  PROVE  Owed(Append(ss, s), k, r, d) =
           Owed(ss, k, r, d) + (IF s.to = r /\ s.denom = d THEN s.amount ELSE 0)
<1> DEFINE tt == Append(ss, s)
           n == Len(ss) + 1
           f == AmountsOf(ss)
           g == AmountsOf(tt)
           S == Due(ss, k, r, d)
           T == Due(tt, k, r, d)
<1>1. /\ tt \in Seq(Transfer) /\ Len(tt) = n /\ tt[n] = s
      /\ \A j \in 1 .. Len(ss) : tt[j] = ss[j]
      /\ Len(ss) \in Nat
  OBVIOUS
<1> HIDE DEF tt
<1>2. /\ g[n] = s.amount /\ s.amount \in Nat
      /\ \A j \in 1 .. Len(ss) : g[j] = f[j]
  BY <1>1 DEF AmountsOf, Transfer
<1>3. \A j \in S : g[j] = f[j]
  BY <1>2 DEF Due
<1>4. Summable(f, S) /\ Summable(g, T) /\ SumFrom(0, f, S) \in Nat
  BY <1>1, OwedSummable DEF Owed
<1>5. SumFrom(0, g, S) = SumFrom(0, f, S)
  <2> HIDE DEF f, g, S
  <2> QED BY <1>3, <1>4, SumAgree
<1>6. CASE s.to = r /\ s.denom = d
  <2>1. n \in T /\ T \ {n} = S
    BY <1>1, <1>6 DEF Due
  <2> HIDE DEF f, g, S, T, n
  <2>2. SumFrom(0, g, T) = g[n] + SumFrom(0, g, T \ {n})
    BY <1>4, <2>1, SumRemove
  <2>3. SumFrom(0, g, T \ {n}) = SumFrom(0, f, S)
    BY <1>5, <2>1, Zenon
  <2>4. SumFrom(0, g, T) = SumFrom(0, f, S) + s.amount
    <3>1. g[n] = s.amount /\ s.amount \in Nat
      BY <1>2
    <3> QED BY <1>4, <2>2, <2>3, <3>1
  <2> QED BY <1>6, <2>4 DEF Owed, f, g, S, T, tt
<1>7. CASE ~ (s.to = r /\ s.denom = d)
  <2>1. T = S
    BY <1>1, <1>7 DEF Due
  <2> HIDE DEF f, g, S, T, n
  <2>2. SumFrom(0, g, T) = SumFrom(0, f, S) + 0
    BY <1>4, <1>5, <2>1
  <2> QED BY <1>7, <2>2 DEF Owed, f, g, S, T, tt
<1> QED BY <1>6, <1>7

\* The types of the next state.
LEMMA NextTypes ==
  ASSUME IndInv'
  PROVE  bal' \in [AnyDenom -> [Account -> Nat]]
BY DEF IndInv, TypeOK, StoreType

\* Nobody who spent nothing loses coins: what was owed is still covered.
LEMMA CreditsGrow ==
  ASSUME IndInv, IndInv', CreditsKept, UNCHANGED <<sends, receipts>>, burners \subseteq burners',
         \A r \in Account \ {Stoc}, d \in Denom : r \notin burners' => bal[d][r] <= bal'[d][r]
  PROVE  CreditsKept'
<1> SUFFICES ASSUME NEW r \in Account \ {Stoc}, NEW d \in Denom, Unspent(r)'
             PROVE  Owed(sends', Len(receipts'), r, d) <= bal'[d][r]
  BY DEF CreditsKept
<1> DEFINE x == Owed(sends, Len(receipts), r, d)
<1>1. sends \in Seq(Transfer) /\ Len(receipts) \in Nat
  BY Parts DEF TxPart
<1>2. x \in Nat
  BY <1>1, OwedSummable
<1>3. bal[d][r] \in Nat /\ bal'[d][r] \in Nat
  BY Unfolded, NextTypes DEF AnyDenom
<1>4. Unspent(r) /\ r \notin burners'
  BY DEF Unspent
<1>5. x <= bal[d][r]
  BY <1>4 DEF CreditsKept
<1>6. bal[d][r] <= bal'[d][r]
  BY <1>4
<1> HIDE DEF x
<1>7. x <= bal'[d][r]
  BY <1>2, <1>3, <1>5, <1>6
<1> QED BY <1>7 DEF x

\* CreateToken: nobody held the new denom.
LEMMA CreateCredits ==
  ASSUME IndInv, IndInv', CreditsKept, NEW creator \in Signer, NEW m \in CreateMsg,
         CreateToken(creator, m)
  PROVE  CreditsKept'
<1> DEFINE denom == MinimalDenom(m.symbol, counter)
<1>1. /\ ~HasToken(denom) /\ UNCHANGED <<sends, receipts, burners>>
      /\ \E L : bal' = [bal EXCEPT ![denom] = L]
  BY DEF CreateToken
<1> HIDE DEF denom
<1>2. ASSUME NEW r \in Account \ {Stoc}, NEW d \in Denom
      PROVE  bal[d][r] <= bal'[d][r]
  <2>1. bal[d][r] \in Nat /\ bal'[d][r] \in Nat
    BY Unfolded, NextTypes DEF AnyDenom
  <2>2. CASE d = denom
    <3>1. bal[d][r] = 0
      BY <1>1, <2>2, Unfolded DEF HasToken
    <3> QED BY <2>1, <3>1
  <2>3. CASE d # denom
    <3>1. bal'[d] = bal[d]
      BY <1>1, <2>3, Unfolded DEF AnyDenom
    <3> QED BY <2>1, <3>1
  <2> QED BY <2>2, <2>3
<1> QED BY <1>1, <1>2, CreditsGrow

\* MintTokens only adds coins.
LEMMA MintCredits ==
  ASSUME IndInv, IndInv', CreditsKept, NEW signer \in Signer, NEW ref, NEW n \in Amount,
         MintTokens(signer, ref, n)
  PROVE  CreditsKept'
<1>1. PICK e \in Denom : bal' = [bal EXCEPT ![e][signer] = @ + n]
  BY DEF MintTokens
<1>2. n \in Nat /\ UNCHANGED <<sends, receipts, burners>>
  BY StocAssumption DEF MintTokens, Amount
<1>3. ASSUME NEW r \in Account \ {Stoc}, NEW d \in Denom
      PROVE  bal[d][r] <= bal'[d][r]
  <2>1. bal[d] \in [Account -> Nat] /\ d \in AnyDenom /\ bal \in [AnyDenom -> [Account -> Nat]]
    BY Unfolded DEF AnyDenom
  <2>2. CASE d = e
    <3>1. bal'[d] = [bal[d] EXCEPT ![signer] = @ + n]
      BY <1>1, <2>1, <2>2
    <3> QED BY <1>2, <2>1, <3>1
  <2>3. CASE d # e
    <3>1. bal'[d] = bal[d]
      BY <1>1, <2>1, <2>3
    <3> QED BY <2>1, <3>1
  <2> QED BY <2>2, <2>3
<1> QED BY <1>2, <1>3, CreditsGrow

\* ReleaseTokens only takes from x/stoc's own account.
LEMMA ReleaseCredits ==
  ASSUME IndInv, IndInv', CreditsKept, NEW signer \in Signer, NEW ref, NEW out \in Outputs,
         ReleaseTokens(signer, ref, out)
  PROVE  CreditsKept'
<1> DEFINE total == SumFunction(out)
<1>1. PICK e \in Denom :
        bal' = [bal EXCEPT ![e] =
                  [a \in Account |-> bal[e][a]
                        + (IF a \in DOMAIN out THEN out[a] ELSE 0)
                        - (IF a = Stoc THEN total ELSE 0)]]
  BY DEF ReleaseTokens
<1>2. UNCHANGED <<sends, receipts, burners>>
  BY DEF ReleaseTokens
<1>3. \A a \in DOMAIN out : out[a] \in Nat
  BY StocAssumption DEF Outputs, Amount
<1> HIDE DEF total
<1>4. ASSUME NEW r \in Account \ {Stoc}, NEW d \in Denom
      PROVE  bal[d][r] <= bal'[d][r]
  <2>1. bal[d] \in [Account -> Nat] /\ d \in AnyDenom /\ bal \in [AnyDenom -> [Account -> Nat]]
    BY Unfolded DEF AnyDenom
  <2>2. CASE d = e
    <3>1. bal'[d][r] = bal[d][r] + (IF r \in DOMAIN out THEN out[r] ELSE 0) - 0
      BY <1>1, <2>1, <2>2
    <3> QED BY <1>3, <2>1, <3>1
  <2>3. CASE d # e
    <3>1. bal'[d] = bal[d]
      BY <1>1, <2>1, <2>3
    <3> QED BY <2>1, <3>1
  <2> QED BY <2>2, <2>3
<1> QED BY <1>2, <1>4, CreditsGrow

\* BurnToken takes from an account that is then recorded as a burner.
LEMMA BurnCredits ==
  ASSUME IndInv, IndInv', CreditsKept, NEW signer \in Signer, NEW e \in AnyDenom, NEW n \in Nat,
         BurnToken(signer, e, n)
  PROVE  CreditsKept'
<1>1. /\ bal' = [bal EXCEPT ![e] = [bal[e] EXCEPT ![signer] = bal[e][signer] - n]]
      /\ burners' = burners \cup {signer} /\ UNCHANGED <<sends, receipts>>
  BY DEF BurnToken
<1>2. ASSUME NEW r \in Account \ {Stoc}, NEW d \in Denom, r \notin burners'
      PROVE  bal[d][r] <= bal'[d][r]
  <2>1. bal[d] \in [Account -> Nat] /\ d \in AnyDenom /\ bal \in [AnyDenom -> [Account -> Nat]]
    BY Unfolded DEF AnyDenom
  <2>2. r # signer
    BY <1>1, <1>2
  <2>3. bal'[d][r] = bal[d][r]
    <3>1. CASE d = e
      BY <1>1, <2>1, <2>2, <3>1
    <3>2. CASE d # e
      BY <1>1, <2>1, <3>2
    <3> QED BY <3>1, <3>2
  <2> QED BY <2>1, <2>3
<1> QED BY <1>1, <1>2, CreditsGrow

\* MsgSend: the sender has spent, and the recipient holds what it was sent.
LEMMA SendCredits ==
  ASSUME IndInv, IndInv', CreditsKept, NEW from \in Signer, NEW to \in Account,
         NEW e \in AnyDenom, NEW n \in Amount, MsgSend(from, to, e, n)
  PROVE  CreditsKept'
<1> SUFFICES ASSUME NEW r \in Account \ {Stoc}, NEW d \in Denom, Unspent(r)'
             PROVE  Owed(sends', Len(receipts'), r, d) <= bal'[d][r]
  BY DEF CreditsKept
<1> DEFINE s == [from |-> from, to |-> to, denom |-> e, amount |-> n]
           k == Len(receipts)
<1>1. n \in Nat /\ from \in Account
  BY StocAssumption DEF Amount, Signer, Account
<1>2. s \in Transfer /\ s.from = from /\ s.to = to /\ s.denom = e /\ s.amount = n
  BY <1>1 DEF Transfer
<1>3. /\ sends' = Append(sends, s) /\ receipts' = receipts /\ burners' = burners
      /\ bal' = [bal EXCEPT ![e] = Move(bal[e], from, to, n)]
      /\ bal[e][from] >= n
  BY DEF MsgSend, SendCoins, CanSend
<1> HIDE DEF s
<1>4. sends \in Seq(Transfer) /\ k \in Nat /\ k <= Len(sends)
  BY Parts DEF TxPart
<1>5. /\ Len(sends') = Len(sends) + 1 /\ sends'[Len(sends) + 1] = s
      /\ \A j \in 1 .. Len(sends) : sends'[j] = sends[j]
  BY <1>2, <1>3, <1>4
<1>6. Unspent(r) /\ r # from
  BY <1>2, <1>3, <1>4, <1>5 DEF Unspent
<1>7. Owed(sends', k, r, d) =
        Owed(sends, k, r, d) + (IF s.to = r /\ s.denom = d THEN s.amount ELSE 0)
  BY <1>2, <1>3, <1>4, OwedAppend
<1>8. Owed(sends, k, r, d) \in Nat
  BY <1>4, OwedSummable
<1>9. Owed(sends, k, r, d) <= bal[d][r]
  BY <1>6 DEF CreditsKept
<1>10. bal[d] \in [Account -> Nat] /\ d \in AnyDenom /\ bal \in [AnyDenom -> [Account -> Nat]]
  BY Unfolded DEF AnyDenom
<1>11. bal'[d][r] = bal[d][r] + (IF to = r /\ e = d THEN n ELSE 0)
  <2>1. CASE e = d
    <3>1. bal'[d] = Move(bal[d], from, to, n)
      BY <1>3, <1>10, <2>1
    <3> QED BY <1>1, <1>6, <1>10, <2>1, <3>1 DEF Move
  <2>2. CASE e # d
    <3>1. bal'[d] = bal[d]
      BY <1>3, <1>10, <2>2
    <3> QED BY <1>10, <2>2, <3>1
  <2> QED BY <2>1, <2>2
<1>12. bal[d][r] \in Nat
  BY <1>10
<1> HIDE DEF k
<1>13. Owed(sends', k, r, d) <= bal'[d][r]
  BY <1>1, <1>2, <1>7, <1>8, <1>9, <1>11, <1>12
<1> QED BY <1>3, <1>13 DEF k

\* One message: no receipt exists yet, and a registered token goes to a wallet.
LEMMA MessageTax ==
  ASSUME IndInv, IndInv', TaxInv, Deliver, Message
  PROVE  TaxInv'
<1> USE DEF TaxInv
<1>1. phase = "msgs" /\ receipts = <<>>
  BY DEF Deliver, NoReceiptYet
<1>2. UNCHANGED <<phase, receipts>>
  <2>1. ASSUME NEW a, NEW m, CreateToken(a, m) PROVE UNCHANGED <<phase, receipts>>
    BY <2>1 DEF CreateToken
  <2>2. ASSUME NEW a, NEW ref, NEW n, MintTokens(a, ref, n) PROVE UNCHANGED <<phase, receipts>>
    BY <2>2 DEF MintTokens
  <2>3. ASSUME NEW a, NEW ref, NEW out, ReleaseTokens(a, ref, out)
        PROVE  UNCHANGED <<phase, receipts>>
    BY <2>3 DEF ReleaseTokens
  <2>4. ASSUME NEW a, NEW d, NEW n, BurnToken(a, d, n) PROVE UNCHANGED <<phase, receipts>>
    BY <2>4 DEF BurnToken
  <2>5. ASSUME NEW a, NEW b, NEW d, NEW n, MsgSend(a, b, d, n)
        PROVE  UNCHANGED <<phase, receipts>>
    BY <2>5 DEF MsgSend
  <2> QED BY <2>1, <2>2, <2>3, <2>4, <2>5 DEF Message, BurnAll
<1>3. NoReceiptYet'
  BY <1>1, <1>2 DEF NoReceiptYet
<1>4. SkippedOnlyIfDrained'
  BY <1>1, <1>2 DEF SkippedOnlyIfDrained
<1>5. SentToWallets' /\ CreditsKept'
  <2>1. ASSUME NEW a \in Signer, NEW b \in Account, NEW e \in AnyDenom, NEW n \in Amount,
               MsgSend(a, b, e, n)
        PROVE  SentToWallets' /\ CreditsKept'
    <3> DEFINE s == [from |-> a, to |-> b, denom |-> e, amount |-> n]
    <3>1. n \in Nat /\ n > 0 /\ a \in Account
      BY StocAssumption DEF Amount, Signer, Account
    <3>2. CanSend(a, b, e, n) /\ sends' = Append(sends, s)
      BY <2>1 DEF MsgSend, SendCoins
    <3>3. e \in Denom => b \notin NonWallet \cup BlockedModule
      <4> SUFFICES ASSUME e \in Denom PROVE b \notin NonWallet \cup BlockedModule
        OBVIOUS
      <4>1. tokens[e] # NoToken
        BY <3>1, <3>2, MovedDenom, StocAssumption DEF CanSend
      <4> QED BY <3>2, <4>1 DEF CanSend, SendRestriction, HasToken
    <3>4. s \in Transfer /\ s.to = b /\ s.denom = e
      BY <3>1 DEF Transfer
    <3> HIDE DEF s
    <3>5. sends \in Seq(Transfer)
      BY Parts DEF TxPart
    <3>6. \A i \in 1 .. Len(sends') :
            sends'[i] = s \/ (i \in 1 .. Len(sends) /\ sends'[i] = sends[i])
      BY <3>2, <3>4, <3>5
    <3>7. SentToWallets'
      BY <3>3, <3>4, <3>6 DEF SentToWallets
    <3> QED BY <2>1, <3>7, SendCredits
  <2>2. ASSUME sends' = sends PROVE SentToWallets'
    BY <2>2 DEF SentToWallets
  <2>3. ASSUME NEW c \in Signer, NEW m \in CreateMsg, CreateToken(c, m)
        PROVE  SentToWallets' /\ CreditsKept'
    BY <2>2, <2>3, CreateCredits DEF CreateToken
  <2>4. ASSUME NEW c \in Signer, NEW ref \in Ref, NEW n \in Amount, MintTokens(c, ref, n)
        PROVE  SentToWallets' /\ CreditsKept'
    BY <2>2, <2>4, MintCredits DEF MintTokens
  <2>5. ASSUME NEW c \in Signer, NEW ref \in Ref, NEW out \in Outputs, ReleaseTokens(c, ref, out)
        PROVE  SentToWallets' /\ CreditsKept'
    BY <2>2, <2>5, ReleaseCredits DEF ReleaseTokens
  <2>6. ASSUME NEW a \in Signer, NEW e \in AnyDenom, NEW n \in Nat, BurnToken(a, e, n)
        PROVE  SentToWallets' /\ CreditsKept'
    BY <2>2, <2>6, BurnCredits DEF BurnToken
  <2>7. \A a \in Signer, d \in AnyDenom : bal[d][a] \in Nat
    BY Unfolded DEF Signer, Account
  <2>8. Amount \subseteq Nat
    BY StocAssumption DEF Amount
  <2> HIDE DEF TaxInv
  <2> QED BY <2>1, <2>3, <2>4, <2>5, <2>6, <2>7, <2>8 DEF Message, BurnAll
<1> QED BY <1>3, <1>4, <1>5

\* The PostHandler looks at a transfer and moves on to the next.
LEMMA PostTax ==
  ASSUME IndInv, IndInv', TaxInv, PostHandle
  PROVE  TaxInv'
<1> USE DEF TaxInv
<1> DEFINE k == Len(receipts)
           s == sends[k + 1]
           c == tokens[s.denom].taxTo
           tax == TaxOf(s)
<1>0. /\ sends \in Seq(Transfer) /\ k \in Nat /\ receipts \in Seq({"none", "paid", "skipped"})
      /\ \A i \in 1 .. Len(sends) : sends[i].to \notin Blocked
  BY Parts DEF TxPart
<1>1. /\ phase = "post" /\ k < Len(sends)
      /\ PostNoTax(s) \/ PostCollect(s) \/ PostSkip(s)
  BY DEF PostHandle, PostNoTax, PostCollect, PostSkip, NextSend
<1>2. /\ UNCHANGED <<tokens, phase, sends, burners>>
      /\ \E v \in {"none", "paid", "skipped"} :
           receipts' = Append(receipts, v) /\ (v = "skipped" => PostSkip(s))
  BY <1>1 DEF PostNoTax, PostCollect, PostSkip
<1>3. /\ Len(receipts') = k + 1
      /\ \A i \in 1 .. k : receipts'[i] = receipts[i]
      /\ receipts'[k + 1] = "skipped" => PostSkip(s)
  BY <1>0, <1>2
<1>4. NoReceiptYet' /\ SentToWallets'
  BY <1>1, <1>2 DEF NoReceiptYet, SentToWallets
<1>5. s \in Transfer /\ s.to \in Account \ {Stoc} /\ s.amount \in Nat /\ k + 1 \in 1 .. Len(sends)
  <2>1. k + 1 \in 1 .. Len(sends)
    BY <1>0, <1>1
  <2>2. s \in Transfer /\ s.to \notin Blocked
    BY <1>0, <2>1
  <2> QED BY <2>1, <2>2 DEF Transfer, Blocked
<1>6. ASSUME Taxable(s), s.amount > 1
      PROVE  /\ s.denom \in Denom /\ c \in Account /\ tokens[s.denom] # NoToken
             /\ tax \in Nat /\ tax <= s.amount /\ c # s.to
  <2> DEFINE n == s.amount
             percent == tokens[s.denom].taxPercent
  <2>1. s.denom \in Denom /\ tokens[s.denom] # NoToken /\ c # NoAddr
    BY <1>6 DEF Taxable, Untaxed, HasToken
  <2>2. tokens[s.denom] \in Token
    BY <2>1, Unfolded
  <2>3. c \in Account /\ percent \in 0 .. 50
    BY <2>1, <2>2 DEF Token
  <2>4. n \in Nat /\ n >= 2 /\ tax = TaxAmount(n, percent)
    BY <1>5, <1>6 DEF TaxOf
  <2>5. c # s.to
    BY <1>6 DEF Taxable, Exempt
  <2> HIDE DEF n, percent, tax, c, s
  <2>6. tax \in Nat /\ 2 * tax <= n
    BY <2>3, <2>4, TaxBounds
  <2>7. tax <= n
    BY <2>4, <2>6
  <2> QED BY <2>1, <2>3, <2>5, <2>6, <2>7 DEF n
<1>7. \A r, d : Owed(sends, k, r, d) \in Nat /\ Owed(sends, k + 1, r, d) \in Nat
  BY <1>0, OwedSummable
<1>8. Owed(sends, k, s.to, s.denom) = s.amount + Owed(sends, k + 1, s.to, s.denom)
  BY <1>0, <1>1, OwedNext
<1>9. \A r, d : ~ (s.to = r /\ s.denom = d) => Owed(sends, k + 1, r, d) = Owed(sends, k, r, d)
  BY <1>0, <1>1, OwedOther
<1>10. CreditsKept'
  <2> SUFFICES ASSUME NEW r \in Account \ {Stoc}, NEW d \in Denom, Unspent(r)'
               PROVE  Owed(sends', Len(receipts'), r, d) <= bal'[d][r]
    BY DEF CreditsKept
  <2>1. Unspent(r)
    BY <1>2 DEF Unspent
  <2>2. Owed(sends, k, r, d) <= bal[d][r]
    BY <2>1 DEF CreditsKept
  <2>3. /\ bal[d][r] \in Nat /\ d \in AnyDenom /\ bal \in [AnyDenom -> [Account -> Nat]]
        /\ bal[d] \in [Account -> Nat]
    BY Unfolded DEF AnyDenom
  <2> HIDE DEF s, k, tax, c
  <2>4. CASE bal' = bal
    <3>1. Owed(sends, k + 1, r, d) <= bal[d][r]
      <4>1. CASE s.to = r /\ s.denom = d
        BY <1>5, <1>7, <1>8, <2>2, <2>3, <4>1
      <4>2. CASE ~ (s.to = r /\ s.denom = d)
        BY <1>9, <2>2, <4>2
      <4> QED BY <4>1, <4>2
    <3> QED BY <1>2, <1>3, <2>4, <3>1
  <2>5. CASE PostCollect(s)
    <3>1. /\ Taxable(s) /\ s.amount > 1
          /\ bal' = [bal EXCEPT ![s.denom] = Move(bal[s.denom], s.to, c, tax)]
          /\ bal[s.denom][s.to] >= tax
      BY <2>5 DEF PostCollect, SendCoins, CanSend, Payer, c, tax
    <3>2. s.denom \in Denom /\ c \in Account /\ tax \in Nat /\ tax <= s.amount /\ c # s.to
      BY <1>6, <3>1
    <3>3. CASE s.denom = d /\ s.to = r
      <4>1. bal'[d] = Move(bal[d], r, c, tax)
        BY <2>3, <3>1, <3>3
      <4>2. bal'[d][r] = bal[d][r] - tax
        BY <2>3, <3>2, <3>3, <4>1 DEF Move
      <4>3. Owed(sends, k, r, d) = s.amount + Owed(sends, k + 1, r, d)
        BY <1>8, <3>3
      <4>4. Owed(sends, k + 1, r, d) <= bal'[d][r]
        BY <1>5, <1>7, <2>2, <2>3, <3>2, <4>2, <4>3
      <4> QED BY <1>2, <1>3, <4>4
    <3>4. CASE ~ (s.denom = d /\ s.to = r)
      <4>1. bal'[d][r] >= bal[d][r]
        <5>1. CASE s.denom = d
          <6>1. bal'[d] = Move(bal[d], s.to, c, tax)
            BY <2>3, <3>1, <5>1
          <6> QED BY <1>5, <2>3, <3>2, <3>4, <5>1, <6>1 DEF Move
        <5>2. CASE s.denom # d
          BY <2>3, <3>1, <5>2
        <5> QED BY <5>1, <5>2
      <4>2. bal'[d][r] \in Nat
        BY <2>3, NextTypes
      <4>3. Owed(sends, k + 1, r, d) = Owed(sends, k, r, d)
        BY <1>9, <3>4
      <4>4. Owed(sends, k + 1, r, d) <= bal'[d][r]
        BY <1>7, <2>2, <2>3, <4>1, <4>2, <4>3
      <4> QED BY <1>2, <1>3, <4>4
    <3> QED BY <3>3, <3>4
  <2> QED BY <1>1, <2>4, <2>5 DEF PostNoTax, PostSkip
<1>11. SkippedOnlyIfDrained'
  <2> SUFFICES ASSUME NEW i \in 1 .. k + 1, receipts'[i] = "skipped"
               PROVE  \/ tokens[sends[i].denom].taxTo \notin Wallet
                      \/ sends[i].to \in burners
                      \/ \E j \in 1 .. Len(sends) : sends[j].from = sends[i].to
    BY <1>2, <1>3 DEF SkippedOnlyIfDrained
  <2>1. CASE i \in 1 .. k
    BY <1>3, <2>1 DEF SkippedOnlyIfDrained
  <2>2. CASE i = k + 1
    <3> SUFFICES ASSUME c \in Wallet, Unspent(s.to)
                 PROVE  FALSE
      BY <2>2 DEF Unspent
    <3>1. PostSkip(s)
      BY <1>3, <2>2
    <3>2. Taxable(s) /\ s.amount > 1 /\ ~CanSend(s.to, c, s.denom, tax)
      BY <3>1 DEF PostSkip, Payer
    <3>3. s.denom \in Denom /\ tax \in Nat /\ tax <= s.amount
      BY <1>6, <3>2
    <3>4. s.to \notin NonWallet \cup BlockedModule
      BY <1>5, <3>3 DEF SentToWallets
    <3>5. SendRestriction(s.to, c, s.denom)
      BY <3>4, StocAssumption DEF SendRestriction
    <3>6. Owed(sends, k, s.to, s.denom) <= bal[s.denom][s.to]
      BY <1>5, <3>3 DEF CreditsKept
    <3>7. bal[s.denom][s.to] \in Nat
      BY <1>5, <3>3, Unfolded DEF AnyDenom
    <3> HIDE DEF s, k, tax, c
    <3>8. bal[s.denom][s.to] >= tax
      BY <1>5, <1>7, <1>8, <3>3, <3>6, <3>7
    <3> QED BY <3>2, <3>5, <3>8 DEF CanSend
  <2> QED BY <1>0, <2>1, <2>2
<1> QED BY <1>4, <1>10, <1>11

\* A transaction that ends forgets its transfers.
LEMMA EndTax ==
  ASSUME IndInv', EndTx
  PROVE  TaxInv'
<1>1. phase' = "idle" /\ sends' = <<>> /\ receipts' = <<>>
  BY DEF EndTx
<1>2. CreditsKept'
  <2> SUFFICES ASSUME NEW r \in Account \ {Stoc}, NEW d \in Denom
               PROVE  Owed(sends', Len(receipts'), r, d) <= bal'[d][r]
    BY DEF CreditsKept
  <2>1. bal'[d][r] \in Nat
    BY NextTypes DEF AnyDenom
  <2>2. Owed(sends', Len(receipts'), r, d) = 0
    BY <1>1, OwedNone
  <2> QED BY <2>1, <2>2
<1>3. NoReceiptYet' /\ SentToWallets' /\ SkippedOnlyIfDrained'
  BY <1>1 DEF NoReceiptYet, SentToWallets, SkippedOnlyIfDrained
<1> QED BY <1>2, <1>3 DEF TaxInv

\* Every step keeps the tax part of the invariant.
LEMMA NextTax ==
  ASSUME IndInv, IndInv', TaxInv, [Next]_vars
  PROVE  TaxInv'
<1>1. CASE /\ UNCHANGED <<tokens, bal, sends, burners, receipts>>
           /\ phase' = "post" \/ phase' = phase \/ phase # "post"
  BY <1>1 DEF TaxInv, NoReceiptYet, SentToWallets, CreditsKept, Unspent, SkippedOnlyIfDrained
<1>2. CASE Deliver /\ Message
  BY <1>2, MessageTax
<1>3. CASE PostHandle
  BY <1>3, PostTax
<1>4. CASE CommitTx \/ AbortTx
  BY <1>4, EndTax DEF CommitTx, AbortTx
<1>5. CASE BeginTx
  BY <1>1, <1>5 DEF BeginTx
<1>6. CASE StartPost
  BY <1>1, <1>6 DEF StartPost
<1>7. CASE ExportImport
  BY <1>1, <1>7 DEF ExportImport
<1>8. CASE UNCHANGED vars
  BY <1>1, <1>8 DEF vars
<1> QED BY <1>2, <1>3, <1>4, <1>5, <1>6, <1>7, <1>8 DEF Next

\* The PostHandler skips a tax only when the collector may not receive the
\* token or the taxed recipient itself spent coins in the same transaction:
\* what a recipient was credited always covers the taxes on it.
THEOREM TaxAlwaysCovered == Spec => []SkippedOnlyIfDrained
<1>1. Init => TaxInv
  <2> SUFFICES ASSUME Init PROVE TaxInv
    OBVIOUS
  <2>1. phase = "idle" /\ sends = <<>> /\ receipts = <<>>
    BY DEF Init
  <2>2. CreditsKept
    <3> SUFFICES ASSUME NEW r \in Account \ {Stoc}, NEW d \in Denom
                 PROVE  Owed(sends, Len(receipts), r, d) <= bal[d][r]
      BY DEF CreditsKept
    <3>1. bal[d][r] \in Nat
      BY InitStep, Unfolded DEF AnyDenom
    <3>2. Owed(sends, Len(receipts), r, d) = 0
      BY <2>1, OwedNone
    <3> QED BY <3>1, <3>2
  <2> QED BY <2>1, <2>2 DEF TaxInv, NoReceiptYet, SentToWallets, SkippedOnlyIfDrained
<1>2. IndInv /\ IndInv' /\ TaxInv /\ [Next]_vars => TaxInv'
  BY NextTax
<1>3. TaxInv => SkippedOnlyIfDrained
  BY DEF TaxInv
<1> QED BY <1>1, <1>2, <1>3, Invariance, PTL DEF Spec
=============================================================================
