------------------------------- MODULE StocTx -------------------------------
(***************************************************************************)
(* The life of x/stoc tokens on STOChain, one transaction at a time.       *)
(*                                                                         *)
(* A transaction runs its messages on a branch of the store, then the tax  *)
(* PostHandler on the same branch, and is then committed or discarded as a *)
(* whole (BaseApp.runTx).  The messages are the four handlers of the       *)
(* x/stoc message server and the bank transfer; the bank itself belongs to *)
(* the Cosmos SDK and is modelled from how src/ uses it.                   *)
(*                                                                         *)
(* A handler's early returns are its guard: a message that fails aborts    *)
(* the transaction, and AbortTx is that outcome of every message.          *)
(***************************************************************************)
EXTENDS Integers, Sequences, FiniteSets, Functions

CONSTANTS
  Wallet,          \* regular accounts: base and eth accounts, or not created yet
  NonWallet,       \* vesting, interchain and module accounts the bank does not block
  Precompile,      \* EVM precompile addresses, which no transfer may credit
  BlockedModule,   \* module accounts of blockAccAddrs, x/stoc's own excepted
  Stoc,            \* the x/stoc module account, which holds every reserve
  NoTaxModule,     \* module accounts ValidateState refuses as tax recipients
  Symbol,          \* what creators may call a token; symbols may collide
  Native,          \* the chain's own denom (ustoc)
  NoAddr, NoToken, \* an empty tax recipient; the absence of a token
  CreateMsg,       \* the MsgCreateToken bodies that are submitted
  MaxUint64,       \* the last value of the token counter, 2^64 - 1 in the code
  MaxTokenSupply,  \* 10^30 in the code
  MaxOutputs,      \* MaxMultiSendOutputs, 50 in the code
  MaxMsgs,         \* bound: messages in one transaction
  GenesisNative    \* native coins each account holds at genesis

Blocked == BlockedModule \cup {Stoc}
Account == Wallet \cup NonWallet \cup Precompile \cup BlockedModule \cup {Stoc}
\* Accounts on whose behalf a message can run: a key, a proposal or an ICA host.
Signer == Wallet \cup NonWallet
Amount == 1 .. MaxTokenSupply

\* "SYMBOL_n".  A symbol is alphanumeric, so the last "_" splits a denom in one way.
MinimalDenom(symbol, n) == <<symbol, n>>
Suffix(denom) == denom[2]
Denom == Symbol \X (0 .. MaxUint64)
AnyDenom == Denom \cup {Native}

Token == [creator: Account, unlimited: BOOLEAN, total: Nat, remaining: Nat,
          taxPercent: 0 .. 50, taxTo: Account \cup {NoAddr}]

\* dist gives each listed recipient its percentage; last is the last one listed.
IsCreateMsg(m) ==
  /\ m.symbol \in Symbol /\ m.initial \in Nat /\ m.total \in Nat
  /\ m.unlimited \in BOOLEAN
  /\ DOMAIN m.dist \subseteq Account /\ m.dist \in [DOMAIN m.dist -> 1 .. 100]
  /\ m.taxPercent \in 0 .. 50 /\ m.taxTo \in Account \cup {NoAddr}

ASSUME StocAssumption ==
  /\ MaxUint64 \in Nat /\ MaxTokenSupply \in Nat /\ MaxOutputs \in Nat
  /\ MaxMsgs \in Nat
  /\ IsFiniteSet(Account) /\ GenesisNative \in [Account -> Nat]
  /\ Stoc \notin Wallet \cup NonWallet \cup Precompile \cup BlockedModule
  /\ BlockedModule \cap (Wallet \cup NonWallet) = {}
  /\ Wallet \cap NonWallet = {} /\ Wallet \cap Precompile = {}
  /\ Native \notin Denom
  /\ NoToken \notin Token
  /\ NoAddr \notin Account
  /\ \A m \in CreateMsg : IsCreateMsg(m)

VARIABLES
  \* The branch of the store the running transaction reads and writes.
  tokens,     \* x/stoc: the token registered under each denom, or NoToken
  counter,    \* x/stoc: the suffix of the next denom
  bal,        \* bank: what each account holds, by denom
  supply,     \* bank: the supply of each denom
  \* The store as last committed.
  committed,
  \* The running transaction.
  phase,      \* "idle", "msgs" (runMsgs) or "post" (PostHandler)
  nmsgs,      \* messages delivered so far
  sends,      \* the transfers delivered: MsgSend, MultiSend outputs, authz-wrapped ones
  burners,    \* accounts that burnt coins
  receipts    \* what the PostHandler did with sends[1], sends[2], ...

store == <<tokens, counter, bal, supply>>
txvars == <<phase, nmsgs, sends, burners, receipts>>
vars == <<store, committed, txvars>>

Store == [tokens |-> tokens, counter |-> counter, bal |-> bal, supply |-> supply]

HasToken(denom) == denom \in Denom /\ tokens[denom] # NoToken

-----------------------------------------------------------------------------
(* The bank, with the send restrictions the application registers.         *)

SendRestrictionToOnly(from, to, denom) ==
  to \notin Precompile /\ (HasToken(denom) => to \notin NonWallet \cup BlockedModule)

\* blockPrecompileTransfers, and blockCustomTokenNonWalletAccounts: only x/stoc
\* and wallets may move a denom that is registered at the time of the transfer.
\* (The third restriction keeps them out of IBC escrow accounts, which no
\* message here addresses.)
SendRestriction(from, to, denom) ==
  /\ to \notin Precompile
  /\ HasToken(denom) => {from, to} \cap (NonWallet \cup BlockedModule) = {}

CanSend(from, to, denom, n) ==
  SendRestriction(from, to, denom) /\ bal[denom][from] >= n

Move(ledger, from, to, n) ==
  [[ledger EXCEPT ![from] = @ - n] EXCEPT ![to] = @ + n]

SendCoins(from, to, denom, n) ==
  /\ CanSend(from, to, denom, n)
  /\ bal' = [bal EXCEPT ![denom] = Move(@, from, to, n)]

-----------------------------------------------------------------------------
(* Token validation and lookup.                                            *)

\* ValidateState: what every persisted token satisfies.
ValidateState(token) ==
  /\ token.total <= MaxTokenSupply
  /\ token.remaining <= token.total
  /\ token.taxTo \notin NoTaxModule
  /\ token.taxPercent > 0 => token.taxTo # NoAddr

ValidateAnyInitial(m) ==
  /\ m.total <= MaxTokenSupply
  /\ m.unlimited \/ m.total > 0
  /\ DOMAIN m.dist = {} \/ (m.last \in DOMAIN m.dist /\ SumFunction(m.dist) = 100)
  /\ m.taxPercent > 0 => m.taxTo # NoAddr

\* ValidateBasic and Validate: what a creation message satisfies on its own.
Validate(m) ==
  /\ m.initial <= m.total /\ m.total <= MaxTokenSupply
  /\ m.unlimited \/ m.total > 0
  /\ DOMAIN m.dist = {} \/ (m.last \in DOMAIN m.dist /\ SumFunction(m.dist) = 100)
  /\ m.taxPercent > 0 => m.taxTo # NoAddr

\* FindToken: by denom first, else by symbol when that is not ambiguous.
Resolves(ref, denom) ==
  /\ HasToken(denom)
  /\ \/ ref = denom
     \/ /\ ref \in Symbol /\ denom[1] = ref
        /\ \A other \in Denom : HasToken(other) /\ other[1] = ref => other = denom

-----------------------------------------------------------------------------
(* The message handlers.                                                   *)

BeginTx ==
  /\ phase = "idle"
  /\ phase' = "msgs"
  /\ UNCHANGED <<store, committed, nmsgs, sends, burners, receipts>>

\* One message of the transaction goes to its handler.
Deliver == phase = "msgs" /\ nmsgs < MaxMsgs /\ nmsgs' = nmsgs + 1

SetToken(denom, token) ==
  ValidateState(token) /\ tokens' = [tokens EXCEPT ![denom] = token]

\* What all recipients but the last get: a truncated percentage each.
Cut(initial, percent) == (initial * percent) \div 100
Cuts(initial, dist, last) ==
  SumFunction([a \in DOMAIN dist \ {last} |-> Cut(initial, dist[a])])

ShareTruncated(initial, dist, last) ==
  [a \in DOMAIN dist |-> Cut(initial, dist[a])]

\* The last recipient gets the remainder, so that nothing is lost to rounding.
Share(initial, dist, last) ==
  [a \in DOMAIN dist |-> IF a = last THEN initial - Cuts(initial, dist, last)
                                     ELSE Cut(initial, dist[a])]

\* The sum of the MintCoins calls of the distribution loop.
Minted(share, last) ==
  SumFunction([a \in DOMAIN share \ {last} |-> share[a]]) + share[last]

NoShare == [a \in {} |-> 0]

CounterUnchecked == TRUE
\* The counter is a uint64: incremented at its last value it would wrap to 0.
CounterLeft == counter < MaxUint64
NextCounter == IF counter < MaxUint64 THEN counter + 1 ELSE 0

\* The recipients are paid before SetToken registers the denom, so no send
\* restriction sees these transfers; only blocked recipients are refused.
CreateToken(creator, m) ==
  LET skip  == m.unlimited /\ m.initial = 0
      dist  == IF DOMAIN m.dist = {} THEN [a \in {creator} |-> 100] ELSE m.dist
      last  == IF DOMAIN m.dist = {} THEN creator ELSE m.last
      share == IF skip THEN NoShare ELSE Share(m.initial, dist, last)
      minted == IF skip THEN 0 ELSE Minted(share, last)
      reserve == m.total - m.initial
      denom == MinimalDenom(m.symbol, counter)
  IN  /\ CounterLeft
      /\ Validate(m)
      /\ m.taxTo \notin Blocked
      /\ ~HasToken(denom)
      /\ skip => DOMAIN m.dist = {}
      /\ skip \/ Cuts(m.initial, dist, last) \in 0 .. m.initial
      /\ \A a \in DOMAIN share :
           share[a] > 0 /\ a \notin Blocked /\ SendRestriction(Stoc, a, denom)
      /\ bal' = [bal EXCEPT ![denom] =
                   [a \in Account |-> bal[denom][a]
                      + (IF a \in DOMAIN share THEN share[a] ELSE 0)
                      + (IF a = Stoc THEN reserve ELSE 0)]]
      /\ supply' = [supply EXCEPT ![denom] = @ + minted + reserve]
      /\ counter' = NextCounter
      /\ SetToken(denom, [creator |-> creator, unlimited |-> m.unlimited,
                          total |-> m.total, remaining |-> reserve,
                          taxPercent |-> m.taxPercent, taxTo |-> m.taxTo])
      /\ UNCHANGED <<committed, phase, sends, burners, receipts>>

MintTokensOfAnyKind(signer, ref, n) ==
  \E denom \in Denom :
    /\ Resolves(ref, denom)
    /\ tokens[denom].creator = signer
    /\ signer \notin Blocked /\ SendRestriction(Stoc, signer, denom)
    /\ bal' = [bal EXCEPT ![denom][signer] = @ + n]
    /\ supply' = [supply EXCEPT ![denom] = @ + n]
    /\ SetToken(denom, [tokens[denom] EXCEPT !.total = @ + n])
    /\ UNCHANGED <<counter, committed, phase, sends, burners, receipts>>

\* MintCoins to the module, SendCoinsFromModuleToAccount to the creator.
MintTokens(signer, ref, n) ==
  \E denom \in Denom :
    /\ Resolves(ref, denom)
    /\ tokens[denom].creator = signer
    /\ tokens[denom].unlimited
    /\ signer \notin Blocked /\ SendRestriction(Stoc, signer, denom)
    /\ bal' = [bal EXCEPT ![denom][signer] = @ + n]
    /\ supply' = [supply EXCEPT ![denom] = @ + n]
    /\ SetToken(denom, [tokens[denom] EXCEPT !.total = @ + n])
    /\ UNCHANGED <<counter, committed, phase, sends, burners, receipts>>

ReleaseTokensKeepRemaining(signer, ref, out) ==
  LET total == SumFunction(out)
  IN  \E denom \in Denom :
        /\ Resolves(ref, denom)
        /\ tokens[denom].creator = signer
        /\ total \in 1 .. tokens[denom].remaining
        /\ \A a \in DOMAIN out : a \notin Blocked /\ SendRestriction(Stoc, a, denom)
        /\ bal[denom][Stoc] >= total
        /\ bal' = [bal EXCEPT ![denom] =
                     [a \in Account |-> bal[denom][a]
                        + (IF a \in DOMAIN out THEN out[a] ELSE 0)
                        - (IF a = Stoc THEN total ELSE 0)]]
        /\ UNCHANGED <<tokens, counter, supply, committed, phase, sends, burners, receipts>>

\* Recipients are distinct (ValidateBasic), so a release is a function.
ReleaseTokens(signer, ref, out) ==
  LET total == SumFunction(out)
  IN  \E denom \in Denom :
        /\ Resolves(ref, denom)
        /\ tokens[denom].creator = signer
        /\ total \in 1 .. tokens[denom].remaining
        /\ \A a \in DOMAIN out : a \notin Blocked /\ SendRestriction(Stoc, a, denom)
        /\ bal[denom][Stoc] >= total
        /\ bal' = [bal EXCEPT ![denom] =
                     [a \in Account |-> bal[denom][a]
                        + (IF a \in DOMAIN out THEN out[a] ELSE 0)
                        - (IF a = Stoc THEN total ELSE 0)]]
        /\ SetToken(denom, [tokens[denom] EXCEPT !.remaining = @ - total])
        /\ UNCHANGED <<counter, supply, committed, phase, sends, burners, receipts>>

\* BurnToken's early returns, the ones of the bank's two calls included: the
\* coins pass through the module account, so the send restriction applies.
BurnChecks(signer, denom, n) ==
  /\ n > 0
  /\ HasToken(denom) => /\ tokens[denom].total >= n
                        /\ ValidateState([tokens[denom] EXCEPT !.total = @ - n])
  /\ CanSend(signer, Stoc, denom, n)
  /\ supply[denom] >= n

\* A holder burns what it holds; a denom x/stoc does not manage passes through.
BurnToken(signer, denom, n) ==
  /\ BurnChecks(signer, denom, n)
  /\ bal' = [bal EXCEPT ![denom][signer] = @ - n]
  /\ supply' = [supply EXCEPT ![denom] = @ - n]
  /\ IF HasToken(denom) THEN SetToken(denom, [tokens[denom] EXCEPT !.total = @ - n])
                        ELSE UNCHANGED tokens
  /\ burners' = burners \cup {signer}
  /\ UNCHANGED <<counter, committed, phase, sends, receipts>>

BurnAll(signer, denom) == BurnToken(signer, denom, bal[denom][signer])

MsgSend(from, to, denom, n) ==
  /\ to \notin Blocked
  /\ SendCoins(from, to, denom, n)
  /\ sends' = Append(sends, [from |-> from, to |-> to, denom |-> denom, amount |-> n])
  /\ UNCHANGED <<tokens, counter, supply, committed, phase, burners, receipts>>

-----------------------------------------------------------------------------
(* The tax PostHandler: one step for each transfer, in order.              *)

\* Truncated percentage, at least 1, at most half the transfer.
TaxAmount(n, percent) ==
  LET cut  == (n * percent) \div 100
      some == IF cut = 0 THEN 1 ELSE cut
  IN  IF some > n \div 2 THEN n \div 2 ELSE some

Untaxed(s) ==
  HasToken(s.denom) => tokens[s.denom].taxPercent = 0 \/ tokens[s.denom].taxTo = NoAddr

\* R2 and R3: the collector neither pays tax nor is taxed on what it receives.
Exempt(s) == tokens[s.denom].taxTo \in {s.from, s.to}

Taxable(s) == ~Untaxed(s) /\ ~Exempt(s)

\* The tax is taken from what the recipient was credited.
PayerSender(s) == s.from
Payer(s) == s.to

TaxOf(s) == TaxAmount(s.amount, tokens[s.denom].taxPercent)

StartPost ==
  /\ phase = "msgs" /\ nmsgs > 0
  /\ phase' = "post"
  /\ UNCHANGED <<store, committed, nmsgs, sends, burners, receipts>>

NextSend(s) ==
  /\ phase = "post" /\ Len(receipts) < Len(sends)
  /\ s = sends[Len(receipts) + 1]

PostNoTax(s) ==
  /\ NextSend(s)
  /\ ~Taxable(s)
  /\ receipts' = Append(receipts, "none")
  /\ UNCHANGED <<store, committed, phase, nmsgs, sends, burners>>

\* A transfer of one unit can only be aborted: it cannot carry any tax.
PostCollect(s) ==
  /\ NextSend(s)
  /\ Taxable(s)
  /\ s.amount > 1
  /\ SendCoins(Payer(s), tokens[s.denom].taxTo, s.denom, TaxOf(s))
  /\ receipts' = Append(receipts, "paid")
  /\ UNCHANGED <<tokens, counter, supply, committed, phase, nmsgs, sends, burners>>

\* The tax leg fails: the handler logs a warning and goes on.
PostSkip(s) ==
  /\ NextSend(s)
  /\ Taxable(s)
  /\ s.amount > 1
  /\ ~CanSend(Payer(s), tokens[s.denom].taxTo, s.denom, TaxOf(s))
  /\ receipts' = Append(receipts, "skipped")
  /\ UNCHANGED <<store, committed, phase, nmsgs, sends, burners>>

EndTx ==
  /\ phase' = "idle" /\ nmsgs' = 0
  /\ sends' = <<>> /\ burners' = {} /\ receipts' = <<>>

CommitTx ==
  /\ phase = "post" /\ Len(receipts) = Len(sends)
  /\ committed' = Store
  /\ EndTx
  /\ UNCHANGED store

\* A message or the PostHandler failed, or gas ran out: the branch is dropped.
AbortTx ==
  /\ phase \in {"msgs", "post"}
  /\ tokens' = committed.tokens /\ counter' = committed.counter
  /\ bal' = committed.bal /\ supply' = committed.supply
  /\ EndTx
  /\ UNCHANGED committed

-----------------------------------------------------------------------------
(* Export of the state and a new chain started from it.                    *)

\* The counter is not exported; InitGenesis rebuilds it from the denoms.
IsNextSuffix(n, toks) ==
  /\ \A d \in Denom : toks[d] # NoToken => Suffix(d) < n
  /\ n = 0 \/ \E d \in Denom : toks[d] # NoToken /\ Suffix(d) + 1 = n

RebuiltCounter == CHOOSE n \in 0 .. MaxUint64 : IsNextSuffix(n, tokens)

\* InitGenesis panics on any of these.
GenesisBoots ==
  \A d \in Denom : HasToken(d) =>
    /\ ValidateState(tokens[d])
    /\ Suffix(d) < MaxUint64 - 1
    /\ supply[d] = tokens[d].total

ExportImport ==
  /\ phase = "idle"
  /\ GenesisBoots
  /\ counter' = RebuiltCounter
  /\ committed' = [committed EXCEPT !.counter = RebuiltCounter]
  /\ UNCHANGED <<tokens, bal, supply, txvars>>

-----------------------------------------------------------------------------
Init ==
  /\ tokens = [d \in Denom |-> NoToken]
  /\ counter = 0
  /\ bal = [d \in AnyDenom |-> [a \in Account |->
              IF d = Native THEN GenesisNative[a] ELSE 0]]
  /\ supply = [d \in AnyDenom |->
                 IF d = Native THEN SumFunction(GenesisNative) ELSE 0]
  /\ committed = Store
  /\ phase = "idle" /\ nmsgs = 0
  /\ sends = <<>> /\ burners = {} /\ receipts = <<>>

Ref == Denom \cup Symbol
Outputs == UNION {[R -> Amount] : R \in {S \in SUBSET Account : Cardinality(S) <= MaxOutputs}}

Message ==
  \/ \E c \in Signer, m \in CreateMsg : CreateToken(c, m)
  \/ \E c \in Signer, ref \in Ref, n \in Amount : MintTokens(c, ref, n)
  \/ \E c \in Signer, ref \in Ref, out \in Outputs : ReleaseTokens(c, ref, out)
  \/ \E a \in Signer, d \in AnyDenom, n \in Amount : BurnToken(a, d, n)
  \/ \E a \in Signer, d \in AnyDenom : BurnAll(a, d)
  \/ \E a \in Signer, b \in Account, d \in AnyDenom, n \in Amount : MsgSend(a, b, d, n)

PostHandle ==
  \E i \in 1 .. Len(sends) :
    PostNoTax(sends[i]) \/ PostCollect(sends[i]) \/ PostSkip(sends[i])

Next ==
  \/ BeginTx
  \/ Deliver /\ Message
  \/ StartPost
  \/ PostHandle
  \/ CommitTx
  \/ AbortTx
  \/ ExportImport

Spec == Init /\ [][Next]_vars

-----------------------------------------------------------------------------
(* What the system promises.                                               *)

StoreType ==
  [tokens: [Denom -> Token \cup {NoToken}], counter: 0 .. MaxUint64,
   bal: [AnyDenom -> [Account -> Nat]], supply: [AnyDenom -> Nat]]

Transfer == [from: Signer, to: Account, denom: AnyDenom, amount: Nat]

\* Every variable keeps its type; in particular no balance, supply or reserve
\* of the keeper and the bank ever goes below zero.
TypeOK ==
  /\ Store \in StoreType /\ committed \in StoreType
  /\ phase \in {"idle", "msgs", "post"} /\ nmsgs \in 0 .. MaxMsgs
  /\ sends \in Seq(Transfer) /\ burners \subseteq Signer
  /\ receipts \in Seq({"none", "paid", "skipped"}) /\ Len(receipts) <= Len(sends)

\* The three checks of the code's SupplyInvariant for the token at denom d.
Books(s, d) ==
  s.tokens[d] # NoToken =>
    /\ s.supply[d] = s.tokens[d].total
    /\ s.bal[d][Stoc] = s.tokens[d].remaining
    /\ s.tokens[d].remaining <= s.tokens[d].total

\* SupplyInvariant of x/stoc never reports a drift: after every message and
\* every tax collection the bank's supply is TotalSupply and the module
\* account holds exactly RemainingSupply.
SupplyInvariant == \A d \in Denom : Books(Store, d)

\* The counter is one above the highest suffix in use, also when InitGenesis
\* rebuilds it, and a denom that was not created yet has no coins: CreateToken
\* never meets a denom that exists.
CounterFresh ==
  /\ IsNextSuffix(counter, tokens)
  /\ \A d \in Denom : tokens[d] = NoToken =>
       supply[d] = 0 /\ \A a \in Account : bal[d][a] = 0

\* A wallet can burn any part of what it holds of a managed token, whatever was
\* minted, released and burnt before: neither the drift guard (RemainingSupply
\* above the post-burn TotalSupply), nor the validation of the reduced token,
\* nor the bank refuses it.  An account that is no wallet, and can hold the
\* token because a distribution is paid before the denom is registered, can
\* burn none of it: the send restriction stops the transfer to the module.
WalletsCanBurn ==
  \A d \in Denom, a \in Signer : HasToken(d) =>
    \A n \in 1 .. bal[d][a] : BurnChecks(a, d, n) <=> a \in Wallet

\* The PostHandler leaves a tax uncollected only when the collector may not
\* receive the token, or when the taxed recipient itself spent coins in the same
\* transaction: the taxes on what it received never exhaust what it received.
SkippedOnlyIfDrained ==
  \A i \in 1 .. Len(receipts) :
    receipts[i] = "skipped" =>
      \/ tokens[sends[i].denom].taxTo \notin Wallet
      \/ sends[i].to \in burners
      \/ \E j \in 1 .. Len(sends) : sends[j].from = sends[i].to

\* The terms of a token are its creator, its kind and its tax.
SameTerms(old, new) ==
  /\ new # NoToken
  /\ new.creator = old.creator /\ new.unlimited = old.unlimited
  /\ new.taxPercent = old.taxPercent /\ new.taxTo = old.taxTo
  /\ old.unlimited \/ new.total <= old.total

\* A committed token keeps its creator, its tax and its kind for ever, through
\* export and import too, and a token that is not unlimited never grows.
TermsKept ==
  [][\A d \in Denom : committed.tokens[d] # NoToken =>
       SameTerms(committed.tokens[d], committed'.tokens[d])]_vars

\* Once a token is registered, what a vesting, interchain or module account
\* holds of it neither grows nor shrinks by any message or tax.
NonWalletFrozen ==
  [][\A d \in Denom, a \in NonWallet :
       committed.tokens[d] # NoToken =>
         committed'.bal[d][a] = committed.bal[d][a]]_vars

-----------------------------------------------------------------------------
(* The inductive invariant the proofs use.                                 *)

\* What holds of the branch between two messages holds of a committed store.
StoreInv(s) ==
  /\ \A d \in Denom : Books(s, d)
  /\ IsNextSuffix(s.counter, s.tokens)
  /\ \A d \in Denom : s.tokens[d] = NoToken =>
       s.supply[d] = 0 /\ \A a \in Account : s.bal[d][a] = 0
  /\ \A d \in Denom : s.tokens[d] # NoToken => s.tokens[d].taxTo \notin Blocked

\* How the branch may differ from the committed store it started from.
BranchInv ==
  \A d \in Denom : committed.tokens[d] # NoToken =>
    /\ SameTerms(committed.tokens[d], tokens[d])
    /\ \A a \in NonWallet : bal[d][a] = committed.bal[d][a]

IndInv ==
  /\ TypeOK
  /\ StoreInv(Store) /\ StoreInv(committed)
  /\ BranchInv
  /\ \A i \in 1 .. Len(sends) : sends[i].to \notin Blocked
  /\ phase = "idle" => Store = committed
=============================================================================
