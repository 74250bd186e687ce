----------------------------- MODULE LegacyPool -----------------------------
(***************************************************************************)
(* The EVM transaction pool: per account a contiguous list of executable   *)
(* transactions (pending) and a list of future ones (queue), the lookup of *)
(* all of them, the next pending nonce, the heartbeat that ages them and   *)
(* the reservation of the account.  Callers add and remove transactions    *)
(* under the pool lock; a background run resets the pool to the chain's    *)
(* head, promotes, demotes and truncates; a ticker evicts old ones.        *)
(***************************************************************************)
EXTENDS Integers, FiniteSets, FiniteSetsExt, Sequences, SequencesExt

CONSTANTS
  Account,
  Nonces,         \* bound: the nonces of submitted transactions are below it
  Prices,         \* prices a replacement bump apart; a transaction costs its price
  Scenes,         \* bounds on what surrounds the pool: the accounts that are active,
                  \* nonces they submit, transactions of one that blocks include,
                  \* balances and base fees that blocks may set
  AccountSlots, GlobalSlots, AccountQueue, GlobalQueue,  \* config
  Lifetime, HardEvict,   \* in ticks of the eviction timer
  MaxAge,         \* ages beyond it are not told apart
  None            \* no heartbeat

ASSUME PoolAssumption ==
  /\ IsFiniteSet(Account) /\ Nonces \in Nat /\ Prices \subseteq Nat
  /\ \A s \in Scenes : /\ s.accounts \subseteq Account /\ s.nonces \in 0..Nonces
                        /\ s.mined \in 0..s.nonces
                        /\ s.balances \subseteq Nat /\ s.baseFees \subseteq Nat
  /\ AccountSlots \in Nat \ {0} /\ GlobalSlots \in Nat \ {0}
  /\ AccountQueue \in Nat \ {0} /\ GlobalQueue \in Nat \ {0}
  /\ Lifetime \in Nat /\ HardEvict \in Nat /\ MaxAge \in Nat
  /\ Lifetime < HardEvict /\ HardEvict <= MaxAge /\ None \notin Nat

VARIABLES
  chain,    \* the committed nonce and balance of each account, and the base fee
  head,     \* currentState and currentHead: the chain as of the last reset
  pool,     \* per account: its lists, its part of the lookup, nonce, beat, reservation
  changes,  \* changesSinceReorg
  request,  \* what the reorg loop has been asked for: a reset, the dirty accounts
  run,      \* what the launched run was given
  scene     \* which of the Scenes this is

vars == <<chain, head, pool, changes, request, run, scene>>

Tx == [n : 0..Nonces-1, p : Prices]
Offered(a) == {t \in Tx \ pool[a].known : t.n < scene.nonces}
Total(f) == MapThenSumSet(LAMBDA a : f[a], Account)
Cost(txs) == MapThenSumSet(LAMBDA t : t.p, txs)
NonceOf(txs) == {t.n : t \in txs}
At(txs, n) == {t \in txs : t.n = n}
Rank(txs, t) == Cardinality({s \in txs : s.n < t.n})
\* The transactions of a list, which has one per nonce, in the order of nonces.
ByNonce(txs) == [i \in 1..Cardinality(txs) |-> CHOOSE t \in txs : Rank(txs, t) = i - 1]
Older(beat) == IF beat = None THEN None ELSE Min({beat + 1, MaxAge})
\* time.Since(beats[addr]): a missing entry reads as the zero time
Age(beat) == IF beat = None THEN MaxAge ELSE beat

NoTxs == [pending |-> {}, queue |-> {}, known |-> {}, next |-> 0, beat |-> None, held |-> FALSE]
Nothing == [wanted |-> FALSE, reset |-> FALSE, dirty |-> {}]
Slots(P) == Total([a \in Account |-> Cardinality(P[a].known)])

-----------------------------------------------------------------------------
(* Lists of one account.                                                   *)

\* SortedMap.Ready: the consecutive transactions from the lowest nonce on,
\* none when the lowest is above start.
Ready(txs, start) ==
  {t \in txs : /\ \E s \in txs : s.n <= start
               /\ \A n \in Min(NonceOf(txs))..t.n : At(txs, n) /= {}}

\* SortedMap.Cap: the transactions beyond the k lowest nonces.
Beyond(txs, k) == {t \in txs : Rank(txs, t) >= k}

Bumps(t, txs) == \A old \in At(txs, t.n) : t.p > old.p

Lower(next, dropped) == Min({next} \cup NonceOf(dropped))

Unreserve(A) == [A EXCEPT !.held = @ /\ (A.pending /= {} \/ A.queue /= {})]

EnqueueKeepsOld(A, txs) ==
  [A EXCEPT !.queue = @ \cup txs, !.known = @ \cup txs,
            !.beat = IF txs /= {} /\ @ = None THEN 0 ELSE @]

\* enqueueTx of each of these, at most one per nonce, in any order: each
\* replaces none or bumps the one it replaces.
Enqueue(A, txs) ==
  LET replaced == {s \in A.queue : At(txs, s.n) /= {}} IN
  [A EXCEPT !.queue = (@ \ replaced) \cup txs, !.known = (@ \ replaced) \cup txs,
            !.beat = IF txs /= {} /\ @ = None THEN 0 ELSE @]

\* removeTx without the release of the reservation: later pending
\* transactions go back to the queue and the next nonce is lowered.
RemoveFrom(A, t) ==
  IF t \in A.pending
    THEN LET later == {s \in A.pending : s.n > t.n}
             kept == [A EXCEPT !.known = @ \ {t}, !.pending = (@ \ {t}) \ later]
         IN [Enqueue(kept, later) EXCEPT !.next = Lower(@, {t})]
    ELSE [A EXCEPT !.known = @ \ {t}, !.queue = @ \ {t},
                   !.beat = IF A.queue \subseteq {t} THEN None ELSE @]

\* removeTx with unreserve
RemoveTx(A, t) == IF t \in A.known THEN Unreserve(RemoveFrom(A, t)) ELSE A

PromoteKeepsKnown(A, S) ==
  LET ready == Ready({t \in A.queue : t.n >= S.nonce /\ t.p <= S.balance}, A.next) IN
  [A EXCEPT !.pending = @ \cup ready,
            !.queue = {t \in @ \ ready : t.n >= S.nonce /\ t.p <= S.balance},
            !.next = IF ready = {} THEN @ ELSE Max(NonceOf(ready)) + 1]

\* promoteExecutables for one account with a queue: transactions the chain
\* has passed or the balance cannot pay are dropped, those that follow the
\* next nonce become pending, those beyond the account's limit are dropped.
Promote(A, S) ==
  LET dead == {t \in A.queue : t.n < S.nonce \/ t.p > S.balance}
      ready == Ready(A.queue \ dead, A.next)
      over == Beyond((A.queue \ dead) \ ready, AccountQueue)
      left == ((A.queue \ dead) \ ready) \ over
  IN IF A.queue = {} THEN A ELSE Unreserve(
     [A EXCEPT !.pending = @ \cup ready, !.queue = left, !.known = @ \ (dead \cup over),
               !.next = IF ready = {} THEN @ ELSE Max(NonceOf(ready)) + 1,
               !.beat = IF left = {} THEN None ELSE IF ready /= {} THEN 0 ELSE @])

\* demoteUnexecutables for one account: drop what the chain has passed or the
\* balance cannot pay, queue what followed it, and everything if a gap is left.
Demote(A, S) ==
  LET old == {t \in A.pending : t.n < S.nonce}
      poor == {t \in A.pending \ old : t.p > S.balance}
      after == {t \in (A.pending \ old) \ poor : \E s \in poor : s.n < t.n}
      rest == ((A.pending \ old) \ poor) \ after
      gapped == IF At(rest, S.nonce) = {} THEN rest ELSE {}
      kept == [A EXCEPT !.pending = rest \ gapped, !.known = @ \ (old \cup poor)]
  IN Unreserve(Enqueue(kept, after \cup gapped))

\* setAll at the end of a reset: past the last pending nonce, or the state's
NextAfterReset(A, S) ==
  [A EXCEPT !.next = IF A.pending = {} THEN S.nonce ELSE Max(NonceOf(A.pending)) + 1]

-----------------------------------------------------------------------------
(* Truncation.                                                             *)

\* truncatePending cuts the longest lists by one, round after round, until the
\* total fits or none is above AccountSlots: every list ends capped at a level.
Level(P) ==
  LET Fits(l) == Total([a \in Account |-> Min({Cardinality(P[a].pending), l})]) <= GlobalSlots
      Longest == Max({Cardinality(P[a].pending) : a \in Account} \cup {AccountSlots})
  IN Max({AccountSlots} \cup {l \in AccountSlots..Longest : Fits(l)})

TruncateKeepsNonce(P) ==
  [a \in Account |->
    LET over == Beyond(P[a].pending, Level(P)) IN
    [P[a] EXCEPT !.pending = @ \ over, !.known = @ \ over]]

TruncateNone(P) == P

TruncatePending(P) ==
  LET level == Level(P) IN
  [a \in Account |->
    LET over == Beyond(P[a].pending, level) IN
    [P[a] EXCEPT !.pending = @ \ over, !.known = @ \ over, !.next = Lower(@, over)]]

\* The orders in which truncateQueue may visit the accounts: oldest beat first.
Oldest(P) ==
  {o \in SetToSeqs({a \in Account : P[a].queue /= {}}) :
     \A i, j \in DOMAIN o : i < j => Age(P[o[i]].beat) >= Age(P[o[j]].beat)}

\* truncateQueue along an order: whole queues, then the last few of the next one
TruncateQueue(P, o) ==
  LET Queued(a) == Cardinality(P[a].queue)
      Excess == Total([a \in Account |-> Queued(a)]) - GlobalQueue
      Before(a) == Total([b \in Account |->
                     IF \E i, j \in DOMAIN o : i < j /\ o[i] = b /\ o[j] = a
                       THEN Queued(b) ELSE 0])
      Drop(a) == Max({0, Min({Queued(a), Excess - Before(a)})})
  IN [a \in Account |-> FoldLeft(RemoveTx, P[a],
        Reverse(ByNonce(Beyond(P[a].queue, Queued(a) - Drop(a)))))]

-----------------------------------------------------------------------------
Init ==
  /\ scene \in Scenes
  /\ \E b \in [Account -> scene.balances], f \in scene.baseFees :
       chain = [nonce |-> [a \in Account |-> 0], balance |-> b, baseFee |-> f]
  /\ head = chain
  /\ pool = [a \in Account |-> NoTxs]
  /\ changes = 0
  /\ request = Nothing /\ run = Nothing

StateOf(h, a) == [nonce |-> h.nonce[a], balance |-> h.balance[a]]

\* A block: it may include the account's next transaction and set the
\* account's balance and the base fee.  The chain head event requests a reset.
NewHead(a) ==
  /\ \E n \in {chain.nonce[a], chain.nonce[a] + 1},
        b \in scene.balances, f \in scene.baseFees :
       /\ n <= scene.mined
       /\ chain' = [chain EXCEPT !.nonce[a] = n, !.balance[a] = b, !.baseFee = f]
  /\ request' = [request EXCEPT !.wanted = TRUE, !.reset = TRUE]
  /\ UNCHANGED <<head, pool, changes, run, scene>>

\* ValidateTransactionWithState: the nonce is not behind, the balance pays for
\* it and, for a new nonce, for everything the account has pooled with it.
Valid(a, t) ==
  /\ t.n >= head.nonce[a]
  /\ head.balance[a] >= t.p
  /\ At(pool[a].pending \cup pool[a].queue, t.n) = {} =>
       head.balance[a] >= Cost(pool[a].pending) + Cost(pool[a].queue) + t.p

IsGapped(A, t) == t.n > A.next /\ \E n \in A.next..t.n-1 : At(A.queue, n) = {}

\* The end of add: replace a pending transaction, or enqueue
Insert(P, a, t) ==
  LET A == [P[a] EXCEPT !.held = TRUE] IN
  [P EXCEPT ![a] = IF At(A.pending, t.n) /= {}
                     THEN [A EXCEPT !.pending = (@ \ At(@, t.n)) \cup {t},
                                    !.known = (@ \ At(A.pending, t.n)) \cup {t}, !.beat = 0]
                     ELSE Enqueue(A, {t})]

\* The transactions the price heaps may choose to go from a full pool for this
\* one, which is not underpriced nor one change too many since the last run
Chosen(t) ==
  {v \in {<<b, s>> : b \in Account, s \in Tx} :
     /\ v[2] \in pool[v[1]].known
     /\ changes <= GlobalSlots \div 4
     /\ \E b \in Account : \E s \in pool[b].known : s.p < t.p}

\* A gapped transaction never displaces a pending one: if that is what the
\* heaps chose, it is put back and the gapped one refused.
Discardable(a, t) ==
  {v \in Chosen(t) : IsGapped(pool[a], t) => v[2] \notin pool[v[1]].pending}

\* The end of add in the pool P, which is what is left after making room: too
\* cheap a replacement is refused, but what was kicked out for it is gone.
\* Accounts with an accepted transaction that replaced none are dirty.
Conclude(P, a, t) ==
  LET lists == P[a].pending \cup P[a].queue IN
  /\ pool' = IF Bumps(t, lists) THEN Insert(P, a, t) ELSE P
  /\ request' = [request EXCEPT
       !.wanted = TRUE,
       !.dirty = IF At(lists, t.n) = {} THEN @ \cup {a} ELSE @]

RoomOffByOne == Slots(pool) <= GlobalSlots + GlobalQueue

Room == Slots(pool) + 1 <= GlobalSlots + GlobalQueue

\* Add of one transaction the pool does not know
Add(a) ==
  \E t \in Offered(a) :
    /\ Valid(a, t)
    /\ \/ /\ Room
          /\ Conclude(pool, a, t)
          /\ UNCHANGED changes
       \/ /\ ~Room
          /\ \E v \in Discardable(a, t) :
               LET P == [pool EXCEPT ![v[1]] = IF v[1] = a THEN RemoveFrom(@, v[2])
                                                           ELSE RemoveTx(@, v[2])]
               IN /\ Conclude(P, a, t)
                  /\ changes' = changes + Cardinality(pool[v[1]].pending \ P[v[1]].pending)
    /\ UNCHANGED <<chain, head, run, scene>>

\* An add refused before it touches the pool still asks for a run
Refuse(a) ==
  /\ \E t \in Offered(a) : \/ ~Valid(a, t)
                         \/ (~Room /\ (Chosen(t) = {} \/ Chosen(t) # Discardable(a, t)))
  /\ request' = [request EXCEPT !.wanted = TRUE]
  /\ UNCHANGED <<chain, head, pool, changes, run, scene>>

\* mempool.Remove of a transaction that fails the ante handler
RemoveFailed(a) ==
  \E t \in pool[a].known :
    /\ pool' = [pool EXCEPT ![a] = RemoveTx(@, t)]
    /\ UNCHANGED <<chain, head, changes, request, run, scene>>

\* scheduleReorgLoop starts a run with what was requested until now
Launch ==
  /\ ~run.wanted /\ request.wanted
  /\ run' = request /\ request' = Nothing
  /\ UNCHANGED <<chain, head, pool, changes, scene>>

\* runReorg, under the pool lock: with a reset the nonces fall back to the
\* state's before the promotion of every queue, and are set anew after it
PromoteAll(P, h, accounts) ==
  [a \in Account |-> IF a \in accounts THEN Promote(P[a], StateOf(h, a)) ELSE P[a]]

DemoteAll(P, h) ==
  [a \in Account |-> NextAfterReset(Demote(P[a], StateOf(h, a)), StateOf(h, a))]

Reorged(h, reset, dirty) ==
  IF reset
    THEN DemoteAll(PromoteAll([a \in Account |-> [pool[a] EXCEPT !.next = h.nonce[a]]],
                              h, Account), h)
    ELSE PromoteAll(pool, h, dirty)

RunReorg ==
  /\ run.wanted
  /\ head' = IF run.reset THEN chain ELSE head
  /\ LET P == TruncatePending(Reorged(head', run.reset, run.dirty)) IN
     \E o \in Oldest(P) : pool' = TruncateQueue(P, o)
  /\ changes' = 0
  /\ run' = Nothing
  /\ UNCHANGED <<chain, request, scene>>

\* A minute passes: every age grows, and the eviction timer fires
FeeStuck(A) == Cardinality(A.pending) > 0 /\
               \E t \in At(A.pending, Min(NonceOf(A.pending))) : t.p < head.baseFee

EvictQueue(A) ==
  IF A.queue /= {} /\ Age(A.beat) > Lifetime
    THEN FoldLeft(RemoveTx, A, ByNonce(A.queue)) ELSE A

EvictPending(A) ==
  IF A.pending = {} \/ Age(A.beat) <= Lifetime \/ (Age(A.beat) < HardEvict /\ FeeStuck(A))
    THEN A
    ELSE [FoldLeft(RemoveTx, A, ByNonce(A.pending)) EXCEPT !.beat = None]

Tick ==
  /\ pool' = [a \in Account |->
                EvictPending(EvictQueue([pool[a] EXCEPT !.beat = Older(@)]))]
  /\ UNCHANGED <<chain, head, changes, request, run, scene>>

Next ==
  \/ \E a \in scene.accounts : NewHead(a) \/ Add(a) \/ Refuse(a) \/ RemoveFailed(a)
  \/ Launch \/ RunReorg \/ Tick

Spec == Init /\ [][Next]_vars

-----------------------------------------------------------------------------
Beat == (0..MaxAge) \cup {None}
ChainState == [nonce : [Account -> 0..Nonces], balance : [Account -> Nat], baseFee : Nat]
Request == [wanted : BOOLEAN, reset : BOOLEAN, dirty : SUBSET Account]

\* Lists hold one transaction per nonce.
TypeOK ==
  /\ chain \in ChainState /\ head \in ChainState
  /\ \A a \in Account :
       /\ pool[a].pending \in SUBSET Tx /\ pool[a].queue \in SUBSET Tx
       /\ pool[a].known \in SUBSET Tx
       /\ pool[a].next \in 0..Nonces /\ pool[a].beat \in Beat /\ pool[a].held \in BOOLEAN
       /\ \A s, t \in pool[a].pending \cup pool[a].queue : s.n = t.n => s = t
  /\ changes \in Nat
  /\ request \in Request /\ run \in Request /\ scene \in Scenes

\* Between runs the pending list is the unbroken run of nonces from the state's
\* nonce up to the pending nonce, so a proposer that takes it in order never
\* meets a gap, also after removals, replacements and truncation.
PendingContiguous ==
  \A a \in Account : pool[a].pending /= {} =>
    NonceOf(pool[a].pending) = head.nonce[a]..pool[a].next - 1

LookupMatchesLists(A) == A.known = A.pending \cup A.queue
ReservedMatches(A) == A.held <=> A.known /= {}
QueuedHasBeat(A) == A.queue /= {} => A.beat /= None

\* The three books kept beside the lists agree with them, whatever moved or
\* dropped a transaction.  One lost from the lists alone would be "already
\* known" for ever, one lost from the lookup could not be removed; an account
\* is reserved exactly while it has a transaction in the pool, also when its
\* add kicks out its own last one; a queued account without a heartbeat would
\* count as infinitely old, be evicted at the next tick and truncated first.
Bookkeeping ==
  \A a \in Account :
    LookupMatchesLists(pool[a]) /\ ReservedMatches(pool[a]) /\ QueuedHasBeat(pool[a])

\* The pool never holds more transactions than it is configured for.
PoolBounded == Slots(pool) <= GlobalSlots + GlobalQueue

RunEnds == run.wanted /\ ~run'.wanted

\* After a run the total of the pending lists is within GlobalSlots unless
\* every list is within AccountSlots, and the queues within GlobalQueue.
RunRestoresLimits ==
  [][RunEnds =>
      /\ \/ Total([a \in Account |-> Cardinality(pool'[a].pending)]) <= GlobalSlots
         \/ \A a \in Account : Cardinality(pool'[a].pending) <= AccountSlots
      /\ Total([a \in Account |-> Cardinality(pool'[a].queue)]) <= GlobalQueue]_vars
=============================================================================
