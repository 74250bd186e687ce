---------------------------- MODULE EscrowCache ----------------------------
(***************************************************************************)
(* blockCustomTokenIBCTransfers: the bank send restriction that refuses to *)
(* move a custom token to or from the escrow address of a transfer         *)
(* channel.  It does not ask the IBC keeper each time: every node keeps a  *)
(* set of escrow addresses in memory, rebuilt at most once per height, at  *)
(* the first custom-token transfer of that height, from the channels of    *)
(* whatever context that transfer runs in.                                 *)
(*                                                                         *)
(* The restriction runs in the consensus connection's calls (verifying a   *)
(* proposal at height h + 1 on the state of h; finalizing the block) and,  *)
(* concurrently, in simulations and queries at a committed height.         *)
(***************************************************************************)
EXTENDS Integers, Sequences, SequencesExt

CONSTANTS
  Node, Channel,
  NoChannel,     \* a transfer between two wallets
  Blocks,        \* the blocks consensus may decide: sequences of transactions
  Simulated,     \* the transactions users simulate
  MaxHeight,     \* bound on the decided blocks
  MaxRestarts    \* bound on restarts, over all nodes

\* A transaction is a sequence of operations: opening a channel, a transfer of
\* a custom token that touches a channel's escrow address, an error.  One
\* without messages does not pass baseapp's basic validation.
Open(c) == [kind |-> "open", ch |-> c]
Send(c) == [kind |-> "send", ch |-> c]
Fail == [kind |-> "fail", ch |-> NoChannel]
Op == {Open(c) : c \in Channel} \cup {Send(c) : c \in Channel \cup {NoChannel}} \cup {Fail}
Transaction == Seq(Op) \ {<<>>}

ASSUME EscrowAssumption ==
  /\ NoChannel \notin Channel
  /\ \A b \in Blocks : b \in Seq(Transaction)
  /\ \A tx \in Simulated : tx \in Transaction
  /\ MaxHeight \in Nat /\ MaxRestarts \in Nat

VARIABLES
  decided,   \* the blocks consensus has decided
  store,     \* per node: the transfer channels in the state after each height, from 0 on
  outcome,   \* per node and finalized block: which of its transactions succeeded
  cache,     \* per node: escrowAddrs, nil until built, and cacheHeight
  thread,    \* per node: the consensus connection and a simulation
  restarts

vars == <<decided, store, outcome, cache, thread, restarts>>

Threads == {"consensus", "reader"}
NoCache == [nil |-> TRUE, addrs |-> {}, height |-> 0]

\* What a thread runs: the operations left of this transaction, the later
\* transactions, the channels it sees (view) and those it goes back to when
\* the transaction fails (base), and the results so far.
Idle == [pc |-> "idle", mode |-> "read", height |-> 0, ops |-> <<>>, later |-> <<>>,
         view |-> {}, base |-> {}, results |-> <<>>]
Start(mode, h, state, txs) ==
  [pc |-> IF txs = <<>> THEN "ended" ELSE "run", mode |-> mode, height |-> h,
   ops |-> IF txs = <<>> THEN <<>> ELSE Head(txs),
   later |-> IF txs = <<>> THEN <<>> ELSE Tail(txs),
   view |-> state, base |-> state, results |-> <<>>]

Height(n) == Len(store[n]) - 1
Committed(n, h) == store[n][h + 1]

Set(n, t, frame) == thread' = [thread EXCEPT ![n][t] = frame]

-----------------------------------------------------------------------------
(* Transactions.                                                           *)

\* runTx ends: its branch is written or dropped, and the next one begins.
EndTx(f, ok) ==
  LET state == IF ok THEN f.view ELSE f.base
      next  == [f EXCEPT !.view = state, !.base = state, !.results = Append(@, ok)]
  IN  IF f.later = <<>> THEN [next EXCEPT !.pc = "ended", !.ops = <<>>]
      ELSE [next EXCEPT !.pc = "run", !.ops = Head(f.later), !.later = Tail(f.later)]

NextOp(f) == IF Len(f.ops) = 1 THEN EndTx(f, TRUE) ELSE [f EXCEPT !.pc = "run", !.ops = Tail(@)]

\* An operation that does not move a custom token.
Other(n, t) ==
  LET f == thread[n][t]
      op == Head(f.ops)
  IN  /\ f.pc = "run" /\ op.kind # "send"
      /\ Set(n, t, IF op.kind = "fail" THEN EndTx(f, FALSE)
                   ELSE NextOp([f EXCEPT !.view = @ \cup {op.ch}]))
      /\ UNCHANGED <<decided, store, outcome, cache, restarts>>

-----------------------------------------------------------------------------
(* The restriction: three critical sections of the cache's mutex.          *)

NeedRebuildLate(c, h) == c.nil \/ h - c.height >= 2
NeedRebuild(c, h) == c.nil \/ h - c.height >= 1

\* Under the read lock.
Check(n, t) ==
  LET f == thread[n][t]
  IN  /\ f.pc = "run" /\ Head(f.ops).kind = "send"
      /\ Set(n, t, [f EXCEPT !.pc = IF NeedRebuild(cache[n], f.height)
                                    THEN "rebuild" ELSE "lookup"])
      /\ UNCHANGED <<decided, store, outcome, cache, restarts>>

\* Under the write lock, from the channels of the caller's context.
RebuildUnchecked(n, t) ==
  LET f == thread[n][t]
  IN  /\ f.pc = "rebuild"
      /\ cache' = [cache EXCEPT ![n] = [nil |-> FALSE, addrs |-> f.view, height |-> f.height]]
      /\ Set(n, t, [f EXCEPT !.pc = "lookup"])
      /\ UNCHANGED <<decided, store, outcome, restarts>>
Rebuild(n, t) ==
  LET f == thread[n][t]
  IN  /\ f.pc = "rebuild"
      /\ cache' = IF NeedRebuild(cache[n], f.height)
                  THEN [cache EXCEPT ![n] = [nil |-> FALSE, addrs |-> f.view,
                                             height |-> f.height]]
                  ELSE cache
      /\ Set(n, t, [f EXCEPT !.pc = "lookup"])
      /\ UNCHANGED <<decided, store, outcome, restarts>>

\* Under the read lock again: refused, the transfer fails its transaction.
Lookup(n, t) ==
  LET f == thread[n][t]
  IN  /\ f.pc = "lookup"
      /\ Set(n, t, IF Head(f.ops).ch \in cache[n].addrs THEN EndTx(f, FALSE) ELSE NextOp(f))
      /\ UNCHANGED <<decided, store, outcome, cache, restarts>>

-----------------------------------------------------------------------------
(* The calls that run transactions.                                        *)

Decide(b) ==
  /\ Len(decided) < MaxHeight
  /\ decided' = Append(decided, b)
  /\ UNCHANGED <<store, outcome, cache, thread, restarts>>

\* PrepareProposal or ProcessProposal for the next height: the messages do not
\* run, the PostHandler does, and its tax is a transfer.
Verify(n, c) ==
  /\ thread[n]["consensus"].pc = "idle"
  /\ Height(n) = Len(decided) /\ Height(n) < MaxHeight
  /\ Set(n, "consensus", Start("verify", Height(n) + 1, Committed(n, Height(n)), <<<<Send(c)>>>>))
  /\ UNCHANGED <<decided, store, outcome, cache, restarts>>

FinalizeBlock(n) ==
  /\ thread[n]["consensus"].pc = "idle"
  /\ Height(n) < Len(decided)
  /\ Set(n, "consensus", Start("finalize", Height(n) + 1, Committed(n, Height(n)),
                               decided[Height(n) + 1]))
  /\ UNCHANGED <<decided, store, outcome, cache, restarts>>

\* A simulation or a query, at a height the node still has.
Simulate(n, h, tx) ==
  /\ thread[n]["reader"].pc = "idle"
  /\ Set(n, "reader", Start("read", h, Committed(n, h), <<tx>>))
  /\ UNCHANGED <<decided, store, outcome, cache, restarts>>

\* The call returns; a finalized block is committed.
Return(n, t) ==
  LET f == thread[n][t]
  IN  /\ f.pc = "ended"
      /\ store' = IF f.mode = "finalize" THEN [store EXCEPT ![n] = Append(@, f.base)] ELSE store
      /\ outcome' = IF f.mode = "finalize"
                    THEN [outcome EXCEPT ![n] = Append(@, f.results)] ELSE outcome
      /\ Set(n, t, Idle)
      /\ UNCHANGED <<decided, cache, restarts>>

\* The process stops: the memory is lost, a block that was not committed runs
\* again.
Restart(n) ==
  /\ restarts < MaxRestarts
  /\ restarts' = restarts + 1
  /\ cache' = [cache EXCEPT ![n] = NoCache]
  /\ thread' = [thread EXCEPT ![n] = [t \in Threads |-> Idle]]
  /\ UNCHANGED <<decided, store, outcome>>

-----------------------------------------------------------------------------

Init ==
  /\ decided = <<>>
  /\ store = [n \in Node |-> <<{}>>]
  /\ outcome = [n \in Node |-> <<>>]
  /\ cache = [n \in Node |-> NoCache]
  /\ thread = [n \in Node |-> [t \in Threads |-> Idle]]
  /\ restarts = 0

Next ==
  \/ \E b \in Blocks : Decide(b)
  \/ \E n \in Node :
       \/ \E c \in Channel \cup {NoChannel} : Verify(n, c)
       \/ FinalizeBlock(n)
       \/ \E h \in 0..Height(n), tx \in Simulated : Simulate(n, h, tx)
       \/ \E t \in Threads : Other(n, t) \/ Check(n, t) \/ Rebuild(n, t)
                             \/ Lookup(n, t) \/ Return(n, t)
       \/ Restart(n)

Spec == Init /\ [][Next]_vars

-----------------------------------------------------------------------------
(* Properties.                                                             *)

Finalizing(n) == thread[n]["consensus"].mode = "finalize" /\ thread[n]["consensus"].pc = "lookup"
Opens(b) == {c \in Channel : \E i \in DOMAIN b : \E j \in DOMAIN b[i] : b[i][j] = Open(c)}

\* "A channel-open at block N is reflected at the block N+1 SendRestriction
\* lookup", and nothing else is: when a finalized transfer is looked up, the cache
\* holds every channel of the state before the block and beyond these only what
\* the block itself opened, whatever proposals were verified and whatever
\* simulations, which open channels in their own branch, ran between the check of
\* the cache, its rebuild and the lookup.
CacheMatchesState ==
  \A n \in Node : Finalizing(n) =>
    /\ Committed(n, Height(n)) \subseteq cache[n].addrs
    /\ cache[n].addrs \subseteq Committed(n, Height(n)) \cup Opens(decided[Height(n) + 1])

\* The write lock's second test of the height: a thread of an older height
\* that waited for the lock never replaces a newer cache.  Only a restart
\* lowers cacheHeight.
CacheNeverAges ==
  [][\A n \in Node : cache'[n].height < cache[n].height => cache'[n] = NoCache]_vars

Unmixed(b) == Opens(b) = {} \/ \A i \in DOMAIN b : \A j \in DOMAIN b[i] : b[i][j].kind # "send"
Finalized(n) == 1..Height(n)

\* What decides a block's transactions when it does not both open channels and
\* move custom tokens is the state before it: a node gets the same results
\* whichever call built its cache, and when, and after whatever restarts.
DecidedByState ==
  \A n \in Node : \A h \in Finalized(n) : Unmixed(decided[h]) =>
    \A i \in DOMAIN decided[h] :
      outcome[n][h][i] = \A j \in DOMAIN decided[h][i] :
        LET op == decided[h][i][j]
        IN  op # Fail /\ (op.kind = "send" => op.ch \notin Committed(n, h - 1))

\* The comment on the rebuild: what a transaction does is "deterministic
\* across all nodes, independent of when the cache was built".
NodesAgree ==
  \A n, m \in Node : \A h \in Finalized(n) \cap Finalized(m) :
    (\A g \in 1..(h - 1) : outcome[n][g] = outcome[m][g]) => outcome[n][h] = outcome[m][h]
=============================================================================
