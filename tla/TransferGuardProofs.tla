------------------------ MODULE TransferGuardProofs -------------------------
(***************************************************************************)
(* Proofs about the two guards on transfers of custom tokens.              *)
(* EscrowCache: for every set of nodes and channels, all blocks and        *)
(* simulations, and any number of heights and restarts.  MsgScreen: for    *)
(* every set of transactions, of any number and nesting of messages, every *)
(* depth limit and every bound on proposals.  The two share no state:      *)
(* their invariants are proved side by side.                               *)
(***************************************************************************)
EXTENDS EscrowCache, MsgScreen, FoldFacts, SequenceTheorems, TLAPS

-----------------------------------------------------------------------------
(* EscrowCache.                                                            *)

Active == {"run", "rebuild", "lookup"}
Frame == [pc : Active \cup {"idle", "ended"}, mode : {"read", "verify", "finalize"},
          height : Nat, ops : Seq(Op), later : Seq(Transaction),
          view : SUBSET Channel, base : SUBSET Channel, results : Seq(BOOLEAN)]

\* A frame that runs has an operation left, and asks the cache for a transfer.
FrameOK(f) ==
  /\ f.pc \in Active => f.ops # <<>>
  /\ f.pc \in {"rebuild", "lookup"} => f.ops[1].kind = "send"

CacheType == [nil : BOOLEAN, addrs : SUBSET Channel, height : Nat]

\* The type of the state.
TypeInv ==
  /\ decided \in Seq(Seq(Transaction))
  /\ store \in [Node -> Seq(SUBSET Channel)]
  /\ outcome \in [Node -> Seq(Seq(BOOLEAN))]
  /\ cache \in [Node -> CacheType]
  /\ thread \in [Node -> [Threads -> Frame]]
  /\ \A n \in Node :
       /\ store[n] # <<>> /\ Height(n) <= Len(decided) /\ Len(outcome[n]) = Height(n)
       /\ \A t \in Threads : FrameOK(thread[n][t])

\* An operation that succeeds when the channels before the block are S.
Good(op, S) == op # Fail /\ (op.kind = "send" => op.ch \notin S)
TxGood(tx, S) == \A j \in DOMAIN tx : Good(tx[j], S)

\* How far a frame has got through block b, whose transactions started from
\* the channels S: its results are those of the first transactions, its
\* operations are the rest of the next one, and what it sees was there before
\* the block or is opened by it.
Follows(f, b, S) ==
  LET k == Len(f.results)
      tx == b[k + 1]
      p == Len(tx) - Len(f.ops)
  IN  /\ S \subseteq f.base /\ f.base \subseteq f.view /\ f.view \subseteq S \cup Opens(b)
      /\ Unmixed(b) => \A i \in 1..k : f.results[i] = IF TxGood(b[i], S) THEN TRUE ELSE FALSE
      /\ f.pc = "ended" => k = Len(b)
      /\ f.pc \in Active =>
           /\ k < Len(b) /\ Len(f.later) = Len(b) - k - 1
           /\ \A i \in 1..Len(f.later) : f.later[i] = b[k + 1 + i]
           /\ p >= 0 /\ \A i \in 1..Len(f.ops) : f.ops[i] = tx[p + i]
           /\ Unmixed(b) => \A j \in 1..p : Good(tx[j], S)

\* The consensus connection works on the state of the last block: a proposal
\* is checked with a transfer only, a block runs as decided.
ConsensusFrame(n, f) ==
  LET S == Committed(n, Height(n))
  IN  f.pc # "idle" =>
        /\ f.mode # "read" /\ f.height = Height(n) + 1
        /\ f.mode = "verify" => /\ f.view = S /\ f.base = S /\ f.later = <<>>
                                /\ f.pc \in Active => Len(f.ops) = 1 /\ f.ops[1].kind = "send"
        /\ f.mode = "finalize" => /\ Height(n) < Len(decided)
                                  /\ Follows(f, decided[Height(n) + 1], S)

\* Simulations and queries run at heights already committed.
ReaderFrame(n, f) == f.pc # "idle" => f.mode = "read" /\ f.height <= Height(n)

\* A cache of the height under way was built by the consensus connection; a
\* lookup at that height finds such a cache.
CacheFresh(n) ==
  LET S == Committed(n, Height(n))
      A == cache[n].addrs
  IN  /\ cache[n].height <= Height(n) + 1
      /\ cache[n].nil => cache[n].height = 0
      /\ cache[n].height = Height(n) + 1 =>
           /\ S \subseteq A
           /\ \/ A \subseteq S
              \/ Height(n) < Len(decided) /\ A \subseteq S \cup Opens(decided[Height(n) + 1])
      /\ thread[n]["consensus"].pc = "lookup" => cache[n].height = Height(n) + 1

\* The results of the committed blocks.
OutcomesGood(n) ==
  \A h \in 1..Height(n) : Unmixed(decided[h]) =>
    \A i \in DOMAIN decided[h] :
      outcome[n][h][i] = IF TxGood(decided[h][i], Committed(n, h - 1)) THEN TRUE ELSE FALSE

\* The inductive invariant.
IndInv ==
  /\ TypeInv
  /\ \A n \in Node :
       /\ ConsensusFrame(n, thread[n]["consensus"]) /\ ReaderFrame(n, thread[n]["reader"])
       /\ CacheFresh(n) /\ OutcomesGood(n)

-----------------------------------------------------------------------------
(* Operations and frames.                                                  *)

\* The kinds of operations.
LEMMA OpKinds ==
  ASSUME NEW op \in Op
  PROVE  /\ op.kind \in {"open", "send", "fail"}
         /\ op.kind = "fail" <=> op = Fail
         /\ op.kind = "open" => op.ch \in Channel /\ op = Open(op.ch)
BY DEF Op, Open, Send, Fail

\* A frame's later transactions are not empty.
LEMMA LaterTx ==
  ASSUME NEW f \in Frame, f.later # <<>>
  PROVE  /\ Head(f.later) \in Seq(Op) /\ Head(f.later) # <<>>
         /\ Head(f.later) = f.later[1]
         /\ Tail(f.later) \in Seq(Transaction) /\ Len(Tail(f.later)) = Len(f.later) - 1
         /\ \A i \in 1..Len(f.later) - 1 : Tail(f.later)[i] = f.later[i + 1]
<1>1. f.later \in Seq(Transaction)
  BY DEF Frame
<1>2. Head(f.later) \in Transaction /\ Head(f.later) = f.later[1]
  BY <1>1
<1> QED BY <1>1, <1>2 DEF Transaction

\* What the end of a transaction does to a frame.
LEMMA EndTxFields ==
  ASSUME NEW f \in Frame, NEW ok \in BOOLEAN
  PROVE  LET g == EndTx(f, ok) IN
         /\ g \in Frame /\ FrameOK(g) /\ g.mode = f.mode /\ g.height = f.height
         /\ g.view = g.base /\ g.base = IF ok THEN f.view ELSE f.base
         /\ g.results = Append(f.results, ok)
         /\ f.later = <<>> => g.pc = "ended" /\ g.later = <<>>
         /\ f.later # <<>> => /\ g.pc = "run" /\ g.ops = Head(f.later)
                              /\ g.later = Tail(f.later)
<1> DEFINE st == IF ok THEN f.view ELSE f.base
           nx == [f EXCEPT !.view = st, !.base = st, !.results = Append(@, ok)]
<1>1. Append(f.results, ok) \in Seq(BOOLEAN) /\ st \in SUBSET Channel
  BY DEF Frame
<1>2. /\ nx \in Frame /\ nx.view = st /\ nx.base = st /\ nx.results = Append(f.results, ok)
      /\ nx.mode = f.mode /\ nx.height = f.height /\ nx.pc = f.pc /\ nx.ops = f.ops
      /\ nx.later = f.later
  BY <1>1 DEF Frame
<1>3. EndTx(f, ok) = IF f.later = <<>> THEN [nx EXCEPT !.pc = "ended", !.ops = <<>>]
                     ELSE [nx EXCEPT !.pc = "run", !.ops = Head(f.later), !.later = Tail(f.later)]
  BY DEF EndTx
<1> HIDE DEF nx, st
<1>4. CASE f.later = <<>>
  <2> DEFINE g == [nx EXCEPT !.pc = "ended", !.ops = <<>>]
  <2>1. /\ g \in Frame /\ g.pc = "ended" /\ g.later = f.later /\ g.mode = f.mode
        /\ g.height = f.height /\ g.view = st /\ g.base = st /\ g.results = nx.results
    <3>1. <<>> \in Seq(Op)
      BY EmptySeq
    <3> QED BY <1>2, <3>1 DEF Frame, Active
  <2> HIDE DEF g
  <2>2. EndTx(f, ok) = g
    BY <1>3, <1>4 DEF g
  <2> QED BY <1>2, <1>4, <2>1, <2>2 DEF FrameOK, Active, st
<1>5. CASE f.later # <<>>
  <2> DEFINE g == [nx EXCEPT !.pc = "run", !.ops = Head(f.later), !.later = Tail(f.later)]
  <2>1. /\ g \in Frame /\ g.pc = "run" /\ g.ops = Head(f.later) /\ g.later = Tail(f.later)
        /\ g.mode = f.mode /\ g.height = f.height /\ g.view = st /\ g.base = st
        /\ g.results = nx.results
    BY <1>2, <1>5, LaterTx DEF Frame, Active
  <2> HIDE DEF g
  <2>2. EndTx(f, ok) = g
    BY <1>3, <1>5 DEF g
  <2> QED BY <1>2, <1>5, <2>1, <2>2, LaterTx DEF FrameOK, Active, st
<1> QED BY <1>4, <1>5

\* The rest of a sequence of at least two.
LEMMA LongTail ==
  ASSUME NEW S, NEW s \in Seq(S), s # <<>>, Len(s) # 1
  PROVE  /\ Tail(s) \in Seq(S) /\ Len(Tail(s)) = Len(s) - 1 /\ Tail(s) # <<>>
         /\ \A i \in 1..Len(Tail(s)) : Tail(s)[i] = s[i + 1]
<1>1. /\ Tail(s) \in Seq(S) /\ Len(Tail(s)) = Len(s) - 1
      /\ \A i \in 1..Len(Tail(s)) : Tail(s)[i] = s[i + 1]
  BY HeadTailProperties
<1>2. Len(s) \in Nat \ {0}
  BY EmptySeq
<1>3. Len(Tail(s)) # 0
  BY <1>1, <1>2
<1> QED BY <1>1, <1>3, EmptySeq

\* What the end of an operation does to a frame that has more of them.
LEMMA TailFields ==
  ASSUME NEW f \in Frame, f.ops # <<>>, Len(f.ops) # 1
  PROVE  LET g == NextOp(f) IN
         /\ g \in Frame /\ FrameOK(g) /\ g.mode = f.mode /\ g.height = f.height
         /\ g.view = f.view /\ g.base = f.base /\ g.results = f.results
         /\ g.pc = "run" /\ g.later = f.later /\ g.ops = Tail(f.ops)
         /\ Len(g.ops) = Len(f.ops) - 1 /\ \A i \in 1..Len(g.ops) : g.ops[i] = f.ops[i + 1]
<1>0. f.ops \in Seq(Op)
  BY DEF Frame
<1>2. /\ Tail(f.ops) \in Seq(Op) /\ Len(Tail(f.ops)) = Len(f.ops) - 1 /\ Tail(f.ops) # <<>>
      /\ \A i \in 1..Len(Tail(f.ops)) : Tail(f.ops)[i] = f.ops[i + 1]
  BY <1>0, LongTail
<1>3. NextOp(f) = [f EXCEPT !.pc = "run", !.ops = Tail(f.ops)]
  BY DEF NextOp
<1> DEFINE g == [f EXCEPT !.pc = "run", !.ops = Tail(f.ops)]
<1>4. /\ g \in Frame /\ g.mode = f.mode /\ g.height = f.height /\ g.view = f.view
      /\ g.base = f.base /\ g.results = f.results /\ g.pc = "run" /\ g.later = f.later
      /\ g.ops = Tail(f.ops)
  BY <1>2 DEF Frame, Active
<1> HIDE DEF g
<1>5. NextOp(f) = g
  BY <1>3 DEF g
<1> QED BY <1>2, <1>4, <1>5 DEF FrameOK, Active

\* What starting a call does.
LEMMA StartType ==
  ASSUME NEW md \in {"read", "verify", "finalize"}, NEW h \in Nat, NEW S \in SUBSET Channel,
         NEW txs \in Seq(Transaction)
  PROVE  Start(md, h, S, txs) \in Frame /\ FrameOK(Start(md, h, S, txs))
<1>1. CASE txs = <<>>
  <2> DEFINE g == [pc |-> "ended", mode |-> md, height |-> h, ops |-> <<>>, later |-> <<>>,
                   view |-> S, base |-> S, results |-> <<>>]
  <2>1. Start(md, h, S, txs) = g
    BY <1>1 DEF Start
  <2>2. g \in Frame
    BY DEF Frame, Active
  <2> QED BY <1>1, <2>1, <2>2 DEF FrameOK, Active
<1>2. CASE txs # <<>>
  <2> DEFINE g == [pc |-> "run", mode |-> md, height |-> h, ops |-> Head(txs),
                   later |-> Tail(txs), view |-> S, base |-> S, results |-> <<>>]
  <2>1. Start(md, h, S, txs) = g
    BY <1>2 DEF Start
  <2>2. Head(txs) \in Transaction /\ Tail(txs) \in Seq(Transaction)
    BY <1>2
  <2>3. g \in Frame /\ Head(txs) # <<>>
    BY <2>2 DEF Frame, Active, Transaction
  <2> QED BY <1>2, <2>1, <2>3 DEF FrameOK, Active
<1> QED BY <1>1, <1>2
-----------------------------------------------------------------------------
(* Frames that run a block.                                                *)

\* The operation a frame is at, in the block it runs.
LEMMA AtOp ==
  ASSUME NEW f \in Frame, FrameOK(f), f.pc \in Active, NEW b \in Seq(Transaction), NEW S,
         Follows(f, b, S)
  PROVE  LET k == Len(f.results)
             p == Len(b[k + 1]) - Len(f.ops)
         IN  /\ k \in Nat /\ k + 1 \in DOMAIN b /\ b[k + 1] \in Seq(Op)
             /\ f.ops \in Seq(Op) /\ Len(f.ops) \in Nat \ {0} /\ f.ops[1] \in Op
             /\ p \in Nat /\ p + 1 \in DOMAIN b[k + 1] /\ f.ops[1] = b[k + 1][p + 1]
<1> DEFINE k == Len(f.results)
           tx == b[k + 1]
           p == Len(tx) - Len(f.ops)
<1>1. f.ops \in Seq(Op) /\ f.results \in Seq(BOOLEAN)
  BY DEF Frame
<1>2. k \in Nat /\ Len(f.ops) \in Nat \ {0} /\ f.ops[1] \in Op
  BY <1>1, EmptySeq, LenProperties, ElementOfSeq DEF FrameOK
<1>3. k < Len(b) /\ p >= 0 /\ \A i \in 1..Len(f.ops) : f.ops[i] = b[k + 1][p + i]
  BY DEF Follows
<1>4. k + 1 \in DOMAIN b /\ b[k + 1] \in Transaction
  BY <1>2, <1>3, LenProperties
<1>5. b[k + 1] \in Seq(Op) /\ Len(b[k + 1]) \in Nat /\ DOMAIN b[k + 1] = 1..Len(b[k + 1])
  BY <1>4, LenProperties DEF Transaction
<1>6. p \in Nat /\ p + 1 \in DOMAIN tx /\ f.ops[1] = tx[p + 1]
  <2>1. Len(tx) \in Nat /\ DOMAIN tx = 1..Len(tx)
    BY <1>5
  <2>2. p >= 0 /\ \A i \in 1..Len(f.ops) : f.ops[i] = tx[p + i]
    BY <1>3
  <2> HIDE DEF tx, k
  <2>3. p \in Nat /\ p + 1 \in 1..Len(tx)
    BY <1>2, <2>1, <2>2
  <2> HIDE DEF p
  <2>4. f.ops[1] = tx[p + 1]
    BY <1>2, <2>2
  <2> QED BY <2>1, <2>3, <2>4
<1> QED BY <1>1, <1>2, <1>4, <1>5, <1>6

\* The end of a transaction, with the result the state before the block calls
\* for, brings the frame to the next one.
LEMMA FollowsEnd ==
  ASSUME NEW f \in Frame, FrameOK(f), f.pc \in Active, NEW b \in Seq(Transaction), NEW S,
         Follows(f, b, S), NEW ok \in BOOLEAN,
         Unmixed(b) => ok = IF TxGood(b[Len(f.results) + 1], S) THEN TRUE ELSE FALSE
  PROVE  Follows(EndTx(f, ok), b, S)
<1> DEFINE k == Len(f.results)
           g == EndTx(f, ok)
<1>1. /\ g.view = g.base /\ g.base = (IF ok THEN f.view ELSE f.base)
      /\ g.results = Append(f.results, ok)
      /\ f.later = <<>> => g.pc = "ended" /\ g.later = <<>>
      /\ f.later # <<>> => g.pc = "run" /\ g.ops = Head(f.later) /\ g.later = Tail(f.later)
  BY EndTxFields
<1>2. f.results \in Seq(BOOLEAN) /\ f.later \in Seq(Transaction) /\ k \in Nat
  BY LenProperties DEF Frame
<1>3. Len(g.results) = k + 1 /\ g.results[k + 1] = ok /\ \A i \in 1..k : g.results[i] = f.results[i]
  BY <1>1, <1>2
<1>4. /\ S \subseteq f.base /\ f.base \subseteq f.view /\ f.view \subseteq S \cup Opens(b)
      /\ Unmixed(b) => \A i \in 1..k : f.results[i] = IF TxGood(b[i], S) THEN TRUE ELSE FALSE
      /\ k < Len(b) /\ Len(f.later) = Len(b) - k - 1
      /\ \A i \in 1..Len(f.later) : f.later[i] = b[k + 1 + i]
  BY DEF Follows
<1>5. S \subseteq g.base /\ g.base \subseteq g.view /\ g.view \subseteq S \cup Opens(b)
  BY <1>1, <1>4
<1>6. Unmixed(b) => \A i \in 1..Len(g.results) :
                      g.results[i] = IF TxGood(b[i], S) THEN TRUE ELSE FALSE
  <2> SUFFICES ASSUME Unmixed(b), NEW i \in 1..k + 1
               PROVE  g.results[i] = IF TxGood(b[i], S) THEN TRUE ELSE FALSE
    BY <1>3
  <2> HIDE DEF k, g
  <2>1. CASE i = k + 1
    BY <1>3, <2>1 DEF k
  <2>2. CASE i \in 1..k
    BY <1>3, <1>4, <2>2
  <2>3. i = k + 1 \/ i \in 1..k
    BY <1>2
  <2> QED BY <2>1, <2>2, <2>3
<1>7. Len(b) \in Nat /\ Len(f.later) \in Nat
  BY <1>2, LenProperties
<1>8. CASE f.later = <<>>
  <2>1. Len(g.results) = Len(b) /\ g.pc = "ended"
    <3>1. Len(f.later) = 0
      BY <1>8
    <3> QED BY <1>1, <1>2, <1>3, <1>4, <1>7, <1>8, <3>1
  <2> HIDE DEF k, g
  <2> QED BY <1>5, <1>6, <2>1 DEF Follows, Active, g
<1>9. CASE f.later # <<>>
  <2>1. /\ g.pc = "run" /\ g.ops = f.later[1] /\ Len(g.later) = Len(f.later) - 1
        /\ \A i \in 1..Len(f.later) - 1 : g.later[i] = f.later[i + 1]
        /\ g.ops \in Seq(Op)
    BY <1>1, <1>9, LaterTx
  <2>2. Len(f.later) >= 1
    BY <1>2, <1>9, EmptySeq
  <2> HIDE DEF k, g
  <2>3. k + 1 < Len(b) /\ Len(g.later) = Len(b) - (k + 1) - 1
    BY <1>2, <1>4, <1>7, <2>1, <2>2
  <2>4. \A i \in 1..Len(g.later) : g.later[i] = b[k + 1 + 1 + i]
    <3> SUFFICES ASSUME NEW i \in 1..Len(g.later) PROVE g.later[i] = b[k + 1 + 1 + i]
      OBVIOUS
    <3>1. g.later[i] = f.later[i + 1] /\ i + 1 \in 1..Len(f.later)
      BY <1>7, <2>1
    <3>2. f.later[i + 1] = b[k + 1 + (i + 1)] /\ k + 1 + (i + 1) = k + 1 + 1 + i
      BY <1>2, <1>4, <3>1
    <3> QED BY <3>1, <3>2
  <2>5. g.ops = b[k + 1 + 1]
    BY <1>4, <1>7, <2>1, <2>2
  <2>6. Len(g.ops) \in Nat /\ Len(b[k + 1 + 1]) - Len(g.ops) = 0
    BY <2>1, <2>5, LenProperties
  <2>7. \A i \in 1..Len(g.ops) : g.ops[i] = b[k + 1 + 1][0 + i]
    BY <2>5, <2>6
  <2>8. LET j == Len(g.results)
        IN  /\ j < Len(b) /\ Len(g.later) = Len(b) - j - 1
            /\ \A i \in 1..Len(g.later) : g.later[i] = b[j + 1 + i]
            /\ Len(b[j + 1]) - Len(g.ops) = 0
            /\ \A i \in 1..Len(g.ops) : g.ops[i] = b[j + 1][0 + i]
    BY <1>3, <2>3, <2>4, <2>6, <2>7
  <2>9. LET tx == b[Len(g.results) + 1]
            p == Len(tx) - Len(g.ops)
        IN  p >= 0 /\ (\A i \in 1..Len(g.ops) : g.ops[i] = tx[p + i])
            /\ \A j \in 1..p : Good(tx[j], S)
    <3> DEFINE tx == b[Len(g.results) + 1]
               p == Len(tx) - Len(g.ops)
    <3>1. p = 0 /\ \A i \in 1..Len(g.ops) : g.ops[i] = tx[0 + i]
      BY <2>8
    <3> HIDE DEF p, tx
    <3>2. p >= 0 /\ (\A i \in 1..Len(g.ops) : g.ops[i] = tx[p + i]) /\ 1..p = {}
      BY <3>1
    <3> QED BY <3>2 DEF p, tx
  <2> QED BY <1>5, <1>6, <2>1, <2>8, <2>9 DEF Follows, Active, g
<1> QED BY <1>8, <1>9

\* An operation that succeeds, with the result the state before the block
\* calls for, brings the frame to the next operation.
LEMMA FollowsNext ==
  ASSUME NEW f \in Frame, FrameOK(f), f.pc \in Active, NEW b \in Seq(Transaction), NEW S,
         Follows(f, b, S), Unmixed(b) => Good(f.ops[1], S)
  PROVE  Follows(NextOp(f), b, S)
<1> DEFINE k == Len(f.results)
           tx == b[k + 1]
           p == Len(tx) - Len(f.ops)
<1>1. /\ k \in Nat /\ tx \in Seq(Op) /\ f.ops \in Seq(Op) /\ Len(f.ops) \in Nat \ {0}
      /\ p \in Nat /\ f.ops[1] = tx[p + 1] /\ Len(tx) \in Nat
  BY AtOp, LenProperties
<1>2. /\ S \subseteq f.base /\ f.base \subseteq f.view /\ f.view \subseteq S \cup Opens(b)
      /\ Unmixed(b) => \A i \in 1..k : f.results[i] = IF TxGood(b[i], S) THEN TRUE ELSE FALSE
      /\ k < Len(b) /\ Len(f.later) = Len(b) - k - 1
      /\ \A i \in 1..Len(f.later) : f.later[i] = b[k + 1 + i]
      /\ \A i \in 1..Len(f.ops) : f.ops[i] = tx[p + i]
      /\ Unmixed(b) => \A j \in 1..p : Good(tx[j], S)
  BY DEF Follows
<1>3. CASE Len(f.ops) = 1
  <2>1. Unmixed(b) => TxGood(tx, S)
    <3> HIDE DEF tx
    <3>1. DOMAIN tx = 1..p + 1
      BY <1>1, <1>3, LenProperties
    <3>2. ASSUME Unmixed(b), NEW j \in 1..p + 1 PROVE Good(tx[j], S)
      <4> HIDE DEF p
      <4>1. j = p + 1 \/ j \in 1..p
        BY <1>1
      <4> QED BY <1>1, <1>2, <3>2, <4>1
    <3> QED BY <3>1, <3>2 DEF TxGood
  <2>2. NextOp(f) = EndTx(f, TRUE)
    BY <1>3 DEF NextOp
  <2> QED BY <2>1, <2>2, FollowsEnd
<1>4. CASE Len(f.ops) # 1
  <2> DEFINE g == NextOp(f)
  <2>1. /\ g.view = f.view /\ g.base = f.base /\ g.results = f.results
        /\ g.pc = "run" /\ g.later = f.later
        /\ Len(g.ops) = Len(f.ops) - 1 /\ \A i \in 1..Len(g.ops) : g.ops[i] = f.ops[i + 1]
    BY <1>4, TailFields DEF FrameOK
  <2> HIDE DEF g
  <2>2. Len(tx) - Len(g.ops) = p + 1
    BY <1>1, <2>1
  <2>3. \A i \in 1..Len(g.ops) : g.ops[i] = tx[p + 1 + i]
    <3> SUFFICES ASSUME NEW i \in 1..Len(g.ops) PROVE g.ops[i] = tx[p + 1 + i]
      OBVIOUS
    <3> HIDE DEF tx, p
    <3>1. g.ops[i] = f.ops[i + 1] /\ i + 1 \in 1..Len(f.ops) /\ p + (i + 1) = p + 1 + i
      BY <1>1, <2>1
    <3> QED BY <1>2, <3>1
  <2>4. Unmixed(b) => \A j \in 1..p + 1 : Good(tx[j], S)
    <3> HIDE DEF tx, p
    <3> QED BY <1>1, <1>2
  <2>5. p + 1 >= 0
    BY <1>1
  <2> QED BY <1>2, <2>1, <2>2, <2>3, <2>4, <2>5 DEF Follows, Active, g
<1> QED BY <1>3, <1>4

\* An operation that fails ends its transaction without effect.
LEMMA FollowsFail ==
  ASSUME NEW f \in Frame, FrameOK(f), f.pc \in Active, NEW b \in Seq(Transaction), NEW S,
         Follows(f, b, S), Unmixed(b) => ~Good(f.ops[1], S)
  PROVE  Follows(EndTx(f, FALSE), b, S)
<1>1. Unmixed(b) => ~TxGood(b[Len(f.results) + 1], S)
  BY AtOp DEF TxGood
<1> QED BY <1>1, FollowsEnd

\* Opening a channel of the block.
LEMMA FollowsOpen ==
  ASSUME NEW f \in Frame, FrameOK(f), f.pc = "run", NEW b \in Seq(Transaction), NEW S,
         Follows(f, b, S), f.ops[1].kind = "open"
  PROVE  LET g == [f EXCEPT !.view = @ \cup {f.ops[1].ch}]
         IN  /\ g \in Frame /\ FrameOK(g) /\ g.pc = "run" /\ Follows(g, b, S) /\ g.ops = f.ops
             /\ g.mode = f.mode /\ g.height = f.height
<1> DEFINE c == f.ops[1].ch
           g == [f EXCEPT !.view = @ \cup {c}]
<1>0. f.pc \in Active
  BY DEF Active
<1>1. c \in Channel /\ f.ops[1] = Open(c)
  BY <1>0, AtOp, OpKinds
<1>2. c \in Opens(b)
  BY <1>0, <1>1, AtOp DEF Opens
<1>3. f.view \cup {c} \in SUBSET Channel
  BY <1>1 DEF Frame
<1>4. /\ g \in Frame /\ g.view = f.view \cup {c} /\ g.base = f.base /\ g.pc = "run"
      /\ g.ops = f.ops /\ g.later = f.later /\ g.results = f.results
      /\ g.mode = f.mode /\ g.height = f.height
  BY <1>3 DEF Frame
<1> HIDE DEF g
<1>5. FrameOK(g)
  BY <1>4 DEF FrameOK
<1>6. Follows(g, b, S)
  <2>1. S \subseteq g.base /\ g.base \subseteq g.view /\ g.view \subseteq S \cup Opens(b)
    BY <1>2, <1>4 DEF Follows
  <2> QED BY <2>1, <1>4 DEF Follows
<1> QED BY <1>4, <1>5, <1>6 DEF g
-----------------------------------------------------------------------------
(* The frames of a node.                                                   *)

\* No frame: the thread is idle.
LEMMA IdleFrame == Idle \in Frame /\ FrameOK(Idle) /\ Idle.pc = "idle"
<1>1. <<>> \in Seq(Op) /\ <<>> \in Seq(Transaction) /\ <<>> \in Seq(BOOLEAN)
  BY EmptySeq
<1> QED BY <1>1 DEF Idle, Frame, FrameOK, Active

\* The end of an operation, whoever runs it.
LEMMA NextOpFields ==
  ASSUME NEW f \in Frame, f.ops # <<>>
  PROVE  LET g == NextOp(f) IN
         g \in Frame /\ FrameOK(g) /\ g.mode = f.mode /\ g.height = f.height
         /\ g.pc \in {"run", "ended"}
<1>1. CASE Len(f.ops) = 1
  <2>1. NextOp(f) = EndTx(f, TRUE)
    BY <1>1 DEF NextOp
  <2>2. LET g == EndTx(f, TRUE) IN
        g \in Frame /\ FrameOK(g) /\ g.mode = f.mode /\ g.height = f.height
        /\ g.pc \in {"run", "ended"}
    BY EndTxFields
  <2> QED BY <2>1, <2>2, Zenon
<1>2. CASE Len(f.ops) # 1
  BY <1>2, TailFields
<1> QED BY <1>1, <1>2

\* The state of a node.
LEMMA Heights ==
  ASSUME TypeInv, NEW n \in Node
  PROVE  /\ store[n] \in Seq(SUBSET Channel) /\ Height(n) \in Nat /\ Len(store[n]) = Height(n) + 1
         /\ Len(decided) \in Nat /\ Height(n) <= Len(decided)
         /\ \A h \in 0..Height(n) : Committed(n, h) \in SUBSET Channel
         /\ \A h \in 1..Len(decided) : decided[h] \in Seq(Transaction)
<1>1. store[n] \in Seq(SUBSET Channel) /\ store[n] # <<>> /\ Height(n) <= Len(decided)
  BY DEF TypeInv
<1>2. Len(store[n]) \in Nat \ {0} /\ Height(n) = Len(store[n]) - 1
  BY <1>1, EmptySeq DEF Height
<1>3. \A h \in 0..Height(n) : h + 1 \in 1..Len(store[n])
  BY <1>2
<1>4. \A h \in 0..Height(n) : Committed(n, h) \in SUBSET Channel
  BY <1>1, <1>3, ElementOfSeq DEF Committed
<1>5. Len(decided) \in Nat /\ \A h \in 1..Len(decided) : decided[h] \in Seq(Transaction)
  BY LenProperties, ElementOfSeq DEF TypeInv
<1> QED BY <1>1, <1>2, <1>4, <1>5

\* The consensus connection's frame after an operation that succeeded.
LEMMA ConsensusNext ==
  ASSUME TypeInv, NEW n \in Node, NEW f \in Frame, FrameOK(f), f.pc \in Active,
         ConsensusFrame(n, f),
         f.mode = "finalize" /\ Unmixed(decided[Height(n) + 1])
           => Good(f.ops[1], Committed(n, Height(n)))
  PROVE  ConsensusFrame(n, NextOp(f))
<1> DEFINE S == Committed(n, Height(n))
           b == decided[Height(n) + 1]
<1>0. f.pc # "idle" /\ f.ops # <<>>
  BY DEF Active, FrameOK
<1>1. f.mode \in {"verify", "finalize"} /\ f.height = Height(n) + 1
  BY <1>0 DEF ConsensusFrame, Frame
<1>2. NextOp(f).mode = f.mode /\ NextOp(f).height = f.height
  BY <1>0, NextOpFields
<1>3. CASE f.mode = "finalize"
  <2>1. Height(n) < Len(decided) /\ Follows(f, b, S)
    BY <1>0, <1>3 DEF ConsensusFrame
  <2>2. b \in Seq(Transaction)
    BY <2>1, Heights
  <2>3. Follows(NextOp(f), b, S)
    BY <1>3, <2>1, <2>2, FollowsNext
  <2> QED BY <1>1, <1>2, <1>3, <2>1, <2>3 DEF ConsensusFrame
<1>4. CASE f.mode = "verify"
  <2>1. Len(f.ops) = 1 /\ f.later = <<>> /\ f.view = S /\ f.base = S
    BY <1>0, <1>4 DEF ConsensusFrame
  <2>2. NextOp(f) = EndTx(f, TRUE)
    BY <2>1 DEF NextOp
  <2>3. LET g == NextOp(f) IN g.view = S /\ g.base = S /\ g.later = <<>> /\ g.pc = "ended"
    <3>1. LET g == EndTx(f, TRUE) IN g.view = S /\ g.base = S /\ g.later = <<>> /\ g.pc = "ended"
      <4> DEFINE g == EndTx(f, TRUE)
      <4>1. /\ g.view = g.base /\ g.base = (IF TRUE THEN f.view ELSE f.base)
            /\ f.later = <<>> => g.pc = "ended" /\ g.later = <<>>
        BY EndTxFields
      <4> HIDE DEF g
      <4> QED BY <2>1, <4>1 DEF g
    <3> QED BY <2>2, <3>1, Zenon
  <2> QED BY <1>1, <1>2, <1>4, <2>3 DEF ConsensusFrame, Active
<1> QED BY <1>1, <1>3, <1>4

\* The consensus connection's frame after an operation that failed.
LEMMA ConsensusFails ==
  ASSUME TypeInv, NEW n \in Node, NEW f \in Frame, FrameOK(f), f.pc \in Active,
         ConsensusFrame(n, f),
         f.mode = "finalize" /\ Unmixed(decided[Height(n) + 1])
           => ~Good(f.ops[1], Committed(n, Height(n)))
  PROVE  ConsensusFrame(n, EndTx(f, FALSE))
<1> DEFINE S == Committed(n, Height(n))
           b == decided[Height(n) + 1]
           g == EndTx(f, FALSE)
<1>0. f.pc # "idle"
  BY DEF Active
<1>1. f.mode \in {"verify", "finalize"} /\ f.height = Height(n) + 1
  BY <1>0 DEF ConsensusFrame, Frame
<1>2. g.mode = f.mode /\ g.height = f.height
  BY EndTxFields
<1>3. CASE f.mode = "finalize"
  <2>1. Height(n) < Len(decided) /\ Follows(f, b, S)
    BY <1>0, <1>3 DEF ConsensusFrame
  <2>2. b \in Seq(Transaction)
    BY <2>1, Heights
  <2>3. Follows(g, b, S)
    BY <1>3, <2>1, <2>2, FollowsFail
  <2> QED BY <1>1, <1>2, <1>3, <2>1, <2>3 DEF ConsensusFrame
<1>4. CASE f.mode = "verify"
  <2>1. f.later = <<>> /\ f.view = S /\ f.base = S
    BY <1>0, <1>4 DEF ConsensusFrame
  <2>3. g.view = S /\ g.base = S /\ g.later = <<>> /\ g.pc = "ended"
    BY <2>1, EndTxFields
  <2> QED BY <1>1, <1>2, <1>4, <2>3 DEF ConsensusFrame, Active
<1> QED BY <1>1, <1>3, <1>4

\* A step that only replaces a frame by one that fits.
LEMMA ThreadStep ==
  ASSUME IndInv, NEW n \in Node, NEW t \in Threads, NEW g \in Frame, FrameOK(g),
         t = "consensus" => /\ ConsensusFrame(n, g)
                            /\ g.pc = "lookup" => cache[n].height = Height(n) + 1,
         t = "reader" => ReaderFrame(n, g),
         Set(n, t, g), UNCHANGED <<decided, store, outcome, cache>>
  PROVE  IndInv'
<1>1. thread' \in [Node -> [Threads -> Frame]]
  BY DEF IndInv, TypeInv, Set
<1>2. \A m \in Node, u \in Threads : thread'[m][u] = IF m = n /\ u = t THEN g ELSE thread[m][u]
  BY DEF IndInv, TypeInv, Set
<1>3. \A m \in Node : Height(m)' = Height(m)
  BY DEF Height
<1>4. \A m \in Node : \A h : Committed(m, h)' = Committed(m, h)
  BY DEF Committed
<1>5. TypeInv'
  <2>1. \A m \in Node, u \in Threads : FrameOK(thread'[m][u])
    BY <1>2 DEF IndInv, TypeInv
  <2> QED BY <1>1, <1>3, <2>1 DEF IndInv, TypeInv
<1> SUFFICES ASSUME NEW m \in Node
             PROVE  /\ ConsensusFrame(m, thread[m]["consensus"])'
                    /\ ReaderFrame(m, thread[m]["reader"])'
                    /\ CacheFresh(m)' /\ OutcomesGood(m)'
  BY <1>5 DEF IndInv
<1>6. Height(m)' = Height(m) /\ \A h : Committed(m, h)' = Committed(m, h)
  BY <1>3, <1>4
<1>7. OutcomesGood(m)'
  BY Zenon DEF IndInv, OutcomesGood, Height, Committed
<1>8. "consensus" \in Threads /\ "reader" \in Threads /\ t \in {"consensus", "reader"}
  BY DEF Threads
<1>9. ConsensusFrame(m, thread[m]["consensus"])'
  BY <1>2, <1>6, <1>8 DEF IndInv, ConsensusFrame
<1>10. ReaderFrame(m, thread[m]["reader"])'
  BY <1>2, <1>6, <1>8 DEF IndInv, ReaderFrame
<1>11. CacheFresh(m)'
  BY <1>2, <1>6, <1>8 DEF IndInv, CacheFresh
<1> QED BY <1>7, <1>9, <1>10, <1>11
-----------------------------------------------------------------------------
(* The invariant is inductive.                                             *)

\* A node that has just started.
LEMMA InitInv == Init => IndInv
<1> SUFFICES ASSUME Init PROVE IndInv
  OBVIOUS
<1> USE DEF Init
<1>1. \A n \in Node : \A t \in Threads : thread[n][t] = Idle
  OBVIOUS
<1>2. \A n \in Node : store[n] = <<{}>> /\ Height(n) = 0 /\ outcome[n] = <<>>
  BY DEF Height
<1>3. NoCache \in CacheType
  BY Zenon DEF NoCache, CacheType
<1>4. TypeInv
  <2>1. decided \in Seq(Seq(Transaction)) /\ Len(decided) = 0
    BY EmptySeq
  <2>2. <<{}>> \in Seq(SUBSET Channel) /\ <<{}>> # <<>>
    OBVIOUS
  <2>3. <<>> \in Seq(Seq(BOOLEAN)) /\ Len(<<>>) = 0
    BY EmptySeq
  <2>4. \A n \in Node : /\ store[n] # <<>> /\ Height(n) <= Len(decided)
                         /\ Len(outcome[n]) = Height(n)
    BY <1>2, <2>1, <2>2, <2>3
  <2>5. \A n \in Node : \A t \in Threads : FrameOK(thread[n][t])
    BY <1>1, IdleFrame
  <2>6. /\ store \in [Node -> Seq(SUBSET Channel)] /\ outcome \in [Node -> Seq(Seq(BOOLEAN))]
        /\ cache \in [Node -> CacheType] /\ thread \in [Node -> [Threads -> Frame]]
    BY <1>3, <2>2, <2>3, IdleFrame
  <2> QED BY <2>1, <2>4, <2>5, <2>6 DEF TypeInv
<1>5. ASSUME NEW n \in Node
      PROVE  /\ ConsensusFrame(n, thread[n]["consensus"]) /\ ReaderFrame(n, thread[n]["reader"])
             /\ CacheFresh(n) /\ OutcomesGood(n)
  <2>1. thread[n]["consensus"].pc = "idle" /\ thread[n]["reader"].pc = "idle"
    BY <1>1, IdleFrame DEF Threads
  <2>2. cache[n].height = 0
    BY DEF NoCache
  <2>3. 1..Height(n) = {}
    BY <1>2
  <2>4. CacheFresh(n)
    BY <1>2, <2>1, <2>2 DEF CacheFresh
  <2>5. OutcomesGood(n)
    BY <2>3 DEF OutcomesGood
  <2> QED BY <2>1, <2>4, <2>5 DEF ConsensusFrame, ReaderFrame
<1> QED BY <1>4, <1>5 DEF IndInv

\* The facts about a thread every action starts from.
LEMMA ThreadFacts ==
  ASSUME IndInv, NEW n \in Node, NEW t \in Threads
  PROVE  /\ thread[n][t] \in Frame /\ FrameOK(thread[n][t])
         /\ thread[n][t].pc \in Active =>
              /\ thread[n][t].ops # <<>> /\ Head(thread[n][t].ops) = thread[n][t].ops[1]
              /\ thread[n][t].ops[1] \in Op
         /\ t = "consensus" => ConsensusFrame(n, thread[n][t])
         /\ t = "reader" => ReaderFrame(n, thread[n][t])
         /\ cache[n] \in CacheType /\ CacheFresh(n) /\ TypeInv
<1>1. thread[n][t] \in Frame /\ FrameOK(thread[n][t]) /\ cache[n] \in CacheType
  BY DEF IndInv, TypeInv
<1>2. thread[n][t].ops \in Seq(Op)
  BY <1>1 DEF Frame
<1>3. thread[n][t].pc \in Active =>
        /\ thread[n][t].ops # <<>> /\ Head(thread[n][t].ops) = thread[n][t].ops[1]
        /\ thread[n][t].ops[1] \in Op
  BY <1>1, <1>2 DEF FrameOK
<1> QED BY <1>1, <1>3 DEF IndInv

\* A channel is opened or the transaction fails.
LEMMA OtherInv ==
  ASSUME IndInv, NEW n \in Node, NEW t \in Threads, Other(n, t)
  PROVE  IndInv'
<1> DEFINE f == thread[n][t]
           op == f.ops[1]
           S == Committed(n, Height(n))
           b == decided[Height(n) + 1]
<1>1. /\ f \in Frame /\ FrameOK(f) /\ f.pc = "run" /\ f.pc \in Active /\ op \in Op
      /\ f.ops # <<>> /\ op.kind # "send" /\ TypeInv
      /\ t = "consensus" => ConsensusFrame(n, f)
      /\ t = "reader" => ReaderFrame(n, f)
  BY ThreadFacts DEF Other, Active
<1>2. /\ Set(n, t, IF op.kind = "fail" THEN EndTx(f, FALSE)
                   ELSE NextOp([f EXCEPT !.view = @ \cup {op.ch}]))
      /\ UNCHANGED <<decided, store, outcome, cache>>
  BY <1>1, ThreadFacts DEF Other
<1> HIDE DEF f
<1>3. CASE op.kind = "fail"
  <2> DEFINE g == EndTx(f, FALSE)
  <2>1. /\ g \in Frame /\ FrameOK(g) /\ g.mode = f.mode /\ g.height = f.height
        /\ g.pc \in {"run", "ended"}
    BY <1>1, EndTxFields
  <2>2. ~Good(op, S)
    BY <1>1, <1>3, OpKinds DEF Good
  <2>3. t = "consensus" => ConsensusFrame(n, g)
    BY <1>1, <2>2, ConsensusFails
  <2>4. t = "reader" => ReaderFrame(n, g)
    BY <1>1, <2>1 DEF ReaderFrame
  <2>5. Set(n, t, g)
    BY <1>2, <1>3
  <2> HIDE DEF g
  <2> QED BY <1>2, <2>1, <2>3, <2>4, <2>5, ThreadStep
<1>4. CASE op.kind # "fail"
  <2> DEFINE e == [f EXCEPT !.view = @ \cup {op.ch}]
             g == NextOp(e)
  <2>1. op.kind = "open" /\ op.ch \in Channel
    BY <1>1, <1>4, OpKinds
  <2>2. /\ e \in Frame /\ e.ops = f.ops /\ e.mode = f.mode /\ e.height = f.height
        /\ e.pc = f.pc
    <3>1. f.view \cup {op.ch} \in SUBSET Channel
      BY <1>1, <2>1 DEF Frame
    <3> HIDE DEF op
    <3> QED BY <1>1, <3>1 DEF Frame
  <2>3. /\ g \in Frame /\ FrameOK(g) /\ g.mode = f.mode /\ g.height = f.height
        /\ g.pc \in {"run", "ended"}
    BY <1>1, <2>2, NextOpFields
  <2>4. t = "reader" => ReaderFrame(n, g)
    BY <1>1, <2>3 DEF ReaderFrame
  <2>5. ASSUME t = "consensus" PROVE ConsensusFrame(n, g)
    <3>1. f.mode = "finalize" /\ f.height = Height(n) + 1 /\ Height(n) < Len(decided)
          /\ Follows(f, b, S)
      BY <1>1, <2>1, <2>5 DEF ConsensusFrame, Frame
    <3>2. b \in Seq(Transaction)
      BY <1>1, <3>1, Heights
    <3>3. FrameOK(e) /\ e.pc = "run" /\ Follows(e, b, S)
      BY <1>1, <2>1, <3>1, <3>2, FollowsOpen
    <3> HIDE DEF e
    <3>4. ConsensusFrame(n, e)
      BY <2>2, <3>1, <3>3 DEF ConsensusFrame
    <3>5. Good(e.ops[1], S)
      BY <1>1, <2>1, <2>2, OpKinds DEF Good
    <3>6. e.pc \in Active
      BY <3>3 DEF Active
    <3> QED BY <1>1, <2>2, <3>3, <3>4, <3>5, <3>6, ConsensusNext
  <2>6. Set(n, t, g)
    BY <1>2, <1>4
  <2> HIDE DEF g
  <2> QED BY <1>2, <2>3, <2>4, <2>5, <2>6, ThreadStep
<1> QED BY <1>3, <1>4

\* A frame goes on to another place of the same operation.
LEMMA MoveOn ==
  ASSUME IndInv, NEW n \in Node, NEW t \in Threads, thread[n][t].pc \in Active,
         thread[n][t].ops[1].kind = "send", NEW q \in {"rebuild", "lookup"}
  PROVE  LET g == [thread[n][t] EXCEPT !.pc = q]
         IN  /\ g \in Frame /\ FrameOK(g) /\ g.pc = q
             /\ t = "consensus" => ConsensusFrame(n, g)
             /\ t = "reader" => ReaderFrame(n, g)
<1> DEFINE f == thread[n][t]
           g == [f EXCEPT !.pc = q]
<1>1. /\ f \in Frame /\ FrameOK(f) /\ f.pc \in Active /\ f.ops # <<>>
      /\ f.ops[1].kind = "send" /\ TypeInv
      /\ t = "consensus" => ConsensusFrame(n, f)
      /\ t = "reader" => ReaderFrame(n, f)
  BY ThreadFacts
<1> HIDE DEF f
<1>2. /\ g \in Frame /\ g.pc = q /\ g.mode = f.mode /\ g.height = f.height /\ g.ops = f.ops
      /\ g.later = f.later /\ g.view = f.view /\ g.base = f.base /\ g.results = f.results
  BY <1>1 DEF Frame, Active
<1> HIDE DEF g
<1>3. FrameOK(g) /\ g.pc \in Active /\ f.pc # "idle"
  BY <1>1, <1>2 DEF FrameOK, Active
<1>4. t = "reader" => ReaderFrame(n, g)
  BY <1>1, <1>2, <1>3 DEF ReaderFrame
<1>5. ASSUME NEW b, NEW S, Follows(f, b, S) PROVE Follows(g, b, S)
  BY <1>1, <1>2, <1>3, <1>5 DEF Follows, Active
<1>6. t = "consensus" => ConsensusFrame(n, g)
  BY <1>1, <1>2, <1>3, <1>5 DEF ConsensusFrame
<1> QED BY <1>2, <1>3, <1>4, <1>6 DEF f, g

\* The first look at the cache, under the read lock.
LEMMA CheckInv ==
  ASSUME IndInv, NEW n \in Node, NEW t \in Threads, Check(n, t)
  PROVE  IndInv'
<1> DEFINE f == thread[n][t]
           q == IF NeedRebuild(cache[n], f.height) THEN "rebuild" ELSE "lookup"
           g == [f EXCEPT !.pc = q]
<1>1. f.pc \in Active /\ f.ops[1].kind = "send" /\ q \in {"rebuild", "lookup"}
  BY ThreadFacts DEF Check, Active
<1>2. Set(n, t, g) /\ UNCHANGED <<decided, store, outcome, cache>>
  BY DEF Check
<1>3. /\ g \in Frame /\ FrameOK(g) /\ g.pc = q
      /\ t = "consensus" => ConsensusFrame(n, g)
      /\ t = "reader" => ReaderFrame(n, g)
  BY <1>1, MoveOn
<1>4. ASSUME t = "consensus", q = "lookup" PROVE cache[n].height = Height(n) + 1
  <2>1. ~NeedRebuild(cache[n], f.height)
    BY <1>4
  <2>2. f.height = Height(n) + 1
    BY <1>1, <1>4, ThreadFacts DEF ConsensusFrame, Active
  <2>3. cache[n].height \in Nat /\ cache[n].height <= Height(n) + 1 /\ Height(n) \in Nat
    BY ThreadFacts, Heights DEF CacheType, CacheFresh
  <2> QED BY <2>1, <2>2, <2>3 DEF NeedRebuild
<1> HIDE DEF g, q
<1> QED BY <1>2, <1>3, <1>4, ThreadStep

\* The decision, under the read lock: a block that moves custom tokens and opens
\* no channel is judged by the channels before it, which are the cache then.
LEMMA LookupInv ==
  ASSUME IndInv, NEW n \in Node, NEW t \in Threads, Lookup(n, t)
  PROVE  IndInv'
<1> DEFINE f == thread[n][t]
           op == f.ops[1]
           A == cache[n].addrs
           S == Committed(n, Height(n))
           b == decided[Height(n) + 1]
<1>1. /\ f \in Frame /\ FrameOK(f) /\ f.pc = "lookup" /\ f.pc \in Active /\ op \in Op
      /\ f.ops # <<>> /\ op.kind = "send" /\ TypeInv
      /\ t = "consensus" => ConsensusFrame(n, f)
      /\ t = "reader" => ReaderFrame(n, f)
  BY ThreadFacts DEF Lookup, Active, FrameOK
<1>2. /\ Set(n, t, IF op.ch \in A THEN EndTx(f, FALSE) ELSE NextOp(f))
      /\ UNCHANGED <<decided, store, outcome, cache>>
  BY <1>1, ThreadFacts DEF Lookup
<1>3. ASSUME t = "consensus", f.mode = "finalize", Unmixed(b)
      PROVE  Good(op, S) <=> op.ch \notin A
  <2>1. Height(n) < Len(decided) /\ Follows(f, b, S)
    BY <1>1, <1>3 DEF ConsensusFrame
  <2>2. b \in Seq(Transaction)
    BY <1>1, <2>1, Heights
  <2>3. Opens(b) = {}
    <3> DEFINE k == Len(f.results)
               p == Len(b[k + 1]) - Len(f.ops)
    <3>1. k + 1 \in DOMAIN b /\ p + 1 \in DOMAIN b[k + 1] /\ b[k + 1][p + 1].kind = "send"
      BY <1>1, <2>1, <2>2, AtOp
    <3> QED BY <1>3, <3>1 DEF Unmixed
  <2>4. cache[n].height = Height(n) + 1
    BY <1>1, <1>3, ThreadFacts DEF CacheFresh
  <2>5. A = S
    BY <2>3, <2>4, ThreadFacts DEF CacheFresh
  <2>6. op # Fail
    BY <1>1, OpKinds
  <2> QED BY <1>1, <2>5, <2>6 DEF Good
<1> HIDE DEF f
<1>4. CASE op.ch \in A
  <2> DEFINE g == EndTx(f, FALSE)
  <2>1. /\ g \in Frame /\ FrameOK(g) /\ g.mode = f.mode /\ g.height = f.height
        /\ g.pc \in {"run", "ended"}
    BY <1>1, EndTxFields
  <2>3. t = "consensus" => ConsensusFrame(n, g)
    BY <1>1, <1>3, <1>4, ConsensusFails
  <2>4. t = "reader" => ReaderFrame(n, g)
    BY <1>1, <2>1 DEF ReaderFrame
  <2>5. Set(n, t, g)
    BY <1>2, <1>4
  <2> HIDE DEF g
  <2> QED BY <1>2, <2>1, <2>3, <2>4, <2>5, ThreadStep
<1>5. CASE op.ch \notin A
  <2> DEFINE g == NextOp(f)
  <2>1. /\ g \in Frame /\ FrameOK(g) /\ g.mode = f.mode /\ g.height = f.height
        /\ g.pc \in {"run", "ended"}
    BY <1>1, NextOpFields
  <2>3. t = "consensus" => ConsensusFrame(n, g)
    BY <1>1, <1>3, <1>5, ConsensusNext
  <2>4. t = "reader" => ReaderFrame(n, g)
    BY <1>1, <2>1 DEF ReaderFrame
  <2>5. Set(n, t, g)
    BY <1>2, <1>5
  <2> HIDE DEF g
  <2> QED BY <1>2, <2>1, <2>3, <2>4, <2>5, ThreadStep
<1> QED BY <1>4, <1>5

\* The rebuild, under the write lock: a cache of the height under way comes from
\* the consensus connection, and a thread of an older height does not replace it.
LEMMA RebuildInv ==
  ASSUME IndInv, NEW n \in Node, NEW t \in Threads, Rebuild(n, t)
  PROVE  IndInv'
<1> DEFINE f == thread[n][t]
           g == [f EXCEPT !.pc = "lookup"]
           c == [nil |-> FALSE, addrs |-> f.view, height |-> f.height]
           S == Committed(n, Height(n))
<1>1. /\ f \in Frame /\ FrameOK(f) /\ f.pc = "rebuild" /\ f.pc \in Active
      /\ f.ops[1].kind = "send" /\ TypeInv
      /\ t = "consensus" => ConsensusFrame(n, f)
      /\ t = "reader" => ReaderFrame(n, f)
  BY ThreadFacts DEF Rebuild, Active, FrameOK
<1>2. /\ g \in Frame /\ FrameOK(g) /\ g.pc = "lookup"
      /\ t = "consensus" => ConsensusFrame(n, g)
      /\ t = "reader" => ReaderFrame(n, g)
  BY <1>1, MoveOn
<1>3. Set(n, t, g) /\ UNCHANGED <<decided, store, outcome>>
  BY DEF Rebuild
<1>4. /\ cache[n].height \in Nat /\ cache[n].height <= Height(n) + 1 /\ Height(n) \in Nat
      /\ f.height \in Nat /\ f.view \in SUBSET Channel /\ f.pc # "idle"
  BY <1>1, ThreadFacts, Heights DEF CacheType, CacheFresh, Frame
<1>5. CASE ~NeedRebuild(cache[n], f.height)
  <2>1. cache' = cache
    BY <1>5 DEF Rebuild
  <2>2. t = "consensus" => cache[n].height = Height(n) + 1
    BY <1>1, <1>4, <1>5 DEF NeedRebuild, ConsensusFrame
  <2> HIDE DEF g
  <2> QED BY <1>2, <1>3, <2>1, <2>2, ThreadStep
<1>6. CASE NeedRebuild(cache[n], f.height)
  <2>0. cache' = [cache EXCEPT ![n] = c]
    BY <1>6 DEF Rebuild
  <2>1. c \in CacheType
    BY <1>4, Zenon DEF CacheType
  <2>2. cache' \in [Node -> CacheType] /\ \A m \in Node : cache'[m] = IF m = n THEN c ELSE cache[m]
    BY <2>0, <2>1 DEF IndInv, TypeInv
  <2>3. c.addrs = f.view /\ c.height = f.height /\ c.nil = FALSE
    OBVIOUS
  <2> HIDE DEF g, c, f
  <2>4. thread' \in [Node -> [Threads -> Frame]]
    BY <1>2, <1>3 DEF IndInv, TypeInv, Set
  <2>5. \A m \in Node, u \in Threads : thread'[m][u] = IF m = n /\ u = t THEN g ELSE thread[m][u]
    BY <1>3 DEF IndInv, TypeInv, Set
  <2>6. \A m \in Node : Height(m)' = Height(m) /\ \A h : Committed(m, h)' = Committed(m, h)
    BY <1>3 DEF Height, Committed
  <2>7. TypeInv'
    <3>1. \A m \in Node, u \in Threads : FrameOK(thread'[m][u])
      BY <1>2, <2>5 DEF IndInv, TypeInv
    <3> QED BY <1>3, <2>2, <2>4, <2>6, <3>1 DEF IndInv, TypeInv
  <2> SUFFICES ASSUME NEW m \in Node
               PROVE  /\ ConsensusFrame(m, thread[m]["consensus"])'
                      /\ ReaderFrame(m, thread[m]["reader"])'
                      /\ CacheFresh(m)' /\ OutcomesGood(m)'
    BY <2>7 DEF IndInv
  <2>8. "consensus" \in Threads /\ "reader" \in Threads /\ t \in {"consensus", "reader"}
    BY DEF Threads
  <2>9. OutcomesGood(m)'
    BY <1>3, Zenon DEF IndInv, OutcomesGood, Height, Committed
  <2>10. ConsensusFrame(m, thread[m]["consensus"])'
    BY <1>2, <1>3, <2>5, <2>6, <2>8 DEF IndInv, ConsensusFrame
  <2>11. ReaderFrame(m, thread[m]["reader"])'
    BY <1>2, <2>5, <2>6, <2>8 DEF IndInv, ReaderFrame
  <2>12. CacheFresh(m)'
    <3>1. CASE m # n
      BY <1>3, <2>2, <2>5, <2>6, <2>8, <3>1 DEF IndInv, CacheFresh
    <3>2. CASE m = n /\ t = "consensus"
      <4>1. /\ f.height = Height(n) + 1
            /\ S \subseteq f.view
            /\ \/ f.view \subseteq S
               \/ Height(n) < Len(decided) /\ f.view \subseteq S \cup Opens(decided[Height(n) + 1])
        BY <1>1, <1>4, <3>2 DEF ConsensusFrame, Follows, Frame
      <4> QED BY <1>3, <1>4, <2>2, <2>3, <2>6, <3>2, <4>1 DEF CacheFresh
    <3>3. CASE m = n /\ t = "reader"
      <4>1. f.height <= Height(n)
        BY <1>1, <1>4, <3>3 DEF ReaderFrame
      <4>2. thread[n]["consensus"].pc # "lookup"
        <5> SUFFICES ASSUME thread[n]["consensus"].pc = "lookup" PROVE FALSE
          OBVIOUS
        <5>1. cache[n].height = Height(n) + 1 /\ (cache[n].nil => cache[n].height = 0)
          BY ThreadFacts DEF CacheFresh
        <5> QED BY <1>4, <1>6, <4>1, <5>1 DEF NeedRebuild
      <4>3. thread'[n]["consensus"] = thread[n]["consensus"]
        BY <2>5, <2>8, <3>3
      <4> QED BY <1>4, <2>2, <2>3, <2>6, <3>3, <4>1, <4>2, <4>3 DEF CacheFresh
    <3> QED BY <2>8, <3>1, <3>2, <3>3
  <2> QED BY <2>9, <2>10, <2>11, <2>12
<1> QED BY <1>5, <1>6

\* A proposal is verified with a transfer of its own.
LEMMA VerifyInv ==
  ASSUME IndInv, NEW n \in Node, NEW c \in Channel \cup {NoChannel}, Verify(n, c)
  PROVE  IndInv'
<1> DEFINE S == Committed(n, Height(n))
           txs == <<<<Send(c)>>>>
           g == Start("verify", Height(n) + 1, S, txs)
<1>0. TypeInv
  BY DEF IndInv
<1>1. Height(n) \in Nat /\ S \in SUBSET Channel
  BY <1>0, Heights
<1>2. <<Send(c)>> \in Transaction /\ Send(c).kind = "send"
  BY DEF Transaction, Op, Send
<1>3. txs \in Seq(Transaction) /\ txs # <<>> /\ Head(txs) = <<Send(c)>> /\ Tail(txs) = <<>>
  BY <1>2
<1>4. /\ g \in Frame /\ FrameOK(g) /\ g.mode = "verify" /\ g.height = Height(n) + 1
      /\ g.view = S /\ g.base = S /\ g.pc = "run" /\ g.ops = <<Send(c)>> /\ g.later = <<>>
  <2>1. Height(n) + 1 \in Nat
    BY <1>1
  <2>2. g \in Frame /\ FrameOK(g)
    <3> HIDE DEF S, txs
    <3> QED BY <1>1, <1>3, <2>1, StartType
  <2>3. /\ g.mode = "verify" /\ g.height = Height(n) + 1
        /\ g.view = S /\ g.base = S /\ g.pc = "run" /\ g.ops = Head(txs) /\ g.later = Tail(txs)
    BY <1>3 DEF Start
  <2> QED BY <1>3, <2>2, <2>3
<1>5. Set(n, "consensus", g) /\ UNCHANGED <<decided, store, outcome, cache>>
  BY DEF Verify
<1> HIDE DEF g
<1>6. ConsensusFrame(n, g)
  <2>1. Len(g.ops) = 1 /\ g.ops[1].kind = "send"
    BY <1>2, <1>4
  <2> QED BY <1>4, <2>1 DEF ConsensusFrame
<1>7. "consensus" \in Threads /\ "consensus" # "reader"
  BY DEF Threads
<1> QED BY <1>4, <1>5, <1>6, <1>7, ThreadStep

\* A decided block starts from the state of the block before.
LEMMA FinalizeInv ==
  ASSUME IndInv, NEW n \in Node, FinalizeBlock(n)
  PROVE  IndInv'
<1> DEFINE S == Committed(n, Height(n))
           b == decided[Height(n) + 1]
           g == Start("finalize", Height(n) + 1, S, b)
<1>0. TypeInv /\ Height(n) < Len(decided)
  BY DEF IndInv, FinalizeBlock
<1>1. Height(n) \in Nat /\ S \in SUBSET Channel /\ b \in Seq(Transaction)
  BY <1>0, Heights
<1>2. /\ g \in Frame /\ FrameOK(g) /\ g.mode = "finalize" /\ g.height = Height(n) + 1
      /\ g.view = S /\ g.base = S /\ g.results = <<>>
      /\ b = <<>> => g.pc = "ended" /\ g.later = <<>>
      /\ b # <<>> => g.pc = "run" /\ g.ops = Head(b) /\ g.later = Tail(b)
  <2>1. Height(n) + 1 \in Nat
    BY <1>1
  <2> HIDE DEF S, b
  <2>2. g \in Frame /\ FrameOK(g)
    BY <1>1, <2>1, StartType
  <2>3. /\ g.mode = "finalize" /\ g.height = Height(n) + 1
        /\ g.view = S /\ g.base = S /\ g.results = <<>>
        /\ b = <<>> => g.pc = "ended" /\ g.later = <<>>
        /\ b # <<>> => g.pc = "run" /\ g.ops = Head(b) /\ g.later = Tail(b)
    BY DEF Start
  <2> QED BY <2>2, <2>3
<1>3. Set(n, "consensus", g) /\ UNCHANGED <<decided, store, outcome, cache>>
  BY DEF FinalizeBlock
<1> HIDE DEF g
<1>4. Len(g.results) = 0
  BY <1>2
<1>5. Follows(g, b, S)
  <2> HIDE DEF b, S
  <2>0. g.view \subseteq S \cup Opens(b) /\ S \subseteq g.base /\ g.base \subseteq g.view
    BY <1>2
  <2>1. CASE b = <<>>
    BY <1>2, <1>4, <2>0, <2>1 DEF Follows, Active
  <2>2. CASE b # <<>>
    <3>1. /\ Head(b) = b[1] /\ Len(Tail(b)) = Len(b) - 1 /\ Len(b) \in Nat \ {0}
          /\ \A i \in 1..Len(Tail(b)) : Tail(b)[i] = b[i + 1] /\ Head(b) \in Transaction
      BY <1>1, <2>2, HeadTailProperties, EmptySeq
    <3>2. Len(b[1]) \in Nat
      BY <3>1, LenProperties DEF Transaction
    <3>3. LET k == Len(g.results)
              tx == b[k + 1]
              p == Len(tx) - Len(g.ops)
          IN  /\ k < Len(b) /\ Len(g.later) = Len(b) - k - 1
              /\ \A i \in 1..Len(g.later) : g.later[i] = b[k + 1 + i]
              /\ p = 0 /\ \A i \in 1..Len(g.ops) : g.ops[i] = tx[0 + i]
      <4>1. g.ops = b[1] /\ g.later = Tail(b)
        BY <1>2, <2>2, <3>1
      <4>2. 0 < Len(b) /\ Len(g.later) = Len(b) - 0 - 1 /\ Len(b[1]) - Len(g.ops) = 0
        BY <3>1, <3>2, <4>1
      <4>3. \A i \in 1..Len(g.later) : g.later[i] = b[0 + 1 + i]
        BY <3>1, <4>1
      <4>4. \A i \in 1..Len(g.ops) : g.ops[i] = b[1][0 + i]
        BY <3>2, <4>1
      <4> QED BY <1>4, <4>2, <4>3, <4>4
    <3>4. LET tx == b[Len(g.results) + 1]
              p == Len(tx) - Len(g.ops)
          IN  p >= 0 /\ (\A i \in 1..Len(g.ops) : g.ops[i] = tx[p + i])
              /\ \A j \in 1..p : Good(tx[j], S)
      <4> DEFINE tx == b[Len(g.results) + 1]
                 p == Len(tx) - Len(g.ops)
      <4>1. p = 0 /\ \A i \in 1..Len(g.ops) : g.ops[i] = tx[0 + i]
        BY <3>3
      <4> HIDE DEF p, tx
      <4>2. p >= 0 /\ (\A i \in 1..Len(g.ops) : g.ops[i] = tx[p + i]) /\ 1..p = {}
        BY <4>1
      <4> QED BY <4>2 DEF p, tx
    <3>5. 1..Len(g.results) = {}
      BY <1>4
    <3> QED BY <1>2, <2>0, <2>2, <3>3, <3>4, <3>5 DEF Follows, Active
  <2> QED BY <2>1, <2>2
<1>6. ConsensusFrame(n, g)
  BY <1>0, <1>2, <1>5 DEF ConsensusFrame
<1>7. "consensus" \in Threads /\ "consensus" # "reader" /\ g.pc # "lookup"
  BY <1>2 DEF Threads
<1> QED BY <1>2, <1>3, <1>6, <1>7, ThreadStep

\* A simulation or a query starts.
LEMMA SimulateInv ==
  ASSUME IndInv, NEW n \in Node, NEW h \in 0..Height(n), NEW tx \in Simulated, Simulate(n, h, tx)
  PROVE  IndInv'
<1> DEFINE g == Start("read", h, Committed(n, h), <<tx>>)
<1>0. TypeInv
  BY DEF IndInv
<1>1. Height(n) \in Nat /\ h \in Nat /\ h <= Height(n) /\ Committed(n, h) \in SUBSET Channel
  BY <1>0, Heights
<1>2. tx \in Transaction /\ <<tx>> \in Seq(Transaction)
  BY EscrowAssumption
<1>3. g \in Frame /\ FrameOK(g) /\ g.mode = "read" /\ g.height = h
  BY <1>1, <1>2, StartType DEF Start
<1>4. Set(n, "reader", g) /\ UNCHANGED <<decided, store, outcome, cache>>
  BY DEF Simulate
<1> HIDE DEF g
<1>5. ReaderFrame(n, g)
  BY <1>1, <1>3 DEF ReaderFrame
<1>6. "reader" \in Threads /\ "consensus" # "reader"
  BY DEF Threads
<1> QED BY <1>3, <1>4, <1>5, <1>6, ThreadStep

\* What a node appends at the end of a block.
LEMMA Appended ==
  ASSUME NEW S, NEW s \in Seq(S), NEW e \in S
  PROVE  Len(Append(s, e)) = Len(s) + 1 /\ Append(s, e) # <<>>
BY AppendProperties

\* A call returns: a finalized block is committed with the results its frame
\* has collected.
LEMMA ReturnInv ==
  ASSUME IndInv, NEW n \in Node, NEW t \in Threads, Return(n, t)
  PROVE  IndInv'
<1> DEFINE f == thread[n][t]
<1>0. "consensus" \in Threads /\ "reader" \in Threads /\ t \in {"consensus", "reader"}
  BY DEF Threads
<1>1. /\ f \in Frame /\ f.pc = "ended" /\ TypeInv /\ Set(n, t, Idle)
      /\ UNCHANGED <<decided, cache>>
      /\ t = "consensus" => ConsensusFrame(n, f)
      /\ t = "reader" => ReaderFrame(n, f)
  BY ThreadFacts DEF Return
<1>2. CASE f.mode # "finalize"
  <2>1. UNCHANGED <<decided, store, outcome, cache>>
    BY <1>1, <1>2 DEF Return
  <2>2. ConsensusFrame(n, Idle) /\ ReaderFrame(n, Idle)
    BY IdleFrame DEF ConsensusFrame, ReaderFrame
  <2>3. Idle \in Frame /\ FrameOK(Idle) /\ Idle.pc # "lookup"
    BY IdleFrame
  <2> QED BY <1>1, <2>1, <2>2, <2>3, ThreadStep
<1>3. CASE f.mode = "finalize"
  <2> DEFINE S == Committed(n, Height(n))
             b == decided[Height(n) + 1]
  <2>1. t = "consensus"
    BY <1>0, <1>1, <1>3 DEF ReaderFrame
  <2>2. Height(n) < Len(decided) /\ Follows(f, b, S)
    BY <1>1, <1>3, <2>1 DEF ConsensusFrame
  <2>3. store' = [store EXCEPT ![n] = Append(@, f.base)]
        /\ outcome' = [outcome EXCEPT ![n] = Append(@, f.results)]
    BY <1>3 DEF Return
  <2>4. f.base \in SUBSET Channel /\ f.results \in Seq(BOOLEAN)
    BY <1>1 DEF Frame
  <2> HIDE DEF f
  <2>5. /\ thread' \in [Node -> [Threads -> Frame]]
        /\ \A m \in Node, u \in Threads :
             thread'[m][u] = IF m = n /\ u = "consensus" THEN Idle ELSE thread[m][u]
    BY <1>1, <2>1, IdleFrame DEF TypeInv, Set
  <2>6. /\ store[n] \in Seq(SUBSET Channel) /\ Height(n) \in Nat /\ Len(store[n]) = Height(n) + 1
        /\ Len(decided) \in Nat /\ outcome[n] \in Seq(Seq(BOOLEAN)) /\ Len(outcome[n]) = Height(n)
    BY <1>1, Heights DEF TypeInv
  <2>7. /\ store'[n] = Append(store[n], f.base) /\ outcome'[n] = Append(outcome[n], f.results)
        /\ \A m \in Node \ {n} : store'[m] = store[m] /\ outcome'[m] = outcome[m]
        /\ store' \in [Node -> Seq(SUBSET Channel)] /\ outcome' \in [Node -> Seq(Seq(BOOLEAN))]
    BY <1>1, <2>3, <2>4, <2>6 DEF TypeInv
  <2>8. /\ Height(n)' = Height(n) + 1 /\ Len(outcome'[n]) = Height(n) + 1 /\ store'[n] # <<>>
        /\ \A h \in 0..Height(n) : Committed(n, h)' = Committed(n, h)
    <3>0. /\ Len(Append(store[n], f.base)) = Len(store[n]) + 1 /\ Append(store[n], f.base) # <<>>
          /\ Len(Append(outcome[n], f.results)) = Len(outcome[n]) + 1
      <4>1. Len(Append(store[n], f.base)) = Len(store[n]) + 1 /\ Append(store[n], f.base) # <<>>
        BY <2>4, <2>6, Appended, Zenon
      <4>2. Len(Append(outcome[n], f.results)) = Len(outcome[n]) + 1
        BY <2>4, <2>6, Appended, Zenon
      <4> QED BY <4>1, <4>2
    <3>1. Len(store'[n]) = Height(n) + 2 /\ Len(outcome'[n]) = Height(n) + 1
      BY <2>6, <2>7, <3>0
    <3>2. store'[n] # <<>>
      BY <2>7, <3>0
    <3>3. ASSUME NEW h \in 0..Height(n) PROVE store'[n][h + 1] = store[n][h + 1]
      <4>1. h + 1 \in 1..Len(store[n])
        BY <2>6
      <4> QED BY <2>4, <2>6, <2>7, <4>1
    <3> QED BY <2>6, <3>1, <3>2, <3>3 DEF Height, Committed
  <2>9. \A m \in Node \ {n} : Height(m)' = Height(m) /\ \A h : Committed(m, h)' = Committed(m, h)
    BY <2>7 DEF Height, Committed
  <2>10. TypeInv'
    <3>1. \A m \in Node, u \in Threads : FrameOK(thread'[m][u])
      BY <1>1, <2>5, IdleFrame DEF TypeInv
    <3>2. ASSUME NEW m \in Node
          PROVE  /\ store'[m] # <<>> /\ Height(m)' <= Len(decided')
                 /\ Len(outcome'[m]) = Height(m)'
      <4>1. CASE m = n
        BY <1>1, <2>2, <2>6, <2>8, <4>1
      <4>2. CASE m # n
        BY <1>1, <2>7, <2>9, <4>2 DEF TypeInv
      <4> QED BY <4>1, <4>2
    <3> QED BY <1>1, <2>5, <2>7, <3>1, <3>2 DEF TypeInv
  <2> SUFFICES ASSUME NEW m \in Node
               PROVE  /\ ConsensusFrame(m, thread[m]["consensus"])'
                      /\ ReaderFrame(m, thread[m]["reader"])'
                      /\ CacheFresh(m)' /\ OutcomesGood(m)'
    BY <2>10 DEF IndInv
  <2>11. CASE m # n
    <3>1. /\ thread'[m]["consensus"] = thread[m]["consensus"]
          /\ thread'[m]["reader"] = thread[m]["reader"] /\ cache' = cache /\ decided' = decided
      BY <1>0, <1>1, <2>5, <2>11
    <3>2. Height(m)' = Height(m) /\ \A h : Committed(m, h)' = Committed(m, h)
      BY <2>9, <2>11
    <3>3. store'[m] = store[m] /\ outcome'[m] = outcome[m]
      BY <2>7, <2>11
    <3>4. OutcomesGood(m)'
      <4> SUFFICES ASSUME NEW h \in (1..Height(m))', Unmixed(decided[h])',
                          NEW i \in (DOMAIN decided[h])'
                   PROVE  (outcome[m][h][i] =
                             IF TxGood(decided[h][i], Committed(m, h - 1)) THEN TRUE ELSE FALSE)'
        BY DEF OutcomesGood
      <4>1. h \in 1..Height(m) /\ Unmixed(decided[h]) /\ i \in DOMAIN decided[h]
        BY <3>1, <3>2
      <4>2. outcome[m][h][i] = IF TxGood(decided[h][i], Committed(m, h - 1)) THEN TRUE ELSE FALSE
        BY <4>1 DEF IndInv, OutcomesGood
      <4>3. Committed(m, h - 1)' = Committed(m, h - 1)
        BY <3>2
      <4> QED BY <3>1, <3>3, <4>2, <4>3
    <3>5. ConsensusFrame(m, thread[m]["consensus"])'
      BY <3>1, <3>2 DEF IndInv, ConsensusFrame
    <3>6. ReaderFrame(m, thread[m]["reader"])' /\ CacheFresh(m)'
      BY <3>1, <3>2 DEF IndInv, ReaderFrame, CacheFresh
    <3> QED BY <3>4, <3>5, <3>6
  <2>12. CASE m = n
    <3>1. thread'[n]["consensus"] = Idle /\ thread'[n]["reader"] = thread[n]["reader"]
      BY <1>0, <2>5
    <3>2. ConsensusFrame(n, thread[n]["consensus"])'
      BY <3>1, IdleFrame DEF ConsensusFrame
    <3>3. ReaderFrame(n, thread[n]["reader"])'
      <4>1. ReaderFrame(n, thread[n]["reader"]) /\ thread[n]["reader"].height \in Nat
        BY <1>0, <1>1 DEF IndInv, TypeInv, Frame
      <4> QED BY <2>6, <2>8, <3>1, <4>1 DEF ReaderFrame
    <3>4. CacheFresh(n)'
      <4>1. /\ cache[n].height \in Nat /\ cache[n].height <= Height(n) + 1
            /\ cache[n].nil => cache[n].height = 0
        BY <1>0, ThreadFacts DEF CacheType, CacheFresh
      <4>2. thread'[n]["consensus"].pc # "lookup"
        BY <3>1, IdleFrame
      <4> QED BY <1>1, <2>6, <2>8, <4>1, <4>2 DEF CacheFresh
    <3>5. OutcomesGood(n)'
      <4> SUFFICES ASSUME NEW h \in 1..Height(n) + 1, Unmixed(decided[h]),
                          NEW i \in DOMAIN decided[h]
                   PROVE  outcome'[n][h][i] =
                            IF TxGood(decided[h][i], Committed(n, h - 1)') THEN TRUE ELSE FALSE
        BY <1>1, <2>8 DEF OutcomesGood
      <4>1. Committed(n, h - 1)' = Committed(n, h - 1)
        <5>1. h - 1 \in 0..Height(n)
          BY <2>6
        <5> QED BY <2>8, <5>1
      <4>2. CASE h \in 1..Height(n)
        <5>1. outcome'[n][h] = outcome[n][h]
          BY <2>4, <2>6, <2>7, <4>2
        <5>2. outcome[n][h][i] = IF TxGood(decided[h][i], Committed(n, h - 1)) THEN TRUE ELSE FALSE
          BY <4>2 DEF IndInv, OutcomesGood
        <5> QED BY <4>1, <5>1, <5>2
      <4>3. CASE h = Height(n) + 1
        <5>1. outcome'[n][h] = f.results
          BY <2>4, <2>6, <2>7, <4>3
        <5>2. decided[h] = b /\ Committed(n, h - 1) = S
          <6>1. h - 1 = Height(n)
            BY <2>6, <4>3
          <6> QED BY <4>3, <6>1
        <5>3. b \in Seq(Transaction)
          BY <1>1, <2>2, Heights
        <5>4. i \in 1..Len(b)
          BY <5>2, <5>3, LenProperties
        <5>5. f.results[i] = IF TxGood(b[i], S) THEN TRUE ELSE FALSE
          BY <1>1, <2>2, <5>2, <5>4 DEF Follows
        <5> QED BY <4>1, <5>1, <5>2, <5>5
      <4>4. h \in 1..Height(n) \/ h = Height(n) + 1
        BY <2>6
      <4> QED BY <4>2, <4>3, <4>4
    <3> QED BY <2>12, <3>2, <3>3, <3>4, <3>5
  <2> QED BY <2>11, <2>12
<1> QED BY <1>2, <1>3

\* The process restarts: an empty cache and idle threads.
LEMMA RestartInv ==
  ASSUME IndInv, NEW n \in Node, Restart(n)
  PROVE  IndInv'
<1> DEFINE idle == [t \in Threads |-> Idle]
<1>0. "consensus" \in Threads /\ "reader" \in Threads
  BY DEF Threads
<1>1. /\ cache' = [cache EXCEPT ![n] = NoCache] /\ thread' = [thread EXCEPT ![n] = idle]
      /\ UNCHANGED <<decided, store, outcome>>
  BY DEF Restart
<1>2. NoCache \in CacheType /\ NoCache.height = 0
  BY Zenon DEF NoCache, CacheType
<1>3. idle \in [Threads -> Frame] /\ \A t \in Threads : idle[t] = Idle
  BY IdleFrame
<1> HIDE DEF idle
<1>4. /\ cache' \in [Node -> CacheType] /\ thread' \in [Node -> [Threads -> Frame]]
      /\ \A m \in Node : cache'[m] = IF m = n THEN NoCache ELSE cache[m]
      /\ \A m \in Node : thread'[m] = IF m = n THEN idle ELSE thread[m]
  BY <1>1, <1>2, <1>3 DEF IndInv, TypeInv
<1>5. \A m \in Node : Height(m)' = Height(m) /\ \A h : Committed(m, h)' = Committed(m, h)
  BY <1>1 DEF Height, Committed
<1>6. TypeInv'
  <2>1. \A m \in Node, u \in Threads : FrameOK(thread'[m][u])
    BY <1>3, <1>4, IdleFrame DEF IndInv, TypeInv
  <2> QED BY <1>1, <1>4, <1>5, <2>1 DEF IndInv, TypeInv
<1> SUFFICES ASSUME NEW m \in Node
             PROVE  /\ ConsensusFrame(m, thread[m]["consensus"])'
                    /\ ReaderFrame(m, thread[m]["reader"])'
                    /\ CacheFresh(m)' /\ OutcomesGood(m)'
  BY <1>6 DEF IndInv
<1>7. OutcomesGood(m)'
  BY <1>1, Zenon DEF IndInv, OutcomesGood, Height, Committed
<1>8. CASE m # n
  <2>1. thread'[m] = thread[m] /\ cache'[m] = cache[m]
    BY <1>4, <1>8
  <2> QED BY <1>1, <1>5, <1>7, <2>1 DEF IndInv, ConsensusFrame, ReaderFrame, CacheFresh
<1>9. CASE m = n
  <2>1. thread'[m]["consensus"] = Idle /\ thread'[m]["reader"] = Idle /\ cache'[m] = NoCache
    BY <1>0, <1>3, <1>4, <1>9
  <2>2. Height(m) \in Nat
    BY Heights DEF IndInv
  <2> QED BY <1>2, <1>5, <1>7, <2>1, <2>2, IdleFrame DEF ConsensusFrame, ReaderFrame, CacheFresh
<1> QED BY <1>8, <1>9

\* Consensus decides another block: those already decided stay.
LEMMA DecideInv ==
  ASSUME IndInv, NEW b \in Blocks, Decide(b)
  PROVE  IndInv'
<1>0. TypeInv /\ decided \in Seq(Seq(Transaction)) /\ Len(decided) \in Nat
      /\ b \in Seq(Transaction)
  BY EscrowAssumption, LenProperties DEF IndInv, TypeInv
<1>1. decided' = Append(decided, b) /\ UNCHANGED <<store, outcome, cache, thread>>
  BY DEF Decide
<1>2. /\ decided' \in Seq(Seq(Transaction)) /\ Len(decided') = Len(decided) + 1
      /\ \A h \in 1..Len(decided) : decided'[h] = decided[h]
  BY <1>0, <1>1
<1>3. \A m \in Node : Height(m)' = Height(m) /\ \A h : Committed(m, h)' = Committed(m, h)
  BY <1>1 DEF Height, Committed
<1>4. \A m \in Node : Height(m) \in Nat /\ Height(m) <= Len(decided)
  BY <1>0, Heights
<1>5. TypeInv'
  BY <1>0, <1>1, <1>2, <1>3, <1>4 DEF TypeInv
<1> SUFFICES ASSUME NEW m \in Node
             PROVE  /\ ConsensusFrame(m, thread[m]["consensus"])'
                    /\ ReaderFrame(m, thread[m]["reader"])'
                    /\ CacheFresh(m)' /\ OutcomesGood(m)'
  BY <1>5 DEF IndInv
<1>6. Height(m) < Len(decided) => /\ Height(m) + 1 \in 1..Len(decided)
                                  /\ decided'[Height(m) + 1] = decided[Height(m) + 1]
                                  /\ Height(m) < Len(decided')
  BY <1>0, <1>2, <1>4
<1>7. /\ ConsensusFrame(m, thread[m]["consensus"]) /\ ReaderFrame(m, thread[m]["reader"])
      /\ CacheFresh(m) /\ OutcomesGood(m)
  BY DEF IndInv
<1>8. ConsensusFrame(m, thread[m]["consensus"])'
  BY <1>1, <1>3, <1>6, <1>7 DEF ConsensusFrame
<1>9. ReaderFrame(m, thread[m]["reader"])' /\ CacheFresh(m)'
  BY <1>1, <1>3, <1>6, <1>7 DEF ReaderFrame, CacheFresh
<1>10. OutcomesGood(m)'
  <2> SUFFICES ASSUME NEW h \in 1..Height(m), Unmixed(decided'[h]), NEW i \in DOMAIN decided'[h]
               PROVE  outcome[m][h][i] =
                        IF TxGood(decided'[h][i], Committed(m, h - 1)) THEN TRUE ELSE FALSE
    BY <1>1, <1>3 DEF OutcomesGood
  <2>1. h \in 1..Len(decided)
    BY <1>0, <1>4
  <2>2. decided'[h] = decided[h]
    BY <1>2, <2>1
  <2> QED BY <1>7, <2>2 DEF OutcomesGood
<1> QED BY <1>8, <1>9, <1>10

-----------------------------------------------------------------------------
(* Results.                                                                *)

\* The inductive invariant holds in every reachable state.
THEOREM Invariance == Spec => []IndInv
<1>1. IndInv /\ [Next]_vars => IndInv'
  <2> SUFFICES ASSUME IndInv, [Next]_vars PROVE IndInv'
    OBVIOUS
  <2>1. ASSUME NEW n \in Node, NEW t \in Threads,
               Other(n, t) \/ Check(n, t) \/ Rebuild(n, t) \/ Lookup(n, t) \/ Return(n, t)
        PROVE  IndInv'
    BY <2>1, OtherInv, CheckInv, RebuildInv, LookupInv, ReturnInv
  <2>2. ASSUME NEW n \in Node, NEW h \in 0..Height(n), NEW tx \in Simulated, Simulate(n, h, tx)
        PROVE  IndInv'
    BY <2>2, SimulateInv
  <2>3. ASSUME NEW n \in Node, NEW c \in Channel \cup {NoChannel}, Verify(n, c) PROVE IndInv'
    BY <2>3, VerifyInv
  <2>4. ASSUME NEW n \in Node, FinalizeBlock(n) \/ Restart(n) PROVE IndInv'
    BY <2>4, FinalizeInv, RestartInv
  <2>5. ASSUME NEW b \in Blocks, Decide(b) PROVE IndInv'
    BY <2>5, DecideInv
  <2>6. CASE UNCHANGED vars
    <3>1. UNCHANGED <<decided, store, outcome, cache, thread>>
      BY <2>6 DEF vars
    <3> QED BY <3>1, Zenon DEF IndInv, TypeInv, ConsensusFrame, ReaderFrame, CacheFresh,
                               OutcomesGood, Height, Committed
  <2> QED BY <2>1, <2>2, <2>3, <2>4, <2>5, <2>6 DEF Next
<1> QED BY InitInv, <1>1, PTL DEF Spec

\* When a finalized transfer is looked up, the cache is the state before the
\* block and at most what the block itself opened, on every node.
THEOREM CacheAlwaysMatches == Spec => []CacheMatchesState
<1>1. IndInv => CacheMatchesState
  <2> SUFFICES ASSUME IndInv, NEW n \in Node, Finalizing(n)
               PROVE  LET S == Committed(n, Height(n))
                      IN  /\ S \subseteq cache[n].addrs
                          /\ cache[n].addrs \subseteq S \cup Opens(decided[Height(n) + 1])
    BY DEF CacheMatchesState
  <2>1. cache[n].height = Height(n) + 1
    BY DEF IndInv, CacheFresh, Finalizing
  <2> QED BY <2>1 DEF IndInv, CacheFresh
<1> QED BY Invariance, <1>1, PTL

\* A node's results for a block that does not mix channel openings and transfers
\* are those the state before the block calls for.
THEOREM AlwaysDecidedByState == Spec => []DecidedByState
<1>1. IndInv => DecidedByState
  <2> SUFFICES ASSUME IndInv, NEW n \in Node, NEW h \in Finalized(n), Unmixed(decided[h]),
                      NEW i \in DOMAIN decided[h]
               PROVE  outcome[n][h][i] = \A j \in DOMAIN decided[h][i] :
                        LET op == decided[h][i][j]
                        IN  op # Fail /\ (op.kind = "send" => op.ch \notin Committed(n, h - 1))
    BY DEF DecidedByState
  <2>1. outcome[n][h][i] = IF TxGood(decided[h][i], Committed(n, h - 1)) THEN TRUE ELSE FALSE
    BY DEF IndInv, OutcomesGood, Finalized
  <2> QED BY <2>1, Zenon DEF TxGood, Good
<1> QED BY Invariance, <1>1, PTL

\* No thread replaces a newer cache, whatever it saw before it got the lock.
THEOREM CacheHeightMonotone == Spec => CacheNeverAges
<1>1. IndInv /\ [Next]_vars =>
        \A n \in Node : cache'[n].height < cache[n].height => cache'[n] = NoCache
  <2> SUFFICES ASSUME IndInv, [Next]_vars, NEW m \in Node,
                      cache'[m].height < cache[m].height
               PROVE  cache'[m] = NoCache
    OBVIOUS
  <2>0. cache \in [Node -> CacheType] /\ thread \in [Node -> [Threads -> Frame]]
        /\ cache[m].height \in Nat /\ (cache[m].nil => cache[m].height = 0)
    BY DEF IndInv, TypeInv, CacheFresh, CacheType
  <2>1. cache' # cache
    BY <2>0
  <2>2. ASSUME NEW n \in Node, NEW t \in Threads, Rebuild(n, t) PROVE FALSE
    <3> DEFINE f == thread[n][t]
    <3>1. cache' = [cache EXCEPT ![n] = [nil |-> FALSE, addrs |-> f.view, height |-> f.height]]
          /\ NeedRebuild(cache[n], f.height)
      BY <2>1, <2>2 DEF Rebuild
    <3>2. m = n /\ cache'[m].height = f.height /\ f.height \in Nat
      BY <2>0, <3>1 DEF Frame
    <3> QED BY <2>0, <3>1, <3>2 DEF NeedRebuild
  <2>3. ASSUME NEW n \in Node, Restart(n) PROVE cache'[m] = NoCache
    BY <2>0, <2>3 DEF Restart
  <2> QED BY <2>1, <2>2, <2>3 DEF Next, vars, Decide, Verify, FinalizeBlock, Simulate, Other, Check,
                                  Lookup, Return
<1> QED BY Invariance, <1>1, PTL DEF Spec, CacheNeverAges

-----------------------------------------------------------------------------
(* MsgScreen.                                                              *)

AnyDenom == Denom \cup {Native}

\* A custom-token transfer that was carried out as it should be.
Move == [denom : AnyDenom, by : {"tx"} \cup Types, known : BOOLEAN, taxed : BOOLEAN]
FairMove == {m \in Move : (m.by = "tx" => m.taxed) /\ (m.by # "tx" => ~m.known)}

\* What the chain-operations decorator found of a transaction in registry r:
\* no transfer of a custom token inside a proposal.
Cleared(tx, r) ==
  \A i \in DOMAIN tx : tx[i].type = "send" /\ Inside(tx, i, Proposals) => tx[i].denom \notin r

\* A kept proposal is one of a transaction that was cleared when it came in.
Kept == {p \in [tx : Txs, at : Nat, seen : SUBSET AnyDenom] :
           /\ p.at \in DOMAIN p.tx /\ p.tx[p.at].type \in Proposals
           /\ Cleared(p.tx, p.seen)}

\* The inductive invariant.
ScreenInv ==
  /\ tokens \in SUBSET AnyDenom /\ stored \in SUBSET Kept /\ moved \in SUBSET FairMove
  /\ "tx" \notin delegated

\* The states that running messages goes through.
RunState == [tokens : SUBSET AnyDenom, stored : SUBSET Kept, moved : SUBSET FairMove,
             ok : BOOLEAN]

\* A transaction's own messages, or those of a proposal it left behind.
Runs(tx, p, by, r) ==
  /\ tx \in Txs /\ r \in SUBSET AnyDenom /\ Cleared(tx, r)
  /\ \/ p = 0 /\ by = "tx" /\ ~TaxFails(tx)
     \/ p \in DOMAIN tx /\ p # 0 /\ by = tx[p].type /\ by \in Proposals

-----------------------------------------------------------------------------
(* Walks over a message tree.                                              *)

\* A recursion that gives each message a value in V from the value of the
\* message around it, and its solutions.
Recursion(n, par, V, base, H) ==
  /\ n \in Nat /\ par \in [1 .. n -> Nat] /\ \A k \in 1 .. n : par[k] < k
  /\ base \in V /\ \A k \in 1 .. n, v \in V : H[<<k, v>>] \in V
Solves(g, n, par, V, base, H) ==
  /\ g \in [0 .. n -> V] /\ g[0] = base
  /\ \A k \in 1 .. n : g[k] = H[<<k, g[par[k]]>>]

\* Such a recursion has a solution.
LEMMA ParentRecursion ==
  ASSUME NEW n, NEW par, NEW V, NEW base, NEW H, Recursion(n, par, V, base, H)
  PROVE  \E g : Solves(g, n, par, V, base, H)
<1> USE DEF Recursion
<1> DEFINE Partial(m, g) == Solves(g, m, par, V, base, H)
           K == {m \in Nat : m <= n => \E g : Partial(m, g)}
<1> USE DEF Solves
<1>1. 0 \in K
  <2>1. Partial(0, [k \in 0 .. 0 |-> base])
    OBVIOUS
  <2> QED BY <2>1
<1>2. ASSUME NEW m \in Nat, m \in K PROVE m + 1 \in K
  <2> SUFFICES ASSUME m + 1 <= n PROVE \E g : Partial(m + 1, g)
    OBVIOUS
  <2>1. PICK g : Partial(m, g)
    BY <1>2
  <2> DEFINE x == m + 1
             h == [k \in 0 .. x |-> IF k = x THEN H[<<x, g[par[x]]>>] ELSE g[k]]
  <2>2. x \in 1 .. n /\ par[x] \in 0 .. m
    OBVIOUS
  <2>3. H[<<x, g[par[x]]>>] \in V
    BY <2>1, <2>2
  <2>4. h \in [0 .. x -> V] /\ h[0] = base
    BY <2>1, <2>3
  <2>5. ASSUME NEW k \in 1 .. x PROVE h[k] = H[<<k, h[par[k]]>>]
    <3>1. par[k] \in 0 .. m /\ h[par[k]] = g[par[k]]
      BY <2>2
    <3>2. CASE k = x
      <4>1. h[x] = H[<<x, g[par[x]]>>]
        OBVIOUS
      <4> HIDE DEF h, x
      <4> QED BY <3>1, <3>2, <4>1
    <3>3. CASE k # x
      <4>1. k \in 1 .. m /\ h[k] = g[k]
        BY <3>3
      <4> QED BY <2>1, <3>1, <4>1
    <3> QED BY <3>2, <3>3
  <2> HIDE DEF h
  <2> QED BY <2>4, <2>5
<1>3. Nat \subseteq K
  <2> HIDE DEF K
  <2> QED BY <1>1, <1>2, NatSetInduction
<1> QED BY <1>3

\* A message follows the one around it.
LEMMA Parents ==
  ASSUME NEW tx \in Txs
  PROVE  /\ tx \in Seq(Msg) /\ Len(tx) \in Nat /\ DOMAIN tx = 1 .. Len(tx)
         /\ \A i \in 1 .. Len(tx) :
              tx[i].parent \in Nat /\ tx[i].parent < i /\ tx[i].parent \in 0 .. Len(tx)
<1>1. tx \in Seq(Msg) /\ WellFormed(tx)
  BY ScreenAssumption
<1>2. \A i \in 1 .. Len(tx) : tx[i] \in Msg
  BY <1>1
<1> QED BY <1>1, <1>2 DEF Msg, WellFormed

\* The messages around a message are those around the one that wraps it, and
\* that one.
LEMMA PathSteps ==
  ASSUME NEW tx \in Txs
  PROVE  /\ Path(tx, 0) = {}
         /\ \A i \in 1 .. Len(tx) : Path(tx, i) = {i} \cup Path(tx, tx[i].parent)
<1> DEFINE n == Len(tx)
           par == [k \in 1 .. n |-> tx[k].parent]
           V == SUBSET Nat
           H == [q \in (1 .. n) \X V |-> {q[1]} \cup q[2]]
           Iter(it) == it = [k \in 0 .. n |-> IF k = 0 THEN {} ELSE {k} \cup it[tx[k].parent]]
           up == CHOOSE it : Iter(it)
<1>1. /\ n \in Nat /\ par \in [1 .. n -> Nat] /\ \A k \in 1 .. n : par[k] < k
      /\ \A k \in 1 .. n : par[k] = tx[k].parent
  BY Parents
<1>2. \A k \in 1 .. n, v \in V : H[<<k, v>>] = {k} \cup v
  OBVIOUS
<1>a. \A k \in 1 .. n, v \in V : {k} \cup v \in V
  BY <1>1
<1> HIDE DEF H, par
<1>3. PICK g : Solves(g, n, par, V, {}, H)
  <2>1. {} \in V /\ \A k \in 1 .. n, v \in V : H[<<k, v>>] \in V
    <3>1. {} \in V
      OBVIOUS
    <3> HIDE DEF V
    <3> QED BY <1>2, <1>a, <3>1
  <2> HIDE DEF V, n
  <2>2. Recursion(n, par, V, {}, H)
    BY <1>1, <2>1 DEF Recursion
  <2> QED BY <2>2, ParentRecursion
<1>4. Iter(g)
  <2>1. ASSUME NEW k \in 0 .. n PROVE g[k] = IF k = 0 THEN {} ELSE {k} \cup g[tx[k].parent]
    <3>1. CASE k = 0
      BY <1>3, <3>1 DEF Solves
    <3>2. CASE k # 0
      <4>1. k \in 1 .. n /\ par[k] = tx[k].parent /\ par[k] \in 0 .. n
        BY <1>1, <3>2
      <4>2. g[par[k]] \in V
        BY <1>3, <4>1 DEF Solves
      <4> QED BY <1>2, <1>3, <3>2, <4>1, <4>2 DEF Solves
    <3> QED BY <3>1, <3>2
  <2>2. g = [k \in 0 .. n |-> g[k]]
    BY <1>3 DEF Solves
  <2> QED BY <2>1, <2>2
<1>5. Iter(up)
  <2> HIDE DEF Iter
  <2> QED BY <1>4
<1>6. \A i : Path(tx, i) = up[i]
  BY DEF Path
<1> HIDE DEF up
<1>7. \A k \in 0 .. n : up[k] = IF k = 0 THEN {} ELSE {k} \cup up[tx[k].parent]
  BY <1>5
<1>8. Path(tx, 0) = {}
  <2>1. 0 \in 0 .. n
    BY <1>1
  <2>2. up[0] = {}
    BY <1>7, <2>1
  <2> QED BY <1>6, <2>2, Zenon
<1>9. ASSUME NEW i \in 1 .. n PROVE Path(tx, i) = {i} \cup Path(tx, tx[i].parent)
  <2>1. i \in 0 .. n /\ i # 0
    BY <1>1
  <2>2. up[i] = {i} \cup up[tx[i].parent]
    BY <1>7, <2>1
  <2> QED BY <1>6, <2>2, Zenon
<1> QED BY <1>8, <1>9

\* A walk meets a message if it is at the top, or inside one the walk meets and
\* goes into.
LEMMA MetSteps ==
  ASSUME NEW tx \in Txs, NEW into
  PROVE  \A i \in 1 .. Len(tx) :
           i \in Met(tx, into) <=> \/ tx[i].parent = 0
                                   \/ tx[i].parent \in Met(tx, into) /\ tx[i].parent \in into
<1> DEFINE n == Len(tx)
           par == [k \in 1 .. n |-> tx[k].parent]
           Enters(k) == tx[k].parent = 0 \/ tx[k].parent \in into
           H == [q \in (1 .. n) \X BOOLEAN |-> q[2] /\ Enters(q[1])]
           Iter(it) == it = [k \in 0 .. n |-> k = 0 \/ (it[tx[k].parent] /\ Enters(k))]
           met == CHOOSE it : Iter(it)
<1>1. /\ n \in Nat /\ par \in [1 .. n -> Nat] /\ \A k \in 1 .. n : par[k] < k
      /\ \A k \in 1 .. n : par[k] = tx[k].parent
  BY Parents
<1>2. \A k \in 1 .. n, v \in BOOLEAN : H[<<k, v>>] = (v /\ Enters(k))
  <2> HIDE DEF Enters
  <2> QED OBVIOUS
<1>a. \A k \in 1 .. n, v \in BOOLEAN : H[<<k, v>>] \in BOOLEAN
  BY <1>2
<1> HIDE DEF H, par
<1>3. PICK g : Solves(g, n, par, BOOLEAN, TRUE, H)
  <2> HIDE DEF n
  <2>1. Recursion(n, par, BOOLEAN, TRUE, H)
    BY <1>1, <1>a DEF Recursion
  <2> QED BY <2>1, ParentRecursion
<1>4. Iter(g)
  <2>1. ASSUME NEW k \in 0 .. n PROVE g[k] = (k = 0 \/ (g[tx[k].parent] /\ Enters(k)))
    <3>1. CASE k = 0
      BY <1>3, <3>1 DEF Solves
    <3>2. CASE k # 0
      <4>1. k \in 1 .. n /\ par[k] = tx[k].parent /\ par[k] \in 0 .. n
        BY <1>1, <3>2
      <4>2. g[par[k]] \in BOOLEAN
        BY <1>3, <4>1 DEF Solves
      <4> HIDE DEF Enters
      <4> QED BY <1>2, <1>3, <3>2, <4>1, <4>2 DEF Solves
    <3> QED BY <3>1, <3>2
  <2> HIDE DEF Enters
  <2>2. g = [k \in 0 .. n |-> g[k]]
    BY <1>3 DEF Solves
  <2> QED BY <2>1, <2>2
<1>5. Iter(met)
  <2> HIDE DEF Iter
  <2> QED BY <1>4
<1>6. Met(tx, into) = {i \in DOMAIN tx : met[i]}
  BY DEF Met
<1> HIDE DEF met
<1>7. \A k \in 0 .. n : met[k] = (k = 0 \/ (met[tx[k].parent] /\ Enters(k)))
  <2> HIDE DEF Enters
  <2> QED BY <1>5
<1>8. ASSUME NEW i \in 1 .. n
      PROVE  i \in Met(tx, into) <=> \/ tx[i].parent = 0
                                     \/ tx[i].parent \in Met(tx, into) /\ tx[i].parent \in into
  <2>1. i # 0 /\ i \in 0 .. n /\ tx[i].parent \in 0 .. n /\ DOMAIN tx = 1 .. n
    BY Parents
  <2>2. met[0]
    <3>1. 0 \in 0 .. n
      BY <1>1
    <3>2. met[0] = TRUE
      BY <1>7, <3>1, Zenon
    <3> QED BY <3>2
  <2>3. i \in Met(tx, into) <=> met[tx[i].parent] /\ Enters(i)
    <3> HIDE DEF Enters
    <3> QED BY <1>6, <1>7, <2>1
  <2>4. tx[i].parent # 0 => (tx[i].parent \in Met(tx, into) <=> met[tx[i].parent])
    BY <1>6, <2>1
  <2>5. CASE tx[i].parent = 0
    BY <2>2, <2>3, <2>5
  <2>6. CASE tx[i].parent # 0
    <3>1. Enters(i) <=> tx[i].parent \in into
      BY <2>6
    <3> HIDE DEF Enters
    <3> QED BY <2>3, <2>4, <2>6, <3>1
  <2> QED BY <2>5, <2>6
<1> QED BY <1>8

\* A walk that goes into every wrapper of the kinds W it meets meets whatever
\* has nothing but such wrappers around it.
LEMMA MeetsAll ==
  ASSUME NEW tx \in Txs, NEW into, NEW W,
         \A i \in Met(tx, into) : tx[i].type \in W => i \in into
  PROVE  \A i \in DOMAIN tx : (\A k \in Around(tx, i) : tx[k].type \in W) => i \in Met(tx, into)
<1> DEFINE Reached(i) == (\A k \in Around(tx, i) : tx[k].type \in W) => i \in Met(tx, into)
           K == {m \in Nat : \A i \in 1 .. Len(tx) : i <= m => Reached(i) /\ Path(tx, i) \subseteq 1 .. i}
<1>0. /\ Len(tx) \in Nat /\ DOMAIN tx = 1 .. Len(tx)
      /\ \A i \in 1 .. Len(tx) : tx[i].parent \in Nat /\ tx[i].parent < i
  BY Parents
<1>1. 0 \in K
  BY <1>0
<1>2. ASSUME NEW m \in Nat, m \in K PROVE m + 1 \in K
  <2> SUFFICES ASSUME NEW i \in 1 .. Len(tx), i = m + 1
               PROVE  Reached(i) /\ Path(tx, i) \subseteq 1 .. i
    BY <1>0, <1>2
  <2> DEFINE p == tx[i].parent
  <2>1. p \in Nat /\ p <= m /\ (p # 0 => p \in 1 .. Len(tx))
    BY <1>0
  <2>2. Path(tx, i) = {i} \cup Path(tx, p)
    BY PathSteps
  <2>3. Path(tx, p) \subseteq 1 .. p
    <3>1. CASE p = 0
      BY <3>1, PathSteps
    <3>2. CASE p # 0
      BY <1>2, <2>1, <3>2
    <3> QED BY <3>1, <3>2
  <2>4. Path(tx, i) \subseteq 1 .. i /\ Around(tx, i) = Path(tx, p)
    BY <2>1, <2>2, <2>3 DEF Around
  <2>5. CASE p = 0
    BY <2>4, <2>5, MetSteps
  <2>6. ASSUME p # 0, \A k \in Around(tx, i) : tx[k].type \in W PROVE i \in Met(tx, into)
    <3>1. Path(tx, p) = {p} \cup Path(tx, tx[p].parent)
      BY <2>1, <2>6, PathSteps
    <3>2. p \in Around(tx, i) /\ Around(tx, p) \subseteq Around(tx, i)
      BY <2>4, <3>1 DEF Around
    <3>3. p \in Met(tx, into)
      <4>1. Reached(p)
        BY <1>2, <2>1, <2>6
      <4> QED BY <2>6, <3>2, <4>1
    <3> QED BY <2>6, <3>2, <3>3, MetSteps
  <2> QED BY <2>4, <2>5, <2>6
<1>3. Nat \subseteq K
  <2> HIDE DEF K
  <2> QED BY <1>1, <1>2, NatSetInduction
<1>4. ASSUME NEW i \in DOMAIN tx PROVE Reached(i)
  <2>1. i \in 1 .. Len(tx) /\ i \in K /\ i <= i
    BY <1>0, <1>3
  <2> HIDE DEF Reached
  <2> QED BY <2>1
<1> QED BY <1>4

\* Only wrappers lie around a message, and they come before it.
LEMMA AroundWraps ==
  ASSUME NEW tx \in Txs
  PROVE  \A i \in DOMAIN tx : /\ Path(tx, i) \subseteq 1 .. i
                              /\ \A k \in Around(tx, i) : tx[k].type \in Wrappers
<1> DEFINE Fine(i) == /\ Path(tx, i) \subseteq 1 .. i
                      /\ \A k \in Path(tx, i) : k # i => tx[k].type \in Wrappers
           K == {m \in Nat : \A i \in 1 .. Len(tx) : i <= m => Fine(i)}
<1>0. /\ Len(tx) \in Nat /\ DOMAIN tx = 1 .. Len(tx)
      /\ \A i \in 1 .. Len(tx) : /\ tx[i].parent \in Nat /\ tx[i].parent < i
                                 /\ tx[i].parent # 0 => tx[tx[i].parent].type \in Wrappers
  BY Parents, ScreenAssumption DEF WellFormed
<1>1. 0 \in K
  BY <1>0
<1>2. ASSUME NEW m \in Nat, m \in K PROVE m + 1 \in K
  <2> SUFFICES ASSUME NEW i \in 1 .. Len(tx), i = m + 1 PROVE Fine(i)
    BY <1>0, <1>2
  <2> DEFINE p == tx[i].parent
  <2>1. p \in Nat /\ p <= m /\ (p # 0 => p \in 1 .. Len(tx))
    BY <1>0
  <2>a. p # 0 => tx[p].type \in Wrappers
    BY <1>0, Zenon
  <2>2. Path(tx, i) = {i} \cup Path(tx, p)
    BY PathSteps
  <2>3. CASE p = 0
    BY <2>2, <2>3, PathSteps
  <2>4. CASE p # 0
    BY <1>2, <2>1, <2>a, <2>2, <2>4
  <2> QED BY <2>3, <2>4
<1>3. Nat \subseteq K
  <2> HIDE DEF K
  <2> QED BY <1>1, <1>2, NatSetInduction
<1>4. \A i \in DOMAIN tx : Fine(i)
  BY <1>0, <1>3
<1> QED BY <1>4 DEF Around

\* A depth is a number of messages.
LEMMA DepthNat ==
  ASSUME NEW tx \in Txs, NEW i \in DOMAIN tx
  PROVE  Depth(tx, i) \in Int
<1>1. i \in Nat /\ Path(tx, i) \subseteq 1 .. i
  BY Parents, AroundWraps
<1>2. IsFiniteSet(Path(tx, i))
  <2>1. IsFiniteSet(1 .. i)
    BY <1>1, FS_Interval
  <2> QED BY <1>1, <2>1, FS_Subset
<1> QED BY <1>2, FS_CardinalityType DEF Depth

\* Whatever authz runs for a transaction, the tax walk meets or fails.
LEMMA TaxMeets ==
  ASSUME NEW tx \in Txs, ~TaxFails(tx)
  PROVE  RunsWith(tx, 0) \subseteq Met(tx, TaxInto(tx))
<1>1. ASSUME NEW i \in Met(tx, TaxInto(tx)), tx[i].type \in {"exec"} PROVE i \in TaxInto(tx)
  <2>1. i \in DOMAIN tx
    BY DEF Met
  <2>2. ~(Depth(tx, i) >= MaxAuthzUnwrapDepth)
    BY <1>1 DEF TaxFails
  <2>3. Depth(tx, i) < MaxAuthzUnwrapDepth
    BY <2>1, <2>2, DepthNat, ScreenAssumption
  <2> QED BY <1>1, <2>1, <2>3 DEF TaxInto
<1>2. ASSUME NEW i \in RunsWith(tx, 0)
      PROVE  i \in DOMAIN tx /\ \A k \in Around(tx, i) : tx[k].type \in {"exec"}
  BY DEF RunsWith
<1>3. \A i \in DOMAIN tx :
        (\A k \in Around(tx, i) : tx[k].type \in {"exec"}) => i \in Met(tx, TaxInto(tx))
  BY <1>1, MeetsAll
<1> QED BY <1>2, <1>3

\* The limiter's walk meets all of it too, or refuses the transaction.
LEMMA LimiterMeets ==
  ASSUME NEW tx \in Txs, AuthzLimiter(tx)
  PROVE  RunsWith(tx, 0) \subseteq Met(tx, LimiterInto(tx))
<1>1. ASSUME NEW i \in Met(tx, LimiterInto(tx)), tx[i].type \in {"exec"} PROVE i \in LimiterInto(tx)
  <2>1. i \in DOMAIN tx
    BY DEF Met
  <2> QED BY <1>1, <2>1 DEF AuthzLimiter, LimiterInto
<1>2. ASSUME NEW i \in RunsWith(tx, 0)
      PROVE  i \in DOMAIN tx /\ \A k \in Around(tx, i) : tx[k].type \in {"exec"}
  BY DEF RunsWith
<1>3. \A i \in DOMAIN tx :
        (\A k \in Around(tx, i) : tx[k].type \in {"exec"}) => i \in Met(tx, LimiterInto(tx))
  BY <1>1, MeetsAll
<1> QED BY <1>2, <1>3

\* The chain-operations walk meets every message of a transaction it passes.
LEMMA ChainOpsMeets ==
  ASSUME NEW tx \in Txs, ChainOpsRestriction(tx)
  PROVE  DOMAIN tx \subseteq Met(tx, UnwrapInto(tx))
<1>1. ASSUME NEW i \in Met(tx, UnwrapInto(tx)), tx[i].type \in Wrappers PROVE i \in UnwrapInto(tx)
  <2>1. i \in DOMAIN tx
    BY DEF Met
  <2> QED BY <1>1, <2>1 DEF ChainOpsRestriction, Unwrappable, UnwrapInto
<1>2. ASSUME NEW i \in DOMAIN tx, NEW k \in Around(tx, i) PROVE tx[k].type \in Wrappers
  BY <1>2, AroundWraps
<1> QED BY <1>1, <1>2, MeetsAll

-----------------------------------------------------------------------------
(* One message.                                                            *)

\* A message has a type and a denomination.
LEMMA MsgFields ==
  ASSUME NEW tx \in Txs, NEW i \in DOMAIN tx
  PROVE  i \in Nat /\ tx[i].type \in Types /\ tx[i].denom \in AnyDenom
<1>1. tx \in Seq(Msg)
  BY ScreenAssumption
<1>2. tx[i] \in Msg /\ i \in Nat
  BY <1>1
<1> QED BY <1>2 DEF Msg, AnyDenom

\* A transfer that runs is a fair one: run by the transaction itself it is
\* among those the tax PostHandler walks, and run by a proposal it lies inside
\* that proposal, where the decorator looked.
LEMMA MovesFairly ==
  ASSUME NEW tx, NEW p, NEW by, NEW r, Runs(tx, p, by, r),
         NEW i \in RunsWith(tx, p), tx[i].type = "send"
  PROVE  [denom |-> tx[i].denom, by |-> by, known |-> tx[i].denom \in r,
          taxed |-> by = "tx" /\ i \in Taxed(tx)] \in FairMove
<1> DEFINE m == [denom |-> tx[i].denom, by |-> by, known |-> tx[i].denom \in r,
                 taxed |-> by = "tx" /\ i \in Taxed(tx)]
<1>1. tx \in Txs /\ i \in DOMAIN tx
  BY DEF Runs, RunsWith
<1>2. tx[i].denom \in AnyDenom
  BY <1>1, MsgFields
<1>3. by \in {"tx"} \cup Types
  BY DEF Runs, Types, Wrappers, Proposals
<1>4. m \in Move
  <2> DEFINE d == tx[i].denom
             known == d \in r
             taxed == by = "tx" /\ i \in Taxed(tx)
  <2>1. d \in AnyDenom /\ known \in BOOLEAN /\ taxed \in BOOLEAN
    BY <1>2
  <2>2. m = [denom |-> d, by |-> by, known |-> known, taxed |-> taxed]
    OBVIOUS
  <2> HIDE DEF d, known, taxed, m
  <2> QED BY <1>3, <2>1, <2>2, Zenon DEF Move
<1>5. CASE p = 0 /\ by = "tx" /\ ~TaxFails(tx)
  <2>1. i \in Taxed(tx)
    BY <1>1, <1>5, TaxMeets DEF Taxed
  <2>2. m.by = "tx" /\ m.taxed
    BY <1>5, <2>1
  <2> QED BY <1>4, <2>2 DEF FairMove
<1>6. CASE p # 0 /\ by = tx[p].type /\ by \in Proposals
  <2>1. p \in Around(tx, i)
    BY <1>6 DEF RunsWith
  <2>2. Inside(tx, i, Proposals)
    BY <1>6, <2>1 DEF Inside
  <2>3. tx[i].denom \notin r
    BY <1>1, <2>2 DEF Runs, Cleared
  <2>4. by # "tx"
    BY <1>6 DEF Proposals
  <2>5. m.by # "tx" /\ ~m.known
    BY <2>3, <2>4
  <2> QED BY <1>4, <2>5 DEF FairMove
<1> QED BY <1>5, <1>6 DEF Runs

\* A proposal that is kept was cleared with the transaction it came in.
LEMMA KeepsCleared ==
  ASSUME NEW tx, NEW p, NEW by, NEW r, Runs(tx, p, by, r),
         NEW i \in DOMAIN tx, tx[i].type \in Proposals
  PROVE  [tx |-> tx, at |-> i, seen |-> r] \in Kept
<1>1. tx \in Txs /\ r \in SUBSET AnyDenom /\ Cleared(tx, r)
  BY DEF Runs
<1>2. i \in Nat
  BY <1>1, MsgFields
<1> QED BY <1>1, <1>2 DEF Kept

\* Running one message keeps the states sound.
LEMMA StepSound ==
  ASSUME NEW tx, NEW p, NEW by, NEW r, Runs(tx, p, by, r),
         NEW i \in RunsWith(tx, p), NEW st \in RunState
  PROVE  Step(st, tx, i, by, r) \in RunState
<1>1. tx \in Txs /\ i \in DOMAIN tx
  BY DEF Runs, RunsWith
<1>2. tx[i].denom \in AnyDenom
  BY <1>1, MsgFields
<1> DEFINE m == [denom |-> tx[i].denom, by |-> by, known |-> tx[i].denom \in r,
                 taxed |-> by = "tx" /\ i \in Taxed(tx)]
           k == [tx |-> tx, at |-> i, seen |-> r]
<1>3. /\ st.tokens \in SUBSET AnyDenom /\ st.stored \in SUBSET Kept
      /\ st.moved \in SUBSET FairMove /\ st.ok \in BOOLEAN
  BY DEF RunState
<1>4. \/ Step(st, tx, i, by, r) = [st EXCEPT !.tokens = @ \cup {tx[i].denom}]
      \/ tx[i].type = "send" /\ Step(st, tx, i, by, r) = [st EXCEPT !.moved = @ \cup {m}]
      \/ Step(st, tx, i, by, r) = [st EXCEPT !.ok = FALSE]
      \/ tx[i].type \in Proposals /\ Step(st, tx, i, by, r) = [st EXCEPT !.stored = @ \cup {k}]
      \/ Step(st, tx, i, by, r) = st
  BY DEF Step
<1>5. tx[i].type = "send" => m \in FairMove
  BY MovesFairly
<1>6. tx[i].type \in Proposals => k \in Kept
  BY <1>1, KeepsCleared
<1> DEFINE next == Step(st, tx, i, by, r)
<1> HIDE DEF m, k, next
<1>7. CASE next = [st EXCEPT !.tokens = @ \cup {tx[i].denom}]
  <2>1. st.tokens \cup {tx[i].denom} \in SUBSET AnyDenom
    BY <1>2, <1>3
  <2> QED BY <1>7, <2>1 DEF RunState, next
<1>8. CASE tx[i].type = "send" /\ next = [st EXCEPT !.moved = @ \cup {m}]
  <2>1. st.moved \cup {m} \in SUBSET FairMove
    BY <1>3, <1>5, <1>8
  <2> QED BY <1>8, <2>1 DEF RunState, next
<1>9. CASE next = [st EXCEPT !.ok = FALSE]
  BY <1>9 DEF RunState, next
<1>10. CASE tx[i].type \in Proposals /\ next = [st EXCEPT !.stored = @ \cup {k}]
  <2>1. st.stored \cup {k} \in SUBSET Kept
    BY <1>3, <1>6, <1>10
  <2> QED BY <1>10, <2>1 DEF RunState, next
<1>11. CASE next = st
  BY <1>11 DEF next
<1> QED BY <1>4, <1>7, <1>8, <1>9, <1>10, <1>11 DEF next

-----------------------------------------------------------------------------
(* All messages.                                                           *)

\* One turn of Run: messages that do not belong to it, or come after a failure,
\* are passed over.
Turn(st, tx, p, by, r, i) ==
  IF st.ok /\ i \in RunsWith(tx, p) THEN Step(st, tx, i, by, r) ELSE st

RunStart == [tokens |-> tokens, stored |-> stored, moved |-> moved, ok |-> TRUE]

\* A turn keeps the states sound.
LEMMA TurnSound ==
  ASSUME NEW tx, NEW p, NEW by, NEW r, Runs(tx, p, by, r), NEW i, NEW st \in RunState
  PROVE  Turn(st, tx, p, by, r, i) \in RunState
<1>1. CASE st.ok /\ i \in RunsWith(tx, p)
  BY <1>1, StepSound DEF Turn
<1>2. CASE ~(st.ok /\ i \in RunsWith(tx, p))
  BY <1>2 DEF Turn
<1> QED BY <1>1, <1>2

\* The recursion of Run's fold.
Running(f, tx, p, by, r) ==
  \A s \in SUBSET (1 .. Len(tx)) :
    f[s] = IF s = {} THEN RunStart ELSE Turn(f[s \ {Max(s)}], tx, p, by, r, Max(s))

\* Its values are sound states.
LEMMA RunningSound ==
  ASSUME ScreenInv, NEW tx \in Seq(Msg), NEW p, NEW by, NEW r, Runs(tx, p, by, r),
         NEW f, Running(f, tx, p, by, r)
  PROVE  \A s \in SUBSET (1 .. Len(tx)) : f[s] \in RunState
<1> DEFINE I == 1 .. Len(tx)
           K == {s \in SUBSET I : f[s] \in RunState}
<1>1. IsFiniteSet(I) /\ Len(tx) \in Nat
  BY FS_Interval
<1>2. RunStart \in RunState
  BY DEF RunStart, RunState, ScreenInv
<1>3. ASSUME NEW s \in SUBSET I, \A x \in s : s \ {x} \in K PROVE s \in K
  <2>1. CASE s = {}
    BY <1>2, <2>1 DEF Running
  <2>2. CASE s # {}
    <3> DEFINE x == Max(s)
    <3>1. x \in s
      BY <1>1, <2>2, MaxIndex
    <3>2. f[s] = Turn(f[s \ {x}], tx, p, by, r, x)
      BY <2>2 DEF Running
    <3> HIDE DEF x
    <3>3. f[s \ {x}] \in RunState
      BY <1>3, <3>1
    <3> QED BY <3>2, <3>3, TurnSound
  <2> QED BY <2>1, <2>2
<1>4. SUBSET I \subseteq K
  <2> HIDE DEF K, I
  <2> QED BY <1>1, <1>3, SubsetInduction
<1> QED BY <1>4

\* Run ends in a sound state, the proposal it ran taken out of it.
LEMMA RunSound ==
  ASSUME ScreenInv, NEW tx, NEW p, NEW by, NEW r, Runs(tx, p, by, r)
  PROVE  Run(tx, p, by, r) \in RunState
<1> DEFINE n == Len(tx)
           I == 1 .. n
           F == [q \in I \X RunState |-> Turn(q[2], tx, p, by, r, q[1])]
           ids == [i \in 1 .. n |-> i]
           Rec(g, s) == IF s = {} THEN RunStart
                        ELSE LET x == Max(s) IN Turn(g[s \ {x}], tx, p, by, r, ids[x])
           Iter(it) == it = [s \in SUBSET I |-> Rec(it, s)]
           fold == CHOOSE it : Iter(it)
<1>1. tx \in Seq(Msg)
  BY ScreenAssumption DEF Runs
<1>2. n \in Nat
  BY <1>1
<1>3. F \in [I \X RunState -> RunState]
  BY TurnSound
<1>4. \A k \in I, x \in RunState : F[<<k, x>>] = Turn(x, tx, p, by, r, k)
  OBVIOUS
<1>5. RunStart \in RunState
  BY DEF RunStart, RunState, ScreenInv
<1> HIDE DEF F
<1>6. PICK g \in [SUBSET I -> RunState] : Folding(g, n, RunStart, F)
  BY <1>2, <1>3, <1>5, FoldingExists
<1>7. Iter(g)
  <2>1. ASSUME NEW s \in SUBSET I PROVE g[s] = Rec(g, s)
    <3>1. CASE s = {}
      BY <1>6, <3>1 DEF Folding
    <3>2. CASE s # {}
      <4> DEFINE x == Max(s)
      <4>1. x \in I
        BY <1>2, <3>2, MaxIndex
      <4>2. g[s] = F[<<x, g[s \ {x}]>>]
        BY <1>6, <3>2 DEF Folding
      <4>3. g[s \ {x}] \in RunState
        BY <1>6
      <4> HIDE DEF x
      <4>4. g[s] = Turn(g[s \ {x}], tx, p, by, r, x)
        BY <1>4, <4>1, <4>2, <4>3
      <4>5. ids[x] = x
        BY <4>1
      <4> HIDE DEF ids
      <4>6. g[s] = Turn(g[s \ {x}], tx, p, by, r, ids[x])
        BY <4>4, <4>5
      <4> QED BY <3>2, <4>6 DEF x
    <3> QED BY <3>1, <3>2
  <2>2. g = [s \in SUBSET I |-> g[s]]
    OBVIOUS
  <2> HIDE DEF Rec
  <2> QED BY <2>1, <2>2, Zenon
<1>8. Iter(fold)
  <2> HIDE DEF Iter
  <2> QED BY <1>7
<1>9. Run(tx, p, by, r) = [fold[I] EXCEPT !.stored = @ \ {[tx |-> tx, at |-> p, seen |-> r]}]
  BY <1>1 DEF Run, FoldLeft, MapThenFoldSet, Turn, RunStart
<1> HIDE DEF fold
<1>10. \A s \in SUBSET I : fold[s] = Rec(fold, s)
  <2> HIDE DEF Rec
  <2> QED BY <1>8, Zenon
<1>11. Running(fold, tx, p, by, r)
  <2> SUFFICES ASSUME NEW s \in SUBSET I
               PROVE  fold[s] = IF s = {} THEN RunStart
                                ELSE Turn(fold[s \ {Max(s)}], tx, p, by, r, Max(s))
    BY DEF Running
  <2>1. fold[s] = Rec(fold, s)
    BY <1>10
  <2>2. s # {} => ids[Max(s)] = Max(s)
    BY <1>2, MaxIndex
  <2> HIDE DEF ids
  <2> QED BY <2>1, <2>2
<1>12. fold[I] \in RunState
  BY <1>1, <1>11, RunningSound
<1> QED BY <1>9, <1>12 DEF RunState

-----------------------------------------------------------------------------
(* The steps.                                                              *)

\* A transaction in a block: the chain-operations decorator clears it in the
\* registry of that moment, and the authz limiter leaves nothing that needs its
\* signer's own authority below the top.
LEMMA DeliverKeeps ==
  ASSUME ScreenInv, NEW tx \in Txs, Deliver(tx)
  PROVE  ScreenInv'
<1>1. Cleared(tx, tokens)
  <2>1. ChainOpsRestriction(tx)
    BY DEF Deliver, Ante
  <2> QED BY <2>1, ChainOpsMeets DEF ChainOpsRestriction, Cleared
<1>2. Runs(tx, 0, "tx", tokens)
  BY <1>1 DEF Runs, ScreenInv, Deliver
<1> DEFINE st == Run(tx, 0, "tx", tokens)
<1>3. st \in RunState
  BY <1>2, RunSound
<1>4. tokens' = st.tokens /\ stored' = st.stored /\ moved' = st.moved
  BY DEF Deliver
<1>5. ~Delegates(tx, 0)
  <2> SUFFICES ASSUME NEW i \in RunsWith(tx, 0),
                      tx[i].type = "grant" \/ (tx[i].type \in OwnSignature /\ tx[i].parent # 0)
               PROVE  FALSE
    BY DEF Delegates
  <2>1. AuthzLimiter(tx)
    BY DEF Deliver, Ante
  <2>2. i \in Met(tx, LimiterInto(tx))
    BY <2>1, LimiterMeets
  <2>3. OwnSignature = AuthzDisabledMsgTypes
    BY DEF OwnSignature, AuthzDisabledMsgTypes
  <2> QED BY <2>1, <2>2, <2>3 DEF AuthzLimiter
<1>6. "tx" \notin delegated'
  BY <1>5 DEF Deliver, ScreenInv
<1> HIDE DEF st
<1> QED BY <1>3, <1>4, <1>6 DEF ScreenInv, RunState

\* A proposal runs with what was found when it came in.
LEMMA ExecProposalKeeps ==
  ASSUME ScreenInv, NEW p \in stored, ExecProposal(p)
  PROVE  ScreenInv'
<1>1. /\ p \in Kept /\ p.tx \in Txs /\ p.seen \in SUBSET AnyDenom /\ Cleared(p.tx, p.seen)
      /\ p.at \in DOMAIN p.tx /\ p.tx[p.at].type \in Proposals
  BY DEF ScreenInv, Kept
<1>2. p.at # 0
  <2>1. p.tx \in Seq(Msg)
    BY <1>1, ScreenAssumption
  <2> QED BY <1>1, <2>1
<1> DEFINE by == p.tx[p.at].type
           st == Run(p.tx, p.at, by, p.seen)
<1>3. Runs(p.tx, p.at, by, p.seen)
  BY <1>1, <1>2 DEF Runs
<1>4. st \in RunState
  BY <1>3, RunSound
<1>5. /\ delegated' \subseteq delegated \cup {by}
      /\ \/ tokens' = st.tokens /\ stored' = st.stored /\ moved' = st.moved
         \/ tokens' = tokens /\ stored' = stored \ {p} /\ moved' = moved
  BY DEF ExecProposal
<1>6. by # "tx"
  BY <1>1 DEF Proposals
<1> HIDE DEF st, by
<1> QED BY <1>4, <1>5, <1>6 DEF ScreenInv, RunState

-----------------------------------------------------------------------------
(* The theorems.                                                           *)

\* Every reachable state satisfies the invariant.
THEOREM ScreenInvariance == ScreenSpec => []ScreenInv
<1>1. ScreenInit => ScreenInv
  BY DEF ScreenInit, ScreenInv
<1>2. ScreenInv /\ [ScreenNext]_screenVars => ScreenInv'
  <2> SUFFICES ASSUME ScreenInv, [ScreenNext]_screenVars PROVE ScreenInv'
    OBVIOUS
  <2>1. CASE UNCHANGED screenVars
    BY <2>1 DEF ScreenInv, screenVars
  <2> QED BY <2>1, DeliverKeeps, ExecProposalKeeps DEF ScreenNext
<1> QED BY <1>1, <1>2, PTL DEF ScreenSpec

\* authz runs MsgExec at any depth and the tax PostHandler walks only so deep:
\* what a transaction carries out itself is taxed all the same.
THEOREM AlwaysTaxed == ScreenSpec => []DirectMovesTaxed
<1>1. ScreenInv => DirectMovesTaxed
  BY DEF ScreenInv, FairMove, DirectMovesTaxed
<1> QED BY <1>1, ScreenInvariance, PTL

\* No proposal, nor one that a proposal leaves behind, moves a custom token that
\* was registered when the transaction with it came in.
THEOREM KnownTokensNeverMoved == ScreenSpec => []KnownTokensStayTaxed
<1>1. ScreenInv => KnownTokensStayTaxed
  BY DEF ScreenInv, FairMove, KnownTokensStayTaxed
<1> QED BY <1>1, ScreenInvariance, PTL

\* Nothing of the disabled types is run under MsgExec or granted by a
\* transaction's own messages, at any depth: the limiter meets all that authz
\* runs, or refuses.
THEOREM NeverDelegated == ScreenSpec => []OnlyProposalsDelegate
<1>1. ScreenInv => OnlyProposalsDelegate
  BY DEF ScreenInv, OnlyProposalsDelegate
<1> QED BY <1>1, ScreenInvariance, PTL
=============================================================================
