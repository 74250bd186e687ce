----------------------------- MODULE ReorgLoop -----------------------------
(***************************************************************************)
(* The goroutines of the EVM pool and what they wait for.  Callers insert  *)
(* transactions (holding the mempool's mutex, waiting for the run they     *)
(* asked for) or hand over gapped ones (not waiting); TxPool.loop follows  *)
(* chain heads and resets the pool to them, one reset at a time;           *)
(* scheduleReorgLoop merges the requests into runs, one run at a time;     *)
(* Close stops them all.  What a run does to the lists is in LegacyPool.   *)
(***************************************************************************)
EXTENDS Integers, FiniteSets

CONSTANTS
  Inserter,    \* callers of ExperimentalEVMMempool.Insert: Add with sync
  Gapper,      \* callers of InsertInvalidNonce: Add without sync
  Resetter,    \* the goroutine TxPool.loop starts for a reset
  Runner,      \* the goroutine of runReorg, as an owner of the pool lock
  Nobody,
  MaxHead,     \* bound on the chain heads
  MaxCalls     \* bound on the calls

ASSUME LoopAssumption ==
  /\ MaxHead \in Nat /\ MaxCalls \in Nat /\ Inserter \cap Gapper = {}
  /\ Resetter \notin Inserter \cup Gapper /\ Runner \notin Inserter \cup Gapper \cup {Resetter}
  /\ Nobody \notin Inserter \cup Gapper \cup {Resetter, Runner}

VARIABLES
  pc,        \* where each caller is
  ch,        \* the done channel a caller holds: of the current run, of the next, closed
  mtx, mu,   \* owners of the mempool's mutex and of the pool lock
  loop,      \* scheduleReorgLoop: where it is, whom it answers, curDone, the next run
  run,       \* runReorg: where it is and what it was given
  top,       \* TxPool.loop: up or gone, oldHead, newHead, the reset under way
  announced, \* the heads the chain has announced
  poolHead,  \* currentHead
  shutdown,  \* whether reorgShutdownCh is closed
  calls,     \* the calls made so far, to bound them
  served     \* history: the callers whose latest request a finished run included

loopVars == <<pc, ch, mtx, mu, loop, run, top, announced, poolHead, shutdown, calls, served>>

Caller == Inserter \cup Gapper \cup {Resetter}
NoRun == [pc |-> "none", reqs |-> {}, head |-> 0]

LoopInit ==
  /\ pc = [c \in Caller |-> "idle"] /\ ch = [c \in Caller |-> "none"]
  /\ mtx = Nobody /\ mu = Nobody
  /\ loop = [pc |-> "select", to |-> Nobody, cur |-> "none", launch |-> FALSE,
             reqs |-> {}, head |-> 0]
  /\ run = NoRun
  /\ top = [up |-> TRUE, old |-> 0, new |-> 0, target |-> 0, busy |-> FALSE]
  /\ announced = 0 /\ poolHead = 0 /\ shutdown = FALSE /\ calls = 0 /\ served = {}

\* The loop is in its select: it has launched the next run if it could
Selecting == loop.pc = "select" /\ ~(loop.launch /\ loop.cur = "none")

Goto(c, l) == pc' = [pc EXCEPT ![c] = l]

-----------------------------------------------------------------------------
(* Callers.                                                                *)

\* Insert starts by locking the mempool's mutex; InsertInvalidNonce does not.
Call(c) ==
  /\ c /= Resetter /\ pc[c] = "idle" /\ calls < MaxCalls
  /\ IF c \in Inserter THEN mtx = Nobody /\ mtx' = c ELSE UNCHANGED mtx
  /\ calls' = calls + 1
  /\ Goto(c, "lock")
  /\ served' = served \ {c}
  /\ UNCHANGED <<ch, mu, loop, run, top, announced, poolHead, shutdown>>

LockPool(c) ==
  /\ pc[c] = "lock" /\ mu = Nobody
  /\ mu' = c
  /\ \E l \in {"event", "unlock"} : Goto(c, l)   \* a pending transaction replaced, or not
  /\ UNCHANGED <<ch, mtx, loop, run, top, announced, poolHead, shutdown, served, calls>>

\* queueTxEvent, under the pool lock: the loop takes the event, or all is closing
QueueTxEvent(c) ==
  /\ pc[c] = "event"
  /\ Selecting \/ shutdown
  /\ Goto(c, "unlock")
  /\ UNCHANGED <<ch, mtx, mu, loop, run, top, announced, poolHead, shutdown, served, calls>>

UnlockPool(c) ==
  /\ pc[c] = "unlock"
  /\ mu' = Nobody
  /\ Goto(c, "request")
  /\ UNCHANGED <<ch, mtx, loop, run, top, announced, poolHead, shutdown, served, calls>>

\* requestReset and requestPromoteExecutables: the loop takes the request
\* and merges it with those it has; a later reset only moves the head.
Request(c) ==
  /\ pc[c] = "request" /\ Selecting
  /\ loop' = [loop EXCEPT !.pc = "reply", !.to = c, !.launch = TRUE, !.reqs = @ \cup {c},
                          !.head = IF c = Resetter THEN top.target ELSE @]
  /\ Goto(c, "await")
  /\ UNCHANGED <<ch, mtx, mu, run, top, announced, poolHead, shutdown, served, calls>>

\* ... or the shutdown channel is closed, and is what the caller waits for.
RequestClosed(c) ==
  /\ pc[c] = "request" /\ shutdown
  /\ ch' = [ch EXCEPT ![c] = "closed"]
  /\ Goto(c, "wait")
  /\ UNCHANGED <<mtx, mu, loop, run, top, announced, poolHead, shutdown, served, calls>>

ReplyCurrent ==
  /\ loop.pc = "reply"
  /\ ch' = [ch EXCEPT ![loop.to] = IF loop.cur = "open" THEN "cur" ELSE "next"]
  /\ Goto(loop.to, "wait")
  /\ loop' = [loop EXCEPT !.pc = "select", !.to = Nobody]
  /\ UNCHANGED <<mtx, mu, run, top, announced, poolHead, shutdown, served, calls>>

\* The loop answers with the channel of the next run
Reply ==
  /\ loop.pc = "reply"
  /\ ch' = [ch EXCEPT ![loop.to] = "next"]
  /\ Goto(loop.to, "wait")
  /\ loop' = [loop EXCEPT !.pc = "select", !.to = Nobody]
  /\ UNCHANGED <<mtx, mu, run, top, announced, poolHead, shutdown, served, calls>>

\* The call returns: at once without sync, else when the channel is closed.
\* A finished reset is then reported to TxPool.loop, or its end is noticed.
Return(c) ==
  /\ pc[c] = "wait" /\ (c \in Gapper \/ ch[c] = "closed")
  /\ ch' = [ch EXCEPT ![c] = "none"]
  /\ Goto(c, IF c = Resetter THEN "report" ELSE "idle")
  /\ mtx' = IF mtx = c THEN Nobody ELSE mtx
  /\ UNCHANGED <<mu, loop, run, top, announced, poolHead, shutdown, served, calls>>

-----------------------------------------------------------------------------
(* scheduleReorgLoop and runReorg.                                         *)

Aged(c) == CASE ch[c] = "next" -> "cur" [] OTHER -> ch[c]

Launch ==
  /\ loop.pc = "select" /\ loop.launch /\ loop.cur = "none"
  /\ run' = [pc |-> "lock", reqs |-> loop.reqs, head |-> loop.head]
  /\ loop' = [loop EXCEPT !.cur = "open", !.launch = FALSE, !.reqs = {}, !.head = 0]
  /\ ch' = [c \in Caller |-> Aged(c)]
  /\ UNCHANGED <<pc, mtx, mu, top, announced, poolHead, shutdown, served, calls>>

RunLock ==
  /\ run.pc = "lock" /\ mu = Nobody
  /\ mu' = Runner
  /\ run' = [run EXCEPT !.pc = "work"]
  /\ UNCHANGED <<pc, ch, mtx, loop, top, announced, poolHead, shutdown, served, calls>>

\* The reset.  Left out: StateAt fails when the application has no query context
\* to give, and the pool then keeps its old head.
RunWork ==
  /\ run.pc = "work"
  /\ poolHead' = IF run.head /= 0 THEN run.head ELSE poolHead
  /\ mu' = Nobody
  /\ run' = [run EXCEPT !.pc = "end"]
  /\ UNCHANGED <<pc, ch, mtx, loop, top, announced, shutdown, served, calls>>

\* The broadcast, which fails at once, and the closing of the done channel
RunEnd ==
  /\ run.pc = "end"
  /\ run' = NoRun
  /\ served' = served \cup run.reqs
  /\ loop' = [loop EXCEPT !.cur = "closed"]
  /\ ch' = [c \in Caller |-> IF ch[c] = "cur" THEN "closed" ELSE ch[c]]
  /\ UNCHANGED <<pc, mtx, mu, top, announced, poolHead, shutdown, calls>>

NoticeDone ==
  /\ Selecting /\ loop.cur = "closed"
  /\ loop' = [loop EXCEPT !.cur = "none"]
  /\ UNCHANGED <<pc, ch, mtx, mu, run, top, announced, poolHead, shutdown, served, calls>>

DrainKeepsNext ==
  /\ Selecting /\ shutdown /\ loop.cur /= "open"
  /\ loop' = [loop EXCEPT !.pc = "gone", !.cur = "none"]
  /\ UNCHANGED <<pc, ch, mtx, mu, run, top, announced, poolHead, shutdown, served, calls>>

\* On shutdown the loop waits for the current run, then closes the channel
\* of the run that will not happen.
Drain ==
  /\ \/ Selecting /\ shutdown /\ loop.cur = "open"
        /\ loop' = [loop EXCEPT !.pc = "drain"] /\ UNCHANGED ch
     \/ /\ (Selecting /\ shutdown) \/ loop.pc = "drain"
        /\ loop.cur /= "open"
        /\ loop' = [loop EXCEPT !.pc = "gone", !.cur = "none"]
        /\ ch' = [c \in Caller |-> IF ch[c] = "next" THEN "closed" ELSE ch[c]]
  /\ UNCHANGED <<pc, mtx, mu, run, top, announced, poolHead, shutdown, served, calls>>

-----------------------------------------------------------------------------
(* TxPool.loop and Close.                                                  *)

\* A block: NotifyNewBlock sends the head, and the loop keeps the last one
NewHead ==
  /\ announced < MaxHead /\ top.up
  /\ announced' = announced + 1
  /\ top' = [top EXCEPT !.new = announced + 1]
  /\ UNCHANGED <<pc, ch, mtx, mu, loop, run, poolHead, shutdown, served, calls>>

\* A reset starts when the head has moved and none is running
StartReset ==
  /\ top.up /\ top.new /= top.old /\ ~top.busy
  /\ top' = [top EXCEPT !.busy = TRUE, !.target = top.new]
  /\ Goto(Resetter, "request")
  /\ served' = served \ {Resetter}
  /\ UNCHANGED <<ch, mtx, mu, loop, run, announced, poolHead, shutdown, calls>>

ResetDoneSkips ==
  /\ pc[Resetter] = "report"
  /\ top' = [top EXCEPT !.busy = FALSE, !.old = top.new]
  /\ Goto(Resetter, "idle")
  /\ UNCHANGED <<ch, mtx, mu, loop, run, announced, poolHead, shutdown, served, calls>>

ResetDone ==
  /\ pc[Resetter] = "report"
  /\ top' = [top EXCEPT !.busy = FALSE, !.old = top.target]
  /\ Goto(Resetter, "idle")
  /\ UNCHANGED <<ch, mtx, mu, loop, run, announced, poolHead, shutdown, served, calls>>

\* TxPool.Close stops TxPool.loop, then LegacyPool.Close the reorg loop
Quit ==
  /\ top.up
  /\ top' = [top EXCEPT !.up = FALSE]
  /\ UNCHANGED <<pc, ch, mtx, mu, loop, run, announced, poolHead, shutdown, served, calls>>

Close ==
  /\ ~top.up /\ ~shutdown
  /\ shutdown' = TRUE
  /\ UNCHANGED <<pc, ch, mtx, mu, loop, run, top, announced, poolHead, served, calls>>

-----------------------------------------------------------------------------
\* What the goroutines do on their own; calls, blocks and Close come from outside
System ==
  \/ \E c \in Caller : LockPool(c) \/ QueueTxEvent(c) \/ UnlockPool(c)
                       \/ Request(c) \/ RequestClosed(c) \/ Return(c)
  \/ Reply \/ Launch \/ NoticeDone \/ Drain
  \/ RunLock \/ RunWork \/ RunEnd \/ StartReset \/ ResetDone

LoopNext == System \/ NewHead \/ Quit \/ Close \/ \E c \in Caller : Call(c)

\* Some goroutine that can take a step takes one; no fairness among them
LoopSpec == LoopInit /\ [][LoopNext]_loopVars /\ WF_loopVars(System)

-----------------------------------------------------------------------------
\* A caller is released only by a run that was launched after its request and
\* has finished, never by the one that was already under way, except by the
\* shutdown.
ReleasedByOwnRun ==
  \A c \in Caller : ch[c] = "closed" /\ ~shutdown => c \in served

\* The pool is never set back to an older head, however resets are merged.
HeadNeverGoesBack == [][poolHead' >= poolHead]_loopVars

\* Every call returns, whatever it waits for and also when the pool closes
\* under it: no request is forgotten and no channel is left open.
EveryCallReturns == \A c \in Caller : pc[c] /= "idle" ~> pc[c] = "idle"

\* The pool catches up with every head announced before it closes, provided the
\* application can give the state of that head (RunWork).
PoolCatchesUp == \A h \in 1..MaxHead : announced >= h ~> poolHead >= h \/ ~top.up
=============================================================================
