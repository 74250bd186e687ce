----------------------------- MODULE WorldState -----------------------------
(***************************************************************************)
(* What x/vm's StateDB promises the EVM and the stateful precompiles: one  *)
(* world that every operation changes in place, whole copies of it kept    *)
(* for the snapshots, a revert that brings a copy back, precompiles that   *)
(* see the world as it is when they are called, and a commit that makes    *)
(* the world the chain's state, or leaves the chain's state alone.         *)
(* StateDB keeps no copy; it is shown to implement this.                   *)
(***************************************************************************)
EXTENDS Integers, Sequences

CONSTANTS
  Addr,        \* account addresses
  Slot,        \* storage keys an access list may name
  Val,         \* values of a storage slot; 0 is the empty one
  NoAccount,   \* in place of an account that does not exist
  Module,      \* the module accounts, which the EVM may not change
  Blocked      \* those that precompiles pay behind the EVM's back

VARIABLES
  world,   \* accounts, native module state, refund, logs, transient, warm
  saved,   \* the worlds the open call frames started from, oldest first
  seen,    \* the state as the last precompile call found it
  chain,   \* the state the transaction started from, or left behind
  phase    \* "run", "done" (committed), "failed"

vars == <<world, saved, seen, chain, phase>>

\* A new account, and the world a transaction finds.
Empty == [bal |-> 0, code |-> 0, slot |-> 0, dead |-> FALSE, new |-> FALSE]

Opened(acc) ==
  IF acc = NoAccount THEN NoAccount
  ELSE [bal |-> acc.bal, code |-> acc.code, slot |-> acc.slot,
        dead |-> FALSE, new |-> FALSE]

\* The state a world leaves: self-destructed accounts are gone.
Settled(w) ==
  [acct |-> [a \in Addr |->
      IF w.acct[a] = NoAccount THEN NoAccount
      ELSE IF w.acct[a].dead THEN NoAccount
      ELSE [bal |-> w.acct[a].bal, code |-> w.acct[a].code,
            slot |-> w.acct[a].slot]],
   native |-> w.native]

Touched(w, a) ==
  IF w.acct[a] = NoAccount THEN [w EXCEPT !.acct[a] = Empty] ELSE w

Init ==
  /\ world \in [acct : {[a \in Addr |-> Opened(chain.acct[a])]},
                native : {chain.native}, refund : {0}, logs : {0},
                transient : {[a \in Addr |-> 0]},
                warm : SUBSET (Addr \cup (Addr \X Slot))]
  /\ saved = <<>> /\ phase = "run"
  /\ seen = chain

-----------------------------------------------------------------------------
Change(w) ==
  /\ phase = "run"
  /\ world' = w
  /\ UNCHANGED <<saved, seen, chain, phase>>

Credit(w, b, x) == [Touched(w, b) EXCEPT !.acct[b].bal = @ + x]

Transfer(a, b, x) ==
  LET t == Touched(world, a)
  IN  /\ x <= t.acct[a].bal
      /\ Change(Credit([t EXCEPT !.acct[a].bal = @ - x], b, x))

Create(a) == Change([Touched(world, a) EXCEPT !.acct[a].new = TRUE])
SetCode(a) == Change([Touched(world, a) EXCEPT !.acct[a].code = 1])
SetState(a, v) == Change([Touched(world, a) EXCEPT !.acct[a].slot = v])

\* Only a contract that this transaction created is destroyed.
SelfDestruct(a) ==
  /\ world.acct[a] # NoAccount
  /\ Change(IF world.acct[a].new
            THEN [world EXCEPT !.acct[a].dead = TRUE, !.acct[a].bal = 0]
            ELSE world)

SetTransient(a, v) == Change([world EXCEPT !.transient[a] = v])
SetRefund(r) == Change([world EXCEPT !.refund = r])
AddLog == Change([world EXCEPT !.logs = @ + 1])
Warm(what) == Change([world EXCEPT !.warm = @ \cup what])

\* A call frame keeps the world it started from, until it returns or fails.
Snapshot ==
  /\ phase = "run"
  /\ saved' = Append(saved, world)
  /\ UNCHANGED <<world, seen, chain, phase>>

Close ==
  /\ phase = "run" /\ saved # <<>>
  /\ saved' = SubSeq(saved, 1, Len(saved) - 1)
  /\ UNCHANGED <<seen, chain, phase>>

Return == Close /\ UNCHANGED world
Revert == Close /\ world' = saved[Len(saved)]

\* A precompile call sees the settled world and leaves w behind.  One that
\* fails leaves no trace.
Precompile(w) ==
  /\ phase = "run"
  /\ seen' = Settled(world)
  /\ world' = w
  /\ UNCHANGED <<saved, chain, phase>>

PrecompileWrites(v) == Precompile([world EXCEPT !.native.state = v])

\* The EVM goes on to see what a blocked account held at the start.
BankMove(w, b, x) == [w EXCEPT !.native.paid[b] = @ + x]

PrecompilePays(b) ==
  Precompile(IF b \in Blocked THEN BankMove(world, b, 1) ELSE Credit(world, b, 1))

PrecompileTakes(b) ==
  /\ world.acct[b] # NoAccount
  /\ IF b \in Blocked
     THEN /\ world.acct[b].bal + world.native.paid[b] > 0
          /\ Precompile(BankMove(world, b, -1))
     ELSE /\ world.acct[b].bal > 0
          /\ Precompile([world EXCEPT !.acct[b].bal = @ - 1])

\* A precompile that calls a contract on the way.
PrecompileConverts(a, v) ==
  /\ world.acct[a] # NoAccount
  /\ Precompile([world EXCEPT !.acct[a].slot = v, !.native.state = v])

\* Only a destroyed account, or a module account, can make a commit fail.
Commit ==
  /\ phase = "run"
  /\ \/ chain' = Settled(world) /\ phase' = "done"
     \/ /\ \E a \in Addr : world.acct[a] # NoAccount /\ (world.acct[a].dead \/ a \in Module)
        /\ phase' = "failed" /\ UNCHANGED chain
  /\ saved' = <<>>
  /\ UNCHANGED <<world, seen>>

Next ==
  \/ Snapshot \/ Return \/ Revert \/ Commit
  \/ \E a \in Addr : Create(a) \/ SetCode(a) \/ SelfDestruct(a)
  \/ \E a \in Addr, v \in Val : SetState(a, v) \/ SetTransient(a, v)
  \/ \E r \in 0..(world.refund + 1) : SetRefund(r)
  \/ AddLog
  \/ \E a \in Addr : Warm({a}) \/ \E s \in Slot : Warm({a, <<a, s>>})
  \/ \E v \in Val : PrecompileWrites(v)
  \/ \E b \in Addr : PrecompilePays(b) \/ PrecompileTakes(b)
  \/ \E a \in Addr, v \in Val : PrecompileConverts(a, v)
  \/ \E a, b \in Addr, x \in {0, 1} : Transfer(a, b, x)

Spec == Init /\ [][Next]_vars
=============================================================================
