------------------------------ MODULE StateDB -------------------------------
(***************************************************************************)
(* x/vm's StateDB for one transaction.  Accounts are loaded from the       *)
(* transaction's store into objects; every change appends a journal entry  *)
(* that knows how to undo it; a snapshot is a position in the journal.  A  *)
(* stateful precompile works on the store itself, so before it runs the    *)
(* store stack gets a layer, the journal an entry that can drop the layer, *)
(* and the journalled objects are flushed into the layer.  The call frame  *)
(* of a precompile is one step, the EVM's other operations are steps of    *)
(* their own.  A balance stands for the nonce as well, which is kept and   *)
(* undone the same way, and every account has one storage slot.            *)
(***************************************************************************)
EXTENDS Integers, FiniteSets, Sequences, SequencesExt

CONSTANTS
  Addr, Slot, Val, NoAccount,
  Sender,        \* who signed the transaction
  Module,        \* the module accounts
  Blocked,       \* the module accounts that the bank's blocked list names
  Clean,         \* in place of a slot that dirtyStorage does not hold
  Transactions,  \* the store a transaction starts from, and as bounds the kinds of
                 \* operations it makes, whom they name and the snapshots it takes
  MaxPrecompileCalls,  \* precompile calls a transaction may make
  CounterSize,   \* values of the call counter, 2^8 in the code
  MaxJournal,    \* bound: entries in the journal
  MaxDepth       \* bound: nested call frames

Account == [bal : Nat, code : {0, 1}, slot : Val]
Object == [bal : Nat, code : {0, 1}, slot : Val \cup {Clean},
           dead : BOOLEAN, new : BOOLEAN]

\* The stores of the native modules: some module's own state, and what the
\* transaction's precompiles have paid a blocked account, or taken from it.
\* The bank holds acct[a].bal and, of a blocked account, paid[a] beside it.
Native == [state : Val, paid : [Blocked -> Int]]
Store == [acct : [Addr -> Account \cup {NoAccount}], native : Native]

ASSUME StateDBAssumption ==
  /\ Sender \in Addr /\ 0 \in Val /\ Val \subseteq Nat
  /\ Blocked \subseteq Module /\ Module \subseteq Addr \ {Sender}
  /\ Clean \notin Val /\ NoAccount \notin Account /\ NoAccount \notin Object
  /\ \A t \in Transactions : /\ t.store \in Store /\ t.whom \subseteq Addr
                              /\ \A b \in Blocked : t.store.native.paid[b] = 0
                              /\ \A m \in Module : t.store.acct[m] # NoAccount
                              /\ t.kinds \subseteq {"account", "native", "side"}
                              /\ t.snapshots \in Nat
  /\ MaxPrecompileCalls \in Nat /\ CounterSize \in Nat \ {0}
  /\ MaxPrecompileCalls < CounterSize
  /\ MaxJournal \in Nat /\ MaxDepth \in Nat

VARIABLES
  db,      \* objects, refund, logs, transient, access list, layers, journal
  valid,   \* validRevisions: snapshot ids and journal positions
  next,    \* nextRevisionID
  frames,  \* the snapshot ids of the EVM's open call frames
  calls,   \* precompileCallsCounter
  seen,    \* the store as the last precompile call found it
  base,    \* the transaction's store, s.ctx
  phase,   \* "run", "done" (committed), "failed"
  tx       \* which of the Transactions this one is

vars == <<db, valid, next, frames, calls, seen, base, phase, tx>>

Fresh == [bal |-> 0, code |-> 0, slot |-> Clean, dead |-> FALSE, new |-> FALSE]

-----------------------------------------------------------------------------
(* Objects.                                                                *)

Journal(s, e) == [s EXCEPT !.journal = Append(@, e)]

\* getStateObject: the live object, or one loaded from s.ctx.
Get(s, a) ==
  IF s.objs[a] # NoAccount THEN s.objs[a]
  ELSE IF base.acct[a] = NoAccount THEN NoAccount
  ELSE [Fresh EXCEPT !.bal = base.acct[a].bal, !.code = base.acct[a].code]

\* getOrNewStateObject.
GetOrNew(s, a) ==
  IF Get(s, a) # NoAccount THEN [s EXCEPT !.objs[a] = Get(s, a)]
  ELSE Journal([s EXCEPT !.objs[a] = Fresh], [kind |-> "create", addr |-> a])

Committed(a) == IF base.acct[a] = NoAccount THEN 0 ELSE base.acct[a].slot

GetState(s, a) ==
  IF Get(s, a) = NoAccount THEN 0
  ELSE IF Get(s, a).slot = Clean THEN Committed(a) ELSE Get(s, a).slot

SetBalance(s, a, v) ==
  Journal([s EXCEPT !.objs[a].bal = v],
          [kind |-> "balance", addr |-> a, prev |-> s.objs[a].bal])

\* A change of nothing returns before the journal, but after the object.
AddBalance(s, a, x) ==
  LET t == GetOrNew(s, a)
  IN  IF x = 0 THEN t ELSE SetBalance(t, a, t.objs[a].bal + x)
SubBalance(s, a, x) ==
  LET t == GetOrNew(s, a)
  IN  IF x = 0 THEN t ELSE SetBalance(t, a, t.objs[a].bal - x)

WriteState(s, a, v) ==
  LET t == GetOrNew(s, a)
      prev == GetState(t, a)
  IN  IF prev = v THEN t
      ELSE Journal([t EXCEPT !.objs[a].slot = v],
                   [kind |-> "storage", addr |-> a, prev |-> prev])

WriteCode(s, a) ==
  LET t == GetOrNew(s, a)
  IN  Journal([t EXCEPT !.objs[a].code = 1],
              [kind |-> "code", addr |-> a, prev |-> t.objs[a].code])

CreateContract(s, a) ==
  IF s.objs[a].new THEN s
  ELSE Journal([s EXCEPT !.objs[a].new = TRUE], [kind |-> "contract", addr |-> a])

Destroy(s, a) ==
  Journal([s EXCEPT !.objs[a].dead = TRUE, !.objs[a].bal = 0],
          [kind |-> "destroy", addr |-> a,
           prev |-> s.objs[a].dead, bal |-> s.objs[a].bal])

-----------------------------------------------------------------------------
(* Transient storage and the access list, whose addresses point into a     *)
(* list of slot sets: -1 for none.                                         *)

Absent == -2

WriteTransient(s, a, v) ==
  IF s.transient[a] = v THEN s
  ELSE Journal([s EXCEPT !.transient[a] = v],
               [kind |-> "transient", addr |-> a, prev |-> s.transient[a]])

AddAddress(s, a) ==
  IF s.access.at[a] # Absent THEN s
  ELSE Journal([s EXCEPT !.access.at[a] = -1], [kind |-> "addr", addr |-> a])

\* AddSlot of the access list, and the entries its two results call for.
AddSlot(s, a, k) ==
  LET at == s.access.at[a]
      fresh == [s.access EXCEPT !.at[a] = Len(s.access.slots),
                                !.slots = Append(@, {k})]
      t == IF at = Absent THEN Journal(s, [kind |-> "addr", addr |-> a]) ELSE s
      slotChange == [kind |-> "slot", addr |-> a, slot |-> k]
  IN  IF at < 0 THEN Journal([t EXCEPT !.access = fresh], slotChange)
      ELSE IF k \in s.access.slots[at + 1] THEN s
      ELSE Journal([s EXCEPT !.access.slots[at + 1] = @ \cup {k}], slotChange)

\* The address keeps pointing at an empty set.
DeleteSlotKeepsIndex(access, a, k) ==
  [access EXCEPT !.slots[access.at[a] + 1] = @ \ {k}]

\* Removing the last slot of an address cuts the list off at its index.
DeleteSlot(access, a, k) ==
  LET at == access.at[a]
      left == access.slots[at + 1] \ {k}
  IN  IF left = {}
      THEN [at |-> [access.at EXCEPT ![a] = -1],
            slots |-> SubSeq(access.slots, 1, at)]
      ELSE [access EXCEPT !.slots[at + 1] = left]

-----------------------------------------------------------------------------
(* Undoing.                                                                *)

\* The Revert method of each kind of entry.
Undo(s, e) ==
  CASE e.kind = "create"    -> [s EXCEPT !.objs[e.addr] = NoAccount]
    [] e.kind = "contract"  -> [s EXCEPT !.objs[e.addr].new = FALSE]
    [] e.kind = "destroy"   -> [s EXCEPT !.objs[e.addr].dead = e.prev,
                                         !.objs[e.addr].bal = e.bal]
    [] e.kind = "balance"   -> [s EXCEPT !.objs[e.addr].bal = e.prev]
    [] e.kind = "code"      -> [s EXCEPT !.objs[e.addr].code = e.prev]
    [] e.kind = "storage"   -> [s EXCEPT !.objs[e.addr].slot = e.prev]
    [] e.kind = "transient" -> [s EXCEPT !.transient[e.addr] = e.prev]
    [] e.kind = "refund"    -> [s EXCEPT !.refund = e.prev]
    [] e.kind = "log"       -> [s EXCEPT !.logs = @ - 1]
    [] e.kind = "addr"      -> [s EXCEPT !.access.at[e.addr] = Absent]
    [] e.kind = "slot"      -> [s EXCEPT !.access = DeleteSlot(@, e.addr, e.slot)]
    [] e.kind = "precompile" -> [s EXCEPT !.layers = SubSeq(@, 1, e.snapshot)]

\* journal.Revert: the entries from the last one down to position n.
UndoTo(s, n) ==
  LET undone[i \in n..Len(s.journal)] ==   \* with entries above i undone
        IF i = Len(s.journal) THEN s ELSE Undo(undone[i + 1], s.journal[i + 1])
  IN  [undone[n] EXCEPT !.journal = SubSeq(@, 1, n)]

-----------------------------------------------------------------------------
(* The store stack.                                                        *)

Top(s) == IF s.layers = <<>> THEN base ELSE Last(s.layers)

\* journal.dirties: the accounts that some entry says it modified.
Dirtied == {"create", "destroy", "balance", "code", "storage"}
Dirty(s) == {a \in Addr : \E i \in DOMAIN s.journal :
               s.journal[i].kind \in Dirtied /\ s.journal[i].addr = a}

\* Keeper.DeleteAccount refuses an account the store holds without code.
CanDelete(store, a) == store.acct[a] # NoAccount => store.acct[a].code = 1

\* Keeper.SetBalanceWithLocked refuses a module account, whatever the balance.
CanFlush(s, store) ==
  \A a \in Dirty(s) : a \notin Module /\ (s.objs[a].dead => CanDelete(store, a))

\* commitWithCtx: DeleteAccount, or SetCode, SetAccount and SetState.
Flushed(s, store) ==
  LET held(a) == IF store.acct[a] = NoAccount THEN 0 ELSE store.acct[a].slot
      write(a) == [bal |-> s.objs[a].bal, code |-> s.objs[a].code,
                   slot |-> IF s.objs[a].slot = Clean THEN held(a) ELSE s.objs[a].slot]
  IN  [store EXCEPT !.acct = [a \in Addr |->
         IF a \notin Dirty(s) THEN store.acct[a]
         ELSE IF s.objs[a].dead THEN NoAccount ELSE write(a)]]

FlushToCacheCtx(s) == [s EXCEPT !.layers[Len(s.layers)] = Flushed(s, @)]

\* MultiStoreSnapshot and AddPrecompileFn, before the flush.
Enter(s) ==
  Journal([s EXCEPT !.layers = Append(@, Top(s))],
          [kind |-> "precompile", snapshot |-> Len(s.layers)])

-----------------------------------------------------------------------------
(* What the EVM calls.                                                     *)

\* Prepare: the sender and the transaction's own access list are warm.
Prepared ==
  LET sender == [at |-> [a \in Addr |-> IF a = Sender THEN -1 ELSE Absent],
                 slots |-> <<>>]
      listed(a, k) == [at |-> [sender.at EXCEPT ![a] = 0], slots |-> <<{k}>>]
  IN  {sender} \cup {listed(a, k) : a \in tx.whom, k \in Slot}

Init ==
  /\ tx \in Transactions /\ base = tx.store
  /\ db \in [objs : {[a \in Addr |-> NoAccount]}, refund : {0}, logs : {0},
             transient : {[a \in Addr |-> 0]}, access : Prepared,
             layers : {<<>>}, journal : {<<>>}]
  /\ valid = <<>> /\ next = 0 /\ frames = <<>> /\ calls = 0
  /\ seen = base /\ phase = "run"
  /\ "side" \notin tx.kinds => db.access.slots = <<>>

Room == phase = "run" /\ Len(db.journal) < MaxJournal

Change(group, s) ==
  /\ Room /\ group \in tx.kinds
  /\ db' = s
  /\ UNCHANGED <<valid, next, frames, calls, seen, base, phase, tx>>

TransferUnchecked(a, b, x) ==
  a # b /\ Change("account", AddBalance(SubBalance(db, a, x), b, x))

\* Nobody has the key of a module account, and it runs no code.
Transfer(a, b, x) ==
  /\ a # b /\ a \notin Module
  /\ x > 0 => Get(db, a) # NoAccount /\ x <= Get(db, a).bal
  /\ Change("account", AddBalance(SubBalance(db, a, x), b, x))

\* GetStorageRoot and IsStorageEmpty look at s.ctx, not at the objects.
StorageEmpty(a) == Committed(a) = 0

\* evm.create refuses an address with code, a nonce from a creation or storage;
\* a creation's address is a hash that meets no module account's.
Create(a) ==
  /\ a \notin Module
  /\ Get(db, a) # NoAccount => Get(db, a).code = 0 /\ ~Get(db, a).new
  /\ StorageEmpty(a)
  /\ Change("account", CreateContract(GetOrNew(db, a), a))

SetCode(a) ==
  /\ Get(db, a) # NoAccount /\ Get(db, a).new /\ Get(db, a).code = 0
  /\ Change("account", WriteCode(db, a))

\* Code runs only where there is some, or during its creation.
SetState(a, v) ==
  /\ Get(db, a) # NoAccount /\ (Get(db, a).new \/ Get(db, a).code = 1)
  /\ Change("account", WriteState(db, a, v))

SelfDestruct6780(a) ==
  /\ Get(db, a) # NoAccount
  /\ LET t == [db EXCEPT !.objs[a] = Get(db, a)]
     IN  Change("account", IF t.objs[a].new THEN Destroy(t, a) ELSE t)

SetTransientState(a, v) == Change("side", WriteTransient(db, a, v))

Refund(r) ==
  Change("side", Journal([db EXCEPT !.refund = r],
                         [kind |-> "refund", prev |-> db.refund]))
AddRefund(g) == Refund(db.refund + g)
SubRefund(g) == g <= db.refund /\ Refund(db.refund - g)

AddLog == Change("side", Journal([db EXCEPT !.logs = @ + 1], [kind |-> "log"]))
AddAddressToAccessList(a) == Change("side", AddAddress(db, a))
AddSlotToAccessList(a, k) == Change("side", AddSlot(db, a, k))

Revision(s, id) == [id |-> id, index |-> Len(s.journal)]

\* A call frame opens with a snapshot.
Snapshot ==
  /\ Room /\ next < tx.snapshots /\ Len(frames) < MaxDepth
  /\ valid' = Append(valid, Revision(db, next)) /\ next' = next + 1
  /\ frames' = Append(frames, next)
  /\ UNCHANGED <<db, calls, seen, base, phase, tx>>

\* A frame that returns leaves its revision behind.
Return ==
  /\ phase = "run" /\ frames # <<>>
  /\ frames' = Front(frames)
  /\ UNCHANGED <<db, valid, next, calls, seen, base, phase, tx>>

\* sort.Search: the first revision whose id is not below.
Search(id) == SelectInSeq(valid, LAMBDA r : r.id >= id)

\* A frame that fails reverts to its snapshot.
RevertToSnapshot ==
  /\ phase = "run" /\ frames # <<>>
  /\ LET i == Search(Last(frames))
     IN  /\ db' = UndoTo(db, valid[i].index)
         /\ valid' = SubSeq(valid, 1, i - 1)
  /\ frames' = Front(frames)
  /\ UNCHANGED <<next, calls, seen, base, phase, tx>>

-----------------------------------------------------------------------------
(* Stateful precompiles: the frame's snapshot, then runNativeAction.       *)

OverLimit == (calls + 1) % CounterSize > MaxPrecompileCalls

\* What the action and the balance handler find, once flushed.
Called == FlushToCacheCtx(Enter(db))

Precompile(s, inner) ==
  /\ Room /\ next + Len(inner) < tx.snapshots /\ "native" \in tx.kinds
  /\ ~OverLimit /\ CanFlush(db, Top(db))
  /\ calls' = (calls + 1) % CounterSize
  /\ seen' = Last(Called.layers)
  /\ db' = s
  /\ valid' = valid \o <<Revision(db, next)>> \o inner
  /\ next' = next + 1 + Len(inner)
  /\ UNCHANGED <<frames, base, phase, tx>>

\* A native write, into the layer.
NativeWrite(s, v) == [s EXCEPT !.layers[Len(s.layers)].native.state = v]

\* A bank transfer credits the store's account, or makes one.
BankCredit(s, b) ==
  LET acc == Top(s).acct[b]
  IN  [s EXCEPT !.layers[Len(s.layers)].acct[b] =
         IF acc = NoAccount THEN [bal |-> 1, code |-> 0, slot |-> 0]
         ELSE [acc EXCEPT !.bal = @ + 1]]

BankDebit(s, b) == [s EXCEPT !.layers[Len(s.layers)].acct[b].bal = @ - 1]

\* The same for a blocked account.
BankMove(s, b, x) == [s EXCEPT !.layers[Len(s.layers)].native.paid[b] = @ + x]

PrecompileWrites(v) == Precompile(NativeWrite(Called, v), <<>>)

\* Without a balance handler.
PrecompilePaysUnseen(b) == Precompile(BankCredit(Called, b), <<>>)

\* AfterBalanceChange repeats a coin_received event on the objects, unless the
\* receiver is a blocked address, of which the StateDB is told nothing.
PrecompilePays(b) ==
  Precompile(IF b \in Blocked THEN BankMove(Called, b, 1)
             ELSE AddBalance(BankCredit(Called, b), b, 1), <<>>)

\* The same for a coin_spent event, which the bank emits if the coin is there.
PrecompileTakes(b) ==
  /\ Last(Called.layers).acct[b] # NoAccount
  /\ IF b \in Blocked
     THEN /\ Last(Called.layers).acct[b].bal + Top(db).native.paid[b] > 0
          /\ Precompile(BankMove(Called, b, -1), <<>>)
     ELSE /\ Last(Called.layers).acct[b].bal > 0
          /\ Precompile(SubBalance(BankDebit(Called, b), b, 1), <<>>)

\* The ICS-20 precompile calls the token's contract with the same StateDB,
\* which is flushed again and not committed, and then writes.
PrecompileConverts(a, v) ==
  /\ Get(db, a) # NoAccount /\ (Get(db, a).new \/ Get(db, a).code = 1)
  /\ CanFlush(WriteState(Called, a, v), Last(Called.layers))
  /\ Precompile(NativeWrite(FlushToCacheCtx(WriteState(Called, a, v)), v),
                <<Revision(Called, next + 1)>>)

\* Too many calls, a flush the keeper refuses, or an error of the action:
\* the frame is reverted.
PrecompileFails ==
  /\ Room /\ next < tx.snapshots /\ "native" \in tx.kinds
  /\ calls' = (calls + 1) % CounterSize
  /\ db' = UndoTo(IF OverLimit THEN Enter(db) ELSE Called, Len(db.journal))
  /\ next' = next + 1
  /\ UNCHANGED <<valid, frames, seen, base, phase, tx>>

\* Everything is staged on a branch and written if nothing failed.
Commit ==
  /\ phase = "run"
  /\ IF CanFlush(db, Top(db))
     THEN base' = Flushed(db, Top(db)) /\ phase' = "done"
     ELSE phase' = "failed" /\ UNCHANGED base
  /\ valid' = <<>> /\ frames' = <<>>
  /\ UNCHANGED <<db, next, calls, seen, tx>>

Next ==
  \/ \E a, b \in tx.whom, x \in {0, 1} : Transfer(a, b, x)
  \/ \E a \in tx.whom : Create(a) \/ SetCode(a) \/ SelfDestruct6780(a)
  \/ \E a \in tx.whom, v \in Val : SetState(a, v) \/ SetTransientState(a, v)
  \/ AddRefund(1) \/ SubRefund(1) \/ AddLog
  \/ \E a \in tx.whom : AddAddressToAccessList(a)
  \/ \E a \in tx.whom, k \in Slot : AddSlotToAccessList(a, k)
  \/ Snapshot \/ Return \/ RevertToSnapshot
  \/ \E v \in Val : PrecompileWrites(v)
  \/ \E b \in tx.whom : PrecompilePays(b) \/ PrecompileTakes(b)
  \/ \E a \in tx.whom, v \in Val : PrecompileConverts(a, v)
  \/ PrecompileFails
  \/ Commit

Spec == Init /\ [][Next]_vars

-----------------------------------------------------------------------------
(* The promise.                                                            *)

\* The world these objects, this list and this layer stand for.
View(s) ==
  [acct |-> [a \in Addr |->
      IF Get(s, a) = NoAccount THEN NoAccount
      ELSE [Get(s, a) EXCEPT !.slot = GetState(s, a)]],
   native |-> Top(s).native, refund |-> s.refund, logs |-> s.logs,
   transient |-> s.transient,
   warm |-> {a \in Addr : s.access.at[a] # Absent} \cup
            {w \in Addr \X Slot :
               s.access.at[w[1]] >= 0 /\ w[2] \in s.access.slots[s.access.at[w[1]] + 1]}]

\* No copies are kept: a saved world is what undoing the journal gives.
Saved == [i \in DOMAIN frames |-> View(UndoTo(db, valid[Search(frames[i])].index))]

World == INSTANCE WorldState WITH world <- View(db), saved <- Saved, chain <- base

\* Every operation, revert, precompile call and commit of the journalled
\* StateDB is one step of the world it stands for: a revert restores
\* accounts, refund, logs, transient storage, access list and native state
\* exactly, a precompile sees what the EVM wrote before it, and what one pays
\* or takes is counted once: on the objects and in the bank for an ordinary
\* account, in the bank alone for a blocked one, which no flush overwrites.
ImplementsWorld == World!Spec

\* The type of the state, the shape of the access list included.
TypeOK ==
  /\ db.objs \in [Addr -> Object \cup {NoAccount}]
  /\ db.refund \in Nat /\ db.logs \in Nat
  /\ db.transient \in [Addr -> Val]
  /\ db.access.slots \in Seq((SUBSET Slot) \ {{}})
  /\ db.access.at \in [Addr -> Absent..(Len(db.access.slots) - 1)]
  /\ \A i \in DOMAIN db.layers : db.layers[i].acct \in [Addr -> Account \cup {NoAccount}]
  /\ \A i \in DOMAIN valid : valid[i].index \in 0..Len(db.journal) /\ valid[i].id < next
  /\ base.acct \in [Addr -> Account \cup {NoAccount}]
  /\ calls \in 0..(CounterSize - 1) /\ phase \in {"run", "done", "failed"}

\* The slots of an address that is about to be deleted are gone, and no other
\* address points beyond a cut.
AccessListUnwinds ==
  \A i \in DOMAIN db.journal :
    LET e == db.journal[i]
        after == UndoTo(db, i).access
    IN  /\ e.kind = "addr" => after.at[e.addr] = -1
        /\ e.kind = "slot" /\ after.slots[after.at[e.addr] + 1] = {e.slot}
             => \A b \in Addr \ {e.addr} : after.at[b] < after.at[e.addr]

LayersMatchJournal ==
  LET marks == {i \in DOMAIN db.journal : db.journal[i].kind = "precompile"}
  IN  /\ Cardinality(marks) = Len(db.layers)
      /\ \A i \in marks : db.journal[i].snapshot = Cardinality({j \in marks : j < i})

\* What the blind Revert methods rely on, at every depth of the journal.
\* accessListAddAccountChange deletes the address without a look at its slots
\* and DeleteSlot cuts the slot list at the address's index, which the
\* comments justify by the order of the entries; precompileCallChange cuts
\* the store stack at a number it kept: the layers are those of the calls
\* still in the journal, in order, so undoing one drops its layer and none
\* below it.
JournalUnwinds == AccessListUnwinds /\ LayersMatchJournal
=============================================================================
