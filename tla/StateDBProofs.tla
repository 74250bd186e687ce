--------------------------- MODULE StateDBProofs ---------------------------
(***************************************************************************)
(* Proofs about StateDB.  The argument is about the journal: what undoing  *)
(* it down to a position gives is fixed when the position is passed, but   *)
(* for objects that were loaded since and slots that an undone write left  *)
(* in dirtyStorage, which stand for the same world.  So a frame's snapshot *)
(* stays the state it was taken in, whatever is appended to the journal.   *)
(***************************************************************************)
EXTENDS StateDB, FoldFacts, SequenceTheorems, TLAPS

-----------------------------------------------------------------------------
(* The state.                                                              *)

\* The entries of the journal.
Entry ==
  [kind : {"create", "contract"}, addr : Addr]
  \cup [kind : {"destroy"}, addr : Addr, prev : BOOLEAN, bal : Nat]
  \cup [kind : {"balance"}, addr : Addr, prev : Nat]
  \cup [kind : {"code"}, addr : Addr, prev : {0, 1}]
  \cup [kind : {"storage", "transient"}, addr : Addr, prev : Val]
  \cup [kind : {"refund"}, prev : Nat] \cup [kind : {"log"}]
  \cup [kind : {"addr"}, addr : Addr] \cup [kind : {"slot"}, addr : Addr, slot : Slot]
  \cup [kind : {"precompile"}, snapshot : Nat]

AccessList == [at : [Addr -> Int], slots : Seq(SUBSET Slot)]

Db == [objs : [Addr -> Object \cup {NoAccount}], refund : Nat, logs : Nat,
       transient : [Addr -> Val], access : AccessList, layers : Seq(Store),
       journal : Seq(Entry)]

\* Addresses point into the list of slot sets, each at its own, and none of
\* those is empty.
ListOk(l) ==
  /\ \A i \in 1..Len(l.slots) : l.slots[i] # {}
  /\ \A a \in Addr : l.at[a] \in Absent..(Len(l.slots) - 1)
  /\ \A a, b \in Addr : l.at[a] = l.at[b] /\ l.at[a] >= 0 => a = b

AccessOk(s) == ListOk(s.access)

Marks(j) == {i \in DOMAIN j : j[i].kind = "precompile"}

\* One layer per precompile call in the journal.
LayersOk(s) ==
  /\ Cardinality(Marks(s.journal)) = Len(s.layers)
  /\ \A i \in Marks(s.journal) :
       s.journal[i].snapshot = Cardinality({k \in Marks(s.journal) : k < i})

-----------------------------------------------------------------------------
(* Objects and the store B of the transaction.                             *)

\* What getStateObject loads.
Opening(B, a) == [Fresh EXCEPT !.bal = B.acct[a].bal, !.code = B.acct[a].code]

\* The slot of an account that has none in dirtyStorage.
Held(store, a) == IF store.acct[a] = NoAccount THEN 0 ELSE store.acct[a].slot

TopOf(B, s) == IF s.layers = <<>> THEN B ELSE Last(s.layers)

\* An object no entry says was modified is what the store holds.
Unmodified(B, s, a) ==
  /\ TopOf(B, s).acct[a] = B.acct[a]
  /\ s.objs[a] # NoAccount =>
       /\ B.acct[a] # NoAccount
       /\ s.objs[a].bal = B.acct[a].bal /\ s.objs[a].code = B.acct[a].code
       /\ s.objs[a].slot \in {Clean, Held(B, a)} /\ ~s.objs[a].dead

\* A flush writes what the objects stand for, and loses no slot.
Sound(B, s, a) ==
  /\ a \in Dirty(s) => s.objs[a] # NoAccount
  /\ (s.objs[a] = NoAccount \/ s.objs[a].slot = Clean) => Held(TopOf(B, s), a) = Held(B, a)
  /\ s.objs[a] # NoAccount =>
       (s.objs[a].dead => s.objs[a].new) /\ (s.objs[a].new => Held(B, a) = 0)

\* Whole but for the accounts X, whose layer has changed under their objects.
WholeBut(B, s, X) ==
  /\ s \in Db /\ AccessOk(s) /\ LayersOk(s)
  /\ \A a \in Addr : Sound(B, s, a)
  /\ \A a \in Addr \ X : a \notin Dirty(s) => Unmodified(B, s, a)

Whole(B, s) == WholeBut(B, s, {})

-----------------------------------------------------------------------------
(* Undoing.                                                                *)

OfObject == {"contract", "destroy", "balance", "code", "storage"}

\* What the last entry finds when it is undone in s.
Fits(s, e) ==
  /\ e.kind \in OfObject => s.objs[e.addr] # NoAccount
  /\ e.kind = "log" => s.logs > 0
  /\ e.kind = "addr" => s.access.at[e.addr] = -1
  /\ e.kind = "slot" =>
       /\ s.access.at[e.addr] \in 0..(Len(s.access.slots) - 1)
       /\ s.access.slots[s.access.at[e.addr] + 1] = {e.slot} =>
            \A b \in Addr \ {e.addr} : s.access.at[b] < s.access.at[e.addr]
  /\ e.kind = "precompile" => e.snapshot \in 0..Len(s.layers)

-----------------------------------------------------------------------------
(* Records.                                                                *)

\* The fields each kind of journal entry carries, with their types.
LEMMA EntryFields ==
  ASSUME NEW e \in Entry
  PROVE  /\ e.kind \in {"create", "contract", "destroy", "balance", "code", "storage",
                        "transient", "refund", "log", "addr", "slot", "precompile"}
         /\ e.kind \in {"create", "contract", "destroy", "balance", "code", "storage",
                        "transient", "addr", "slot"} => e.addr \in Addr
         /\ e.kind = "destroy" => e.prev \in BOOLEAN /\ e.bal \in Nat
         /\ e.kind \in {"balance", "refund"} => e.prev \in Nat
         /\ e.kind = "code" => e.prev \in {0, 1}
         /\ e.kind \in {"storage", "transient"} => e.prev \in Val
         /\ e.kind = "slot" => e.slot \in Slot
         /\ e.kind = "precompile" => e.snapshot \in Nat
BY DEF Entry

\* The fields of a StateDB with their types.
LEMMA DbFields ==
  ASSUME NEW s \in Db
  PROVE  /\ s.objs \in [Addr -> Object \cup {NoAccount}] /\ s.refund \in Nat /\ s.logs \in Nat
         /\ s.transient \in [Addr -> Val] /\ s.access \in AccessList
         /\ s.layers \in Seq(Store) /\ s.journal \in Seq(Entry)
         /\ s.access.at \in [Addr -> Int] /\ s.access.slots \in Seq(SUBSET Slot)
BY DEF Db, AccessList

\* A state is its seven fields.
LEMMA SameDb ==
  ASSUME NEW s \in Db, NEW t \in Db,
         s.objs = t.objs, s.refund = t.refund, s.logs = t.logs, s.transient = t.transient,
         s.access = t.access, s.layers = t.layers, s.journal = t.journal
  PROVE  s = t
BY DEF Db

\* Replacing the objects of a StateDB leaves its other fields alone.
LEMMA SetObjs ==
  ASSUME NEW s \in Db, NEW o \in [Addr -> Object \cup {NoAccount}]
  PROVE  LET t == [s EXCEPT !.objs = o]
         IN  /\ t \in Db /\ t.objs = o /\ t.refund = s.refund /\ t.logs = s.logs
             /\ t.transient = s.transient /\ t.access = s.access /\ t.layers = s.layers
             /\ t.journal = s.journal
BY DEF Db

\* Replacing the journal of a StateDB leaves its other fields alone.
LEMMA SetJournal ==
  ASSUME NEW s \in Db, NEW j \in Seq(Entry)
  PROVE  LET t == [s EXCEPT !.journal = j]
         IN  /\ t \in Db /\ t.objs = s.objs /\ t.refund = s.refund /\ t.logs = s.logs
             /\ t.transient = s.transient /\ t.access = s.access /\ t.layers = s.layers
             /\ t.journal = j
BY DEF Db

\* The fields of the Db that are not objects or the journal.
SideEq(s, t) ==
  /\ t.refund = s.refund /\ t.logs = s.logs /\ t.transient = s.transient
  /\ t.access = s.access /\ t.layers = s.layers

\* The fields of a state object with their types.
LEMMA ObjectFields ==
  ASSUME NEW x \in Object
  PROVE  /\ x.bal \in Nat /\ x.code \in {0, 1} /\ x.slot \in Val \cup {Clean}
         /\ x.dead \in BOOLEAN /\ x.new \in BOOLEAN /\ x # NoAccount
BY StateDBAssumption DEF Object

\* One field of an object is set.
LEMMA SetField ==
  ASSUME NEW x \in Object
  PROVE  /\ \A v \in Nat : LET y == [x EXCEPT !.bal = v]
                          IN  /\ y \in Object /\ y.bal = v /\ y.code = x.code
                              /\ y.slot = x.slot /\ y.dead = x.dead /\ y.new = x.new
         /\ \A v \in {0, 1} : LET y == [x EXCEPT !.code = v]
                          IN  /\ y \in Object /\ y.bal = x.bal /\ y.code = v
                              /\ y.slot = x.slot /\ y.dead = x.dead /\ y.new = x.new
         /\ \A v \in Val \cup {Clean} : LET y == [x EXCEPT !.slot = v]
                          IN  /\ y \in Object /\ y.bal = x.bal /\ y.code = x.code
                              /\ y.slot = v /\ y.dead = x.dead /\ y.new = x.new
         /\ \A v \in BOOLEAN : LET y == [x EXCEPT !.new = v]
                          IN  /\ y \in Object /\ y.bal = x.bal /\ y.code = x.code
                              /\ y.slot = x.slot /\ y.dead = x.dead /\ y.new = v
         /\ \A v \in BOOLEAN, w \in Nat : LET y == [x EXCEPT !.dead = v, !.bal = w]
                          IN  /\ y \in Object /\ y.bal = w /\ y.code = x.code
                              /\ y.slot = x.slot /\ y.dead = v /\ y.new = x.new
BY DEF Object

\* An object is its five fields.
LEMMA SameObject ==
  ASSUME NEW x \in Object, NEW y \in Object,
         x.bal = y.bal, x.code = y.code, x.slot = y.slot, x.dead = y.dead, x.new = y.new
  PROVE  x = y
BY DEF Object

-----------------------------------------------------------------------------
(* One entry.                                                              *)

OnObject == OfObject \cup {"create"}

\* What the entries of an account make of its object.
UndoneObject(x, e) ==
  CASE e.kind = "create"   -> NoAccount
    [] e.kind = "contract" -> [x EXCEPT !.new = FALSE]
    [] e.kind = "destroy"  -> [x EXCEPT !.dead = e.prev, !.bal = e.bal]
    [] e.kind = "balance"  -> [x EXCEPT !.bal = e.prev]
    [] e.kind = "code"     -> [x EXCEPT !.code = e.prev]
    [] e.kind = "storage"  -> [x EXCEPT !.slot = e.prev]

\* Reverting an entry on an object yields an object or none.
LEMMA UndoneType ==
  ASSUME NEW e \in Entry, e.kind \in OnObject, NEW x, e.kind \in OfObject => x \in Object
  PROVE  UndoneObject(x, e) \in Object \cup {NoAccount}
<1>1. CASE e.kind = "create"
  BY <1>1 DEF UndoneObject
<1>2. CASE e.kind = "contract"
  <2>1. x \in Object /\ FALSE \in BOOLEAN
    BY <1>2 DEF OfObject
  <2>2. [x EXCEPT !.new = FALSE] \in Object
    BY <2>1 DEF Object
  <2> QED BY <1>2, <2>2 DEF UndoneObject
<1>3. CASE e.kind = "destroy"
  <2>1. x \in Object /\ e.prev \in BOOLEAN /\ e.bal \in Nat
    BY <1>3, EntryFields DEF OfObject
  <2>2. [x EXCEPT !.dead = e.prev, !.bal = e.bal] \in Object
    BY <2>1, SetField
  <2> QED BY <1>3, <2>2 DEF UndoneObject
<1>4. CASE e.kind = "balance"
  <2>1. x \in Object /\ e.prev \in Nat
    BY <1>4, EntryFields DEF OfObject
  <2>2. [x EXCEPT !.bal = e.prev] \in Object
    BY <2>1, SetField
  <2> QED BY <1>4, <2>2 DEF UndoneObject
<1>5. CASE e.kind = "code"
  <2>1. x \in Object /\ e.prev \in {0, 1}
    BY <1>5, EntryFields DEF OfObject
  <2>2. [x EXCEPT !.code = e.prev] \in Object
    BY <2>1, SetField
  <2> QED BY <1>5, <2>2 DEF UndoneObject
<1>6. CASE e.kind = "storage"
  <2>1. x \in Object /\ e.prev \in Val \cup {Clean}
    BY <1>6, EntryFields DEF OfObject
  <2>2. [x EXCEPT !.slot = e.prev] \in Object
    BY <2>1, SetField
  <2> QED BY <1>6, <2>2 DEF UndoneObject
<1> QED BY <1>1, <1>2, <1>3, <1>4, <1>5, <1>6 DEF OnObject, OfObject

\* The entries of an account undo its object and nothing else.
LEMMA UndoObject ==
  ASSUME NEW s \in Db, NEW e \in Entry, e.kind \in OnObject, Fits(s, e)
  PROVE  LET u == Undo(s, e)
         IN  /\ u \in Db /\ SideEq(s, u) /\ u.journal = s.journal
             /\ u.objs = [s.objs EXCEPT ![e.addr] = UndoneObject(s.objs[e.addr], e)]
<1> DEFINE x == s.objs[e.addr]
           o == [s.objs EXCEPT ![e.addr] = UndoneObject(x, e)]
           t == [s EXCEPT !.objs = o]
<1>1. e.addr \in Addr /\ s.objs \in [Addr -> Object \cup {NoAccount}]
  BY EntryFields, DbFields DEF OnObject, OfObject
<1>2. e.kind \in OfObject => x \in Object
  BY <1>1 DEF Fits
<1>3. o \in [Addr -> Object \cup {NoAccount}]
  <2>1. UndoneObject(x, e) \in Object \cup {NoAccount}
    BY <1>2, UndoneType
  <2> QED BY <1>1, <2>1
<1>4. Undo(s, e) = t
  <2>1. CASE e.kind = "create"
    BY <2>1 DEF Undo, UndoneObject
  <2>2. CASE e.kind = "contract"
    BY <2>2 DEF Undo, UndoneObject
  <2>3. CASE e.kind = "destroy"
    <3>1. Undo(s, e) = [s EXCEPT !.objs[e.addr].dead = e.prev, !.objs[e.addr].bal = e.bal]
      BY <2>3 DEF Undo
    <3>2. UndoneObject(x, e) = [x EXCEPT !.dead = e.prev, !.bal = e.bal]
      BY <2>3 DEF UndoneObject
    <3> QED BY <1>1, <3>1, <3>2 DEF Db
  <2>4. CASE e.kind = "balance"
    BY <2>4 DEF Undo, UndoneObject
  <2>5. CASE e.kind = "code"
    BY <2>5 DEF Undo, UndoneObject
  <2>6. CASE e.kind = "storage"
    BY <2>6 DEF Undo, UndoneObject
  <2> QED BY <2>1, <2>2, <2>3, <2>4, <2>5, <2>6 DEF OnObject, OfObject
<1> HIDE DEF o
<1>5. t \in Db /\ t.objs = o /\ SideEq(s, t) /\ t.journal = s.journal
  BY <1>3, SetObjs DEF SideEq
<1> QED BY <1>4, <1>5 DEF o

\* deleteSlot of the access list yields an access list when the address has a slot set.
LEMMA DeleteSlotType ==
  ASSUME NEW l \in AccessList, NEW a \in Addr, NEW k,
         l.at[a] \in 0..(Len(l.slots) - 1)
  PROVE  DeleteSlot(l, a, k) \in AccessList
<1> DEFINE at == l.at[a]
           left == l.slots[at + 1] \ {k}
<1>1. l.at \in [Addr -> Int] /\ l.slots \in Seq(SUBSET Slot) /\ at + 1 \in 1..Len(l.slots)
      /\ at \in Nat
  BY DEF AccessList
<1>2. left \in SUBSET Slot
  BY <1>1
<1>3. SubSeq(l.slots, 1, at) \in Seq(SUBSET Slot)
  BY <1>1
<1>4. [at |-> [l.at EXCEPT ![a] = -1], slots |-> SubSeq(l.slots, 1, at)] \in AccessList
  BY <1>1, <1>3 DEF AccessList
<1>5. [l EXCEPT !.slots[at + 1] = left] \in AccessList
  <2>1. [l.slots EXCEPT ![at + 1] = left] \in Seq(SUBSET Slot)
    BY <1>1, <1>2, ExceptSeq
  <2> QED BY <2>1 DEF AccessList
<1> QED BY <1>4, <1>5 DEF DeleteSlot

\* What the other entries make of the other fields.
UndoneTransient(x, e) == IF e.kind = "transient" THEN [x EXCEPT ![e.addr] = e.prev] ELSE x
UndoneRefund(x, e) == IF e.kind = "refund" THEN e.prev ELSE x
UndoneLogs(x, e) == IF e.kind = "log" THEN x - 1 ELSE x
UndoneLayers(x, e) == IF e.kind = "precompile" THEN SubSeq(x, 1, e.snapshot) ELSE x
UndoneAccess(x, e) ==
  IF e.kind = "addr" THEN [x EXCEPT !.at = [x.at EXCEPT ![e.addr] = Absent]]
  ELSE IF e.kind = "slot" THEN DeleteSlot(x, e.addr, e.slot) ELSE x
UndoneObjs(x, e) ==
  IF e.kind \in OnObject THEN [x EXCEPT ![e.addr] = UndoneObject(x[e.addr], e)] ELSE x

Undone(s, u, e) ==
  /\ u \in Db /\ u.journal = s.journal
  /\ u.objs = UndoneObjs(s.objs, e)
  /\ u.transient = UndoneTransient(s.transient, e) /\ u.refund = UndoneRefund(s.refund, e)
  /\ u.logs = UndoneLogs(s.logs, e) /\ u.layers = UndoneLayers(s.layers, e)
  /\ u.access = UndoneAccess(s.access, e)

\* The fields of an undone state.
LEMMA UndoFields ==
  ASSUME NEW s \in Db, NEW e \in Entry, Fits(s, e)
  PROVE  Undone(s, Undo(s, e), e)
<1> DEFINE u == Undo(s, e)
<1> USE DEF UndoneTransient, UndoneRefund, UndoneLogs, UndoneLayers, UndoneAccess,
            UndoneObjs, Undone, OnObject, OfObject
<1>0. /\ s.transient \in [Addr -> Val] /\ s.access \in AccessList /\ s.layers \in Seq(Store)
      /\ s.logs \in Nat
  BY DbFields
<1>1. CASE e.kind = "transient"
  <2> DEFINE v == [s.transient EXCEPT ![e.addr] = e.prev]
  <2>1. u = [s EXCEPT !.transient = v]
    BY <1>1 DEF Undo
  <2>2. v \in [Addr -> Val]
    BY <1>0, <1>1, EntryFields
  <2>3. /\ u \in Db /\ u.transient = v
        /\ u.objs = s.objs /\ u.refund = s.refund /\ u.logs = s.logs
        /\ u.access = s.access /\ u.layers = s.layers /\ u.journal = s.journal
    <3> HIDE DEF v, u
    <3> QED BY <2>1, <2>2 DEF Db
  <2> QED BY <1>1, <2>3
<1>2. CASE e.kind = "refund"
  <2>1. u = [s EXCEPT !.refund = e.prev]
    BY <1>2 DEF Undo
  <2>2. e.prev \in Nat
    BY <1>2, EntryFields
  <2>3. /\ u \in Db /\ u.refund = e.prev
        /\ u.objs = s.objs /\ u.transient = s.transient /\ u.logs = s.logs
        /\ u.access = s.access /\ u.layers = s.layers /\ u.journal = s.journal
    <3> HIDE DEF u
    <3> QED BY <2>1, <2>2 DEF Db
  <2> QED BY <1>2, <2>3
<1>3. CASE e.kind = "log"
  <2> DEFINE v == s.logs - 1
  <2>1. u = [s EXCEPT !.logs = v]
    BY <1>3 DEF Undo
  <2>2. v \in Nat
    BY <1>0, <1>3 DEF Fits
  <2>3. /\ u \in Db /\ u.logs = v
        /\ u.objs = s.objs /\ u.transient = s.transient /\ u.refund = s.refund
        /\ u.access = s.access /\ u.layers = s.layers /\ u.journal = s.journal
    <3> HIDE DEF v, u
    <3> QED BY <2>1, <2>2 DEF Db
  <2> QED BY <1>3, <2>3
<1>4. CASE e.kind = "addr"
  <2> DEFINE v == [s.access EXCEPT !.at = [s.access.at EXCEPT ![e.addr] = Absent]]
  <2>1. u = [s EXCEPT !.access = v]
    <3>1. u = [s EXCEPT !.access.at[e.addr] = Absent]
      BY <1>4 DEF Undo
    <3> HIDE DEF u
    <3> QED BY <3>1
  <2>2. v \in AccessList
    <3>1. [s.access.at EXCEPT ![e.addr] = Absent] \in [Addr -> Int]
      <4>1. Absent \in Int
        BY DEF Absent
      <4> QED BY <1>0, <4>1 DEF AccessList
    <3> HIDE DEF Absent
    <3> QED BY <1>0, <3>1 DEF AccessList
  <2>3. /\ u \in Db /\ u.access = v
        /\ u.objs = s.objs /\ u.transient = s.transient /\ u.refund = s.refund
        /\ u.logs = s.logs /\ u.layers = s.layers /\ u.journal = s.journal
    <3> HIDE DEF v, u
    <3> QED BY <2>1, <2>2 DEF Db
  <2> QED BY <1>4, <2>3
<1>5. CASE e.kind = "slot"
  <2> DEFINE v == DeleteSlot(s.access, e.addr, e.slot)
  <2>1. u = [s EXCEPT !.access = v]
    BY <1>5 DEF Undo
  <2>2. v \in AccessList
    BY <1>0, <1>5, EntryFields, DeleteSlotType DEF Fits
  <2>3. /\ u \in Db /\ u.access = v
        /\ u.objs = s.objs /\ u.transient = s.transient /\ u.refund = s.refund
        /\ u.logs = s.logs /\ u.layers = s.layers /\ u.journal = s.journal
    <3> HIDE DEF v, u
    <3> QED BY <2>1, <2>2 DEF Db
  <2> QED BY <1>5, <2>3
<1>6. CASE e.kind = "precompile"
  <2> DEFINE v == SubSeq(s.layers, 1, e.snapshot)
  <2>1. u = [s EXCEPT !.layers = v]
    BY <1>6 DEF Undo
  <2>2. v \in Seq(Store)
    BY <1>0, <1>6 DEF Fits
  <2>3. /\ u \in Db /\ u.layers = v
        /\ u.objs = s.objs /\ u.transient = s.transient /\ u.refund = s.refund
        /\ u.access = s.access /\ u.logs = s.logs /\ u.journal = s.journal
    <3> HIDE DEF v, u
    <3> QED BY <2>1, <2>2 DEF Db
  <2> QED BY <1>6, <2>3
<1>7. CASE e.kind \in OnObject
  <2>1. /\ u \in Db /\ SideEq(s, u) /\ u.journal = s.journal
        /\ u.objs = [s.objs EXCEPT ![e.addr] = UndoneObject(s.objs[e.addr], e)]
    BY <1>7, UndoObject
  <2>2. e.kind \notin {"transient", "refund", "log", "addr", "slot", "precompile"}
    BY <1>7
  <2>3. Undone(s, u, e)
    <3> HIDE DEF u, OnObject, OfObject
    <3> QED BY <1>7, <2>1, <2>2 DEF SideEq
  <2> QED BY <2>3
<1> QED BY <1>1, <1>2, <1>3, <1>4, <1>5, <1>6, <1>7, EntryFields

-----------------------------------------------------------------------------
(* The whole journal.  Unwound(s)[n] is s with the entries above n undone. *)

Unwinds(f, s) ==
  /\ f = [i \in 0..Len(s.journal) |-> f[i]]
  /\ f[Len(s.journal)] = s
  /\ \A i \in 0..(Len(s.journal) - 1) : f[i] = Undo(f[i + 1], s.journal[i + 1])

Unwound(s) == CHOOSE f : Unwinds(f, s)

\* The recursive function that undoes a journal entry by entry is well defined.
LEMMA UnwoundExists ==
  ASSUME NEW s, Len(s.journal) \in Nat
  PROVE  Unwinds(Unwound(s), s)
<1> DEFINE L == Len(s.journal)
           From(f, k) == /\ f = [i \in (L - k)..L |-> f[i]]
                         /\ f[L] = s
                         /\ \A i \in (L - k)..(L - 1) : f[i] = Undo(f[i + 1], s.journal[i + 1])
           K == {k \in Nat : k <= L => \E f : From(f, k)}
<1>1. 0 \in K
  <2>1. From([i \in (L - 0)..L |-> s], 0)
    OBVIOUS
  <2> QED BY <2>1
<1>2. \A k \in Nat : k \in K => k + 1 \in K
  <2> SUFFICES ASSUME NEW k \in Nat, \E f : From(f, k), k + 1 <= L
               PROVE  \E f : From(f, k + 1)
    <3>1. \A k \in Nat : k + 1 <= L => k <= L
      OBVIOUS
    <3> HIDE DEF From
    <3> QED BY <3>1
  <2>1. PICK f : From(f, k)
    OBVIOUS
  <2> DEFINE m == L - (k + 1)
             g == [i \in m..L |-> IF i = m THEN Undo(f[m + 1], s.journal[m + 1]) ELSE f[i]]
  <2>2. m \in Nat /\ L - k = m + 1 /\ L - (k + 1) = m /\ m < L
    OBVIOUS
  <2>3. g = [i \in m..L |-> g[i]]
    OBVIOUS
  <2>4. g[L] = s
    BY <2>1, <2>2
  <2>5. \A i \in m..(L - 1) : g[i] = Undo(g[i + 1], s.journal[i + 1])
    <3> SUFFICES ASSUME NEW i \in m..(L - 1) PROVE g[i] = Undo(g[i + 1], s.journal[i + 1])
      OBVIOUS
    <3>0. m \in Int /\ i \in Int /\ i \in m..L /\ i + 1 \in m..L /\ i + 1 # m
      BY <2>2
    <3>1. g[i + 1] = f[i + 1]
      BY <3>0
    <3>2. CASE i = m
      <4>1. g[i] = Undo(f[m + 1], s.journal[m + 1])
        BY <3>0, <3>2
      <4> QED BY <3>1, <3>2, <4>1
    <3>3. CASE i # m
      <4>1. i \in (L - k)..(L - 1)
        BY <2>2, <3>3
      <4>2. g[i] = f[i]
        BY <3>0, <3>3
      <4> QED BY <2>1, <3>1, <4>1, <4>2
    <3> QED BY <3>2, <3>3
  <2> HIDE DEF g
  <2>6. From(g, k + 1)
    BY <2>2, <2>3, <2>4, <2>5
  <2> QED BY <2>6
<1>3. L \in K
  <2> HIDE DEF K
  <2> QED BY <1>1, <1>2, NatSetInduction
<1>4. PICK f : From(f, L)
  BY <1>3
<1>5. Unwinds(f, s)
  <2>1. L - L = 0
    OBVIOUS
  <2> QED BY <1>4, <2>1 DEF Unwinds
<1> QED BY <1>5 DEF Unwound

\* UndoTo, by the unwound states.
LEMMA UndoToIs ==
  ASSUME NEW s, Len(s.journal) \in Nat, NEW n \in 0..Len(s.journal)
  PROVE  LET u == Unwound(s)[n]
         IN  UndoTo(s, n) = [u EXCEPT !.journal = SubSeq(u.journal, 1, n)]
<1> DEFINE L == Len(s.journal)
           f == Unwound(s)
           Fix(g) == g = [i \in n..L |-> IF i = L THEN s ELSE Undo(g[i + 1], s.journal[i + 1])]
           undone == CHOOSE g : Fix(g)
           h == [i \in n..L |-> f[i]]
<1>1. Unwinds(f, s)
  BY UnwoundExists
<1>2. Fix(h)
  <2> DEFINE b == [i \in n..L |-> IF i = L THEN s ELSE Undo(h[i + 1], s.journal[i + 1])]
  <2>1. ASSUME NEW i \in n..L PROVE h[i] = b[i]
    <3>1. CASE i = L
      BY <1>1, <3>1 DEF Unwinds
    <3>2. CASE i # L
      <4>1. i \in 0..(L - 1) /\ i + 1 \in n..L
        BY <3>2
      <4>2. f[i] = Undo(f[i + 1], s.journal[i + 1])
        BY <1>1, <4>1 DEF Unwinds
      <4>3. h[i] = f[i] /\ h[i + 1] = f[i + 1]
        BY <4>1
      <4>4. b[i] = Undo(h[i + 1], s.journal[i + 1])
        BY <3>2
      <4> QED BY <4>2, <4>3, <4>4
    <3> QED BY <3>1, <3>2
  <2> QED BY <2>1
<1>3. Fix(undone)
  <2> HIDE DEF h, Fix
  <2> QED BY <1>2
<1> HIDE DEF undone, h, f
<1>4. undone[n] = f[n]
  <2> DEFINE K == {k \in Nat : k <= L - n => undone[L - k] = f[L - k]}
  <2>1. 0 \in K
    <3>1. undone[L] = s /\ f[L] = s
      BY <1>1, <1>3 DEF Unwinds
    <3> QED BY <3>1
  <2>2. \A k \in Nat : k \in K => k + 1 \in K
    <3> SUFFICES ASSUME NEW k \in Nat, k \in K, k + 1 <= L - n
                 PROVE  undone[L - (k + 1)] = f[L - (k + 1)]
      OBVIOUS
    <3> DEFINE i == L - (k + 1)
    <3>1. i \in n..L /\ i # L /\ i + 1 = L - k /\ i \in 0..(L - 1) /\ k <= L - n
      OBVIOUS
    <3>2. undone[i] = Undo(undone[i + 1], s.journal[i + 1])
      BY <1>3, <3>1
    <3>3. f[i] = Undo(f[i + 1], s.journal[i + 1])
      BY <1>1, <3>1 DEF Unwinds
    <3>4. undone[i + 1] = f[i + 1]
      BY <3>1
    <3> QED BY <3>2, <3>3, <3>4
  <2>3. L - n \in K /\ L - (L - n) = n
    <3>1. L - n \in Nat /\ L - (L - n) = n
      OBVIOUS
    <3> HIDE DEF K, L
    <3>2. Nat \subseteq K
      BY <2>1, <2>2, NatSetInduction
    <3> QED BY <3>1, <3>2
  <2> QED BY <2>3
<1>5. UndoTo(s, n) = [undone[n] EXCEPT !.journal = SubSeq(undone[n].journal, 1, n)]
  BY DEF UndoTo, undone
<1> QED BY <1>4, <1>5 DEF f

-----------------------------------------------------------------------------
(* States that stand for the same world.  An object may have been loaded,  *)
(* and a slot may have been put into dirtyStorage, since.                  *)

Same(B, a, x, y) ==
  \/ y = x
  \/ /\ x = NoAccount /\ B.acct[a] # NoAccount
     /\ y = Opening(B, a) \/ y = [Opening(B, a) EXCEPT !.slot = Held(B, a)]
  \/ x \in Object /\ x.slot = Clean /\ y = [x EXCEPT !.slot = Held(B, a)]

Sim(B, s, t) ==
  /\ s \in Db /\ t \in Db /\ SideEq(s, t)
  /\ \A a \in Addr : Same(B, a, s.objs[a], t.objs[a])

\* What the committed store holds of an address, with its type; a stored slot is never the mark
\* of a clean one.
LEMMA StoreFacts ==
  ASSUME NEW B \in Store, NEW a \in Addr
  PROVE  /\ B.acct \in [Addr -> Account \cup {NoAccount}]
         /\ B.acct[a] # NoAccount => B.acct[a] \in Account
         /\ Held(B, a) \in Val /\ Held(B, a) \in Nat /\ Held(B, a) # Clean
<1>1. B.acct \in [Addr -> Account \cup {NoAccount}]
  BY DEF Store
<1>2. B.acct[a] # NoAccount => B.acct[a] \in Account
  BY <1>1
<1>3. B.acct[a] \in Account => B.acct[a].slot \in Val
  BY DEF Account
<1> QED BY <1>1, <1>2, <1>3, StateDBAssumption DEF Held

\* An object as it is loaded from the store, with its slot clean or cached.
LEMMA OpeningFields ==
  ASSUME NEW B \in Store, NEW a \in Addr, B.acct[a] # NoAccount
  PROVE  LET x == Opening(B, a)
             y == [x EXCEPT !.slot = Held(B, a)]
         IN  /\ x \in Object /\ x.bal = B.acct[a].bal /\ x.code = B.acct[a].code
             /\ x.slot = Clean /\ ~x.dead /\ ~x.new
             /\ y \in Object /\ y.bal = B.acct[a].bal /\ y.code = B.acct[a].code
             /\ y.slot = Held(B, a) /\ ~y.dead /\ ~y.new
<1>1. B.acct[a] \in Account /\ Held(B, a) \in Val
  BY StoreFacts
<1>2. B.acct[a].bal \in Nat /\ B.acct[a].code \in {0, 1}
  BY <1>1 DEF Account
<1> DEFINE x == Opening(B, a)
<1>3. Fresh \in Object /\ Fresh.dead = FALSE /\ Fresh.new = FALSE /\ Fresh.slot = Clean
  BY DEF Fresh, Object
<1>4. /\ x \in Object /\ x.bal = B.acct[a].bal /\ x.code = B.acct[a].code
      /\ x.slot = Clean /\ x.dead = Fresh.dead /\ x.new = Fresh.new
  <2> DEFINE z == [Fresh EXCEPT !.bal = B.acct[a].bal]
  <2>1. /\ z \in Object /\ z.bal = B.acct[a].bal /\ z.slot = Clean
        /\ z.dead = Fresh.dead /\ z.new = Fresh.new
    BY <1>2, <1>3 DEF Object
  <2>2. x = [z EXCEPT !.code = B.acct[a].code]
    BY DEF Opening
  <2> HIDE DEF z, x
  <2> QED BY <1>2, <2>1, <2>2 DEF Object
<1> HIDE DEF x
<1>5. /\ [x EXCEPT !.slot = Held(B, a)] \in Object
      /\ [x EXCEPT !.slot = Held(B, a)].bal = x.bal
      /\ [x EXCEPT !.slot = Held(B, a)].code = x.code
      /\ [x EXCEPT !.slot = Held(B, a)].slot = Held(B, a)
      /\ [x EXCEPT !.slot = Held(B, a)].dead = x.dead
      /\ [x EXCEPT !.slot = Held(B, a)].new = x.new
  BY <1>1, <1>4 DEF Object
<1> QED BY <1>3, <1>4, <1>5 DEF x

\* Two objects that differ only by what a load caches: the relation is transitive.
LEMMA SameTransitive ==
  ASSUME NEW B \in Store, NEW a \in Addr, NEW x \in Object \cup {NoAccount}, NEW y, NEW z,
         Same(B, a, x, y), Same(B, a, y, z)
  PROVE  Same(B, a, x, z)
<1>0. Held(B, a) # Clean /\ Held(B, a) \in Val /\ NoAccount \notin Object
  BY StoreFacts, StateDBAssumption
<1>1. CASE y = x
  BY <1>1
<1>2. CASE x = NoAccount /\ B.acct[a] # NoAccount /\ y = Opening(B, a)
  <2>1. y \in Object /\ y # NoAccount
    BY <1>0, <1>2, OpeningFields
  <2>2. z = y \/ z = [y EXCEPT !.slot = Held(B, a)]
    BY <2>1 DEF Same
  <2> QED BY <1>2, <2>2 DEF Same
<1>3. CASE /\ x = NoAccount /\ B.acct[a] # NoAccount
           /\ y = [Opening(B, a) EXCEPT !.slot = Held(B, a)]
  <2>1. y \in Object /\ y # NoAccount /\ y.slot # Clean
    BY <1>0, <1>3, OpeningFields
  <2>2. z = y
    BY <2>1 DEF Same
  <2> QED BY <2>2
<1>4. CASE x \in Object /\ x.slot = Clean /\ y = [x EXCEPT !.slot = Held(B, a)]
  <2>1. y \in Object /\ y # NoAccount /\ y.slot # Clean
    BY <1>0, <1>4 DEF Object
  <2>2. z = y
    BY <2>1 DEF Same
  <2> QED BY <2>2
<1> QED BY <1>1, <1>2, <1>3, <1>4 DEF Same

\* Likewise for whole StateDBs.
LEMMA SimTransitive ==
  ASSUME NEW B \in Store, NEW s, NEW t, NEW u, Sim(B, s, t), Sim(B, t, u)
  PROVE  Sim(B, s, u)
<1>1. s \in Db /\ t \in Db /\ u \in Db /\ SideEq(s, u)
  BY DEF Sim, SideEq
<1>2. ASSUME NEW a \in Addr PROVE Same(B, a, s.objs[a], u.objs[a])
  <2>1. Same(B, a, s.objs[a], t.objs[a]) /\ Same(B, a, t.objs[a], u.objs[a])
    BY DEF Sim
  <2>2. s.objs[a] \in Object \cup {NoAccount}
    BY <1>1, DbFields
  <2> QED BY <2>1, <2>2, SameTransitive
<1> QED BY <1>1, <1>2 DEF Sim

\* Undoing one entry keeps them the same.
LEMMA SameUndone ==
  ASSUME NEW B \in Store, NEW a \in Addr, NEW e \in Entry, e.kind \in OnObject,
         NEW x \in Object \cup {NoAccount}, NEW y, e.kind \in OfObject => x # NoAccount,
         Same(B, a, x, y)
  PROVE  Same(B, a, UndoneObject(x, e), UndoneObject(y, e))
<1> DEFINE h == Held(B, a)
<1>0. h \in Val \cup {Clean}
  BY StoreFacts
<1>1. CASE y = x
  BY <1>1 DEF Same
<1>2. CASE e.kind = "create"
  <2>1. UndoneObject(x, e) = NoAccount /\ UndoneObject(y, e) = NoAccount
    BY <1>2 DEF UndoneObject
  <2> QED BY <2>1 DEF Same
<1>3. CASE y # x /\ e.kind \in OfObject
  <2>1. x \in Object /\ x.slot = Clean /\ y = [x EXCEPT !.slot = h] /\ y \in Object
    <3>1. x \in Object /\ x # NoAccount
      BY <1>3
    <3>2. x.slot = Clean /\ y = [x EXCEPT !.slot = h]
      BY <1>3, <3>1 DEF Same
    <3> QED BY <1>0, <3>1, <3>2, SetField
  <2>2. y.bal = x.bal /\ y.code = x.code /\ y.slot = h /\ y.dead = x.dead /\ y.new = x.new
    BY <1>0, <2>1 DEF Object
  <2> HIDE DEF h
  <2>3. CASE e.kind = "storage"
    <3>1. e.prev \in Val \cup {Clean}
      BY <2>3, EntryFields
    <3>2. [x EXCEPT !.slot = e.prev] = [y EXCEPT !.slot = e.prev]
      BY <2>1 DEF Object
    <3>3. /\ UndoneObject(x, e) = [x EXCEPT !.slot = e.prev]
          /\ UndoneObject(y, e) = [y EXCEPT !.slot = e.prev]
      BY <2>3 DEF UndoneObject
    <3> QED BY <3>2, <3>3 DEF Same
  <2>4. CASE e.kind # "storage"
    <3>1. /\ UndoneObject(x, e) \in Object /\ UndoneObject(x, e).slot = Clean
          /\ UndoneObject(y, e) = [UndoneObject(x, e) EXCEPT !.slot = h]
      <4>1. CASE e.kind = "contract"
        <5> DEFINE b == FALSE
        <5>1. b \in BOOLEAN
          OBVIOUS
        <5>2. UndoneObject(x, e) = [x EXCEPT !.new = b] /\ UndoneObject(y, e) = [y EXCEPT !.new = b]
          BY <4>1 DEF UndoneObject
        <5> HIDE DEF b
        <5>3. [y EXCEPT !.new = b] = [[x EXCEPT !.new = b] EXCEPT !.slot = h]
          BY <2>1, <5>1 DEF Object
        <5> QED BY <2>1, <5>1, <5>2, <5>3 DEF Object
      <4>2. CASE e.kind = "destroy"
        <5>1. e.prev \in BOOLEAN /\ e.bal \in Nat
          BY <4>2, EntryFields
        <5>2. /\ UndoneObject(x, e) = [x EXCEPT !.dead = e.prev, !.bal = e.bal]
              /\ UndoneObject(y, e) = [y EXCEPT !.dead = e.prev, !.bal = e.bal]
          BY <4>2 DEF UndoneObject
        <5>3. [y EXCEPT !.dead = e.prev, !.bal = e.bal]
               = [[x EXCEPT !.dead = e.prev, !.bal = e.bal] EXCEPT !.slot = h]
          BY <2>1, <5>1 DEF Object
        <5> QED BY <2>1, <5>1, <5>2, <5>3 DEF Object
      <4>3. CASE e.kind = "balance"
        <5>1. e.prev \in Nat
          BY <4>3, EntryFields
        <5>2. UndoneObject(x, e) = [x EXCEPT !.bal = e.prev] /\ UndoneObject(y, e) = [y EXCEPT !.bal = e.prev]
          BY <4>3 DEF UndoneObject
        <5>3. [y EXCEPT !.bal = e.prev] = [[x EXCEPT !.bal = e.prev] EXCEPT !.slot = h]
          BY <2>1, <5>1 DEF Object
        <5> QED BY <2>1, <5>1, <5>2, <5>3 DEF Object
      <4>4. CASE e.kind = "code"
        <5>1. e.prev \in {0, 1}
          BY <4>4, EntryFields
        <5>2. UndoneObject(x, e) = [x EXCEPT !.code = e.prev] /\ UndoneObject(y, e) = [y EXCEPT !.code = e.prev]
          BY <4>4 DEF UndoneObject
        <5>3. [y EXCEPT !.code = e.prev] = [[x EXCEPT !.code = e.prev] EXCEPT !.slot = h]
          BY <2>1, <5>1 DEF Object
        <5> QED BY <2>1, <5>1, <5>2, <5>3 DEF Object
      <4> QED BY <1>3, <2>4, <4>1, <4>2, <4>3, <4>4 DEF OfObject
    <3> QED BY <3>1 DEF Same, h
  <2> QED BY <2>3, <2>4
<1> QED BY <1>1, <1>2, <1>3 DEF OnObject

\* StateDBs that differ only by loads still do after reverting the same entry.
LEMMA SimUndo ==
  ASSUME NEW B \in Store, NEW s, NEW t, Sim(B, s, t), NEW e \in Entry, Fits(s, e)
  PROVE  Fits(t, e) /\ Sim(B, Undo(s, e), Undo(t, e))
<1>0. /\ s \in Db /\ t \in Db /\ SideEq(s, t)
      /\ s.objs \in [Addr -> Object \cup {NoAccount}]
      /\ t.objs \in [Addr -> Object \cup {NoAccount}]
  BY DbFields DEF Sim
<1>1. Fits(t, e)
  <2>1. e.kind \in OfObject => t.objs[e.addr] # NoAccount
    <3> SUFFICES ASSUME e.kind \in OfObject PROVE t.objs[e.addr] # NoAccount
      OBVIOUS
    <3>1. e.addr \in Addr
      BY EntryFields DEF OfObject
    <3> DEFINE x == s.objs[e.addr]
               y == t.objs[e.addr]
    <3>2. x # NoAccount /\ x \in Object /\ Same(B, e.addr, x, y)
      BY <1>0, <3>1 DEF Fits, Sim
    <3>3. y = x \/ y = [x EXCEPT !.slot = Held(B, e.addr)]
      BY <3>2 DEF Same
    <3>4. Held(B, e.addr) \in Val /\ NoAccount \notin Object
      BY <3>1, StoreFacts, StateDBAssumption
    <3> HIDE DEF x
    <3>5. [x EXCEPT !.slot = Held(B, e.addr)] \in Object
      BY <3>2, <3>4 DEF Object
    <3> QED BY <3>2, <3>3, <3>4, <3>5
  <2> QED BY <1>0, <2>1 DEF Fits, SideEq
<1> DEFINE u == Undo(s, e)
           v == Undo(t, e)
<1>2. Undone(s, u, e) /\ Undone(t, v, e)
  BY <1>0, <1>1, UndoFields
<1> HIDE DEF u, v
<1>3. u \in Db /\ v \in Db /\ SideEq(u, v)
  BY <1>0, <1>2 DEF Undone, SideEq
<1>4. ASSUME NEW a \in Addr PROVE Same(B, a, u.objs[a], v.objs[a])
  <2>1. u.objs = UndoneObjs(s.objs, e) /\ v.objs = UndoneObjs(t.objs, e)
    BY <1>2 DEF Undone
  <2>2. Same(B, a, s.objs[a], t.objs[a])
    BY DEF Sim
  <2>3. CASE e.kind \in OnObject /\ e.addr = a
    <3>1. u.objs[a] = UndoneObject(s.objs[a], e) /\ v.objs[a] = UndoneObject(t.objs[a], e)
      BY <1>0, <2>1, <2>3 DEF UndoneObjs
    <3>2. e.kind \in OfObject => s.objs[a] # NoAccount
      BY <2>3 DEF Fits
    <3>3. s.objs[a] \in Object \cup {NoAccount}
      BY <1>0
    <3> QED BY <2>2, <2>3, <3>1, <3>2, <3>3, SameUndone
  <2>4. CASE ~(e.kind \in OnObject /\ e.addr = a)
    <3>1. u.objs[a] = s.objs[a] /\ v.objs[a] = t.objs[a]
      BY <1>0, <2>1, <2>4 DEF UndoneObjs
    <3> QED BY <2>2, <3>1
  <2> QED BY <2>3, <2>4
<1>5. Sim(B, u, v)
  BY <1>3, <1>4 DEF Sim
<1> QED BY <1>1, <1>5 DEF u, v

-----------------------------------------------------------------------------
(* A journal that can be undone all the way.                               *)

Chain(s) ==
  s \in Db /\ \A i \in 1..Len(s.journal) : Fits(Unwound(s)[i], s.journal[i])

\* The journal is a sequence of entries.
LEMMA JournalFacts ==
  ASSUME NEW s \in Db
  PROVE  /\ s.journal \in Seq(Entry) /\ Len(s.journal) \in Nat
         /\ \A i \in 1..Len(s.journal) : s.journal[i] \in Entry
         /\ DOMAIN s.journal = 1..Len(s.journal)
BY DbFields

\* One step down.
LEMMA UnwoundStep ==
  ASSUME NEW s \in Db
  PROVE  /\ Unwound(s)[Len(s.journal)] = s
         /\ \A n \in 1..Len(s.journal) :
              Unwound(s)[n - 1] = Undo(Unwound(s)[n], s.journal[n])
<1>1. Len(s.journal) \in Nat
  BY JournalFacts
<1>2. Unwinds(Unwound(s), s)
  BY <1>1, UnwoundExists
<1>3. ASSUME NEW n \in 1..Len(s.journal)
      PROVE  Unwound(s)[n - 1] = Undo(Unwound(s)[n], s.journal[n])
  <2>1. n - 1 \in 0..(Len(s.journal) - 1) /\ (n - 1) + 1 = n
    BY <1>1
  <2>2. Unwound(s)[n - 1] = Undo(Unwound(s)[(n - 1) + 1], s.journal[(n - 1) + 1])
    BY <1>2, <2>1 DEF Unwinds
  <2> QED BY <2>1, <2>2
<1> QED BY <1>2, <1>3 DEF Unwinds

\* What holds at m and is kept by undoing holds below.
LEMMA DownInduction ==
  ASSUME NEW m \in Nat, NEW S, m \in S, \A n \in 1..m : n \in S => n - 1 \in S
  PROVE  0..m \subseteq S
<1> DEFINE K == {k \in Nat : k <= m => m - k \in S}
<1>1. 0 \in K
  OBVIOUS
<1>2. \A k \in Nat : k \in K => k + 1 \in K
  <2> SUFFICES ASSUME NEW k \in Nat, k \in K, k + 1 <= m PROVE m - (k + 1) \in S
    OBVIOUS
  <2>1. m - k \in 1..m /\ (m - k) - 1 = m - (k + 1) /\ k <= m
    OBVIOUS
  <2>2. m - k \in S
    BY <2>1
  <2> QED BY <2>1, <2>2
<1>3. Nat \subseteq K
  <2> HIDE DEF K
  <2> QED BY <1>1, <1>2, NatSetInduction
<1>4. ASSUME NEW n \in 0..m PROVE n \in S
  <2>1. m - n \in Nat /\ m - n <= m /\ m - (m - n) = n
    OBVIOUS
  <2>2. m - n \in K
    BY <1>3, <2>1
  <2> QED BY <2>1, <2>2
<1> QED BY <1>4

\* Every state met while the whole journal is undone is a StateDB.
LEMMA ChainStates ==
  ASSUME NEW s, Chain(s)
  PROVE  \A n \in 0..Len(s.journal) :
           Unwound(s)[n] \in Db /\ Unwound(s)[n].journal = s.journal
<1> DEFINE f == Unwound(s)
           L == Len(s.journal)
           Good(n) == f[n] \in Db /\ f[n].journal = s.journal
           S == {n \in 0..L : Good(n)}
<1>1. s \in Db /\ L \in Nat
  BY JournalFacts DEF Chain
<1> HIDE DEF f
<1>2. L \in S
  BY <1>1, UnwoundStep DEF f
<1>3. ASSUME NEW n \in 1..L, n \in S PROVE n - 1 \in S
  <2>1. Fits(f[n], s.journal[n]) /\ s.journal[n] \in Entry
    BY <1>1, JournalFacts DEF Chain, f
  <2>2. f[n - 1] = Undo(f[n], s.journal[n])
    BY <1>1, UnwoundStep DEF f
  <2>3. Undone(f[n], Undo(f[n], s.journal[n]), s.journal[n])
    BY <1>3, <2>1, UndoFields
  <2>4. Good(n - 1)
    BY <1>3, <2>2, <2>3 DEF Undone
  <2>5. n - 1 \in 0..L
    BY <1>1
  <2> QED BY <2>4, <2>5
<1> HIDE DEF S, L
<1>4. 0..L \subseteq S
  BY <1>1, <1>2, <1>3, DownInduction
<1> QED BY <1>4 DEF S, f, L

\* Two journals that agree up to m are undone alike from there.
LEMMA Parallel ==
  ASSUME NEW B \in Store, NEW s, NEW t, Chain(s), t \in Db, NEW m \in Nat,
         m <= Len(s.journal), m <= Len(t.journal),
         \A i \in 1..m : t.journal[i] = s.journal[i],
         Sim(B, Unwound(s)[m], Unwound(t)[m])
  PROVE  /\ \A n \in 0..m : Sim(B, Unwound(s)[n], Unwound(t)[n])
         /\ \A n \in 1..m : Fits(Unwound(t)[n], t.journal[n])
<1> DEFINE f == Unwound(s)
           g == Unwound(t)
           S == {n \in 0..m : Sim(B, f[n], g[n])}
<1>1. s \in Db /\ Len(s.journal) \in Nat /\ Len(t.journal) \in Nat
  BY JournalFacts DEF Chain
<1> HIDE DEF f, g
<1>2. m \in S
  BY DEF f, g
<1>3. ASSUME NEW n \in 1..m, Sim(B, f[n], g[n])
      PROVE  Fits(g[n], t.journal[n]) /\ Sim(B, f[n - 1], g[n - 1])
  <2>0. n \in 1..Len(s.journal) /\ n \in 1..Len(t.journal)
    BY <1>1
  <2>1. Fits(f[n], s.journal[n]) /\ s.journal[n] \in Entry
    BY <1>1, <2>0, JournalFacts DEF Chain, f
  <2>2. f[n - 1] = Undo(f[n], s.journal[n]) /\ g[n - 1] = Undo(g[n], t.journal[n])
    BY <1>1, <2>0, UnwoundStep DEF f, g
  <2>3. t.journal[n] = s.journal[n]
    OBVIOUS
  <2> QED BY <1>3, <2>1, <2>2, <2>3, SimUndo
<1>4. ASSUME NEW n \in 1..m, n \in S PROVE n - 1 \in S
  <2>1. Sim(B, f[n - 1], g[n - 1])
    BY <1>3, <1>4
  <2>2. n - 1 \in 0..m
    OBVIOUS
  <2> QED BY <2>1, <2>2
<1>5. 0..m \subseteq S
  <2> HIDE DEF S
  <2> QED BY <1>2, <1>4, DownInduction
<1>6. \A n \in 0..m : Sim(B, f[n], g[n])
  BY <1>5
<1>7. \A n \in 1..m : Fits(g[n], t.journal[n])
  BY <1>3, <1>6
<1> QED BY <1>6, <1>7 DEF f, g

-----------------------------------------------------------------------------
(* t is s with more in the journal: undone to a position of s it stands    *)
(* for what s does.                                                        *)

Grows(B, s, t) ==
  /\ Chain(s) /\ Chain(t) /\ Len(s.journal) <= Len(t.journal)
  /\ \A i \in 1..Len(s.journal) : t.journal[i] = s.journal[i]
  /\ \A n \in 0..Len(s.journal) : Sim(B, Unwound(s)[n], Unwound(t)[n])

\* A StateDB agrees with itself up to loads.
LEMMA SimReflexive ==
  ASSUME NEW B, NEW s \in Db
  PROVE  Sim(B, s, s)
BY DEF Sim, SideEq, Same

\* An operation that only loads extends the journal by nothing.
LEMMA GrowsSame ==
  ASSUME NEW B \in Store, NEW s, NEW t, Chain(s), Sim(B, s, t), t.journal = s.journal
  PROVE  Grows(B, s, t)
<1> DEFINE L == Len(s.journal)
<1>1. s \in Db /\ t \in Db /\ L \in Nat
  BY JournalFacts DEF Chain, Sim
<1>2. Unwound(s)[L] = s /\ Unwound(t)[L] = t
  BY <1>1, UnwoundStep
<1>3. Len(t.journal) = L /\ \A i \in 1..L : t.journal[i] = s.journal[i]
  OBVIOUS
<1> HIDE DEF L
<1>4. /\ \A n \in 0..L : Sim(B, Unwound(s)[n], Unwound(t)[n])
      /\ \A n \in 1..L : Fits(Unwound(t)[n], t.journal[n])
  <2>1. Sim(B, Unwound(s)[L], Unwound(t)[L])
    BY <1>2
  <2>2. L <= Len(s.journal) /\ L <= Len(t.journal)
    BY <1>1, <1>3 DEF L
  <2> QED BY <1>1, <1>3, <2>1, <2>2, Parallel
<1>5. Chain(t)
  BY <1>1, <1>3, <1>4 DEF Chain
<1> QED BY <1>1, <1>3, <1>4, <1>5 DEF Grows, L

\* An operation that journals one entry which undoes it up to loads extends the journal
\* soundly: this is the obligation of every single write.
LEMMA GrowsOne ==
  ASSUME NEW B \in Store, NEW s, NEW t \in Db, NEW e \in Entry, Chain(s),
         t.journal = Append(s.journal, e), Fits(t, e), Sim(B, s, Undo(t, e))
  PROVE  Grows(B, s, t)
<1> DEFINE L == Len(s.journal)
<1>1. s \in Db /\ L \in Nat /\ s.journal \in Seq(Entry)
  BY JournalFacts DEF Chain
<1>2. /\ Len(t.journal) = L + 1 /\ t.journal[L + 1] = e
      /\ \A i \in 1..L : t.journal[i] = s.journal[i]
  BY <1>1
<1> HIDE DEF L
<1>3. Unwound(s)[L] = s /\ Unwound(t)[L + 1] = t /\ Unwound(t)[L] = Undo(t, e)
  <2>1. Unwound(s)[L] = s /\ Unwound(t)[L + 1] = t
    BY <1>1, <1>2, UnwoundStep DEF L
  <2>2. L + 1 \in 1..Len(t.journal) /\ (L + 1) - 1 = L
    BY <1>1, <1>2
  <2>3. Unwound(t)[(L + 1) - 1] = Undo(Unwound(t)[L + 1], t.journal[L + 1])
    BY <2>2, UnwoundStep
  <2> QED BY <1>2, <2>1, <2>2, <2>3
<1>4. /\ \A n \in 0..L : Sim(B, Unwound(s)[n], Unwound(t)[n])
      /\ \A n \in 1..L : Fits(Unwound(t)[n], t.journal[n])
  <2>1. Sim(B, Unwound(s)[L], Unwound(t)[L])
    BY <1>3
  <2>2. L <= Len(s.journal) /\ L <= Len(t.journal)
    BY <1>1, <1>2 DEF L
  <2> QED BY <1>1, <1>2, <2>1, <2>2, Parallel
<1>5. Chain(t)
  <2>1. ASSUME NEW i \in 1..Len(t.journal) PROVE Fits(Unwound(t)[i], t.journal[i])
    <3>1. CASE i = L + 1
      BY <1>2, <1>3, <3>1
    <3>2. CASE i # L + 1
      <4>1. i \in 1..L
        BY <1>1, <1>2, <3>2
      <4> QED BY <1>4, <4>1
    <3> QED BY <3>1, <3>2
  <2> QED BY <2>1 DEF Chain
<1> QED BY <1>1, <1>2, <1>4, <1>5 DEF Grows, L

\* Sound extensions of the journal compose, so an operation of several writes is proved write
\* by write.
LEMMA GrowsTransitive ==
  ASSUME NEW B \in Store, NEW s, NEW t, NEW u, Grows(B, s, t), Grows(B, t, u)
  PROVE  Grows(B, s, u)
<1>1. /\ s \in Db /\ t \in Db /\ u \in Db
      /\ Len(s.journal) \in Nat /\ Len(t.journal) \in Nat /\ Len(u.journal) \in Nat
  BY JournalFacts DEF Grows, Chain
<1>2. Len(s.journal) <= Len(t.journal) /\ Len(t.journal) <= Len(u.journal)
  BY DEF Grows
<1>3. ASSUME NEW i \in 1..Len(s.journal) PROVE u.journal[i] = s.journal[i]
  <2>1. i \in 1..Len(t.journal)
    BY <1>1, <1>2
  <2> QED BY <2>1 DEF Grows
<1>4. ASSUME NEW n \in 0..Len(s.journal) PROVE Sim(B, Unwound(s)[n], Unwound(u)[n])
  <2>1. n \in 0..Len(t.journal)
    BY <1>1, <1>2
  <2>2. Sim(B, Unwound(s)[n], Unwound(t)[n]) /\ Sim(B, Unwound(t)[n], Unwound(u)[n])
    BY <2>1 DEF Grows
  <2> QED BY <2>2, SimTransitive
<1>5. Len(s.journal) <= Len(u.journal)
  BY <1>1, <1>2
<1> QED BY <1>3, <1>4, <1>5 DEF Grows

\* UndoTo drops the entries as well.
LEMMA UndoToFacts ==
  ASSUME NEW B, NEW s, Chain(s), NEW n \in 0..Len(s.journal)
  PROVE  LET u == UndoTo(s, n)
         IN  /\ u \in Db /\ u.journal = SubSeq(s.journal, 1, n)
             /\ Sim(B, Unwound(s)[n], u) /\ Sim(B, u, Unwound(s)[n])
<1> DEFINE w == Unwound(s)[n]
           j == SubSeq(s.journal, 1, n)
           u == UndoTo(s, n)
<1>1. s \in Db /\ Len(s.journal) \in Nat /\ s.journal \in Seq(Entry)
  BY JournalFacts DEF Chain
<1>2. w \in Db /\ w.journal = s.journal
  BY ChainStates
<1>3. u = [w EXCEPT !.journal = j]
  BY <1>1, <1>2, UndoToIs
<1>4. j \in Seq(Entry)
  BY <1>1
<1> HIDE DEF w, j, u
<1>5. /\ u \in Db /\ u.objs = w.objs /\ u.refund = w.refund /\ u.logs = w.logs
      /\ u.transient = w.transient /\ u.access = w.access /\ u.layers = w.layers
      /\ u.journal = j
  BY <1>2, <1>3, <1>4, SetJournal
<1>6. Sim(B, w, u) /\ Sim(B, u, w)
  BY <1>2, <1>5 DEF Sim, SideEq, Same
<1> QED BY <1>5, <1>6 DEF w, j, u

\* Undoing nothing changes nothing.
LEMMA UndoToTop ==
  ASSUME NEW s, Chain(s)
  PROVE  UndoTo(s, Len(s.journal)) = s
<1> DEFINE L == Len(s.journal)
           u == UndoTo(s, L)
<1>1. s \in Db /\ L \in Nat /\ s.journal \in Seq(Entry) /\ L \in 0..L
  BY JournalFacts DEF Chain
<1>2. Unwound(s)[L] = s
  BY <1>1, UnwoundStep
<1>3. u = [s EXCEPT !.journal = SubSeq(s.journal, 1, L)]
  BY <1>1, <1>2, UndoToIs
<1>4. SubSeq(s.journal, 1, L) = s.journal
  BY <1>1
<1> HIDE DEF u, L
<1>5. u = s
  <2>1. u = [s EXCEPT !.journal = s.journal]
    BY <1>3, <1>4
  <2> QED BY <1>1, <2>1 DEF Db
<1> QED BY <1>5 DEF u, L

\* After a sound extension, undoing to an earlier revision reaches the state it would have
\* reached before, up to loads.
LEMMA GrowsUndo ==
  ASSUME NEW B \in Store, NEW s, NEW t, Grows(B, s, t), NEW n \in 0..Len(s.journal)
  PROVE  /\ n \in 0..Len(t.journal)
         /\ Sim(B, UndoTo(s, n), UndoTo(t, n))
         /\ UndoTo(t, n).journal = UndoTo(s, n).journal
<1>1. /\ Chain(s) /\ Chain(t) /\ s \in Db /\ t \in Db
      /\ Len(s.journal) \in Nat /\ Len(t.journal) \in Nat
      /\ s.journal \in Seq(Entry) /\ t.journal \in Seq(Entry)
  BY JournalFacts DEF Grows, Chain
<1>2. n \in 0..Len(t.journal)
  BY <1>1 DEF Grows
<1>3. /\ Sim(B, UndoTo(s, n), Unwound(s)[n]) /\ UndoTo(s, n).journal = SubSeq(s.journal, 1, n)
      /\ Sim(B, Unwound(t)[n], UndoTo(t, n)) /\ UndoTo(t, n).journal = SubSeq(t.journal, 1, n)
  BY <1>1, <1>2, UndoToFacts
<1>4. Sim(B, Unwound(s)[n], Unwound(t)[n])
  BY DEF Grows
<1>5. Sim(B, UndoTo(s, n), UndoTo(t, n))
  BY <1>3, <1>4, SimTransitive
<1>6. SubSeq(t.journal, 1, n) = SubSeq(s.journal, 1, n)
  <2>1. \A i \in 1..n : t.journal[i] = s.journal[i]
    BY <1>1 DEF Grows
  <2> HIDE <1>5, <1>4, <1>3
  <2> QED BY <1>1, <1>2, <2>1
<1> QED BY <1>2, <1>3, <1>5, <1>6

\* What UndoTo leaves can be undone further.
LEMMA Cut ==
  ASSUME NEW B \in Store, NEW s, Chain(s), NEW n \in 0..Len(s.journal)
  PROVE  LET t == UndoTo(s, n)
         IN  /\ Chain(t) /\ Len(t.journal) = n
             /\ \A k \in 0..n : /\ Sim(B, UndoTo(s, k), UndoTo(t, k))
                                /\ UndoTo(t, k).journal = UndoTo(s, k).journal
<1> DEFINE t == UndoTo(s, n)
<1>1. s \in Db /\ Len(s.journal) \in Nat /\ s.journal \in Seq(Entry) /\ n \in Nat
  BY JournalFacts DEF Chain
<1>2. t \in Db /\ t.journal = SubSeq(s.journal, 1, n) /\ Sim(B, Unwound(s)[n], t)
  BY UndoToFacts
<1> HIDE DEF t
<1>3. Len(t.journal) = n /\ \A i \in 1..n : t.journal[i] = s.journal[i]
  BY <1>1, <1>2
<1>4. Unwound(t)[n] = t
  BY <1>2, <1>3, UnwoundStep
<1>5. /\ \A k \in 0..n : Sim(B, Unwound(s)[k], Unwound(t)[k])
      /\ \A k \in 1..n : Fits(Unwound(t)[k], t.journal[k])
  <2>1. Sim(B, Unwound(s)[n], Unwound(t)[n]) /\ n <= Len(s.journal) /\ n <= Len(t.journal)
    BY <1>1, <1>2, <1>3, <1>4
  <2> QED BY <1>1, <1>2, <1>3, <2>1, Parallel
<1>6. Chain(t)
  BY <1>2, <1>3, <1>5 DEF Chain
<1>7. ASSUME NEW k \in 0..n
      PROVE  /\ Sim(B, UndoTo(s, k), UndoTo(t, k))
             /\ UndoTo(t, k).journal = UndoTo(s, k).journal
  <2>1. k \in 0..Len(s.journal) /\ k \in 0..Len(t.journal)
    BY <1>1, <1>3
  <2>2. /\ Sim(B, UndoTo(s, k), Unwound(s)[k]) /\ UndoTo(s, k).journal = SubSeq(s.journal, 1, k)
        /\ Sim(B, Unwound(t)[k], UndoTo(t, k)) /\ UndoTo(t, k).journal = SubSeq(t.journal, 1, k)
    BY <1>6, <2>1, UndoToFacts
  <2>3. Sim(B, UndoTo(s, k), UndoTo(t, k))
    BY <1>5, <2>2, SimTransitive
  <2>4. SubSeq(t.journal, 1, k) = SubSeq(s.journal, 1, k)
    BY <1>1, <1>2, <2>1
  <2> QED BY <2>2, <2>3, <2>4
<1> QED BY <1>3, <1>6, <1>7 DEF t

-----------------------------------------------------------------------------
(* Whole states.                                                           *)

\* Loaded objects leave a state whole.
LEMMA SameOk ==
  ASSUME NEW B \in Store, NEW s, NEW t, Sim(B, s, t), t.journal = s.journal, NEW a \in Addr,
         Sound(B, s, a)
  PROVE  /\ Sound(B, t, a)
         /\ Unmodified(B, s, a) => Unmodified(B, t, a)
<1>1. s \in Db /\ t \in Db /\ SideEq(s, t)
  BY DEF Sim
<1>2. Dirty(t) = Dirty(s) /\ TopOf(B, t) = TopOf(B, s)
  BY <1>1 DEF Dirty, TopOf, SideEq
<1> DEFINE x == s.objs[a]
           y == t.objs[a]
           h == Held(B, a)
<1>3. Same(B, a, x, y) /\ x \in Object \cup {NoAccount}
  BY <1>1, DbFields DEF Sim
<1>4. h \in Val /\ h # Clean /\ NoAccount \notin Object
  BY StoreFacts, StateDBAssumption
<1>5. CASE y = x
  BY <1>2, <1>5 DEF Sound, Unmodified
<1>6. CASE /\ x = NoAccount /\ B.acct[a] # NoAccount
           /\ y = Opening(B, a) \/ y = [Opening(B, a) EXCEPT !.slot = h]
  <2>1. /\ y \in Object /\ y.bal = B.acct[a].bal /\ y.code = B.acct[a].code
        /\ y.slot \in {Clean, h} /\ ~y.dead /\ ~y.new
    BY <1>6, OpeningFields
  <2>2. a \notin Dirty(s) /\ Held(TopOf(B, s), a) = h
    BY <1>6 DEF Sound
  <2> HIDE DEF h, y
  <2> QED BY <1>2, <1>4, <1>6, <2>1, <2>2 DEF Sound, Unmodified, y, h
<1>7. CASE x \in Object /\ x.slot = Clean /\ y = [x EXCEPT !.slot = h]
  <2>1. /\ y \in Object /\ y.bal = x.bal /\ y.code = x.code
        /\ y.slot = h /\ y.dead = x.dead /\ y.new = x.new
    <3> HIDE DEF x, h
    <3> QED BY <1>4, <1>7 DEF Object
  <2>2. x # NoAccount /\ y # NoAccount
    BY <1>4, <1>7, <2>1
  <2> HIDE DEF x, y
  <2>3. Sound(B, t, a)
    BY <1>2, <1>4, <2>1, <2>2 DEF Sound, x, y
  <2>4. Unmodified(B, s, a) => Unmodified(B, t, a)
    BY <1>2, <1>4, <2>1, <2>2 DEF Unmodified, x, y
  <2> QED BY <2>3, <2>4
<1> QED BY <1>3, <1>5, <1>6, <1>7 DEF Same

\* Loads keep the agreement of objects, layers and access list.
LEMMA SimWhole ==
  ASSUME NEW B \in Store, NEW s, NEW t, Sim(B, s, t), t.journal = s.journal,
         NEW X, WholeBut(B, s, X)
  PROVE  WholeBut(B, t, X)
<1>1. s \in Db /\ t \in Db /\ SideEq(s, t)
  BY DEF Sim
<1>2. AccessOk(t) /\ LayersOk(t)
  BY <1>1 DEF WholeBut, AccessOk, LayersOk, SideEq
<1>3. Dirty(t) = Dirty(s)
  BY <1>1 DEF Dirty
<1>4. ASSUME NEW a \in Addr
      PROVE  /\ Sound(B, t, a)
             /\ a \notin X /\ a \notin Dirty(t) => Unmodified(B, t, a)
  <2>1. Sound(B, s, a) /\ (a \notin X /\ a \notin Dirty(s) => Unmodified(B, s, a))
    BY DEF WholeBut
  <2> QED BY <1>3, <2>1, SameOk
<1> QED BY <1>1, <1>2, <1>4 DEF WholeBut

\* One more entry makes at most its own address dirty.
LEMMA DirtyAppend ==
  ASSUME NEW s, NEW t, NEW e \in Entry, s.journal \in Seq(Entry),
         t.journal = Append(s.journal, e)
  PROVE  Dirty(t) = Dirty(s) \cup {a \in Addr : e.kind \in Dirtied /\ e.addr = a}
<1> DEFINE L == Len(s.journal)
<1>1. /\ L \in Nat /\ Len(t.journal) = L + 1 /\ t.journal[L + 1] = e
      /\ \A i \in 1..L : t.journal[i] = s.journal[i]
      /\ DOMAIN t.journal = 1..(L + 1) /\ DOMAIN s.journal = 1..L
  OBVIOUS
<1>2. \A i : i \in 1..(L + 1) <=> i \in 1..L \/ i = L + 1
  BY <1>1
<1> HIDE DEF L
<1> QED BY <1>1, <1>2 DEF Dirty

\* Only the entry of a precompile call goes with a new cached store, and records how many there
\* were.
LEMMA LayersAppend ==
  ASSUME NEW s \in Db, NEW t \in Db, NEW e \in Entry, LayersOk(s),
         t.journal = Append(s.journal, e),
         \/ e.kind # "precompile" /\ Len(t.layers) = Len(s.layers)
         \/ e.kind = "precompile" /\ Len(t.layers) = Len(s.layers) + 1
              /\ e.snapshot = Len(s.layers)
  PROVE  LayersOk(t)
<1> DEFINE L == Len(s.journal)
           M == Marks(s.journal)
           N == Marks(t.journal)
<1>1. s.journal \in Seq(Entry) /\ t.journal \in Seq(Entry) /\ Len(s.layers) \in Nat
  BY DbFields
<1>2. /\ L \in Nat /\ Len(t.journal) = L + 1 /\ t.journal[L + 1] = e
      /\ \A i \in 1..L : t.journal[i] = s.journal[i]
      /\ DOMAIN t.journal = 1..(L + 1) /\ DOMAIN s.journal = 1..L
  BY <1>1
<1>3. M \subseteq 1..L /\ IsFiniteSet(M) /\ L + 1 \notin M
  <2>1. M \subseteq 1..L /\ L + 1 \notin M
    BY <1>2 DEF Marks
  <2>2. IsFiniteSet(1..L)
    BY <1>2, FS_Interval
  <2> QED BY <2>1, <2>2, FS_Subset
<1>4. N = M \cup (IF e.kind = "precompile" THEN {L + 1} ELSE {})
  <2>1. \A i : i \in 1..(L + 1) <=> i \in 1..L \/ i = L + 1
    BY <1>2
  <2> HIDE DEF L
  <2> QED BY <1>2, <2>1 DEF Marks
<1>5. Cardinality(M) = Len(s.layers)
  BY DEF LayersOk
<1>6. Cardinality(N) = Len(t.layers)
  <2>1. Cardinality(M \cup {L + 1}) = Cardinality(M) + 1
    BY <1>3, FS_AddElement
  <2> HIDE DEF M, N, L
  <2> QED BY <1>4, <1>5, <2>1
<1>7. ASSUME NEW i \in N
      PROVE  t.journal[i].snapshot = Cardinality({k \in N : k < i})
  <2>1. CASE i \in M
    <3>1. i \in 1..L /\ t.journal[i] = s.journal[i] /\ ~(L + 1 < i)
      BY <1>2, <1>3, <2>1
    <3>2. {k \in N : k < i} = {k \in M : k < i}
      <4> HIDE DEF L, M, N
      <4> QED BY <1>4, <3>1
    <3>3. s.journal[i].snapshot = Cardinality({k \in M : k < i})
      BY <2>1 DEF LayersOk
    <3> QED BY <3>1, <3>2, <3>3
  <2>2. CASE i \notin M
    <3>1. i = L + 1 /\ e.kind = "precompile" /\ N = M \cup {L + 1}
      <4> HIDE DEF L, M, N
      <4> QED BY <1>4, <2>2
    <3>2. {k \in N : k < i} = M
      <4>1. \A k \in M : k < L + 1
        BY <1>2, <1>3
      <4>2. ~(L + 1 < L + 1)
        BY <1>2
      <4> HIDE DEF L, M, N
      <4> QED BY <3>1, <4>1, <4>2
    <3> HIDE DEF L, M, N
    <3> QED BY <1>2, <1>5, <3>1, <3>2
  <2> QED BY <2>1, <2>2
<1> QED BY <1>6, <1>7 DEF LayersOk

-----------------------------------------------------------------------------
(* Operations on objects.                                                  *)

\* StateDB's names for the transaction's store.
LEMMA Names ==
  ASSUME NEW s, NEW a
  PROVE  /\ Committed(a) = Held(base, a) /\ Top(s) = TopOf(base, s)
         /\ s.objs[a] # NoAccount => Get(s, a) = s.objs[a]
         /\ s.objs[a] = NoAccount /\ base.acct[a] = NoAccount => Get(s, a) = NoAccount
         /\ s.objs[a] = NoAccount /\ base.acct[a] # NoAccount => Get(s, a) = Opening(base, a)
BY DEF Committed, Held, Top, TopOf, Get, Opening

\* The object of one account is replaced, with an entry that knows how to
\* bring it back.
Put(s, a, y, e) == Journal([s EXCEPT !.objs = [s.objs EXCEPT ![a] = y]], e)

\* A write to one object whose entry restores that object extends the journal soundly.
LEMMA ObjectWrite ==
  ASSUME NEW B \in Store, NEW s, Chain(s), NEW a \in Addr, NEW y \in Object,
         NEW e \in Entry, e.kind \in OnObject, e.addr = a,
         Same(B, a, s.objs[a], UndoneObject(y, e)),
         NEW t, t = Put(s, a, y, e)
  PROVE  /\ t \in Db /\ SideEq(s, t) /\ t.objs = [s.objs EXCEPT ![a] = y]
         /\ t.journal = Append(s.journal, e) /\ Grows(B, s, t)
<1> DEFINE o == [s.objs EXCEPT ![a] = y]
           w == [s EXCEPT !.objs = o]
<1>1. /\ s \in Db /\ s.objs \in [Addr -> Object \cup {NoAccount}] /\ s.journal \in Seq(Entry)
      /\ NoAccount \notin Object
  BY DbFields, StateDBAssumption DEF Chain
<1>2. o \in [Addr -> Object \cup {NoAccount}] /\ o[a] = y
  BY <1>1
<1>2a. \A b \in Addr : b # a => o[b] = s.objs[b]
  BY <1>1
<1> HIDE DEF o
<1>3. w \in Db /\ w.objs = o /\ SideEq(s, w) /\ w.journal = s.journal
  BY <1>1, <1>2, SetObjs DEF SideEq
<1> DEFINE j == Append(s.journal, e)
<1>4. t = [w EXCEPT !.journal = j]
  BY <1>3 DEF Put, Journal, o
<1>5. j \in Seq(Entry)
  BY <1>1
<1> HIDE DEF w, j
<1>6. t \in Db /\ t.objs = o /\ SideEq(s, t) /\ t.journal = Append(s.journal, e)
  <2>1. /\ t \in Db /\ t.objs = w.objs /\ t.refund = w.refund /\ t.logs = w.logs
        /\ t.transient = w.transient /\ t.access = w.access /\ t.layers = w.layers
        /\ t.journal = j
    BY <1>3, <1>4, <1>5 DEF Db
  <2> QED BY <1>3, <2>1 DEF SideEq, j
<1>7. Fits(t, e)
  <2>1. e.kind \notin {"log", "addr", "slot", "precompile"}
    BY DEF OnObject, OfObject
  <2> QED BY <1>1, <1>2, <1>6, <2>1 DEF Fits
<1> DEFINE u == Undo(t, e)
<1>8. Undone(t, u, e)
  BY <1>6, <1>7, UndoFields
<1> HIDE DEF u
<1>9. SideEq(s, u) /\ u \in Db
  <2>1. e.kind \notin {"transient", "refund", "log", "addr", "slot", "precompile"}
    BY DEF OnObject, OfObject
  <2> QED BY <1>6, <1>8, <2>1 DEF Undone, SideEq, UndoneTransient, UndoneRefund, UndoneLogs,
                                  UndoneLayers, UndoneAccess
<1>10. u.objs = [o EXCEPT ![a] = UndoneObject(y, e)]
  BY <1>2, <1>6, <1>8 DEF Undone, UndoneObjs
<1>11. ASSUME NEW b \in Addr PROVE Same(B, b, s.objs[b], u.objs[b])
  <2>1. CASE b = a
    BY <1>2, <1>10, <2>1
  <2>2. CASE b # a
    <3>1. u.objs[b] = s.objs[b]
      BY <1>2, <1>2a, <1>10, <2>2
    <3> QED BY <3>1 DEF Same
  <2> QED BY <2>1, <2>2
<1>12. Sim(B, s, u)
  BY <1>1, <1>9, <1>11 DEF Sim
<1>13. Grows(B, s, t)
  BY <1>6, <1>7, <1>12, GrowsOne DEF u
<1> QED BY <1>6, <1>13 DEF o

\* The same write keeps the StateDB whole when its new object is sound and either dirty or as
\* the store has it.
LEMMA ObjectWhole ==
  ASSUME NEW B \in Store, NEW s \in Db, NEW a \in Addr, NEW y \in Object,
         NEW e \in Entry, e.kind \in OnObject, e.addr = a,
         NEW t \in Db, SideEq(s, t), t.objs = [s.objs EXCEPT ![a] = y],
         t.journal = Append(s.journal, e),
         NEW X, WholeBut(B, s, X \cup {a}), Sound(B, t, a),
         a \notin X /\ a \notin Dirty(t) => Unmodified(B, t, a)
  PROVE  WholeBut(B, t, X)
<1>1. s.objs \in [Addr -> Object \cup {NoAccount}] /\ s.journal \in Seq(Entry)
  BY DbFields
<1>2. TopOf(B, t) = TopOf(B, s)
  BY DEF TopOf, SideEq
<1>3. AccessOk(t)
  BY DEF WholeBut, AccessOk, SideEq
<1>4. LayersOk(t)
  <2>1. e.kind # "precompile" /\ Len(t.layers) = Len(s.layers)
    BY DEF OnObject, OfObject, SideEq
  <2> QED BY <2>1, LayersAppend DEF WholeBut
<1>5. Dirty(t) = Dirty(s) \cup {b \in Addr : e.kind \in Dirtied /\ e.addr = b}
  BY <1>1, DirtyAppend
<1>6. ASSUME NEW b \in Addr, b # a
      PROVE  Sound(B, t, b) /\ (b \notin X /\ b \notin Dirty(t) => Unmodified(B, t, b))
  <2>1. t.objs[b] = s.objs[b] /\ (b \in Dirty(t) <=> b \in Dirty(s))
    BY <1>1, <1>5, <1>6
  <2>2. Sound(B, s, b) /\ (b \notin X /\ b \notin Dirty(s) => Unmodified(B, s, b))
    BY <1>6 DEF WholeBut
  <2> QED BY <1>2, <2>1, <2>2 DEF Sound, Unmodified
<1> QED BY <1>3, <1>4, <1>6 DEF WholeBut

\* s with the object of a cached, and what such a load leaves as it was.
LoadedInto(s, a) == [s EXCEPT !.objs = [s.objs EXCEPT ![a] = Get(s, a)]]
IsLoad(s, t, a) ==
  /\ t \in Db /\ SideEq(s, t) /\ t.objs = [s.objs EXCEPT ![a] = Get(s, a)]
  /\ t.journal = s.journal /\ Get(s, a) \in Object
  /\ Sim(base, s, t) /\ Grows(base, s, t)

\* getStateObject of an account that exists: it caches the object and journals nothing.
LEMMA LoadGrows ==
  ASSUME base \in Store, NEW s, Chain(s), NEW a \in Addr, Get(s, a) # NoAccount,
         NEW t, t = LoadedInto(s, a)
  PROVE  IsLoad(s, t, a)
<1> DEFINE o == [s.objs EXCEPT ![a] = Get(s, a)]
<1>1. s \in Db /\ s.objs \in [Addr -> Object \cup {NoAccount}]
  BY DbFields DEF Chain
<1>2. Get(s, a) \in Object /\ Same(base, a, s.objs[a], Get(s, a))
  <2>1. CASE s.objs[a] # NoAccount
    BY <1>1, <2>1, Names DEF Same
  <2>2. CASE s.objs[a] = NoAccount
    <3>1. base.acct[a] # NoAccount /\ Get(s, a) = Opening(base, a)
      BY <2>2, Names
    <3> QED BY <2>2, <3>1, OpeningFields DEF Same
  <2> QED BY <2>1, <2>2
<1>3. o \in [Addr -> Object \cup {NoAccount}]
  BY <1>1, <1>2
<1>4. \A b \in Addr : o[b] = IF b = a THEN Get(s, a) ELSE s.objs[b]
  BY <1>1
<1> HIDE DEF o
<1>5. t \in Db /\ t.objs = o /\ SideEq(s, t) /\ t.journal = s.journal
  <2>1. t = [s EXCEPT !.objs = o]
    BY DEF LoadedInto, o
  <2> QED BY ONLY <1>1, <1>3, <2>1, SetObjs DEF SideEq
<1>6. Sim(base, s, t)
  BY <1>1, <1>2, <1>4, <1>5 DEF Sim, Same
<1>7. Grows(base, s, t)
  BY <1>5, <1>6, GrowsSame
<1> QED BY ONLY <1>2, <1>5, <1>6, <1>7 DEF o, IsLoad

\* Excepting more addresses asks for less.
LEMMA WholeMonotone ==
  ASSUME NEW B, NEW s, NEW X, NEW Y, WholeBut(B, s, X), X \subseteq Y
  PROVE  WholeBut(B, s, Y)
BY DEF WholeBut

\* newObject: empty, alive and not yet a contract.
LEMMA FreshObject ==
  /\ Fresh \in Object /\ Fresh.bal = 0 /\ Fresh.code = 0 /\ Fresh.slot = Clean
  /\ ~Fresh.dead /\ ~Fresh.new /\ Fresh # NoAccount
<1>1. Fresh \in Object /\ Fresh.bal = 0 /\ Fresh.code = 0 /\ Fresh.slot = Clean
      /\ Fresh.dead = FALSE /\ Fresh.new = FALSE
  BY DEF Fresh, Object
<1> QED BY <1>1, StateDBAssumption

\* A modified object, whatever the layers hold for its account.
LEMMA DirtyWhole ==
  ASSUME NEW B \in Store, NEW s \in Db, NEW a \in Addr, NEW y \in Object,
         NEW e \in Entry, e.kind \in Dirtied, e.addr = a,
         NEW t \in Db, SideEq(s, t), t.objs = [s.objs EXCEPT ![a] = y],
         t.journal = Append(s.journal, e),
         NEW X, WholeBut(B, s, X),
         y.slot = Clean => s.objs[a] = NoAccount \/ s.objs[a].slot = Clean,
         y.dead => y.new, y.new => Held(B, a) = 0
  PROVE  WholeBut(B, t, X \ {a})
<1>1. s.objs \in [Addr -> Object \cup {NoAccount}] /\ s.journal \in Seq(Entry)
      /\ NoAccount \notin Object
  BY DbFields, StateDBAssumption
<1>2. t.objs[a] = y /\ y # NoAccount
  BY <1>1
<1>3. a \in Dirty(t)
  <2>0. s.journal \in Seq(Entry) /\ t.journal = Append(s.journal, e) /\ e \in Entry
    BY <1>1
  <2>1. Dirty(t) = Dirty(s) \cup {b \in Addr : e.kind \in Dirtied /\ e.addr = b}
    BY ONLY <2>0, DirtyAppend
  <2> QED BY <2>1
<1>4. TopOf(B, t) = TopOf(B, s)
  BY DEF TopOf, SideEq
<1>5. Sound(B, s, a)
  BY DEF WholeBut
<1>6. Sound(B, t, a)
  BY <1>2, <1>4, <1>5 DEF Sound
<1>7. WholeBut(B, s, (X \ {a}) \cup {a})
  BY WholeMonotone
<1>8. e.kind \in OnObject
  BY DEF OnObject, OfObject, Dirtied
<1> QED BY <1>3, <1>6, <1>7, <1>8, ObjectWhole

\* getOrNewStateObject: loads the account, or creates it with a journalled entry.
LEMMA GetOrNewIs ==
  ASSUME base \in Store, NEW s, Chain(s), NEW a \in Addr
  PROVE  LET t == GetOrNew(s, a)
             x == IF Get(s, a) # NoAccount THEN Get(s, a) ELSE Fresh
         IN  /\ t \in Db /\ SideEq(s, t) /\ x \in Object /\ Grows(base, s, t)
             /\ t.objs = [s.objs EXCEPT ![a] = x]
             /\ \A X : WholeBut(base, s, X) => WholeBut(base, t, X)
<1> DEFINE t == GetOrNew(s, a)
<1>0. s \in Db /\ s.objs \in [Addr -> Object \cup {NoAccount}]
  BY DbFields DEF Chain
<1>1. CASE Get(s, a) # NoAccount
  <2>1. t = [s EXCEPT !.objs = [s.objs EXCEPT ![a] = Get(s, a)]]
    BY <1>1 DEF GetOrNew
  <2> HIDE DEF t
  <2>2. /\ t \in Db /\ SideEq(s, t) /\ t.objs = [s.objs EXCEPT ![a] = Get(s, a)]
        /\ t.journal = s.journal /\ Get(s, a) \in Object
        /\ Sim(base, s, t) /\ Grows(base, s, t)
    <3>1. t = LoadedInto(s, a)
      BY ONLY <2>1 DEF LoadedInto
    <3>2. base \in Store /\ Chain(s) /\ a \in Addr
      OBVIOUS
    <3>3. IsLoad(s, t, a)
      BY ONLY <1>1, <3>1, <3>2, LoadGrows
    <3> QED BY ONLY <3>3 DEF IsLoad
  <2>3. \A X : WholeBut(base, s, X) => WholeBut(base, t, X)
    BY <2>2, SimWhole
  <2> DEFINE x == IF Get(s, a) # NoAccount THEN Get(s, a) ELSE Fresh
  <2>4. x = Get(s, a)
    BY ONLY <1>1
  <2>5. /\ t \in Db /\ SideEq(s, t) /\ x \in Object /\ Grows(base, s, t)
        /\ t.objs = [s.objs EXCEPT ![a] = x]
    <3> HIDE DEF x
    <3> QED BY ONLY <2>2, <2>4
  <2> QED BY ONLY <2>3, <2>5 DEF t
<1>2. CASE Get(s, a) = NoAccount
  <2> DEFINE e == [kind |-> "create", addr |-> a]
  <2>1. t = Put(s, a, Fresh, e)
    BY <1>2 DEF GetOrNew, Put
  <2>2. e \in Entry /\ e.kind \in OnObject /\ e.kind \in Dirtied /\ e.addr = a
        /\ e.kind = "create"
    BY DEF Entry, OnObject, Dirtied
  <2>3. s.objs[a] = NoAccount
    <3> HIDE DEF t, e
    <3>1. s.objs[a] # NoAccount => Get(s, a) = s.objs[a]
      BY Names
    <3> QED BY <1>2, <3>1
  <2> HIDE DEF t, e
  <2>4. UndoneObject(Fresh, e) = NoAccount
    BY <2>2 DEF UndoneObject
  <2>5. /\ t \in Db /\ SideEq(s, t) /\ t.objs = [s.objs EXCEPT ![a] = Fresh]
        /\ t.journal = Append(s.journal, e) /\ Grows(base, s, t)
    <3>1. Same(base, a, s.objs[a], UndoneObject(Fresh, e))
      BY <2>3, <2>4 DEF Same
    <3> QED BY <2>1, <2>2, <3>1, FreshObject, ObjectWrite
  <2>6. ASSUME NEW X, WholeBut(base, s, X) PROVE WholeBut(base, t, X)
    <3>1. WholeBut(base, t, X \ {a})
      BY <1>0, <2>2, <2>3, <2>5, <2>6, FreshObject, DirtyWhole
    <3> QED BY <3>1, WholeMonotone
  <2> QED BY <1>2, <2>5, <2>6, FreshObject DEF t
<1> QED BY <1>1, <1>2

\* setBalance of an object: one entry with the old balance.
LEMMA SetBalanceIs ==
  ASSUME base \in Store, NEW s, Chain(s), NEW a \in Addr, s.objs[a] # NoAccount, NEW v \in Nat
  PROVE  LET t == SetBalance(s, a, v)
         IN  /\ t \in Db /\ SideEq(s, t) /\ Grows(base, s, t)
             /\ t.objs = [s.objs EXCEPT ![a] = [s.objs[a] EXCEPT !.bal = v]]
             /\ \A X : WholeBut(base, s, X) => WholeBut(base, t, X \ {a})
<1> DEFINE t == SetBalance(s, a, v)
           x == s.objs[a]
           y == [x EXCEPT !.bal = v]
           e == [kind |-> "balance", addr |-> a, prev |-> x.bal]
<1>1. s \in Db /\ x \in Object
  BY DbFields DEF Chain
<1>2. t = Put(s, a, y, e)
  BY DEF SetBalance, Put
<1> HIDE DEF t, x
<1>3. /\ y \in Object /\ y.code = x.code /\ y.slot = x.slot /\ y.dead = x.dead /\ y.new = x.new
      /\ [y EXCEPT !.bal = x.bal] = x /\ x.bal \in Nat
  BY <1>1 DEF Object
<1>4. /\ e \in Entry /\ e.kind = "balance" /\ e.kind \in OnObject /\ e.kind \in Dirtied
      /\ e.addr = a /\ e.prev = x.bal
  BY <1>3 DEF Entry, OnObject, OfObject, Dirtied
<1> HIDE DEF y, e
<1>5. UndoneObject(y, e) = x
  BY <1>3, <1>4 DEF UndoneObject
<1>6. /\ t \in Db /\ SideEq(s, t) /\ t.objs = [s.objs EXCEPT ![a] = y]
      /\ t.journal = Append(s.journal, e) /\ Grows(base, s, t)
  <2>1. Same(base, a, s.objs[a], UndoneObject(y, e))
    BY <1>5 DEF Same, x
  <2>2. y \in Object /\ e \in Entry /\ e.kind \in OnObject /\ e.addr = a
    BY <1>3, <1>4
  <2>3. base \in Store /\ Chain(s) /\ a \in Addr
    OBVIOUS
  <2> QED BY ONLY <1>2, <2>1, <2>2, <2>3, ObjectWrite
<1>7. ASSUME NEW X, WholeBut(base, s, X) PROVE WholeBut(base, t, X \ {a})
  <2>1. Sound(base, s, a)
    BY <1>7 DEF WholeBut
  <2>2. /\ y.slot = Clean => s.objs[a] = NoAccount \/ s.objs[a].slot = Clean
        /\ y.dead => y.new
    BY <1>3, <2>1 DEF Sound, x
  <2>3. y.new => Held(base, a) = 0
    BY <1>3, <2>1 DEF Sound, x
  <2> QED BY <1>1, <1>3, <1>4, <1>6, <1>7, <2>2, <2>3, DirtyWhole
<1> QED BY <1>6, <1>7 DEF t, x, y

\* The slot of an object.
SlotOf(B, a, x) == IF x.slot = Clean THEN Held(B, a) ELSE x.slot

\* setState of an object: one entry with the value the slot had.
LEMMA SetSlotIs ==
  ASSUME base \in Store, NEW s, Chain(s), NEW a \in Addr, s.objs[a] # NoAccount, NEW v \in Val,
         NEW prev, prev = SlotOf(base, a, s.objs[a]),
         NEW t, t = Journal([s EXCEPT !.objs = [s.objs EXCEPT ![a] = [s.objs[a] EXCEPT !.slot = v]]],
                            [kind |-> "storage", addr |-> a, prev |-> prev])
  PROVE  /\ t \in Db /\ SideEq(s, t) /\ Grows(base, s, t)
         /\ t.objs = [s.objs EXCEPT ![a] = [s.objs[a] EXCEPT !.slot = v]]
         /\ \A X : WholeBut(base, s, X) => WholeBut(base, t, X \ {a})
<1> DEFINE x == s.objs[a]
           y == [x EXCEPT !.slot = v]
           e == [kind |-> "storage", addr |-> a, prev |-> prev]
<1>1. s \in Db /\ x \in Object
  BY DbFields DEF Chain
<1>2. t = Put(s, a, y, e)
  BY DEF Put
<1>2a. v # Clean /\ Held(base, a) \in Val /\ Held(base, a) # Clean
  BY StoreFacts, StateDBAssumption
<1> HIDE DEF x
<1>2b. prev \in Val /\ prev = IF x.slot = Clean THEN Held(base, a) ELSE x.slot
  <2>1. x.slot \in Val \cup {Clean}
    BY <1>1 DEF Object
  <2> QED BY <1>2a, <2>1 DEF SlotOf, x
<1>3. /\ y \in Object /\ y.slot = v /\ y.dead = x.dead /\ y.new = x.new
      /\ [y EXCEPT !.slot = prev] = [x EXCEPT !.slot = prev]
  BY <1>1 DEF Object
<1>4. /\ e \in Entry /\ e.kind = "storage" /\ e.kind \in OnObject /\ e.kind \in Dirtied
      /\ e.addr = a /\ e.prev = prev
  BY <1>2b DEF Entry, OnObject, OfObject, Dirtied
<1> HIDE DEF y, e
<1>5. UndoneObject(y, e) = [x EXCEPT !.slot = prev]
  BY <1>3, <1>4 DEF UndoneObject
<1>6. /\ t \in Db /\ SideEq(s, t) /\ t.objs = [s.objs EXCEPT ![a] = y]
      /\ t.journal = Append(s.journal, e) /\ Grows(base, s, t)
  <2>1. Same(base, a, s.objs[a], UndoneObject(y, e))
    <3>1. CASE x.slot = Clean
      BY <1>1, <1>2b, <1>5, <3>1 DEF Same, x
    <3>2. CASE x.slot # Clean
      <4>1. [x EXCEPT !.slot = prev] = x
        BY <1>1, <1>2b, <3>2 DEF Object
      <4> QED BY <1>5, <4>1 DEF Same, x
    <3> QED BY <3>1, <3>2
  <2>2. y \in Object /\ e \in Entry /\ e.kind \in OnObject /\ e.addr = a
    BY <1>3, <1>4
  <2>3. base \in Store /\ Chain(s) /\ a \in Addr
    OBVIOUS
  <2> QED BY ONLY <1>2, <2>1, <2>2, <2>3, ObjectWrite
<1>7. ASSUME NEW X, WholeBut(base, s, X) PROVE WholeBut(base, t, X \ {a})
  <2>1. Sound(base, s, a)
    BY <1>7 DEF WholeBut
  <2>2. y.slot # Clean /\ (y.dead => y.new)
    BY <1>2a, <1>3, <2>1 DEF Sound, x
  <2>3. y.new => Held(base, a) = 0
    BY <1>3, <2>1 DEF Sound, x
  <2> QED BY <1>1, <1>3, <1>4, <1>6, <1>7, <2>2, <2>3, DirtyWhole
<1> QED BY <1>6, <1>7 DEF x, y

\* setCode of an object: one entry with the old code.
LEMMA SetCodeIs ==
  ASSUME base \in Store, NEW s, Chain(s), NEW a \in Addr, s.objs[a] # NoAccount,
         NEW t, t = Journal([s EXCEPT !.objs = [s.objs EXCEPT ![a] = [s.objs[a] EXCEPT !.code = 1]]],
                            [kind |-> "code", addr |-> a, prev |-> s.objs[a].code])
  PROVE  /\ t \in Db /\ SideEq(s, t) /\ Grows(base, s, t)
         /\ t.objs = [s.objs EXCEPT ![a] = [s.objs[a] EXCEPT !.code = 1]]
         /\ \A X : WholeBut(base, s, X) => WholeBut(base, t, X \ {a})
<1> DEFINE x == s.objs[a]
           y == [x EXCEPT !.code = 1]
           e == [kind |-> "code", addr |-> a, prev |-> x.code]
<1>1. s \in Db /\ x \in Object
  BY DbFields DEF Chain
<1>2. t = Put(s, a, y, e)
  BY DEF Put
<1> HIDE DEF x
<1>3. /\ y \in Object /\ y.slot = x.slot /\ y.dead = x.dead /\ y.new = x.new
      /\ [y EXCEPT !.code = x.code] = x /\ x.code \in {0, 1}
  BY <1>1 DEF Object
<1>4. /\ e \in Entry /\ e.kind = "code" /\ e.kind \in OnObject /\ e.kind \in Dirtied
      /\ e.addr = a /\ e.prev = x.code
  BY <1>3 DEF Entry, OnObject, OfObject, Dirtied
<1> HIDE DEF y, e
<1>5. UndoneObject(y, e) = x
  BY <1>3, <1>4 DEF UndoneObject
<1>6. /\ t \in Db /\ SideEq(s, t) /\ t.objs = [s.objs EXCEPT ![a] = y]
      /\ t.journal = Append(s.journal, e) /\ Grows(base, s, t)
  <2>1. Same(base, a, s.objs[a], UndoneObject(y, e))
    BY <1>5 DEF Same, x
  <2>2. y \in Object /\ e \in Entry /\ e.kind \in OnObject /\ e.addr = a
    BY <1>3, <1>4
  <2>3. base \in Store /\ Chain(s) /\ a \in Addr
    OBVIOUS
  <2> QED BY ONLY <1>2, <2>1, <2>2, <2>3, ObjectWrite
<1>7. ASSUME NEW X, WholeBut(base, s, X) PROVE WholeBut(base, t, X \ {a})
  <2>1. Sound(base, s, a)
    BY <1>7 DEF WholeBut
  <2>2. /\ y.slot = Clean => s.objs[a] = NoAccount \/ s.objs[a].slot = Clean
        /\ y.dead => y.new
    BY <1>3, <2>1 DEF Sound, x
  <2>3. y.new => Held(base, a) = 0
    BY <1>3, <2>1 DEF Sound, x
  <2> QED BY <1>1, <1>3, <1>4, <1>6, <1>7, <2>2, <2>3, DirtyWhole
<1> QED BY <1>6, <1>7 DEF x, y

\* SELFDESTRUCT of a contract this transaction created.
LEMMA DestroyIs ==
  ASSUME base \in Store, NEW s, Chain(s), NEW a \in Addr, s.objs[a] # NoAccount,
         s.objs[a].new
  PROVE  LET t == Destroy(s, a)
         IN  /\ t \in Db /\ SideEq(s, t) /\ Grows(base, s, t)
             /\ t.objs = [s.objs EXCEPT ![a] = [s.objs[a] EXCEPT !.dead = TRUE, !.bal = 0]]
             /\ \A X : WholeBut(base, s, X) => WholeBut(base, t, X)
<1> DEFINE t == Destroy(s, a)
           x == s.objs[a]
           tt == TRUE
           y == [x EXCEPT !.dead = tt, !.bal = 0]
           e == [kind |-> "destroy", addr |-> a, prev |-> x.dead, bal |-> x.bal]
<1>1. s \in Db /\ x \in Object /\ s.objs \in [Addr -> Object \cup {NoAccount}]
  BY DbFields DEF Chain
<1>2. t = Put(s, a, y, e)
  <2>1. t = Journal([s EXCEPT !.objs[a].dead = TRUE, !.objs[a].bal = 0], e)
    BY DEF Destroy
  <2>2. [s EXCEPT !.objs[a].dead = TRUE, !.objs[a].bal = 0]
          = [s EXCEPT !.objs = [s.objs EXCEPT ![a] = y]]
    BY <1>1 DEF Db
  <2> QED BY <2>1, <2>2 DEF Put
<1>2a. tt \in BOOLEAN
  OBVIOUS
<1> HIDE DEF t, x, tt
<1>3. /\ y \in Object /\ y.slot = x.slot /\ y.dead = tt /\ y.new = x.new
      /\ [y EXCEPT !.dead = x.dead, !.bal = x.bal] = x /\ x.bal \in Nat /\ x.dead \in BOOLEAN
  BY <1>1, <1>2a DEF Object
<1>4. /\ e \in Entry /\ e.kind = "destroy" /\ e.kind \in OnObject /\ e.kind \in Dirtied
      /\ e.addr = a /\ e.prev = x.dead /\ e.bal = x.bal
  BY <1>3 DEF Entry, OnObject, OfObject, Dirtied
<1> HIDE DEF y, e
<1>5. UndoneObject(y, e) = x
  BY <1>3, <1>4 DEF UndoneObject
<1>6. /\ t \in Db /\ SideEq(s, t) /\ t.objs = [s.objs EXCEPT ![a] = y]
      /\ t.journal = Append(s.journal, e) /\ Grows(base, s, t)
  <2>1. Same(base, a, s.objs[a], UndoneObject(y, e))
    BY <1>5 DEF Same, x
  <2>2. y \in Object /\ e \in Entry /\ e.kind \in OnObject /\ e.addr = a
    BY <1>3, <1>4
  <2>3. base \in Store /\ Chain(s) /\ a \in Addr
    OBVIOUS
  <2> QED BY ONLY <1>2, <2>1, <2>2, <2>3, ObjectWrite
<1>7. ASSUME NEW X, WholeBut(base, s, X) PROVE WholeBut(base, t, X)
  <2>1. Sound(base, s, a) /\ x.new
    BY <1>7 DEF WholeBut, x
  <2>2. /\ y.slot = Clean => s.objs[a] = NoAccount \/ s.objs[a].slot = Clean
        /\ y.dead => y.new
    BY <1>3, <2>1 DEF Sound, x
  <2>3. y.new => Held(base, a) = 0
    BY <1>3, <2>1 DEF Sound, x
  <2>4. WholeBut(base, t, X \ {a})
    BY <1>1, <1>3, <1>4, <1>6, <1>7, <2>2, <2>3, DirtyWhole
  <2> QED BY <2>4, WholeMonotone
<1> QED BY <1>6, <1>7 DEF t, x, y, tt

\* CreateContract marks the object as new, with one entry.
LEMMA CreateContractIs ==
  ASSUME base \in Store, NEW s, Chain(s), NEW a \in Addr, s.objs[a] # NoAccount,
         ~s.objs[a].new, Held(base, a) = 0
  PROVE  LET t == CreateContract(s, a)
         IN  /\ t \in Db /\ SideEq(s, t) /\ Grows(base, s, t)
             /\ t.objs = [s.objs EXCEPT ![a] = [s.objs[a] EXCEPT !.new = TRUE]]
             /\ \A X : WholeBut(base, s, X) => WholeBut(base, t, X)
<1> DEFINE t == CreateContract(s, a)
           x == s.objs[a]
           tt == TRUE
           y == [x EXCEPT !.new = tt]
           e == [kind |-> "contract", addr |-> a]
<1>1. s \in Db /\ x \in Object /\ s.objs \in [Addr -> Object \cup {NoAccount}]
  BY DbFields DEF Chain
<1>2. t = Put(s, a, y, e)
  BY DEF CreateContract, Put
<1>2a. tt \in BOOLEAN /\ FALSE \in BOOLEAN /\ (x.new \in BOOLEAN => x.new = FALSE)
  OBVIOUS
<1> HIDE DEF t, x, tt
<1>3. /\ y \in Object /\ y.slot = x.slot /\ y.dead = x.dead /\ y.new = tt
      /\ [y EXCEPT !.new = x.new] = x /\ x.new \in BOOLEAN
      /\ y.bal = x.bal /\ y.code = x.code
  BY <1>1, <1>2a DEF Object
<1>4. /\ e \in Entry /\ e.kind = "contract" /\ e.kind \in OnObject /\ e.kind \notin Dirtied
      /\ e.addr = a
  BY <1>3 DEF Entry, OnObject, OfObject, Dirtied
<1> HIDE DEF y, e
<1>5. UndoneObject(y, e) = x
  <2>1. UndoneObject(y, e) = [y EXCEPT !.new = FALSE]
    BY <1>4 DEF UndoneObject
  <2>2. x.new = FALSE
    BY <1>2a, <1>3
  <2> QED BY <1>3, <2>1, <2>2
<1>6. /\ t \in Db /\ SideEq(s, t) /\ t.objs = [s.objs EXCEPT ![a] = y]
      /\ t.journal = Append(s.journal, e) /\ Grows(base, s, t)
  <2>1. Same(base, a, s.objs[a], UndoneObject(y, e))
    BY <1>5 DEF Same, x
  <2>2. y \in Object /\ e \in Entry /\ e.kind \in OnObject /\ e.addr = a
    BY <1>3, <1>4
  <2>3. base \in Store /\ Chain(s) /\ a \in Addr
    OBVIOUS
  <2> QED BY ONLY <1>2, <2>1, <2>2, <2>3, ObjectWrite
<1>7. ASSUME NEW X, WholeBut(base, s, X) PROVE WholeBut(base, t, X)
  <2>1. Sound(base, s, a) /\ (a \notin X /\ a \notin Dirty(s) => Unmodified(base, s, a))
    BY <1>7 DEF WholeBut
  <2>2. Dirty(t) = Dirty(s)
    <3>0. s.journal \in Seq(Entry) /\ t.journal = Append(s.journal, e) /\ e \in Entry
      BY <1>1, <1>4, <1>6, DbFields
    <3>1. Dirty(t) = Dirty(s) \cup {b \in Addr : e.kind \in Dirtied /\ e.addr = b}
      BY ONLY <3>0, DirtyAppend
    <3> QED BY <1>4, <3>1
  <2>3. TopOf(base, t) = TopOf(base, s) /\ t.objs[a] = y /\ y # NoAccount
    BY <1>1, <1>3, <1>6, StateDBAssumption DEF TopOf, SideEq
  <2>4. Sound(base, t, a)
    BY <1>2a, <1>3, <2>1, <2>2, <2>3 DEF Sound, x, tt
  <2>5. a \notin X /\ a \notin Dirty(t) => Unmodified(base, t, a)
    BY <1>3, <2>1, <2>2, <2>3 DEF Unmodified, x
  <2>6. WholeBut(base, s, X \cup {a})
    BY <1>7, WholeMonotone
  <2> QED BY <1>1, <1>3, <1>4, <1>6, <2>4, <2>5, <2>6, ObjectWhole
<1> QED BY <1>6, <1>7 DEF t, x, y, tt

\* The object the operations of an account work on.
Loaded(s, a) == IF Get(s, a) # NoAccount THEN Get(s, a) ELSE Fresh

\* t is s with the object y for a.
Becomes(s, t, a, y) ==
  /\ t \in Db /\ SideEq(s, t) /\ Grows(base, s, t)
  /\ t.objs = [s.objs EXCEPT ![a] = y] /\ y \in Object

\* getOrNewStateObject, stated as what becomes of the one object.
LEMMA GetOrNewBecomes ==
  ASSUME base \in Store, NEW s, Chain(s), NEW a \in Addr
  PROVE  LET t == GetOrNew(s, a)
         IN  /\ Becomes(s, t, a, Loaded(s, a)) /\ Chain(t) /\ t.objs[a] = Loaded(s, a)
             /\ t.objs[a] # NoAccount
             /\ \A X : WholeBut(base, s, X) => WholeBut(base, t, X)
<1> DEFINE t == GetOrNew(s, a)
           x == Loaded(s, a)
<1>1. /\ t \in Db /\ SideEq(s, t) /\ x \in Object /\ Grows(base, s, t)
      /\ t.objs = [s.objs EXCEPT ![a] = x]
      /\ \A X : WholeBut(base, s, X) => WholeBut(base, t, X)
  BY GetOrNewIs DEF Loaded
<1> HIDE DEF t, x
<1>2. s.objs \in [Addr -> Object \cup {NoAccount}] /\ NoAccount \notin Object
  BY DbFields, StateDBAssumption DEF Chain
<1>3. t.objs[a] = x /\ x # NoAccount
  BY <1>1, <1>2
<1>4. Chain(t)
  BY <1>1 DEF Grows
<1>5. Becomes(s, t, a, x)
  BY <1>1 DEF Becomes
<1> QED BY <1>1, <1>3, <1>4, <1>5 DEF t, x

\* Two changes of the same object compose to the second.
LEMMA BecomesTwice ==
  ASSUME base \in Store, NEW s, NEW t, NEW u, NEW a \in Addr, NEW x, NEW y,
         s \in Db, Becomes(s, t, a, x), Becomes(t, u, a, y)
  PROVE  Becomes(s, u, a, y)
<1>1. s.objs \in [Addr -> Object \cup {NoAccount}]
  BY DbFields
<1>2. u.objs = [s.objs EXCEPT ![a] = y]
  BY <1>1 DEF Becomes
<1>3. Grows(base, s, u)
  BY GrowsTransitive DEF Becomes
<1>4. SideEq(s, u)
  BY DEF Becomes, SideEq
<1> QED BY <1>2, <1>3, <1>4 DEF Becomes

\* A balance changes by n, which may be negative.
Adjust(s, a, n) ==
  IF n = 0 THEN GetOrNew(s, a)
  ELSE SetBalance(GetOrNew(s, a), a, GetOrNew(s, a).objs[a].bal + n)

\* A balance moved by a signed amount; an amount that is not zero leaves the object dirty.
LEMMA BalanceIs ==
  ASSUME base \in Store, NEW s, Chain(s), NEW a \in Addr, NEW n, NEW t,
         Loaded(s, a).bal + n \in Nat, n \in Int, t = Adjust(s, a, n)
  PROVE  /\ Becomes(s, t, a, [Loaded(s, a) EXCEPT !.bal = Loaded(s, a).bal + n])
         /\ \A X : WholeBut(base, s, X) =>
                     WholeBut(base, t, X) /\ (n # 0 => WholeBut(base, t, X \ {a}))
<1> DEFINE g == GetOrNew(s, a)
           x == Loaded(s, a)
           y == [x EXCEPT !.bal = x.bal + n]
<1>1. /\ Becomes(s, g, a, x) /\ Chain(g) /\ g.objs[a] = x /\ g.objs[a] # NoAccount
      /\ \A X : WholeBut(base, s, X) => WholeBut(base, g, X)
  BY GetOrNewBecomes
<1>2. s \in Db /\ x \in Object
  BY <1>1 DEF Chain, Becomes
<1>3. CASE n = 0
  <2>1. t = g
    BY <1>3 DEF Adjust
  <2> HIDE DEF g, x
  <2>2. y = x
    <3>1. x.bal + n = x.bal
      BY <1>2, <1>3 DEF Object
    <3>2. [x EXCEPT !.bal = x.bal] = x
      BY <1>2 DEF Object
    <3> QED BY <3>1, <3>2
  <2> HIDE DEF y
  <2>3. Becomes(s, t, a, y)
    BY <1>1, <2>1, <2>2
  <2> QED BY <1>1, <1>3, <2>1, <2>3 DEF x, y
<1>4. CASE n # 0
  <2> DEFINE v == x.bal + n
  <2>1. t = SetBalance(g, a, v) /\ v \in Nat
    BY <1>1, <1>4 DEF Adjust
  <2> HIDE DEF g, x, v
  <2>2. /\ t \in Db /\ SideEq(g, t) /\ Grows(base, g, t)
        /\ t.objs = [g.objs EXCEPT ![a] = [g.objs[a] EXCEPT !.bal = v]]
        /\ \A X : WholeBut(base, g, X) => WholeBut(base, t, X \ {a})
    <3>1. base \in Store /\ Chain(g) /\ a \in Addr /\ g.objs[a] # NoAccount
      BY <1>1
    <3> QED BY ONLY <2>1, <3>1, SetBalanceIs
  <2>3. [x EXCEPT !.bal = v] \in Object
    BY <1>2, <2>1 DEF Object
  <2>4. Becomes(g, t, a, [x EXCEPT !.bal = v])
    BY <1>1, <2>2, <2>3 DEF Becomes
  <2>5. Becomes(s, t, a, [x EXCEPT !.bal = v])
    BY <1>1, <1>2, <2>4, BecomesTwice
  <2>6. ASSUME NEW X, WholeBut(base, s, X) PROVE WholeBut(base, t, X) /\ WholeBut(base, t, X \ {a})
    <3>1. WholeBut(base, t, X \ {a})
      BY <1>1, <2>2, <2>6
    <3> QED BY <3>1, WholeMonotone
  <2> QED BY <2>5, <2>6 DEF x, v
<1> QED BY <1>3, <1>4

\* AddBalance adds the amount to the object that was loaded or created.
LEMMA AddBalanceIs ==
  ASSUME base \in Store, NEW s, Chain(s), NEW a \in Addr, NEW n \in Nat
  PROVE  LET t == AddBalance(s, a, n)
         IN  /\ Becomes(s, t, a, [Loaded(s, a) EXCEPT !.bal = Loaded(s, a).bal + n])
             /\ \A X : WholeBut(base, s, X) =>
                         WholeBut(base, t, X) /\ (n # 0 => WholeBut(base, t, X \ {a}))
<1>1. Loaded(s, a) \in Object
  BY GetOrNewBecomes DEF Becomes
<1>2. Loaded(s, a).bal + n \in Nat /\ n \in Int
  <2>1. Loaded(s, a).bal \in Nat
    BY <1>1 DEF Object
  <2> QED BY <2>1
<1> DEFINE t == AddBalance(s, a, n)
<1>3. t = Adjust(s, a, n)
  BY DEF AddBalance, Adjust
<1> HIDE DEF t
<1> QED BY <1>2, <1>3, BalanceIs DEF t

\* SubBalance takes an amount the object has.
LEMMA SubBalanceIs ==
  ASSUME base \in Store, NEW s, Chain(s), NEW a \in Addr, NEW n \in Nat,
         n <= Loaded(s, a).bal
  PROVE  LET t == SubBalance(s, a, n)
         IN  /\ Becomes(s, t, a, [Loaded(s, a) EXCEPT !.bal = Loaded(s, a).bal - n])
             /\ \A X : WholeBut(base, s, X) =>
                         WholeBut(base, t, X) /\ (n # 0 => WholeBut(base, t, X \ {a}))
<1>1. Loaded(s, a) \in Object
  BY GetOrNewBecomes DEF Becomes
<1> DEFINE t == SubBalance(s, a, n)
           m == -n
           g == GetOrNew(s, a)
<1>2. /\ Loaded(s, a).bal + m \in Nat /\ m \in Int /\ (m = 0 <=> n = 0)
      /\ Loaded(s, a).bal + m = Loaded(s, a).bal - n
  <2>1. Loaded(s, a).bal \in Nat
    BY <1>1 DEF Object
  <2> QED BY <2>1
<1>3. g.objs[a] = Loaded(s, a)
  BY GetOrNewBecomes
<1>4. t = IF n = 0 THEN g ELSE SetBalance(g, a, g.objs[a].bal - n)
  BY DEF SubBalance
<1>5. t = Adjust(s, a, m)
  <2>1. g.objs[a].bal + m = g.objs[a].bal - n
    BY <1>2, <1>3
  <2> HIDE DEF t, m
  <2> QED BY <1>2, <1>4, <2>1 DEF Adjust
<1> HIDE DEF t, m
<1>6. /\ Becomes(s, t, a, [Loaded(s, a) EXCEPT !.bal = Loaded(s, a).bal + m])
      /\ \A X : WholeBut(base, s, X) =>
                  WholeBut(base, t, X) /\ (n # 0 => WholeBut(base, t, X \ {a}))
  BY <1>2, <1>5, BalanceIs
<1> QED BY <1>2, <1>6 DEF t

\* GetState of a loaded object reads its dirty slot, or else the store.
LEMMA StateIs ==
  ASSUME NEW s \in Db, NEW a \in Addr, s.objs[a] # NoAccount
  PROVE  GetState(s, a) = SlotOf(base, a, s.objs[a])
<1>1. Get(s, a) = s.objs[a] /\ Committed(a) = Held(base, a)
  BY Names
<1> QED BY <1>1 DEF GetState, SlotOf

\* SetState writes the slot, and journals nothing when the value is the one it has.
LEMMA WriteStateIs ==
  ASSUME base \in Store, NEW s, Chain(s), NEW a \in Addr, NEW v \in Val
  PROVE  LET t == WriteState(s, a, v)
             x == Loaded(s, a)
         IN  /\ Becomes(s, t, a, IF SlotOf(base, a, x) = v THEN x ELSE [x EXCEPT !.slot = v])
             /\ \A X : WholeBut(base, s, X) => WholeBut(base, t, X)
<1> DEFINE g == GetOrNew(s, a)
           x == Loaded(s, a)
           t == WriteState(s, a, v)
           prev == GetState(g, a)
<1>1. /\ Becomes(s, g, a, x) /\ Chain(g) /\ g.objs[a] = x /\ g.objs[a] # NoAccount
      /\ \A X : WholeBut(base, s, X) => WholeBut(base, g, X)
  BY GetOrNewBecomes
<1>2. s \in Db /\ g \in Db /\ x \in Object
  BY <1>1 DEF Chain, Becomes
<1>3. prev = SlotOf(base, a, g.objs[a]) /\ prev = SlotOf(base, a, x)
  BY <1>1, <1>2, StateIs
<1>4. t = IF prev = v THEN g
          ELSE Journal([g EXCEPT !.objs = [g.objs EXCEPT ![a] = [g.objs[a] EXCEPT !.slot = v]]],
                       [kind |-> "storage", addr |-> a, prev |-> prev])
  BY DEF WriteState
<1> HIDE DEF t, g, x, prev
<1>5. CASE prev = v
  BY <1>1, <1>3, <1>4, <1>5 DEF t, x
<1>6. CASE prev # v
  <2>1. t = Journal([g EXCEPT !.objs = [g.objs EXCEPT ![a] = [g.objs[a] EXCEPT !.slot = v]]],
                    [kind |-> "storage", addr |-> a, prev |-> prev])
    BY <1>4, <1>6
  <2>2. /\ t \in Db /\ SideEq(g, t) /\ Grows(base, g, t)
        /\ t.objs = [g.objs EXCEPT ![a] = [g.objs[a] EXCEPT !.slot = v]]
        /\ \A X : WholeBut(base, g, X) => WholeBut(base, t, X \ {a})
    BY <1>1, <1>3, <2>1, SetSlotIs
  <2>3. [x EXCEPT !.slot = v] \in Object
    BY <1>2 DEF Object
  <2>4. Becomes(g, t, a, [x EXCEPT !.slot = v])
    BY <1>1, <2>2, <2>3 DEF Becomes
  <2>5. Becomes(s, t, a, [x EXCEPT !.slot = v])
    BY <1>1, <1>2, <2>4, BecomesTwice
  <2>6. ASSUME NEW X, WholeBut(base, s, X) PROVE WholeBut(base, t, X)
    <3>1. WholeBut(base, t, X \ {a})
      BY <1>1, <2>2, <2>6
    <3> QED BY <3>1, WholeMonotone
  <2> QED BY <1>3, <1>6, <2>5, <2>6 DEF x, t
<1> QED BY <1>5, <1>6

\* SetCode on the object that was loaded or created.
LEMMA WriteCodeIs ==
  ASSUME base \in Store, NEW s, Chain(s), NEW a \in Addr
  PROVE  LET t == WriteCode(s, a)
         IN  /\ Becomes(s, t, a, [Loaded(s, a) EXCEPT !.code = 1])
             /\ \A X : WholeBut(base, s, X) => WholeBut(base, t, X)
<1> DEFINE g == GetOrNew(s, a)
           x == Loaded(s, a)
           t == WriteCode(s, a)
<1>1. /\ Becomes(s, g, a, x) /\ Chain(g) /\ g.objs[a] = x /\ g.objs[a] # NoAccount
      /\ \A X : WholeBut(base, s, X) => WholeBut(base, g, X)
  BY GetOrNewBecomes
<1>2. s \in Db /\ g \in Db /\ x \in Object
  BY <1>1 DEF Chain, Becomes
<1>3. t = Journal([g EXCEPT !.objs = [g.objs EXCEPT ![a] = [g.objs[a] EXCEPT !.code = 1]]],
                  [kind |-> "code", addr |-> a, prev |-> g.objs[a].code])
  BY DEF WriteCode
<1> HIDE DEF t, g, x
<1>4. /\ t \in Db /\ SideEq(g, t) /\ Grows(base, g, t)
      /\ t.objs = [g.objs EXCEPT ![a] = [g.objs[a] EXCEPT !.code = 1]]
      /\ \A X : WholeBut(base, g, X) => WholeBut(base, t, X \ {a})
  BY <1>1, <1>3, SetCodeIs
<1>5. [x EXCEPT !.code = 1] \in Object
  BY <1>2 DEF Object
<1>6. Becomes(g, t, a, [x EXCEPT !.code = 1])
  BY <1>1, <1>4, <1>5 DEF Becomes
<1>7. Becomes(s, t, a, [x EXCEPT !.code = 1])
  BY <1>1, <1>2, <1>6, BecomesTwice
<1>8. ASSUME NEW X, WholeBut(base, s, X) PROVE WholeBut(base, t, X)
  <2>1. WholeBut(base, t, X \ {a})
    BY <1>1, <1>4, <1>8
  <2> QED BY <2>1, WholeMonotone
<1> QED BY <1>7, <1>8 DEF x, t

-----------------------------------------------------------------------------
(* Refund, logs, transient storage and the access list.                    *)

OfSide == {"transient", "refund", "log", "addr", "slot"}

\* t has the fields x of s that entry e undoes.
Returns(s, t, e) ==
  /\ UndoneTransient(t.transient, e) = s.transient /\ UndoneRefund(t.refund, e) = s.refund
  /\ UndoneLogs(t.logs, e) = s.logs /\ UndoneAccess(t.access, e) = s.access

\* A write outside the objects (transient storage, refund, logs, access list) whose entry
\* restores it extends the journal soundly.
LEMMA SideWrite ==
  ASSUME NEW B \in Store, NEW s, Chain(s), NEW t \in Db, NEW e \in Entry, e.kind \in OfSide,
         t.objs = s.objs, t.layers = s.layers, t.journal = Append(s.journal, e),
         Fits(t, e), Returns(s, t, e)
  PROVE  /\ Grows(B, s, t)
         /\ AccessOk(t) => \A X : WholeBut(B, s, X) => WholeBut(B, t, X)
<1>1. s \in Db /\ s.journal \in Seq(Entry)
  BY DbFields DEF Chain
<1> DEFINE u == Undo(t, e)
<1>2. Undone(t, u, e)
  BY UndoFields
<1>3. e.kind \notin OnObject /\ e.kind # "precompile" /\ e.kind \notin Dirtied
  BY DEF OfSide, OnObject, OfObject, Dirtied
<1> HIDE DEF u
<1>4. u \in Db /\ SideEq(s, u) /\ u.objs = s.objs
  BY <1>2, <1>3 DEF Undone, Returns, SideEq, UndoneObjs, UndoneLayers
<1>5. Sim(B, s, u)
  BY <1>1, <1>4 DEF Sim, Same
<1>6. Grows(B, s, t)
  BY <1>5, GrowsOne DEF u
<1>7. ASSUME AccessOk(t), NEW X, WholeBut(B, s, X) PROVE WholeBut(B, t, X)
  <2>1. LayersOk(t)
    BY <1>1, <1>3, <1>7, LayersAppend DEF WholeBut
  <2>2. Dirty(t) = Dirty(s)
    <3>0. s.journal \in Seq(Entry) /\ t.journal = Append(s.journal, e) /\ e \in Entry
      BY <1>1
    <3>1. Dirty(t) = Dirty(s) \cup {b \in Addr : e.kind \in Dirtied /\ e.addr = b}
      BY ONLY <3>0, DirtyAppend
    <3> QED BY <1>3, <3>1
  <2>3. TopOf(B, t) = TopOf(B, s)
    BY DEF TopOf
  <2>4. \A a \in Addr : Sound(B, t, a)
    BY <1>7, <2>2, <2>3 DEF WholeBut, Sound
  <2>5. \A a \in Addr \ X : a \notin Dirty(t) => Unmodified(B, t, a)
    BY <1>7, <2>2, <2>3 DEF WholeBut, Unmodified
  <2> QED BY <1>7, <2>1, <2>4, <2>5 DEF WholeBut
<1> QED BY <1>6, <1>7

\* SetTransientState changes the one transient slot.
LEMMA TransientIs ==
  ASSUME NEW B \in Store, NEW s, Chain(s), NEW a \in Addr, NEW v \in Val
  PROVE  LET t == WriteTransient(s, a, v)
         IN  /\ t \in Db /\ t.objs = s.objs /\ t.refund = s.refund /\ t.logs = s.logs
             /\ t.transient = [s.transient EXCEPT ![a] = v]
             /\ t.access = s.access /\ t.layers = s.layers /\ Grows(B, s, t)
             /\ WholeBut(B, s, {}) => WholeBut(B, t, {})
<1> DEFINE t == WriteTransient(s, a, v)
           w == [s.transient EXCEPT ![a] = v]
           e == [kind |-> "transient", addr |-> a, prev |-> s.transient[a]]
           j == Append(s.journal, e)
<1>1. s \in Db /\ s.transient \in [Addr -> Val] /\ s.journal \in Seq(Entry)
  BY DbFields DEF Chain
<1>2. CASE s.transient[a] = v
  <2>1. t = s
    BY <1>2 DEF WriteTransient
  <2>2. w = s.transient
    BY <1>1, <1>2
  <2>3. Grows(B, s, s)
    BY <1>1, SimReflexive, GrowsSame
  <2> QED BY <1>1, <2>1, <2>2, <2>3
<1>3. CASE s.transient[a] # v
  <2>1. t = [[s EXCEPT !.transient = w] EXCEPT !.journal = j]
    BY <1>3 DEF WriteTransient, Journal
  <2>2. w \in [Addr -> Val] /\ s.transient[a] \in Val
        /\ [w EXCEPT ![a] = s.transient[a]] = s.transient
    BY <1>1
  <2>3. e \in Entry /\ e.kind = "transient" /\ e.addr = a /\ e.prev = s.transient[a]
    BY <2>2 DEF Entry
  <2> HIDE DEF e
  <2>4. j \in Seq(Entry)
    BY <1>1, <2>3
  <2> HIDE DEF t, w, j
  <2>5. /\ t \in Db /\ t.objs = s.objs /\ t.refund = s.refund /\ t.logs = s.logs
        /\ t.transient = w /\ t.access = s.access /\ t.layers = s.layers /\ t.journal = j
    BY <1>1, <2>1, <2>2, <2>4 DEF Db
  <2>6. Fits(t, e) /\ Returns(s, t, e) /\ e.kind \in OfSide
    BY <2>2, <2>3, <2>5 DEF Fits, Returns, OfSide, OfObject, UndoneTransient, UndoneRefund,
                            UndoneLogs, UndoneAccess
  <2>7. AccessOk(t) <=> AccessOk(s)
    BY <2>5 DEF AccessOk
  <2>8. /\ Grows(B, s, t)
        /\ AccessOk(t) => \A X : WholeBut(B, s, X) => WholeBut(B, t, X)
    BY <2>3, <2>5, <2>6, SideWrite DEF j
  <2>9. WholeBut(B, s, {}) => WholeBut(B, t, {})
    <3>1. WholeBut(B, s, {}) => AccessOk(s)
      BY DEF WholeBut
    <3> QED BY <2>7, <2>8, <3>1
  <2> QED BY <2>5, <2>8, <2>9 DEF t, w
<1> QED BY <1>2, <1>3

\* AddRefund and SubRefund change the refund counter only.
LEMMA RefundIs ==
  ASSUME NEW B \in Store, NEW s, Chain(s), NEW r \in Nat,
         NEW t, t = Journal([s EXCEPT !.refund = r], [kind |-> "refund", prev |-> s.refund])
  PROVE  /\ t \in Db /\ t.objs = s.objs /\ t.refund = r /\ t.logs = s.logs
         /\ t.transient = s.transient
         /\ t.access = s.access /\ t.layers = s.layers /\ Grows(B, s, t)
         /\ WholeBut(B, s, {}) => WholeBut(B, t, {})
<1> DEFINE e == [kind |-> "refund", prev |-> s.refund]
           j == Append(s.journal, e)
<1>1. s \in Db /\ s.refund \in Nat /\ s.journal \in Seq(Entry)
  BY DbFields DEF Chain
<1>2. t = [[s EXCEPT !.refund = r] EXCEPT !.journal = j]
  BY DEF Journal
<1>3. e \in Entry /\ e.kind = "refund" /\ e.prev = s.refund
  BY <1>1 DEF Entry
<1> HIDE DEF e
<1>4. j \in Seq(Entry)
  BY <1>1, <1>3
<1> HIDE DEF j
<1>5. /\ t \in Db /\ t.objs = s.objs /\ t.refund = r /\ t.logs = s.logs
      /\ t.transient = s.transient /\ t.access = s.access /\ t.layers = s.layers /\ t.journal = j
  BY <1>1, <1>2, <1>4 DEF Db
<1>6. Fits(t, e) /\ Returns(s, t, e) /\ e.kind \in OfSide
  BY <1>3, <1>5 DEF Fits, Returns, OfSide, OfObject, UndoneTransient, UndoneRefund,
                    UndoneLogs, UndoneAccess
<1>7. AccessOk(t) <=> AccessOk(s)
  BY <1>5 DEF AccessOk
<1>8. /\ Grows(B, s, t)
      /\ AccessOk(t) => \A X : WholeBut(B, s, X) => WholeBut(B, t, X)
  BY <1>3, <1>5, <1>6, SideWrite DEF j
<1>9. WholeBut(B, s, {}) => WholeBut(B, t, {})
  <2>1. WholeBut(B, s, {}) => AccessOk(s)
    BY DEF WholeBut
  <2> QED BY <1>7, <1>8, <2>1
<1> QED BY <1>5, <1>8, <1>9

\* AddLog adds one log only.
LEMMA LogIs ==
  ASSUME NEW B \in Store, NEW s, Chain(s),
         NEW t, t = Journal([s EXCEPT !.logs = s.logs + 1], [kind |-> "log"])
  PROVE  /\ t \in Db /\ t.objs = s.objs /\ t.refund = s.refund /\ t.logs = s.logs + 1
         /\ t.transient = s.transient
         /\ t.access = s.access /\ t.layers = s.layers /\ Grows(B, s, t)
         /\ WholeBut(B, s, {}) => WholeBut(B, t, {})
<1> DEFINE e == [kind |-> "log"]
           j == Append(s.journal, e)
           n == s.logs + 1
<1>1. s \in Db /\ s.logs \in Nat /\ s.journal \in Seq(Entry)
  BY DbFields DEF Chain
<1>2. t = [[s EXCEPT !.logs = n] EXCEPT !.journal = j]
  BY DEF Journal
<1>3. e \in Entry /\ e.kind = "log" /\ n \in Nat /\ n > 0 /\ n - 1 = s.logs
  BY <1>1 DEF Entry
<1> HIDE DEF e, n
<1>4. j \in Seq(Entry)
  BY <1>1, <1>3
<1> HIDE DEF j
<1>5. /\ t \in Db /\ t.objs = s.objs /\ t.refund = s.refund /\ t.logs = n
      /\ t.transient = s.transient /\ t.access = s.access /\ t.layers = s.layers /\ t.journal = j
  BY <1>1, <1>2, <1>3, <1>4 DEF Db
<1>6. Fits(t, e) /\ Returns(s, t, e) /\ e.kind \in OfSide
  BY <1>3, <1>5 DEF Fits, Returns, OfSide, OfObject, UndoneTransient, UndoneRefund,
                    UndoneLogs, UndoneAccess
<1>7. AccessOk(t) <=> AccessOk(s)
  BY <1>5 DEF AccessOk
<1>8. /\ Grows(B, s, t)
      /\ AccessOk(t) => \A X : WholeBut(B, s, X) => WholeBut(B, t, X)
  BY <1>3, <1>5, <1>6, SideWrite DEF j
<1>9. WholeBut(B, s, {}) => WholeBut(B, t, {})
  <2>1. WholeBut(B, s, {}) => AccessOk(s)
    BY DEF WholeBut
  <2> QED BY <1>7, <1>8, <2>1
<1> QED BY <1>5, <1>8, <1>9 DEF n

\* What an access list makes warm.
Warmth(l) ==
  {a \in Addr : l.at[a] # Absent} \cup
  {w \in Addr \X Slot : l.at[w[1]] >= 0 /\ w[2] \in l.slots[l.at[w[1]] + 1]}

\* What the last entry finds when it is undone in the list l.
FitsList(l, e) ==
  /\ e.kind = "addr" => l.at[e.addr] = -1
  /\ e.kind = "slot" =>
       /\ l.at[e.addr] \in 0..(Len(l.slots) - 1)
       /\ l.slots[l.at[e.addr] + 1] = {e.slot} =>
            \A b \in Addr \ {e.addr} : l.at[b] < l.at[e.addr]

\* The two fields of the access list with their types.
LEMMA ListFields ==
  ASSUME NEW l \in AccessList
  PROVE  /\ l.at \in [Addr -> Int] /\ l.slots \in Seq(SUBSET Slot) /\ Len(l.slots) \in Nat
         /\ \A i \in 1..Len(l.slots) : l.slots[i] \in SUBSET Slot
         /\ l = [at |-> l.at, slots |-> l.slots]
BY DEF AccessList

\* Writing a value and writing the old one back is the identity.
LEMMA ExceptBack ==
  ASSUME NEW A, NEW R, NEW f \in [A -> R], NEW a \in A, NEW x
  PROVE  [[f EXCEPT ![a] = x] EXCEPT ![a] = f[a]] = f
OBVIOUS

WithAddr(l, a) == [l EXCEPT !.at = [l.at EXCEPT ![a] = -1]]
WithSlot(l, a, k) ==
  [at |-> [l.at EXCEPT ![a] = Len(l.slots)], slots |-> Append(l.slots, {k})]

\* AddSlot for an address without slots, as an operator of its own.
LEMMA WithSlotIs ==
  ASSUME NEW l \in AccessList, NEW a, NEW k
  PROVE  [l EXCEPT !.at[a] = Len(l.slots), !.slots = Append(@, {k})] = WithSlot(l, a, k)
<1> DEFINE g == [l.at EXCEPT ![a] = Len(l.slots)]
           w == [l EXCEPT !.at = g]
<1>1. l = [at |-> l.at, slots |-> l.slots]
  BY ListFields
<1>2. w = [at |-> g, slots |-> l.slots]
  <2> HIDE DEF g
  <2> QED BY <1>1
<1>2a. w = [at |-> w.at, slots |-> w.slots] /\ w.slots = l.slots /\ w.at = g
  <2> HIDE DEF w, g
  <2> QED BY <1>2
<1>3. [w EXCEPT !.slots = Append(w.slots, {k})] = [at |-> g, slots |-> Append(l.slots, {k})]
  <2> DEFINE q == Append(w.slots, {k})
             p == Append(l.slots, {k})
  <2>1. q = p
    BY <1>2a
  <2> HIDE DEF w, g, q, p
  <2>2. [w EXCEPT !.slots = q] = [at |-> w.at, slots |-> q]
    BY <1>2a
  <2>3. [w EXCEPT !.slots = q] = [at |-> g, slots |-> p]
    BY <1>2a, <2>1, <2>2
  <2> QED BY <2>3 DEF q, p
<1> QED BY <1>3 DEF WithSlot

\* Adding the address first makes no difference to the list that results.
LEMMA WithSlotTwice ==
  ASSUME NEW l \in AccessList, NEW a \in Addr, NEW k
  PROVE  WithSlot(WithAddr(l, a), a, k) = WithSlot(l, a, k)
<1>1. l.at \in [Addr -> Int] /\ l = [at |-> l.at, slots |-> l.slots]
  BY ListFields
<1> DEFINE m == -1
           g == [l.at EXCEPT ![a] = m]
           n == Len(l.slots)
           w == WithAddr(l, a)
<1>2. w = [l EXCEPT !.at = g]
  BY DEF WithAddr
<1> HIDE DEF m, n, w
<1>3. [g EXCEPT ![a] = n] = [l.at EXCEPT ![a] = n]
  BY <1>1
<1> HIDE DEF g
<1>4. w.at = g /\ w.slots = l.slots
  BY <1>1, <1>2
<1> QED BY <1>3, <1>4 DEF WithSlot, n, w

\* The address is new.
LEMMA AddrNew ==
  ASSUME NEW l \in AccessList, ListOk(l), NEW a \in Addr, l.at[a] = Absent,
         NEW f, f = WithAddr(l, a), NEW e, e.kind = "addr", e.addr = a
  PROVE  /\ f \in AccessList /\ ListOk(f) /\ f.at[a] = -1
         /\ UndoneAccess(f, e) = l /\ FitsList(f, e)
         /\ Warmth(f) = Warmth(l) \cup {a}
<1>1. /\ l.at \in [Addr -> Int] /\ l.slots \in Seq(SUBSET Slot) /\ Len(l.slots) \in Nat
      /\ l = [at |-> l.at, slots |-> l.slots]
  BY ListFields
<1> DEFINE g == [l.at EXCEPT ![a] = -1]
<1>2. g \in [Addr -> Int] /\ g[a] = -1 /\ [g EXCEPT ![a] = Absent] = l.at
      /\ \A b \in Addr : b # a => g[b] = l.at[b]
  <2>1. [g EXCEPT ![a] = l.at[a]] = l.at
    BY <1>1, ExceptBack
  <2>2. g \in [Addr -> Int] /\ g[a] = -1 /\ \A b \in Addr : b # a => g[b] = l.at[b]
    BY <1>1
  <2> QED BY <2>1, <2>2
<1> HIDE DEF g
<1>3. f = [at |-> g, slots |-> l.slots] /\ f.at = g /\ f.slots = l.slots
  BY <1>1 DEF g, WithAddr
<1>4. f \in AccessList
  BY <1>1, <1>2, <1>3 DEF AccessList
<1>5. UndoneAccess(f, e) = l /\ FitsList(f, e)
  <2>1. [f EXCEPT !.at = [f.at EXCEPT ![a] = Absent]] = l
    BY <1>1, <1>2, <1>3
  <2> QED BY <1>2, <1>3, <2>1 DEF UndoneAccess, FitsList
<1>6. ListOk(f)
  <2>1. \A b \in Addr : g[b] \in Absent..(Len(l.slots) - 1)
    BY <1>1, <1>2 DEF ListOk, Absent
  <2>2. \A b, c \in Addr : g[b] = g[c] /\ g[b] >= 0 => b = c
    BY <1>1, <1>2 DEF ListOk
  <2> QED BY <1>3, <2>1, <2>2 DEF ListOk
<1>7. Warmth(f) = Warmth(l) \cup {a}
  <2>1. \A b \in Addr : (g[b] # Absent) <=> (l.at[b] # Absent \/ b = a)
    BY <1>2 DEF Absent
  <2>2. \A b \in Addr : (g[b] >= 0 <=> l.at[b] >= 0) /\ (g[b] >= 0 => g[b] = l.at[b])
    BY <1>2 DEF Absent
  <2>3. \A w \in Addr \X Slot : w[1] \in Addr
    OBVIOUS
  <2> QED BY <1>3, <2>1, <2>2, <2>3 DEF Warmth
<1> QED BY <1>2, <1>3, <1>4, <1>5, <1>6, <1>7

\* The first slot of an address.
LEMMA SlotNew ==
  ASSUME NEW l \in AccessList, ListOk(l), NEW a \in Addr, l.at[a] = -1, NEW k \in Slot,
         NEW f, f = WithSlot(l, a, k),
         NEW e, e.kind = "slot", e.addr = a, e.slot = k
  PROVE  /\ f \in AccessList /\ ListOk(f) /\ DeleteSlot(f, a, k) = l /\ FitsList(f, e)
         /\ Warmth(f) = Warmth(l) \cup {a, <<a, k>>}
<1> DEFINE n == Len(l.slots)
           g == [l.at EXCEPT ![a] = n]
           q == Append(l.slots, {k})
<1>1. /\ l.at \in [Addr -> Int] /\ l.slots \in Seq(SUBSET Slot) /\ n \in Nat
      /\ l = [at |-> l.at, slots |-> l.slots]
  BY ListFields
<1>2. g \in [Addr -> Int] /\ g[a] = n /\ [g EXCEPT ![a] = -1] = l.at
      /\ \A b \in Addr : b # a => g[b] = l.at[b]
  <2> HIDE DEF n
  <2>1. [g EXCEPT ![a] = l.at[a]] = l.at
    BY <1>1, ExceptBack
  <2>2. g \in [Addr -> Int] /\ g[a] = n /\ \A b \in Addr : b # a => g[b] = l.at[b]
    BY <1>1
  <2> QED BY <2>1, <2>2
<1>3. q \in Seq(SUBSET Slot) /\ Len(q) = n + 1 /\ q[n + 1] = {k}
      /\ (\A i \in 1..n : q[i] = l.slots[i]) /\ SubSeq(q, 1, n) = l.slots
  BY <1>1
<1> HIDE DEF g, q
<1>4. f = [at |-> g, slots |-> q] /\ f.at = g /\ f.slots = q
  BY DEF g, q, n, WithSlot
<1>5. f \in AccessList
  BY <1>2, <1>3, <1>4 DEF AccessList
<1>6. DeleteSlot(f, a, k) = l
  <2>1. f.slots[f.at[a] + 1] \ {k} = {}
    BY <1>2, <1>3, <1>4
  <2>2. DeleteSlot(f, a, k) = [at |-> [f.at EXCEPT ![a] = -1], slots |-> SubSeq(f.slots, 1, f.at[a])]
    BY <2>1 DEF DeleteSlot
  <2> HIDE DEF n
  <2> QED BY <1>1, <1>2, <1>3, <1>4, <2>2
<1> HIDE DEF n
<1>7. \A b \in Addr : l.at[b] \in Absent..(n - 1) /\ l.at[b] < n
  BY <1>1 DEF ListOk, Absent, n
<1>8. ListOk(f)
  <2>1. \A i \in 1..(n + 1) : q[i] # {}
    <3>1. \A i \in 1..n : q[i] # {}
      BY <1>3 DEF ListOk, n
    <3>2. \A i \in 1..(n + 1) : i \in 1..n \/ i = n + 1
      BY <1>1
    <3>3. q[n + 1] # {}
      BY <1>3
    <3> QED BY <3>1, <3>2, <3>3
  <2>2. \A b \in Addr : g[b] \in Absent..((n + 1) - 1)
    <3> SUFFICES ASSUME NEW b \in Addr PROVE g[b] \in Absent..((n + 1) - 1)
      OBVIOUS
    <3>1. CASE b = a
      BY <1>1, <1>2, <3>1 DEF Absent
    <3>2. CASE b # a
      <4>1. g[b] = l.at[b] /\ l.at[b] \in Absent..(n - 1)
        BY <1>2, <1>7, <3>2
      <4> QED BY <1>1, <4>1 DEF Absent
    <3> QED BY <3>1, <3>2
  <2>3. \A b, c \in Addr : g[b] = g[c] /\ g[b] >= 0 => b = c
    <3> SUFFICES ASSUME NEW b \in Addr, NEW c \in Addr, g[b] = g[c], g[b] >= 0 PROVE b = c
      OBVIOUS
    <3>0. \A d \in Addr : d # a => g[d] = l.at[d] /\ g[d] < n
      BY <1>2, <1>7
    <3>1. CASE b = a
      <4>1. g[c] = n /\ ~(n < n)
        BY <1>1, <1>2, <3>1
      <4> QED BY <3>0, <3>1, <4>1
    <3>2. CASE c = a
      <4>1. g[b] = n /\ ~(n < n)
        BY <1>1, <1>2, <3>2
      <4> QED BY <3>0, <3>2, <4>1
    <3>3. CASE b # a /\ c # a
      <4>1. l.at[b] = l.at[c] /\ l.at[b] >= 0
        BY <3>0, <3>3
      <4> QED BY <4>1 DEF ListOk
    <3> QED BY <3>1, <3>2, <3>3
  <2>4. Len(f.slots) = n + 1
    BY <1>3, <1>4
  <2> QED BY <1>4, <2>1, <2>2, <2>3, <2>4 DEF ListOk
<1>9. FitsList(f, e)
  <2>1. f.at[e.addr] \in 0..(Len(f.slots) - 1)
    BY <1>1, <1>2, <1>3, <1>4
  <2>2. \A b \in Addr \ {e.addr} : f.at[b] < f.at[e.addr]
    BY <1>2, <1>4, <1>7
  <2> QED BY <2>1, <2>2 DEF FitsList
<1>10. Warmth(f) = Warmth(l) \cup {a, <<a, k>>}
  <2>1. \A b \in Addr : (g[b] # Absent) <=> (l.at[b] # Absent \/ b = a)
    BY <1>1, <1>2 DEF Absent
  <2>2. ASSUME NEW w \in Addr \X Slot
        PROVE  (g[w[1]] >= 0 /\ w[2] \in q[g[w[1]] + 1])
                <=> ((l.at[w[1]] >= 0 /\ w[2] \in l.slots[l.at[w[1]] + 1]) \/ w = <<a, k>>)
    <3>1. w[1] \in Addr /\ (w = <<a, k>> <=> w[1] = a /\ w[2] = k)
      OBVIOUS
    <3>2. CASE w[1] = a
      <4>1. g[w[1]] >= 0 /\ q[g[w[1]] + 1] = {k} /\ ~(l.at[w[1]] >= 0)
        BY <1>1, <1>2, <1>3, <3>2
      <4> QED BY <3>1, <3>2, <4>1
    <3>3. CASE w[1] # a
      <4>1. g[w[1]] = l.at[w[1]]
        BY <1>2, <3>1, <3>3
      <4>2. l.at[w[1]] >= 0 => l.at[w[1]] + 1 \in 1..n
        BY <1>1, <1>7, <3>1 DEF Absent
      <4> QED BY <1>3, <3>1, <3>3, <4>1, <4>2
    <3> QED BY <3>2, <3>3
  <2>3. <<a, k>> \in Addr \X Slot
    OBVIOUS
  <2> DEFINE Wf(w) == g[w[1]] >= 0 /\ w[2] \in q[g[w[1]] + 1]
             Wl(w) == l.at[w[1]] >= 0 /\ w[2] \in l.slots[l.at[w[1]] + 1]
  <2>4. \A w \in Addr \X Slot : Wf(w) <=> (Wl(w) \/ w = <<a, k>>)
    BY <2>2
  <2>5. Warmth(f) = {b \in Addr : g[b] # Absent} \cup {w \in Addr \X Slot : Wf(w)}
    BY <1>4 DEF Warmth
  <2>6. Warmth(l) = {b \in Addr : l.at[b] # Absent} \cup {w \in Addr \X Slot : Wl(w)}
    BY DEF Warmth
  <2> HIDE DEF Wf, Wl
  <2> QED BY <2>1, <2>3, <2>4, <2>5, <2>6
<1> QED BY <1>5, <1>6, <1>8, <1>9, <1>10

\* One more slot of an address that has some.
LEMMA SlotMore ==
  ASSUME NEW l \in AccessList, ListOk(l), NEW a \in Addr, l.at[a] >= 0, NEW k \in Slot,
         k \notin l.slots[l.at[a] + 1],
         NEW f, f = [l EXCEPT !.slots = [l.slots EXCEPT ![l.at[a] + 1] = l.slots[l.at[a] + 1] \cup {k}]],
         NEW e, e.kind = "slot", e.addr = a, e.slot = k
  PROVE  /\ f \in AccessList /\ ListOk(f) /\ DeleteSlot(f, a, k) = l /\ FitsList(f, e)
         /\ Warmth(f) = Warmth(l) \cup {a, <<a, k>>}
<1> DEFINE m == l.at[a] + 1
           old == l.slots[m]
           q == [l.slots EXCEPT ![m] = old \cup {k}]
<1>1. /\ l.at \in [Addr -> Int] /\ l.slots \in Seq(SUBSET Slot) /\ Len(l.slots) \in Nat
      /\ l = [at |-> l.at, slots |-> l.slots]
  BY ListFields
<1>2. m \in 1..Len(l.slots) /\ m - 1 = l.at[a]
  BY <1>1 DEF ListOk, Absent
<1>3. old \in SUBSET Slot /\ old # {} /\ k \notin old
  BY <1>1, <1>2 DEF ListOk
<1> HIDE DEF old, m
<1>4. /\ q \in Seq(SUBSET Slot) /\ Len(q) = Len(l.slots) /\ q[m] = old \cup {k}
      /\ \A i \in 1..Len(l.slots) : i # m => q[i] = l.slots[i]
  <2>1. old \cup {k} \in SUBSET Slot
    BY <1>3
  <2> QED BY <1>1, <1>2, <2>1, ExceptSeq
<1>4a. [q EXCEPT ![m] = old] = l.slots
  <2>1. l.slots \in [1..Len(l.slots) -> SUBSET Slot]
    BY <1>1
  <2> QED BY <1>2, <2>1, ExceptBack DEF old
<1>5. f = [at |-> l.at, slots |-> q] /\ f.at = l.at /\ f.slots = q
  BY <1>1 DEF old, m
<1> HIDE DEF q
<1>6. f \in AccessList
  BY <1>1, <1>4, <1>5 DEF AccessList
<1>7. DeleteSlot(f, a, k) = l
  <2>1. f.slots[f.at[a] + 1] \ {k} = old /\ f.at[a] + 1 = m
    BY <1>3, <1>4, <1>5 DEF m
  <2>2. DeleteSlot(f, a, k) = [f EXCEPT !.slots = [f.slots EXCEPT ![m] = old]]
    BY <1>3, <2>1 DEF DeleteSlot
  <2> QED BY <1>1, <1>4a, <1>5, <2>2
<1>8. ListOk(f)
  <2>1. \A i \in 1..Len(q) : q[i] # {}
    BY <1>3, <1>4 DEF ListOk
  <2> QED BY <1>4, <1>5, <2>1 DEF ListOk
<1>9. FitsList(f, e)
  <2>1. f.at[e.addr] \in 0..(Len(f.slots) - 1)
    BY <1>1, <1>2, <1>4, <1>5
  <2>2. f.slots[f.at[e.addr] + 1] # {e.slot}
    BY <1>3, <1>4, <1>5 DEF m
  <2> QED BY <2>1, <2>2 DEF FitsList
<1>10. Warmth(f) = Warmth(l) \cup {a, <<a, k>>}
  <2>1. l.at[a] # Absent
    BY DEF Absent
  <2>2. ASSUME NEW w \in Addr \X Slot
        PROVE  (l.at[w[1]] >= 0 /\ w[2] \in q[l.at[w[1]] + 1])
                <=> ((l.at[w[1]] >= 0 /\ w[2] \in l.slots[l.at[w[1]] + 1]) \/ w = <<a, k>>)
    <3>1. w[1] \in Addr /\ (w = <<a, k>> <=> w[1] = a /\ w[2] = k)
      OBVIOUS
    <3>2. CASE w[1] = a
      <4>1. q[l.at[w[1]] + 1] = old \cup {k} /\ l.slots[l.at[w[1]] + 1] = old
        BY <1>4, <3>2 DEF m, old
      <4> QED BY <3>1, <3>2, <4>1
    <3>3. CASE w[1] # a
      <4>1. l.at[w[1]] >= 0 => l.at[w[1]] + 1 # m /\ l.at[w[1]] + 1 \in 1..Len(l.slots)
        BY <1>1, <3>1, <3>3 DEF ListOk, m, Absent
      <4> QED BY <1>4, <3>1, <3>3, <4>1
    <3> QED BY <3>2, <3>3
  <2>3. <<a, k>> \in Addr \X Slot
    OBVIOUS
  <2> DEFINE Wf(w) == l.at[w[1]] >= 0 /\ w[2] \in q[l.at[w[1]] + 1]
             Wl(w) == l.at[w[1]] >= 0 /\ w[2] \in l.slots[l.at[w[1]] + 1]
  <2>4. \A w \in Addr \X Slot : Wf(w) <=> (Wl(w) \/ w = <<a, k>>)
    BY <2>2
  <2>5. Warmth(f) = {b \in Addr : l.at[b] # Absent} \cup {w \in Addr \X Slot : Wf(w)}
    BY <1>5 DEF Warmth
  <2>6. Warmth(l) = {b \in Addr : l.at[b] # Absent} \cup {w \in Addr \X Slot : Wl(w)}
    BY DEF Warmth
  <2> HIDE DEF Wf, Wl
  <2> QED BY <2>1, <2>3, <2>4, <2>5, <2>6
<1> QED BY <1>6, <1>7, <1>8, <1>9, <1>10

\* t is s with the access list l.
Lists(B, s, t, l) ==
  /\ t \in Db /\ t.objs = s.objs /\ t.refund = s.refund /\ t.logs = s.logs
  /\ t.transient = s.transient /\ t.layers = s.layers /\ t.access = l
  /\ Grows(B, s, t) /\ (WholeBut(B, s, {}) => WholeBut(B, t, {}))

\* One journalled change of the access list whose entry restores it.
LEMMA AccessWrite ==
  ASSUME NEW B \in Store, NEW s, Chain(s), NEW l \in AccessList, ListOk(l), NEW e \in Entry,
         e.kind \in {"addr", "slot"}, FitsList(l, e), UndoneAccess(l, e) = s.access,
         NEW t, t = Journal([s EXCEPT !.access = l], e)
  PROVE  Lists(B, s, t, l)
<1> DEFINE j == Append(s.journal, e)
<1>1. s \in Db /\ s.journal \in Seq(Entry)
  BY DbFields DEF Chain
<1>2. t = [[s EXCEPT !.access = l] EXCEPT !.journal = j]
  BY DEF Journal
<1>4. j \in Seq(Entry)
  BY <1>1
<1> HIDE DEF j
<1>5. /\ t \in Db /\ t.objs = s.objs /\ t.refund = s.refund /\ t.logs = s.logs
      /\ t.transient = s.transient /\ t.access = l /\ t.layers = s.layers /\ t.journal = j
  BY <1>1, <1>2, <1>4 DEF Db
<1>6. Fits(t, e) /\ Returns(s, t, e) /\ e.kind \in OfSide
  <2>1. e.kind \in OfSide /\ e.kind \notin OfObject
        /\ e.kind \notin {"log", "precompile", "transient", "refund"}
    BY DEF OfSide, OfObject
  <2>2. Fits(t, e)
    BY <1>5, <2>1 DEF Fits, FitsList
  <2>3. Returns(s, t, e)
    BY <1>5, <2>1 DEF Returns, UndoneTransient, UndoneRefund, UndoneLogs
  <2> QED BY <2>1, <2>2, <2>3
<1>7. AccessOk(t)
  BY <1>5 DEF AccessOk
<1>8. /\ Grows(B, s, t)
      /\ AccessOk(t) => \A X : WholeBut(B, s, X) => WholeBut(B, t, X)
  <2>1. t.journal = Append(s.journal, e)
    BY <1>5 DEF j
  <2>2. B \in Store /\ Chain(s) /\ e \in Entry
    OBVIOUS
  <2> QED BY ONLY <1>5, <1>6, <2>1, <2>2, SideWrite
<1> QED BY <1>5, <1>7, <1>8 DEF Lists

\* No change of the access list is such a change.
LEMMA SameLists ==
  ASSUME NEW B \in Store, NEW s, Chain(s)
  PROVE  Lists(B, s, s, s.access)
<1>1. s \in Db
  BY DEF Chain
<1>2. Grows(B, s, s)
  BY <1>1, SimReflexive, GrowsSame
<1> QED BY <1>1, <1>2 DEF Lists

\* AddAddressToAccessList warms the address and nothing else.
LEMMA AddAddressIs ==
  ASSUME NEW B \in Store, NEW s, Chain(s), AccessOk(s), NEW a \in Addr
  PROVE  LET t == AddAddress(s, a)
         IN  /\ Lists(B, s, t, t.access) /\ ListOk(t.access)
             /\ Warmth(t.access) = Warmth(s.access) \cup {a}
             /\ s.access.at[a] = Absent =>
                  t.access = WithAddr(s.access, a)
<1> DEFINE t == AddAddress(s, a)
           l == s.access
           f == WithAddr(l, a)
           e == [kind |-> "addr", addr |-> a]
<1>1. s \in Db /\ l \in AccessList /\ ListOk(l)
  BY DbFields DEF Chain, AccessOk
<1>2. CASE l.at[a] # Absent
  <2>1. t = s
    BY <1>2 DEF AddAddress
  <2>2. a \in Warmth(l)
    BY <1>2 DEF Warmth
  <2>3. Lists(B, s, s, s.access)
    BY SameLists
  <2> QED BY <1>1, <1>2, <2>1, <2>2, <2>3
<1>3. CASE l.at[a] = Absent
  <2>1. t = Journal([s EXCEPT !.access = f], e)
    BY <1>3 DEF AddAddress, WithAddr
  <2>2. e \in Entry /\ e.kind = "addr" /\ e.addr = a
    BY DEF Entry
  <2> HIDE DEF t, l, e, f
  <2>3. /\ f \in AccessList /\ ListOk(f)
        /\ UndoneAccess(f, e) = s.access /\ FitsList(f, e)
        /\ Warmth(f) = Warmth(l) \cup {a}
    <3>1. f = WithAddr(l, a)
      BY DEF f
    <3>2. a \in Addr /\ l = s.access
      BY DEF l
    <3> QED BY ONLY <1>1, <1>3, <2>2, <3>1, <3>2, AddrNew
  <2>5. Lists(B, s, t, f)
    BY <2>1, <2>2, <2>3, AccessWrite
  <2>6. t.access = f
    BY <2>5 DEF Lists
  <2> QED BY <2>3, <2>5, <2>6 DEF t, l, f
<1> QED BY <1>2, <1>3

\* AddSlot for an address that is listed.
LEMMA AddSlotListed ==
  ASSUME NEW B \in Store, NEW s, Chain(s), AccessOk(s), NEW a \in Addr, NEW k \in Slot,
         s.access.at[a] # Absent
  PROVE  LET t == AddSlot(s, a, k)
         IN  /\ Lists(B, s, t, t.access) /\ ListOk(t.access)
             /\ Warmth(t.access) = Warmth(s.access) \cup {a, <<a, k>>}
<1> DEFINE t == AddSlot(s, a, k)
           l == s.access
           e == [kind |-> "slot", addr |-> a, slot |-> k]
<1>1. s \in Db /\ l \in AccessList /\ ListOk(l) /\ l.at[a] \in Int
  BY DbFields DEF Chain, AccessOk
<1>2. e \in Entry /\ e.kind = "slot" /\ e.addr = a /\ e.slot = k
  BY DEF Entry
<1>3. l.at[a] >= -1
  BY <1>1 DEF ListOk, Absent
<1>4. CASE l.at[a] = -1
  <2> DEFINE f == WithSlot(l, a, k)
  <2>1. t = Journal([s EXCEPT !.access = f], e)
    <3>1. [l EXCEPT !.at[a] = Len(l.slots), !.slots = Append(@, {k})] = f
      BY <1>1, WithSlotIs
    <3>2. l.at[a] < 0 /\ l.at[a] # Absent
      BY <1>4
    <3> QED BY <3>1, <3>2 DEF AddSlot
  <2> HIDE DEF t, l, e, f
  <2>2. /\ f \in AccessList /\ ListOk(f) /\ DeleteSlot(f, a, k) = l /\ FitsList(f, e)
        /\ Warmth(f) = Warmth(l) \cup {a, <<a, k>>}
    BY <1>1, <1>2, <1>4, SlotNew DEF f
  <2>3. UndoneAccess(f, e) = s.access
    BY <1>2, <2>2 DEF UndoneAccess, l
  <2>4. Lists(B, s, t, f)
    BY <1>2, <2>1, <2>2, <2>3, AccessWrite
  <2>5. t.access = f
    BY <2>4 DEF Lists
  <2> QED BY <2>2, <2>4, <2>5 DEF t, l
<1>5. CASE l.at[a] >= 0 /\ k \in l.slots[l.at[a] + 1]
  <2>1. t = s
    BY <1>1, <1>5 DEF AddSlot
  <2>2. a \in Warmth(l) /\ <<a, k>> \in Warmth(l)
    BY <1>5 DEF Warmth, Absent
  <2>3. Lists(B, s, s, s.access)
    BY SameLists
  <2> QED BY <1>1, <2>1, <2>2, <2>3
<1>6. CASE l.at[a] >= 0 /\ k \notin l.slots[l.at[a] + 1]
  <2> DEFINE f == [l EXCEPT !.slots = [l.slots EXCEPT ![l.at[a] + 1] = l.slots[l.at[a] + 1] \cup {k}]]
  <2>1. t = Journal([s EXCEPT !.access = f], e)
    <3>1. ~(l.at[a] < 0)
      BY <1>1, <1>6
    <3> QED BY <1>6, <3>1 DEF AddSlot
  <2> HIDE DEF t, l, e, f
  <2>2. /\ f \in AccessList /\ ListOk(f) /\ DeleteSlot(f, a, k) = l /\ FitsList(f, e)
        /\ Warmth(f) = Warmth(l) \cup {a, <<a, k>>}
    BY <1>1, <1>2, <1>6, SlotMore DEF f
  <2>3. UndoneAccess(f, e) = s.access
    BY <1>2, <2>2 DEF UndoneAccess, l
  <2>4. Lists(B, s, t, f)
    BY <1>2, <2>1, <2>2, <2>3, AccessWrite
  <2>5. t.access = f
    BY <2>4 DEF Lists
  <2> QED BY <2>2, <2>4, <2>5 DEF t, l
<1>7. l.at[a] = -1 \/ l.at[a] >= 0
  BY <1>1, <1>3
<1> QED BY <1>4, <1>5, <1>6, <1>7

\* AddSlotToAccessList warms the address and the slot, with one entry or two.
LEMMA AddSlotIs ==
  ASSUME NEW B \in Store, NEW s, Chain(s), AccessOk(s), NEW a \in Addr, NEW k \in Slot
  PROVE  LET t == AddSlot(s, a, k)
         IN  /\ Lists(B, s, t, t.access)
             /\ Warmth(t.access) = Warmth(s.access) \cup {a, <<a, k>>}
<1>1. CASE s.access.at[a] # Absent
  BY <1>1, AddSlotListed
<1>2. CASE s.access.at[a] = Absent
  <2> DEFINE u == AddAddress(s, a)
             t == AddSlot(s, a, k)
             l == s.access
             e == [kind |-> "addr", addr |-> a]
             d == [kind |-> "slot", addr |-> a, slot |-> k]
             f == WithSlot(l, a, k)
  <2>0. s \in Db /\ l \in AccessList /\ ListOk(l)
    BY DbFields DEF Chain, AccessOk
  <2>1. /\ Lists(B, s, u, u.access) /\ ListOk(u.access)
        /\ Warmth(u.access) = Warmth(s.access) \cup {a}
        /\ u.access = WithAddr(l, a)
    BY <1>2, AddAddressIs
  <2>2. u = Journal([s EXCEPT !.access = WithAddr(l, a)], e)
    BY <1>2 DEF AddAddress, WithAddr
  <2>3. u.access.at[a] = -1 /\ u.access \in AccessList
    <3> HIDE DEF u, l
    <3>1. l.at[a] = Absent /\ a \in Addr
      BY <1>2 DEF l
    <3>2. e.kind = "addr" /\ e.addr = a
      OBVIOUS
    <3> HIDE DEF e
    <3> QED BY ONLY <2>0, <2>1, <3>1, <3>2, AddrNew
  <2>4. t = AddSlot(u, a, k)
    <3>1. [l EXCEPT !.at[a] = Len(l.slots), !.slots = Append(@, {k})] = f
      BY <2>0, WithSlotIs
    <3>2. [u.access EXCEPT !.at[a] = Len(u.access.slots), !.slots = Append(@, {k})] = f
      <4> HIDE DEF u, l
      <4>1. WithSlot(u.access, a, k) = f
        BY <2>0, <2>1, WithSlotTwice
      <4> QED BY <2>3, <4>1, WithSlotIs
    <3>3. t = Journal([Journal(s, e) EXCEPT !.access = f], d)
      <4>1. l.at[a] < 0
        BY <1>2 DEF Absent
      <4> QED BY <1>2, <3>1, <4>1 DEF AddSlot
    <3>4. AddSlot(u, a, k) = Journal([u EXCEPT !.access = f], d)
      <4>1. u.access.at[a] < 0 /\ u.access.at[a] # Absent
        BY <2>3 DEF Absent
      <4> HIDE DEF u, f, l
      <4> QED BY <3>2, <4>1 DEF AddSlot
    <3>5. [Journal(s, e) EXCEPT !.access = f] = [u EXCEPT !.access = f]
      <4> HIDE DEF f, e, u
      <4> QED BY <2>0, <2>2 DEF Journal, Db
    <3> QED BY <3>3, <3>4, <3>5
  <2> HIDE DEF u, t
  <2>5. Chain(u) /\ u.access.at[a] # Absent /\ AccessOk(u)
    BY <2>1, <2>3 DEF Lists, Grows, AccessOk, Absent
  <2>6. /\ Lists(B, u, t, t.access)
        /\ Warmth(t.access) = Warmth(u.access) \cup {a, <<a, k>>}
    BY <2>4, <2>5, AddSlotListed
  <2>7. Grows(B, s, t)
    BY <2>1, <2>6, GrowsTransitive DEF Lists
  <2>8. Lists(B, s, t, t.access)
    BY <2>1, <2>6, <2>7 DEF Lists
  <2>9. Warmth(t.access) = Warmth(s.access) \cup {a, <<a, k>>}
    BY <2>1, <2>6
  <2> QED BY <2>8, <2>9 DEF t
<1> QED BY <1>1, <1>2

-----------------------------------------------------------------------------
(* The store stack.                                                        *)

\* A precompile call's entry and its layer X.
Pushed(s, X) ==
  Journal([s EXCEPT !.layers = Append(s.layers, X)],
          [kind |-> "precompile", snapshot |-> Len(s.layers)])

\* The last layer becomes Y.
SetTop(s, Y) == [s EXCEPT !.layers = [s.layers EXCEPT ![Len(s.layers)] = Y]]

\* The entry a precompile call adds: one more cached store, nothing else, and no address made
\* dirty.
LEMMA PushedIs ==
  ASSUME NEW B \in Store, NEW s, Chain(s), NEW X \in Store, NEW t, t = Pushed(s, X)
  PROVE  /\ t \in Db /\ t.objs = s.objs /\ t.refund = s.refund /\ t.logs = s.logs
         /\ t.transient = s.transient /\ t.access = s.access
         /\ t.layers = Append(s.layers, X) /\ t.layers # <<>> /\ TopOf(B, t) = X
         /\ Len(t.journal) = Len(s.journal) + 1
         /\ Dirty(t) = Dirty(s) /\ Grows(B, s, t)
         /\ LayersOk(s) => LayersOk(t)
<1> DEFINE e == [kind |-> "precompile", snapshot |-> Len(s.layers)]
           j == Append(s.journal, e)
           y == Append(s.layers, X)
<1>1. s \in Db /\ s.layers \in Seq(Store) /\ s.journal \in Seq(Entry)
  BY DbFields DEF Chain
<1>2. t = [[s EXCEPT !.layers = y] EXCEPT !.journal = j]
  BY DEF Pushed, Journal
<1>3. e \in Entry /\ e.kind = "precompile" /\ e.snapshot = Len(s.layers)
  BY <1>1 DEF Entry
<1> HIDE DEF e
<1>4. j \in Seq(Entry) /\ Len(j) = Len(s.journal) + 1
  BY <1>1, <1>3
<1>5. /\ y \in Seq(Store) /\ Len(y) = Len(s.layers) + 1 /\ y[Len(y)] = X /\ y # <<>>
      /\ SubSeq(y, 1, Len(s.layers)) = s.layers /\ Len(s.layers) \in 0..Len(y)
  BY <1>1
<1> HIDE DEF j, y
<1>6. /\ t \in Db /\ t.objs = s.objs /\ t.refund = s.refund /\ t.logs = s.logs
      /\ t.transient = s.transient /\ t.access = s.access /\ t.layers = y /\ t.journal = j
  BY <1>1, <1>2, <1>4, <1>5 DEF Db
<1>7. Fits(t, e)
  BY <1>3, <1>5, <1>6 DEF Fits, OfObject
<1> DEFINE u == Undo(t, e)
<1>8. Undone(t, u, e)
  BY <1>3, <1>6, <1>7, UndoFields
<1> HIDE DEF u
<1>9. u \in Db /\ SideEq(s, u) /\ u.objs = s.objs
  <2>1. e.kind \notin OnObject /\ e.kind \notin {"transient", "refund", "log", "addr", "slot"}
    BY <1>3 DEF OnObject, OfObject
  <2> QED BY <1>3, <1>5, <1>6, <1>8, <2>1
        DEF Undone, SideEq, UndoneObjs, UndoneLayers, UndoneTransient, UndoneRefund,
            UndoneLogs, UndoneAccess
<1>10. Sim(B, s, u)
  BY <1>1, <1>9 DEF Sim, Same
<1>11. t.journal = Append(s.journal, e)
  BY <1>6 DEF j
<1>12. Grows(B, s, t)
  BY <1>3, <1>6, <1>7, <1>10, <1>11, GrowsOne DEF u
<1>13. LayersOk(s) => LayersOk(t)
  BY <1>1, <1>3, <1>5, <1>6, <1>11, LayersAppend
<1>14. Dirty(t) = Dirty(s)
  <2>0. s.journal \in Seq(Entry) /\ t.journal = Append(s.journal, e) /\ e \in Entry
    BY <1>1, <1>3, <1>11
  <2>1. Dirty(t) = Dirty(s) \cup {b \in Addr : e.kind \in Dirtied /\ e.addr = b}
    BY ONLY <2>0, DirtyAppend
  <2>2. e.kind \notin Dirtied
    BY <1>3 DEF Dirtied
  <2> QED BY <2>1, <2>2
<1>15. TopOf(B, t) = X
  BY <1>5, <1>6 DEF TopOf, Last
<1> QED BY <1>4, <1>5, <1>6, <1>12, <1>13, <1>14, <1>15 DEF y

\* Replacing the newest cached store leaves the rest alone.
LEMMA SetTopIs ==
  ASSUME NEW B \in Store, NEW s \in Db, s.layers # <<>>, NEW Y \in Store,
         NEW t, t = SetTop(s, Y)
  PROVE  /\ t \in Db /\ t.objs = s.objs /\ t.refund = s.refund /\ t.logs = s.logs
         /\ t.transient = s.transient /\ t.access = s.access /\ t.journal = s.journal
         /\ Len(t.layers) = Len(s.layers) /\ t.layers # <<>> /\ TopOf(B, t) = Y
         /\ Dirty(t) = Dirty(s)
<1> DEFINE n == Len(s.layers)
           y == [s.layers EXCEPT ![n] = Y]
<1>1. s.layers \in Seq(Store) /\ n \in 1..n /\ n \in Nat
  <2>1. s.layers \in Seq(Store)
    BY DbFields
  <2>2. n \in Nat /\ n # 0
    BY <2>1
  <2> QED BY <2>1, <2>2
<1>2. y \in Seq(Store) /\ Len(y) = n /\ y[n] = Y
  BY <1>1, ExceptSeq
<1>3. t = [s EXCEPT !.layers = y]
  BY DEF SetTop
<1>3a. y # <<>>
  BY <1>1, <1>2
<1> HIDE DEF y, n
<1>4. /\ t \in Db /\ t.objs = s.objs /\ t.refund = s.refund /\ t.logs = s.logs
      /\ t.transient = s.transient /\ t.access = s.access /\ t.layers = y
      /\ t.journal = s.journal
  BY <1>2, <1>3 DEF Db
<1>5. TopOf(B, t) = Y
  BY <1>2, <1>3a, <1>4 DEF TopOf, Last
<1>6. Dirty(t) = Dirty(s)
  BY <1>4 DEF Dirty
<1> QED BY <1>2, <1>3a, <1>4, <1>5, <1>6 DEF y, n

\* The accounts of a layer that the objects agree with.
Agrees(B, s, Y, X) ==
  /\ \A a \in Addr \ X : a \notin Dirty(s) => Y.acct[a] = TopOf(B, s).acct[a]
  /\ \A a \in Addr : s.objs[a] = NoAccount \/ s.objs[a].slot = Clean => Held(Y, a) = Held(B, a)

\* A new cached store that agrees with the clean objects keeps the StateDB whole.
LEMMA LayerWhole ==
  ASSUME NEW B \in Store, NEW s \in Db, NEW t \in Db, NEW X, WholeBut(B, s, {}),
         t.objs = s.objs, t.access = s.access, Dirty(t) = Dirty(s), LayersOk(t),
         Agrees(B, s, TopOf(B, t), X)
  PROVE  WholeBut(B, t, X)
<1>1. AccessOk(t)
  BY DEF AccessOk, WholeBut
<1>2. \A a \in Addr : Sound(B, t, a)
  BY DEF WholeBut, Sound, Agrees
<1>3. ASSUME NEW a \in Addr \ X, a \notin Dirty(t) PROVE Unmodified(B, t, a)
  <2>1. Unmodified(B, s, a)
    BY <1>3 DEF WholeBut
  <2>2. TopOf(B, t).acct[a] = TopOf(B, s).acct[a]
    BY <1>3 DEF Agrees
  <2> QED BY <2>1, <2>2 DEF Unmodified
<1> QED BY <1>1, <1>2, <1>3 DEF WholeBut

\* So does replacing the newest one by a store that agrees with them.
LEMMA SetTopWhole ==
  ASSUME NEW B \in Store, NEW s, s.layers # <<>>, NEW Y \in Store, NEW t, t = SetTop(s, Y),
         NEW X, WholeBut(B, s, {}), Agrees(B, s, Y, X)
  PROVE  WholeBut(B, t, X)
<1>1. s \in Db
  BY DEF WholeBut
<1>2. /\ t \in Db /\ t.objs = s.objs /\ t.access = s.access /\ t.journal = s.journal
      /\ Len(t.layers) = Len(s.layers) /\ TopOf(B, t) = Y /\ Dirty(t) = Dirty(s)
  <2>1. B \in Store /\ s \in Db /\ s.layers # <<>> /\ Y \in Store /\ t = SetTop(s, Y)
    BY <1>1
  <2> QED BY ONLY <2>1, SetTopIs
<1>3. LayersOk(t)
  BY <1>2 DEF WholeBut, LayersOk
<1> QED BY <1>1, <1>2, <1>3, LayerWhole

\* A flush writes the dirty accounts.
LEMMA FlushedIs ==
  ASSUME NEW s \in Db, NEW T \in Store, \A a \in Dirty(s) : s.objs[a] # NoAccount
  PROVE  LET F == Flushed(s, T)
         IN  /\ F \in Store /\ F.native = T.native
             /\ \A a \in Addr :
                  /\ a \notin Dirty(s) => F.acct[a] = T.acct[a]
                  /\ a \in Dirty(s) /\ s.objs[a].dead => F.acct[a] = NoAccount
                  /\ a \in Dirty(s) /\ ~s.objs[a].dead =>
                       F.acct[a] = [bal |-> s.objs[a].bal, code |-> s.objs[a].code,
                                    slot |-> SlotOf(T, a, s.objs[a])]
<1> DEFINE w(a) == [bal |-> s.objs[a].bal, code |-> s.objs[a].code,
                    slot |-> SlotOf(T, a, s.objs[a])]
           g == [a \in Addr |-> IF a \notin Dirty(s) THEN T.acct[a]
                                ELSE IF s.objs[a].dead THEN NoAccount ELSE w(a)]
           F == Flushed(s, T)
<1>1. F = [T EXCEPT !.acct = g]
  BY DEF Flushed, SlotOf, Held
<1>2. T.acct \in [Addr -> Account \cup {NoAccount}] /\ T.native \in Native
  BY DEF Store
<1>3. s.objs \in [Addr -> Object \cup {NoAccount}]
  BY DbFields
<1>4. ASSUME NEW a \in Addr, a \in Dirty(s) PROVE w(a) \in Account
  <2>1. s.objs[a] \in Object
    BY <1>3, <1>4
  <2>2. s.objs[a].bal \in Nat /\ s.objs[a].code \in {0, 1} /\ s.objs[a].slot \in Val \cup {Clean}
    BY <2>1 DEF Object
  <2>3. SlotOf(T, a, s.objs[a]) \in Val
    BY <2>2, StoreFacts DEF SlotOf
  <2> QED BY <2>2, <2>3 DEF Account
<1> HIDE DEF w, F
<1>5. g \in [Addr -> Account \cup {NoAccount}]
  BY <1>2, <1>4
<1>6. \A a \in Addr :
        /\ a \notin Dirty(s) => g[a] = T.acct[a]
        /\ a \in Dirty(s) /\ s.objs[a].dead => g[a] = NoAccount
        /\ a \in Dirty(s) /\ ~s.objs[a].dead => g[a] = w(a)
  OBVIOUS
<1> HIDE DEF g
<1>7. F \in Store /\ F.native = T.native /\ F.acct = g
  BY <1>1, <1>2, <1>5 DEF Store
<1> QED BY <1>6, <1>7 DEF F, w

\* and loses no slot.
LEMMA FlushAgrees ==
  ASSUME NEW B \in Store, NEW s, WholeBut(B, s, {}), NEW X, TopOf(B, s) \in Store
  PROVE  Flushed(s, TopOf(B, s)) \in Store /\ Agrees(B, s, Flushed(s, TopOf(B, s)), X)
<1> DEFINE T == TopOf(B, s)
           F == Flushed(s, T)
<1>1. s \in Db /\ \A a \in Addr : Sound(B, s, a)
  BY DEF WholeBut
<1>2. \A a \in Dirty(s) : s.objs[a] # NoAccount
  BY <1>1 DEF Dirty, Sound
<1>3. /\ F \in Store
      /\ \A a \in Addr :
           /\ a \notin Dirty(s) => F.acct[a] = T.acct[a]
           /\ a \in Dirty(s) /\ s.objs[a].dead => F.acct[a] = NoAccount
           /\ a \in Dirty(s) /\ ~s.objs[a].dead =>
                F.acct[a] = [bal |-> s.objs[a].bal, code |-> s.objs[a].code,
                             slot |-> SlotOf(T, a, s.objs[a])]
  BY <1>1, <1>2, FlushedIs
<1> HIDE DEF F
<1>4. ASSUME NEW a \in Addr, s.objs[a] = NoAccount \/ s.objs[a].slot = Clean
      PROVE  Held(F, a) = Held(B, a)
  <2>1. Held(T, a) = Held(B, a)
    BY <1>1, <1>4 DEF Sound
  <2>2. CASE a \notin Dirty(s)
    BY <1>3, <2>1, <2>2 DEF Held
  <2>3. CASE a \in Dirty(s) /\ s.objs[a].dead
    <3>1. Held(B, a) = 0
      BY <1>1, <1>2, <2>3 DEF Sound
    <3> QED BY <1>3, <2>3, <3>1 DEF Held
  <2>4. CASE a \in Dirty(s) /\ ~s.objs[a].dead
    <3>1. F.acct[a].slot = SlotOf(T, a, s.objs[a]) /\ F.acct[a] # NoAccount
      <4>1. F.acct[a] = [bal |-> s.objs[a].bal, code |-> s.objs[a].code,
                         slot |-> SlotOf(T, a, s.objs[a])]
        BY <1>3, <2>4
      <4>2. s.objs[a] \in Object
        BY <1>1, <1>2, <2>4, DbFields
      <4>3. SlotOf(T, a, s.objs[a]) \in Val
        BY <4>2, StoreFacts, ObjectFields DEF SlotOf
      <4>4. F.acct[a] \in Account
        BY <4>1, <4>2, <4>3, ObjectFields DEF Account
      <4> QED BY <4>1, <4>4, StateDBAssumption
    <3>2. SlotOf(T, a, s.objs[a]) = Held(T, a)
      BY <1>2, <1>4, <2>4 DEF SlotOf
    <3> QED BY <2>1, <3>1, <3>2 DEF Held
  <2> QED BY <2>2, <2>3, <2>4
<1>5. Agrees(B, s, F, X)
  BY <1>3, <1>4 DEF Agrees
<1> QED BY <1>3, <1>5 DEF F

\* The newest cached store, or the committed one, is a store.
LEMMA TopStore ==
  ASSUME NEW B \in Store, NEW s \in Db
  PROVE  TopOf(B, s) \in Store
<1>1. s.layers \in Seq(Store)
  BY DbFields
<1> QED BY <1>1 DEF TopOf, Last

\* FlushToCacheCtx replaces the newest cached store by one with the dirty objects written.
LEMMA FlushIs ==
  ASSUME NEW B, NEW s, s.layers # <<>>
  PROVE  FlushToCacheCtx(s) = SetTop(s, Flushed(s, TopOf(B, s)))
BY DEF FlushToCacheCtx, SetTop, TopOf, Last

\* The flushed store agrees with the clean objects and the dirty ones.
LEMMA FlushWhole ==
  ASSUME NEW B \in Store, NEW s, s.layers # <<>>, WholeBut(B, s, {})
  PROVE  WholeBut(B, FlushToCacheCtx(s), {})
<1>1. TopOf(B, s) \in Store
  BY TopStore DEF WholeBut
<1> DEFINE F == Flushed(s, TopOf(B, s))
<1>2. F \in Store /\ Agrees(B, s, F, {})
  BY <1>1, FlushAgrees
<1>3. FlushToCacheCtx(s) = SetTop(s, F)
  BY FlushIs
<1> HIDE DEF F
<1> QED BY <1>2, <1>3, SetTopWhole

\* The last of a sequence, replaced.
LEMMA AppendExcept ==
  ASSUME NEW q \in Seq(Store), NEW X \in Store, NEW Y \in Store, NEW x, x = Append(q, X)
  PROVE  [x EXCEPT ![Len(x)] = Y] = Append(q, Y)
<1> DEFINE n == Len(q) + 1
           y == Append(q, Y)
           z == [x EXCEPT ![n] = Y]
<1>1. n \in Nat /\ n \in 1..n /\ Len(x) = n /\ Len(y) = n /\ x \in Seq(Store) /\ y \in Seq(Store)
  OBVIOUS
<1>2. /\ x[n] = X /\ y[n] = Y
      /\ \A i \in 1..n : i # n => x[i] = q[i] /\ y[i] = q[i]
  OBVIOUS
<1> HIDE DEF y, n
<1>3. z \in Seq(Store) /\ Len(z) = n
  BY <1>1, ExceptSeq
<1>4. ASSUME NEW i \in 1..n PROVE z[i] = y[i]
  <2>1. i \in DOMAIN x
    BY <1>1
  <2> HIDE DEF n
  <2> QED BY <1>2, <2>1
<1> HIDE DEF z
<1>5. z = y
  BY <1>1, <1>3, <1>4, SeqEqual
<1> QED BY <1>1, <1>5 DEF y, z

\* Only the layer of a call's entry can tell two of them apart.
LEMMA SetTopPushed ==
  ASSUME NEW s \in Db, NEW X \in Store, NEW Y \in Store
  PROVE  SetTop(Pushed(s, X), Y) = Pushed(s, Y)
<1> DEFINE e == [kind |-> "precompile", snapshot |-> Len(s.layers)]
           j == Append(s.journal, e)
           x == Append(s.layers, X)
           y == Append(s.layers, Y)
           p == Pushed(s, X)
<1>1. s.layers \in Seq(Store)
  BY DbFields
<1>2. [x EXCEPT ![Len(x)] = Y] = y
  BY <1>1, AppendExcept
<1>3. p = [[s EXCEPT !.layers = x] EXCEPT !.journal = j]
      /\ Pushed(s, Y) = [[s EXCEPT !.layers = y] EXCEPT !.journal = j]
  BY DEF Pushed, Journal
<1> HIDE DEF x, y, p, j
<1>4. p.layers = x
  BY <1>3 DEF Db
<1>5. SetTop(p, Y) = [p EXCEPT !.layers = y]
  BY <1>2, <1>4 DEF SetTop
<1>6. [p EXCEPT !.layers = y] = [[s EXCEPT !.layers = y] EXCEPT !.journal = j]
  BY <1>3 DEF Db
<1> QED BY <1>3, <1>5, <1>6 DEF p

\* The entry of a precompile call starts from the newest cached store.
LEMMA EnterIs ==
  ASSUME NEW s
  PROVE  Enter(s) = Pushed(s, TopOf(base, s))
BY Names DEF Enter, Pushed

\* A precompile call, flushed.
CalledOf(s) == FlushToCacheCtx(Enter(s))

\* A precompile call before its body: a new cached store, flushed, that agrees with the
\* objects.
LEMMA CalledIs ==
  ASSUME base \in Store, NEW s, Chain(s), WholeBut(base, s, {}),
         NEW c, c = CalledOf(s)
  PROVE  /\ c = Pushed(s, Flushed(s, TopOf(base, s))) /\ c.layers # <<>>
         /\ Flushed(s, TopOf(base, s)) \in Store
         /\ WholeBut(base, c, {})
         /\ Grows(base, s, Enter(s)) /\ Enter(s) \in Db
<1> DEFINE T == TopOf(base, s)
           F == Flushed(s, T)
           p == Pushed(s, T)
<1>0. s \in Db /\ T \in Store
  BY TopStore DEF Chain
<1>1. Enter(s) = p
  BY EnterIs
<1> HIDE DEF p, T
<1>2. /\ p \in Db /\ p.objs = s.objs /\ p.access = s.access /\ p.layers # <<>>
      /\ TopOf(base, p) = T /\ Dirty(p) = Dirty(s) /\ Grows(base, s, p)
      /\ (LayersOk(s) => LayersOk(p))
  <2>1. p = Pushed(s, T) /\ base \in Store /\ Chain(s)
    BY DEF p
  <2> QED BY ONLY <1>0, <2>1, PushedIs
<1>3. WholeBut(base, p, {})
  <2>1. Agrees(base, s, T, {})
    BY DEF Agrees, WholeBut, Sound, T
  <2>2. LayersOk(p)
    BY <1>2 DEF WholeBut
  <2> QED BY <1>0, <1>2, <2>1, <2>2, LayerWhole
<1>4. c = FlushToCacheCtx(p)
  BY <1>1 DEF CalledOf
<1>5. WholeBut(base, c, {})
  BY <1>2, <1>3, <1>4, FlushWhole
<1>6. Flushed(p, T) = F
  BY <1>2 DEF Flushed
<1>7. F \in Store
  BY <1>0, FlushAgrees DEF T
<1>8. c = Pushed(s, F)
  <2>1. c = SetTop(p, F)
    BY <1>2, <1>4, <1>6, FlushIs
  <2> QED BY <1>0, <1>7, <2>1, SetTopPushed DEF p
<1>9. c.layers # <<>>
  <2>1. base \in Store /\ Chain(s)
    OBVIOUS
  <2> HIDE DEF F
  <2> QED BY ONLY <1>7, <1>8, <2>1, PushedIs
<1> QED BY <1>1, <1>2, <1>5, <1>7, <1>8, <1>9 DEF T

\* WriteState does not look at the layers.
LEMMA WriteStateLayers ==
  ASSUME NEW s \in Db, NEW a \in Addr, NEW v, Get(s, a) # NoAccount, NEW y
  PROVE  WriteState([s EXCEPT !.layers = y], a, v) = [WriteState(s, a, v) EXCEPT !.layers = y]
<1> DEFINE t == [s EXCEPT !.layers = y]
           x == Get(s, a)
           o == [s.objs EXCEPT ![a] = x]
           g == [s EXCEPT !.objs = o]
           h == [t EXCEPT !.objs = o]
           prev == GetState(g, a)
           p == [g.objs EXCEPT ![a] = [g.objs[a] EXCEPT !.slot = v]]
           e == [kind |-> "storage", addr |-> a, prev |-> prev]
<1>1. t.objs = s.objs /\ t.journal = s.journal
  BY DEF Db
<1>2. Get(t, a) = x
  BY <1>1 DEF Get
<1> HIDE DEF x
<1>3. GetOrNew(s, a) = g
  BY DEF GetOrNew, x
<1>4. GetOrNew(t, a) = h
  BY <1>1, <1>2 DEF GetOrNew, x
<1> HIDE DEF o, t
<1>5. g.objs = o /\ h.objs = o /\ h.journal = g.journal /\ g.journal = s.journal
  BY <1>1 DEF Db, t
<1>6. [g EXCEPT !.layers = y] = h
  BY DEF Db, t
<1> HIDE DEF g, h
<1>7. GetState(h, a) = prev
  BY <1>5 DEF GetState, Get
<1>8. WriteState(s, a, v) = IF prev = v THEN g ELSE Journal([g EXCEPT !.objs = p], e)
  BY <1>3 DEF WriteState
<1>9. WriteState(t, a, v) = IF prev = v THEN h ELSE Journal([h EXCEPT !.objs = p], e)
  <2>1. p = [h.objs EXCEPT ![a] = [h.objs[a] EXCEPT !.slot = v]]
    BY <1>5
  <2> HIDE DEF p, prev
  <2> QED BY <1>4, <1>7, <2>1 DEF WriteState
<1> HIDE DEF p, e, prev
<1>10. [Journal([g EXCEPT !.objs = p], e) EXCEPT !.layers = y] = Journal([h EXCEPT !.objs = p], e)
  BY <1>5 DEF Journal, Db, g, h, t
<1> QED BY <1>6, <1>8, <1>9, <1>10 DEF t

-----------------------------------------------------------------------------
(* What a precompile call leaves behind.                                   *)

\* Replacing the newest of a list of stores is appending to the rest.
LEMMA SetTopLayers ==
  ASSUME NEW s, NEW q \in Seq(Store), NEW X \in Store, NEW Y \in Store, s.layers = Append(q, X),
         NEW y, y = Append(q, Y), NEW t, t = SetTop(s, Y)
  PROVE  t = [s EXCEPT !.layers = y]
<1> DEFINE x == s.layers
<1>1. [x EXCEPT ![Len(x)] = Y] = Append(q, Y)
  BY AppendExcept
<1> QED BY <1>1 DEF SetTop

\* The layer of a call, whatever its action made of it.
LEMMA Relayer ==
  ASSUME base \in Store, NEW s, Chain(s), WholeBut(base, s, {}), NEW c, c = CalledOf(s),
         NEW Y \in Store, NEW X, Agrees(base, c, Y, X), NEW t, t = SetTop(c, Y)
  PROVE  /\ t \in Db /\ Chain(t) /\ Grows(base, s, t) /\ WholeBut(base, t, X)
         /\ t = Pushed(s, Y)
         /\ t.objs = s.objs /\ t.refund = s.refund /\ t.logs = s.logs
         /\ t.transient = s.transient /\ t.access = s.access /\ TopOf(base, t) = Y
<1> DEFINE F == Flushed(s, TopOf(base, s))
<1>1. c = Pushed(s, F) /\ c.layers # <<>> /\ F \in Store /\ WholeBut(base, c, {})
  BY CalledIs
<1> HIDE DEF F
<1>2. s \in Db
  BY DEF Chain
<1>3. t = Pushed(s, Y)
  BY <1>1, <1>2, SetTopPushed
<1>4. /\ t \in Db /\ t.objs = s.objs /\ t.refund = s.refund /\ t.logs = s.logs
      /\ t.transient = s.transient /\ t.access = s.access /\ TopOf(base, t) = Y
      /\ Grows(base, s, t)
  <2>1. base \in Store /\ Chain(s) /\ Y \in Store
    OBVIOUS
  <2> QED BY ONLY <1>3, <2>1, PushedIs
<1>5. WholeBut(base, t, X)
  <2>1. base \in Store /\ Y \in Store /\ t = SetTop(c, Y) /\ Agrees(base, c, Y, X)
    OBVIOUS
  <2> QED BY ONLY <1>1, <2>1, SetTopWhole
<1> QED BY <1>3, <1>4, <1>5 DEF Grows

WithNative(T, n) == [T EXCEPT !.native = n]
Stated(n, v) == [n EXCEPT !.state = v]
Moved(n, b, x) == [n EXCEPT !.paid[b] = @ + x]

\* A change of the native modules' stores touches no account.
LEMMA NativeIs ==
  ASSUME NEW B \in Store, NEW s \in Db, s.layers # <<>>, NEW n \in Native, WholeBut(B, s, {})
  PROVE  LET Y == WithNative(TopOf(B, s), n)
         IN  /\ Y \in Store /\ Y.acct = TopOf(B, s).acct /\ Y.native = n
             /\ Agrees(B, s, Y, {})
<1> DEFINE T == TopOf(B, s)
           Y == WithNative(T, n)
<1>2. T \in Store
  BY TopStore
<1> HIDE DEF T
<1>3. Y \in Store /\ Y.acct = T.acct /\ Y.native = n
  BY <1>2 DEF Store, WithNative
<1> HIDE DEF Y
<1>4. Agrees(B, s, Y, {})
  BY <1>3 DEF Agrees, WholeBut, Sound, Held, T
<1> QED BY <1>3, <1>4 DEF Y, T

\* What a native module writes, and what the bank moves for a blocked account, is such a change.
LEMMA NativeSteps ==
  ASSUME NEW B \in Store, NEW s \in Db, s.layers # <<>>,
         NEW n, n = TopOf(B, s).native
  PROVE  /\ n \in Native
         /\ \A v \in Val : /\ NativeWrite(s, v) = SetTop(s, WithNative(TopOf(B, s), Stated(n, v)))
                           /\ Stated(n, v) \in Native
         /\ \A b \in Blocked, x \in Int :
              /\ BankMove(s, b, x) = SetTop(s, WithNative(TopOf(B, s), Moved(n, b, x)))
              /\ Moved(n, b, x) \in Native
<1>1. n \in Native
  BY TopStore DEF Store
<1>2. \A v \in Val : Stated(n, v) \in Native
  BY <1>1 DEF Native, Stated
<1>3. ASSUME NEW b \in Blocked, NEW x \in Int PROVE Moved(n, b, x) \in Native
  <2>1. n.paid \in [Blocked -> Int]
    BY <1>1 DEF Native
  <2>2. n.paid[b] + x \in Int
    BY <2>1
  <2>3. [n.paid EXCEPT ![b] = n.paid[b] + x] \in [Blocked -> Int]
    BY <2>1, <2>2
  <2>4. Moved(n, b, x) = [n EXCEPT !.paid = [n.paid EXCEPT ![b] = n.paid[b] + x]]
    BY DEF Moved
  <2> QED BY <1>1, <2>3, <2>4 DEF Native
<1>4. TopOf(B, s) = s.layers[Len(s.layers)]
  BY DEF TopOf, Last
<1>5. ASSUME NEW v PROVE NativeWrite(s, v) = SetTop(s, WithNative(TopOf(B, s), Stated(n, v)))
  BY <1>4 DEF NativeWrite, SetTop, WithNative, Stated
<1>6. ASSUME NEW b, NEW x PROVE BankMove(s, b, x) = SetTop(s, WithNative(TopOf(B, s), Moved(n, b, x)))
  BY <1>4 DEF BankMove, SetTop, WithNative, Moved
<1> QED BY <1>1, <1>2, <1>3, <1>5, <1>6

\* The layer of a call starts with the native stores as they were.
LEMMA CalledNative ==
  ASSUME base \in Store, NEW s, Chain(s), WholeBut(base, s, {})
  PROVE  TopOf(base, CalledOf(s)).native = TopOf(base, s).native
<1> DEFINE c == CalledOf(s)
           F == Flushed(s, TopOf(base, s))
<1>1. c = Pushed(s, F) /\ F \in Store
  BY CalledIs DEF WholeBut
<1>2. s \in Db /\ TopOf(base, s) \in Store
  BY TopStore DEF Chain
<1>3. \A a \in Dirty(s) : s.objs[a] # NoAccount
  BY DEF WholeBut, Sound, Dirty
<1>4. F.native = TopOf(base, s).native
  BY <1>2, <1>3, FlushedIs
<1>5. base \in Store /\ Chain(s)
  OBVIOUS
<1> HIDE DEF F, c
<1>6. TopOf(base, c) = F
  BY ONLY <1>1, <1>5, PushedIs
<1> QED BY <1>4, <1>6 DEF c

\* A precompile that changes native stores alone extends the journal soundly and leaves the
\* objects alone.
LEMMA PrecompileNative ==
  ASSUME base \in Store, NEW s, Chain(s), WholeBut(base, s, {}), NEW n \in Native,
         NEW t, t = SetTop(CalledOf(s), WithNative(TopOf(base, CalledOf(s)), n))
  PROVE  /\ t \in Db /\ Grows(base, s, t) /\ WholeBut(base, t, {})
         /\ t.objs = s.objs /\ t.refund = s.refund /\ t.logs = s.logs
         /\ t.transient = s.transient /\ t.access = s.access /\ TopOf(base, t).native = n
<1> DEFINE c == CalledOf(s)
           Y == WithNative(TopOf(base, c), n)
<1>1. c.layers # <<>> /\ WholeBut(base, c, {}) /\ c \in Db
  BY CalledIs DEF WholeBut
<1> HIDE DEF c
<1>2. Y \in Store /\ Y.native = n /\ Agrees(base, c, Y, {})
  BY <1>1, NativeIs
<1>3. c = CalledOf(s) /\ t = SetTop(c, Y)
  BY DEF c
<1> HIDE DEF Y
<1> QED BY <1>2, <1>3, Relayer

\* A precompile's write to a native module's store, and a bank transfer to or from a blocked
\* account.
LEMMA PrecompileNatives ==
  ASSUME base \in Store, NEW s, Chain(s), WholeBut(base, s, {}),
         NEW n, n = TopOf(base, s).native
  PROVE  /\ n \in Native
         /\ \A v \in Val : /\ Stated(n, v) \in Native
                           /\ NativeWrite(CalledOf(s), v) =
                                SetTop(CalledOf(s), WithNative(TopOf(base, CalledOf(s)), Stated(n, v)))
         /\ \A b \in Blocked, x \in Int :
              /\ Moved(n, b, x) \in Native
              /\ BankMove(CalledOf(s), b, x) =
                   SetTop(CalledOf(s), WithNative(TopOf(base, CalledOf(s)), Moved(n, b, x)))
<1>1. CalledOf(s).layers # <<>> /\ CalledOf(s) \in Db
  BY CalledIs DEF WholeBut
<1>2. n = TopOf(base, CalledOf(s)).native
  BY CalledNative
<1> QED BY <1>1, <1>2, NativeSteps

\* What a bank transfer of one coin makes of the store.
Credited(T, b) ==
  [T EXCEPT !.acct = [T.acct EXCEPT ![b] =
     IF T.acct[b] = NoAccount THEN [bal |-> 1, code |-> 0, slot |-> 0]
     ELSE [T.acct[b] EXCEPT !.bal = @ + 1]]]

\* A bank credit in the cached store changes the one account's balance there.
LEMMA CreditIs ==
  ASSUME base \in Store, NEW s \in Db, s.layers # <<>>, NEW b \in Addr, WholeBut(base, s, {})
  PROVE  LET Y == Credited(TopOf(base, s), b)
         IN  /\ BankCredit(s, b) = SetTop(s, Y) /\ Y \in Store
             /\ Y.native = TopOf(base, s).native /\ Agrees(base, s, Y, {b})
<1> DEFINE T == TopOf(base, s)
           x == IF T.acct[b] = NoAccount THEN [bal |-> 1, code |-> 0, slot |-> 0]
                ELSE [T.acct[b] EXCEPT !.bal = @ + 1]
           g == [T.acct EXCEPT ![b] = x]
           Y == Credited(T, b)
<1>1. BankCredit(s, b) = SetTop(s, Y)
  BY Names DEF BankCredit, SetTop, TopOf, Last, Credited
<1>2. T \in Store /\ T.acct \in [Addr -> Account \cup {NoAccount}]
  BY TopStore, StoreFacts
<1>2a. Y = [T EXCEPT !.acct = g]
  BY DEF Credited
<1> HIDE DEF T, Y
<1>3. x \in Account /\ x # NoAccount /\ x.slot = Held(T, b)
  <2>1. CASE T.acct[b] = NoAccount
    <3>1. x = [bal |-> 1, code |-> 0, slot |-> 0]
      BY <2>1
    <3>2. x \in Account
      BY <3>1, StateDBAssumption DEF Account
    <3> QED BY <2>1, <3>1, <3>2, StateDBAssumption DEF Held
  <2>2. CASE T.acct[b] # NoAccount
    <3>1. x = [T.acct[b] EXCEPT !.bal = @ + 1] /\ T.acct[b] \in Account
      BY <1>2, <2>2
    <3>2. x \in Account /\ x.slot = T.acct[b].slot
      BY <3>1 DEF Account
    <3> QED BY <2>2, <3>2, StateDBAssumption DEF Held
  <2> QED BY <2>1, <2>2
<1> HIDE DEF x
<1>4. g \in [Addr -> Account \cup {NoAccount}]
  BY <1>2, <1>3
<1>5. g[b] = x /\ \A a \in Addr : a # b => g[a] = T.acct[a]
  BY <1>2
<1> HIDE DEF g
<1>6. Y \in Store /\ Y.native = T.native /\ Y.acct = g
  BY <1>2, <1>2a, <1>4 DEF Store
<1>7. \A a \in Addr : Held(Y, a) = Held(T, a)
  BY <1>3, <1>5, <1>6 DEF Held
<1>8. Agrees(base, s, Y, {b})
  BY <1>5, <1>6, <1>7 DEF Agrees, WholeBut, Sound, T
<1> QED BY <1>1, <1>6, <1>8 DEF Y, T

Paid(s, b) == [s.objs EXCEPT ![b] = [Loaded(s, b) EXCEPT !.bal = Loaded(s, b).bal + 1]]

\* A precompile that moves coins: the balance handler repeats the credit on the object, and
\* objects and store agree again.
LEMMA PrecompilePaysIs ==
  ASSUME base \in Store, NEW s, Chain(s), WholeBut(base, s, {}), NEW b \in Addr,
         NEW t, t = AddBalance(BankCredit(CalledOf(s), b), b, 1)
  PROVE  /\ t \in Db /\ Grows(base, s, t) /\ WholeBut(base, t, {})
         /\ t.objs = Paid(s, b) /\ t.refund = s.refund /\ t.logs = s.logs
         /\ t.transient = s.transient /\ t.access = s.access
         /\ TopOf(base, t).native = TopOf(base, s).native
<1> DEFINE c == CalledOf(s)
           Y == Credited(TopOf(base, c), b)
           u == BankCredit(c, b)
           F == Flushed(s, TopOf(base, s))
<1>1. c = Pushed(s, F) /\ F \in Store /\ c.layers # <<>> /\ WholeBut(base, c, {}) /\ c \in Db
  BY CalledIs DEF WholeBut
<1>2. TopOf(base, c).native = TopOf(base, s).native
  BY CalledNative
<1>3. c = CalledOf(s) /\ t = AddBalance(u, b, 1) /\ u = BankCredit(c, b)
  OBVIOUS
<1> HIDE DEF c, F, u
<1>4. /\ u = SetTop(c, Y) /\ Y \in Store /\ Agrees(base, c, Y, {b})
      /\ Y.native = TopOf(base, c).native
  BY <1>1, <1>3, CreditIs
<1> HIDE DEF Y
<1>5. /\ u \in Db /\ Chain(u) /\ Grows(base, s, u) /\ WholeBut(base, u, {b})
      /\ u.objs = s.objs /\ u.refund = s.refund /\ u.logs = s.logs
      /\ u.transient = s.transient /\ u.access = s.access /\ TopOf(base, u) = Y
  <2>1. base \in Store /\ Chain(s) /\ WholeBut(base, s, {})
    OBVIOUS
  <2> QED BY ONLY <1>3, <1>4, <2>1, Relayer
<1>6. Loaded(u, b) = Loaded(s, b)
  BY <1>5 DEF Loaded, Get
<1> DEFINE y == [Loaded(s, b) EXCEPT !.bal = Loaded(s, b).bal + 1]
<1>7. /\ Becomes(u, t, b, y)
      /\ \A X : WholeBut(base, u, X) =>
                  WholeBut(base, t, X) /\ (1 # 0 => WholeBut(base, t, X \ {b}))
  BY <1>3, <1>5, <1>6, AddBalanceIs
<1> HIDE DEF y
<1>8. WholeBut(base, t, {b} \ {b}) /\ {b} \ {b} = {}
  BY <1>5, <1>7
<1>9. t \in Db /\ SideEq(u, t) /\ Grows(base, u, t) /\ t.objs = [u.objs EXCEPT ![b] = y]
      /\ y \in Object
  BY <1>7 DEF Becomes
<1>10. Grows(base, s, t)
  BY <1>5, <1>9, GrowsTransitive
<1>11. TopOf(base, t) = TopOf(base, u)
  BY <1>9 DEF SideEq, TopOf
<1> QED BY <1>2, <1>4, <1>5, <1>8, <1>9, <1>10, <1>11 DEF SideEq, y, Paid

Debited(T, b) ==
  [T EXCEPT !.acct = [T.acct EXCEPT ![b] = [T.acct[b] EXCEPT !.bal = @ - 1]]]

\* A bank debit in the cached store changes the one account's balance there.
LEMMA DebitIs ==
  ASSUME base \in Store, NEW s \in Db, s.layers # <<>>, NEW b \in Addr, WholeBut(base, s, {}),
         TopOf(base, s).acct[b] # NoAccount, TopOf(base, s).acct[b].bal > 0
  PROVE  LET Y == Debited(TopOf(base, s), b)
         IN  /\ BankDebit(s, b) = SetTop(s, Y) /\ Y \in Store
             /\ Y.native = TopOf(base, s).native /\ Agrees(base, s, Y, {b})
<1> DEFINE T == TopOf(base, s)
           x == [T.acct[b] EXCEPT !.bal = @ - 1]
           g == [T.acct EXCEPT ![b] = x]
           Y == Debited(T, b)
<1>0. TopOf(base, s) = s.layers[Len(s.layers)]
  BY DEF TopOf, Last
<1>1. BankDebit(s, b) = SetTop(s, Y)
  BY <1>0 DEF BankDebit, SetTop, Debited
<1>2. T \in Store /\ T.acct \in [Addr -> Account \cup {NoAccount}]
  BY TopStore, StoreFacts
<1>2a. Y = [T EXCEPT !.acct = g]
  BY DEF Debited
<1>2b. T.acct[b] # NoAccount /\ T.acct[b].bal > 0
  OBVIOUS
<1> HIDE DEF T, Y
<1>3. x \in Account /\ x # NoAccount /\ x.slot = Held(T, b)
  <2>1. T.acct[b] \in Account
    BY <1>2, <1>2b
  <2>2. x \in Account /\ x.slot = T.acct[b].slot
    BY <1>2b, <2>1 DEF Account
  <2> QED BY <1>2b, <2>2, StateDBAssumption DEF Held
<1> HIDE DEF x
<1>4. g \in [Addr -> Account \cup {NoAccount}]
  BY <1>2, <1>3
<1>5. g[b] = x /\ \A a \in Addr : a # b => g[a] = T.acct[a]
  BY <1>2
<1> HIDE DEF g
<1>6. Y \in Store /\ Y.native = T.native /\ Y.acct = g
  BY <1>2, <1>2a, <1>4 DEF Store
<1>7. \A a \in Addr : Held(Y, a) = Held(T, a)
  BY <1>3, <1>5, <1>6 DEF Held
<1>8. Agrees(base, s, Y, {b})
  BY <1>5, <1>6, <1>7 DEF Agrees, WholeBut, Sound, T
<1> QED BY <1>1, <1>6, <1>8 DEF Y, T

\* What a flush leaves of an account is the balance its object has.
LEMMA FlushedBalance ==
  ASSUME base \in Store, NEW s, Chain(s), WholeBut(base, s, {}), NEW b \in Addr,
         NEW F, F = Last(CalledOf(s).layers), F.acct[b] # NoAccount
  PROVE  /\ TopOf(base, CalledOf(s)) = F /\ Get(s, b) # NoAccount
         /\ F.acct[b].bal = Loaded(s, b).bal /\ F.acct[b].bal \in Nat
<1> DEFINE c == CalledOf(s)
           T == TopOf(base, s)
           G == Flushed(s, T)
<1>1. c = Pushed(s, G) /\ G \in Store /\ c.layers # <<>>
  BY CalledIs DEF WholeBut
<1>2. s \in Db /\ T \in Store
  BY TopStore DEF Chain
<1>3. \A a \in Dirty(s) : s.objs[a] # NoAccount
  BY DEF WholeBut, Sound, Dirty
<1>4. /\ b \notin Dirty(s) => G.acct[b] = T.acct[b]
      /\ b \in Dirty(s) /\ s.objs[b].dead => G.acct[b] = NoAccount
      /\ b \in Dirty(s) /\ ~s.objs[b].dead => G.acct[b].bal = s.objs[b].bal
  <2> HIDE DEF T
  <2>1. /\ b \notin Dirty(s) => G.acct[b] = T.acct[b]
        /\ b \in Dirty(s) /\ s.objs[b].dead => G.acct[b] = NoAccount
        /\ b \in Dirty(s) /\ ~s.objs[b].dead =>
             G.acct[b] = [bal |-> s.objs[b].bal, code |-> s.objs[b].code,
                          slot |-> SlotOf(T, b, s.objs[b])]
    BY <1>2, <1>3, FlushedIs
  <2> HIDE DEF G
  <2> QED BY <2>1
<1>5. b \notin Dirty(s) => Unmodified(base, s, b)
  BY DEF WholeBut
<1>6. base \in Store /\ Chain(s)
  OBVIOUS
<1>7. TopOf(base, c) = F
  BY <1>1 DEF TopOf
<1> HIDE DEF G, c
<1>8. F = G
  BY ONLY <1>1, <1>6, <1>7, PushedIs
<1>9. F.acct[b].bal \in Nat
  BY <1>1, <1>8, StoreFacts DEF Account
<1>10. CASE b \in Dirty(s)
  BY <1>3, <1>4, <1>7, <1>8, <1>9, <1>10 DEF Loaded, Get, c
<1>11. CASE b \notin Dirty(s)
  <2>1. F.acct[b] = base.acct[b] /\ base.acct[b] # NoAccount
    BY <1>4, <1>5, <1>8, <1>11 DEF Unmodified, T
  <2>2. CASE s.objs[b] # NoAccount
    BY <1>5, <1>7, <1>9, <1>11, <2>1, <2>2 DEF Unmodified, Loaded, Get, c
  <2>3. CASE s.objs[b] = NoAccount
    <3>1. Get(s, b) = Opening(base, b)
      BY <2>1, <2>3 DEF Get, Opening
    <3>2. Opening(base, b) \in Object /\ Opening(base, b).bal = base.acct[b].bal
      BY <1>6, <2>1, OpeningFields
    <3>3. Get(s, b) # NoAccount
      BY <3>1, <3>2, StateDBAssumption
    <3> QED BY <1>7, <1>9, <2>1, <3>1, <3>2, <3>3 DEF Loaded, c
  <2> QED BY <2>2, <2>3
<1> QED BY <1>10, <1>11

Taken(s, b) == [s.objs EXCEPT ![b] = [Loaded(s, b) EXCEPT !.bal = Loaded(s, b).bal - 1]]

\* A precompile that takes coins: the balance handler repeats the debit on the object, and
\* objects and store agree again.
LEMMA PrecompileTakesIs ==
  ASSUME base \in Store, NEW s, Chain(s), WholeBut(base, s, {}), NEW b \in Addr,
         Last(CalledOf(s).layers).acct[b] # NoAccount, Last(CalledOf(s).layers).acct[b].bal > 0,
         NEW t, t = SubBalance(BankDebit(CalledOf(s), b), b, 1)
  PROVE  /\ t \in Db /\ Grows(base, s, t) /\ WholeBut(base, t, {})
         /\ t.objs = Taken(s, b) /\ t.refund = s.refund /\ t.logs = s.logs
         /\ t.transient = s.transient /\ t.access = s.access
         /\ TopOf(base, t).native = TopOf(base, s).native
         /\ 1 <= Loaded(s, b).bal /\ Get(s, b) # NoAccount
<1> DEFINE c == CalledOf(s)
           Y == Debited(TopOf(base, c), b)
           u == BankDebit(c, b)
<1>1. c.layers # <<>> /\ WholeBut(base, c, {}) /\ c \in Db
  BY CalledIs DEF WholeBut
<1>2. TopOf(base, c).native = TopOf(base, s).native
  BY CalledNative
<1>2a. /\ TopOf(base, c).acct[b] # NoAccount /\ TopOf(base, c).acct[b].bal > 0
       /\ Get(s, b) # NoAccount
       /\ TopOf(base, c).acct[b].bal = Loaded(s, b).bal /\ TopOf(base, c).acct[b].bal \in Nat
  BY FlushedBalance
<1>2b. 1 <= Loaded(s, b).bal /\ Get(s, b) # NoAccount
  BY <1>2a
<1>3. c = CalledOf(s) /\ t = SubBalance(u, b, 1) /\ u = BankDebit(c, b)
  OBVIOUS
<1> HIDE DEF c, u
<1>4. /\ u = SetTop(c, Y) /\ Y \in Store /\ Agrees(base, c, Y, {b})
      /\ Y.native = TopOf(base, c).native
  BY <1>1, <1>2a, <1>3, DebitIs
<1> HIDE DEF Y
<1>5. /\ u \in Db /\ Chain(u) /\ Grows(base, s, u) /\ WholeBut(base, u, {b})
      /\ u.objs = s.objs /\ u.refund = s.refund /\ u.logs = s.logs
      /\ u.transient = s.transient /\ u.access = s.access /\ TopOf(base, u) = Y
  <2>1. base \in Store /\ Chain(s) /\ WholeBut(base, s, {})
    OBVIOUS
  <2> QED BY ONLY <1>3, <1>4, <2>1, Relayer
<1>6. Loaded(u, b) = Loaded(s, b)
  BY <1>5 DEF Loaded, Get
<1> DEFINE y == [Loaded(s, b) EXCEPT !.bal = Loaded(s, b).bal - 1]
<1>7. /\ Becomes(u, t, b, y)
      /\ \A X : WholeBut(base, u, X) =>
                  WholeBut(base, t, X) /\ (1 # 0 => WholeBut(base, t, X \ {b}))
  <2>1. base \in Store /\ Chain(u) /\ 1 \in Nat /\ 1 <= Loaded(u, b).bal /\ b \in Addr
    BY <1>2b, <1>5, <1>6
  <2>2. /\ Becomes(u, t, b, [Loaded(u, b) EXCEPT !.bal = Loaded(u, b).bal - 1])
        /\ \A X : WholeBut(base, u, X) =>
                    WholeBut(base, t, X) /\ (1 # 0 => WholeBut(base, t, X \ {b}))
    BY ONLY <1>3, <2>1, SubBalanceIs
  <2> QED BY <1>6, <2>2
<1> HIDE DEF y
<1>8. WholeBut(base, t, {b} \ {b}) /\ {b} \ {b} = {}
  BY <1>5, <1>7
<1>9. t \in Db /\ SideEq(u, t) /\ Grows(base, u, t) /\ t.objs = [u.objs EXCEPT ![b] = y]
      /\ y \in Object
  BY <1>7 DEF Becomes
<1>10. Grows(base, s, t)
  BY <1>5, <1>9, GrowsTransitive
<1>11. TopOf(base, t) = TopOf(base, u)
  BY <1>9 DEF SideEq, TopOf
<1> QED BY <1>2, <1>2b, <1>4, <1>5, <1>8, <1>9, <1>10, <1>11 DEF SideEq, y, Taken

StoredObjs(s, a, v) ==
  [s.objs EXCEPT ![a] = IF SlotOf(base, a, Loaded(s, a)) = v THEN Loaded(s, a)
                        ELSE [Loaded(s, a) EXCEPT !.slot = v]]

\* A precompile that calls back into the EVM and then writes natively: the nested write, its
\* flush and the native write together extend the journal soundly.
LEMMA PrecompileConvertsIs ==
  ASSUME base \in Store, NEW s, Chain(s), WholeBut(base, s, {}), NEW a \in Addr, NEW v \in Val,
         Get(s, a) # NoAccount,
         NEW t, t = NativeWrite(FlushToCacheCtx(WriteState(CalledOf(s), a, v)), v)
  PROVE  /\ t \in Db /\ Grows(base, s, t) /\ WholeBut(base, t, {})
         /\ t.objs = StoredObjs(s, a, v) /\ t.refund = s.refund /\ t.logs = s.logs
         /\ t.transient = s.transient /\ t.access = s.access
         /\ TopOf(base, t).native = Stated(TopOf(base, s).native, v)
         /\ Len(CalledOf(s).journal) = Len(s.journal) + 1
         /\ Len(s.journal) + 1 <= Len(t.journal)
<1> DEFINE c == CalledOf(s)
           F == Flushed(s, TopOf(base, s))
           w == WriteState(c, a, v)
           G == Flushed(w, TopOf(base, w))
           f == FlushToCacheCtx(w)
           n == TopOf(base, f).native
           Y == WithNative(TopOf(base, f), Stated(n, v))
           x == Loaded(s, a)
           y == IF SlotOf(base, a, x) = v THEN x ELSE [x EXCEPT !.slot = v]
           p == Pushed(s, Y)
           q == Append(s.layers, Y)
<1>0. base \in Store /\ Chain(s) /\ s \in Db /\ s.layers \in Seq(Store)
  BY DbFields DEF Chain
<1>1. c = Pushed(s, F) /\ F \in Store /\ WholeBut(base, c, {}) /\ c \in Db
  BY CalledIs DEF WholeBut
<1>2. t = NativeWrite(f, v)
  OBVIOUS
<1>2a. w = WriteState(c, a, v) /\ f = FlushToCacheCtx(w)
  OBVIOUS
<1> HIDE DEF c, F, f, w
<1>3. /\ c.objs = s.objs /\ c.refund = s.refund /\ c.logs = s.logs /\ c.transient = s.transient
      /\ c.access = s.access /\ c.layers = Append(s.layers, F) /\ c.layers # <<>>
      /\ Grows(base, s, c) /\ Len(c.journal) = Len(s.journal) + 1
  BY ONLY <1>0, <1>1, PushedIs
<1>4. Loaded(c, a) = x /\ Get(c, a) # NoAccount
  BY <1>3 DEF Loaded, Get
<1> HIDE DEF x
<1>5. Becomes(c, w, a, y) /\ WholeBut(base, w, {})
  <2>1. Chain(c)
    BY <1>3 DEF Grows
  <2> QED BY <1>1, <1>2a, <1>4, <2>1, WriteStateIs
<1> HIDE DEF y
<1>6. /\ w \in Db /\ SideEq(c, w) /\ Grows(base, c, w) /\ w.objs = [s.objs EXCEPT ![a] = y]
      /\ y \in Object /\ w.layers = Append(s.layers, F) /\ w.layers # <<>>
  BY <1>3, <1>5 DEF Becomes, SideEq
<1>7. G \in Store
  BY <1>5, <1>6, FlushAgrees, TopStore
<1>8. f = SetTop(w, G)
  BY <1>2a, <1>6, FlushIs
<1> HIDE DEF G
<1>9. WholeBut(base, f, {}) /\ f \in Db
  BY <1>2a, <1>5, <1>6, FlushWhole DEF WholeBut
<1> DEFINE h == Append(s.layers, G)
<1>9a. h = Append(s.layers, G) /\ q = Append(s.layers, Y)
  OBVIOUS
<1> HIDE DEF h, q, Y
<1>10. f = [w EXCEPT !.layers = h]
  <2>1. /\ s.layers \in Seq(Store) /\ F \in Store /\ G \in Store /\ w.layers = Append(s.layers, F)
        /\ h = Append(s.layers, G) /\ f = SetTop(w, G)
    BY <1>0, <1>1, <1>6, <1>7, <1>8, <1>9a
  <2> QED BY ONLY <2>1, SetTopLayers
<1>11. f.layers = Append(s.layers, G) /\ f.layers # <<>>
  <2>1. h # <<>>
    BY <1>0, <1>7, <1>9a
  <2>2. f.layers = h
    BY <1>6, <1>10 DEF Db
  <2> QED BY <1>9a, <2>1, <2>2
<1>11a. n = TopOf(base, s).native
  <2>1. TopOf(base, c).native = TopOf(base, s).native
    BY CalledNative DEF c
  <2>2. TopOf(base, w) = TopOf(base, c)
    BY <1>6 DEF SideEq, TopOf
  <2>3. \A d \in Dirty(w) : w.objs[d] # NoAccount
    BY <1>5 DEF WholeBut, Sound, Dirty
  <2>4. TopOf(base, w) \in Store
    BY <1>6, TopStore
  <2>5. G.native = TopOf(base, w).native
    BY <1>6, <2>3, <2>4, FlushedIs DEF G
  <2>6. TopOf(base, f) = G
    BY ONLY <1>0, <1>6, <1>7, <1>8, SetTopIs
  <2> QED BY <2>1, <2>2, <2>5, <2>6
<1>11b. Y = WithNative(TopOf(base, f), Stated(n, v)) /\ n = TopOf(base, f).native
  BY DEF Y
<1> HIDE DEF n
<1>12. /\ t = SetTop(f, Y) /\ Y \in Store /\ Y.native = Stated(n, v)
       /\ Agrees(base, f, Y, {})
  <2>1. t = SetTop(f, Y) /\ Stated(n, v) \in Native
    BY <1>2, <1>9, <1>11, <1>11b, NativeSteps
  <2> QED BY <1>9, <1>11, <1>11b, <2>1, NativeIs
<1>13. WholeBut(base, t, {})
  <2>1. base \in Store
    OBVIOUS
  <2> QED BY ONLY <1>9, <1>11, <1>12, <2>1, SetTopWhole
<1>14. t = [f EXCEPT !.layers = q]
  <2>1. /\ s.layers \in Seq(Store) /\ G \in Store /\ Y \in Store
        /\ f.layers = Append(s.layers, G) /\ q = Append(s.layers, Y) /\ t = SetTop(f, Y)
    BY <1>0, <1>7, <1>9a, <1>11, <1>12
  <2> QED BY ONLY <2>1, SetTopLayers
<1>15. t = [w EXCEPT !.layers = q]
  BY <1>6, <1>10, <1>14 DEF Db
<1>16. [c EXCEPT !.layers = q] = p
  <2> DEFINE e == [kind |-> "precompile", snapshot |-> Len(s.layers)]
             j == Append(s.journal, e)
             d == Append(s.layers, F)
  <2>1. c = [[s EXCEPT !.layers = d] EXCEPT !.journal = j]
    BY <1>1 DEF Pushed, Journal
  <2>2. p = [[s EXCEPT !.layers = q] EXCEPT !.journal = j]
    BY DEF Pushed, Journal, q
  <2> HIDE DEF p, q, j, d
  <2> QED BY <1>0, <2>1, <2>2 DEF Db
<1>17. t = WriteState(p, a, v)
  <2> HIDE DEF q, p
  <2>1. WriteState([c EXCEPT !.layers = q], a, v) = [WriteState(c, a, v) EXCEPT !.layers = q]
    BY <1>1, <1>4, WriteStateLayers
  <2> QED BY <1>2a, <1>15, <1>16, <2>1
<1>18. p = Pushed(s, Y)
  OBVIOUS
<1> HIDE DEF p, q
<1>19. Grows(base, s, p) /\ p.objs = s.objs /\ Len(p.journal) = Len(s.journal) + 1
  BY ONLY <1>0, <1>12, <1>18, PushedIs
<1>20. Grows(base, p, t)
  <2>1. Chain(p)
    BY <1>19 DEF Grows
  <2>2. \E z : Becomes(p, WriteState(p, a, v), a, z)
    BY <2>1, WriteStateIs
  <2> QED BY <1>17, <2>2 DEF Becomes
<1>21. Grows(base, s, t)
  BY <1>19, <1>20, GrowsTransitive
<1>22. /\ t \in Db /\ t.objs = w.objs /\ t.refund = w.refund /\ t.logs = w.logs
       /\ t.transient = w.transient /\ t.access = w.access /\ TopOf(base, t) = Y
  <2>1. base \in Store
    OBVIOUS
  <2>2. /\ t \in Db /\ t.objs = f.objs /\ t.refund = f.refund /\ t.logs = f.logs
        /\ t.transient = f.transient /\ t.access = f.access /\ TopOf(base, t) = Y
    BY ONLY <1>9, <1>11, <1>12, <2>1, SetTopIs
  <2>3. /\ f.objs = w.objs /\ f.refund = w.refund /\ f.logs = w.logs
        /\ f.transient = w.transient /\ f.access = w.access
    BY ONLY <1>6, <1>7, <1>8, <2>1, SetTopIs
  <2> QED BY <2>2, <2>3
<1>23. /\ t \in Db /\ Grows(base, s, t) /\ WholeBut(base, t, {})
       /\ t.objs = [s.objs EXCEPT ![a] = y] /\ y \in Object
       /\ t.refund = s.refund /\ t.logs = s.logs
       /\ t.transient = s.transient /\ t.access = s.access
       /\ TopOf(base, t).native = Stated(TopOf(base, s).native, v)
  BY <1>3, <1>6, <1>11a, <1>12, <1>13, <1>21, <1>22 DEF SideEq
<1>24. Len(c.journal) = Len(s.journal) + 1 /\ Len(s.journal) + 1 <= Len(t.journal)
  BY <1>3, <1>19, <1>20 DEF Grows
<1> QED BY <1>23, <1>24 DEF y, x, c, StoredObjs

\* A call that fails is undone.
LEMMA PrecompileFailsIs ==
  ASSUME base \in Store, NEW s, Chain(s), WholeBut(base, s, {}), NEW c,
         c \in {Enter(s), CalledOf(s)}, NEW t, t = UndoTo(c, Len(s.journal))
  PROVE  Sim(base, s, t) /\ Grows(base, s, t) /\ WholeBut(base, t, {})
<1>1. Grows(base, s, c)
  <2>1. CASE c = Enter(s)
    BY <2>1, CalledIs
  <2>2. CASE c = CalledOf(s)
    <3> DEFINE F == Flushed(s, TopOf(base, s))
    <3>1. c = Pushed(s, F) /\ F \in Store
      BY <2>2, CalledIs
    <3> HIDE DEF F
    <3>2. base \in Store /\ Chain(s)
      OBVIOUS
    <3> QED BY ONLY <3>1, <3>2, PushedIs
  <2> QED BY <2>1, <2>2
<1>2. s \in Db /\ Len(s.journal) \in 0..Len(s.journal)
  BY JournalFacts DEF Chain
<1>3. UndoTo(s, Len(s.journal)) = s
  BY UndoToTop
<1>4. Sim(base, s, t) /\ t.journal = s.journal
  BY <1>1, <1>2, <1>3, GrowsUndo
<1>5. Grows(base, s, t)
  BY <1>4, GrowsSame
<1>6. WholeBut(base, t, {})
  BY <1>4, SimWhole
<1> QED BY <1>4, <1>5, <1>6

-----------------------------------------------------------------------------
(* Revisions and call frames.                                              *)

\* validRevisions: ids and journal positions ascend.
Revisions(vs, nx, L) ==
  /\ vs \in Seq([id : Nat, index : Nat])
  /\ \A i \in 1..Len(vs) : vs[i].id < nx /\ vs[i].index <= L
  /\ \A i, j \in 1..Len(vs) : i < j => vs[i].id < vs[j].id /\ vs[i].index <= vs[j].index

\* The open frames' ids ascend and are among them.
OfFrames(fs, vs) ==
  /\ fs \in Seq(Nat)
  /\ \A i, j \in 1..Len(fs) : i < j => fs[i] < fs[j]
  /\ \A i \in 1..Len(fs) : \E j \in 1..Len(vs) : vs[j].id = fs[i]

Position(vs, id) == SelectInSeq(vs, LAMBDA r : r.id >= id)
Index(vs, id) == vs[Position(vs, id)].index

\* The valid revisions with their types.
LEMMA RevisionFacts ==
  ASSUME NEW vs, NEW nx, NEW L, Revisions(vs, nx, L)
  PROVE  /\ Len(vs) \in Nat
         /\ \A i \in 1..Len(vs) : /\ vs[i] \in [id : Nat, index : Nat]
                                  /\ vs[i].id \in Nat /\ vs[i].index \in Nat
<1> DEFINE R == [id : Nat, index : Nat]
<1>1. \A r \in R : r.id \in Nat /\ r.index \in Nat
  OBVIOUS
<1>2. vs \in Seq(R)
  BY DEF Revisions
<1> HIDE DEF R
<1>3. Len(vs) \in Nat /\ \A i \in 1..Len(vs) : vs[i] \in R
  BY <1>2
<1> QED BY <1>1, <1>3 DEF R

\* sort.Search finds the revision of an id that is there.
LEMMA PositionIs ==
  ASSUME NEW vs, NEW nx, NEW L, Revisions(vs, nx, L), NEW j \in 1..Len(vs)
  PROVE  Position(vs, vs[j].id) = j
<1> DEFINE I == {i \in 1..Len(vs) : vs[i].id >= vs[j].id}
<1>0. /\ Len(vs) \in Nat
      /\ \A i \in 1..Len(vs) : vs[i].id \in Nat
  BY RevisionFacts
<1>1. j \in I
  BY <1>0
<1>2. \A i \in I : j <= i
  <2> SUFFICES ASSUME NEW i \in I, i < j PROVE FALSE
    BY <1>0
  <2>1. vs[i].id < vs[j].id
    BY DEF Revisions
  <2> QED BY <1>0, <2>1
<1>3. I \subseteq Int
  BY <1>0
<1> HIDE DEF I
<1>4. \A x : x \in I /\ (\A y \in I : x <= y) => x = j
  BY <1>1, <1>2, <1>3
<1>5. Min(I) = j
  BY <1>1, <1>2, <1>4 DEF Min
<1>6. Position(vs, vs[j].id) = IF I # {} THEN Min(I) ELSE 0
  BY DEF Position, SelectInSeq, I
<1> QED BY <1>1, <1>5, <1>6

\* Every open frame has its revision among the valid ones, at an index within the journal.
LEMMA FrameIndex ==
  ASSUME NEW vs, NEW nx, NEW L, Revisions(vs, nx, L), NEW fs, OfFrames(fs, vs),
         NEW i \in 1..Len(fs)
  PROVE  /\ Position(vs, fs[i]) \in 1..Len(vs) /\ vs[Position(vs, fs[i])].id = fs[i]
         /\ L \in Nat => Index(vs, fs[i]) \in 0..L
<1>1. PICK j \in 1..Len(vs) : vs[j].id = fs[i]
  BY DEF OfFrames
<1>2. Position(vs, fs[i]) = j
  BY <1>1, PositionIs
<1>3. vs[j].index \in Nat /\ vs[j].index <= L
  BY RevisionFacts DEF Revisions
<1> QED BY <1>1, <1>2, <1>3 DEF Index

Rev(k, M) == [id |-> k, index |-> M]

\* More ids and more entries.
Later(nx, L, my, M) ==
  nx \in Nat /\ L \in Nat /\ my \in Nat /\ M \in Nat /\ nx <= my /\ L <= M

\* One more revision, at position M of the journal.
Revised(vs, nx, L, us, my, M) ==
  Later(nx, L, my, M) /\ my = nx + 1 /\ us = Append(vs, Rev(nx, M))

\* More entries and more ids leave the revisions in order.
LEMMA RevisionsGrow ==
  ASSUME NEW vs, NEW nx, NEW L, Revisions(vs, nx, L), NEW my, NEW M, Later(nx, L, my, M)
  PROVE  Revisions(vs, my, M)
<1> USE DEF Later
<1>1. \A i \in 1..Len(vs) : vs[i].id \in Nat /\ vs[i].index \in Nat
  BY RevisionFacts
<1>2. \A i \in 1..Len(vs) : vs[i].id < my /\ vs[i].index <= M
  <2> SUFFICES ASSUME NEW i \in 1..Len(vs) PROVE vs[i].id < my /\ vs[i].index <= M
    OBVIOUS
  <2>1. vs[i].id < nx /\ vs[i].index <= L /\ vs[i].id \in Nat /\ vs[i].index \in Nat
    BY <1>1 DEF Revisions
  <2> QED BY <2>1
<1> QED BY <1>2 DEF Revisions

\* vs is where us starts.
Extends(vs, us) == \A i \in 1..Len(vs) : i \in 1..Len(us) /\ us[i] = vs[i]

\* The frames' positions are the same in us.
Located(fs, vs, us) ==
  /\ OfFrames(fs, us)
  /\ \A i \in 1..Len(fs) : Index(us, fs[i]) = Index(vs, fs[i])

\* Taking a snapshot keeps the revisions in order and the earlier ones in place.
LEMMA RevisionsAppend ==
  ASSUME NEW vs, NEW nx, NEW L, Revisions(vs, nx, L), NEW M, NEW my, NEW us,
         Revised(vs, nx, L, us, my, M)
  PROVE  /\ Revisions(us, my, M) /\ us[Len(us)].id = nx /\ us[Len(us)].index = M
         /\ Len(us) \in 1..Len(us)
         /\ Extends(vs, us)
<1> USE DEF Revised, Later
<1> DEFINE r == Rev(nx, M)
           R == [id : Nat, index : Nat]
<1>1. r \in R /\ r.id = nx /\ r.index = M
  BY DEF Rev
<1>2. vs \in Seq(R) /\ us = Append(vs, r)
  BY DEF Revisions
<1>2a. /\ \A i \in 1..Len(vs) : vs[i].id \in Nat /\ vs[i].index \in Nat /\ vs[i].id < nx
                                /\ vs[i].index <= L
       /\ \A i, j \in 1..Len(vs) : i < j => vs[i].id < vs[j].id /\ vs[i].index <= vs[j].index
  BY RevisionFacts DEF Revisions
<1> HIDE DEF r, R
<1>3. /\ us \in Seq(R) /\ Len(us) = Len(vs) + 1 /\ us[Len(us)] = r /\ Len(vs) \in Nat
      /\ \A i \in 1..Len(vs) : us[i] = vs[i]
  BY <1>1, <1>2
<1>4. Revisions(us, my, M)
  <2>1. us \in Seq([id : Nat, index : Nat])
    BY <1>3 DEF R
  <2>2. ASSUME NEW i \in 1..Len(us) PROVE us[i].id < my /\ us[i].index <= M
    <3>1. CASE i = Len(us)
      BY <1>1, <1>3, <3>1
    <3>2. CASE i # Len(us)
      <4>1. i \in 1..Len(vs)
        BY <1>3, <3>2
      <4>2. us[i] = vs[i] /\ vs[i].id \in Nat /\ vs[i].index \in Nat /\ vs[i].id < nx
            /\ vs[i].index <= L
        BY <1>2a, <1>3, <4>1
      <4> QED BY <4>2
    <3> QED BY <3>1, <3>2
  <2>3. ASSUME NEW i \in 1..Len(us), NEW j \in 1..Len(us), i < j
        PROVE  us[i].id < us[j].id /\ us[i].index <= us[j].index
    <3>1. i \in 1..Len(vs) /\ us[i] = vs[i]
      BY <1>3, <2>3
    <3>2. vs[i].id \in Nat /\ vs[i].index \in Nat /\ vs[i].id < nx /\ vs[i].index <= L
      BY <1>2a, <3>1
    <3>3. CASE j = Len(us)
      BY <1>1, <1>3, <3>1, <3>2, <3>3
    <3>4. CASE j # Len(us)
      <4>1. j \in 1..Len(vs) /\ us[j] = vs[j]
        BY <1>3, <3>4
      <4> QED BY <1>2a, <2>3, <3>1, <4>1
    <3> QED BY <3>3, <3>4
  <2> QED BY <2>1, <2>2, <2>3 DEF Revisions
<1>5. Extends(vs, us)
  BY <1>3 DEF Extends
<1>6. us[Len(us)].id = nx /\ us[Len(us)].index = M /\ Len(us) \in 1..Len(us)
  BY <1>1, <1>3
<1> QED BY <1>4, <1>5, <1>6

\* Frames look up the same positions in more revisions.
LEMMA FramesKept ==
  ASSUME NEW vs, NEW nx, NEW L, Revisions(vs, nx, L), NEW us, NEW my, NEW M,
         Revisions(us, my, M), NEW fs, OfFrames(fs, vs),
         Extends(vs, us)
  PROVE  Located(fs, vs, us)
<1>1. ASSUME NEW i \in 1..Len(fs)
      PROVE  /\ \E j \in 1..Len(us) : us[j].id = fs[i]
             /\ Index(us, fs[i]) = Index(vs, fs[i])
  <2>1. PICK j \in 1..Len(vs) : vs[j].id = fs[i]
    BY DEF OfFrames
  <2>2. j \in 1..Len(us) /\ us[j] = vs[j]
    BY DEF Extends
  <2>3. Position(vs, fs[i]) = j
    BY <2>1, PositionIs
  <2>4. Position(us, fs[i]) = j
    BY <2>1, <2>2, PositionIs
  <2> QED BY <2>1, <2>2, <2>3, <2>4 DEF Index
<1> QED BY <1>1 DEF OfFrames, Located

\* The state an open frame started from, as undoing the journal gives it.
FrameOf(s, vs, fs, i) == UndoTo(s, Index(vs, fs[i]))

\* A transaction under way.
Running(B, s, vs, nx, fs) ==
  /\ Chain(s) /\ WholeBut(B, s, {})
  /\ Revisions(vs, nx, Len(s.journal)) /\ OfFrames(fs, vs)
  /\ \A i \in 1..Len(fs) : WholeBut(B, FrameOf(s, vs, fs, i), {})

\* A step that only adds to the journal keeps what every frame started from.
LEMMA GrowsRunning ==
  ASSUME NEW B \in Store, NEW s, NEW t, NEW vs, NEW us, NEW nx, NEW my, NEW fs,
         Running(B, s, vs, nx, fs), Grows(B, s, t), WholeBut(B, t, {}),
         Revisions(us, my, Len(t.journal)), Located(fs, vs, us)
  PROVE  /\ Running(B, t, us, my, fs)
         /\ \A i \in 1..Len(fs) : Sim(B, FrameOf(s, vs, fs, i), FrameOf(t, us, fs, i))
<1>0. s \in Db /\ Len(s.journal) \in Nat
  BY JournalFacts DEF Running, Chain
<1>1. ASSUME NEW i \in 1..Len(fs)
      PROVE  /\ Sim(B, FrameOf(s, vs, fs, i), FrameOf(t, us, fs, i))
             /\ WholeBut(B, FrameOf(t, us, fs, i), {})
  <2> DEFINE n == Index(vs, fs[i])
             f == UndoTo(s, n)
             g == UndoTo(t, n)
  <2>1. n \in 0..Len(s.journal)
    BY <1>0, FrameIndex DEF Running
  <2>2. f = FrameOf(s, vs, fs, i) /\ g = FrameOf(t, us, fs, i)
    BY DEF FrameOf, Located
  <2> HIDE DEF n
  <2>3. Sim(B, f, g) /\ g.journal = f.journal
    BY <2>1, GrowsUndo
  <2>4. WholeBut(B, f, {})
    BY <2>2 DEF Running
  <2> HIDE DEF f, g
  <2>5. WholeBut(B, g, {})
    BY <2>3, <2>4, SimWhole
  <2> QED BY <2>2, <2>3, <2>5
<1>2. Chain(t)
  BY DEF Grows
<1> QED BY <1>1, <1>2 DEF Running, Located

\* A sound extension of the journal keeps every open frame's snapshot reachable, and the same
\* up to loads.
LEMMA StepRunning ==
  ASSUME NEW B \in Store, NEW s, NEW t, NEW vs, NEW nx \in Nat, NEW my \in Nat, NEW fs,
         nx <= my, Running(B, s, vs, nx, fs), Grows(B, s, t), WholeBut(B, t, {})
  PROVE  /\ Running(B, t, vs, my, fs)
         /\ \A i \in 1..Len(fs) : Sim(B, FrameOf(s, vs, fs, i), FrameOf(t, vs, fs, i))
<1>1. Len(s.journal) \in Nat /\ Len(t.journal) \in Nat /\ Len(s.journal) <= Len(t.journal)
  BY JournalFacts DEF Grows, Chain
<1>2. Revisions(vs, nx, Len(s.journal)) /\ OfFrames(fs, vs)
  BY DEF Running
<1>3. Revisions(vs, my, Len(t.journal))
  <2>1. Later(nx, Len(s.journal), my, Len(t.journal))
    BY <1>1 DEF Later
  <2> QED BY <1>2, <2>1, RevisionsGrow
<1>4. Located(fs, vs, vs)
  BY <1>2 DEF Located
<1> QED BY <1>3, <1>4, GrowsRunning

\* The same with the revision of a frame that is over again.
LEMMA CallRunning ==
  ASSUME NEW B \in Store, NEW s, NEW t, NEW vs, NEW nx \in Nat, NEW fs,
         Running(B, s, vs, nx, fs), Grows(B, s, t), WholeBut(B, t, {}),
         NEW us, us = Append(vs, Rev(nx, Len(s.journal)))
  PROVE  /\ Running(B, t, us, nx + 1, fs)
         /\ \A i \in 1..Len(fs) : Sim(B, FrameOf(s, vs, fs, i), FrameOf(t, us, fs, i))
<1>1. Len(s.journal) \in Nat /\ Len(t.journal) \in Nat /\ Len(s.journal) <= Len(t.journal)
  BY JournalFacts DEF Grows, Chain
<1>2. Revisions(vs, nx, Len(s.journal)) /\ OfFrames(fs, vs)
  BY DEF Running
<1>3. /\ Revisions(us, nx + 1, Len(s.journal)) /\ Located(fs, vs, us)
  <2> DEFINE L == Len(s.journal)
             my == nx + 1
  <2>1. Revised(vs, nx, L, us, my, L) /\ Revisions(vs, nx, L)
    BY <1>1, <1>2 DEF Revised, Later
  <2> HIDE DEF L, my
  <2>2. /\ Revisions(us, my, L) /\ us[Len(us)].id = nx
        /\ us[Len(us)].index = L /\ Len(us) \in 1..Len(us)
        /\ Extends(vs, us)
    BY ONLY <2>1, RevisionsAppend
  <2>3. Located(fs, vs, us)
    BY <1>2, <2>1, <2>2, FramesKept
  <2> QED BY <2>2, <2>3 DEF L, my
<1>4. Revisions(us, nx + 1, Len(t.journal))
  <2>1. Later(nx + 1, Len(s.journal), nx + 1, Len(t.journal))
    BY <1>1 DEF Later
  <2> QED BY <1>3, <2>1, RevisionsGrow
<1> QED BY <1>3, <1>4, GrowsRunning

\* So does a completed precompile call that took two revisions, which no frame reverts to.
LEMMA CallsRunning ==
  ASSUME NEW B \in Store, NEW s, NEW t, NEW vs, NEW nx \in Nat, NEW fs,
         Running(B, s, vs, nx, fs), Grows(B, s, t), WholeBut(B, t, {}),
         NEW M \in Nat, Len(s.journal) <= M, M <= Len(t.journal),
         NEW us, us = Append(vs, Rev(nx, Len(s.journal))),
         NEW ws, ws = Append(us, Rev(nx + 1, M))
  PROVE  /\ Running(B, t, ws, nx + 2, fs)
         /\ \A i \in 1..Len(fs) : Sim(B, FrameOf(s, vs, fs, i), FrameOf(t, ws, fs, i))
<1>1. Len(s.journal) \in Nat /\ Len(t.journal) \in Nat
  BY JournalFacts DEF Grows, Chain
<1>2. Revisions(vs, nx, Len(s.journal)) /\ OfFrames(fs, vs)
  BY DEF Running
<1>3. /\ Revisions(us, nx + 1, Len(s.journal)) /\ Located(fs, vs, us)
  <2> DEFINE L == Len(s.journal)
             my == nx + 1
  <2>1. Revised(vs, nx, L, us, my, L) /\ Revisions(vs, nx, L)
    BY <1>1, <1>2 DEF Revised, Later
  <2> HIDE DEF L, my
  <2>2. /\ Revisions(us, my, L) /\ us[Len(us)].id = nx
        /\ us[Len(us)].index = L /\ Len(us) \in 1..Len(us)
        /\ Extends(vs, us)
    BY ONLY <2>1, RevisionsAppend
  <2>3. Located(fs, vs, us)
    BY <1>2, <2>1, <2>2, FramesKept
  <2> QED BY <2>2, <2>3 DEF L, my
<1>4. /\ Revisions(ws, (nx + 1) + 1, M) /\ Located(fs, us, ws)
  <2> DEFINE k == nx + 1
             my == (nx + 1) + 1
             L == Len(s.journal)
  <2>1. Revised(us, k, L, ws, my, M) /\ Revisions(us, k, L)
    BY <1>1, <1>3 DEF Revised, Later
  <2> HIDE DEF k, my, L
  <2>2. /\ Revisions(ws, my, M)
        /\ Extends(us, ws)
    BY ONLY <2>1, RevisionsAppend
  <2>2a. OfFrames(fs, us)
    BY <1>3 DEF Located
  <2>3. Located(fs, us, ws)
    BY <2>1, <2>2, <2>2a, FramesKept
  <2> QED BY <2>2, <2>3 DEF my
<1>5. Revisions(ws, nx + 2, Len(t.journal))
  <2>1. nx + 2 \in Nat /\ (nx + 1) + 1 = nx + 2 /\ nx + 2 <= nx + 2
    OBVIOUS
  <2> DEFINE k == nx + 2
  <2>2. Revisions(ws, k, M) /\ Later(k, M, k, Len(t.journal))
    BY <1>1, <1>4, <2>1 DEF Later
  <2> HIDE DEF k
  <2>3. Revisions(ws, k, Len(t.journal))
    BY ONLY <2>2, RevisionsGrow
  <2> QED BY <2>3 DEF k
<1>6. Located(fs, vs, ws)
  BY <1>3, <1>4 DEF Located
<1> QED BY <1>5, <1>6, GrowsRunning

\* The last frame starts from s, the others from where they did.
FrameOpens(s, us, gs, vs, fs) ==
  /\ Len(gs) = Len(fs) + 1 /\ Len(fs) \in Nat /\ FrameOf(s, us, gs, Len(fs) + 1) = s
  /\ \A i \in 1..Len(fs) : FrameOf(s, us, gs, i) = FrameOf(s, vs, fs, i)

\* A frame opens: it starts from the state as it is.
LEMMA OpenRunning ==
  ASSUME NEW B \in Store, NEW s, NEW vs, NEW nx \in Nat, NEW fs, Running(B, s, vs, nx, fs),
         \A i \in 1..Len(fs) : fs[i] < nx,
         NEW us, us = Append(vs, Rev(nx, Len(s.journal))),
         NEW gs, gs = Append(fs, nx)
  PROVE  Running(B, s, us, nx + 1, gs) /\ FrameOpens(s, us, gs, vs, fs)
<1>0. Len(s.journal) \in Nat
  BY JournalFacts DEF Running, Chain
<1>1. Revisions(vs, nx, Len(s.journal)) /\ OfFrames(fs, vs) /\ fs \in Seq(Nat)
  BY DEF Running, OfFrames
<1>2. /\ Revisions(us, nx + 1, Len(s.journal)) /\ us[Len(us)].id = nx
      /\ us[Len(us)].index = Len(s.journal) /\ Len(us) \in 1..Len(us)
      /\ Located(fs, vs, us)
  <2> DEFINE L == Len(s.journal)
             my == nx + 1
  <2>1. Revised(vs, nx, L, us, my, L) /\ Revisions(vs, nx, L)
    BY <1>0, <1>1 DEF Revised, Later
  <2> HIDE DEF L, my
  <2>2. /\ Revisions(us, my, L) /\ us[Len(us)].id = nx
        /\ us[Len(us)].index = L /\ Len(us) \in 1..Len(us)
        /\ Extends(vs, us)
    BY ONLY <2>1, RevisionsAppend
  <2>3. Located(fs, vs, us)
    BY <1>1, <2>1, <2>2, FramesKept
  <2> QED BY <2>2, <2>3 DEF L, my
<1>3. /\ gs \in Seq(Nat) /\ Len(gs) = Len(fs) + 1 /\ gs[Len(fs) + 1] = nx /\ Len(fs) \in Nat
      /\ \A i \in 1..Len(fs) : gs[i] = fs[i]
  BY <1>1
<1>4. OfFrames(gs, us)
  <2>1. ASSUME NEW i \in 1..Len(gs), NEW j \in 1..Len(gs), i < j PROVE gs[i] < gs[j]
    <3>1. i \in 1..Len(fs) /\ gs[i] = fs[i]
      BY <1>3, <2>1
    <3>2. CASE j = Len(fs) + 1
      BY <1>3, <3>1, <3>2
    <3>3. CASE j # Len(fs) + 1
      <4>1. j \in 1..Len(fs) /\ gs[j] = fs[j]
        BY <1>3, <3>3
      <4> QED BY <1>1, <2>1, <3>1, <4>1 DEF OfFrames
    <3> QED BY <3>2, <3>3
  <2>2. ASSUME NEW i \in 1..Len(gs) PROVE \E j \in 1..Len(us) : us[j].id = gs[i]
    <3>1. CASE i = Len(fs) + 1
      BY <1>2, <1>3, <3>1
    <3>2. CASE i # Len(fs) + 1
      <4>1. i \in 1..Len(fs) /\ gs[i] = fs[i]
        BY <1>3, <3>2
      <4> QED BY <1>2, <4>1 DEF OfFrames, Located
    <3> QED BY <3>1, <3>2
  <2> QED BY <1>3, <2>1, <2>2 DEF OfFrames
<1>5. Index(us, nx) = Len(s.journal)
  <2>1. Position(us, nx) = Len(us)
    BY <1>2, PositionIs
  <2> QED BY <1>2, <2>1 DEF Index
<1>6. FrameOf(s, us, gs, Len(fs) + 1) = s
  <2>1. UndoTo(s, Len(s.journal)) = s
    BY UndoToTop DEF Running
  <2> QED BY <1>3, <1>5, <2>1 DEF FrameOf
<1>7. \A i \in 1..Len(fs) : FrameOf(s, us, gs, i) = FrameOf(s, vs, fs, i)
  BY <1>2, <1>3 DEF FrameOf, Located
<1>8. ASSUME NEW i \in 1..Len(gs) PROVE WholeBut(B, FrameOf(s, us, gs, i), {})
  <2>1. CASE i = Len(fs) + 1
    BY <1>6, <2>1 DEF Running
  <2>2. CASE i # Len(fs) + 1
    <3>1. i \in 1..Len(fs)
      BY <1>3, <2>2
    <3> QED BY <1>7, <3>1 DEF Running
  <2> QED BY <2>1, <2>2
<1>9. Running(B, s, us, nx + 1, gs)
  BY <1>2, <1>4, <1>8 DEF Running
<1> QED BY <1>3, <1>6, <1>7, <1>9 DEF FrameOpens

\* A frame returns: the others start from where they did.
LEMMA CloseFrames ==
  ASSUME NEW vs, NEW fs, OfFrames(fs, vs), fs # <<>>
  PROVE  /\ OfFrames(Front(fs), vs) /\ Len(Front(fs)) = Len(fs) - 1 /\ Len(fs) \in 1..Len(fs)
         /\ Len(fs) \in Nat
         /\ \A i \in 1..(Len(fs) - 1) : Front(fs)[i] = fs[i]
<1>1. fs \in Seq(Nat)
  BY DEF OfFrames
<1>2. Len(fs) \in Nat /\ Len(fs) # 0
  BY <1>1
<1> DEFINE gs == SubSeq(fs, 1, Len(fs) - 1)
<1>3. gs \in Seq(Nat) /\ Len(gs) = Len(fs) - 1 /\ \A i \in 1..(Len(fs) - 1) : gs[i] = fs[i]
  <2> DEFINE m == Len(fs) - 1
  <2>1. m \in Nat /\ m \in 0..Len(fs)
    BY <1>2
  <2> HIDE DEF m
  <2>2. /\ SubSeq(fs, 1, m) \in Seq(Nat) /\ Len(SubSeq(fs, 1, m)) = m
        /\ \A i \in 1..m : SubSeq(fs, 1, m)[i] = fs[i]
    BY <1>1, <2>1
  <2> QED BY <2>2 DEF m
<1>4. gs = Front(fs)
  BY DEF Front
<1> HIDE DEF gs
<1>5. \A i \in 1..(Len(fs) - 1) : i \in 1..Len(fs)
  BY <1>2
<1>6. OfFrames(gs, vs)
  BY <1>3, <1>5 DEF OfFrames
<1> QED BY <1>2, <1>3, <1>4, <1>6

FrameReturns(s, vs, fs) ==
  \A i \in 1..(Len(fs) - 1) : FrameOf(s, vs, Front(fs), i) = FrameOf(s, vs, fs, i)

\* A frame that returns leaves the outer frames' snapshots alone.
LEMMA ReturnRunning ==
  ASSUME NEW B, NEW s, NEW vs, NEW nx, NEW fs, Running(B, s, vs, nx, fs), fs # <<>>
  PROVE  Running(B, s, vs, nx, Front(fs)) /\ FrameReturns(s, vs, fs)
<1> DEFINE gs == Front(fs)
<1>1. /\ OfFrames(gs, vs) /\ Len(gs) = Len(fs) - 1 /\ Len(fs) \in Nat
      /\ \A i \in 1..(Len(fs) - 1) : gs[i] = fs[i]
  BY CloseFrames DEF Running
<1> HIDE DEF gs
<1>2. \A i \in 1..(Len(fs) - 1) : FrameOf(s, vs, gs, i) = FrameOf(s, vs, fs, i)
  BY <1>1 DEF FrameOf
<1>3. \A i \in 1..(Len(fs) - 1) : i \in 1..Len(fs)
  BY <1>1
<1>4. Running(B, s, vs, nx, gs)
  BY <1>1, <1>2, <1>3 DEF Running
<1> QED BY <1>2, <1>4 DEF gs, FrameReturns

\* A frame fails: it ends in the state it started from, and the revisions
\* above its own are gone.
FrameReverts(B, s, vs, fs, t, us) ==
  /\ t = FrameOf(s, vs, fs, Len(fs))
  /\ \A i \in 1..(Len(fs) - 1) :
       Sim(B, FrameOf(s, vs, fs, i), FrameOf(t, us, Front(fs), i))

\* A frame that reverts reaches the state of its snapshot, with the outer frames' snapshots
\* still reachable.
LEMMA RevertRunning ==
  ASSUME NEW B \in Store, NEW s, NEW vs, NEW nx \in Nat, NEW fs, Running(B, s, vs, nx, fs),
         fs # <<>>, NEW j, j = Position(vs, Last(fs)),
         NEW t, t = UndoTo(s, vs[j].index), NEW us, us = SubSeq(vs, 1, j - 1)
  PROVE  Running(B, t, us, nx, Front(fs)) /\ FrameReverts(B, s, vs, fs, t, us)
<1> DEFINE gs == Front(fs)
           n == vs[j].index
           m == j - 1
<1>0. Len(s.journal) \in Nat /\ Chain(s)
  BY JournalFacts DEF Running, Chain
<1>1. Revisions(vs, nx, Len(s.journal)) /\ OfFrames(fs, vs) /\ vs \in Seq([id : Nat, index : Nat])
  BY DEF Running, Revisions
<1>2. /\ OfFrames(gs, vs) /\ Len(gs) = Len(fs) - 1 /\ Len(fs) \in 1..Len(fs) /\ Len(fs) \in Nat
      /\ \A i \in 1..(Len(fs) - 1) : gs[i] = fs[i]
  BY <1>1, CloseFrames
<1>3. j \in 1..Len(vs) /\ vs[j].id = fs[Len(fs)] /\ n \in 0..Len(s.journal) /\ n = Index(vs, fs[Len(fs)])
  <2> DEFINE L == Len(s.journal)
             k == Len(fs)
  <2>1. L \in Nat /\ Revisions(vs, nx, L) /\ OfFrames(fs, vs) /\ k \in 1..Len(fs)
    BY <1>0, <1>1, <1>2
  <2>2. j = Position(vs, fs[k])
    BY DEF Last
  <2> HIDE DEF L, k
  <2>3. /\ Position(vs, fs[k]) \in 1..Len(vs) /\ vs[Position(vs, fs[k])].id = fs[k]
        /\ Index(vs, fs[k]) \in 0..L
    BY ONLY <2>1, FrameIndex
  <2> QED BY <2>2, <2>3 DEF L, k, Index
<1>4. t = FrameOf(s, vs, fs, Len(fs))
  BY <1>3 DEF FrameOf
<1>5. /\ Chain(t) /\ Len(t.journal) = n
      /\ \A k \in 0..n : /\ Sim(B, UndoTo(s, k), UndoTo(t, k))
                         /\ UndoTo(t, k).journal = UndoTo(s, k).journal
  <2> HIDE DEF n
  <2>1. t = UndoTo(s, n)
    BY DEF n
  <2> QED BY <1>0, <1>3, <2>1, Cut
<1>6. m \in 0..Len(vs) /\ m \in Nat /\ m < j /\ Len(vs) \in Nat
  BY <1>1, <1>3, RevisionFacts
<1>7. /\ us \in Seq([id : Nat, index : Nat]) /\ Len(us) = m
      /\ \A i \in 1..m : i \in 1..Len(vs) /\ us[i] = vs[i] /\ i < j
  <2>1. \A i \in 1..m : i \in 1..Len(vs) /\ i < j
    BY <1>3, <1>6
  <2>2. us = SubSeq(vs, 1, m)
    OBVIOUS
  <2> HIDE DEF m
  <2> DEFINE R == [id : Nat, index : Nat]
  <2>3. vs \in Seq(R)
    BY <1>1
  <2> HIDE DEF R
  <2>4. SubSeq(vs, 1, m) \in Seq(R) /\ Len(SubSeq(vs, 1, m)) = m /\ \A i \in 1..m : SubSeq(vs, 1, m)[i] = vs[i]
    BY <1>6, <2>3
  <2> QED BY <2>1, <2>2, <2>4 DEF R
<1> HIDE DEF n, m, gs
<1>8. Revisions(us, nx, n)
  <2>1. \A i \in 1..m : vs[i].id < nx /\ vs[i].index <= n
    BY <1>1, <1>3, <1>7 DEF Revisions, n
  <2> QED BY <1>1, <1>7, <2>1 DEF Revisions
<1>9. ASSUME NEW i \in 1..(Len(fs) - 1)
      PROVE  /\ \E k \in 1..Len(us) : us[k].id = gs[i]
             /\ Index(us, gs[i]) = Index(vs, gs[i]) /\ Index(vs, gs[i]) \in 0..n
             /\ gs[i] = fs[i] /\ i \in 1..Len(fs)
  <2>1. i \in 1..Len(gs) /\ i \in 1..Len(fs) /\ i < Len(fs) /\ gs[i] = fs[i]
    BY <1>2
  <2>2. PICK k \in 1..Len(vs) : vs[k].id = fs[i]
    BY <1>1, <2>1 DEF OfFrames
  <2>3. vs[k].id < vs[j].id
    BY <1>1, <1>2, <1>3, <2>1, <2>2 DEF OfFrames
  <2>4. k < j
    <3>1. vs[k].id \in Nat /\ vs[j].id \in Nat
      BY <1>1, <1>3, RevisionFacts
    <3>2. j < k => vs[j].id < vs[k].id
      BY <1>1, <1>3 DEF Revisions
    <3>3. k = j \/ j < k \/ k < j
      BY <1>3, <1>6
    <3> QED BY <2>3, <3>1, <3>2, <3>3
  <2>5. k \in 1..m
    BY <1>3, <1>6, <2>4 DEF m
  <2>6. us[k] = vs[k] /\ k \in 1..Len(us)
    BY <1>7, <2>5
  <2>7. Position(us, us[k].id) = k /\ Position(vs, vs[k].id) = k
    BY <1>1, <1>8, <2>6, PositionIs
  <2>8. vs[k].index \in Nat /\ vs[k].index <= n
    BY <1>1, <1>3, <2>4, RevisionFacts DEF Revisions, n
  <2>9. Index(vs, gs[i]) = vs[k].index /\ Index(us, gs[i]) = vs[k].index
    BY <2>1, <2>2, <2>6, <2>7 DEF Index
  <2>10. n \in Nat
    BY <1>0, <1>3
  <2>11. vs[k].index \in 0..n
    BY <2>8, <2>10
  <2> HIDE DEF gs, n
  <2> QED BY <2>1, <2>2, <2>6, <2>9, <2>11
<1>10. OfFrames(gs, us)
  BY <1>2, <1>9 DEF OfFrames
<1>11. ASSUME NEW i \in 1..(Len(fs) - 1)
       PROVE  /\ Sim(B, FrameOf(s, vs, fs, i), FrameOf(t, us, gs, i))
              /\ WholeBut(B, FrameOf(t, us, gs, i), {})
  <2> DEFINE k == Index(vs, gs[i])
             f == FrameOf(s, vs, fs, i)
             g == FrameOf(t, us, gs, i)
  <2>1. f = UndoTo(s, k) /\ g = UndoTo(t, k) /\ k \in 0..n
    BY <1>9 DEF FrameOf
  <2> HIDE DEF k, f, g
  <2>2. Sim(B, f, g) /\ g.journal = f.journal
    BY <1>5, <2>1
  <2>3. WholeBut(B, f, {})
    BY <1>9 DEF Running, f
  <2>4. WholeBut(B, g, {})
    BY <2>2, <2>3, SimWhole
  <2> QED BY <2>2, <2>4 DEF f, g
<1>12. WholeBut(B, t, {})
  BY <1>2, <1>4 DEF Running
<1>13. Running(B, t, us, nx, gs)
  BY <1>2, <1>5, <1>8, <1>10, <1>11, <1>12 DEF Running
<1> QED BY <1>4, <1>11, <1>13 DEF gs, FrameReverts

-----------------------------------------------------------------------------
(* The operations of the EVM.                                              *)

\* A step of the transaction that the journal can undo.
Goes(s, t) == Grows(base, s, t) /\ WholeBut(base, t, {})

\* The object that getOrNewStateObject yields is an object.
LEMMA LoadedType ==
  ASSUME base \in Store, NEW s \in Db, NEW a \in Addr
  PROVE  Loaded(s, a) \in Object
<1>1. s.objs[a] \in Object \cup {NoAccount}
  BY DbFields
<1>2. CASE Get(s, a) = NoAccount
  BY <1>2, FreshObject DEF Loaded
<1>3. CASE Get(s, a) # NoAccount /\ s.objs[a] # NoAccount
  BY <1>1, <1>3, Names DEF Loaded
<1>4. CASE Get(s, a) # NoAccount /\ s.objs[a] = NoAccount
  <2>1. base.acct[a] # NoAccount /\ Get(s, a) = Opening(base, a)
    BY <1>4, Names
  <2> QED BY <1>4, <2>1, OpeningFields DEF Loaded
<1> QED BY <1>2, <1>3, <1>4

\* Transfer takes from the one account and then adds to the other.
LEMMA TransferIs ==
  ASSUME base \in Store, NEW s, Chain(s), WholeBut(base, s, {}),
         NEW a \in Addr, NEW b \in Addr, a # b, NEW x \in {0, 1},
         x > 0 => Get(s, a) # NoAccount /\ x <= Get(s, a).bal,
         NEW u, u = SubBalance(s, a, x), NEW t, t = AddBalance(u, b, x)
  PROVE  /\ Goes(s, t) /\ u \in Db /\ x \in Nat /\ x <= Loaded(s, a).bal
         /\ Becomes(s, u, a, [Loaded(s, a) EXCEPT !.bal = Loaded(s, a).bal - x])
         /\ Becomes(u, t, b, [Loaded(u, b) EXCEPT !.bal = Loaded(u, b).bal + x])
<1>1. s \in Db /\ x \in Nat
  BY DEF Chain
<1>2. x <= Loaded(s, a).bal
  <2>1. CASE x = 0
    <3>1. Loaded(s, a).bal \in Nat
      BY <1>1, LoadedType, ObjectFields
    <3> QED BY <2>1, <3>1
  <2>2. CASE x # 0
    BY <1>1, <2>2 DEF Loaded
  <2> QED BY <2>1, <2>2
<1>3. /\ Becomes(s, u, a, [Loaded(s, a) EXCEPT !.bal = Loaded(s, a).bal - x])
      /\ WholeBut(base, u, {})
  BY <1>1, <1>2, SubBalanceIs
<1>4. Chain(u) /\ Grows(base, s, u) /\ u \in Db
  BY <1>3 DEF Becomes, Grows
<1>5. /\ Becomes(u, t, b, [Loaded(u, b) EXCEPT !.bal = Loaded(u, b).bal + x])
      /\ WholeBut(base, t, {})
  BY <1>1, <1>3, <1>4, AddBalanceIs
<1>6. Grows(base, u, t)
  BY <1>5 DEF Becomes
<1>7. Grows(base, s, t)
  BY <1>4, <1>6, GrowsTransitive
<1> QED BY <1>1, <1>2, <1>3, <1>4, <1>5, <1>7 DEF Goes

\* CreateAccount and CreateContract together mark the one object as new.
LEMMA CreateIs ==
  ASSUME base \in Store, NEW s, Chain(s), WholeBut(base, s, {}), NEW a \in Addr,
         Get(s, a) # NoAccount => ~Get(s, a).new, StorageEmpty(a),
         NEW t, t = CreateContract(GetOrNew(s, a), a)
  PROVE  Goes(s, t) /\ Becomes(s, t, a, [Loaded(s, a) EXCEPT !.new = TRUE])
<1> DEFINE u == GetOrNew(s, a)
<1>1. /\ Becomes(s, u, a, Loaded(s, a)) /\ Chain(u) /\ u.objs[a] = Loaded(s, a)
      /\ u.objs[a] # NoAccount /\ WholeBut(base, u, {}) /\ u \in Db
  BY GetOrNewBecomes DEF Becomes
<1>2. t = CreateContract(u, a)
  OBVIOUS
<1> HIDE DEF u
<1>3. ~u.objs[a].new
  BY <1>1, FreshObject DEF Loaded
<1>4. Held(base, a) = 0
  BY Names DEF StorageEmpty
<1>5. /\ t \in Db /\ SideEq(u, t) /\ Grows(base, u, t)
      /\ t.objs = [u.objs EXCEPT ![a] = [u.objs[a] EXCEPT !.new = TRUE]]
      /\ WholeBut(base, t, {})
  BY <1>1, <1>2, <1>3, <1>4, CreateContractIs
<1> DEFINE tt == TRUE
           y == [Loaded(s, a) EXCEPT !.new = tt]
<1>6. s \in Db /\ tt \in BOOLEAN
  BY DEF Chain
<1>7. Becomes(u, t, a, y)
  <2>1. t.objs = [u.objs EXCEPT ![a] = y]
    BY <1>1, <1>5
  <2>2. Loaded(s, a) \in Object
    BY <1>6, LoadedType
  <2> HIDE DEF tt
  <2>3. y \in Object
    BY <1>6, <2>2 DEF Object
  <2> HIDE DEF y
  <2> QED BY <1>5, <2>1, <2>3 DEF Becomes
<1> HIDE DEF y
<1>8. Becomes(s, t, a, y)
  BY <1>1, <1>6, <1>7, BecomesTwice
<1>9. Goes(s, t)
  BY <1>5, <1>8 DEF Goes, Becomes
<1> QED BY <1>8, <1>9 DEF y

Destroyed(x) == [x EXCEPT !.dead = TRUE, !.bal = 0]

\* SelfDestruct6780 destroys an object created in the same transaction and otherwise only loads
\* it.
LEMMA SelfDestructIs ==
  ASSUME base \in Store, NEW s, Chain(s), WholeBut(base, s, {}), NEW a \in Addr,
         Get(s, a) # NoAccount, NEW u, u = [s EXCEPT !.objs = [s.objs EXCEPT ![a] = Get(s, a)]],
         NEW t, t = IF u.objs[a].new THEN Destroy(u, a) ELSE u
  PROVE  /\ Goes(s, t) /\ u.objs[a] = Loaded(s, a)
         /\ Loaded(s, a).new =>
              Becomes(s, t, a, Destroyed(Loaded(s, a)))
         /\ ~Loaded(s, a).new => Sim(base, s, t)
<1>0. s \in Db /\ s.objs \in [Addr -> Object \cup {NoAccount}]
  BY DbFields DEF Chain
<1>1. /\ u \in Db /\ SideEq(s, u) /\ u.objs = [s.objs EXCEPT ![a] = Get(s, a)]
      /\ u.journal = s.journal /\ Get(s, a) \in Object
      /\ Sim(base, s, u) /\ Grows(base, s, u)
  <2>1. u = LoadedInto(s, a)
    BY DEF LoadedInto
  <2>2. base \in Store /\ Chain(s) /\ a \in Addr /\ Get(s, a) # NoAccount
    OBVIOUS
  <2>3. IsLoad(s, u, a)
    BY ONLY <2>1, <2>2, LoadGrows
  <2> QED BY ONLY <2>3 DEF IsLoad
<1>2. u.objs[a] = Get(s, a) /\ Loaded(s, a) = Get(s, a)
  <2>1. u.objs[a] = Get(s, a)
    BY ONLY <1>0, <1>1, a \in Addr
  <2>2. Loaded(s, a) = Get(s, a)
    BY ONLY Get(s, a) # NoAccount DEF Loaded
  <2> QED BY ONLY <2>1, <2>2
<1>3. WholeBut(base, u, {})
  BY <1>1, SimWhole
<1>4. Chain(u)
  BY <1>1 DEF Grows
<1>5. CASE u.objs[a].new
  <2> DEFINE tt == TRUE
             y == [Loaded(s, a) EXCEPT !.dead = tt, !.bal = 0]
  <2>1. t = Destroy(u, a)
    BY <1>5
  <2>2. /\ t \in Db /\ SideEq(u, t) /\ Grows(base, u, t)
        /\ t.objs = [u.objs EXCEPT ![a] = [u.objs[a] EXCEPT !.dead = TRUE, !.bal = 0]]
        /\ WholeBut(base, t, {})
    <3>1. base \in Store /\ u.objs[a] # NoAccount /\ u.objs[a].new
      BY <1>2, <1>5
    <3>2. LET d == Destroy(u, a)
          IN  /\ d \in Db /\ SideEq(u, d) /\ Grows(base, u, d)
              /\ d.objs = [u.objs EXCEPT ![a] = [u.objs[a] EXCEPT !.dead = TRUE, !.bal = 0]]
              /\ \A X : WholeBut(base, u, X) => WholeBut(base, d, X)
      BY ONLY <1>4, <3>1, a \in Addr, DestroyIs
    <3> HIDE DEF Destroy
    <3> QED BY <1>3, <2>1, <3>2
  <2>3. t.objs = [u.objs EXCEPT ![a] = y]
    BY <1>2, <2>2
  <2>4. tt \in BOOLEAN /\ Loaded(s, a) \in Object
    BY <1>1, <1>2
  <2> HIDE DEF tt
  <2>5. y \in Object
    BY <2>4 DEF Object
  <2> HIDE DEF y
  <2>6. Becomes(u, t, a, y)
    BY <2>2, <2>3, <2>5 DEF Becomes
  <2>7. Becomes(s, u, a, Get(s, a))
    BY <1>1 DEF Becomes
  <2>8. Becomes(s, t, a, y)
    BY <1>0, <2>6, <2>7, BecomesTwice
  <2>9. Goes(s, t)
    BY <2>2, <2>8 DEF Goes, Becomes
  <2> QED BY <1>2, <1>5, <2>8, <2>9 DEF y, tt, Destroyed
<1>6. CASE ~u.objs[a].new
  <2>1. t = u
    BY <1>6
  <2> QED BY <1>1, <1>2, <1>3, <1>6, <2>1 DEF Goes
<1> QED BY <1>5, <1>6

-----------------------------------------------------------------------------
(* The inductive invariant.                                                *)

StateInv ==
  /\ base \in Store /\ tx \in Transactions /\ next \in Nat
  /\ calls \in 0..(CounterSize - 1) /\ phase \in {"run", "done", "failed"}
  /\ Chain(db) /\ AccessOk(db) /\ LayersOk(db)
  /\ Revisions(valid, next, Len(db.journal))
  /\ phase = "run" => Running(base, db, valid, next, frames)
  /\ phase # "run" => frames = <<>>

\* No revisions and no frames are in order.
LEMMA EmptyRevisions ==
  ASSUME NEW nx, NEW L
  PROVE  Revisions(<<>>, nx, L) /\ OfFrames(<<>>, <<>>)
<1>1. Len(<<>>) = 0 /\ 1..0 = {}
  OBVIOUS
<1>2. <<>> \in Seq([id : Nat, index : Nat]) /\ <<>> \in Seq(Nat)
  OBVIOUS
<1> QED BY <1>1, <1>2 DEF Revisions, OfFrames

\* The access list Prepare builds is in order.
LEMMA PreparedIs ==
  ASSUME tx \in Transactions, NEW l \in Prepared
  PROVE  l \in AccessList /\ ListOk(l)
<1> DEFINE n == [a \in Addr |-> IF a = Sender THEN -1 ELSE Absent]
<1>1. n \in [Addr -> Int] /\ \A a \in Addr : n[a] \in {-1, -2}
  BY DEF Absent
<1>2. CASE l = [at |-> n, slots |-> <<>>]
  <2> HIDE DEF n
  <2>1. l.at = n /\ l.slots = <<>> /\ l \in AccessList
    BY <1>1, <1>2 DEF AccessList
  <2>2. Len(l.slots) = 0 /\ 1..0 = {}
    BY <2>1
  <2>3. \A a \in Addr : l.at[a] \in Absent..(Len(l.slots) - 1) /\ ~(l.at[a] >= 0)
    BY <1>1, <2>1, <2>2 DEF Absent
  <2> QED BY <2>1, <2>2, <2>3 DEF ListOk
<1>3. ASSUME NEW a \in Addr, NEW k \in Slot, l = [at |-> [n EXCEPT ![a] = 0], slots |-> <<{k}>>]
      PROVE  l \in AccessList /\ ListOk(l)
  <2> DEFINE m == [n EXCEPT ![a] = 0]
             q == <<{k}>>
  <2> HIDE DEF n
  <2>1. m \in [Addr -> Int] /\ m[a] = 0 /\ \A b \in Addr : b # a => m[b] \in {-1, -2}
    BY <1>1
  <2>2. q \in Seq(SUBSET Slot) /\ Len(q) = 1 /\ q[1] = {k} /\ 1..1 = {1}
    OBVIOUS
  <2> HIDE DEF m, q
  <2>3. l.at = m /\ l.slots = q /\ l \in AccessList
    BY <1>3, <2>1, <2>2 DEF AccessList, m, q
  <2>4. \A i \in 1..Len(l.slots) : l.slots[i] # {}
    BY <2>2, <2>3
  <2>5. \A b \in Addr : l.at[b] \in Absent..(Len(l.slots) - 1)
    <3>1. Len(l.slots) - 1 = 0 /\ Absent..0 = {-2, -1, 0}
      BY <2>2, <2>3 DEF Absent
    <3>2. \A b \in Addr : l.at[b] \in {-2, -1, 0}
      BY <2>1, <2>3
    <3> QED BY <3>1, <3>2
  <2>6. \A b \in Addr : l.at[b] >= 0 => b = a
    BY <2>1, <2>3
  <2> QED BY <2>3, <2>4, <2>5, <2>6 DEF ListOk
<1> QED BY <1>2, <1>3, StateDBAssumption DEF Prepared

\* A fresh StateDB satisfies everything that is asked of a running one.
LEMMA StartRunning ==
  ASSUME NEW B \in Store, NEW s \in Db, s.objs = [a \in Addr |-> NoAccount], s.layers = <<>>,
         s.journal = <<>>, AccessOk(s), NEW nx
  PROVE  Chain(s) /\ LayersOk(s) /\ Running(B, s, <<>>, nx, <<>>)
<1>1. Len(s.journal) = 0 /\ 1..0 = {} /\ DOMAIN s.journal = {} /\ Len(s.layers) = 0
  OBVIOUS
<1>2. Chain(s)
  BY <1>1 DEF Chain
<1>3. LayersOk(s)
  <2>1. Marks(s.journal) = {}
    BY <1>1 DEF Marks
  <2> QED BY <1>1, <2>1, FS_EmptySet DEF LayersOk
<1>4. Dirty(s) = {}
  BY <1>1 DEF Dirty
<1>5. TopOf(B, s) = B
  BY DEF TopOf
<1>6. \A a \in Addr : Sound(B, s, a) /\ Unmodified(B, s, a)
  BY <1>4, <1>5 DEF Sound, Unmodified
<1>7. WholeBut(B, s, {})
  BY <1>3, <1>6 DEF WholeBut
<1>8. Len(<<>>) = 0
  OBVIOUS
<1> QED BY <1>1, <1>2, <1>3, <1>7, <1>8, EmptyRevisions DEF Running

\* A transaction starts in the inductive invariant.
LEMMA InitInv == Init => StateInv
<1> SUFFICES ASSUME Init PROVE StateInv
  OBVIOUS
<1> USE StateDBAssumption DEF Init
<1>1. base \in Store /\ tx \in Transactions
  OBVIOUS
<1>2. /\ db.objs = [a \in Addr |-> NoAccount] /\ db.refund = 0 /\ db.logs = 0
      /\ db.transient = [a \in Addr |-> 0] /\ db.access \in Prepared /\ db.layers = <<>>
      /\ db.journal = <<>>
      /\ db = [objs |-> db.objs, refund |-> db.refund, logs |-> db.logs,
               transient |-> db.transient, access |-> db.access, layers |-> db.layers,
               journal |-> db.journal]
  OBVIOUS
<1>3. db.access \in AccessList /\ AccessOk(db)
  BY <1>2, PreparedIs DEF AccessOk
<1>4. db \in Db
  <2>1. /\ db.objs \in [Addr -> Object \cup {NoAccount}] /\ db.transient \in [Addr -> Val]
        /\ db.layers \in Seq(Store) /\ db.journal \in Seq(Entry)
        /\ db.refund \in Nat /\ db.logs \in Nat
    BY <1>2
  <2> QED BY <1>2, <1>3, <2>1 DEF Db
<1>5. Chain(db) /\ LayersOk(db) /\ Running(base, db, <<>>, next, <<>>)
  BY <1>1, <1>2, <1>3, <1>4, StartRunning
<1>6. Revisions(valid, next, Len(db.journal)) /\ next \in Nat
  BY EmptyRevisions
<1>7. calls \in 0..(CounterSize - 1)
  OBVIOUS
<1> QED BY <1>1, <1>3, <1>5, <1>6, <1>7 DEF StateInv

\* A step that the journal can undo keeps it.
LEMMA GoesInv ==
  ASSUME StateInv, phase = "run", Goes(db, db'), base' = base, tx' = tx, phase' = phase,
         calls' \in 0..(CounterSize - 1), next' \in Nat,
         Running(base, db', valid', next', frames')
  PROVE  StateInv'
<1>1. Chain(db') /\ AccessOk(db') /\ LayersOk(db') /\ Revisions(valid', next', Len(db'.journal))
  BY DEF Running, WholeBut
<1> QED BY <1>1 DEF StateInv

\* The open frames start from states that stand for the same worlds as before.
Kept ==
  \A i \in 1..Len(frames) :
    Sim(base, FrameOf(db, valid, frames, i), FrameOf(db', valid', frames, i))

\* Any operation that extends the journal soundly and keeps the StateDB whole keeps the
\* invariant and the frames' snapshots.
LEMMA ChangeInv ==
  ASSUME StateInv, phase = "run", Goes(db, db'), UNCHANGED <<valid, frames, base, phase, tx>>,
         calls' \in 0..(CounterSize - 1), next' \in Nat, next <= next'
  PROVE  StateInv' /\ Kept
<1>1. Running(base, db, valid, next, frames) /\ base \in Store /\ next \in Nat
  BY DEF StateInv
<1>2. /\ Running(base, db', valid, next', frames)
      /\ \A i \in 1..Len(frames) :
           Sim(base, FrameOf(db, valid, frames, i), FrameOf(db', valid, frames, i))
  BY <1>1, StepRunning DEF Goes
<1>3. Kept
  BY <1>2 DEF Kept
<1> QED BY <1>2, <1>3, GoesInv

\* The operations that are a change of db.
LEMMA ChangeGoes ==
  ASSUME StateInv, NEW g, NEW s, Change(g, s)
  PROVE  /\ Chain(db) /\ WholeBut(base, db, {}) /\ base \in Store /\ db \in Db /\ phase = "run"
         /\ db' = s
         /\ (Goes(db, s) => StateInv' /\ Kept)
<1>1. Chain(db) /\ WholeBut(base, db, {}) /\ base \in Store /\ db \in Db /\ phase = "run"
  BY DEF Change, Room, StateInv, Running, Chain
<1>2. ASSUME Goes(db, s) PROVE StateInv' /\ Kept
  <2>1. next \in Nat /\ next <= next /\ calls \in 0..(CounterSize - 1)
    BY DEF StateInv
  <2>2. /\ Goes(db, db') /\ UNCHANGED <<valid, frames, base, phase, tx>>
        /\ next' = next /\ calls' = calls
    BY <1>2 DEF Change
  <2> QED BY <1>1, <2>1, <2>2, ChangeInv
<1> QED BY <1>1, <1>2 DEF Change

\* So does a precompile call, with the inner revision or without it.
LEMMA CallInv ==
  ASSUME StateInv, phase = "run", NEW s, NEW inner, Precompile(s, inner)
  PROVE  /\ base \in Store /\ Chain(db) /\ WholeBut(base, db, {})
         /\ inner = <<>> /\ Goes(db, s) => StateInv' /\ Kept
         /\ \A M \in Nat : inner = <<Rev(next + 1, M)>> /\ Goes(db, s)
              /\ Len(db.journal) <= M /\ M <= Len(s.journal) => StateInv' /\ Kept
<1>0. Running(base, db, valid, next, frames) /\ base \in Store /\ next \in Nat
  BY DEF StateInv
<1>1. Chain(db) /\ WholeBut(base, db, {}) /\ db \in Db /\ valid \in Seq([id : Nat, index : Nat])
  BY <1>0 DEF Running, Chain, Revisions
<1> DEFINE us == Append(valid, Rev(next, Len(db.journal)))
<1>2. /\ db' = s /\ valid' = us \o inner /\ next' = next + 1 + Len(inner) /\ frames' = frames
      /\ base' = base /\ phase' = phase /\ tx' = tx
  <2>1. valid \o <<Rev(next, Len(db.journal))>> = us
    BY <1>1
  <2>2. Revision(db, next) = Rev(next, Len(db.journal))
    BY DEF Revision, Rev
  <2>3. valid' = valid \o <<Revision(db, next)>> \o inner
    BY DEF Precompile
  <2> QED BY <2>1, <2>2, <2>3 DEF Precompile
<1>3. calls' \in 0..(CounterSize - 1)
  BY StateDBAssumption DEF Precompile, StateInv
<1>4. us \in Seq([id : Nat, index : Nat])
  <2>1. Rev(next, Len(db.journal)) \in [id : Nat, index : Nat]
    BY <1>0, <1>1, JournalFacts DEF Rev
  <2> QED BY <1>1, <2>1
<1> HIDE DEF us
<1>5. us = Append(valid, Rev(next, Len(db.journal)))
  BY DEF us
<1>6. ASSUME inner = <<>>, Goes(db, s) PROVE StateInv' /\ Kept
  <2>1. us \o inner = us /\ Len(inner) = 0
    BY <1>4, <1>6
  <2>2. valid' = us /\ next' = next + 1 /\ next' \in Nat
    BY <1>0, <1>2, <2>1
  <2>3. /\ Running(base, db', us, next + 1, frames)
        /\ \A i \in 1..Len(frames) :
             Sim(base, FrameOf(db, valid, frames, i), FrameOf(db', us, frames, i))
    BY <1>0, <1>2, <1>5, <1>6, CallRunning DEF Goes
  <2>4. Running(base, db', valid', next', frames') /\ Goes(db, db')
    BY <1>2, <1>6, <2>2, <2>3
  <2>5. Kept
    BY <2>2, <2>3 DEF Kept
  <2> QED BY <1>2, <1>3, <2>2, <2>4, <2>5, GoesInv
<1>7. ASSUME NEW M \in Nat, inner = <<Rev(next + 1, M)>>, Goes(db, s),
             Len(db.journal) <= M, M <= Len(s.journal)
      PROVE  StateInv' /\ Kept
  <2> DEFINE ws == Append(us, Rev(next + 1, M))
  <2>1. us \o inner = ws /\ Len(inner) = 1
    <3>1. Rev(next + 1, M) \in [id : Nat, index : Nat]
      BY <1>0 DEF Rev
    <3> HIDE DEF Rev
    <3> QED BY <1>4, <1>7, <3>1
  <2>2. valid' = ws /\ next' = next + 2 /\ next' \in Nat
    BY <1>0, <1>2, <2>1
  <2>3. ws = Append(us, Rev(next + 1, M))
    OBVIOUS
  <2> HIDE DEF ws
  <2>4. /\ Running(base, db', ws, next + 2, frames)
        /\ \A i \in 1..Len(frames) :
             Sim(base, FrameOf(db, valid, frames, i), FrameOf(db', ws, frames, i))
    BY <1>0, <1>2, <1>5, <1>7, <2>3, CallsRunning DEF Goes
  <2>5. Running(base, db', valid', next', frames') /\ Goes(db, db')
    BY <1>2, <1>7, <2>2, <2>4
  <2>6. Kept
    BY <2>2, <2>4 DEF Kept
  <2> QED BY <1>2, <1>3, <2>2, <2>5, <2>6, GoesInv
<1> QED BY <1>0, <1>1, <1>6, <1>7

\* The open frames have smaller revision ids than the next one.
LEMMA FramesBelow ==
  ASSUME StateInv, phase = "run"
  PROVE  \A i \in 1..Len(frames) : frames[i] < next
<1>1. Revisions(valid, next, Len(db.journal)) /\ OfFrames(frames, valid)
  BY DEF StateInv, Running
<1> QED BY <1>1 DEF Revisions, OfFrames

\* The binary search of RevertToSnapshot finds the frame's revision.
LEMMA SearchIs ==
  ASSUME NEW id
  PROVE  Search(id) = Position(valid, id)
BY DEF Search, Position

\* Snapshot keeps the invariant.
LEMMA SnapshotInv ==
  ASSUME StateInv, Snapshot
  PROVE  StateInv'
<1>1. Running(base, db, valid, next, frames) /\ base \in Store /\ next \in Nat /\ phase = "run"
  BY DEF StateInv, Snapshot, Room
<1>2. /\ valid' = Append(valid, Rev(next, Len(db.journal))) /\ frames' = Append(frames, next)
      /\ next' = next + 1 /\ UNCHANGED <<db, calls, base, phase, tx>>
  BY DEF Snapshot, Revision, Rev
<1>3. \A i \in 1..Len(frames) : frames[i] < next
  BY <1>1, FramesBelow
<1>4. Running(base, db, valid', next + 1, frames')
  BY <1>1, <1>2, <1>3, OpenRunning
<1>5. Revisions(valid', next', Len(db.journal))
  BY <1>2, <1>4 DEF Running
<1> QED BY <1>1, <1>2, <1>4, <1>5 DEF StateInv

\* A frame that returns keeps the invariant.
LEMMA ReturnInv ==
  ASSUME StateInv, Return
  PROVE  StateInv'
<1>1. Running(base, db, valid, next, frames) /\ phase = "run"
  BY DEF StateInv, Return
<1>2. frames # <<>> /\ frames' = Front(frames) /\ UNCHANGED <<db, valid, next, calls, base, phase, tx>>
  BY DEF Return
<1>3. Running(base, db, valid, next, frames')
  BY <1>1, <1>2, ReturnRunning
<1> QED BY <1>2, <1>3 DEF StateInv

\* RevertToSnapshot keeps the invariant.
LEMMA RevertInv ==
  ASSUME StateInv, RevertToSnapshot
  PROVE  StateInv'
<1>1. Running(base, db, valid, next, frames) /\ phase = "run" /\ base \in Store /\ next \in Nat
  BY DEF StateInv, RevertToSnapshot
<1> DEFINE j == Position(valid, Last(frames))
<1>2. /\ frames # <<>> /\ frames' = Front(frames) /\ UNCHANGED <<next, calls, base, phase, tx>>
      /\ db' = UndoTo(db, valid[j].index) /\ valid' = SubSeq(valid, 1, j - 1)
  BY SearchIs DEF RevertToSnapshot
<1>3. j = Position(valid, Last(frames))
  OBVIOUS
<1> HIDE DEF j
<1>4. Running(base, db', valid', next, frames')
  BY <1>1, <1>2, <1>3, RevertRunning
<1>5. Chain(db') /\ AccessOk(db') /\ LayersOk(db') /\ Revisions(valid', next, Len(db'.journal))
  BY <1>4 DEF Running, WholeBut
<1> QED BY <1>2, <1>4, <1>5 DEF StateInv

\* Commit, written or failed, keeps the invariant.
LEMMA CommitInv ==
  ASSUME StateInv, Commit
  PROVE  StateInv'
<1>1. phase = "run" /\ Chain(db) /\ WholeBut(base, db, {}) /\ base \in Store /\ db \in Db
  BY DEF StateInv, Commit, Running, Chain
<1>2. Flushed(db, TopOf(base, db)) \in Store
  BY <1>1, TopStore, FlushAgrees
<1>3. base' \in Store /\ phase' \in {"done", "failed"}
  BY <1>1, <1>2, Names DEF Commit
<1>4. Revisions(valid', next', Len(db'.journal))
  BY EmptyRevisions DEF Commit
<1> QED BY <1>3, <1>4 DEF StateInv, Commit

\* Every step keeps the inductive invariant.
LEMMA NextInv ==
  ASSUME StateInv, [Next]_vars
  PROVE  StateInv'
<1>1. ASSUME NEW a \in Addr, NEW b \in Addr, NEW x \in {0, 1}, Transfer(a, b, x)
      PROVE  StateInv'
  <2> DEFINE u == SubBalance(db, a, x)
             t == AddBalance(u, b, x)
  <2>1. Change("account", t) /\ a # b /\ (x > 0 => Get(db, a) # NoAccount /\ x <= Get(db, a).bal)
    BY <1>1 DEF Transfer
  <2>2. Chain(db) /\ WholeBut(base, db, {}) /\ base \in Store /\ (Goes(db, t) => StateInv')
    BY <2>1, ChangeGoes
  <2>3. Goes(db, t)
    BY <2>1, <2>2, TransferIs
  <2> QED BY <2>2, <2>3
<1>2. ASSUME NEW a \in Addr, Create(a) PROVE StateInv'
  <2> DEFINE t == CreateContract(GetOrNew(db, a), a)
  <2>1. Change("account", t) /\ (Get(db, a) # NoAccount => ~Get(db, a).new) /\ StorageEmpty(a)
    BY <1>2 DEF Create
  <2>2. Chain(db) /\ WholeBut(base, db, {}) /\ base \in Store /\ (Goes(db, t) => StateInv')
    BY <2>1, ChangeGoes
  <2>3. Goes(db, t)
    BY <2>1, <2>2, CreateIs
  <2> QED BY <2>2, <2>3
<1>3. ASSUME NEW a \in Addr, SetCode(a) PROVE StateInv'
  <2> DEFINE t == WriteCode(db, a)
  <2>1. Change("account", t)
    BY <1>3 DEF SetCode
  <2>2. Chain(db) /\ WholeBut(base, db, {}) /\ base \in Store /\ (Goes(db, t) => StateInv')
    BY <2>1, ChangeGoes
  <2>3. Goes(db, t)
    BY <2>2, WriteCodeIs DEF Becomes, Goes
  <2> QED BY <2>2, <2>3
<1>4. ASSUME NEW a \in Addr, SelfDestruct6780(a) PROVE StateInv'
  <2> DEFINE u == [db EXCEPT !.objs = [db.objs EXCEPT ![a] = Get(db, a)]]
             t == IF u.objs[a].new THEN Destroy(u, a) ELSE u
  <2>1. Change("account", t) /\ Get(db, a) # NoAccount
    BY <1>4 DEF SelfDestruct6780
  <2>2. Chain(db) /\ WholeBut(base, db, {}) /\ base \in Store /\ (Goes(db, t) => StateInv')
    BY <2>1, ChangeGoes
  <2>3. Goes(db, t)
    BY <2>1, <2>2, SelfDestructIs
  <2> QED BY <2>2, <2>3
<1>5. ASSUME NEW a \in Addr, NEW v \in Val, SetState(a, v) PROVE StateInv'
  <2> DEFINE t == WriteState(db, a, v)
  <2>1. Change("account", t)
    BY <1>5 DEF SetState
  <2>2. Chain(db) /\ WholeBut(base, db, {}) /\ base \in Store /\ (Goes(db, t) => StateInv')
    BY <2>1, ChangeGoes
  <2>3. Goes(db, t)
    BY <2>2, WriteStateIs DEF Becomes, Goes
  <2> QED BY <2>2, <2>3
<1>6. ASSUME NEW a \in Addr, NEW v \in Val, SetTransientState(a, v) PROVE StateInv'
  <2> DEFINE t == WriteTransient(db, a, v)
  <2>1. Change("side", t)
    BY <1>6 DEF SetTransientState
  <2>2. Chain(db) /\ WholeBut(base, db, {}) /\ base \in Store /\ (Goes(db, t) => StateInv')
    BY <2>1, ChangeGoes
  <2>3. Goes(db, t)
    BY <2>2, TransientIs DEF Goes
  <2> QED BY <2>2, <2>3
<1>7. ASSUME NEW r, Refund(r), r \in Nat PROVE StateInv'
  <2> DEFINE t == Journal([db EXCEPT !.refund = r], [kind |-> "refund", prev |-> db.refund])
  <2>1. Change("side", t)
    BY <1>7 DEF Refund
  <2> HIDE DEF Journal
  <2>2. Chain(db) /\ WholeBut(base, db, {}) /\ base \in Store /\ (Goes(db, t) => StateInv')
    BY <2>1, ChangeGoes
  <2>3. Goes(db, t)
    BY <1>7, <2>2, RefundIs DEF Goes
  <2> QED BY <2>2, <2>3
<1>8. ASSUME AddRefund(1) \/ SubRefund(1) PROVE StateInv'
  <2>1. db.refund \in Nat
    BY DbFields DEF StateInv, Chain
  <2>2. CASE AddRefund(1)
    BY <1>7, <2>1, <2>2 DEF AddRefund
  <2>3. CASE SubRefund(1)
    <3>1. Refund(db.refund - 1) /\ 1 <= db.refund
      BY <2>3 DEF SubRefund
    <3>2. db.refund - 1 \in Nat
      BY <2>1, <3>1
    <3> QED BY <1>7, <3>1, <3>2
  <2> QED BY <1>8, <2>2, <2>3
<1>9. ASSUME AddLog PROVE StateInv'
  <2> DEFINE t == Journal([db EXCEPT !.logs = db.logs + 1], [kind |-> "log"])
  <2>1. Change("side", t)
    BY <1>9 DEF AddLog
  <2>2. Chain(db) /\ WholeBut(base, db, {}) /\ base \in Store /\ (Goes(db, t) => StateInv')
    BY <2>1, ChangeGoes
  <2>3. Goes(db, t)
    BY <2>2, LogIs DEF Goes
  <2> QED BY <2>2, <2>3
<1>10. ASSUME NEW a \in Addr, AddAddressToAccessList(a) PROVE StateInv'
  <2> DEFINE t == AddAddress(db, a)
  <2>1. Change("side", t) /\ AccessOk(db)
    BY <1>10 DEF AddAddressToAccessList, StateInv
  <2>2. Chain(db) /\ WholeBut(base, db, {}) /\ base \in Store /\ (Goes(db, t) => StateInv')
    BY <2>1, ChangeGoes
  <2>3. Goes(db, t)
    BY <2>1, <2>2, AddAddressIs DEF Goes, Lists
  <2> QED BY <2>2, <2>3
<1>11. ASSUME NEW a \in Addr, NEW k \in Slot, AddSlotToAccessList(a, k) PROVE StateInv'
  <2> DEFINE t == AddSlot(db, a, k)
  <2>1. Change("side", t) /\ AccessOk(db)
    BY <1>11 DEF AddSlotToAccessList, StateInv
  <2>2. Chain(db) /\ WholeBut(base, db, {}) /\ base \in Store /\ (Goes(db, t) => StateInv')
    BY <2>1, ChangeGoes
  <2>3. Goes(db, t)
    BY <2>1, <2>2, AddSlotIs DEF Goes, Lists
  <2> QED BY <2>2, <2>3
<1>12. ASSUME NEW v \in Val, PrecompileWrites(v) PROVE StateInv'
  <2> DEFINE t == NativeWrite(CalledOf(db), v)
  <2>1. Precompile(t, <<>>) /\ phase = "run"
    BY <1>12 DEF PrecompileWrites, Called, CalledOf, Precompile, Room
  <2>2. base \in Store /\ Chain(db) /\ WholeBut(base, db, {}) /\ (Goes(db, t) => StateInv')
    BY <2>1, CallInv
  <2>3. Goes(db, t)
    BY <2>2, PrecompileNatives, PrecompileNative DEF Goes
  <2> QED BY <2>2, <2>3
<1>13. ASSUME NEW b \in Addr, PrecompilePays(b) PROVE StateInv'
  <2>1. CASE b \in Blocked
    <3> DEFINE t == BankMove(CalledOf(db), b, 1)
    <3>1. Precompile(t, <<>>) /\ phase = "run"
      BY <1>13, <2>1 DEF PrecompilePays, Called, CalledOf, Precompile, Room
    <3>2. base \in Store /\ Chain(db) /\ WholeBut(base, db, {}) /\ (Goes(db, t) => StateInv')
      BY <3>1, CallInv
    <3>3. Goes(db, t)
      BY <2>1, <3>2, PrecompileNatives, PrecompileNative DEF Goes
    <3> QED BY <3>2, <3>3
  <2>2. CASE b \notin Blocked
    <3> DEFINE t == AddBalance(BankCredit(CalledOf(db), b), b, 1)
    <3>1. Precompile(t, <<>>) /\ phase = "run"
      BY <1>13, <2>2 DEF PrecompilePays, Called, CalledOf, Precompile, Room
    <3>2. base \in Store /\ Chain(db) /\ WholeBut(base, db, {}) /\ (Goes(db, t) => StateInv')
      BY <3>1, CallInv
    <3>3. Goes(db, t)
      BY <3>2, PrecompilePaysIs DEF Goes
    <3> QED BY <3>2, <3>3
  <2> QED BY <2>1, <2>2
<1>13a. ASSUME NEW b \in Addr, PrecompileTakes(b) PROVE StateInv'
  <2>1. CASE b \in Blocked
    <3> DEFINE t == BankMove(CalledOf(db), b, -1)
    <3>1. Precompile(t, <<>>) /\ phase = "run"
      BY <1>13a, <2>1 DEF PrecompileTakes, Called, CalledOf, Precompile, Room
    <3>2. base \in Store /\ Chain(db) /\ WholeBut(base, db, {}) /\ (Goes(db, t) => StateInv')
      BY <3>1, CallInv
    <3>3. Goes(db, t)
      BY <2>1, <3>2, PrecompileNatives, PrecompileNative DEF Goes
    <3> QED BY <3>2, <3>3
  <2>2. CASE b \notin Blocked
    <3> DEFINE t == SubBalance(BankDebit(CalledOf(db), b), b, 1)
    <3>1. /\ Precompile(t, <<>>) /\ phase = "run"
          /\ Last(CalledOf(db).layers).acct[b] # NoAccount
          /\ Last(CalledOf(db).layers).acct[b].bal > 0
      BY <1>13a, <2>2 DEF PrecompileTakes, Called, CalledOf, Precompile, Room
    <3>2. base \in Store /\ Chain(db) /\ WholeBut(base, db, {}) /\ (Goes(db, t) => StateInv')
      BY <3>1, CallInv
    <3>3. Goes(db, t)
      BY <3>1, <3>2, PrecompileTakesIs DEF Goes
    <3> QED BY <3>2, <3>3
  <2> QED BY <2>1, <2>2
<1>14. ASSUME NEW a \in Addr, NEW v \in Val, PrecompileConverts(a, v) PROVE StateInv'
  <2> DEFINE t == NativeWrite(FlushToCacheCtx(WriteState(CalledOf(db), a, v)), v)
             M == Len(CalledOf(db).journal)
  <2>1. Precompile(t, <<Rev(next + 1, M)>>) /\ phase = "run" /\ Get(db, a) # NoAccount
    BY <1>14 DEF PrecompileConverts, Called, CalledOf, Precompile, Room, Revision, Rev
  <2>2. base \in Store /\ Chain(db) /\ WholeBut(base, db, {})
    BY <2>1, CallInv
  <2>3. Goes(db, t) /\ M = Len(db.journal) + 1 /\ Len(db.journal) + 1 <= Len(t.journal)
    BY <2>1, <2>2, PrecompileConvertsIs DEF Goes
  <2>4. Len(db.journal) \in Nat
    BY <2>2, JournalFacts DEF Chain
  <2>5. M \in Nat /\ Len(db.journal) <= M /\ M <= Len(t.journal)
    BY <2>3, <2>4
  <2> HIDE DEF t, M
  <2> QED BY <2>1, <2>3, <2>5, CallInv
<1>15. ASSUME PrecompileFails PROVE StateInv'
  <2>1. /\ phase = "run" /\ next' = next + 1 /\ UNCHANGED <<valid, frames, base, phase, tx>>
        /\ calls' = (calls + 1) % CounterSize
        /\ db' = UndoTo(IF OverLimit THEN Enter(db) ELSE Called, Len(db.journal))
    BY <1>15 DEF PrecompileFails, Room
  <2> DEFINE c == IF OverLimit THEN Enter(db) ELSE Called
  <2>2. c \in {Enter(db), CalledOf(db)} /\ db' = UndoTo(c, Len(db.journal))
    BY <2>1 DEF Called, CalledOf
  <2> HIDE DEF c
  <2>3. base \in Store /\ Chain(db) /\ WholeBut(base, db, {}) /\ next \in Nat
    BY <2>1 DEF StateInv, Running
  <2>4. Goes(db, db')
    BY <2>2, <2>3, PrecompileFailsIs DEF Goes
  <2>5. calls' \in 0..(CounterSize - 1)
    BY <2>1, StateDBAssumption DEF StateInv
  <2>6. next' \in Nat /\ next <= next'
    BY <2>1, <2>3
  <2> QED BY <2>1, <2>4, <2>5, <2>6, ChangeInv
<1>16. CASE UNCHANGED vars
  BY <1>16 DEF vars, StateInv
<1>17. tx.whom \subseteq Addr
  BY StateDBAssumption DEF StateInv
<1> QED BY <1>1, <1>2, <1>3, <1>4, <1>5, <1>6, <1>8, <1>9, <1>10, <1>11, <1>12, <1>13, <1>13a,
           <1>14, <1>15, <1>16, <1>17, SnapshotInv, ReturnInv, RevertInv, CommitInv DEF Next

\* The inductive invariant of StateDB: every entry of the journal can be
\* undone where its turn comes, and while the transaction runs, its state and
\* the states its open frames started from, which only the journal knows,
\* are whole.
THEOREM StateDBInvariance == Spec => []StateInv
BY InitInv, NextInv, PTL DEF Spec

-----------------------------------------------------------------------------
(* The invariants of the runs.                                             *)

\* The inductive invariant implies the type invariant.
LEMMA InvType == StateInv => TypeOK
<1> SUFFICES ASSUME StateInv PROVE TypeOK
  OBVIOUS
<1>1. db \in Db /\ base \in Store
  BY DEF StateInv, Chain
<1>2. /\ db.objs \in [Addr -> Object \cup {NoAccount}] /\ db.refund \in Nat /\ db.logs \in Nat
      /\ db.transient \in [Addr -> Val] /\ db.layers \in Seq(Store)
      /\ db.access.at \in [Addr -> Int] /\ db.access.slots \in Seq(SUBSET Slot)
  BY <1>1, DbFields
<1>3. ListOk(db.access)
  BY DEF StateInv, AccessOk
<1>4. db.access.slots \in Seq((SUBSET Slot) \ {{}})
  <2> DEFINE q == db.access.slots
             S == SUBSET Slot
             T == S \ {{}}
  <2>1. q \in Seq(S) /\ \A i \in 1..Len(q) : q[i] # {}
    BY <1>2, <1>3 DEF ListOk
  <2> HIDE DEF q, S
  <2>2. \A i \in 1..Len(q) : q[i] \in T
    BY <2>1
  <2>3. q = [i \in 1..Len(q) |-> q[i]] /\ Len(q) \in Nat
    BY <2>1
  <2> HIDE DEF T
  <2>4. q \in [1..Len(q) -> T]
    BY <2>2, <2>3
  <2>5. q \in Seq(T)
    BY <2>3, <2>4, SeqDef
  <2> QED BY <2>5 DEF q, T, S
<1>5. db.access.at \in [Addr -> Absent..(Len(db.access.slots) - 1)]
  BY <1>2, <1>3 DEF ListOk
<1>6. \A i \in DOMAIN db.layers : db.layers[i].acct \in [Addr -> Account \cup {NoAccount}]
  <2>1. \A i \in DOMAIN db.layers : db.layers[i] \in Store
    BY <1>2
  <2> QED BY <2>1 DEF Store
<1>7. \A i \in DOMAIN valid : valid[i].index \in 0..Len(db.journal) /\ valid[i].id < next
  <2>1. Revisions(valid, next, Len(db.journal)) /\ Len(db.journal) \in Nat
    BY <1>1, JournalFacts DEF StateInv
  <2>2. DOMAIN valid = 1..Len(valid)
    <3>1. valid \in Seq([id : Nat, index : Nat])
      BY <2>1 DEF Revisions
    <3> DEFINE R == [id : Nat, index : Nat]
    <3> HIDE DEF R
    <3>2. valid \in Seq(R)
      BY <3>1 DEF R
    <3> QED BY <3>2
  <2> SUFFICES ASSUME NEW i \in 1..Len(valid)
               PROVE  valid[i].index \in 0..Len(db.journal) /\ valid[i].id < next
    BY <2>2
  <2>3. valid[i].index \in Nat
    BY <2>1, RevisionFacts
  <2>4. valid[i].index <= Len(db.journal) /\ valid[i].id < next
    BY <2>1 DEF Revisions
  <2> QED BY <2>1, <2>3, <2>4
<1>8. base.acct \in [Addr -> Account \cup {NoAccount}]
  BY <1>1 DEF Store
<1> QED BY <1>2, <1>4, <1>5, <1>6, <1>7, <1>8 DEF TypeOK, StateInv

\* The type of StateDB's state, for every transaction: the access list points
\* only into its list of slot sets, no revision points beyond the journal.
THEOREM StateDBTypeCorrect == Spec => []TypeOK
BY StateDBInvariance, InvType, PTL

\* The inductive invariant implies that the journal unwinds.
LEMMA InvUnwinds == StateInv => JournalUnwinds
<1> SUFFICES ASSUME StateInv PROVE JournalUnwinds
  OBVIOUS
<1>1. Chain(db) /\ db \in Db /\ LayersOk(db) /\ base \in Store
  BY DEF StateInv, Chain
<1>2. AccessListUnwinds
  <2> SUFFICES ASSUME NEW i \in DOMAIN db.journal
               PROVE  LET e == db.journal[i]
                          after == UndoTo(db, i).access
                      IN  /\ e.kind = "addr" => after.at[e.addr] = -1
                          /\ e.kind = "slot" /\ after.slots[after.at[e.addr] + 1] = {e.slot}
                               => \A b \in Addr \ {e.addr} : after.at[b] < after.at[e.addr]
    BY DEF AccessListUnwinds
  <2>1. i \in 1..Len(db.journal) /\ i \in 0..Len(db.journal)
    BY <1>1, JournalFacts
  <2>2. Fits(Unwound(db)[i], db.journal[i])
    BY <1>1, <2>1 DEF Chain
  <2>3. UndoTo(db, i).access = Unwound(db)[i].access
    BY <1>1, <2>1, UndoToFacts DEF Sim, SideEq
  <2> QED BY <2>2, <2>3 DEF Fits
<1>3. LayersMatchJournal
  BY <1>1 DEF LayersOk, LayersMatchJournal, Marks
<1> QED BY <1>2, <1>3 DEF JournalUnwinds

\* For every transaction and at every depth of the journal, the blind Revert
\* methods find what they rely on: accessListAddAccountChange an address
\* without slots, accessListAddSlotChange a last slot whose list is the last,
\* precompileCallChange the layers of the calls below it.
THEOREM StateDBUnwinds == Spec => []JournalUnwinds
BY StateDBInvariance, InvUnwinds, PTL

-----------------------------------------------------------------------------
(* The world a state stands for.                                           *)

\* What an account's object stands for, or the account of the store.
SeenAs(B, a, x) ==
  IF x = NoAccount
  THEN IF B.acct[a] = NoAccount THEN NoAccount
       ELSE [Opening(B, a) EXCEPT !.slot = Held(B, a)]
  ELSE [x EXCEPT !.slot = SlotOf(B, a, x)]

ViewIn(B, s) ==
  [acct |-> [a \in Addr |-> SeenAs(B, a, s.objs[a])], native |-> TopOf(B, s).native,
   refund |-> s.refund, logs |-> s.logs, transient |-> s.transient, warm |-> Warmth(s.access)]

\* What a contract sees, with the committed store as a parameter.
LEMMA ViewIs ==
  ASSUME base \in Store, NEW s \in Db
  PROVE  View(s) = ViewIn(base, s)
<1>1. ASSUME NEW a \in Addr
      PROVE  (IF Get(s, a) = NoAccount THEN NoAccount
              ELSE [Get(s, a) EXCEPT !.slot = GetState(s, a)]) = SeenAs(base, a, s.objs[a])
  <2>1. CASE s.objs[a] # NoAccount
    BY <2>1, Names, StateIs DEF SeenAs
  <2>2. CASE s.objs[a] = NoAccount /\ base.acct[a] = NoAccount
    BY <2>2, Names DEF SeenAs
  <2>3. CASE s.objs[a] = NoAccount /\ base.acct[a] # NoAccount
    <3>1. Get(s, a) = Opening(base, a) /\ Committed(a) = Held(base, a)
      BY <2>3, Names
    <3>2. Opening(base, a) \in Object /\ Opening(base, a).slot = Clean
      BY <2>3, OpeningFields
    <3>3. Opening(base, a) # NoAccount
      BY <3>2, ObjectFields
    <3>4. GetState(s, a) = Held(base, a)
      BY <3>1, <3>2, <3>3 DEF GetState
    <3> QED BY <2>3, <3>1, <3>3, <3>4 DEF SeenAs
  <2> QED BY <2>1, <2>2, <2>3
<1>2. Top(s) = TopOf(base, s)
  BY Names
<1> QED BY <1>1, <1>2 DEF View, ViewIn, Warmth

\* The same of the current StateDB.
LEMMA ViewNow == base \in Store /\ db \in Db => View(db) = ViewIn(base, db)
BY ViewIs

\* The same world, after a step.
LEMMA ViewNext ==
  ASSUME base' \in Store, db' \in Db
  PROVE  View(db)' = ViewIn(base', db')
<1>1. (base \in Store /\ db \in Db => View(db) = ViewIn(base, db))'
  BY ViewNow, PTL
<1> QED BY <1>1

\* What is seen of an object: its fields, with the slot read through to the store.
LEMMA SeenType ==
  ASSUME NEW B \in Store, NEW a \in Addr, NEW x \in Object
  PROVE  LET y == SeenAs(B, a, x)
         IN  /\ y \in Object /\ y.slot = SlotOf(B, a, x) /\ y.slot \in Val /\ y.bal = x.bal
             /\ y.code = x.code /\ y.dead = x.dead /\ y.new = x.new
<1>1. x # NoAccount /\ x.slot \in Val \cup {Clean}
  BY ObjectFields
<1>2. SlotOf(B, a, x) \in Val
  BY <1>1, StoreFacts DEF SlotOf
<1>3. SeenAs(B, a, x) = [x EXCEPT !.slot = SlotOf(B, a, x)]
  BY <1>1 DEF SeenAs
<1> QED BY <1>2, <1>3 DEF Object

\* A load changes nothing that is seen.
LEMMA SameSeen ==
  ASSUME NEW B \in Store, NEW a \in Addr, NEW x \in Object \cup {NoAccount}, NEW y,
         Same(B, a, x, y)
  PROVE  SeenAs(B, a, x) = SeenAs(B, a, y)
<1> DEFINE h == Held(B, a)
           o == Opening(B, a)
           p == [o EXCEPT !.slot = h]
<1>0. h \in Val /\ h # Clean
  BY StoreFacts
<1>1. CASE y = x
  BY <1>1
<1>2. ASSUME x = NoAccount, B.acct[a] # NoAccount, y = o
      PROVE  SeenAs(B, a, x) = SeenAs(B, a, y)
  <2>1. o \in Object /\ o.slot = Clean /\ o # NoAccount
    BY <1>2, OpeningFields, ObjectFields
  <2> QED BY <1>2, <2>1 DEF SeenAs, SlotOf
<1>3. ASSUME x = NoAccount, B.acct[a] # NoAccount, y = p
      PROVE  SeenAs(B, a, x) = SeenAs(B, a, y)
  <2>1. p \in Object /\ p.slot = h /\ p # NoAccount /\ o \in Object
    BY <1>2, <1>3, OpeningFields, ObjectFields
  <2>2. SeenAs(B, a, x) = p
    BY <1>3 DEF SeenAs
  <2>3. SeenAs(B, a, y) = [p EXCEPT !.slot = h]
    BY <1>0, <1>3, <2>1 DEF SeenAs, SlotOf
  <2>4. [p EXCEPT !.slot = h] = p
    <3> HIDE DEF p
    <3> QED BY <2>1 DEF Object
  <2> QED BY <2>2, <2>3, <2>4
<1>4. ASSUME x \in Object, x.slot = Clean, y = [x EXCEPT !.slot = h]
      PROVE  SeenAs(B, a, x) = SeenAs(B, a, y)
  <2>1. SeenAs(B, a, x) = y /\ x # NoAccount
    BY <1>4, ObjectFields DEF SeenAs, SlotOf
  <2>2. y \in Object /\ y.slot = h
    <3> HIDE DEF h
    <3> QED BY <1>0, <1>4 DEF Object
  <2>3. y # NoAccount
    BY <2>2, ObjectFields
  <2>4. SeenAs(B, a, y) = [y EXCEPT !.slot = h]
    BY <1>0, <2>2, <2>3 DEF SeenAs, SlotOf
  <2>5. [y EXCEPT !.slot = h] = y
    BY <2>2 DEF Object
  <2> QED BY <2>1, <2>4, <2>5
<1> QED BY <1>1, <1>2, <1>3, <1>4 DEF Same

\* States that undoing cannot tell apart stand for the same world.
LEMMA SimView ==
  ASSUME NEW B \in Store, NEW s, NEW t, Sim(B, s, t)
  PROVE  ViewIn(B, s) = ViewIn(B, t)
<1>1. s \in Db /\ s.objs \in [Addr -> Object \cup {NoAccount}] /\ SideEq(s, t)
  BY DbFields DEF Sim
<1>2. \A a \in Addr : SeenAs(B, a, s.objs[a]) = SeenAs(B, a, t.objs[a])
  BY <1>1, SameSeen DEF Sim
<1>3. TopOf(B, s) = TopOf(B, t)
  BY <1>1 DEF SideEq, TopOf
<1> QED BY <1>1, <1>2, <1>3 DEF ViewIn, SideEq

\* The fields of a world.
LEMMA ViewFields ==
  ASSUME NEW B \in Store, NEW s \in Db
  PROVE  LET w == ViewIn(B, s)
         IN  /\ w.acct = [a \in Addr |-> SeenAs(B, a, s.objs[a])]
             /\ \A a \in Addr : w.acct[a] \in Object \cup {NoAccount}
             /\ w.native = TopOf(B, s).native /\ w.refund = s.refund /\ w.logs = s.logs
             /\ w.transient = s.transient /\ w.warm = Warmth(s.access)
<1>1. s.objs \in [Addr -> Object \cup {NoAccount}]
  BY DbFields
<1>2. ASSUME NEW a \in Addr PROVE SeenAs(B, a, s.objs[a]) \in Object \cup {NoAccount}
  <2>1. CASE s.objs[a] # NoAccount
    BY <1>1, <2>1, SeenType
  <2>2. CASE s.objs[a] = NoAccount
    BY <2>2, OpeningFields DEF SeenAs
  <2> QED BY <2>1, <2>2
<1> QED BY <1>2 DEF ViewIn

\* A world with another account a.
WithAcct(w, a, x) == [w EXCEPT !.acct = [w.acct EXCEPT ![a] = x]]

\* What an object's change makes of the world.
LEMMA BecomesView ==
  ASSUME base \in Store, NEW s \in Db, NEW t, NEW a \in Addr, NEW y, Becomes(s, t, a, y)
  PROVE  ViewIn(base, t) = WithAcct(ViewIn(base, s), a, SeenAs(base, a, y))
<1>1. s.objs \in [Addr -> Object \cup {NoAccount}] /\ t.objs = [s.objs EXCEPT ![a] = y] /\ SideEq(s, t)
  BY DbFields DEF Becomes
<1> DEFINE f == [b \in Addr |-> SeenAs(base, b, s.objs[b])]
           g == [b \in Addr |-> SeenAs(base, b, t.objs[b])]
<1>2. g = [f EXCEPT ![a] = SeenAs(base, a, y)]
  <2>1. \A b \in Addr : t.objs[b] = IF b = a THEN y ELSE s.objs[b]
    BY <1>1
  <2> QED BY <2>1
<1>3. TopOf(base, t) = TopOf(base, s)
  BY <1>1 DEF SideEq, TopOf
<1>4. ViewIn(base, t) = [acct |-> g, native |-> TopOf(base, s).native, refund |-> s.refund,
                         logs |-> s.logs, transient |-> s.transient, warm |-> Warmth(s.access)]
  BY <1>1, <1>3 DEF ViewIn, SideEq
<1>5. ViewIn(base, s) = [acct |-> f, native |-> TopOf(base, s).native, refund |-> s.refund,
                         logs |-> s.logs, transient |-> s.transient, warm |-> Warmth(s.access)]
  BY DEF ViewIn
<1> HIDE DEF f, g
<1> QED BY <1>2, <1>4, <1>5 DEF WithAcct

\* An object made or loaded on the way is an account touched.
LEMMA TouchedIs ==
  ASSUME base \in Store, NEW s \in Db, NEW a \in Addr
  PROVE  World!Touched(ViewIn(base, s), a)
           = WithAcct(ViewIn(base, s), a, SeenAs(base, a, Loaded(s, a)))
<1> DEFINE w == ViewIn(base, s)
           x == SeenAs(base, a, s.objs[a])
<1>1. w.acct[a] = x /\ w.acct = [b \in Addr |-> w.acct[b]]
  BY ViewFields
<1>2. w = [acct |-> w.acct, native |-> w.native, refund |-> w.refund, logs |-> w.logs,
           transient |-> w.transient, warm |-> w.warm]
  BY DEF ViewIn
<1> HIDE DEF w
<1>3. CASE x = NoAccount
  <2>1. s.objs[a] = NoAccount /\ base.acct[a] = NoAccount
    <3>1. s.objs[a] # NoAccount => x \in Object
      BY DbFields, SeenType
    <3>2. s.objs[a] = NoAccount /\ base.acct[a] # NoAccount => x \in Object
      BY OpeningFields DEF SeenAs
    <3> QED BY <1>3, <3>1, <3>2, ObjectFields
  <2>2. Loaded(s, a) = Fresh
    BY <2>1, Names DEF Loaded
  <2>3. SeenAs(base, a, Fresh) = World!Empty
    <3>1. SlotOf(base, a, Fresh) = 0
      BY <2>1, FreshObject DEF SlotOf, Held
    <3> QED BY <3>1, FreshObject DEF SeenAs, World!Empty, Fresh
  <2>4. World!Touched(w, a) = WithAcct(w, a, World!Empty)
    BY <1>1, <1>3 DEF World!Touched, WithAcct
  <2> QED BY <2>2, <2>3, <2>4 DEF w
<1>4. CASE x # NoAccount
  <2>1. World!Touched(w, a) = w
    BY <1>1, <1>4 DEF World!Touched
  <2>2. SeenAs(base, a, Loaded(s, a)) = x
    <3>1. CASE s.objs[a] # NoAccount
      BY <3>1, Names DEF Loaded
    <3>2. CASE s.objs[a] = NoAccount
      <4>1. base.acct[a] # NoAccount
        BY <1>4, <3>2 DEF SeenAs
      <4>2. Opening(base, a) \in Object
        BY <4>1, OpeningFields
      <4>3. Loaded(s, a) = Opening(base, a)
        BY <3>2, <4>1, <4>2, Names, ObjectFields DEF Loaded
      <4>4. Same(base, a, NoAccount, Opening(base, a))
        BY <4>1 DEF Same
      <4>5. SeenAs(base, a, NoAccount) = SeenAs(base, a, Opening(base, a))
        BY <4>4, SameSeen
      <4> QED BY <3>2, <4>3, <4>5
    <3> QED BY <3>1, <3>2
  <2>3. WithAcct(w, a, x) = w
    <3>1. [w.acct EXCEPT ![a] = x] = w.acct
      BY <1>1
    <3> QED BY <1>2, <3>1 DEF WithAcct
  <2> QED BY <2>1, <2>2, <2>3 DEF w
<1> QED BY <1>3, <1>4

\* A world is its six fields, an account for each address among them.
IsWorld(w) ==
  /\ w = [acct |-> w.acct, native |-> w.native, refund |-> w.refund, logs |-> w.logs,
          transient |-> w.transient, warm |-> w.warm]
  /\ w.acct = [a \in Addr |-> w.acct[a]]

\* What is seen of a StateDB is a state of the abstract world.
LEMMA ViewWorld ==
  ASSUME NEW B, NEW s
  PROVE  IsWorld(ViewIn(B, s))
BY DEF IsWorld, ViewIn

\* Changing an account of the world twice is changing it once.
LEMMA AcctIs ==
  ASSUME NEW w, IsWorld(w), NEW a \in Addr, NEW x, NEW t, t = WithAcct(w, a, x)
  PROVE  IsWorld(t) /\ t.acct[a] = x /\ \A y : WithAcct(t, a, y) = WithAcct(w, a, y)
<1> DEFINE f == w.acct
           g == [f EXCEPT ![a] = x]
<1>1. f = [b \in Addr |-> f[b]] /\ t = [w EXCEPT !.acct = g]
  BY DEF IsWorld, WithAcct
<1>2. g = [b \in Addr |-> g[b]] /\ g[a] = x /\ \A y : [g EXCEPT ![a] = y] = [f EXCEPT ![a] = y]
  BY <1>1
<1> HIDE DEF f, g
<1>3. t = [acct |-> g, native |-> w.native, refund |-> w.refund, logs |-> w.logs,
           transient |-> w.transient, warm |-> w.warm]
  BY <1>1 DEF IsWorld
<1>4. IsWorld(t) /\ t.acct = g
  BY <1>2, <1>3 DEF IsWorld
<1>5. ASSUME NEW y PROVE WithAcct(t, a, y) = WithAcct(w, a, y)
  <2> DEFINE h == [f EXCEPT ![a] = y]
  <2>1. WithAcct(t, a, y) = [t EXCEPT !.acct = h]
    BY <1>2, <1>4 DEF WithAcct
  <2>2. WithAcct(w, a, y) = [w EXCEPT !.acct = h]
    BY DEF WithAcct, f
  <2> HIDE DEF h
  <2>3. [t EXCEPT !.acct = h] = [w EXCEPT !.acct = h]
    BY <1>3 DEF IsWorld
  <2> QED BY <2>1, <2>2, <2>3
<1> QED BY <1>2, <1>4, <1>5

\* One field of an object is one of the account it stands for.
WithBal(x, n) == [x EXCEPT !.bal = n]
WithCode(x, n) == [x EXCEPT !.code = n]
WithNew(x, n) == [x EXCEPT !.new = n]
WithDead(x, d, n) == [x EXCEPT !.dead = d, !.bal = n]
WithStored(x, v) == [x EXCEPT !.slot = v]

\* What is seen of an object with one field changed is what was seen, with that field changed.
LEMMA SeenField ==
  ASSUME NEW B \in Store, NEW a \in Addr, NEW x \in Object, NEW y, y = SeenAs(B, a, x)
  PROVE  /\ \A n \in Nat : SeenAs(B, a, WithBal(x, n)) = WithBal(y, n)
         /\ \A n \in {0, 1} : SeenAs(B, a, WithCode(x, n)) = WithCode(y, n)
         /\ \A n \in BOOLEAN : SeenAs(B, a, WithNew(x, n)) = WithNew(y, n)
         /\ \A d \in BOOLEAN, n \in Nat : SeenAs(B, a, WithDead(x, d, n)) = WithDead(y, d, n)
         /\ \A v \in Val : /\ SlotOf(B, a, x) = v => SeenAs(B, a, x) = WithStored(y, v)
                           /\ SlotOf(B, a, x) # v =>
                                SeenAs(B, a, WithStored(x, v)) = WithStored(y, v)
<1> DEFINE k == SlotOf(B, a, x)
<1>1. y \in Object /\ y.slot = k /\ k \in Val /\ x # NoAccount /\ y = [x EXCEPT !.slot = k]
  BY SeenType, ObjectFields DEF SeenAs
<1>2. Clean \notin Val
  BY StateDBAssumption
<1>3. ASSUME NEW z \in Object, z.slot = x.slot
      PROVE  SeenAs(B, a, z) = [z EXCEPT !.slot = k]
  BY <1>3, ObjectFields DEF SeenAs, SlotOf
<1>4. ASSUME NEW v \in Val, NEW z \in Object, z.slot = v
      PROVE  SeenAs(B, a, z) = [z EXCEPT !.slot = v]
  BY <1>2, <1>4, ObjectFields DEF SeenAs, SlotOf
<1> HIDE DEF k
<1>5. ASSUME NEW n \in Nat PROVE SeenAs(B, a, WithBal(x, n)) = WithBal(y, n)
  <2> DEFINE z == [x EXCEPT !.bal = n]
  <2>1. z \in Object /\ z.slot = x.slot
    BY DEF Object
  <2>2. [z EXCEPT !.slot = k] = [y EXCEPT !.bal = n]
    BY <1>1 DEF Object
  <2> HIDE DEF z
  <2>3. SeenAs(B, a, z) = [y EXCEPT !.bal = n]
    BY <1>3, <2>1, <2>2
  <2> QED BY <2>3 DEF z, WithBal
<1>6. ASSUME NEW n \in {0, 1} PROVE SeenAs(B, a, WithCode(x, n)) = WithCode(y, n)
  <2> DEFINE z == [x EXCEPT !.code = n]
  <2>1. z \in Object /\ z.slot = x.slot
    BY DEF Object
  <2>2. [z EXCEPT !.slot = k] = [y EXCEPT !.code = n]
    BY <1>1 DEF Object
  <2> HIDE DEF z
  <2>3. SeenAs(B, a, z) = [y EXCEPT !.code = n]
    BY <1>3, <2>1, <2>2
  <2> QED BY <2>3 DEF z, WithCode
<1>7. ASSUME NEW n \in BOOLEAN PROVE SeenAs(B, a, WithNew(x, n)) = WithNew(y, n)
  <2> DEFINE z == [x EXCEPT !.new = n]
  <2>1. z \in Object /\ z.slot = x.slot
    BY DEF Object
  <2>2. [z EXCEPT !.slot = k] = [y EXCEPT !.new = n]
    BY <1>1 DEF Object
  <2> HIDE DEF z
  <2>3. SeenAs(B, a, z) = [y EXCEPT !.new = n]
    BY <1>3, <2>1, <2>2
  <2> QED BY <2>3 DEF z, WithNew
<1>8. ASSUME NEW d \in BOOLEAN, NEW n \in Nat
      PROVE  SeenAs(B, a, WithDead(x, d, n)) = WithDead(y, d, n)
  <2> DEFINE z == [x EXCEPT !.dead = d, !.bal = n]
  <2>1. z \in Object /\ z.slot = x.slot
    BY DEF Object
  <2>2. [z EXCEPT !.slot = k] = [y EXCEPT !.dead = d, !.bal = n]
    BY <1>1 DEF Object
  <2> HIDE DEF z
  <2>3. SeenAs(B, a, z) = [y EXCEPT !.dead = d, !.bal = n]
    BY <1>3, <2>1, <2>2
  <2> QED BY <2>3 DEF z, WithDead
<1>9. ASSUME NEW v \in Val
      PROVE  /\ k = v => SeenAs(B, a, x) = WithStored(y, v)
             /\ k # v => SeenAs(B, a, WithStored(x, v)) = WithStored(y, v)
  <2>1. CASE k = v
    <3>1. [y EXCEPT !.slot = v] = y
      BY <1>1, <2>1 DEF Object
    <3> QED BY <2>1, <3>1 DEF WithStored
  <2>2. CASE k # v
    <3> DEFINE z == [x EXCEPT !.slot = v]
    <3>1. z \in Object /\ z.slot = v
      BY DEF Object
    <3>2. [z EXCEPT !.slot = v] = [y EXCEPT !.slot = v]
      BY <1>1 DEF Object
    <3> HIDE DEF z
    <3>3. SeenAs(B, a, z) = [y EXCEPT !.slot = v]
      BY <1>4, <3>1, <3>2
    <3> QED BY <2>2, <3>3 DEF z, WithStored
  <2> QED BY <2>1, <2>2
<1> QED BY <1>5, <1>6, <1>7, <1>8, <1>9 DEF k

-----------------------------------------------------------------------------
(* The saved worlds.                                                       *)

SavedIn(B, s, vs, fs) == [i \in 1..Len(fs) |-> ViewIn(B, FrameOf(s, vs, fs, i))]

\* The abstract world's saved states are what is seen of the StateDB undone to each open
\* frame's revision.
LEMMA SavedNow == StateInv /\ phase = "run" => Saved = SavedIn(base, db, valid, frames)
<1> SUFFICES ASSUME StateInv, phase = "run" PROVE Saved = SavedIn(base, db, valid, frames)
  OBVIOUS
<1>1. Running(base, db, valid, next, frames) /\ base \in Store
  BY DEF StateInv
<1>2. frames \in Seq(Nat)
  BY <1>1 DEF Running, OfFrames
<1>3. DOMAIN frames = 1..Len(frames)
  BY <1>2
<1>4. ASSUME NEW i \in 1..Len(frames)
      PROVE  View(UndoTo(db, valid[Search(frames[i])].index))
               = ViewIn(base, FrameOf(db, valid, frames, i))
  <2>1. UndoTo(db, valid[Search(frames[i])].index) = FrameOf(db, valid, frames, i)
    BY SearchIs DEF FrameOf, Index
  <2>2. FrameOf(db, valid, frames, i) \in Db
    BY <1>1 DEF Running, WholeBut
  <2> QED BY <1>1, <2>1, <2>2, ViewIs
<1> QED BY <1>3, <1>4 DEF Saved, SavedIn

\* Without an open frame nothing is saved.
LEMMA SavedNone == frames = <<>> => Saved = <<>>
BY DEF Saved

\* Both of these after the step.
LEMMA SavedNext ==
  /\ (StateInv /\ phase = "run")' => Saved' = SavedIn(base', db', valid', frames')
  /\ frames' = <<>> => Saved' = <<>>
<1>1. (StateInv /\ phase = "run" => Saved = SavedIn(base, db, valid, frames))'
  BY SavedNow, PTL
<1>2. (frames = <<>> => Saved = <<>>)'
  BY SavedNone, PTL
<1> QED BY <1>1, <1>2

-----------------------------------------------------------------------------
(* The steps of the world.                                                 *)

\* What a precompile sees, and a commit writes, is the world settled.
LEMMA SettledIs ==
  ASSUME NEW B \in Store, NEW s, WholeBut(B, s, {})
  PROVE  World!Settled(ViewIn(B, s)) = Flushed(s, TopOf(B, s))
<1> DEFINE T == TopOf(B, s)
           F == Flushed(s, T)
           w == ViewIn(B, s)
           r(a) == [bal |-> w.acct[a].bal, code |-> w.acct[a].code, slot |-> w.acct[a].slot]
<1>1. /\ s \in Db /\ (\A a \in Addr : Sound(B, s, a))
      /\ s.objs \in [Addr -> Object \cup {NoAccount}]
  BY DbFields DEF WholeBut
<1>2. \A a \in Dirty(s) : s.objs[a] # NoAccount
  BY <1>1 DEF Dirty, Sound
<1>3. /\ F \in Store /\ F.native = T.native
      /\ \A a \in Addr :
           /\ a \notin Dirty(s) => F.acct[a] = T.acct[a]
           /\ a \in Dirty(s) /\ s.objs[a].dead => F.acct[a] = NoAccount
           /\ a \in Dirty(s) /\ ~s.objs[a].dead =>
                F.acct[a] = [bal |-> s.objs[a].bal, code |-> s.objs[a].code,
                             slot |-> SlotOf(T, a, s.objs[a])]
  BY <1>1, <1>2, TopStore, FlushedIs
<1>4. w.native = T.native /\ \A a \in Addr : w.acct[a] = SeenAs(B, a, s.objs[a])
  BY <1>1, ViewFields
<1> HIDE DEF F, w, T
<1>5. ASSUME NEW a \in Addr
      PROVE  F.acct[a] = IF w.acct[a] = NoAccount THEN NoAccount
                         ELSE IF w.acct[a].dead THEN NoAccount ELSE r(a)
  <2>1. CASE a \in Dirty(s)
    <3> DEFINE x == s.objs[a]
    <3>1. x \in Object
      BY <1>1, <1>2, <2>1
    <3>2. /\ w.acct[a] \in Object /\ w.acct[a].slot = SlotOf(B, a, x) /\ w.acct[a].bal = x.bal
          /\ w.acct[a].code = x.code /\ w.acct[a].dead = x.dead
      BY <1>4, <3>1, SeenType
    <3>3. w.acct[a] # NoAccount
      BY <3>2, ObjectFields
    <3>4. SlotOf(T, a, x) = SlotOf(B, a, x)
      BY <1>1, <3>1 DEF Sound, SlotOf, T
    <3> QED BY <1>3, <2>1, <3>2, <3>3, <3>4
  <2>2. CASE a \notin Dirty(s)
    <3>1. Unmodified(B, s, a) /\ F.acct[a] = T.acct[a]
      BY <1>3, <2>2 DEF WholeBut
    <3>2. F.acct[a] = B.acct[a]
      BY <3>1 DEF Unmodified, T
    <3>3. CASE B.acct[a] = NoAccount
      BY <1>4, <3>1, <3>2, <3>3 DEF Unmodified, SeenAs
    <3>4. CASE B.acct[a] # NoAccount
      <4>1. /\ w.acct[a] \in Object /\ w.acct[a].slot = Held(B, a) /\ w.acct[a].bal = B.acct[a].bal
            /\ w.acct[a].code = B.acct[a].code /\ ~w.acct[a].dead
        <5>1. CASE s.objs[a] = NoAccount
          <6>1. w.acct[a] = SeenAs(B, a, NoAccount)
            BY <1>4, <5>1
          <6>2. SeenAs(B, a, NoAccount) = [Opening(B, a) EXCEPT !.slot = Held(B, a)]
            BY <3>4 DEF SeenAs
          <6> QED BY <3>4, <6>1, <6>2, OpeningFields
        <5>2. CASE s.objs[a] # NoAccount
          <6>1. s.objs[a] \in Object
            BY <1>1, <5>2
          <6>2. SlotOf(B, a, s.objs[a]) = Held(B, a)
            BY <3>1, <5>2 DEF Unmodified, SlotOf
          <6> QED BY <1>4, <3>1, <5>2, <6>1, <6>2, SeenType DEF Unmodified
        <5> QED BY <5>1, <5>2
      <4>2. w.acct[a] # NoAccount
        BY <4>1, ObjectFields
      <4>3. B.acct[a] \in Account /\ Held(B, a) = B.acct[a].slot
        BY <3>4, StoreFacts DEF Held
      <4>4. B.acct[a] = [bal |-> B.acct[a].bal, code |-> B.acct[a].code, slot |-> B.acct[a].slot]
        BY <4>3 DEF Account
      <4> QED BY <3>2, <4>1, <4>2, <4>3, <4>4
    <3> QED BY <3>3, <3>4
  <2> QED BY <2>1, <2>2
<1>6. F = [acct |-> [a \in Addr |-> F.acct[a]], native |-> F.native]
  BY <1>3 DEF Store
<1>7. World!Settled(w) = [acct |-> [a \in Addr |-> F.acct[a]], native |-> w.native]
  BY <1>5 DEF World!Settled
<1>8. World!Settled(w) = F
  BY <1>3, <1>4, <1>6, <1>7
<1> QED BY <1>8 DEF w, F, T

\* A commit leaves the world as it is.
LEMMA CommitView ==
  ASSUME NEW B \in Store, NEW s, WholeBut(B, s, {})
  PROVE  LET F == Flushed(s, TopOf(B, s))
         IN  F \in Store /\ ViewIn(F, s) = ViewIn(B, s)
<1> DEFINE T == TopOf(B, s)
           F == Flushed(s, T)
<1>1. s \in Db /\ s.objs \in [Addr -> Object \cup {NoAccount}]
  BY DbFields DEF WholeBut
<1>2. \A a \in Dirty(s) : s.objs[a] # NoAccount
  BY DEF WholeBut, Sound, Dirty
<1>3. /\ F.native = T.native /\ T \in Store
      /\ \A a \in Addr : a \notin Dirty(s) => F.acct[a] = T.acct[a]
  BY <1>1, <1>2, TopStore, FlushedIs
<1>4. F \in Store /\ Agrees(B, s, F, {})
  BY <1>1, TopStore, FlushAgrees
<1> HIDE DEF F
<1>5. ASSUME NEW a \in Addr PROVE SeenAs(F, a, s.objs[a]) = SeenAs(B, a, s.objs[a])
  <2>1. CASE s.objs[a] = NoAccount
    <3>1. a \notin Dirty(s)
      BY <1>2, <2>1
    <3>2. F.acct[a] = B.acct[a]
      BY <1>3, <3>1 DEF WholeBut, Unmodified
    <3> QED BY <2>1, <3>2 DEF SeenAs, Opening, Held
  <2>2. CASE s.objs[a] # NoAccount
    <3>1. SlotOf(F, a, s.objs[a]) = SlotOf(B, a, s.objs[a])
      BY <1>4 DEF Agrees, SlotOf
    <3> QED BY <2>2, <3>1 DEF SeenAs
  <2> QED BY <2>1, <2>2
<1>6. TopOf(F, s).native = TopOf(B, s).native
  BY <1>3 DEF TopOf
<1>7. ViewIn(F, s) = ViewIn(B, s)
  BY <1>5, <1>6 DEF ViewIn
<1> QED BY <1>4, <1>7 DEF F

\* Frames that start from the same worlds.
LEMMA KeptWorlds ==
  ASSUME StateInv, StateInv', phase = "run", UNCHANGED <<base, frames, phase>>, Kept
  PROVE  /\ View(db) = ViewIn(base, db) /\ View(db)' = ViewIn(base, db') /\ Saved' = Saved
         /\ db \in Db /\ db' \in Db /\ base \in Store
<1>1. base \in Store /\ db \in Db /\ db' \in Db /\ base' = base /\ frames' = frames
  BY DEF StateInv, Chain
<1>2. View(db) = ViewIn(base, db) /\ View(db)' = ViewIn(base, db')
  BY <1>1, ViewNow, ViewNext
<1>3. \A i \in 1..Len(frames) :
        ViewIn(base, FrameOf(db, valid, frames, i)) = ViewIn(base, FrameOf(db', valid', frames, i))
  BY <1>1, SimView DEF Kept
<1>4. SavedIn(base, db, valid, frames) = SavedIn(base, db', valid', frames)
  BY <1>3 DEF SavedIn
<1>5. Saved = SavedIn(base, db, valid, frames) /\ Saved' = SavedIn(base', db', valid', frames')
  BY SavedNow, SavedNext
<1> QED BY <1>1, <1>2, <1>4, <1>5

\* An operation that extends the journal soundly leaves the saved states as they are, so it is
\* a step of the world when what is seen after it is.
LEMMA ChangeWorld ==
  ASSUME StateInv, NEW g, NEW s, Change(g, s), Goes(db, s), NEW w, ViewIn(base, s) = w
  PROVE  World!Change(w) /\ View(db) = ViewIn(base, db)
<1>1. StateInv' /\ Kept /\ phase = "run" /\ db' = s
  BY ChangeGoes
<1>2. UNCHANGED <<frames, base, phase, seen>>
  BY DEF Change
<1>3. View(db) = ViewIn(base, db) /\ View(db)' = ViewIn(base, db') /\ Saved' = Saved
  BY <1>1, <1>2, KeptWorlds
<1> QED BY <1>1, <1>2, <1>3 DEF World!Change

\* An account that becomes y, seen from the world in which it is touched.
LEMMA TouchedView ==
  ASSUME base \in Store, NEW s \in Db, NEW a \in Addr, NEW t, NEW y, Becomes(s, t, a, y),
         NEW W, W = World!Touched(ViewIn(base, s), a)
  PROVE  /\ ViewIn(base, t) = WithAcct(W, a, SeenAs(base, a, y))
         /\ W.acct[a] = SeenAs(base, a, Loaded(s, a)) /\ IsWorld(W)
<1> DEFINE w == ViewIn(base, s)
           z == SeenAs(base, a, Loaded(s, a))
<1>1. IsWorld(w)
  BY ViewWorld
<1>2. W = WithAcct(w, a, z)
  BY TouchedIs
<1>3. ViewIn(base, t) = WithAcct(w, a, SeenAs(base, a, y))
  BY BecomesView
<1> HIDE DEF w, z
<1>4. IsWorld(W) /\ W.acct[a] = z /\ WithAcct(W, a, SeenAs(base, a, y)) = WithAcct(w, a, SeenAs(base, a, y))
  BY <1>1, <1>2, AcctIs
<1> QED BY <1>3, <1>4 DEF z

\* The fields an operation sets, seen from the same world.
LEMMA FieldView ==
  ASSUME base \in Store, NEW s \in Db, NEW a \in Addr, NEW t, NEW y, Becomes(s, t, a, y),
         NEW x, x = Loaded(s, a), NEW W, W = World!Touched(ViewIn(base, s), a)
  PROVE  /\ x.bal \in Nat /\ W.acct[a] \in Object /\ W.acct[a].bal = x.bal
         /\ W.acct[a].new = x.new
         /\ \A n \in Nat : y = WithBal(x, n) =>
              ViewIn(base, t) = WithAcct(W, a, WithBal(W.acct[a], n))
         /\ \A n \in {0, 1} : y = WithCode(x, n) =>
              ViewIn(base, t) = WithAcct(W, a, WithCode(W.acct[a], n))
         /\ \A n \in BOOLEAN : y = WithNew(x, n) =>
              ViewIn(base, t) = WithAcct(W, a, WithNew(W.acct[a], n))
         /\ \A d \in BOOLEAN, n \in Nat : y = WithDead(x, d, n) =>
              ViewIn(base, t) = WithAcct(W, a, WithDead(W.acct[a], d, n))
         /\ \A v \in Val : y = (IF SlotOf(base, a, x) = v THEN x ELSE WithStored(x, v)) =>
              ViewIn(base, t) = WithAcct(W, a, WithStored(W.acct[a], v))
<1>1. x \in Object
  BY LoadedType
<1>2. ViewIn(base, t) = WithAcct(W, a, SeenAs(base, a, y)) /\ W.acct[a] = SeenAs(base, a, x)
  BY TouchedView
<1>3. /\ W.acct[a] \in Object /\ W.acct[a].bal = x.bal /\ W.acct[a].new = x.new /\ x.bal \in Nat
  BY <1>1, <1>2, SeenType, ObjectFields
<1>4. /\ \A n \in Nat : SeenAs(base, a, WithBal(x, n)) = WithBal(W.acct[a], n)
      /\ \A n \in {0, 1} : SeenAs(base, a, WithCode(x, n)) = WithCode(W.acct[a], n)
      /\ \A n \in BOOLEAN : SeenAs(base, a, WithNew(x, n)) = WithNew(W.acct[a], n)
      /\ \A d \in BOOLEAN, n \in Nat :
           SeenAs(base, a, WithDead(x, d, n)) = WithDead(W.acct[a], d, n)
      /\ \A v \in Val :
           /\ SlotOf(base, a, x) = v => SeenAs(base, a, x) = WithStored(W.acct[a], v)
           /\ SlotOf(base, a, x) # v =>
                SeenAs(base, a, WithStored(x, v)) = WithStored(W.acct[a], v)
  BY <1>1, <1>2, SeenField
<1> QED BY <1>2, <1>3, <1>4

-----------------------------------------------------------------------------
(* The operations on accounts.                                             *)

\* What holds of the StateDB before such an operation.
LEMMA ChangeStart ==
  ASSUME StateInv, NEW g, NEW s, Change(g, s)
  PROVE  /\ Chain(db) /\ WholeBut(base, db, {}) /\ base \in Store /\ db \in Db
         /\ View(db) = ViewIn(base, db) /\ AccessOk(db)
BY ChangeGoes, ViewNow DEF StateInv

\* Creating a contract is a step of the world.
LEMMA CreateWorld ==
  ASSUME StateInv, NEW a \in Addr, Create(a)
  PROVE  World!Create(a)
<1> DEFINE t == CreateContract(GetOrNew(db, a), a)
           W == World!Touched(View(db), a)
           tt == TRUE
           y == WithNew(Loaded(db, a), tt)
<1>1. Change("account", t) /\ (Get(db, a) # NoAccount => ~Get(db, a).new) /\ StorageEmpty(a)
  BY DEF Create
<1>2. /\ Chain(db) /\ WholeBut(base, db, {}) /\ base \in Store /\ db \in Db
      /\ View(db) = ViewIn(base, db)
  BY <1>1, ChangeStart
<1>3. Goes(db, t) /\ Becomes(db, t, a, y)
  BY <1>1, <1>2, CreateIs DEF WithNew
<1>4. tt \in BOOLEAN
  OBVIOUS
<1>5. [W EXCEPT !.acct[a].new = TRUE] = WithAcct(W, a, WithNew(W.acct[a], tt))
  BY DEF WithAcct, WithNew
<1> HIDE DEF tt, W, t
<1>6. W = World!Touched(ViewIn(base, db), a)
  BY <1>2 DEF W
<1>7. ViewIn(base, t) = WithAcct(W, a, WithNew(W.acct[a], tt))
  BY <1>2, <1>3, <1>4, <1>6, FieldView
<1>8. World!Change([W EXCEPT !.acct[a].new = TRUE])
  BY <1>1, <1>3, <1>5, <1>7, ChangeWorld
<1> QED BY <1>8 DEF W, World!Create

\* SetCode is a step of the world.
LEMMA SetCodeWorld ==
  ASSUME StateInv, NEW a \in Addr, SetCode(a)
  PROVE  World!SetCode(a)
<1> DEFINE t == WriteCode(db, a)
           W == World!Touched(View(db), a)
           y == WithCode(Loaded(db, a), 1)
<1>1. Change("account", t)
  BY DEF SetCode
<1>2. /\ Chain(db) /\ WholeBut(base, db, {}) /\ base \in Store /\ db \in Db
      /\ View(db) = ViewIn(base, db)
  BY <1>1, ChangeStart
<1>3. Goes(db, t) /\ Becomes(db, t, a, y)
  BY <1>2, WriteCodeIs DEF WithCode, Becomes, Goes
<1>4. [W EXCEPT !.acct[a].code = 1] = WithAcct(W, a, WithCode(W.acct[a], 1))
  BY DEF WithAcct, WithCode
<1> HIDE DEF W, t
<1>5. W = World!Touched(ViewIn(base, db), a)
  BY <1>2 DEF W
<1>6. ViewIn(base, t) = WithAcct(W, a, WithCode(W.acct[a], 1))
  BY <1>2, <1>3, <1>5, FieldView
<1>7. World!Change([W EXCEPT !.acct[a].code = 1])
  BY <1>1, <1>3, <1>4, <1>6, ChangeWorld
<1> QED BY <1>7 DEF W, World!SetCode

\* SetState is a step of the world, also when it writes nothing.
LEMMA SetStateWorld ==
  ASSUME StateInv, NEW a \in Addr, NEW v \in Val, SetState(a, v)
  PROVE  World!SetState(a, v)
<1> DEFINE t == WriteState(db, a, v)
           W == World!Touched(View(db), a)
           x == Loaded(db, a)
           y == IF SlotOf(base, a, x) = v THEN x ELSE WithStored(x, v)
<1>1. Change("account", t)
  BY DEF SetState
<1>2. /\ Chain(db) /\ WholeBut(base, db, {}) /\ base \in Store /\ db \in Db
      /\ View(db) = ViewIn(base, db)
  BY <1>1, ChangeStart
<1>3. Goes(db, t) /\ Becomes(db, t, a, y)
  BY <1>2, WriteStateIs DEF WithStored, Becomes, Goes
<1>4. [W EXCEPT !.acct[a].slot = v] = WithAcct(W, a, WithStored(W.acct[a], v))
  BY DEF WithAcct, WithStored
<1> HIDE DEF W, t
<1>5. W = World!Touched(ViewIn(base, db), a)
  BY <1>2 DEF W
<1>6. ViewIn(base, t) = WithAcct(W, a, WithStored(W.acct[a], v))
  BY <1>2, <1>3, <1>5, FieldView
<1>7. World!Change([W EXCEPT !.acct[a].slot = v])
  BY <1>1, <1>3, <1>4, <1>6, ChangeWorld
<1> QED BY <1>7 DEF W, World!SetState

\* An account the StateDB can get is one of the world.
LEMMA GetSeen ==
  ASSUME base \in Store, NEW s \in Db, NEW a \in Addr, Get(s, a) # NoAccount,
         NEW w, w = ViewIn(base, s)
  PROVE  w.acct[a] # NoAccount /\ World!Touched(w, a) = w
<1>1. w.acct[a] = SeenAs(base, a, s.objs[a])
  BY ViewFields
<1>2. CASE s.objs[a] # NoAccount
  <2>1. s.objs[a] \in Object
    BY <1>2, DbFields
  <2>2. w.acct[a] \in Object
    BY <1>1, <2>1, SeenType
  <2>3. w.acct[a] # NoAccount
    BY <2>2, ObjectFields
  <2> QED BY <2>3 DEF World!Touched
<1>3. CASE s.objs[a] = NoAccount
  <2>1. base.acct[a] # NoAccount
    BY <1>3, Names
  <2>2. SeenAs(base, a, NoAccount) = [Opening(base, a) EXCEPT !.slot = Held(base, a)]
    BY <2>1 DEF SeenAs
  <2>3. SeenAs(base, a, NoAccount) \in Object
    BY <2>1, <2>2, OpeningFields
  <2>4. w.acct[a] # NoAccount
    BY <1>1, <1>3, <2>3, ObjectFields
  <2> QED BY <2>4 DEF World!Touched
<1> QED BY <1>2, <1>3

\* SelfDestruct6780 is a step of the world.
LEMMA SelfDestructWorld ==
  ASSUME StateInv, NEW a \in Addr, SelfDestruct6780(a)
  PROVE  World!SelfDestruct(a)
<1> DEFINE u == [db EXCEPT !.objs = [db.objs EXCEPT ![a] = Get(db, a)]]
           t == IF u.objs[a].new THEN Destroy(u, a) ELSE u
           w == View(db)
           tt == TRUE
           x == Loaded(db, a)
           y == Destroyed(x)
<1>1. Change("account", t) /\ Get(db, a) # NoAccount
  BY DEF SelfDestruct6780
<1>2. /\ Chain(db) /\ WholeBut(base, db, {}) /\ base \in Store /\ db \in Db
      /\ View(db) = ViewIn(base, db)
  BY <1>1, ChangeStart
<1>3. /\ Goes(db, t) /\ u.objs[a] = x
      /\ x.new => Becomes(db, t, a, y)
      /\ ~x.new => Sim(base, db, t)
  BY <1>1, <1>2, SelfDestructIs
<1>12. y = WithDead(x, tt, 0) /\ tt \in BOOLEAN
  BY DEF WithDead, Destroyed
<1> HIDE DEF t, w, tt, x, y
<1>4. w = ViewIn(base, db) /\ IsWorld(w) /\ w.acct[a] # NoAccount /\ World!Touched(w, a) = w
  BY <1>1, <1>2, ViewWorld, GetSeen DEF w
<1>5. x = Loaded(db, a) /\ x \in Object
  BY <1>2, LoadedType DEF x
<1>6. w.acct[a].new = x.new
  BY <1>2, <1>4, <1>5, TouchedIs, AcctIs, SeenType
<1>7. [w EXCEPT !.acct[a].dead = TRUE, !.acct[a].bal = 0] = WithAcct(w, a, WithDead(w.acct[a], tt, 0))
  BY <1>4 DEF tt, WithAcct, WithDead, IsWorld
<1>8. ASSUME x.new PROVE ViewIn(base, t) = WithAcct(w, a, WithDead(w.acct[a], tt, 0))
  BY <1>2, <1>3, <1>4, <1>5, <1>8, <1>12, FieldView
<1>9. ASSUME ~x.new PROVE ViewIn(base, t) = w
  BY <1>2, <1>3, <1>4, <1>9, SimView
<1>10. World!Change(ViewIn(base, t))
  BY <1>1, <1>3, ChangeWorld
<1>11. ViewIn(base, t) = IF w.acct[a].new
                         THEN [w EXCEPT !.acct[a].dead = TRUE, !.acct[a].bal = 0] ELSE w
  <2>1. CASE x.new
    BY <1>6, <1>7, <1>8, <2>1
  <2>2. CASE ~x.new
    BY <1>6, <1>9, <2>2
  <2> QED BY <2>1, <2>2
<1> QED BY <1>4, <1>10, <1>11 DEF w, World!SelfDestruct

\* An object credited is an account of the world credited.
LEMMA CreditIsView ==
  ASSUME base \in Store, NEW s \in Db, NEW b \in Addr, NEW n \in Nat, NEW t,
         Becomes(s, t, b, WithBal(Loaded(s, b), Loaded(s, b).bal + n))
  PROVE  ViewIn(base, t) = World!Credit(ViewIn(base, s), b, n)
<1> DEFINE W == World!Touched(ViewIn(base, s), b)
           x == Loaded(s, b)
           m == x.bal + n
<1>1. World!Credit(ViewIn(base, s), b, n) = [W EXCEPT !.acct[b].bal = W.acct[b].bal + n]
  BY DEF World!Credit
<1> HIDE DEF W, x
<1>2. x.bal \in Nat /\ W.acct[b].bal = x.bal
  BY FieldView DEF W, x
<1>3. m \in Nat
  BY <1>2
<1> HIDE DEF m
<1>4. ViewIn(base, t) = WithAcct(W, b, WithBal(W.acct[b], m))
  BY <1>3, FieldView DEF W, x, m
<1>5. [W EXCEPT !.acct[b].bal = m] = WithAcct(W, b, WithBal(W.acct[b], m))
  BY DEF WithAcct, WithBal
<1> QED BY <1>1, <1>2, <1>4, <1>5 DEF m

\* Transfer is a step of the world.
LEMMA TransferWorld ==
  ASSUME StateInv, NEW a \in Addr, NEW b \in Addr, NEW x \in {0, 1}, Transfer(a, b, x)
  PROVE  World!Transfer(a, b, x)
<1> DEFINE u == SubBalance(db, a, x)
           t == AddBalance(u, b, x)
           W == World!Touched(View(db), a)
           y == Loaded(db, a)
           m == y.bal - x
<1>1. Change("account", t) /\ a # b /\ (x > 0 => Get(db, a) # NoAccount /\ x <= Get(db, a).bal)
  BY DEF Transfer
<1>2. /\ Chain(db) /\ WholeBut(base, db, {}) /\ base \in Store /\ db \in Db
      /\ View(db) = ViewIn(base, db)
  BY <1>1, ChangeStart
<1>3. /\ Goes(db, t) /\ u \in Db /\ x \in Nat /\ x <= y.bal
      /\ Becomes(db, u, a, WithBal(y, m))
      /\ Becomes(u, t, b, WithBal(Loaded(u, b), Loaded(u, b).bal + x))
  BY <1>1, <1>2, TransferIs DEF WithBal
<1> HIDE DEF u, t, W, y, m
<1>4. W = World!Touched(ViewIn(base, db), a) /\ y = Loaded(db, a)
  BY <1>2 DEF W, y
<1>5. y.bal \in Nat /\ W.acct[a].bal = y.bal
  BY <1>2, <1>3, <1>4, FieldView
<1>6. m \in Nat /\ m = W.acct[a].bal - x /\ x <= W.acct[a].bal
  BY <1>3, <1>5 DEF m
<1>7. ViewIn(base, u) = WithAcct(W, a, WithBal(W.acct[a], m))
  BY <1>2, <1>3, <1>4, <1>6, FieldView
<1>8. [W EXCEPT !.acct[a].bal = m] = WithAcct(W, a, WithBal(W.acct[a], m))
  BY DEF WithAcct, WithBal
<1>9. ViewIn(base, t) = World!Credit(ViewIn(base, u), b, x)
  BY <1>2, <1>3, CreditIsView
<1>10. World!Change(ViewIn(base, t))
  BY <1>1, <1>3, ChangeWorld
<1>11. ViewIn(base, u) = [W EXCEPT !.acct[a].bal = W.acct[a].bal - x]
  BY <1>6, <1>7, <1>8
<1> QED BY <1>6, <1>9, <1>10, <1>11 DEF W, World!Transfer

-----------------------------------------------------------------------------
(* The other operations.                                                   *)

\* The world with another field.
LEMMA SideView ==
  ASSUME NEW B \in Store, NEW s \in Db, NEW t \in Db, t.objs = s.objs, t.layers = s.layers,
         NEW w, w = ViewIn(B, s)
  PROVE  ViewIn(B, t) = [acct |-> w.acct, native |-> w.native, refund |-> t.refund,
                         logs |-> t.logs, transient |-> t.transient, warm |-> Warmth(t.access)]
BY ViewFields DEF ViewIn, TopOf

\* Changing one field of the world, written out as a record.
LEMMA WorldFields ==
  ASSUME NEW w, IsWorld(w)
  PROVE  /\ \A x : [w EXCEPT !.transient = x] = [acct |-> w.acct, native |-> w.native,
              refund |-> w.refund, logs |-> w.logs, transient |-> x, warm |-> w.warm]
         /\ \A x : [w EXCEPT !.refund = x] = [acct |-> w.acct, native |-> w.native,
              refund |-> x, logs |-> w.logs, transient |-> w.transient, warm |-> w.warm]
         /\ \A x : [w EXCEPT !.logs = x] = [acct |-> w.acct, native |-> w.native,
              refund |-> w.refund, logs |-> x, transient |-> w.transient, warm |-> w.warm]
         /\ \A x : [w EXCEPT !.warm = x] = [acct |-> w.acct, native |-> w.native,
              refund |-> w.refund, logs |-> w.logs, transient |-> w.transient, warm |-> x]
BY DEF IsWorld

\* SetTransientState is a step of the world.
LEMMA SetTransientWorld ==
  ASSUME StateInv, NEW a \in Addr, NEW v \in Val, SetTransientState(a, v)
  PROVE  World!SetTransient(a, v)
<1> DEFINE t == WriteTransient(db, a, v)
           w == View(db)
           f == [db.transient EXCEPT ![a] = v]
<1>1. Change("side", t)
  BY DEF SetTransientState
<1>2. /\ Chain(db) /\ WholeBut(base, db, {}) /\ base \in Store /\ db \in Db
      /\ View(db) = ViewIn(base, db)
  BY <1>1, ChangeStart
<1>3. /\ t \in Db /\ t.objs = db.objs /\ t.refund = db.refund /\ t.logs = db.logs
      /\ t.transient = f /\ t.access = db.access /\ t.layers = db.layers /\ Goes(db, t)
  BY <1>2, TransientIs DEF Goes
<1>4. World!SetTransient(a, v) <=> World!Change([w EXCEPT !.transient = [w.transient EXCEPT ![a] = v]])
  BY DEF World!SetTransient
<1> HIDE DEF t, w
<1>5. w = ViewIn(base, db) /\ IsWorld(w) /\ w.refund = db.refund /\ w.logs = db.logs
      /\ w.transient = db.transient /\ w.warm = Warmth(db.access)
  <2>1. w = ViewIn(base, db)
    BY <1>2 DEF w
  <2>2. IsWorld(w)
    BY <1>2, <2>1, ViewWorld
  <2>3. w.refund = db.refund /\ w.logs = db.logs /\ w.transient = db.transient
        /\ w.warm = Warmth(db.access)
    BY <1>2, <2>1, ViewFields
  <2> QED BY <2>1, <2>2, <2>3
<1>6. f = [w.transient EXCEPT ![a] = v]
  BY <1>5
<1> HIDE DEF f
<1>7. ViewIn(base, t) = [w EXCEPT !.transient = f]
  BY <1>2, <1>3, <1>5, SideView, WorldFields
<1>8. World!Change([w EXCEPT !.transient = f])
  BY <1>1, <1>3, <1>7, ChangeWorld
<1> QED BY <1>4, <1>6, <1>8

\* AddRefund and SubRefund are steps of the world.
LEMMA RefundWorld ==
  ASSUME StateInv, NEW r \in Nat, Refund(r)
  PROVE  World!SetRefund(r) /\ View(db).refund = db.refund /\ db.refund \in Nat
<1> DEFINE t == Journal([db EXCEPT !.refund = r], [kind |-> "refund", prev |-> db.refund])
           w == View(db)
<1>1. Change("side", t)
  BY DEF Refund
<1>2. /\ Chain(db) /\ WholeBut(base, db, {}) /\ base \in Store /\ db \in Db
      /\ View(db) = ViewIn(base, db)
  BY <1>1, ChangeStart
<1>3. /\ t \in Db /\ t.objs = db.objs /\ t.refund = r /\ t.logs = db.logs
      /\ t.transient = db.transient /\ t.access = db.access /\ t.layers = db.layers /\ Goes(db, t)
  BY <1>2, RefundIs DEF Goes
<1> HIDE DEF t, w
<1>4. w = ViewIn(base, db) /\ IsWorld(w) /\ w.refund = db.refund /\ w.logs = db.logs
      /\ w.transient = db.transient /\ w.warm = Warmth(db.access)
  BY <1>2, ViewWorld, ViewFields DEF w
<1>5. ViewIn(base, t) = [w EXCEPT !.refund = r]
  BY <1>2, <1>3, <1>4, SideView, WorldFields
<1>6. World!Change([w EXCEPT !.refund = r])
  BY <1>1, <1>3, <1>5, ChangeWorld
<1> QED BY <1>2, <1>4, <1>6, DbFields DEF w, World!SetRefund

\* AddLog is a step of the world.
LEMMA AddLogWorld ==
  ASSUME StateInv, AddLog
  PROVE  World!AddLog
<1> DEFINE t == Journal([db EXCEPT !.logs = db.logs + 1], [kind |-> "log"])
           w == View(db)
           n == db.logs + 1
<1>1. Change("side", t)
  BY DEF AddLog
<1>2. /\ Chain(db) /\ WholeBut(base, db, {}) /\ base \in Store /\ db \in Db
      /\ View(db) = ViewIn(base, db)
  BY <1>1, ChangeStart
<1>3. /\ t \in Db /\ t.objs = db.objs /\ t.refund = db.refund /\ t.logs = n
      /\ t.transient = db.transient /\ t.access = db.access /\ t.layers = db.layers /\ Goes(db, t)
  BY <1>2, LogIs DEF Goes
<1>4. World!AddLog <=> World!Change([w EXCEPT !.logs = w.logs + 1])
  BY DEF World!AddLog
<1> HIDE DEF t, w
<1>5. w = ViewIn(base, db) /\ IsWorld(w) /\ w.refund = db.refund /\ w.logs = db.logs
      /\ w.transient = db.transient /\ w.warm = Warmth(db.access)
  BY <1>2, ViewWorld, ViewFields DEF w
<1>6. n = w.logs + 1
  BY <1>5
<1> HIDE DEF n
<1>7. ViewIn(base, t) = [w EXCEPT !.logs = n]
  BY <1>2, <1>3, <1>5, SideView, WorldFields
<1>8. World!Change([w EXCEPT !.logs = n])
  BY <1>1, <1>3, <1>7, ChangeWorld
<1> QED BY <1>4, <1>6, <1>8

\* A change of the access list that warms something is a step of the world.
LEMMA WarmWorld ==
  ASSUME StateInv, NEW t, Change("side", t), Lists(base, db, t, t.access),
         NEW x, Warmth(t.access) = Warmth(db.access) \cup x
  PROVE  World!Warm(x)
<1> DEFINE w == View(db)
           n == Warmth(t.access)
<1>1. /\ Chain(db) /\ WholeBut(base, db, {}) /\ base \in Store /\ db \in Db
      /\ View(db) = ViewIn(base, db)
  BY ChangeStart
<1>2. /\ t \in Db /\ t.objs = db.objs /\ t.refund = db.refund /\ t.logs = db.logs
      /\ t.transient = db.transient /\ t.layers = db.layers /\ Goes(db, t)
  BY <1>1 DEF Goes, Lists
<1>3. World!Warm(x) <=> World!Change([w EXCEPT !.warm = w.warm \cup x])
  BY DEF World!Warm
<1> HIDE DEF w
<1>4. w = ViewIn(base, db) /\ IsWorld(w) /\ w.refund = db.refund /\ w.logs = db.logs
      /\ w.transient = db.transient /\ w.warm = Warmth(db.access)
  BY <1>1, ViewWorld, ViewFields DEF w
<1>5. n = w.warm \cup x
  BY <1>4
<1> HIDE DEF n
<1>6. ViewIn(base, t) = [w EXCEPT !.warm = n]
  BY <1>1, <1>2, <1>4, SideView, WorldFields DEF n
<1>7. World!Change([w EXCEPT !.warm = n])
  BY <1>2, <1>6, ChangeWorld
<1> QED BY <1>3, <1>5, <1>7

-----------------------------------------------------------------------------
(* Precompile calls.                                                       *)

\* What a call finds is the world settled.
LEMMA CallWorld ==
  ASSUME StateInv, NEW s, NEW inner, Precompile(s, inner), StateInv', Kept,
         NEW w, ViewIn(base, s) = w
  PROVE  World!Precompile(w)
<1> DEFINE c == CalledOf(db)
           F == Flushed(db, TopOf(base, db))
<1>1. /\ phase = "run" /\ seen' = Last(c.layers) /\ db' = s
      /\ UNCHANGED <<frames, base, phase>>
  BY DEF Precompile, Room, Called, CalledOf
<1>2. base \in Store /\ Chain(db) /\ WholeBut(base, db, {})
  BY <1>1 DEF StateInv, Running
<1> HIDE DEF c, F
<1>3. c = Pushed(db, F) /\ F \in Store
  BY <1>2, CalledIs DEF c, F
<1>4. c.layers # <<>> /\ TopOf(base, c) = F
  BY <1>2, <1>3, PushedIs
<1>5. Last(c.layers) = F
  BY <1>4 DEF TopOf
<1>6. View(db) = ViewIn(base, db) /\ View(db)' = ViewIn(base, db') /\ Saved' = Saved
  BY <1>1, KeptWorlds
<1>7. World!Settled(View(db)) = F
  BY <1>2, <1>6, SettledIs DEF F
<1> QED BY <1>1, <1>5, <1>6, <1>7 DEF World!Precompile

\* Two states that differ in their layers.
LEMMA NativeView ==
  ASSUME NEW B \in Store, NEW s \in Db, NEW t \in Db, t.objs = s.objs, t.refund = s.refund,
         t.logs = s.logs, t.transient = s.transient, t.access = s.access
  PROVE  /\ ViewIn(B, t) = [ViewIn(B, s) EXCEPT !.native = TopOf(B, t).native]
         /\ TopOf(B, t).native = TopOf(B, s).native => ViewIn(B, t) = ViewIn(B, s)
BY DEF ViewIn

\* A call that changes native stores alone leaves the world with those.
LEMMA NativeWorld ==
  ASSUME StateInv, NEW n \in Native,
         NEW t, t = SetTop(CalledOf(db), WithNative(TopOf(base, CalledOf(db)), n)),
         Precompile(t, <<>>)
  PROVE  /\ World!Precompile([View(db) EXCEPT !.native = n])
         /\ View(db).native = TopOf(base, db).native
<1>1. phase = "run"
  BY DEF Precompile, Room
<1>2. /\ base \in Store /\ Chain(db) /\ WholeBut(base, db, {})
      /\ (Goes(db, t) => StateInv' /\ Kept)
  BY <1>1, CallInv
<1>3. /\ Goes(db, t) /\ t \in Db
      /\ t.objs = db.objs /\ t.refund = db.refund /\ t.logs = db.logs
      /\ t.transient = db.transient /\ t.access = db.access /\ TopOf(base, t).native = n
  BY <1>2, PrecompileNative DEF Goes
<1>4. db \in Db
  BY <1>2 DEF Chain
<1>5. ViewIn(base, t) = [ViewIn(base, db) EXCEPT !.native = n] /\ View(db) = ViewIn(base, db)
  BY <1>2, <1>3, <1>4, NativeView, ViewNow
<1>6. World!Precompile(ViewIn(base, t))
  BY <1>1, <1>2, <1>3, CallWorld
<1>7. ViewIn(base, db).native = TopOf(base, db).native
  BY DEF ViewIn
<1> QED BY <1>5, <1>6, <1>7

\* A precompile's native write is a step of the world.
LEMMA WritesWorld ==
  ASSUME StateInv, NEW v \in Val, PrecompileWrites(v)
  PROVE  World!PrecompileWrites(v)
<1> DEFINE t == NativeWrite(CalledOf(db), v)
           n == TopOf(base, db).native
           w == View(db)
<1>1. Precompile(t, <<>>) /\ phase = "run"
  BY DEF PrecompileWrites, Called, CalledOf, Precompile, Room
<1>2. base \in Store /\ Chain(db) /\ WholeBut(base, db, {})
  BY <1>1, CallInv
<1>3. /\ t = SetTop(CalledOf(db), WithNative(TopOf(base, CalledOf(db)), Stated(n, v)))
      /\ Stated(n, v) \in Native
  BY <1>2, PrecompileNatives
<1> HIDE DEF t, n
<1>4. World!Precompile([w EXCEPT !.native = Stated(n, v)]) /\ w.native = n
  BY <1>1, <1>3, NativeWorld DEF n
<1> HIDE DEF w
<1>5. [w EXCEPT !.native.state = v] = [w EXCEPT !.native = Stated(n, v)]
  BY <1>4 DEF Stated
<1> QED BY <1>4, <1>5 DEF w, World!PrecompileWrites

\* A bank transfer to or from a blocked account leaves the world with what was paid.
LEMMA MoveWorld ==
  ASSUME StateInv, NEW b \in Blocked, NEW x \in Int, Precompile(BankMove(CalledOf(db), b, x), <<>>)
  PROVE  World!Precompile(World!BankMove(View(db), b, x))
<1> DEFINE t == BankMove(CalledOf(db), b, x)
           n == TopOf(base, db).native
           w == View(db)
<1>1. Precompile(t, <<>>) /\ phase = "run"
  BY DEF Precompile, Room
<1>2. base \in Store /\ Chain(db) /\ WholeBut(base, db, {})
  BY <1>1, CallInv
<1>3. /\ t = SetTop(CalledOf(db), WithNative(TopOf(base, CalledOf(db)), Moved(n, b, x)))
      /\ Moved(n, b, x) \in Native
  BY <1>2, PrecompileNatives
<1> HIDE DEF t, n
<1>4. World!Precompile([w EXCEPT !.native = Moved(n, b, x)]) /\ w.native = n
  BY <1>1, <1>3, NativeWorld DEF n
<1> HIDE DEF w
<1>5. World!BankMove(w, b, x) = [w EXCEPT !.native = Moved(n, b, x)]
  BY <1>4 DEF Moved, World!BankMove
<1> QED BY <1>4, <1>5 DEF w

\* The objects and the bank change together: a call that sets one object is the world's.
LEMMA PaymentWorld ==
  ASSUME StateInv, NEW t, Precompile(t, <<>>), NEW p, NEW b \in Addr, NEW y,
         Becomes(db, p, b, y), Goes(db, t), t \in Db, t.objs = [db.objs EXCEPT ![b] = y],
         t.refund = db.refund, t.logs = db.logs, t.transient = db.transient,
         t.access = db.access, TopOf(base, t).native = TopOf(base, db).native
  PROVE  World!Precompile(ViewIn(base, p)) /\ View(db) = ViewIn(base, db)
<1>1. phase = "run"
  BY DEF Precompile, Room
<1>2. /\ base \in Store /\ Chain(db) /\ StateInv' /\ Kept
  BY <1>1, CallInv
<1>3. /\ p \in Db /\ t.objs = p.objs /\ t.refund = p.refund /\ t.logs = p.logs
      /\ t.transient = p.transient /\ t.access = p.access
      /\ TopOf(base, t).native = TopOf(base, p).native
  BY DEF Becomes, SideEq, TopOf
<1>4. ViewIn(base, t) = ViewIn(base, p)
  BY <1>2, <1>3, NativeView
<1>5. View(db) = ViewIn(base, db)
  BY <1>2, ViewNow DEF Chain
<1>6. World!Precompile(ViewIn(base, t))
  BY <1>2, CallWorld
<1> QED BY <1>4, <1>5, <1>6

\* A precompile's payment is one step of the world, although bank and EVM state are written
\* apart.
LEMMA PaysWorld ==
  ASSUME StateInv, NEW b \in Addr, PrecompilePays(b)
  PROVE  World!PrecompilePays(b)
<1>a. CASE b \in Blocked
  <2>1. Precompile(BankMove(CalledOf(db), b, 1), <<>>)
    BY <1>a DEF PrecompilePays, Called, CalledOf
  <2>2. World!Precompile(World!BankMove(View(db), b, 1))
    BY <1>a, <2>1, MoveWorld
  <2> QED BY <1>a, <2>2 DEF World!PrecompilePays
<1>b. CASE b \notin Blocked
  <2> DEFINE t == AddBalance(BankCredit(CalledOf(db), b), b, 1)
             p == AddBalance(db, b, 1)
             y == [Loaded(db, b) EXCEPT !.bal = Loaded(db, b).bal + 1]
  <2>1. Precompile(t, <<>>) /\ phase = "run"
    BY <1>b DEF PrecompilePays, Called, CalledOf, Precompile, Room
  <2>2. base \in Store /\ Chain(db) /\ WholeBut(base, db, {}) /\ db \in Db
    BY <2>1, CallInv DEF Chain
  <2>0. t = AddBalance(BankCredit(CalledOf(db), b), b, 1)
    OBVIOUS
  <2> HIDE DEF t
  <2>3. /\ Goes(db, t) /\ t \in Db
        /\ t.objs = Paid(db, b) /\ t.refund = db.refund /\ t.logs = db.logs
        /\ t.transient = db.transient /\ t.access = db.access
        /\ TopOf(base, t).native = TopOf(base, db).native
    BY <2>0, <2>2, PrecompilePaysIs DEF Goes
  <2>4. /\ Becomes(db, p, b, y) /\ y = WithBal(Loaded(db, b), Loaded(db, b).bal + 1)
        /\ Paid(db, b) = [db.objs EXCEPT ![b] = y]
    BY <2>2, AddBalanceIs DEF WithBal, Paid
  <2> HIDE DEF p, y
  <2>5. World!Precompile(ViewIn(base, p)) /\ View(db) = ViewIn(base, db)
    BY <2>1, <2>3, <2>4, PaymentWorld
  <2>6. ViewIn(base, p) = World!Credit(ViewIn(base, db), b, 1)
    BY <2>2, <2>4, CreditIsView
  <2> QED BY <1>b, <2>5, <2>6 DEF World!PrecompilePays
<1> QED BY <1>a, <1>b

\* So is what a precompile takes.
LEMMA TakesWorld ==
  ASSUME StateInv, NEW b \in Addr, PrecompileTakes(b)
  PROVE  World!PrecompileTakes(b)
<1> DEFINE F == Last(CalledOf(db).layers)
           w == View(db)
           x == Loaded(db, b)
<1>0. phase = "run" /\ F.acct[b] # NoAccount /\ \E s : Precompile(s, <<>>)
  BY DEF PrecompileTakes, Precompile, Room, Called, CalledOf
<1>1. base \in Store /\ Chain(db) /\ WholeBut(base, db, {}) /\ db \in Db
  BY <1>0, CallInv DEF Chain
<1>2. Get(db, b) # NoAccount /\ F.acct[b].bal = x.bal /\ F.acct[b].bal \in Nat
  BY <1>0, <1>1, FlushedBalance
<1> HIDE DEF F
<1>3. /\ w = ViewIn(base, db) /\ w.acct[b] # NoAccount /\ World!Touched(w, b) = w
      /\ w.native = TopOf(base, db).native /\ Top(db).native = TopOf(base, db).native
  <2>1. w = ViewIn(base, db) /\ w.acct[b] # NoAccount /\ World!Touched(w, b) = w
    BY <1>1, <1>2, GetSeen, ViewNow DEF w
  <2>2. ViewIn(base, db).native = TopOf(base, db).native
    BY DEF ViewIn
  <2> QED BY <2>1, <2>2, Names
<1> HIDE DEF w
<1>4. w.acct[b].bal = x.bal
  <2>1. \E t, y : Becomes(db, t, b, y)
    BY <1>1, GetOrNewBecomes
  <2> QED BY <1>1, <1>3, <2>1, FieldView
<1>a. CASE b \in Blocked
  <2>1. /\ Precompile(BankMove(CalledOf(db), b, -1), <<>>)
        /\ F.acct[b].bal + Top(db).native.paid[b] > 0
    BY <1>a DEF PrecompileTakes, Called, CalledOf, F
  <2>2. World!Precompile(World!BankMove(w, b, -1))
    BY <1>a, <2>1, MoveWorld DEF w
  <2>3. w.acct[b].bal + w.native.paid[b] > 0
    BY <1>2, <1>3, <1>4, <2>1
  <2> QED BY <1>a, <1>3, <2>2, <2>3 DEF w, World!PrecompileTakes
<1>b. CASE b \notin Blocked
  <2> DEFINE t == SubBalance(BankDebit(CalledOf(db), b), b, 1)
             p == SubBalance(db, b, 1)
             m == x.bal - 1
             y == [x EXCEPT !.bal = x.bal - 1]
  <2>1. Precompile(t, <<>>) /\ F.acct[b].bal > 0
    BY <1>b DEF PrecompileTakes, Called, CalledOf, F
  <2>0. t = SubBalance(BankDebit(CalledOf(db), b), b, 1)
    OBVIOUS
  <2> HIDE DEF t
  <2>3. /\ Goes(db, t) /\ t \in Db
        /\ t.objs = Taken(db, b) /\ t.refund = db.refund /\ t.logs = db.logs
        /\ t.transient = db.transient /\ t.access = db.access
        /\ TopOf(base, t).native = TopOf(base, db).native /\ 1 <= x.bal
    BY <1>0, <1>1, <2>0, <2>1, PrecompileTakesIs DEF Goes, F
  <2>4. /\ Becomes(db, p, b, y) /\ y = WithBal(x, m) /\ Taken(db, b) = [db.objs EXCEPT ![b] = y]
    BY <1>1, <2>3, SubBalanceIs DEF WithBal, Taken
  <2>5. m \in Nat
    BY <1>2, <2>3
  <2> HIDE DEF p, y, m
  <2>6. World!Precompile(ViewIn(base, p))
    BY <2>1, <2>3, <2>4, PaymentWorld
  <2>7. ViewIn(base, p) = WithAcct(w, b, WithBal(w.acct[b], m))
    BY <1>1, <1>3, <2>4, <2>5, FieldView
  <2>8. m = w.acct[b].bal - 1 /\ w.acct[b].bal > 0
    BY <1>2, <1>4, <2>3 DEF m
  <2>9. [w EXCEPT !.acct[b].bal = @ - 1] = WithAcct(w, b, WithBal(w.acct[b], m))
    BY <2>8 DEF WithAcct, WithBal
  <2> QED BY <1>b, <1>3, <2>6, <2>7, <2>8, <2>9 DEF w, World!PrecompileTakes
<1> QED BY <1>a, <1>b

\* A precompile that calls back into the EVM is one step of the world.
LEMMA ConvertsWorld ==
  ASSUME StateInv, NEW a \in Addr, NEW v \in Val, PrecompileConverts(a, v)
  PROVE  World!PrecompileConverts(a, v)
<1> DEFINE t == NativeWrite(FlushToCacheCtx(WriteState(CalledOf(db), a, v)), v)
           M == Len(CalledOf(db).journal)
           p == WriteState(db, a, v)
           x == Loaded(db, a)
           y == IF SlotOf(base, a, x) = v THEN x ELSE [x EXCEPT !.slot = v]
           w == View(db)
           n == Stated(TopOf(base, db).native, v)
<1>1. Precompile(t, <<Rev(next + 1, M)>>) /\ phase = "run" /\ Get(db, a) # NoAccount
  BY DEF PrecompileConverts, Called, CalledOf, Precompile, Room, Revision, Rev
<1>2. base \in Store /\ Chain(db) /\ WholeBut(base, db, {})
  BY <1>1, CallInv
<1>0. t = NativeWrite(FlushToCacheCtx(WriteState(CalledOf(db), a, v)), v)
  OBVIOUS
<1> HIDE DEF t
<1>3. /\ Goes(db, t) /\ M = Len(db.journal) + 1 /\ Len(db.journal) + 1 <= Len(t.journal)
      /\ t \in Db /\ t.objs = StoredObjs(db, a, v) /\ t.refund = db.refund
      /\ t.logs = db.logs /\ t.transient = db.transient /\ t.access = db.access
      /\ TopOf(base, t).native = n
  BY <1>0, <1>1, <1>2, PrecompileConvertsIs DEF Goes
<1>4. db \in Db /\ Len(db.journal) \in Nat
  BY <1>2, JournalFacts DEF Chain
<1>5. M \in Nat /\ Len(db.journal) <= M /\ M <= Len(t.journal)
  BY <1>3, <1>4
<1>6. /\ Becomes(db, p, a, y)
      /\ y = (IF SlotOf(base, a, x) = v THEN x ELSE WithStored(x, v))
      /\ StoredObjs(db, a, v) = [db.objs EXCEPT ![a] = y]
  BY <1>2, WriteStateIs DEF WithStored, StoredObjs
<1> HIDE DEF M, p, y, w, n
<1>7. StateInv' /\ Kept
  BY <1>1, <1>3, <1>5, CallInv
<1>8. w = ViewIn(base, db) /\ w.acct[a] # NoAccount /\ World!Touched(w, a) = w
  BY <1>1, <1>2, <1>4, GetSeen, ViewNow DEF w
<1>9. ViewIn(base, p) = WithAcct(w, a, WithStored(w.acct[a], v))
  BY <1>2, <1>4, <1>6, <1>8, FieldView
<1>10. /\ p \in Db /\ t.objs = p.objs /\ t.refund = p.refund /\ t.logs = p.logs
       /\ t.transient = p.transient /\ t.access = p.access
  BY <1>3, <1>6 DEF Becomes, SideEq
<1>11. ViewIn(base, t) = [ViewIn(base, p) EXCEPT !.native = n]
  BY <1>2, <1>3, <1>10, NativeView
<1>12. World!Precompile(ViewIn(base, t))
  BY <1>1, <1>7, CallWorld
<1>13. ViewIn(base, t) = [w EXCEPT !.acct[a].slot = v, !.native = n]
  BY <1>9, <1>11 DEF WithAcct, WithStored
<1>14. w.native = TopOf(base, db).native
  BY <1>8 DEF ViewIn
<1>15. [w EXCEPT !.acct[a].slot = v, !.native.state = v] =
         [w EXCEPT !.acct[a].slot = v, !.native = n]
  BY <1>14 DEF n, Stated
<1> QED BY <1>8, <1>12, <1>13, <1>15 DEF w, World!PrecompileConverts

\* A call that fails is no step of the world.
LEMMA FailsWorld ==
  ASSUME StateInv, PrecompileFails
  PROVE  UNCHANGED World!vars
<1>1. /\ phase = "run" /\ next' = next + 1 /\ UNCHANGED <<valid, frames, seen, base, phase, tx>>
      /\ calls' = (calls + 1) % CounterSize
      /\ db' = UndoTo(IF OverLimit THEN Enter(db) ELSE Called, Len(db.journal))
  BY DEF PrecompileFails, Room
<1> DEFINE c == IF OverLimit THEN Enter(db) ELSE Called
<1>2. c \in {Enter(db), CalledOf(db)} /\ db' = UndoTo(c, Len(db.journal))
  BY <1>1 DEF Called, CalledOf
<1> HIDE DEF c
<1>3. base \in Store /\ Chain(db) /\ WholeBut(base, db, {}) /\ next \in Nat
  BY <1>1 DEF StateInv, Running
<1>4. Goes(db, db') /\ Sim(base, db, db')
  BY <1>2, <1>3, PrecompileFailsIs DEF Goes
<1>5. calls' \in 0..(CounterSize - 1)
  BY <1>1, StateDBAssumption DEF StateInv
<1>6. next' \in Nat /\ next <= next'
  BY <1>1, <1>3
<1>7. StateInv' /\ Kept
  BY <1>1, <1>4, <1>5, <1>6, ChangeInv
<1>8. View(db) = ViewIn(base, db) /\ View(db)' = ViewIn(base, db') /\ Saved' = Saved
  BY <1>1, <1>7, KeptWorlds
<1>9. ViewIn(base, db) = ViewIn(base, db')
  BY <1>3, <1>4, SimView
<1> QED BY <1>1, <1>8, <1>9 DEF World!vars

-----------------------------------------------------------------------------
(* Call frames.                                                            *)

\* A function on 1..n is a sequence of length n.
LEMMA ListSeq ==
  ASSUME NEW n \in Nat, NEW f, f = [i \in 1..n |-> f[i]]
  PROVE  f \in Seq({f[i] : i \in 1..n}) /\ Len(f) = n
<1> DEFINE S == {f[i] : i \in 1..n}
<1>1. f \in [1..n -> S]
  OBVIOUS
<1> HIDE DEF S
<1>2. f \in Seq(S) /\ Len(f) = n
  BY <1>1
<1> QED BY <1>2 DEF S

\* A list that agrees with another and is one longer is that one appended to.
LEMMA ListAppend ==
  ASSUME NEW n \in Nat, NEW f, f = [i \in 1..n |-> f[i]],
         NEW g, g = [i \in 1..(n + 1) |-> g[i]], \A i \in 1..n : g[i] = f[i]
  PROVE  g = Append(f, g[n + 1])
<1> DEFINE S == {g[i] : i \in 1..(n + 1)}
           h == Append(f, g[n + 1])
<1>1. f \in [1..n -> S] /\ g \in [1..(n + 1) -> S] /\ g[n + 1] \in S
  OBVIOUS
<1> HIDE DEF S
<1>2. f \in Seq(S) /\ Len(f) = n /\ g \in Seq(S) /\ Len(g) = n + 1
  BY <1>1
<1>3. h \in Seq(S) /\ Len(h) = n + 1 /\ h[n + 1] = g[n + 1] /\ \A i \in 1..n : h[i] = f[i]
  BY <1>1, <1>2
<1> HIDE DEF h
<1>4. ASSUME NEW i \in 1..(n + 1) PROVE g[i] = h[i]
  <2>1. CASE i = n + 1
    BY <1>3, <2>1
  <2>2. CASE i \in 1..n
    <3>1. h[i] = f[i] /\ g[i] = f[i]
      BY <1>3, <2>2
    <3> QED BY <3>1
  <2> QED BY <2>1, <2>2
<1> QED BY <1>2, <1>3, <1>4, SeqEqual DEF h

\* A list that agrees with another and is one shorter is its front.
LEMMA ListFront ==
  ASSUME NEW n \in Nat \ {0}, NEW f, f = [i \in 1..n |-> f[i]],
         NEW g, g = [i \in 1..(n - 1) |-> g[i]], \A i \in 1..(n - 1) : g[i] = f[i]
  PROVE  g = SubSeq(f, 1, Len(f) - 1) /\ Len(f) = n /\ f # <<>>
<1>1. f \in Seq({f[i] : i \in 1..n}) /\ Len(f) = n
  BY ListSeq
<1>2. SubSeq(f, 1, n - 1) = [i \in 1..(n - 1) |-> f[i]]
  BY <1>1
<1>3. g = [i \in 1..(n - 1) |-> f[i]]
  OBVIOUS
<1> QED BY <1>1, <1>2, <1>3

\* The saved states as a list over the open frames.
LEMMA SavedList ==
  ASSUME NEW B, NEW s, NEW vs, NEW fs, NEW f, f = SavedIn(B, s, vs, fs)
  PROVE  /\ f = [i \in 1..Len(fs) |-> f[i]]
         /\ \A i \in 1..Len(fs) : f[i] = ViewIn(B, FrameOf(s, vs, fs, i))
BY DEF SavedIn

\* Snapshot saves what is seen.
LEMMA SnapshotWorld ==
  ASSUME StateInv, Snapshot
  PROVE  World!Snapshot
<1> DEFINE us == Append(valid, Rev(next, Len(db.journal)))
           gs == Append(frames, next)
           f == SavedIn(base, db, valid, frames)
           g == SavedIn(base, db, us, gs)
           n == Len(frames)
<1>1. /\ phase = "run" /\ valid' = us /\ frames' = gs
      /\ UNCHANGED <<db, seen, base, phase>>
  BY DEF Snapshot, Room, Revision, Rev
<1>2. StateInv'
  BY SnapshotInv
<1>3. base \in Store /\ next \in Nat /\ Running(base, db, valid, next, frames) /\ db \in Db
  BY <1>1 DEF StateInv, Chain
<1>4. \A i \in 1..Len(frames) : frames[i] < next
  BY <1>1, FramesBelow
<1>5. Saved = f /\ Saved' = g
  BY <1>1, <1>2, SavedNow, SavedNext
<1> HIDE DEF us, gs, f, g, n
<1>6. /\ Len(gs) = n + 1 /\ n \in Nat /\ FrameOf(db, us, gs, n + 1) = db
      /\ \A i \in 1..n : FrameOf(db, us, gs, i) = FrameOf(db, valid, frames, i)
  <2>1. us = Append(valid, Rev(next, Len(db.journal))) /\ gs = Append(frames, next)
    BY DEF us, gs
  <2>2. FrameOpens(db, us, gs, valid, frames)
    BY <1>3, <1>4, <2>1, OpenRunning
  <2> QED BY <2>2 DEF n, FrameOpens
<1>7. /\ f = [i \in 1..n |-> f[i]]
      /\ \A i \in 1..n : f[i] = ViewIn(base, FrameOf(db, valid, frames, i))
  BY SavedList DEF f, n
<1>8. /\ g = [i \in 1..(n + 1) |-> g[i]]
      /\ \A i \in 1..(n + 1) : g[i] = ViewIn(base, FrameOf(db, us, gs, i))
  BY <1>6, SavedList DEF g
<1>9. g[n + 1] = ViewIn(base, db) /\ \A i \in 1..n : g[i] = f[i]
  BY <1>6, <1>7, <1>8
<1>10. g = Append(f, ViewIn(base, db))
  BY <1>6, <1>7, <1>8, <1>9, ListAppend
<1>11. View(db) = ViewIn(base, db) /\ View(db)' = ViewIn(base', db')
  BY <1>1, <1>3, ViewNow, ViewNext
<1> QED BY <1>1, <1>5, <1>10, <1>11 DEF World!Snapshot

\* The list of saved worlds when the last frame closes.
LEMMA CloseWorlds ==
  ASSUME StateInv, StateInv', phase = "run", frames # <<>>, frames' = Front(frames),
         UNCHANGED <<base, phase>>,
         \A i \in 1..(Len(frames) - 1) :
           ViewIn(base, FrameOf(db', valid', Front(frames), i))
             = ViewIn(base, FrameOf(db, valid, frames, i))
  PROVE  /\ Saved # <<>> /\ Saved' = SubSeq(Saved, 1, Len(Saved) - 1)
         /\ Saved[Len(Saved)] = ViewIn(base, FrameOf(db, valid, frames, Len(frames)))
         /\ View(db) = ViewIn(base, db) /\ View(db)' = ViewIn(base, db')
<1> DEFINE f == SavedIn(base, db, valid, frames)
           g == SavedIn(base, db', valid', Front(frames))
           n == Len(frames)
<1>1. base \in Store /\ OfFrames(frames, valid) /\ db \in Db /\ db' \in Db
  BY DEF StateInv, Running, Chain
<1>2. n \in Nat \ {0} /\ Len(Front(frames)) = n - 1 /\ n \in 1..n
  <2>1. frames # <<>>
    OBVIOUS
  <2>2. Len(Front(frames)) = Len(frames) - 1 /\ Len(frames) \in 1..Len(frames) /\ Len(frames) \in Nat
    BY ONLY <1>1, <2>1, CloseFrames
  <2> QED BY <2>2
<1>3. Saved = f /\ Saved' = g
  BY SavedNow, SavedNext
<1> HIDE DEF f, g, n
<1>4. /\ f = [i \in 1..n |-> f[i]]
      /\ \A i \in 1..n : f[i] = ViewIn(base, FrameOf(db, valid, frames, i))
  BY SavedList DEF f, n
<1>5. /\ g = [i \in 1..(n - 1) |-> g[i]]
      /\ \A i \in 1..(n - 1) : g[i] = ViewIn(base, FrameOf(db', valid', Front(frames), i))
  BY <1>2, SavedList DEF g
<1>6. \A i \in 1..(n - 1) : g[i] = f[i]
  <2>1. ASSUME NEW i \in 1..(n - 1) PROVE g[i] = f[i]
    <3>1. i \in 1..n /\ i \in 1..(Len(frames) - 1)
      BY <1>2 DEF n
    <3> QED BY <1>4, <1>5, <3>1
  <2> QED BY <2>1
<1>7. g = SubSeq(f, 1, Len(f) - 1) /\ Len(f) = n /\ f # <<>>
  BY ONLY <1>2, <1>4, <1>5, <1>6, ListFront
<1>8. f[n] = ViewIn(base, FrameOf(db, valid, frames, n))
  BY <1>2, <1>4
<1>9. View(db) = ViewIn(base, db) /\ View(db)' = ViewIn(base', db')
  BY <1>1, ViewNow, ViewNext
<1> QED BY <1>3, <1>7, <1>8, <1>9 DEF n

\* A frame that returns drops the newest saved state.
LEMMA ReturnWorld ==
  ASSUME StateInv, Return
  PROVE  World!Return
<1>1. /\ phase = "run" /\ frames # <<>> /\ frames' = Front(frames)
      /\ UNCHANGED <<db, valid, seen, base, phase>>
  BY DEF Return
<1>2. StateInv'
  BY ReturnInv
<1>3. Running(base, db, valid, next, frames)
  BY <1>1 DEF StateInv
<1>4. \A i \in 1..(Len(frames) - 1) :
        FrameOf(db, valid, Front(frames), i) = FrameOf(db, valid, frames, i)
  <2>1. FrameReturns(db, valid, frames)
    BY <1>1, <1>3, ReturnRunning
  <2> QED BY <2>1 DEF FrameReturns
<1>5. /\ Saved # <<>> /\ Saved' = SubSeq(Saved, 1, Len(Saved) - 1)
      /\ View(db) = ViewIn(base, db) /\ View(db)' = ViewIn(base, db')
  BY <1>1, <1>2, <1>4, CloseWorlds
<1> QED BY <1>1, <1>5 DEF World!Return, World!Close

\* RevertToSnapshot restores the newest saved state: nothing the reverted frame did is seen, in
\* the objects, the native stores or the access list.
LEMMA RevertWorld ==
  ASSUME StateInv, RevertToSnapshot
  PROVE  World!Revert
<1> DEFINE j == Position(valid, Last(frames))
<1>1. /\ phase = "run" /\ frames # <<>> /\ frames' = Front(frames)
      /\ db' = UndoTo(db, valid[j].index) /\ valid' = SubSeq(valid, 1, j - 1)
      /\ UNCHANGED <<seen, base, phase>>
  BY SearchIs DEF RevertToSnapshot
<1> HIDE DEF j
<1>2. StateInv'
  BY RevertInv
<1>3. Running(base, db, valid, next, frames) /\ base \in Store /\ next \in Nat
  BY <1>1 DEF StateInv
<1>4. /\ db' = FrameOf(db, valid, frames, Len(frames))
      /\ \A i \in 1..(Len(frames) - 1) :
           Sim(base, FrameOf(db, valid, frames, i), FrameOf(db', valid', Front(frames), i))
  <2>1. frames # <<>> /\ j = Position(valid, Last(frames))
    BY <1>1 DEF j
  <2>2. FrameReverts(base, db, valid, frames, db', valid')
    BY <1>1, <1>3, <2>1, RevertRunning
  <2> QED BY <2>2 DEF FrameReverts
<1>5. \A i \in 1..(Len(frames) - 1) :
        ViewIn(base, FrameOf(db', valid', Front(frames), i))
          = ViewIn(base, FrameOf(db, valid, frames, i))
  BY <1>3, <1>4, SimView
<1>6. /\ Saved # <<>> /\ Saved' = SubSeq(Saved, 1, Len(Saved) - 1)
      /\ Saved[Len(Saved)] = ViewIn(base, FrameOf(db, valid, frames, Len(frames)))
      /\ View(db)' = ViewIn(base, db')
  BY <1>1, <1>2, <1>5, CloseWorlds
<1> QED BY <1>1, <1>4, <1>6 DEF World!Revert, World!Close

-----------------------------------------------------------------------------
(* The end and the start of a transaction.                                 *)

\* Commit is the world's commit: what was seen is written, or the commit fails.
LEMMA CommitWorld ==
  ASSUME StateInv, Commit
  PROVE  World!Commit
<1> DEFINE F == Flushed(db, TopOf(base, db))
           w == View(db)
<1>1. phase = "run" /\ WholeBut(base, db, {}) /\ base \in Store /\ db \in Db
  BY DEF StateInv, Commit, Running, Chain
<1>2. /\ frames' = <<>> /\ UNCHANGED <<db, seen>>
      /\ \/ base' = F /\ phase' = "done"
         \/ ~CanFlush(db, Top(db)) /\ phase' = "failed" /\ UNCHANGED base
  BY Names DEF Commit
<1>3. F \in Store /\ ViewIn(F, db) = ViewIn(base, db)
  BY <1>1, CommitView
<1>4. World!Settled(ViewIn(base, db)) = F
  BY <1>1, SettledIs
<1> HIDE DEF F
<1>5. View(db)' = ViewIn(base', db') /\ View(db) = ViewIn(base, db)
  BY <1>1, <1>2, <1>3, ViewNow, ViewNext
<1>6. View(db)' = View(db) /\ Saved' = <<>>
  BY <1>2, <1>3, <1>5, SavedNext
<1>7. CASE base' = F /\ phase' = "done"
  BY <1>1, <1>2, <1>4, <1>5, <1>6, <1>7 DEF World!Commit
<1>8. CASE ~CanFlush(db, Top(db)) /\ phase' = "failed" /\ UNCHANGED base
  <2>1. PICK a \in Dirty(db) : db.objs[a].dead \/ a \in Module
    BY <1>8 DEF CanFlush
  <2>2. a \in Addr /\ db.objs[a] # NoAccount
    BY <1>1, <2>1 DEF WholeBut, Sound, Dirty
  <2>3. db.objs[a] \in Object
    BY <1>1, <2>2, DbFields
  <2>0. w = ViewIn(base, db)
    BY <1>5
  <2> HIDE DEF w
  <2>4. w.acct[a] = SeenAs(base, a, db.objs[a])
    BY <1>1, <2>0, <2>2, ViewFields
  <2>5. w.acct[a] \in Object /\ (w.acct[a].dead \/ a \in Module)
    <3>1. SeenAs(base, a, db.objs[a]) \in Object
      BY <1>1, <2>2, <2>3, SeenType
    <3>2. SeenAs(base, a, db.objs[a]).dead = db.objs[a].dead
      BY <1>1, <2>2, <2>3, SeenType
    <3> QED BY <2>1, <2>4, <3>1, <3>2
  <2>6. w.acct[a] # NoAccount
    BY <2>5, ObjectFields
  <2>7. \E b \in Addr : View(db).acct[b] # NoAccount /\ (View(db).acct[b].dead \/ b \in Module)
    BY <2>2, <2>5, <2>6 DEF w
  <2> QED BY <1>1, <1>2, <1>6, <1>8, <2>7 DEF World!Commit
<1> QED BY <1>2, <1>7, <1>8

\* Initial states map to initial states.
LEMMA InitWorld == Init => World!Init
<1> SUFFICES ASSUME Init PROVE World!Init
  OBVIOUS
<1>1. StateInv
  BY InitInv
<1>2. /\ db.objs = [a \in Addr |-> NoAccount] /\ db.refund = 0 /\ db.logs = 0
      /\ db.transient = [a \in Addr |-> 0] /\ db.layers = <<>>
      /\ frames = <<>> /\ phase = "run" /\ seen = base
  BY DEF Init
<1>3. base \in Store /\ db \in Db
  BY <1>1 DEF StateInv, Chain
<1> DEFINE w == View(db)
<1>4. w = ViewIn(base, db)
  BY <1>3, ViewNow
<1> HIDE DEF w
<1>5. ASSUME NEW a \in Addr PROVE SeenAs(base, a, NoAccount) = World!Opened(base.acct[a])
  <2>1. CASE base.acct[a] = NoAccount
    BY <2>1 DEF SeenAs, World!Opened
  <2>2. CASE base.acct[a] # NoAccount
    <3> DEFINE y == [Opening(base, a) EXCEPT !.slot = Held(base, a)]
    <3>1. /\ y \in Object /\ y.bal = base.acct[a].bal /\ y.code = base.acct[a].code
          /\ y.slot = Held(base, a) /\ ~y.dead /\ ~y.new
      BY <1>3, <2>2, OpeningFields
    <3>2. SeenAs(base, a, NoAccount) = y
      BY <2>2 DEF SeenAs
    <3> HIDE DEF y
    <3>3. y = [bal |-> base.acct[a].bal, code |-> base.acct[a].code, slot |-> base.acct[a].slot,
               dead |-> FALSE, new |-> FALSE]
      BY <2>2, <3>1 DEF Object, Held
    <3> QED BY <2>2, <3>2, <3>3 DEF World!Opened
  <2> QED BY <2>1, <2>2
<1>6. w = [acct |-> [a \in Addr |-> World!Opened(base.acct[a])], native |-> base.native,
           refund |-> 0, logs |-> 0, transient |-> [a \in Addr |-> 0],
           warm |-> Warmth(db.access)]
  BY <1>2, <1>4, <1>5 DEF ViewIn, TopOf
<1>7. Warmth(db.access) \in SUBSET (Addr \cup (Addr \X Slot))
  BY DEF Warmth
<1>8. w \in [acct : {[a \in Addr |-> World!Opened(base.acct[a])]},
             native : {base.native}, refund : {0}, logs : {0},
             transient : {[a \in Addr |-> 0]},
             warm : SUBSET (Addr \cup (Addr \X Slot))]
  BY <1>6, <1>7
<1>9. Saved = <<>>
  BY <1>2, SavedNone
<1> QED BY <1>2, <1>8, <1>9 DEF w, World!Init

\* Every step of the StateDB is a step of the world, or none.
LEMMA NextWorld ==
  ASSUME StateInv, [Next]_vars
  PROVE  [World!Next]_World!vars
<1>1. ASSUME NEW a \in Addr, NEW b \in Addr, NEW x \in {0, 1}, Transfer(a, b, x)
      PROVE  World!Next
  <2>1. World!Transfer(a, b, x)
    BY <1>1, TransferWorld
  <2> QED BY <2>1 DEF World!Next
<1>2. ASSUME NEW a \in Addr, Create(a) \/ SetCode(a) \/ SelfDestruct6780(a)
      PROVE  World!Next
  <2>1. World!Create(a) \/ World!SetCode(a) \/ World!SelfDestruct(a)
    BY <1>2, CreateWorld, SetCodeWorld, SelfDestructWorld
  <2> QED BY <2>1 DEF World!Next
<1>3. ASSUME NEW a \in Addr, NEW v \in Val, SetState(a, v) \/ SetTransientState(a, v)
      PROVE  World!Next
  <2>1. World!SetState(a, v) \/ World!SetTransient(a, v)
    BY <1>3, SetStateWorld, SetTransientWorld
  <2> QED BY <2>1 DEF World!Next
<1>4. ASSUME AddRefund(1) \/ SubRefund(1) PROVE World!Next
  <2>1. db.refund \in Nat
    BY DbFields DEF StateInv, Chain
  <2>2. PICK r \in 0..(db.refund + 1) : Refund(r)
    BY <1>4, <2>1 DEF AddRefund, SubRefund
  <2>3. r \in Nat
    BY <2>1, <2>2
  <2>4. World!SetRefund(r) /\ View(db).refund = db.refund
    BY <2>2, <2>3, RefundWorld
  <2>5. \E k \in 0..(View(db).refund + 1) : World!SetRefund(k)
    BY <2>2, <2>4
  <2> QED BY <2>5 DEF World!Next
<1>5. ASSUME AddLog PROVE World!Next
  BY <1>5, AddLogWorld DEF World!Next
<1>6. ASSUME NEW a \in Addr, AddAddressToAccessList(a) PROVE World!Next
  <2> DEFINE t == AddAddress(db, a)
  <2>1. Change("side", t)
    BY <1>6 DEF AddAddressToAccessList
  <2>2. Lists(base, db, t, t.access) /\ Warmth(t.access) = Warmth(db.access) \cup {a}
    BY <2>1, ChangeStart, AddAddressIs
  <2> HIDE DEF t
  <2>3. World!Warm({a})
    BY <2>1, <2>2, WarmWorld
  <2> QED BY <2>3 DEF World!Next
<1>7. ASSUME NEW a \in Addr, NEW k \in Slot, AddSlotToAccessList(a, k) PROVE World!Next
  <2> DEFINE t == AddSlot(db, a, k)
  <2>1. Change("side", t)
    BY <1>7 DEF AddSlotToAccessList
  <2>2. Lists(base, db, t, t.access) /\ Warmth(t.access) = Warmth(db.access) \cup {a, <<a, k>>}
    BY <2>1, ChangeStart, AddSlotIs
  <2> HIDE DEF t
  <2>3. World!Warm({a, <<a, k>>})
    BY <2>1, <2>2, WarmWorld
  <2> QED BY <2>3 DEF World!Next
<1>8. ASSUME Snapshot \/ Return \/ RevertToSnapshot PROVE World!Next
  <2>1. World!Snapshot \/ World!Return \/ World!Revert
    BY <1>8, SnapshotWorld, ReturnWorld, RevertWorld
  <2> QED BY <2>1 DEF World!Next
<1>9. ASSUME NEW v \in Val, PrecompileWrites(v) PROVE World!Next
  <2>1. World!PrecompileWrites(v)
    BY <1>9, WritesWorld
  <2> QED BY <2>1 DEF World!Next
<1>10. ASSUME NEW b \in Addr, PrecompilePays(b) PROVE World!Next
  <2>1. World!PrecompilePays(b)
    BY <1>10, PaysWorld
  <2> QED BY <2>1 DEF World!Next
<1>10a. ASSUME NEW b \in Addr, PrecompileTakes(b) PROVE World!Next
  <2>1. World!PrecompileTakes(b)
    BY <1>10a, TakesWorld
  <2> QED BY <2>1 DEF World!Next
<1>11. ASSUME NEW a \in Addr, NEW v \in Val, PrecompileConverts(a, v) PROVE World!Next
  <2>1. World!PrecompileConverts(a, v)
    BY <1>11, ConvertsWorld
  <2> QED BY <2>1 DEF World!Next
<1>12. ASSUME PrecompileFails PROVE UNCHANGED World!vars
  BY <1>12, FailsWorld
<1>13. ASSUME Commit PROVE World!Next
  BY <1>13, CommitWorld DEF World!Next
<1>14. ASSUME UNCHANGED vars PROVE UNCHANGED World!vars
  <2>1. UNCHANGED <<db, valid, frames, seen, base, phase>> /\ StateInv'
    BY <1>14, NextInv DEF vars
  <2>2. base \in Store /\ db \in Db /\ (phase # "run" => frames = <<>>)
    BY DEF StateInv, Chain
  <2>3. View(db) = ViewIn(base, db) /\ View(db)' = ViewIn(base', db')
    BY <2>1, <2>2, ViewNow, ViewNext
  <2>4. Saved' = Saved
    BY <2>1, <2>2, SavedNow, SavedNext, SavedNone
  <2> QED BY <2>1, <2>3, <2>4 DEF World!vars
<1>15. tx.whom \subseteq Addr
  BY StateDBAssumption DEF StateInv
<1> QED BY <1>1, <1>2, <1>3, <1>4, <1>5, <1>6, <1>7, <1>8, <1>9, <1>10, <1>10a, <1>11, <1>12,
           <1>13, <1>14, <1>15 DEF Next

\* Every behaviour of the journalled StateDB is one of the world it stands
\* for, for any number of accounts, slots, values, frames and journal entries:
\* a revert brings back exactly the world its frame started from although no
\* copy of it was kept, a precompile sees exactly what the EVM wrote before
\* it, what it pays or takes is counted once whether or not the balance
\* handler passes it on, and a commit writes that world or nothing.
THEOREM StateDBImplementsWorld == Spec => ImplementsWorld
<1>1. Init => World!Init
  BY InitWorld
<1>2. StateInv /\ [Next]_vars => [World!Next]_World!vars
  BY NextWorld
<1> QED BY <1>1, <1>2, StateDBInvariance, PTL DEF Spec, ImplementsWorld, World!Spec
=============================================================================
