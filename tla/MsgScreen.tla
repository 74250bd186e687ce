----------------------------- MODULE MsgScreen -----------------------------
(***************************************************************************)
(* The ante decorators that walk a transaction's message tree (the pre-    *)
(* signature authz screen, the authz limiter, the IBC and the chain-       *)
(* operations restrictions on custom tokens) and what happens to the       *)
(* messages they let through: run at once and taxed, or kept in a group or *)
(* gov proposal and run later, past the ante handler and the tax.          *)
(*                                                                         *)
(* A transaction is the sequence of its messages in preorder, each with    *)
(* the number of the message that wraps it (0: none).                      *)
(***************************************************************************)
EXTENDS Integers, Sequences, SequencesExt, FiniteSets

CONSTANTS
  Denom,                \* denominations tokens may be created with
  Native,
  Txs,                  \* the transactions users submit
  MaxAuthzUnwrapDepth,  \* 3 in the code
  ScreenMaxDepth,       \* AuthzPreSigScreenMaxDepth, 3 in the code
  maxNestedMsgs,        \* 7 in the code
  MaxStored             \* bound on the proposals kept

\* "exec": authz MsgExec.  "group", "gov": proposals.  "send": a bank transfer
\* between wallets.  "op": any other use of coins the chain-operations
\* restriction lists.  "transfer": IBC.  "create": MsgCreateToken.  "eth":
\* MsgEthereumTx.  "grant": authz MsgGrant of a disabled type.  "raw": a
\* wrapped MsgExec that was not decoded.
Wrappers == {"exec", "group", "gov"}
Proposals == {"group", "gov"}
Coins == {"send", "op", "transfer"}
OwnSignature == {"create", "eth"}   \* to be run on the signer's own authority only
AuthzDisabledMsgTypes == {"create", "eth"}
Types == Wrappers \cup Coins \cup OwnSignature \cup {"grant", "raw"}
Msg == [parent : Nat, type : Types, denom : Denom \cup {Native}]
\* Only a wrapper wraps, and a message follows the one that wraps it.
WellFormed(tx) ==
  \A i \in DOMAIN tx : LET p == tx[i].parent
                       IN  /\ p < i
                           /\ p # 0 => tx[p].type \in Wrappers
                           /\ tx[i].type = "raw" => p # 0

ASSUME ScreenAssumption ==
  /\ Native \notin Denom
  /\ \A tx \in Txs : tx \in Seq(Msg) /\ WellFormed(tx)
  /\ MaxAuthzUnwrapDepth \in Nat /\ ScreenMaxDepth \in Nat /\ maxNestedMsgs \in Nat
  /\ MaxStored \in Nat

VARIABLES
  tokens,   \* the denominations in the x/stoc registry
  stored,   \* proposals not yet run: the transaction, the proposal's place in it,
            \* and the registry the ante handler saw
  moved,    \* custom-token transfers that were carried out
  delegated \* history: the wrappers ("tx" for none) that ran a disabled type under
            \* MsgExec, or granted one

screenVars == <<tokens, stored, moved, delegated>>

-----------------------------------------------------------------------------
(* Places in the tree.                                                     *)

Under(tx, p) == {i \in DOMAIN tx : tx[i].parent = p}

\* The messages around a message, itself included.
Path(tx, i) ==
  LET up[k \in 0..Len(tx)] == IF k = 0 THEN {} ELSE {k} \cup up[tx[k].parent]
  IN  up[i]
Depth(tx, i) == Cardinality(Path(tx, i)) - 1
Around(tx, i) == Path(tx, i) \ {i}
Inside(tx, i, types) == \E k \in Around(tx, i) : tx[k].type \in types

\* What a recursive walk meets that starts with the list of the top and goes on
\* with the list inside each message of into it meets.
Met(tx, into) ==
  LET met[i \in 0..Len(tx)] ==
        i = 0 \/ (met[tx[i].parent] /\ (tx[i].parent = 0 \/ tx[i].parent \in into))
  IN  {i \in DOMAIN tx : met[i]}

\* authz's DispatchActions: what runs in one go with the children of p, with
\* nothing but MsgExec between them and at any depth.
RunsWith(tx, p) ==
  {i \in DOMAIN tx :
     /\ p = 0 \/ p \in Around(tx, i)
     /\ \A k \in Around(tx, i) : (p = 0 \/ k > p) => tx[k].type = "exec"}

-----------------------------------------------------------------------------
(* The walkers.  Each has its own rule on how deep it goes, and what it does *)
(* there: all but the screen refuse a wrapper they cannot unwrap, because it *)
(* is too deep or holds a message that was not decoded.                    *)

Decoded(tx, i) == \A j \in Under(tx, i) : tx[j].type # "raw"

\* AuthzPreSigScreenDecorator: MsgExec inside MsgExec, and silently no further
\* than its depth; grants at the top only.
ScreenInto(tx) == {i \in DOMAIN tx : tx[i].type = "exec" /\ Depth(tx, i) < ScreenMaxDepth}
AuthzPreSigScreen(tx) ==
  /\ \A i \in Met(tx, ScreenInto(tx)) \cap ScreenInto(tx) :
       \A j \in Under(tx, i) : tx[j].type \notin AuthzDisabledMsgTypes \cup {"raw"}
  /\ \A i \in Under(tx, 0) : tx[i].type # "grant"

\* AuthzLimiterDecorator.  nestedLvl counts the MsgExec around a message and
\* those before them in the same list: the level of the list inside message i.
nestedLvl(tx, i) ==
  LET lvl[k \in 0..Len(tx)] ==
        IF k = 0 THEN 1
        ELSE lvl[tx[k].parent] + Cardinality({j \in Under(tx, tx[k].parent) :
                                                j <= k /\ tx[j].type = "exec"})
  IN  lvl[i]
LimiterInto(tx) == {i \in DOMAIN tx : tx[i].type = "exec" /\ nestedLvl(tx, i) < maxNestedMsgs}
AuthzLimiterTopGrants(tx) ==
  /\ 1 < maxNestedMsgs
  /\ \A i \in Met(tx, LimiterInto(tx)) :
       /\ tx[i].type = "exec" => nestedLvl(tx, i) < maxNestedMsgs /\ Decoded(tx, i)
       /\ tx[i].type = "grant" => tx[i].parent # 0
       /\ tx[i].type \in AuthzDisabledMsgTypes => tx[i].parent = 0
AuthzLimiter(tx) ==
  /\ 1 < maxNestedMsgs
  /\ \A i \in Met(tx, LimiterInto(tx)) :
       /\ tx[i].type = "exec" => nestedLvl(tx, i) < maxNestedMsgs /\ Decoded(tx, i)
       /\ tx[i].type # "grant"
       /\ tx[i].type \in AuthzDisabledMsgTypes => tx[i].parent = 0

\* The two custom-token restrictions go into MsgExec and proposals alike.
UnwrapInto(tx) ==
  {i \in DOMAIN tx : tx[i].type \in Wrappers /\ Depth(tx, i) < MaxAuthzUnwrapDepth}
Unwrappable(tx, i) == Depth(tx, i) < MaxAuthzUnwrapDepth /\ Decoded(tx, i)

\* IBCCustomTokenRestriction: by denomination only.
IBCRestriction(tx) ==
  \A i \in Met(tx, UnwrapInto(tx)) :
    /\ tx[i].type \in Wrappers => Unwrappable(tx, i)
    /\ tx[i].type = "transfer" => tx[i].denom \notin tokens

\* CustomTokenChainOpsRestriction: a bank transfer only inside a proposal
\* (insideProposalWrapper, kept through MsgExec).
ChainOpsFlagLost(tx) ==
  \A i \in Met(tx, UnwrapInto(tx)) :
    /\ tx[i].type \in Wrappers => Unwrappable(tx, i)
    /\ tx[i].type = "op" => tx[i].denom \notin tokens
    /\ tx[i].type = "send" /\ tx[i].parent # 0 /\ tx[tx[i].parent].type \in Proposals =>
         tx[i].denom \notin tokens
ChainOpsRestriction(tx) ==
  \A i \in Met(tx, UnwrapInto(tx)) :
    /\ tx[i].type \in Wrappers => Unwrappable(tx, i)
    /\ tx[i].type = "op" => tx[i].denom \notin tokens
    /\ tx[i].type = "send" /\ Inside(tx, i, Proposals) => tx[i].denom \notin tokens

\* RejectMessagesDecorator first, the others in the order of the chain.
Ante(tx) ==
  /\ \A i \in Under(tx, 0) : tx[i].type # "eth"
  /\ AuthzPreSigScreen(tx) /\ AuthzLimiter(tx)
  /\ IBCRestriction(tx) /\ ChainOpsRestriction(tx)

-----------------------------------------------------------------------------
(* Running messages.                                                       *)

\* The tax PostHandler (applyTaxesForMsgs) taxes the transfers it meets on a walk
\* of its own, into MsgExec and nothing else, and fails where that is too deep.
TaxIntoTop(tx) == {i \in Under(tx, 0) : tx[i].type = "exec"}
TaxInto(tx) == {i \in DOMAIN tx : tx[i].type = "exec" /\ Depth(tx, i) < MaxAuthzUnwrapDepth}
Taxed(tx) == {i \in Met(tx, TaxInto(tx)) : tx[i].type = "send"}
TaxFails(tx) ==
  \E i \in Met(tx, TaxInto(tx)) :
    tx[i].type = "exec" /\ (Depth(tx, i) >= MaxAuthzUnwrapDepth \/ ~Decoded(tx, i))

\* The bank's send restrictions refuse a custom token to or from a module,
\* vesting or escrow account.  What a gov proposal sends is gov's own.
Restricted(by) == by = "gov"

\* One message, on the state st; by is the wrapper that runs it ("tx" for
\* none), seen the registry at the ante handler.
Step(st, tx, i, by, seen) ==
  LET m == tx[i]
      custom == m.denom \in st.tokens
  IN  CASE m.type = "create" -> [st EXCEPT !.tokens = @ \cup {m.denom}]
        [] m.type = "send" /\ custom /\ ~Restricted(by) ->
             [st EXCEPT !.moved = @ \cup {[denom |-> m.denom, by |-> by,
                                           known |-> m.denom \in seen,
                                           taxed |-> by = "tx" /\ i \in Taxed(tx)]}]
        [] m.type \in Coins /\ custom -> [st EXCEPT !.ok = FALSE]
        [] m.type \in Proposals ->
             [st EXCEPT !.stored = @ \cup {[tx |-> tx, at |-> i, seen |-> seen]}]
        [] OTHER -> st

\* The messages that run with the children of p, in order, until one fails.
Run(tx, p, by, seen) ==
  LET runs == RunsWith(tx, p)
      start == [tokens |-> tokens, stored |-> stored, moved |-> moved, ok |-> TRUE]
      st == FoldLeft(LAMBDA s, i : IF s.ok /\ i \in runs THEN Step(s, tx, i, by, seen) ELSE s,
                     start, [i \in 1..Len(tx) |-> i])
  IN  [st EXCEPT !.stored = @ \ {[tx |-> tx, at |-> p, seen |-> seen]}]

\* Among what runs with the children of p there is a message under MsgExec
\* although its type is disabled there, or a grant of such a type.
Delegates(tx, p) ==
  \E i \in RunsWith(tx, p) :
    tx[i].type = "grant" \/ (tx[i].type \in OwnSignature /\ tx[i].parent # p)

\* A transaction in a block: the ante handler, the messages, the PostHandler.
\* Any error undoes it.
Deliver(tx) ==
  /\ Ante(tx)
  /\ LET st == Run(tx, 0, "tx", tokens)
     IN  /\ st.ok /\ ~TaxFails(tx)
         /\ Cardinality(st.stored) <= MaxStored
         /\ tokens' = st.tokens /\ stored' = st.stored /\ moved' = st.moved
         /\ delegated' = delegated \cup {b \in {"tx"} : Delegates(tx, 0)}

\* A proposal is run by the message router: no ante handler, no PostHandler.
\* If one of its messages fails none is kept, and the proposal is done with.
ExecProposal(p) ==
  /\ p \in stored
  /\ LET by == p.tx[p.at].type
         st == Run(p.tx, p.at, by, p.seen)
     IN  IF st.ok
         THEN /\ Cardinality(st.stored) <= MaxStored
              /\ tokens' = st.tokens /\ stored' = st.stored /\ moved' = st.moved
              /\ delegated' = delegated \cup {b \in {by} : Delegates(p.tx, p.at)}
         ELSE stored' = stored \ {p} /\ UNCHANGED <<tokens, moved, delegated>>

ScreenInit == tokens = {} /\ stored = {} /\ moved = {} /\ delegated = {}
ScreenNext == (\E tx \in Txs : Deliver(tx)) \/ (\E p \in stored : ExecProposal(p))
ScreenSpec == ScreenInit /\ [][ScreenNext]_screenVars

-----------------------------------------------------------------------------
(* Properties.                                                             *)

\* What a transaction runs itself is taxed, however it is wrapped.  authz runs
\* nested MsgExec at any depth; the PostHandler walks the messages again with a
\* depth of its own, and either meets every transfer that was carried out or
\* fails the transaction.
DirectMovesTaxed == \A m \in moved : m.by = "tx" => m.taxed

\* A custom token that was registered when a proposal was submitted is never
\* moved by it, whatever lies between the proposal and the transfer: MsgExec
\* in a proposal, proposals in proposals, proposals stored by proposals.
KnownTokensStayTaxed == \A m \in moved : m.by # "tx" => ~m.known

\* "Every supply-changing event must be directly signed by the issuer": no
\* message of the disabled types is run under MsgExec, and none is granted, by
\* the messages a transaction runs itself, although the screen stops silently
\* at its depth, looks at grants only at the top and lets the limiter count
\* levels in its own way.  A proposal is the exception: none of the walks that
\* look for these types goes into it, and what it runs is not screened later.
OnlyProposalsDelegate == "tx" \notin delegated
=============================================================================
