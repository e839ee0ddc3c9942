----------------------------- MODULE BlockTree -----------------------------
(***************************************************************************)
(* The blocks the frontier is offered, as data.  A block is a model value; *)
(* what the frontier reads of it are its parent hash, its blockchain       *)
(* length, whether applying it emitted a ledger proof, and the protocol    *)
(* states that the transactions left in its scan state refer to.           *)
(* Everything here is fixed by the block itself, so all of it is constant. *)
(***************************************************************************)
EXTENDS Integers

CONSTANTS
    Blocks,          \* the blocks that can be offered (identified with their state hash)
    Genesis,         \* the genesis block
    Parent,          \* Breadcrumb.parent_hash
    Height,          \* Consensus_state.blockchain_length
    EmitsProof,      \* the blocks with Breadcrumb.just_emitted_a_proof
    RequiredStates   \* Staged_ledger.Scan_state.required_state_hashes

\* blockchain_length is one more than the parent's (Consensus_state.update), so
\* the parent relation has no cycle.  A block only puts transactions into the
\* scan state that refer to its parent's protocol state, and only a proof takes
\* some out.
ASSUME BlockTreeAssumption ==
    /\ Genesis \in Blocks
    /\ Parent \in [Blocks \ {Genesis} -> Blocks]
    /\ Height \in [Blocks -> Nat]
    /\ \A b \in Blocks \ {Genesis} : Height[b] = Height[Parent[b]] + 1
    /\ EmitsProof \subseteq Blocks \ {Genesis}
    /\ RequiredStates \in [Blocks -> SUBSET Blocks]
    /\ \A b \in Blocks \ {Genesis} :
          RequiredStates[b] \subseteq RequiredStates[Parent[b]] \cup {Parent[b]}

\* A set that contains the parent of each of its blocks.
ParentClosed(S) == \A x \in S \ {Genesis} : Parent[x] \in S

\* The block itself and everything it is built on: the least parent-closed set
\* that contains it.  This is what the loops along parent hashes walk through.
AncestorsOf ==
    [b \in Blocks |->
        {a \in Blocks : \A S \in SUBSET Blocks : (b \in S /\ ParentClosed(S)) => a \in S}]

Ancestors(b) == AncestorsOf[b]

\* The snarked ledger a block's protocol state commits to, as the set of blocks
\* whose emitted proofs it contains (blockchain_state.snarked_ledger_hash).
SnarkedLedger(b) == Ancestors(b) \cap EmitsProof
=============================================================================
