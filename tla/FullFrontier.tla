---------------------------- MODULE FullFrontier ----------------------------
(***************************************************************************)
(* The in-memory transition frontier (transition_frontier/full_frontier):  *)
(* the tree of all blocks known since the last finalised one.  A block is  *)
(* added under its parent; when a path grows past max_length the root      *)
(* moves one block up and every fork that does not contain the new root is *)
(* thrown away; the best tip follows the consensus rule.                   *)
(*                                                                         *)
(* add_breadcrumb runs on one thread without a yield between calculating   *)
(* the diffs and applying them, so it is one action.                       *)
(***************************************************************************)
EXTENDS BlockTree, Sequences

CONSTANTS
    MaxLength,          \* max_length, the consensus parameter k
    Select(_, _)        \* Select(existing, candidate): Consensus.Hooks.select says `Take

ASSUME MaxLengthAssumption == MaxLength \in Nat \ {0}

ASSUME SelectAssumption == \A e, c \in Blocks : Select(e, c) \in BOOLEAN

VARIABLES
    root,               \* state hash of the root
    best_tip,           \* state hash of the best tip
    table,              \* state hash |-> node
    root_ledger,        \* the root snarked ledger the masks are chained on
    protocol_states     \* keys of protocol_states_for_root_scan_state

vars == <<root, best_tip, table, root_ledger, protocol_states>>

Node == [length : Nat, successor_hashes : SUBSET Blocks]

TypeOK ==
    /\ root \in Blocks
    /\ best_tip \in Blocks
    /\ DOMAIN table \subseteq Blocks
    /\ table \in [DOMAIN table -> Node]
    /\ root_ledger \subseteq Blocks
    /\ protocol_states \subseteq Blocks

-----------------------------------------------------------------------------
(* Reading the tree *)

\* A set of nodes that contains the successors of each of its nodes.
SuccessorClosed(S) == \A h \in S : table[h].successor_hashes \subseteq S

\* successor_hashes_rec, with the node itself: everything reached from it along
\* the stored successor lists.
Subtree(hash) ==
    {h \in DOMAIN table : \A S \in SUBSET DOMAIN table :
                              (hash \in S /\ SuccessorClosed(S)) => h \in S}

\* The first block of hash_path: the ancestor right above the root.
Heir(b) == CHOOSE h \in Ancestors(b) \ {Genesis} : Parent[h] = root

-----------------------------------------------------------------------------
(* Calculating the diffs of a new breadcrumb *)

NewNode(b) == [type |-> "New_node", block |-> b]

\* Faulty: only the direct successors of the root are thrown away.
RootTransitionedShallow(heir) ==
    [type |-> "Root_transitioned",
     new_root |-> heir,
     garbage |-> table[root].successor_hashes \ {heir},
     just_emitted_a_proof |-> heir \in EmitsProof]

RootTransitioned(heir) ==
    [type |-> "Root_transitioned",
     new_root |-> heir,
     garbage |-> UNION {Subtree(s) : s \in table[root].successor_hashes \ {heir}},
     just_emitted_a_proof |-> heir \in EmitsProof]

BestTipChanged(b) == [type |-> "Best_tip_changed", block |-> b]

\* Faulty: off by one in either direction.
OverflowsLate(b) == table[Parent[b]].length - table[root].length > MaxLength
OverflowsEarly(b) == table[Parent[b]].length + 1 - table[root].length >= MaxLength

\* The new breadcrumb makes a path longer than max_length.
Overflows(b) == table[Parent[b]].length + 1 - table[root].length > MaxLength

\* The diffs in the order in which they are applied.
CalculateDiffs(b) ==
    <<NewNode(b)>>
    \o (IF Overflows(b) THEN <<RootTransitioned(Heir(b))>> ELSE <<>>)
    \o (IF Select(best_tip, b) THEN <<BestTipChanged(b)>> ELSE <<>>)

-----------------------------------------------------------------------------
(* Applying them *)

\* Faulty: the length is counted down from the root.
TableWithNodeDown(b) ==
    [h \in DOMAIN table \cup {b} |->
        IF h = b
        THEN [length |-> table[Parent[b]].length - 1, successor_hashes |-> {}]
        ELSE table[h]]

\* New_node: a hash that is already in the table is only logged.
TableWithNode(b) ==
    IF b \in DOMAIN table THEN table
    ELSE [h \in DOMAIN table \cup {b} |->
            IF h = b
            THEN [length |-> table[Parent[b]].length + 1, successor_hashes |-> {}]
            ELSE IF h = Parent[b]
            THEN [table[h] EXCEPT !.successor_hashes = @ \cup {b}]
            ELSE table[h]]

Prune(tbl, removed) == [h \in DOMAIN tbl \ removed |-> tbl[h]]

\* Faulty: the old root is not among the candidates.
NextProtocolStatesOld(heir) == RequiredStates[heir] \cap protocol_states

\* protocol_states_for_next_root_scan_state: the ones the new root requires,
\* looked up among the old root's and the old root itself (find_exn).
NextProtocolStates(heir) == RequiredStates[heir] \cap (protocol_states \cup {root})

\* Faulty: the proof of the old root is looked at.
NextRootLedgerOld(heir) == IF root \in EmitsProof THEN root_ledger \cup {root} ELSE root_ledger

\* Steps 4-7 of move_root: apply the transactions of the emitted proof.
NextRootLedger(heir) == IF heir \in EmitsProof THEN root_ledger \cup {heir} ELSE root_ledger

\* Root_transitioned, on the table that New_node left behind.
MoveRoot(diff, tbl) ==
    /\ table' = Prune(tbl, diff.garbage \cup {root})
    /\ root' = diff.new_root
    /\ root_ledger' = NextRootLedger(diff.new_root)
    /\ protocol_states' = NextProtocolStates(diff.new_root)

\* Faulty: select is called with its arguments swapped.
SelectedTipSwapped(b) == IF Select(b, best_tip) THEN b ELSE best_tip

\* The best tip that calculate_diffs leaves.
SelectedTip(b) == IF Select(best_tip, b) THEN b ELSE best_tip

\* add_breadcrumb_exn down to Full_frontier.apply_diffs.  The parent and the
\* best tip are looked up with find_exn: the call raises without them.
AddBreadcrumb(b) ==
    /\ b # Genesis
    /\ Parent[b] \in DOMAIN table
    /\ best_tip \in DOMAIN table
    /\ IF Overflows(b)
       THEN MoveRoot(RootTransitioned(Heir(b)), TableWithNode(b))
       ELSE /\ table' = TableWithNode(b)
            /\ UNCHANGED <<root, root_ledger, protocol_states>>
    /\ best_tip' = SelectedTip(b)

\* Full_frontier.create: a single node; the root ledger is asserted to be the
\* one the root's protocol state commits to.
Create(r) ==
    /\ root = r
    /\ best_tip = r
    /\ table = [h \in {r} |-> [length |-> 0, successor_hashes |-> {}]]
    /\ root_ledger = SnarkedLedger(r)
    /\ protocol_states = RequiredStates[r]

Init == \E r \in Blocks : Create(r)

Next == \E b \in Blocks : AddBreadcrumb(b)

Spec == Init /\ [][Next]_vars

-----------------------------------------------------------------------------
(* Properties *)

\* The consensus rule as it is inside the short range of a fork: a strict total
\* order in which the longer chain wins (select with blockchain_length_is_longer).
ShortRangeSelect ==
    /\ \A x, y \in Blocks : Select(x, y) => ~ Select(y, x)
    /\ \A x, y \in Blocks : x = y \/ Select(x, y) \/ Select(y, x)
    /\ \A x, y, z \in Blocks : Select(x, y) /\ Select(y, z) => Select(x, z)
    /\ \A x, y \in Blocks : Height[x] < Height[y] => Select(x, y)

\* The table is a tree rooted at root: each node descends from the root, nothing
\* between the root and a node is missing, and the stored lengths and successor
\* lists, which add_breadcrumb and move_root maintain separately, agree with the
\* blocks' parent hashes.
FrontierIsTree ==
    /\ root \in DOMAIN table
    /\ \A b \in DOMAIN table :
          /\ root \in Ancestors(b)
          /\ \A a \in Ancestors(b) : root \in Ancestors(a) => a \in DOMAIN table
          /\ table[b].length - table[root].length = Height[b] - Height[root]
          /\ table[b].successor_hashes =
                {c \in DOMAIN table \ {root} : Parent[c] = b}

\* No path from the root is longer than max_length, although each added block is
\* put into the tree before the root moves.
BoundedLength == \A b \in DOMAIN table : Height[b] - Height[root] <= MaxLength

\* The best tip is in the tree and the consensus rule prefers it to every other
\* node, also after a root transition has thrown whole forks away.
BestTipStrongest ==
    /\ best_tip \in DOMAIN table
    /\ \A b \in DOMAIN table \ {best_tip} : Select(b, best_tip)

\* The snarked ledger that move_root mutates stays the one that the root's
\* protocol state commits to (the assertions of move_root and of create).
RootLedgerMatchesRoot == root_ledger = SnarkedLedger(root)

\* Every protocol state that the root's scan state refers to is kept: no find_exn
\* of protocol_states_for_next_root_scan_state or of get_protocol_state raises.
ProtocolStatesSuffice == protocol_states = RequiredStates[root]

\* The root moves by one block at a time, only when the new root has exactly
\* max_length blocks on top of it, and the best tip is on that path.
FinalityIsMaxLengthDeep ==
    [][root' # root => /\ Parent[root'] = root
                       /\ root' \in Ancestors(best_tip')
                       /\ Height[best_tip'] - Height[root'] = MaxLength]_vars
=============================================================================
