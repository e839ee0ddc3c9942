---------------------------- MODULE ProofOfStake ----------------------------
(***************************************************************************)
(* Chain selection (consensus/proof_of_stake.ml): how the consensus state  *)
(* of a block follows from that of the block it is built on, and which of  *)
(* two chains select prefers.                                              *)
(*                                                                         *)
(* The specification grows a tree of blocks, each with the consensus state *)
(* that Consensus_state.update gives it.  Of an epoch's data only the lock *)
(* checkpoint is kept: it is what select reads.                            *)
(***************************************************************************)
EXTENDS Integers, FiniteSets, FiniteSetsExt

CONSTANTS
    SlotsPerEpoch,
    SlotsPerSubWindow,
    SubWindowsPerWindow,
    GracePeriodSlots,
    Hashes,             \* state hashes, as numbers: select compares them
    Offers,             \* the blocks that can be produced
    MaxBlocks           \* bound on the number of blocks besides genesis

\* A block on offer: its hash, its parent's, its slot and its vrf output.
Offer == [hash : Hashes, parent : Hashes, slot : Nat, vrf : Nat]

\* in_seed_update_range asserts the first, check_invariants the second.
ASSUME ConsensusConstantsAssumption ==
    /\ SlotsPerEpoch \in Nat \ {0} /\ SlotsPerEpoch % 3 = 0
    /\ GracePeriodSlots \in Nat /\ GracePeriodSlots < SlotsPerEpoch \div 3
    /\ SlotsPerSubWindow \in Nat \ {0}
    /\ SubWindowsPerWindow \in Nat \ {0}
    /\ MaxBlocks \in Nat

ASSUME OffersAssumption ==
    /\ Hashes \subseteq Nat /\ {0, 1, 2} \subseteq Hashes
    /\ Offers \subseteq Offer
    /\ \A o \in Offers : o.hash > 2 /\ o.parent > 1 /\ o.slot > 0

VARIABLES
    states,             \* state hash |-> consensus state
    parent              \* state hash |-> previous_state_hash

vars == <<states, parent>>

\* State_hash.(of_hash zero), the hash of the negative one state, and genesis.
ZeroHash == 0
NegativeOneHash == 1
GenesisHash == 2

SlotsPerWindow == SlotsPerSubWindow * SubWindowsPerWindow
GracePeriodEnd == GracePeriodSlots + SlotsPerWindow

Epoch(slot) == slot \div SlotsPerEpoch
SlotInEpoch(slot) == slot % SlotsPerEpoch

\* Slot.in_seed_update_range: the first two thirds of an epoch.
InSeedUpdateRange(slot) == slot < 2 * (SlotsPerEpoch \div 3)

\* Global_sub_window.of_global_slot and sub_window.
GlobalSubWindow(slot) == slot \div SlotsPerSubWindow
SubWindow(slot) == GlobalSubWindow(slot) % SubWindowsPerWindow

-----------------------------------------------------------------------------
(* Min_window_density *)

\* Faulty: does not go round the end of the ring.
WithinRangeNoWrap(i, prev, next) == i > prev /\ i < next

\* Strictly between prev and next on the ring of sub-windows, or, when they are
\* the same place on it, everywhere else.
WithinRange(i, prev, next) ==
    IF prev < next THEN i > prev /\ i < next ELSE i > prev \/ i < next

SameSubWindow(prev_slot, next_slot) == GlobalSubWindow(prev_slot) = GlobalSubWindow(next_slot)

\* The previous and the current window have a sub-window in common.
OverlappingWindow(prev_slot, next_slot) ==
    GlobalSubWindow(prev_slot) + SubWindowsPerWindow >= GlobalSubWindow(next_slot)

\* Faulty: the windows have to share more than one sub-window.
CurrentDensitiesStrict(densities, prev_slot, next_slot) ==
    [i \in DOMAIN densities |->
        IF \/ SameSubWindow(prev_slot, next_slot)
           \/ /\ GlobalSubWindow(prev_slot) + SubWindowsPerWindow > GlobalSubWindow(next_slot)
              /\ ~ WithinRange(i, SubWindow(prev_slot), SubWindow(next_slot))
        THEN densities[i] ELSE 0]

\* The window of the previous block, projected to the slot of the next.
CurrentDensities(densities, prev_slot, next_slot) ==
    [i \in DOMAIN densities |->
        IF \/ SameSubWindow(prev_slot, next_slot)
           \/ /\ OverlappingWindow(prev_slot, next_slot)
              /\ ~ WithinRange(i, SubWindow(prev_slot), SubWindow(next_slot))
        THEN densities[i] ELSE 0]

\* current_window_density: the sum of the densities, as the number of the blocks
\* that they count, each told apart by its sub-window and its number in it.
WindowDensity(densities) ==
    Cardinality(UNION {{i} \X (1 .. densities[i]) : i \in DOMAIN densities})

\* The first component of update_min_window_density.
MinDensity(min_density, densities, prev_slot, next_slot) ==
    IF SameSubWindow(prev_slot, next_slot) \/ next_slot < GracePeriodEnd THEN min_density
    ELSE Min({WindowDensity(CurrentDensities(densities, prev_slot, next_slot)), min_density})

\* Faulty: the place of an old sub-window on the ring is not cleared.
NextDensitiesAdded(densities, prev_slot, next_slot) ==
    [CurrentDensities(densities, prev_slot, next_slot) EXCEPT ![SubWindow(next_slot)] = @ + 1]

\* The second, with incr_window, for a new block.
NextDensities(densities, prev_slot, next_slot) ==
    LET current == CurrentDensities(densities, prev_slot, next_slot)
        next    == SubWindow(next_slot)
    IN  [current EXCEPT ![next] = IF SameSubWindow(prev_slot, next_slot) THEN @ + 1 ELSE 1]

-----------------------------------------------------------------------------
(* Consensus_state *)

\* Epoch_data.update_pair: the lock checkpoints of the staking epoch's data and of
\* the next epoch's.
UpdatePair(prev, prev_hash, slot) ==
    LET new_epoch == Epoch(slot) > Epoch(prev.slot)
        kept      == IF new_epoch THEN ZeroHash ELSE prev.next_lock
    IN  [staking |-> IF new_epoch THEN prev.next_lock ELSE prev.staking_lock,
         next    |-> IF InSeedUpdateRange(SlotInEpoch(slot)) THEN prev_hash ELSE kept]

\* Consensus_state.update
Update(prev, prev_hash, slot, vrf) ==
    LET locks == UpdatePair(prev, prev_hash, slot)
    IN  [blockchain_length    |-> prev.blockchain_length + 1,
         slot                 |-> slot,
         min_window_density   |-> MinDensity(prev.min_window_density,
                                             prev.sub_window_densities, prev.slot, slot),
         sub_window_densities |-> NextDensities(prev.sub_window_densities, prev.slot, slot),
         last_vrf_output      |-> vrf,
         staking_lock         |-> locks.staking,
         next_lock            |-> locks.next]

NegativeOne ==
    [blockchain_length    |-> 0,
     slot                 |-> 0,
     min_window_density   |-> SlotsPerWindow,
     sub_window_densities |-> [i \in 0 .. SubWindowsPerWindow - 1 |->
                                  IF i = 0 THEN 0 ELSE SlotsPerSubWindow],
     last_vrf_output      |-> 0,
     staking_lock         |-> ZeroHash,
     next_lock            |-> ZeroHash]

\* The slot has to increase, unless it is the genesis slot.
CanUpdate(prev, slot) == slot >= prev.slot /\ (slot = 0 \/ slot > prev.slot)

-----------------------------------------------------------------------------
(* Hooks.select *)

\* c1 is at the end of the seed update range, or past it, of the epoch before c2's.
PredCase(c1, c2) ==
    /\ Epoch(c1.slot) + 1 = Epoch(c2.slot)
    /\ ~ InSeedUpdateRange(SlotInEpoch(c1.slot) + 1)
    /\ c1.next_lock = c2.staking_lock

IsShortRange(c1, c2) ==
    IF Epoch(c1.slot) = Epoch(c2.slot) THEN c1.staking_lock = c2.staking_lock
    ELSE PredCase(c1, c2) \/ PredCase(c2, c1)

LessThanOrEqualWhen(a, b, condition) == a < b \/ (a = b /\ condition)

CandidateVrfIsBigger(existing, candidate) ==
    LessThanOrEqualWhen(states[existing].last_vrf_output, states[candidate].last_vrf_output,
                        candidate > existing)

\* Faulty: the tie is not broken.
LengthIsLongerOrEqual(existing, candidate) ==
    states[existing].blockchain_length <= states[candidate].blockchain_length

BlockchainLengthIsLonger(existing, candidate) ==
    LessThanOrEqualWhen(states[existing].blockchain_length,
                        states[candidate].blockchain_length,
                        CandidateVrfIsBigger(existing, candidate))

\* Faulty: the min window density as it is.
VirtualDensityUnprojected(s, max_slot) == s.min_window_density

VirtualMinWindowDensity(s, max_slot) ==
    IF s.slot = max_slot THEN s.min_window_density
    ELSE MinDensity(s.min_window_density, s.sub_window_densities, s.slot, max_slot)

LongForkChainQualityIsBetter(existing, candidate) ==
    LET max_slot == Max({states[existing].slot, states[candidate].slot})
    IN  LessThanOrEqualWhen(VirtualMinWindowDensity(states[existing], max_slot),
                            VirtualMinWindowDensity(states[candidate], max_slot),
                            BlockchainLengthIsLonger(existing, candidate))

\* `Take
Select(existing, candidate) ==
    IF IsShortRange(states[existing], states[candidate])
    THEN BlockchainLengthIsLonger(existing, candidate)
    ELSE LongForkChainQualityIsBetter(existing, candidate)

-----------------------------------------------------------------------------

\* create_genesis
Init ==
    /\ states = [h \in {GenesisHash} |-> Update(NegativeOne, NegativeOneHash, 0, 0)]
    /\ parent = [h \in {GenesisHash} |-> NegativeOneHash]

\* Some node produces a block.
Produce(o) ==
    /\ o.hash \notin DOMAIN states
    /\ o.parent \in DOMAIN states
    /\ Cardinality(DOMAIN states) <= MaxBlocks
    /\ CanUpdate(states[o.parent], o.slot)
    /\ states' = [h \in DOMAIN states \cup {o.hash} |->
                     IF h = o.hash
                     THEN Update(states[o.parent], o.parent, o.slot, o.vrf)
                     ELSE states[h]]
    /\ parent' = [h \in DOMAIN parent \cup {o.hash} |->
                     IF h = o.hash THEN o.parent ELSE parent[h]]

Next == \E o \in Offers : Produce(o)

Spec == Init /\ [][Next]_vars

-----------------------------------------------------------------------------
(* Properties *)

ConsensusState ==
    [blockchain_length    : Nat,
     slot                 : Nat,
     min_window_density   : 0 .. SlotsPerWindow,
     sub_window_densities : [0 .. SubWindowsPerWindow - 1 -> 0 .. SlotsPerSubWindow],
     last_vrf_output      : Nat,
     staking_lock         : Hashes,
     next_lock            : Hashes]

TypeOK ==
    /\ GenesisHash \in DOMAIN states
    /\ DOMAIN states \subseteq Hashes
    /\ states \in [DOMAIN states -> ConsensusState]
    /\ parent \in [DOMAIN states -> Hashes]

\* The block and everything it is built on.
Chain(b) ==
    {a \in DOMAIN states : \A S \in SUBSET DOMAIN states :
        (b \in S /\ \A x \in S \ {GenesisHash} : parent[x] \in S) => a \in S}

\* What the densities count: the blocks of a chain in a sub-window.  Before the
\* genesis slot every slot counts as filled.
BlocksIn(chain, global_sub_window) ==
    IF global_sub_window < 0 THEN SlotsPerSubWindow
    ELSE Cardinality({a \in chain : GlobalSubWindow(states[a].slot) = global_sub_window})

\* The sub_windows_per_window sub-windows up to the given one.
Window(last) == (last - SubWindowsPerWindow + 1) .. last

\* The first blocks of a chain in their sub-windows.
Openers(chain) ==
    {a \in chain \ {GenesisHash} : ~ SameSubWindow(states[parent[a]].slot, states[a].slot)}

\* The ring that each block shifts by one place or more is the number of blocks of
\* its chain in each of the last sub-windows, whatever was skipped.
DensitiesCountBlocks ==
    \A b \in DOMAIN states :
        \A w \in Window(GlobalSubWindow(states[b].slot)) :
            states[b].sub_window_densities[w % SubWindowsPerWindow] = BlocksIn(Chain(b), w)

\* The minimum window density is the least number of blocks that were in the
\* window before any block that opened a new sub-window after the grace period.
MinDensityIsLeastWindow ==
    \A b \in DOMAIN states :
        states[b].min_window_density = Min({SlotsPerWindow} \cup
            {LET before == Window(GlobalSubWindow(states[a].slot) - 1)
             IN  WindowDensity([w \in before |-> BlocksIn(Chain(a), w)]) :
                a \in {x \in Openers(Chain(b)) : states[x].slot >= GracePeriodEnd}})

\* A chain is always preferred to a part of itself, in the short and in the long
\* range: a block that extends the root is never refused as not selected over
\* the frontier root, whatever slots it skips.
DescendantWins ==
    \A b \in DOMAIN states : \A a \in Chain(b) \ {b} : Select(a, b) /\ ~ Select(b, a)

\* Of two different chains select prefers exactly one, whichever of them a node
\* saw first: two nodes that hold the same two chains agree.
SelectIsDecisive ==
    \A a, b \in DOMAIN states : a # b => (Select(a, b) <=> ~ Select(b, a))

\* The chain a node follows does not depend on the order in which it meets them:
\* "the only property we are truly interested in it holding is transitivity".
SelectIsTransitive ==
    \A a, b, c \in DOMAIN states : Select(a, b) /\ Select(b, c) => Select(a, c)
=============================================================================
