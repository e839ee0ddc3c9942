--------------------------- MODULE MCProofOfStake ---------------------------
(***************************************************************************)
(* A small instance of ProofOfStake: any tree of up to MaxBlocks blocks,   *)
(* over four epochs of three slots and windows of three sub-windows.       *)
(***************************************************************************)
EXTENDS ProofOfStake, Functions

CONSTANTS MaxSlot, LastHash

MCHashes == 0 .. LastHash

\* Only the hashes of equally long chains are ever compared, so a block may as
\* well have a bigger hash than its parent.  The vrf output depends on the slot.
AllOffers ==
    {o \in [hash : 3 .. LastHash, parent : 2 .. LastHash, slot : 1 .. MaxSlot, vrf : {0, 1}] :
        o.hash > o.parent /\ o.vrf = o.slot % 2}

\* The density of a window is the sum of its sub-windows' densities.
ASSUME \A f \in [0 .. SubWindowsPerWindow - 1 -> 0 .. SlotsPerSubWindow + 1] :
           WindowDensity(f) = SumFunction(f)
=============================================================================
