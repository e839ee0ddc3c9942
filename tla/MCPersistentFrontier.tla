------------------------ MODULE MCPersistentFrontier ------------------------
(***************************************************************************)
(* A small instance of PersistentFrontier: a chain of five blocks above    *)
(* genesis, of which max_length allows two, with a fork off genesis and    *)
(* one off the second block.                                               *)
(***************************************************************************)
EXTENDS PersistentFrontier

CONSTANTS g, a1, a2, a3, a4, a5, b1, c3

MCBlocks == {g, a1, a2, a3, a4, a5, b1, c3}

MCParent == a1 :> g @@ a2 :> a1 @@ a3 :> a2 @@ a4 :> a3 @@ a5 :> a4 @@ b1 :> g @@ c3 :> a2

MCHeight == g :> 1 @@ a1 :> 2 @@ a2 :> 3 @@ a3 :> 4 @@ a4 :> 5 @@ a5 :> 6 @@ b1 :> 2 @@ c3 :> 4

MCEmitsProof == {a1, a2}

\* The scan state of this instance keeps the transactions of one block.
MCRequiredStates == [b \in MCBlocks |-> IF b = g THEN {} ELSE {MCParent[b]}]

MCHash == g :> 0 @@ a1 :> 1 @@ a2 :> 2 @@ a3 :> 3 @@ a4 :> 4 @@ a5 :> 7 @@ b1 :> 5 @@ c3 :> 6

\* select inside the short range: the longer chain, then the bigger hash.
ShortRange(existing, candidate) ==
    \/ MCHeight[existing] < MCHeight[candidate]
    \/ /\ MCHeight[existing] = MCHeight[candidate]
       /\ MCHash[existing] < MCHash[candidate]
=============================================================================
