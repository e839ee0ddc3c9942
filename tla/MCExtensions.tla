---------------------------- MODULE MCExtensions ----------------------------
(***************************************************************************)
(* A small instance of Extensions: a chain of seven blocks, long enough    *)
(* for the history of roots to overflow, with forks that are thrown away   *)
(* by a root transition.  Statements need the proof of the one before: a   *)
(* tree of one transaction for most blocks, and one of two, a2's and a3's, *)
(* whose merge statement m23 the fork c5 needs before the main chain does. *)
(***************************************************************************)
EXTENDS Extensions

CONSTANTS g, a1, a2, a3, a4, a5, a6, a7, b1, b2, b3, c4, c5, d6, e2, m23

MCBlocks == {g, a1, a2, a3, a4, a5, a6, a7, b1, b2, b3, c4, c5, d6, e2}

MCParent == a1 :> g @@ a2 :> a1 @@ a3 :> a2 @@ a4 :> a3 @@ a5 :> a4 @@ a6 :> a5
            @@ a7 :> a6 @@ b1 :> g @@ b2 :> b1 @@ c4 :> a3 @@ c5 :> c4
            @@ d6 :> a5 @@ b3 :> b2 @@ e2 :> a1

MCHeight == g :> 1 @@ a1 :> 2 @@ a2 :> 3 @@ a3 :> 4 @@ a4 :> 5 @@ a5 :> 6 @@ a6 :> 7
            @@ a7 :> 8 @@ b1 :> 2 @@ b2 :> 3 @@ c4 :> 5 @@ c5 :> 6
            @@ d6 :> 7 @@ b3 :> 4 @@ e2 :> 3

\* The statements whose proofs a block buys; a proof of a whole tree is emitted.
MCBuys == a2 :> {a1} @@ b2 :> {b1} @@ c5 :> {a2, a3} @@ a4 :> {a2} @@ a6 :> {a3}
          @@ a7 :> {m23} @@ [b \in MCBlocks |-> {}]

MCEmitsProof == {b \in MCBlocks : MCBuys[b] \ {a2, a3} # {}}

Line[b \in MCBlocks] == IF b = g THEN {g} ELSE {b} \cup Line[MCParent[b]]

Bought(b) == UNION {MCBuys[a] : a \in Line[b]}

\* A statement of one transaction is named after the block that brought it in.
MCWorks ==
    [b \in MCBlocks |-> ((Line[b] \ {g}) \cup
                            (IF {a2, a3} \subseteq Bought(b) THEN {m23} ELSE {})) \ Bought(b)]

\* The transactions of a tree are kept until its proof is emitted.
Kept(b) == (Line[b] \ {g}) \ (IF m23 \in Bought(b) THEN Bought(b) ELSE Bought(b) \ {a2, a3})

MCRequiredStates == [b \in MCBlocks |-> {MCParent[x] : x \in Kept(b)}]

MCHash == g :> 0 @@ a1 :> 1 @@ a2 :> 2 @@ a3 :> 3 @@ a4 :> 4 @@ a5 :> 5 @@ a6 :> 6
          @@ a7 :> 7 @@ b1 :> 0 @@ b2 :> 9 @@ c4 :> 9 @@ c5 :> 3
          @@ d6 :> 9 @@ b3 :> 10 @@ e2 :> 3

\* select inside the short range: the longer chain, then the bigger hash.
ShortRange(existing, candidate) ==
    \/ MCHeight[existing] < MCHeight[candidate]
    \/ /\ MCHeight[existing] = MCHeight[candidate]
       /\ MCHash[existing] < MCHash[candidate]

ASSUME ShortRangeSelect
=============================================================================
