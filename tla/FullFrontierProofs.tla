------------------------- MODULE FullFrontierProofs -------------------------
(***************************************************************************)
(* Proofs about the in-memory frontier, for every block tree, every        *)
(* max_length and (except for the best tip) every consensus rule.          *)
(***************************************************************************)
EXTENDS FullFrontier, TLAPS

-----------------------------------------------------------------------------
(* The ancestors of a block.  Ancestors is defined as a least closed set,  *)
(* so each induction along parent hashes is the choice of a parent-closed  *)
(* set.                                                                    *)

\* The induction principle: a parent-closed set of blocks that contains a block
\* contains all of its ancestors.
LEMMA AncestorInduction ==
    ASSUME NEW b \in Blocks, NEW S, S \subseteq Blocks, b \in S, ParentClosed(S)
    PROVE  Ancestors(b) \subseteq S
BY DEF Ancestors, AncestorsOf

\* A block is among its own ancestors, which are blocks.
LEMMA AncestorSelf ==
    ASSUME NEW b \in Blocks
    PROVE  b \in Ancestors(b) /\ Ancestors(b) \subseteq Blocks
BY DEF Ancestors, AncestorsOf

\* The ancestors of a block contain their own parents.
LEMMA AncestorsClosed ==
    ASSUME NEW b \in Blocks
    PROVE  ParentClosed(Ancestors(b))
<1>1. SUFFICES ASSUME NEW x \in Ancestors(b) \ {Genesis}
               PROVE  Parent[x] \in Ancestors(b)
      BY DEF ParentClosed
<1>2. x \in Blocks /\ Parent[x] \in Blocks
      BY <1>1, AncestorSelf, BlockTreeAssumption
<1>3. ASSUME NEW S \in SUBSET Blocks, b \in S, ParentClosed(S)
      PROVE  Parent[x] \in S
      <2>1. x \in S
            BY <1>1, <1>3 DEF Ancestors, AncestorsOf
      <2> QED
            BY <2>1, <1>1, <1>3 DEF ParentClosed
<1> QED
      BY <1>2, <1>3 DEF Ancestors, AncestorsOf

\* An ancestor of an ancestor is an ancestor.
LEMMA AncestorTransitive ==
    ASSUME NEW c \in Blocks, NEW b \in Ancestors(c)
    PROVE  b \in Blocks /\ Ancestors(b) \subseteq Ancestors(c)
<1>1. b \in Blocks /\ Ancestors(c) \subseteq Blocks
      BY AncestorSelf
<1>2. ParentClosed(Ancestors(c))
      BY AncestorsClosed
<1> QED
      BY <1>1, <1>2, AncestorInduction

\* The ancestors of a block are the block itself and its parent's ancestors.
LEMMA AncestorUnfold ==
    ASSUME NEW b \in Blocks \ {Genesis}
    PROVE  /\ Parent[b] \in Blocks
           /\ Parent[b] \in Ancestors(b)
           /\ Ancestors(b) = {b} \cup Ancestors(Parent[b])
<1>1. Parent[b] \in Blocks
      BY BlockTreeAssumption
<1>2. Parent[b] \in Ancestors(b)
      BY AncestorSelf, AncestorsClosed DEF ParentClosed
<1>3. {b} \cup Ancestors(Parent[b]) \subseteq Ancestors(b)
      BY <1>2, AncestorSelf, AncestorTransitive
<1>4. Ancestors(b) \subseteq {b} \cup Ancestors(Parent[b])
      <2> DEFINE S == {b} \cup Ancestors(Parent[b])
      <2>1. S \subseteq Blocks /\ b \in S
            BY <1>1, AncestorSelf
      <2>2. ParentClosed(S)
            BY <1>1, AncestorSelf, AncestorsClosed DEF ParentClosed
      <2> QED
            BY <2>1, <2>2, AncestorInduction
<1> QED
      BY <1>1, <1>2, <1>3, <1>4

\* Genesis has no ancestor but itself.
LEMMA GenesisAncestors == Ancestors(Genesis) = {Genesis}
<1>1. Genesis \in Blocks
      BY BlockTreeAssumption
<1>2. ParentClosed({Genesis})
      BY DEF ParentClosed
<1> QED
      BY <1>1, <1>2, AncestorInduction, AncestorSelf

\* Walking down from a block to a proper ancestor passes through a child of it.
LEMMA AncestorChild ==
    ASSUME NEW c \in Blocks, NEW a \in Ancestors(c), a # c
    PROVE  \E h \in Ancestors(c) \ {Genesis} : Parent[h] = a
<1> DEFINE S == {x \in Ancestors(c) :
                    x = c \/ \E h \in Ancestors(c) \ {Genesis} : Parent[h] = x}
<1>1. S \subseteq Blocks /\ c \in S
      BY AncestorSelf
<1>2. ParentClosed(S)
      <2>1. SUFFICES ASSUME NEW x \in S \ {Genesis} PROVE Parent[x] \in S
            BY DEF ParentClosed
      <2>2. x \in Ancestors(c) \ {Genesis}
            BY <2>1
      <2>3. Parent[x] \in Ancestors(c)
            BY <2>2, AncestorsClosed DEF ParentClosed
      <2> QED
            BY <2>2, <2>3
<1>3. a \in S
      BY <1>1, <1>2, AncestorInduction
<1> QED
      BY <1>3

\* A proper ancestor is strictly shorter.
LEMMA AncestorHeight ==
    ASSUME NEW b \in Blocks, NEW a \in Ancestors(b)
    PROVE  a = b \/ Height[a] < Height[b]
<1> DEFINE S == {x \in Blocks : x = b \/ Height[x] < Height[b]}
<1>1. S \subseteq Blocks /\ b \in S
      OBVIOUS
<1>2. ParentClosed(S)
      <2>1. SUFFICES ASSUME NEW x \in S \ {Genesis} PROVE Parent[x] \in S
            BY DEF ParentClosed
      <2>2. /\ x \in Blocks /\ Parent[x] \in Blocks
            /\ Height[x] = Height[Parent[x]] + 1
            /\ Height[x] \in Nat /\ Height[Parent[x]] \in Nat /\ Height[b] \in Nat
            BY <2>1, BlockTreeAssumption
      <2>3. x = b \/ Height[x] < Height[b]
            BY <2>1
      <2> QED
            BY <2>2, <2>3
<1>3. a \in S
      BY <1>1, <1>2, AncestorInduction
<1> QED
      BY <1>3

\* Two ancestors of a block lie on one path.
LEMMA AncestorsLinear ==
    ASSUME NEW c \in Blocks, NEW x \in Ancestors(c), NEW y \in Ancestors(c)
    PROVE  x \in Ancestors(y) \/ y \in Ancestors(x)
<1> DEFINE S == {z \in Ancestors(c) : \A w \in Ancestors(c) :
                    w \in Ancestors(z) \/ z \in Ancestors(w)}
<1>1. S \subseteq Blocks /\ c \in S
      BY AncestorSelf
<1>2. ParentClosed(S)
      <2>1. SUFFICES ASSUME NEW z \in S \ {Genesis} PROVE Parent[z] \in S
            BY DEF ParentClosed
      <2>2. z \in Ancestors(c) /\ z \in Blocks \ {Genesis}
            BY <2>1, <1>1
      <2>3. Parent[z] \in Ancestors(c)
            BY <2>2, AncestorsClosed DEF ParentClosed
      <2>4. ASSUME NEW w \in Ancestors(c)
            PROVE  w \in Ancestors(Parent[z]) \/ Parent[z] \in Ancestors(w)
            <3>1. w \in Blocks
                  BY AncestorSelf
            <3>2. w \in Ancestors(z) \/ z \in Ancestors(w)
                  BY <2>1
            <3>3. CASE z \in Ancestors(w)
                  BY <3>1, <3>3, <2>2, AncestorsClosed DEF ParentClosed
            <3>4. CASE w \in Ancestors(z) /\ w # z
                  BY <3>4, <2>2, AncestorUnfold
            <3>5. CASE w = z
                  BY <3>5, <2>2, AncestorUnfold
            <3> QED
                  BY <3>2, <3>3, <3>4, <3>5
      <2> QED
            BY <2>3, <2>4
<1>3. x \in S
      BY <1>1, <1>2, AncestorInduction
<1> QED
      BY <1>3

\* Two children of one block on one path are the same block.
LEMMA AncestorChildUnique ==
    ASSUME NEW c \in Blocks,
           NEW x \in Ancestors(c) \ {Genesis}, NEW y \in Ancestors(c) \ {Genesis},
           Parent[x] = Parent[y]
    PROVE  x = y
<1>1. x \in Blocks /\ y \in Blocks
      BY AncestorSelf
<1>2. x \in Ancestors(y) \/ y \in Ancestors(x)
      BY AncestorsLinear
<1>3. Height[x] = Height[y] /\ Height[x] \in Nat
      BY <1>1, BlockTreeAssumption
<1>4. ~ (Height[x] < Height[y]) /\ ~ (Height[y] < Height[x])
      BY <1>3
<1> QED
      BY <1>1, <1>2, <1>4, AncestorHeight

\* The snarked ledger of a block is its parent's, plus the block if it emitted a
\* proof: the step that move_root performs on the root ledger.
LEMMA SnarkedLedgerStep ==
    ASSUME NEW b \in Blocks \ {Genesis}
    PROVE  SnarkedLedger(b) =
              IF b \in EmitsProof THEN SnarkedLedger(Parent[b]) \cup {b}
                                  ELSE SnarkedLedger(Parent[b])
BY AncestorUnfold DEF SnarkedLedger

-----------------------------------------------------------------------------
(* The inductive invariant *)

\* The inductive invariant of the tree: the successor lists and lengths have to
\* be right for garbage collection to find exactly the abandoned forks, and the
\* length bound is what makes one root move per added block enough.
TreeInv ==
    /\ TypeOK
    /\ FrontierIsTree
    /\ BoundedLength
    /\ RootLedgerMatchesRoot
    /\ ProtocolStatesSuffice

-----------------------------------------------------------------------------
(* The stored tree and the blocks' ancestry *)

\* A node of the frontier other than the root is not the genesis block, and its
\* parent is a node as well.
LEMMA NonRootNode ==
    ASSUME TypeOK, FrontierIsTree, NEW x \in DOMAIN table, x # root
    PROVE  /\ x \in Blocks \ {Genesis}
           /\ Parent[x] \in DOMAIN table
           /\ root \in Ancestors(Parent[x])
<1>1. x \in Blocks /\ root \in Ancestors(x)
      BY DEF TypeOK, FrontierIsTree
<1>2. x # Genesis
      BY <1>1, GenesisAncestors
<1>3. root \in Ancestors(Parent[x]) /\ Parent[x] \in Ancestors(x)
      BY <1>1, <1>2, AncestorUnfold
<1> QED
      BY <1>1, <1>2, <1>3 DEF FrontierIsTree

\* What the walk along the stored successor lists collects (successors_rec) are
\* exactly the nodes that descend from its starting point.
LEMMA SubtreeIsDescendants ==
    ASSUME TypeOK, FrontierIsTree, NEW s \in DOMAIN table
    PROVE  Subtree(s) = {y \in DOMAIN table : s \in Ancestors(y)}
<1> DEFINE D == {y \in DOMAIN table : s \in Ancestors(y)}
<1>0. DOMAIN table \subseteq Blocks /\ root \in Blocks /\ s \in Blocks
      BY DEF TypeOK
<1>1. Subtree(s) \subseteq D
      <2>1. D \in SUBSET DOMAIN table /\ s \in D
            BY <1>0, AncestorSelf
      <2>2. ASSUME NEW y \in D, NEW c \in table[y].successor_hashes
            PROVE  c \in D
            <3>1. c \in DOMAIN table /\ c # root /\ Parent[c] = y
                  BY <2>2 DEF FrontierIsTree
            <3>2. c \in Blocks \ {Genesis}
                  BY <3>1, NonRootNode
            <3>3. s \in Ancestors(c)
                  BY <2>2, <3>1, <3>2, AncestorUnfold
            <3> QED
                  BY <3>1, <3>3
      <2>3. SuccessorClosed(D)
            BY <2>2 DEF SuccessorClosed
      <2> QED
            BY <2>1, <2>3 DEF Subtree
<1>2. ASSUME NEW y \in D, NEW S \in SUBSET DOMAIN table, s \in S, SuccessorClosed(S)
      PROVE  y \in S
      <2> DEFINE U == {z \in Blocks : s \in Ancestors(z) => z \in DOMAIN table \ S}
      <2>1. SUFFICES ASSUME y \notin S PROVE FALSE
            OBVIOUS
      <2>2. U \subseteq Blocks /\ y \in U
            BY <1>0, <1>2, <2>1
      <2>3. ParentClosed(U)
            <3>1. SUFFICES ASSUME NEW z \in U \ {Genesis} PROVE Parent[z] \in U
                  BY DEF ParentClosed
            <3>2. z \in Blocks \ {Genesis}
                  BY <3>1
            <3>3. /\ Parent[z] \in Blocks
                  /\ Parent[z] \in Ancestors(z)
                  /\ Ancestors(z) = {z} \cup Ancestors(Parent[z])
                  BY <3>2, AncestorUnfold
            <3>4. SUFFICES ASSUME s \in Ancestors(Parent[z])
                           PROVE  Parent[z] \in DOMAIN table \ S
                  BY <3>3
            <3>5. z \in DOMAIN table /\ z \notin S
                  BY <3>1, <3>3, <3>4
            <3>6. root \in Ancestors(Parent[z])
                  <4>1. root \in Ancestors(s)
                        BY DEF FrontierIsTree
                  <4> QED
                        BY <4>1, <3>3, <3>4, AncestorTransitive
            <3>7. Parent[z] \in DOMAIN table
                  BY <3>3, <3>5, <3>6 DEF FrontierIsTree
            <3>8. z # root
                  <4>1. Height[Parent[z]] < Height[z]
                        BY <3>2, <3>3, BlockTreeAssumption
                  <4>2. root = Parent[z] \/ Height[root] < Height[Parent[z]]
                        BY <3>3, <3>6, AncestorHeight
                  <4>3. Height[root] \in Nat /\ Height[Parent[z]] \in Nat /\ Height[z] \in Nat
                        BY <1>0, <3>2, <3>3, BlockTreeAssumption
                  <4> QED
                        BY <4>1, <4>2, <4>3
            <3>9. z \in table[Parent[z]].successor_hashes
                  BY <3>5, <3>7, <3>8 DEF FrontierIsTree
            <3> QED
                  BY <3>5, <3>7, <3>9, <1>2 DEF SuccessorClosed
      <2>4. s \in U
            BY <1>0, <1>2, <2>2, <2>3, AncestorInduction
      <2> QED
            BY <2>4, <1>0, <1>2, AncestorSelf
<1> QED
      BY <1>1, <1>2 DEF Subtree

\* A block that overflows the frontier is new, sits max_length + 1 above the
\* root, and its heir is a node right above the root.
LEMMA OverflowFacts ==
    ASSUME TypeOK, FrontierIsTree, BoundedLength,
           NEW b \in Blocks \ {Genesis}, Parent[b] \in DOMAIN table, Overflows(b)
    PROVE  /\ b \notin DOMAIN table
           /\ Height[b] = Height[root] + MaxLength + 1
           /\ Heir(b) \in DOMAIN table
           /\ Heir(b) \in Blocks \ {Genesis}
           /\ Heir(b) \in Ancestors(b)
           /\ Parent[Heir(b)] = root
           /\ root \in Ancestors(Heir(b))
<1> DEFINE p == Parent[b]
<1>0. /\ root \in Blocks /\ p \in Blocks /\ MaxLength \in Nat /\ MaxLength # 0
      /\ root \in DOMAIN table
      /\ Height[root] \in Nat /\ Height[p] \in Nat /\ Height[b] = Height[p] + 1
      BY BlockTreeAssumption, MaxLengthAssumption DEF TypeOK, FrontierIsTree
<1>1. table[p].length \in Int /\ table[root].length \in Int
      BY <1>0 DEF TypeOK, Node
<1>2. table[p].length - table[root].length = Height[p] - Height[root]
      BY DEF FrontierIsTree
<1>3. Height[p] - Height[root] <= MaxLength
      BY DEF BoundedLength
<1>4. Height[b] = Height[root] + MaxLength + 1
      BY <1>0, <1>1, <1>2, <1>3 DEF Overflows
<1>5. b \notin DOMAIN table
      BY <1>0, <1>4 DEF BoundedLength
<1>6. p # root
      BY <1>0, <1>4
<1>7. root \in Ancestors(p) /\ root # p
      BY <1>6 DEF FrontierIsTree
<1>8. Ancestors(b) = {b} \cup Ancestors(p)
      BY AncestorUnfold
<1>9. PICK h \in Ancestors(p) \ {Genesis} : Parent[h] = root
      BY <1>0, <1>7, AncestorChild
<1>10. h \in Ancestors(b) \ {Genesis}
      BY <1>8, <1>9
<1>11. Heir(b) \in Ancestors(b) \ {Genesis} /\ Parent[Heir(b)] = root
      BY <1>9, <1>10 DEF Heir
<1>12. Heir(b) = h
      BY <1>9, <1>10, <1>11, AncestorChildUnique
<1>13. h \in Blocks
      BY <1>0, AncestorSelf
<1>14. root \in Ancestors(h)
      BY <1>9, <1>13, AncestorUnfold
<1>15. h \in DOMAIN table
      BY <1>9, <1>14 DEF FrontierIsTree
<1> QED
      BY <1>4, <1>5, <1>9, <1>11, <1>12, <1>13, <1>14, <1>15

\* What a root transition leaves in the table: exactly the nodes, and the new
\* block, that descend from the new root.
LEMMA SurvivorsDescendFromHeir ==
    ASSUME TypeOK, FrontierIsTree, BoundedLength,
           NEW b \in Blocks \ {Genesis}, Parent[b] \in DOMAIN table, Overflows(b),
           NEW x \in DOMAIN table \cup {b}
    PROVE  x \notin RootTransitioned(Heir(b)).garbage \cup {root}
              <=> Heir(b) \in Ancestors(x)
<1> DEFINE h == Heir(b)
           garbage == UNION {Subtree(s) : s \in table[root].successor_hashes \ {h}}
<1>0. /\ b \notin DOMAIN table /\ h \in DOMAIN table /\ h \in Blocks \ {Genesis}
      /\ h \in Ancestors(b) /\ Parent[h] = root /\ root \in Ancestors(h)
      BY OverflowFacts
<1>1. DOMAIN table \subseteq Blocks /\ root \in Blocks /\ x \in Blocks /\ root \in DOMAIN table
      BY DEF TypeOK, FrontierIsTree
<1>2. RootTransitioned(h).garbage = garbage
      BY DEF RootTransitioned
<1>3. Height[h] = Height[root] + 1 /\ Height[root] \in Nat
      BY <1>0, <1>1, BlockTreeAssumption
<1>4. \A s : s \in table[root].successor_hashes <=>
                s \in DOMAIN table \ {root} /\ Parent[s] = root
      BY <1>1 DEF FrontierIsTree
<1>5. \A s \in table[root].successor_hashes :
            Subtree(s) = {y \in DOMAIN table : s \in Ancestors(y)}
      BY <1>4, SubtreeIsDescendants
<1>6. ASSUME x \notin garbage \cup {root}
      PROVE  h \in Ancestors(x)
      <2>1. CASE x = b
            BY <2>1, <1>0
      <2>2. CASE x \in DOMAIN table
            <3>1. root \in Ancestors(x) /\ x # root
                  BY <2>2, <1>6 DEF FrontierIsTree
            <3>2. PICK c \in Ancestors(x) \ {Genesis} : Parent[c] = root
                  BY <3>1, <1>1, AncestorChild
            <3>3. c \in Blocks \ {Genesis}
                  BY <3>2, <1>1, AncestorSelf
            <3>4. root \in Ancestors(c)
                  BY <3>2, <3>3, AncestorUnfold
            <3>5. c \in DOMAIN table
                  BY <2>2, <3>2, <3>4 DEF FrontierIsTree
            <3>6. c # root
                  BY <3>2, <3>3, <1>1, BlockTreeAssumption
            <3>7. c \in table[root].successor_hashes
                  BY <1>4, <3>2, <3>5, <3>6
            <3>8. x \in Subtree(c)
                  BY <2>2, <3>2, <3>7, <1>5
            <3>9. c = h
                  BY <1>6, <3>7, <3>8
            <3> QED
                  BY <3>2, <3>9
      <2> QED
            BY <2>1, <2>2
<1>7. ASSUME h \in Ancestors(x)
      PROVE  x \notin garbage \cup {root}
      <2>1. x # root
            <3>1. SUFFICES ASSUME x = root PROVE FALSE
                  OBVIOUS
            <3>2. h = root \/ Height[h] < Height[root]
                  BY <3>1, <1>1, <1>7, AncestorHeight
            <3> QED
                  BY <3>2, <1>3
      <2>2. ASSUME NEW s \in table[root].successor_hashes \ {h}
            PROVE  x \notin Subtree(s)
            <3>1. SUFFICES ASSUME x \in Subtree(s) PROVE FALSE
                  OBVIOUS
            <3>2. s \in Ancestors(x)
                  BY <3>1, <2>2, <1>5
            <3>3. s \in DOMAIN table /\ s # root /\ Parent[s] = root
                  BY <2>2, <1>4
            <3>4. s # Genesis
                  BY <3>3, NonRootNode
            <3>5. s = h
                  BY <3>2, <3>3, <3>4, <1>0, <1>1, <1>7, AncestorChildUnique
            <3> QED
                  BY <3>5, <2>2
      <2> QED
            BY <2>1, <2>2
<1> QED
      BY <1>2, <1>6, <1>7

\* New_node changes the domain by the block, and the nodes by the parent's
\* successor list.
LEMMA TableWithNodeFacts ==
    ASSUME TypeOK, FrontierIsTree,
           NEW b \in Blocks \ {Genesis}, Parent[b] \in DOMAIN table, b \notin DOMAIN table
    PROVE  LET T == TableWithNode(b)
           IN  /\ DOMAIN T = DOMAIN table \cup {b}
               /\ T \in [DOMAIN T -> Node]
               /\ T[b].length = table[Parent[b]].length + 1
               /\ \A x \in DOMAIN table : T[x].length = table[x].length
               /\ \A x \in DOMAIN T :
                     T[x].successor_hashes = {c \in DOMAIN T \ {root} : Parent[c] = x}
<1> DEFINE T == TableWithNode(b)
           p == Parent[b]
<1>0. /\ DOMAIN table \subseteq Blocks /\ root \in DOMAIN table /\ b # root
      /\ table \in [DOMAIN table -> Node]
      BY DEF TypeOK, FrontierIsTree
<1>1. T = [h \in DOMAIN table \cup {b} |->
            IF h = b
            THEN [length |-> table[p].length + 1, successor_hashes |-> {}]
            ELSE IF h = p
            THEN [table[h] EXCEPT !.successor_hashes = @ \cup {b}]
            ELSE table[h]]
      BY DEF TableWithNode
<1>2. DOMAIN T = DOMAIN table \cup {b}
      BY <1>1
<1>3. T[b] = [length |-> table[p].length + 1, successor_hashes |-> {}]
      BY <1>1
<1>4. \A x \in DOMAIN table : /\ table[x] \in Node
                              /\ table[x].length \in Int
                              /\ table[x].successor_hashes \subseteq Blocks
      BY <1>0 DEF Node
<1>5. p # b /\ T[p] = [table[p] EXCEPT !.successor_hashes = @ \cup {b}]
      BY <1>1
<1>6. T[p].length = table[p].length
      /\ T[p].successor_hashes = table[p].successor_hashes \cup {b}
      /\ T[p] \in Node
      BY <1>4, <1>5 DEF Node
<1>7. \A x \in DOMAIN table \ {p} : T[x] = table[x]
      BY <1>1
<1>8. T[b] \in Node /\ T[b].successor_hashes = {}
      BY <1>3, <1>4 DEF Node
<1>9. T \in [DOMAIN T -> Node]
      <2>1. \A x \in DOMAIN T : T[x] \in Node
            BY <1>2, <1>4, <1>6, <1>7, <1>8
      <2> QED
            BY <2>1, <1>1
<1>10. \A x \in DOMAIN table :
          table[x].successor_hashes = {c \in DOMAIN table \ {root} : Parent[c] = x}
      BY DEF FrontierIsTree
<1>11. \A c \in DOMAIN table \ {root} : Parent[c] # b
      BY NonRootNode
<1>12. ASSUME NEW x \in DOMAIN T
       PROVE  T[x].successor_hashes = {c \in DOMAIN T \ {root} : Parent[c] = x}
      <2>1. CASE x = b
            BY <2>1, <1>2, <1>5, <1>8, <1>11
      <2>2. CASE x = p
            BY <2>2, <1>0, <1>2, <1>6, <1>10
      <2>3. CASE x \in DOMAIN table \ {p}
            BY <2>3, <1>2, <1>7, <1>10
      <2> QED
            BY <2>1, <2>2, <2>3, <1>2
<1> QED
      BY <1>2, <1>3, <1>6, <1>7, <1>9, <1>12

-----------------------------------------------------------------------------
(* The tree invariant *)

\* A frontier that create has just built satisfies the invariant.
LEMMA InitTreeInv == Init => TreeInv
<1>1. SUFFICES ASSUME NEW r \in Blocks, Create(r) PROVE TreeInv
      BY DEF Init
<1>2. /\ root = r /\ best_tip = r /\ DOMAIN table = {r}
      /\ table[r] = [length |-> 0, successor_hashes |-> {}]
      /\ table = [h \in {r} |-> [length |-> 0, successor_hashes |-> {}]]
      BY <1>1 DEF Create
<1>3. r \in Ancestors(r) /\ Ancestors(r) \subseteq Blocks
      BY AncestorSelf
<1>4. Height[r] \in Nat /\ MaxLength \in Nat /\ RequiredStates[r] \subseteq Blocks
      BY BlockTreeAssumption, MaxLengthAssumption
<1>5. TypeOK
      BY <1>1, <1>2, <1>3, <1>4 DEF TypeOK, Create, Node, SnarkedLedger
<1>6. FrontierIsTree
      <2>1. ASSUME NEW a \in Ancestors(r), r \in Ancestors(a) PROVE a = r
            <3>1. a \in Blocks
                  BY <1>3
            <3>2. a = r \/ Height[a] < Height[r]
                  BY AncestorHeight
            <3>3. r = a \/ Height[r] < Height[a]
                  BY <2>1, <3>1, AncestorHeight
            <3> QED
                  BY <3>1, <3>2, <3>3, <1>4, BlockTreeAssumption
      <2> QED
            BY <2>1, <1>2, <1>3, <1>4 DEF FrontierIsTree
<1> QED
      BY <1>1, <1>2, <1>4, <1>5, <1>6
      DEF TreeInv, BoundedLength, RootLedgerMatchesRoot, ProtocolStatesSuffice, Create

\* Adding a block that does not overflow the frontier keeps the invariant.
LEMMA NewNodeTreeInv ==
    ASSUME TreeInv, NEW b \in Blocks, AddBreadcrumb(b), ~ Overflows(b)
    PROVE  TreeInv'
<1> USE DEF TreeInv
<1>0. /\ b \in Blocks \ {Genesis} /\ Parent[b] \in DOMAIN table
      /\ table' = TableWithNode(b)
      /\ UNCHANGED <<root, root_ledger, protocol_states>>
      /\ best_tip' \in Blocks
      BY DEF AddBreadcrumb, SelectedTip, TypeOK
<1>1. CASE b \in DOMAIN table
      <2>1. table' = table
            BY <1>0, <1>1 DEF TableWithNode
      <2> QED
            BY <1>0, <2>1
            DEF TypeOK, FrontierIsTree, BoundedLength, RootLedgerMatchesRoot,
                ProtocolStatesSuffice
<1>2. CASE b \notin DOMAIN table
      <2>1. /\ DOMAIN table' = DOMAIN table \cup {b}
            /\ table' \in [DOMAIN table' -> Node]
            /\ table'[b].length = table[Parent[b]].length + 1
            /\ \A x \in DOMAIN table : table'[x].length = table[x].length
            /\ \A x \in DOMAIN table' : table'[x].successor_hashes =
                  {c \in DOMAIN table' \ {root} : Parent[c] = x}
            BY <1>0, <1>2, TableWithNodeFacts
      <2>2. /\ root \in DOMAIN table /\ DOMAIN table \subseteq Blocks
            /\ Height[root] \in Nat /\ Height[Parent[b]] \in Nat
            /\ Height[b] = Height[Parent[b]] + 1
            /\ table[root].length \in Int /\ table[Parent[b]].length \in Int
            /\ MaxLength \in Nat
            BY <1>0, BlockTreeAssumption, MaxLengthAssumption DEF TypeOK, FrontierIsTree, Node
      <2>3. Ancestors(b) = {b} \cup Ancestors(Parent[b])
            BY <1>0, AncestorUnfold
      <2>4. TypeOK'
            BY <1>0, <2>1, <2>2 DEF TypeOK
      <2>5. table[Parent[b]].length - table[root].length = Height[Parent[b]] - Height[root]
            BY <1>0 DEF FrontierIsTree
      <2>6. FrontierIsTree'
            <3>1. root' \in DOMAIN table'
                  BY <1>0, <2>1, <2>2
            <3>2. ASSUME NEW x \in DOMAIN table'
                  PROVE  /\ root' \in Ancestors(x)
                         /\ \A a \in Ancestors(x) :
                               root' \in Ancestors(a) => a \in DOMAIN table'
                         /\ table'[x].length - table'[root'].length = Height[x] - Height[root']
                  <4>1. CASE x = b
                        <5>1. root \in Ancestors(Parent[b])
                              BY <1>0, <2>2 DEF FrontierIsTree
                        <5>2. root' \in Ancestors(x)
                              BY <4>1, <1>0, <2>3, <5>1
                        <5>3. \A a \in Ancestors(Parent[b]) :
                                 root \in Ancestors(a) => a \in DOMAIN table
                              BY <1>0, <2>2 DEF FrontierIsTree
                        <5>4. \A a \in Ancestors(x) : root' \in Ancestors(a) => a \in DOMAIN table'
                              BY <4>1, <1>0, <2>1, <2>3, <5>3
                        <5>5. table'[x].length - table'[root'].length = Height[x] - Height[root']
                              BY <4>1, <1>0, <2>1, <2>2, <2>5
                        <5> QED
                              BY <5>2, <5>4, <5>5
                  <4>2. CASE x \in DOMAIN table
                        BY <4>2, <1>0, <2>1, <2>2 DEF FrontierIsTree
                  <4> QED
                        BY <4>1, <4>2, <2>1
            <3> QED
                  BY <3>1, <3>2, <1>0, <2>1 DEF FrontierIsTree
      <2>7. BoundedLength'
            <3>1. Height[b] - Height[root] <= MaxLength
                  BY <2>2, <2>5 DEF Overflows
            <3> QED
                  BY <3>1, <1>0, <2>1 DEF BoundedLength
      <2> QED
            BY <1>0, <2>4, <2>6, <2>7 DEF RootLedgerMatchesRoot, ProtocolStatesSuffice
<1> QED
      BY <1>1, <1>2

\* Adding a block that overflows the frontier, and so moves the root, keeps it.
LEMMA MoveRootTreeInv ==
    ASSUME TreeInv, NEW b \in Blocks, AddBreadcrumb(b), Overflows(b)
    PROVE  /\ TreeInv'
           /\ root' = Heir(b)
           /\ \A x : x \in DOMAIN table' <=>
                        x \in DOMAIN table \cup {b} /\ Heir(b) \in Ancestors(x)
<1> USE DEF TreeInv
<1> DEFINE h == Heir(b)
           p == Parent[b]
           T == TableWithNode(b)
           garbage == RootTransitioned(h).garbage
<1>0. /\ b \in Blocks \ {Genesis} /\ p \in DOMAIN table
      /\ MoveRoot(RootTransitioned(h), T)
      /\ best_tip' \in Blocks
      BY DEF AddBreadcrumb, SelectedTip, TypeOK
<1>1. /\ b \notin DOMAIN table /\ Height[b] = Height[root] + MaxLength + 1
      /\ h \in DOMAIN table /\ h \in Blocks \ {Genesis}
      /\ h \in Ancestors(b) /\ Parent[h] = root /\ root \in Ancestors(h)
      BY <1>0, OverflowFacts
<1>2. /\ DOMAIN T = DOMAIN table \cup {b}
      /\ T \in [DOMAIN T -> Node]
      /\ T[b].length = table[p].length + 1
      /\ \A x \in DOMAIN table : T[x].length = table[x].length
      /\ \A x \in DOMAIN T : T[x].successor_hashes =
            {c \in DOMAIN T \ {root} : Parent[c] = x}
      BY <1>0, <1>1, TableWithNodeFacts
<1>3. /\ root' = h
      /\ table' = [x \in DOMAIN T \ (garbage \cup {root}) |-> T[x]]
      /\ root_ledger' = NextRootLedger(h)
      /\ protocol_states' = NextProtocolStates(h)
      BY <1>0 DEF MoveRoot, Prune, RootTransitioned
<1>4. /\ DOMAIN table' = DOMAIN T \ (garbage \cup {root})
      /\ \A x \in DOMAIN table' : table'[x] = T[x]
      BY <1>3
<1>5. \A x : x \in DOMAIN table' <=> x \in DOMAIN table \cup {b} /\ h \in Ancestors(x)
      BY <1>0, <1>2, <1>4, SurvivorsDescendFromHeir
<1>6. /\ root \in DOMAIN table /\ DOMAIN table \subseteq Blocks /\ root \in Blocks
      /\ Height[root] \in Nat /\ Height[p] \in Nat /\ Height[b] = Height[p] + 1
      /\ Height[h] = Height[root] + 1
      /\ MaxLength \in Nat
      /\ \A x \in DOMAIN table : table[x].length \in Int /\ Height[x] \in Nat
      BY <1>0, <1>1, BlockTreeAssumption, MaxLengthAssumption
      DEF TypeOK, FrontierIsTree, Node
<1>7. TypeOK'
      <2>1. table' \in [DOMAIN table' -> Node] /\ DOMAIN table' \subseteq Blocks
            BY <1>2, <1>3, <1>4, <1>6
      <2>2. root_ledger' \subseteq Blocks /\ protocol_states' \subseteq Blocks
            BY <1>1, <1>3, BlockTreeAssumption DEF TypeOK, NextRootLedger, NextProtocolStates
      <2> QED
            BY <2>1, <2>2, <1>0, <1>1, <1>3 DEF TypeOK
<1>8. FrontierIsTree'
      <2>1. h \in DOMAIN table'
            BY <1>1, <1>5, AncestorSelf
      <2>2. ASSUME NEW x \in DOMAIN table', NEW a \in Ancestors(x), h \in Ancestors(a)
            PROVE  a \in DOMAIN table'
            <3>1. x \in DOMAIN table \cup {b} /\ x \in Blocks
                  BY <1>5, <1>6, <1>0
            <3>2. a \in Blocks
                  BY <3>1, AncestorSelf
            <3>3. root \in Ancestors(a)
                  BY <2>2, <3>2, <1>1, AncestorTransitive
            <3>4. CASE x \in DOMAIN table
                  BY <3>4, <3>3, <2>2, <1>5 DEF FrontierIsTree
            <3>5. CASE x = b
                  <4>1. a = b \/ a \in Ancestors(p)
                        BY <3>5, <1>0, AncestorUnfold
                  <4>2. a = b \/ a \in DOMAIN table
                        BY <4>1, <3>3, <1>0 DEF FrontierIsTree
                  <4> QED
                        BY <4>2, <2>2, <1>5
            <3> QED
                  BY <3>1, <3>4, <3>5
      <2>3. ASSUME NEW x \in DOMAIN table'
            PROVE  table'[x].length - table'[h].length = Height[x] - Height[h]
            <3>1. table'[x].length = T[x].length /\ table'[h].length = table[h].length
                  BY <2>1, <1>1, <1>2, <1>4
            <3>2. table[h].length - table[root].length = Height[h] - Height[root]
                  BY <1>1 DEF FrontierIsTree
            <3>3. CASE x \in DOMAIN table
                  <4>1. table[x].length - table[root].length = Height[x] - Height[root]
                        BY <3>3 DEF FrontierIsTree
                  <4> QED
                        BY <4>1, <3>1, <3>2, <3>3, <1>1, <1>2, <1>6
            <3>4. CASE x = b
                  <4>1. table[p].length - table[root].length = Height[p] - Height[root]
                        BY <1>0 DEF FrontierIsTree
                  <4> QED
                        BY <4>1, <3>1, <3>2, <3>4, <1>0, <1>1, <1>2, <1>6
            <3> QED
                  BY <3>3, <3>4, <1>5
      <2>4. ASSUME NEW x \in DOMAIN table'
            PROVE  table'[x].successor_hashes = {c \in DOMAIN table' \ {h} : Parent[c] = x}
            <3>1. x \in DOMAIN T /\ x \in Blocks /\ h \in Ancestors(x) /\ x # root
                  BY <1>0, <1>2, <1>4, <1>5, <1>6
            <3>2. table'[x].successor_hashes = {c \in DOMAIN T \ {root} : Parent[c] = x}
                  BY <3>1, <1>2, <1>4
            <3>3. ASSUME NEW c \in DOMAIN T \ {root}, Parent[c] = x
                  PROVE  c \in DOMAIN table' \ {h}
                  <4>1. c \in Blocks \ {Genesis}
                        BY <3>3, <1>0, <1>2, NonRootNode
                  <4>2. h \in Ancestors(c)
                        BY <4>1, <3>1, <3>3, AncestorUnfold
                  <4> QED
                        BY <4>2, <3>1, <3>3, <1>1, <1>2, <1>5
            <3>4. ASSUME NEW c \in DOMAIN table' \ {h}
                  PROVE  c \in DOMAIN T \ {root}
                  BY <1>4
            <3> QED
                  BY <3>2, <3>3, <3>4
      <2> QED
            BY <2>1, <2>2, <2>3, <2>4, <1>3, <1>5 DEF FrontierIsTree
<1>9. BoundedLength'
      <2>1. ASSUME NEW x \in DOMAIN table' PROVE Height[x] - Height[h] <= MaxLength
            <3>1. CASE x = b
                  BY <3>1, <1>1, <1>6
            <3>2. CASE x \in DOMAIN table
                  BY <3>2, <1>6 DEF BoundedLength
            <3> QED
                  BY <3>1, <3>2, <1>5
      <2> QED
            BY <2>1, <1>3 DEF BoundedLength
<1>10. RootLedgerMatchesRoot'
      BY <1>1, <1>3, SnarkedLedgerStep DEF RootLedgerMatchesRoot, NextRootLedger
<1>11. ProtocolStatesSuffice'
      BY <1>1, <1>3, BlockTreeAssumption DEF ProtocolStatesSuffice, NextProtocolStates
<1> QED
      BY <1>3, <1>5, <1>7, <1>8, <1>9, <1>10, <1>11

\* Every step keeps the invariant.
LEMMA NextTreeInv == TreeInv /\ [Next]_vars => TreeInv'
<1>1. SUFFICES ASSUME TreeInv, [Next]_vars PROVE TreeInv'
      OBVIOUS
<1>2. ASSUME NEW b \in Blocks, AddBreadcrumb(b) PROVE TreeInv'
      <2>1. CASE Overflows(b)
            BY <1>1, <1>2, <2>1, MoveRootTreeInv
      <2>2. CASE ~ Overflows(b)
            BY <1>1, <1>2, <2>2, NewNodeTreeInv
      <2> QED
            BY <2>1, <2>2
<1>3. CASE UNCHANGED vars
      BY <1>1, <1>3
      DEF TreeInv, vars, TypeOK, FrontierIsTree, BoundedLength, RootLedgerMatchesRoot,
          ProtocolStatesSuffice
<1> QED
      BY <1>1, <1>2, <1>3 DEF Next

\* The invariant holds in every reachable state.
THEOREM TreeInvariant == Spec => []TreeInv
BY InitTreeInv, NextTreeInv, PTL DEF Spec

\* Type correctness of the frontier's fields.
THEOREM TypeCorrect == Spec => []TypeOK
<1>1. TreeInv => TypeOK
      BY DEF TreeInv
<1> QED
      BY <1>1, TreeInvariant, PTL

\* The table is always a tree of descendants of the root without gaps, whose
\* successor lists and lengths agree with the blocks (add_breadcrumb, move_root).
THEOREM FrontierAlwaysTree == Spec => []FrontierIsTree
<1>1. TreeInv => FrontierIsTree
      BY DEF TreeInv
<1> QED
      BY <1>1, TreeInvariant, PTL

\* No path ever exceeds max_length (the check in calculate_diffs is enough).
THEOREM FrontierAlwaysBounded == Spec => []BoundedLength
<1>1. TreeInv => BoundedLength
      BY DEF TreeInv
<1> QED
      BY <1>1, TreeInvariant, PTL

\* The assertion of move_root on the new snarked ledger never fails.
THEOREM RootLedgerAlwaysMatches == Spec => []RootLedgerMatchesRoot
<1>1. TreeInv => RootLedgerMatchesRoot
      BY DEF TreeInv
<1> QED
      BY <1>1, TreeInvariant, PTL

\* The protocol states kept for the root are always the required ones.
THEOREM ProtocolStatesAlwaysSuffice == Spec => []ProtocolStatesSuffice
<1>1. TreeInv => ProtocolStatesSuffice
      BY DEF TreeInv
<1> QED
      BY <1>1, TreeInvariant, PTL

-----------------------------------------------------------------------------
(* The best tip, inside the short range of the consensus rule *)

\* The best tip stays the strongest node, with or without a root transition: a
\* block that moves the root is longer than every node, so it is selected.
LEMMA NextBestTip ==
    ASSUME ShortRangeSelect, TreeInv, BestTipStrongest,
           NEW b \in Blocks, AddBreadcrumb(b)
    PROVE  /\ BestTipStrongest'
           /\ Overflows(b) => best_tip' = b
<1>0. /\ b \in Blocks \ {Genesis} /\ Parent[b] \in DOMAIN table
      /\ best_tip' = IF Select(best_tip, b) THEN b ELSE best_tip
      /\ best_tip \in DOMAIN table /\ DOMAIN table \subseteq Blocks
      /\ TypeOK /\ FrontierIsTree /\ BoundedLength
      BY DEF AddBreadcrumb, SelectedTip, TypeOK, TreeInv
<1>1. CASE Overflows(b)
      <2>1. /\ b \notin DOMAIN table /\ Height[b] = Height[root] + MaxLength + 1
            /\ Heir(b) \in Ancestors(b)
            BY <1>0, <1>1, OverflowFacts
      <2>2. /\ Height[root] \in Nat /\ MaxLength \in Nat
            /\ \A x \in DOMAIN table : Height[x] \in Nat
            BY <1>0, BlockTreeAssumption, MaxLengthAssumption DEF TypeOK
      <2>3. \A x \in DOMAIN table : Height[x] < Height[b]
            BY <1>0, <2>1, <2>2 DEF BoundedLength
      <2>4. \A x \in DOMAIN table : Select(x, b)
            BY <1>0, <2>3 DEF ShortRangeSelect
      <2>5. best_tip' = b
            BY <1>0, <2>4
      <2>6. \A x : x \in DOMAIN table' <=>
                      x \in DOMAIN table \cup {b} /\ Heir(b) \in Ancestors(x)
            BY <1>1, MoveRootTreeInv
      <2> QED
            BY <2>1, <2>4, <2>5, <2>6 DEF BestTipStrongest
<1>2. CASE ~ Overflows(b)
      <2>1. DOMAIN table' = DOMAIN table \cup {b}
            <3>1. table' = TableWithNode(b)
                  BY <1>2 DEF AddBreadcrumb, SelectedTip
            <3>2. CASE b \in DOMAIN table
                  BY <3>1, <3>2 DEF TableWithNode
            <3>3. CASE b \notin DOMAIN table
                  BY <3>1, <3>3, <1>0, TableWithNodeFacts
            <3> QED
                  BY <3>2, <3>3
      <2>2. CASE Select(best_tip, b)
            <3>1. ASSUME NEW x \in DOMAIN table, x # b PROVE Select(x, b)
                  BY <3>1, <2>2, <1>0 DEF BestTipStrongest, ShortRangeSelect
            <3> QED
                  BY <3>1, <2>1, <2>2, <1>0, <1>2 DEF BestTipStrongest
      <2>3. CASE ~ Select(best_tip, b)
            <3>1. b = best_tip \/ Select(b, best_tip)
                  BY <2>3, <1>0 DEF ShortRangeSelect
            <3> QED
                  BY <3>1, <2>1, <2>3, <1>0, <1>2 DEF BestTipStrongest
      <2> QED
            BY <2>2, <2>3
<1> QED
      BY <1>1, <1>2

\* The best tip is in the frontier and stronger than every other node, so that
\* find_exn on the best tip never raises.
THEOREM BestTipAlwaysStrongest ==
    ASSUME ShortRangeSelect
    PROVE  Spec => []BestTipStrongest
<1> DEFINE Inv == TreeInv /\ BestTipStrongest
<1>1. Init => Inv
      <2>1. Init => BestTipStrongest
            BY DEF Init, Create, BestTipStrongest
      <2> QED
            BY <2>1, InitTreeInv
<1>2. Inv /\ [Next]_vars => Inv'
      <2>1. SUFFICES ASSUME Inv, [Next]_vars PROVE BestTipStrongest'
            BY NextTreeInv
      <2>2. ASSUME NEW b \in Blocks, AddBreadcrumb(b) PROVE BestTipStrongest'
            BY <2>1, <2>2, NextBestTip
      <2>3. CASE UNCHANGED vars
            BY <2>1, <2>3 DEF vars, BestTipStrongest
      <2> QED
            BY <2>1, <2>2, <2>3 DEF Next
<1>3. Inv => BestTipStrongest
      OBVIOUS
<1> QED
      BY <1>1, <1>2, <1>3, PTL DEF Spec

\* A block becomes the root only with exactly max_length blocks on top of it, on
\* the path to the best tip, and only as the successor of the old root.
THEOREM RootMovesOnlyWhenFinal ==
    ASSUME ShortRangeSelect
    PROVE  Spec => FinalityIsMaxLengthDeep
<1> DEFINE Inv == TreeInv /\ BestTipStrongest
           Deep == root' # root =>
                      /\ Parent[root'] = root
                      /\ root' \in Ancestors(best_tip')
                      /\ Height[best_tip'] - Height[root'] = MaxLength
<1>1. Spec => []Inv
      BY TreeInvariant, BestTipAlwaysStrongest, PTL
<1>2. Inv /\ [Next]_vars => [Deep]_vars
      <2>1. SUFFICES ASSUME Inv, NEW b \in Blocks, AddBreadcrumb(b) PROVE Deep
            BY DEF Next
      <2>2. CASE ~ Overflows(b)
            BY <2>1, <2>2 DEF AddBreadcrumb, SelectedTip
      <2>3. CASE Overflows(b)
            <3>1. /\ b \in Blocks \ {Genesis} /\ Parent[b] \in DOMAIN table
                  /\ TypeOK /\ FrontierIsTree /\ BoundedLength
                  BY <2>1 DEF AddBreadcrumb, SelectedTip, TreeInv
            <3>2. /\ Height[b] = Height[root] + MaxLength + 1
                  /\ Heir(b) \in Ancestors(b) /\ Parent[Heir(b)] = root
                  /\ Heir(b) \in Blocks \ {Genesis}
                  BY <3>1, <2>3, OverflowFacts
            <3>3. root' = Heir(b) /\ best_tip' = b
                  BY <2>1, <2>3, MoveRootTreeInv, NextBestTip
            <3>4. Height[Heir(b)] = Height[root] + 1 /\ Height[root] \in Nat /\ MaxLength \in Nat
                  BY <3>1, <3>2, BlockTreeAssumption, MaxLengthAssumption DEF TypeOK
            <3> QED
                  BY <3>2, <3>3, <3>4
      <2> QED
            BY <2>2, <2>3
<1> QED
      BY <1>1, <1>2, PTL DEF Spec, FinalityIsMaxLengthDeep
=============================================================================
