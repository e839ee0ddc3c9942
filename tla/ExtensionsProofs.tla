-------------------------- MODULE ExtensionsProofs --------------------------
(***************************************************************************)
(* Proofs about the frontier's extensions, for every block tree, every     *)
(* max_length and every consensus rule.                                    *)
(***************************************************************************)
EXTENDS Extensions, FullFrontierProofs, FiniteSetTheorems

-----------------------------------------------------------------------------
(* What a step does to the frontier                                        *)

\* The blocks that leave the frontier when b is added.
Gone(b) == IF Overflows(b) THEN {root} \cup RootTransitioned(Heir(b)).garbage ELSE {}

\* A new block replaces the ones that go; it was not there, and its parent stays.
LEMMA FrontierStep ==
    ASSUME TreeInv, NEW b \in Blocks, b \notin DOMAIN table, AddBreadcrumb(b)
    PROVE  /\ TreeInv'
           /\ b \in Blocks \ {Genesis}
           /\ Gone(b) \subseteq DOMAIN table
           /\ DOMAIN table' = (DOMAIN table \ Gone(b)) \cup {b}
           /\ Parent[b] \in DOMAIN table \ Gone(b)
           /\ best_tip \in DOMAIN table
<1>0. /\ b \in Blocks \ {Genesis} /\ Parent[b] \in DOMAIN table /\ best_tip \in DOMAIN table
      /\ TypeOK /\ FrontierIsTree /\ BoundedLength
      BY DEF AddBreadcrumb, TreeInv
<1>1. DOMAIN TableWithNode(b) = DOMAIN table \cup {b}
      BY <1>0, TableWithNodeFacts
<1>2. CASE ~ Overflows(b)
      BY <1>0, <1>1, <1>2, NewNodeTreeInv DEF AddBreadcrumb, Gone
<1>3. CASE Overflows(b)
      <2>1. /\ TreeInv'
            /\ \A x : x \in DOMAIN table' <=>
                         x \in DOMAIN table \cup {b} /\ Heir(b) \in Ancestors(x)
            BY <1>3, MoveRootTreeInv
      <2>2. root \in DOMAIN table /\ RootTransitioned(Heir(b)).garbage \subseteq DOMAIN table
            BY <1>0 DEF FrontierIsTree, RootTransitioned, Subtree
      <2>3. Gone(b) = {root} \cup RootTransitioned(Heir(b)).garbage
            BY <1>3 DEF Gone
      <2>4. table' = Prune(TableWithNode(b), Gone(b))
            BY <1>3, <2>3 DEF AddBreadcrumb, MoveRoot
      <2>5. DOMAIN table' = (DOMAIN table \ Gone(b)) \cup {b}
            BY <1>1, <2>2, <2>3, <2>4 DEF Prune
      <2>6. Heir(b) \in DOMAIN table /\ Heir(b) \in Ancestors(b)
            BY <1>0, <1>3, OverflowFacts
      <2>7. Heir(b) \in Ancestors(Parent[b])
            BY <1>0, <2>6, AncestorUnfold
      <2>8. Parent[b] \in DOMAIN table'
            BY <1>0, <2>1, <2>7
      <2>9. Parent[b] # b
            BY <1>0
      <2> QED
            BY <1>0, <2>1, <2>2, <2>3, <2>5, <2>8, <2>9
<1> QED
      BY <1>2, <1>3

\* A block that is not in the frontier is no ancestor of a node, if its parent is one.
LEMMA NewBlockIsNoAncestor ==
    ASSUME TreeInv, NEW b \in Blocks \ {Genesis}, b \notin DOMAIN table,
           Parent[b] \in DOMAIN table, NEW c \in DOMAIN table
    PROVE  b \notin Ancestors(c)
<1>1. root \in Ancestors(b)
      BY AncestorUnfold DEF TreeInv, FrontierIsTree
<1> QED
      BY <1>1 DEF TreeInv, FrontierIsTree

-----------------------------------------------------------------------------
(* Root history                                                            *)

\* Each block of the path is the parent of the next.
Linked(P) == \A i \in 1 .. Len(P) - 1 : P[i + 1] # Genesis /\ Parent[P[i + 1]] = P[i]

\* What the scan state of a block of the path requires and the scan state of an
\* earlier one does not is a block between the two.
RequiredAlong(P) ==
    \A i, j \in 1 .. Len(P) : i <= j =>
        \A x \in RequiredStates[P[j]] :
            x \in RequiredStates[P[i]] \/ \E m \in i .. j - 1 : P[m] = x

\* The historical roots and the current one.
Path == Append(history, root)

\* The inductive invariant of the root history.
HistoryInv ==
    /\ history \in Seq(Blocks) /\ root \in Blocks /\ current_root = root
    /\ Len(history) <= Capacity
    /\ Linked(Path)
    /\ history_states = RequiredStates[Path[1]]
    /\ RequiredAlong(Path)

\* A path without its first block is a path.
LEMMA PathTail ==
    ASSUME NEW P \in Seq(Blocks), Len(P) >= 2, Linked(P), RequiredAlong(P),
           NEW Q \in Seq(Blocks), Len(Q) = Len(P) - 1,
           \A i \in 1 .. Len(Q) : Q[i] = P[i + 1]
    PROVE  Linked(Q) /\ RequiredAlong(Q)
<1>1. Linked(Q)
      <2> SUFFICES ASSUME NEW i \in 1 .. Len(Q) - 1
                   PROVE  Q[i + 1] # Genesis /\ Parent[Q[i + 1]] = Q[i]
            BY DEF Linked
      <2>1. i + 1 \in 1 .. Len(P) - 1 /\ Q[i] = P[i + 1] /\ Q[i + 1] = P[(i + 1) + 1]
            OBVIOUS
      <2> QED
            BY <2>1 DEF Linked
<1>2. RequiredAlong(Q)
      <2> SUFFICES ASSUME NEW i \in 1 .. Len(Q), NEW j \in 1 .. Len(Q), i <= j,
                          NEW x \in RequiredStates[Q[j]], x \notin RequiredStates[Q[i]]
                   PROVE  \E m \in i .. j - 1 : Q[m] = x
            BY DEF RequiredAlong
      <2>1. /\ i + 1 \in 1 .. Len(P) /\ j + 1 \in 1 .. Len(P) /\ i + 1 <= j + 1
            /\ Q[i] = P[i + 1] /\ Q[j] = P[j + 1]
            OBVIOUS
      <2>2. PICK m \in (i + 1) .. ((j + 1) - 1) : P[m] = x
            <3>1. PICK a \in 1 .. Len(P), c \in 1 .. Len(P) : a = i + 1 /\ c = j + 1
                  BY <2>1
            <3>2. a <= c /\ x \in RequiredStates[P[c]] /\ x \notin RequiredStates[P[a]]
                  BY <2>1, <3>1
            <3>3. \E m \in a .. c - 1 : P[m] = x
                  BY <3>2 DEF RequiredAlong
            <3> QED
                  BY <3>1, <3>3
      <2>3. m - 1 \in i .. j - 1 /\ Q[m - 1] = P[m]
            BY <2>2
      <2> QED
            BY <2>2, <2>3
<1> QED
      BY <1>1, <1>2

\* A path grows by a block whose parent is its end.
LEMMA PathAppend ==
    ASSUME NEW P \in Seq(Blocks), Len(P) >= 1, Linked(P), RequiredAlong(P),
           NEW h \in Blocks \ {Genesis}, Parent[h] = P[Len(P)]
    PROVE  Linked(Append(P, h)) /\ RequiredAlong(Append(P, h))
<1>0. PICK Q : Q = Append(P, h)
      OBVIOUS
<1>1. /\ Q \in Seq(Blocks) /\ Len(Q) = Len(P) + 1 /\ Q[Len(P) + 1] = h
      /\ \A i \in 1 .. Len(P) : Q[i] = P[i]
      BY <1>0
<1>2. Linked(Q)
      <2> SUFFICES ASSUME NEW i \in 1 .. Len(P)
                   PROVE  Q[i + 1] # Genesis /\ Parent[Q[i + 1]] = Q[i]
            BY <1>1 DEF Linked
      <2>1. CASE i = Len(P)
            BY <1>1, <2>1
      <2>2. CASE i < Len(P)
            BY <1>1, <2>2 DEF Linked
      <2> QED
            BY <2>1, <2>2
<1>3. RequiredStates[h] \subseteq RequiredStates[P[Len(P)]] \cup {P[Len(P)]}
      BY BlockTreeAssumption
<1>4. RequiredAlong(Q)
      <2> SUFFICES ASSUME NEW i \in 1 .. Len(P) + 1, NEW j \in 1 .. Len(P) + 1, i <= j,
                          NEW x \in RequiredStates[Q[j]], x \notin RequiredStates[Q[i]]
                   PROVE  \E m \in i .. j - 1 : Q[m] = x
            BY <1>1 DEF RequiredAlong
      <2>1. CASE j <= Len(P)
            <3>1. PICK m \in i .. j - 1 : P[m] = x
                  BY <1>1, <2>1 DEF RequiredAlong
            <3> QED
                  BY <1>1, <2>1, <3>1
      <2>2. CASE j = Len(P) + 1
            <3>1. i \in 1 .. Len(P) /\ Q[i] = P[i] /\ Q[j] = h
                  BY <1>1, <2>2
            <3>2. CASE x = P[Len(P)]
                  BY <1>1, <2>2, <3>1, <3>2
            <3>3. CASE x \in RequiredStates[P[Len(P)]]
                  <4>1. PICK m \in i .. Len(P) - 1 : P[m] = x
                        BY <3>1, <3>3 DEF RequiredAlong
                  <4> QED
                        BY <1>1, <2>2, <3>1, <4>1
            <3> QED
                  BY <1>3, <3>1, <3>2, <3>3
      <2> QED
            BY <2>1, <2>2
<1> QED
      BY <1>0, <1>2, <1>4

\* Root_history.enqueue keeps the history, full or not.
LEMMA EnqueueHistory ==
    ASSUME HistoryInv, NEW h \in Blocks \ {Genesis}, Parent[h] = root,
           Enqueue(h), root' = h
    PROVE  HistoryInv'
<1>0. /\ history \in Seq(Blocks) /\ root \in Blocks /\ current_root = root
      /\ Len(history) \in Nat /\ Len(history) <= Capacity
      /\ MaxLength \in Nat \ {0} /\ Capacity \in Nat /\ Capacity >= 2
      /\ history_states = RequiredStates[Path[1]]
      BY MaxLengthAssumption DEF HistoryInv, Capacity
<1>1. /\ Path \in Seq(Blocks) /\ Len(Path) = Len(history) + 1 /\ Path[Len(Path)] = root
      /\ \A i \in 1 .. Len(history) : Path[i] = history[i]
      BY <1>0 DEF Path
<1>3. Linked(Path) /\ RequiredAlong(Path)
      BY DEF HistoryInv
<1>4. CASE Len(history) < Capacity
      <2>1. history' = Path /\ current_root' = h /\ history_states' = history_states
            BY <1>0, <1>4 DEF Enqueue, Path
      <2>2. Path' = Append(Path, h) /\ Append(Path, h)[1] = Path[1]
            <3>1. Path' = Append(Path, h)
                  BY <2>1 DEF Path
            <3> HIDE DEF Path
            <3> QED
                  BY <1>0, <1>1, <3>1
      <2>3. Linked(Append(Path, h)) /\ RequiredAlong(Append(Path, h))
            BY <1>0, <1>1, <1>3, PathAppend
      <2> QED
            BY <1>0, <1>1, <1>4, <2>1, <2>2, <2>3 DEF HistoryInv, Capacity
<1>5. CASE Len(history) >= Capacity
      <2>1. /\ history' = Append(Tail(history), root) /\ current_root' = h
            /\ history_states' = RequiredStates[history[2]] \cap (history_states \cup {history[1]})
            BY <1>0, <1>5 DEF Enqueue, NextHistoryStates
      <2>2. /\ history' \in Seq(Blocks) /\ Len(history') = Len(history)
            /\ \A i \in 1 .. Len(history) - 1 : history'[i] = history[i + 1]
            /\ history'[Len(history)] = root
            BY <1>0, <1>5, <2>1
      <2>3. \A i \in 1 .. Len(history') : history'[i] = Path[i + 1]
            BY <1>0, <1>1, <2>2
      <2>4. Linked(history') /\ RequiredAlong(history')
            BY <1>0, <1>1, <1>3, <1>5, <2>2, <2>3, PathTail
      <2>5. Path' = Append(history', h) /\ Append(history', h)[1] = history'[1]
            BY <1>0, <1>5, <2>2 DEF Path
      <2>6. Linked(Append(history', h)) /\ RequiredAlong(Append(history', h))
            BY <1>0, <1>5, <2>2, <2>4, PathAppend
      <2>7. history'[1] = history[2] /\ Path[2] = history[2] /\ Path[1] = history[1]
            BY <1>0, <1>1, <1>5, <2>2
      <2>8. history[2] \in Blocks \ {Genesis} /\ Parent[history[2]] = history[1]
            BY <1>0, <1>1, <1>3, <1>5, <2>7 DEF Linked
      <2>9. history_states' = RequiredStates[history'[1]]
            BY <1>0, <2>1, <2>7, <2>8, BlockTreeAssumption
      <2> QED
            BY <1>0, <2>1, <2>2, <2>5, <2>6, <2>9 DEF HistoryInv, Capacity
<1> QED
      BY <1>0, <1>4, <1>5

\* The history of roots at the start.
LEMMA HistoryInit == ExtensionsInit => HistoryInv
<1> SUFFICES ASSUME ExtensionsInit PROVE HistoryInv
      OBVIOUS
<1>1. root \in Blocks /\ history = <<>> /\ protocol_states = RequiredStates[root]
      BY DEF ExtensionsInit, Init, Create
<1>2. Path = <<root>>
      BY <1>1 DEF Path
<1>3. Linked(Path) /\ RequiredAlong(Path)
      BY <1>2 DEF Linked, RequiredAlong
<1> QED
      BY <1>1, <1>2, <1>3, MaxLengthAssumption DEF HistoryInv, ExtensionsInit, Capacity

\* The invariant says that the history is a chain.
LEMMA HistoryIsChain == HistoryInv => HistoryIsChainOfRoots
<1> SUFFICES ASSUME HistoryInv PROVE HistoryIsChainOfRoots
      OBVIOUS
<1>1. /\ history \in Seq(Blocks) /\ Len(history) \in Nat
      /\ Len(Path) = Len(history) + 1 /\ Path[Len(history) + 1] = root
      /\ \A i \in 1 .. Len(history) : Path[i] = history[i]
      BY DEF HistoryInv, Path
<1>2. ASSUME NEW i \in DOMAIN history
      PROVE  Parent[IF i = Len(history) THEN root ELSE history[i + 1]] = history[i]
      <2>1. i \in 1 .. Len(Path) - 1 /\ i \in 1 .. Len(history)
            BY <1>1
      <2>2. Parent[Path[i + 1]] = Path[i]
            BY <2>1 DEF HistoryInv, Linked
      <2> QED
            BY <1>1, <2>1, <2>2
<1> QED
      BY <1>2 DEF HistoryIsChainOfRoots, HistoryInv

\* And that what a historical root requires is found.
LEMMA HistoryServes == HistoryInv => HistoryCanBeServed
<1> SUFFICES ASSUME HistoryInv, NEW i \in DOMAIN history,
                    NEW x \in RequiredStates[history[i]]
             PROVE  x \in ToSet(history) \cup history_states
      BY DEF HistoryCanBeServed, ProtocolStatesFor
<1>1. /\ history \in Seq(Blocks) /\ Len(history) \in Nat
      /\ DOMAIN Path = 1 .. Len(history) + 1
      /\ \A j \in 1 .. Len(history) : Path[j] = history[j]
      BY DEF HistoryInv, Path
<1>2. i \in 1 .. Len(history) /\ i \in DOMAIN Path /\ 1 \in DOMAIN Path /\ 1 <= i
      BY <1>1
<1>3. CASE x \in RequiredStates[Path[1]]
      BY <1>3 DEF HistoryInv
<1>4. CASE x \notin RequiredStates[Path[1]]
      <2>1. PICK m \in 1 .. i - 1 : Path[m] = x
            BY <1>1, <1>2, <1>4 DEF HistoryInv, RequiredAlong
      <2>2. m \in DOMAIN history /\ history[m] = x
            BY <1>1, <1>2, <2>1
      <2> QED
            BY <2>2 DEF ToSet
<1> QED
      BY <1>3, <1>4

-----------------------------------------------------------------------------
(* Snark pool refcount                                                     *)

\* The inductive invariant of the reference counts.
CountInv ==
    /\ IsFiniteSet(DOMAIN table)
    /\ refcount_map \in [Work -> Nat]
    /\ RefcountIsExact

\* Counting references when the blocks G leave S and b joins.
LEMMA ReferencesAddUp ==
    ASSUME NEW w, NEW S, IsFiniteSet(S), NEW G \in SUBSET S, NEW b, b \notin S
    PROVE  /\ References(w, S) \in Nat /\ References(w, G) \in Nat
           /\ References(w, (S \ G) \cup {b}) \in Nat
           /\ References(w, (S \ G) \cup {b}) =
                References(w, S) - References(w, G) + References(w, {b})
           /\ References(w, G) > 0 <=> \E c \in G : w \in Works[c]
           /\ References(w, G) = References(w, S) <=> \A c \in S : w \in Works[c] => c \in G
<1> DEFINE A == {c \in S : w \in Works[c]}
           B == {c \in G : w \in Works[c]}
           N == {c \in {b} : w \in Works[c]}
           C == {c \in (S \ G) \cup {b} : w \in Works[c]}
<1>1. /\ References(w, S) = Cardinality(A) /\ References(w, G) = Cardinality(B)
      /\ References(w, {b}) = Cardinality(N)
      /\ References(w, (S \ G) \cup {b}) = Cardinality(C)
      BY DEF References
<1>2. A \in SUBSET S /\ B \in SUBSET A /\ A \cap B = B /\ C = (A \ B) \cup N /\ (A \ B) \cap N = {}
      OBVIOUS
<1>3. IsFiniteSet(A) /\ IsFiniteSet(B) /\ IsFiniteSet(N)
      <2>1. IsFiniteSet({b}) /\ N \in SUBSET {b}
            BY FS_Singleton
      <2> HIDE DEF A, B, N, C
      <2>2. IsFiniteSet(A)
            BY <1>2, FS_Subset
      <2> QED
            BY <1>2, <2>1, <2>2, FS_Subset
<1> HIDE DEF A, B, N, C
<1>4. IsFiniteSet(A \ B) /\ Cardinality(A \ B) = Cardinality(A) - Cardinality(B)
      BY <1>2, <1>3, FS_Difference
<1>5. IsFiniteSet(C) /\ Cardinality(C) = Cardinality(A \ B) + Cardinality(N) - Cardinality({})
      BY <1>2, <1>3, <1>4, FS_Union
<1>6. /\ Cardinality({}) = 0 /\ Cardinality(A) \in Nat /\ Cardinality(B) \in Nat
      /\ Cardinality(N) \in Nat /\ Cardinality(C) \in Nat
      BY <1>3, <1>5, FS_CardinalityType, FS_EmptySet
<1>7. Cardinality(B) > 0 <=> B # {}
      BY <1>3, <1>6, FS_EmptySet
<1>8. Cardinality(B) = Cardinality(A) <=> A = B
      BY <1>2, <1>3, FS_Subset
<1>9. B # {} <=> \E c \in G : w \in Works[c]
      BY DEF B
<1>10. A = B <=> \A c \in S : w \in Works[c] => c \in G
      BY DEF A, B
<1> QED
      BY <1>1, <1>4, <1>5, <1>6, <1>7, <1>8, <1>9, <1>10

\* handle_diffs of the refcount, on what leaves and joins the frontier.
LEMMA CountWorkStep ==
    ASSUME TreeInv, CountInv, NEW b \in Blocks, b \notin DOMAIN table, AddBreadcrumb(b),
           CountWork(b, Gone(b))
    PROVE  /\ CountInv'
           /\ removed_work' = Referenced(DOMAIN table)
                                \ Referenced(DOMAIN table \cap DOMAIN table')
<1> DEFINE S == DOMAIN table
           G == Gone(b)
<1>0. /\ b \in Blocks \ {Genesis} /\ G \in SUBSET S /\ S \subseteq Blocks /\ b \notin S
      /\ DOMAIN table' = (S \ G) \cup {b}
      /\ Parent[b] \in S \ G
      BY FrontierStep DEF TreeInv, TypeOK
<1>1. IsFiniteSet(S) /\ refcount_map \in [Work -> Nat] /\ \A w \in Work : refcount_map[w] = References(w, S)
      BY DEF CountInv, RefcountIsExact
<1>2. IsFiniteSet(DOMAIN table')
      <2>1. IsFiniteSet(S \ G)
            BY <1>1, FS_Difference
      <2> QED
            BY <1>0, <2>1, FS_AddElement
<1>3. \A w : /\ References(w, S) \in Nat /\ References(w, G) \in Nat
             /\ References(w, DOMAIN table') \in Nat
             /\ References(w, DOMAIN table') =
                  References(w, S) - References(w, G) + References(w, {b})
             /\ References(w, G) > 0 <=> \E c \in G : w \in Works[c]
             /\ References(w, G) = References(w, S) <=> \A c \in S : w \in Works[c] => c \in G
      <2> HIDE DEF S, G
      <2>1. ASSUME NEW w
            PROVE  /\ References(w, S) \in Nat /\ References(w, G) \in Nat
                   /\ References(w, (S \ G) \cup {b}) \in Nat
                   /\ References(w, (S \ G) \cup {b}) =
                        References(w, S) - References(w, G) + References(w, {b})
                   /\ References(w, G) > 0 <=> \E c \in G : w \in Works[c]
                   /\ References(w, G) = References(w, S)
                        <=> \A c \in S : w \in Works[c] => c \in G
            BY <1>0, <1>1, ReferencesAddUp
      <2> QED
            BY <1>0, <2>1, Zenon
<1>4. \A w \in Work : refcount_map[w] - References(w, G) + References(w, {b})
                          = References(w, DOMAIN table')
      BY <1>1, <1>3
<1>5. refcount_map' = [w \in Work |-> References(w, DOMAIN table')]
      BY <1>4 DEF CountWork
<1>6. CountInv'
      BY <1>2, <1>3, <1>5 DEF CountInv, RefcountIsExact, References
<1>7. S \cap DOMAIN table' = S \ G
      BY <1>0
<1>8. Dropped(G) = {w \in Work : /\ \E c \in G : w \in Works[c]
                                 /\ \A c \in S : w \in Works[c] => c \in G}
      BY <1>1, <1>3 DEF Dropped
<1>9. Referenced(S) \subseteq Work
      BY <1>0 DEF Referenced, Work
<1>10. Dropped(G) = Referenced(S) \ Referenced(S \cap DOMAIN table')
      <2> HIDE DEF S, G
      <2> QED
            BY <1>0, <1>7, <1>8, <1>9 DEF Referenced
<1> QED
      BY <1>6, <1>10 DEF CountWork

-----------------------------------------------------------------------------
(* Best tip diff                                                           *)

\* The inductive invariant of the best chain: whatever the views have added up to,
\* nothing in it is off the path to the best tip.
ChainInv ==
    /\ raised \in BOOLEAN
    /\ ~ raised => best_chain \subseteq Ancestors(best_tip) /\ BestTipDiffFollowsBestChain

\* A best tip diff, or its absence, keeps the best chain.
LEMMA ReportBestTipStep ==
    ASSUME TreeInv, ChainInv, NEW b \in Blocks, b \notin DOMAIN table, AddBreadcrumb(b),
           ReportBestTip(b), ~ raised
    PROVE  ChainInv'
<1>0. /\ b \in Blocks \ {Genesis} /\ DOMAIN table \subseteq Blocks
      /\ DOMAIN table' = (DOMAIN table \ Gone(b)) \cup {b}
      /\ Parent[b] \in DOMAIN table
      /\ best_tip \in DOMAIN table
      BY FrontierStep DEF TreeInv, TypeOK
<1>1. b \notin Ancestors(best_tip) /\ b \in Ancestors(b)
      BY <1>0, NewBlockIsNoAncestor, AncestorSelf
<1>2. /\ best_chain \subseteq Ancestors(best_tip)
      /\ \A a \in DOMAIN table : a \in best_chain <=> a \in Ancestors(best_tip)
      BY <1>0 DEF ChainInv, BestTipDiffFollowsBestChain
<1>3. CASE ~ Select(best_tip, b)
      <2>1. best_tip' = best_tip /\ best_chain' = best_chain /\ raised' = raised
            BY <1>3 DEF AddBreadcrumb, SelectedTip, ReportBestTip
      <2> QED
            BY <1>0, <1>1, <1>2, <2>1 DEF ChainInv, BestTipDiffFollowsBestChain
<1>4. CASE Select(best_tip, b) /\ best_tip \notin DOMAIN table'
      <2>1. raised' = TRUE
            BY <1>4 DEF ReportBestTip
      <2> QED
            BY <2>1 DEF ChainInv, BestTipDiffFollowsBestChain
<1>5. CASE Select(best_tip, b) /\ best_tip \in DOMAIN table'
      <2>1. /\ best_tip' = b /\ raised' = raised
            /\ best_chain' = (best_chain \ (Ancestors(best_tip) \ Ancestors(b)))
                                \cup (Ancestors(b) \ Ancestors(best_tip))
            BY <1>5 DEF AddBreadcrumb, SelectedTip, ReportBestTip
      <2>2. best_chain' \subseteq Ancestors(b)
            BY <1>2, <2>1
      <2>3. \A a \in DOMAIN table' : a \in best_chain' <=> a \in Ancestors(b)
            BY <1>0, <1>1, <1>2, <2>1
      <2> QED
            BY <2>1, <2>2, <2>3 DEF ChainInv, BestTipDiffFollowsBestChain
<1> QED
      BY <1>3, <1>4, <1>5

-----------------------------------------------------------------------------
(* The extensions together                                                 *)

\* The inductive invariant of the frontier with its extensions.
ExtensionsInv == TreeInv /\ HistoryInv /\ CountInv /\ ChainInv

\* It holds when the extensions are created.
LEMMA InitExtensionsInv == ExtensionsInit => ExtensionsInv
<1> SUFFICES ASSUME ExtensionsInit PROVE ExtensionsInv
      OBVIOUS
<1>1. TreeInv /\ HistoryInv
      BY InitTreeInv, HistoryInit DEF ExtensionsInit
<1>2. /\ DOMAIN table = {root} /\ best_tip = root /\ root \in Blocks
      /\ refcount_map = [w \in Work |-> References(w, {root})]
      /\ best_chain = {root} /\ raised = FALSE
      BY DEF ExtensionsInit, Init, Create
<1>3. CountInv
      <2>1. IsFiniteSet({root})
            BY FS_Singleton
      <2>2. \A w : References(w, {root}) \in Nat
            <3> SUFFICES ASSUME NEW w PROVE References(w, {root}) \in Nat
                  OBVIOUS
            <3>1. {c \in {root} : w \in Works[c]} \in SUBSET {root}
                  OBVIOUS
            <3>2. IsFiniteSet({c \in {root} : w \in Works[c]})
                  BY <2>1, <3>1, FS_Subset
            <3> QED
                  BY <3>2, FS_CardinalityType DEF References
      <2> QED
            BY <1>2, <2>1, <2>2 DEF CountInv, RefcountIsExact
<1>4. ChainInv
      BY <1>2, AncestorSelf DEF ChainInv, BestTipDiffFollowsBestChain
<1> QED
      BY <1>1, <1>3, <1>4 DEF ExtensionsInv

\* Every added breadcrumb keeps it, and reports the right work as removed.
LEMMA NextExtensionsInv ==
    ASSUME ExtensionsInv, NEW b \in Blocks, AddAndNotify(b)
    PROVE  /\ ExtensionsInv'
           /\ removed_work' = Referenced(DOMAIN table)
                                \ Referenced(DOMAIN table \cap DOMAIN table')
<1>0. /\ ~ raised /\ b \notin DOMAIN table /\ AddBreadcrumb(b) /\ ReportBestTip(b)
      /\ CountWork(b, Gone(b))
      /\ TreeInv /\ HistoryInv /\ CountInv /\ ChainInv
      BY DEF AddAndNotify, ExtensionsInv, Gone
<1>1. TreeInv'
      BY <1>0, FrontierStep
<1>2. HistoryInv'
      <2>1. CASE Overflows(b)
            <3>1. /\ b \in Blocks \ {Genesis} /\ Parent[b] \in DOMAIN table
                  /\ TypeOK /\ FrontierIsTree /\ BoundedLength
                  BY <1>0 DEF AddBreadcrumb, TreeInv
            <3>2. PICK h \in Blocks \ {Genesis} : h = Heir(b) /\ Parent[h] = root
                  BY <2>1, <3>1, OverflowFacts
            <3>3. root' = h
                  BY <1>0, <2>1, <3>2, MoveRootTreeInv
            <3>4. Enqueue(h)
                  BY <2>1, <3>2 DEF AddAndNotify
            <3> QED
                  BY <1>0, <3>2, <3>3, <3>4, EnqueueHistory
      <2>2. CASE ~ Overflows(b)
            <3>1. UNCHANGED <<root, history, current_root, history_states>>
                  BY <2>2 DEF AddAndNotify, AddBreadcrumb, root_history
            <3> QED
                  BY <1>0, <3>1 DEF HistoryInv, Path
      <2> QED
            BY <2>1, <2>2
<1>3. /\ CountInv'
      /\ removed_work' = Referenced(DOMAIN table) \ Referenced(DOMAIN table \cap DOMAIN table')
      BY <1>0, CountWorkStep
<1>4. ChainInv'
      BY <1>0, ReportBestTipStep
<1> QED
      BY <1>1, <1>2, <1>3, <1>4 DEF ExtensionsInv

\* The inductive invariant holds in every reachable state.
THEOREM ExtensionsInvariant == ExtensionsSpec => []ExtensionsInv
<1>1. ExtensionsInv /\ [ExtensionsNext]_xvars => ExtensionsInv'
      <2> SUFFICES ASSUME ExtensionsInv, [ExtensionsNext]_xvars PROVE ExtensionsInv'
            OBVIOUS
      <2>1. CASE ExtensionsNext
            BY <2>1, NextExtensionsInv DEF ExtensionsNext
      <2>2. CASE UNCHANGED xvars
            BY <2>2 DEF xvars, vars, root_history, snark_pool_refcount, best_tip_diff,
                ExtensionsInv, TreeInv, TypeOK, FrontierIsTree, BoundedLength,
                RootLedgerMatchesRoot, ProtocolStatesSuffice, HistoryInv, Path, CountInv,
                RefcountIsExact, ChainInv, BestTipDiffFollowsBestChain
      <2> QED
            BY <2>1, <2>2
<1> QED
      BY <1>1, InitExtensionsInv, PTL DEF ExtensionsSpec

\* The assertion of enqueue never fails: the history is the chain of the last roots.
THEOREM HistoryAlwaysChain == ExtensionsSpec => []HistoryIsChainOfRoots
<1>1. ExtensionsInv => HistoryIsChainOfRoots
      BY HistoryIsChain DEF ExtensionsInv
<1> QED
      BY <1>1, ExtensionsInvariant, PTL

\* protocol_states_for_scan_state finds whatever the scan state of a historical root
\* requires, although only the states of the oldest root are kept beside the history.
THEOREM HistoryAlwaysServes == ExtensionsSpec => []HistoryCanBeServed
<1>1. ExtensionsInv => HistoryCanBeServed
      BY HistoryServes DEF ExtensionsInv
<1> QED
      BY <1>1, ExtensionsInvariant, PTL

\* The reference counts are exact, so remove_from_table never meets unknown work.
THEOREM RefcountAlwaysExact == ExtensionsSpec => []RefcountIsExact
<1>1. ExtensionsInv => RefcountIsExact
      BY DEF ExtensionsInv, CountInv
<1> QED
      BY <1>1, ExtensionsInvariant, PTL

\* What a step reports as removed is the work that the blocks which stay do not refer
\* to, no more and no less, whatever forks share.
THEOREM RemovedWorkAlwaysUnreferenced == ExtensionsSpec => RemovedWorkIsUnreferenced
<1> DEFINE Right == removed_work' = Referenced(DOMAIN table)
                                      \ Referenced(DOMAIN table \cap DOMAIN table')
<1>1. ExtensionsInv /\ [ExtensionsNext]_xvars => [Right]_xvars
      BY NextExtensionsInv DEF ExtensionsNext
<1> QED
      BY <1>1, ExtensionsInvariant, PTL DEF ExtensionsSpec, RemovedWorkIsUnreferenced

\* Until a notification raises, the views of best_tip_diff add up to the best chain:
\* the lookup of an old best tip that is garbage is the only thing that goes wrong.
THEOREM BestTipDiffFollowsUntilRaised ==
    ExtensionsSpec => [](~ raised => BestTipDiffFollowsBestChain)
<1>1. ExtensionsInv => (~ raised => BestTipDiffFollowsBestChain)
      BY DEF ExtensionsInv, ChainInv
<1> QED
      BY <1>1, ExtensionsInvariant, PTL
=============================================================================
