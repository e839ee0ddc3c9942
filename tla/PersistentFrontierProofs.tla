---------------------- MODULE PersistentFrontierProofs ----------------------
(***************************************************************************)
(* Proofs about the frontier and what it keeps on disk, for every block    *)
(* tree, max_length, flush capacity and interleaving of blocks, worker,    *)
(* crashes, loads and bootstraps, as long as no block is handed in twice.  *)
(***************************************************************************)
EXTENDS PersistentFrontier, FullFrontierProofs, FiniteSetTheorems, NaturalsInduction,
        SequenceTheorems

(***************************************************************************)
(* Three copies of the frontier matter: the database, the copy the worker  *)
(* is about to write (the diffs in flight applied to the database), and    *)
(* the frontier in memory.  The invariant relates each to the next.        *)
(***************************************************************************)

\* A copy that is a tree: what it stores is fixed by its root, its nodes and its
\* best tip.
IsTree(s) ==
    /\ s.transitions \subseteq Blocks /\ s \in Database(s.transitions)
    /\ s.root \in s.transitions
    /\ \A b \in s.transitions :
          /\ s.root \in Ancestors(b)
          /\ \A a \in Ancestors(b) : s.root \in Ancestors(a) => a \in s.transitions
    /\ s.arcs = [h \in s.transitions |->
                    {c \in s.transitions \ {s.root} : Parent[c] = h}]
    /\ s.protocol_states = RequiredStates[s.root]

\* BoundedLength, for a copy.
Fits(s) == \A b \in s.transitions : Height[b] - Height[s.root] <= MaxLength

\* BestTipStrongest, for a copy.
TipStrongest(s) ==
    /\ s.best_tip \in s.transitions
    /\ \A b \in s.transitions \ {s.best_tip} : Select(b, s.best_tip)

\* The diffs that calculate_diffs makes.
Diff ==
    [type : {"New_node"}, block : Blocks \ {Genesis}]
    \cup [type : {"Best_tip_changed"}, block : Blocks]
    \cup [type : {"Root_transitioned"}, new_root : Blocks, garbage : SUBSET Blocks,
          just_emitted_a_proof : BOOLEAN]

\* What a batch removes, also when the root does not move.
Gone(s, diffs) == IF RootTransitions(diffs) = {} THEN {} ELSE Removed(s, diffs)

\* Applied as one compressed batch to the tree s, the diffs give the tree t.  The
\* rest is what another diff needs: every parent is there when its child comes,
\* nothing that is gone descends from the root, and the ledger of the root changes
\* exactly when a proof is emitted.
Pending(s, diffs, t) ==
    /\ IsTree(s) /\ IsTree(t)
    /\ diffs \in Seq(Diff)
    /\ t = ApplyBatch(s, diffs)
    /\ ParentsToRead(diffs) \subseteq s.transitions
    /\ ~ CacheMiss(diffs)
    /\ RootTransitions(diffs) # {} => Max(RootTransitions(diffs)) \in RootTransitions(diffs)
    /\ BestTipChanges(diffs) # {} => Max(BestTipChanges(diffs)) \in BestTipChanges(diffs)
    /\ \A x \in Gone(s, diffs) : x \in Blocks /\ t.root \notin Ancestors(x)
    /\ s.root \in Ancestors(t.root)
    /\ Emitted(diffs) \in Nat
    /\ Emitted(diffs) = 0 => SnarkedLedger(s.root) = SnarkedLedger(t.root)
    /\ Emitted(diffs) # 0 => s.root # t.root

\* Applied one by one to s, the diffs give t.
ReplaysTo(s, diffs, t) ==
    \E copy : /\ copy[0] = s
              /\ copy[Len(diffs)] = t
              /\ \A i \in 1 .. Len(diffs) : copy[i] = Replay(copy[i - 1], diffs[i])

\* The copy the worker is about to write.
Mid == ApplyBatch(db, flight)

\* The frontier in memory and the two copies behind it.
CopiesInv ==
    /\ TreeInv
    /\ Pending(db, flight, Mid) /\ ReplaysTo(db, flight, Mid)
    /\ Pending(Mid, buffer, FrontierAsDatabase) /\ ReplaysTo(Mid, buffer, FrontierAsDatabase)
    /\ Fits(db) /\ Fits(Mid)

\* The checkpoint that the root transition under way has enqueued.
Extra == IF phase = "enqueued" /\ Heir(subject) \in EmitsProof THEN 1 ELSE 0

\* A queue with a checkpoint for each of e1 proofs, of which d have been dequeued,
\* then of e2 proofs, then of x, which is at most one.  The first checkpoint of
\* each group is the ledger its root transitions start from.
QueueFits(queue, d, e1, e2, x, ledger1, ledger2, ledger3) ==
    /\ queue \in Seq(Ledger)
    /\ d \in Nat /\ e1 \in Nat /\ e2 \in Nat /\ d <= e1
    /\ Len(queue) = (e1 - d) + e2 + x
    /\ d = 0 /\ e1 # 0 => queue[1] = ledger1
    /\ e2 # 0 => queue[(e1 - d) + 1] = ledger2
    /\ x = 1 => queue[Len(queue)] = ledger3

\* The checkpoints of the flight, of the buffer and of the transition under way.
QueueInv ==
    /\ phase \in {"enqueued", "applied"} => dequeues = 0
    /\ QueueFits(potential, dequeues, Emitted(flight), Emitted(buffer), Extra,
                 SnarkedLedger(db.root), SnarkedLedger(Mid.root), root_ledger)

\* The root identifier lags behind the root only after move_root has committed.
IdentifierInv ==
    /\ root_id = IF phase = "applied" THEN Parent[root] ELSE root
    /\ phase = "applied" => root # Genesis
    /\ ~ overwritten

\* A root transition under way is that of a new block.
SubjectInv ==
    phase = "enqueued" => /\ subject \in Blocks \ {Genesis}
                          /\ Parent[subject] \in DOMAIN table
                          /\ subject \notin DOMAIN table
                          /\ Overflows(subject)

LoadedInv == phase \in Loaded => CopiesInv /\ QueueInv /\ IdentifierInv /\ SubjectInv

\* The database is not ahead of the root identifier, and when they agree the
\* snarked ledger is there.  (Genesis: a reset may still replace the database.)
RootOnDisk(id) ==
    /\ db # NoDatabase => db.root \in Ancestors(id)
    /\ (db # NoDatabase /\ id = db.root) \/ id = Genesis =>
          SnarkedLedger(id) \in ToSet(potential) \cup {root_ledger}

\* What is on disk, at any time and so after any crash.
DiskInv ==
    /\ root_id \in Blocks \cup {NoBlock}
    /\ db # NoDatabase => IsTree(db) /\ Fits(db)
    /\ potential \in Seq(Ledger)
    /\ ~ overwritten /\ root_id # NoBlock => RootOnDisk(root_id)

\* What the steps of a reset, a load and a bootstrap have established.
PhaseInv ==
    /\ phase \notin Loaded => buffer = <<>> /\ flight = <<>> /\ dequeues = 0
    /\ phase \in {"reset_root", "reset_ledger", "reset_id"} => db = Initialize(Genesis)
    /\ phase \in {"reset_ledger", "reset_id"} =>
          potential = <<>> /\ root_id = NoBlock /\ ~ overwritten
    /\ phase = "reset_id" => root_ledger = SnarkedLedger(Genesis)
    /\ phase \in {"load", "restoring", "restored", "open"} => db # NoDatabase
    /\ phase = "restoring" => Expected \in ToSet(potential)
    /\ phase \in {"restored", "open"} => root_ledger = Expected
    /\ phase = "open" => potential = <<>>
    /\ phase \in {"syncing", "synced", "destroyed", "initialised"} => overwritten
    /\ phase \in {"synced", "destroyed", "initialised"} =>
          subject \in Blocks /\ root_ledger = SnarkedLedger(subject)
    /\ phase = "initialised" => db = Initialize(subject)

\* The components' types that the rest does not give.
ControlInv ==
    /\ phase \in Phases
    /\ subject \in Blocks \cup {NoBlock}
    /\ caller \in {"router", "bootstrap"} /\ retry \in BOOLEAN
    /\ root_ledger \in Ledger
    /\ overwritten \in BOOLEAN

PersistentInv == ControlInv /\ LoadedInv /\ DiskInv /\ PhaseInv

\* The best tip of each copy.
TipsInv ==
    /\ db # NoDatabase => TipStrongest(db)
    /\ phase \in Loaded => TipStrongest(Mid) /\ BestTipStrongest

-----------------------------------------------------------------------------
(* One more diff in a batch *)

\* The fields of a copy that is a tree.
LEMMA TreeFields ==
    ASSUME NEW s, IsTree(s)
    PROVE  /\ s.root \in Blocks /\ s.best_tip \in Blocks
           /\ s.transitions \subseteq Blocks /\ DOMAIN s.arcs = s.transitions
           /\ s = [root |-> s.root, best_tip |-> s.best_tip, transitions |-> s.transitions,
                   arcs |-> s.arcs, protocol_states |-> s.protocol_states]
BY DEF IsTree, Database

\* Two trees with the same root, best tip and nodes are the same copy.
LEMMA SameTree ==
    ASSUME NEW s, NEW t, IsTree(s), IsTree(t),
           s.root = t.root, s.best_tip = t.best_tip, s.transitions = t.transitions
    PROVE  s = t
<1>1. s.arcs = t.arcs /\ s.protocol_states = t.protocol_states
      BY DEF IsTree
<1> QED
      BY <1>1, TreeFields

\* The places of the diffs when one is appended.
LEMMA AppendPlaces ==
    ASSUME NEW ds \in Seq(Diff), NEW d \in Diff
    PROVE  LET es == Append(ds, d)
               n == Len(ds) + 1
           IN  /\ es \in Seq(Diff) /\ Len(es) = n /\ n \in Nat
               /\ DOMAIN es = DOMAIN ds \cup {n} /\ n \notin DOMAIN ds
               /\ \A i \in DOMAIN ds : i \in Nat /\ i < n /\ es[i] = ds[i] /\ ds[i] \in Diff
               /\ es[n] = d
<1>1. Len(ds) \in Nat /\ DOMAIN ds = 1 .. Len(ds)
      OBVIOUS
<1> QED
      BY <1>1

LEMMA AppendKinds ==
    ASSUME NEW ds \in Seq(Diff), NEW d \in Diff
    PROVE  LET es == Append(ds, d)
               n == Len(ds) + 1
           IN  /\ NewNodes(es) = NewNodes(ds) \cup IF d.type = "New_node" THEN {n} ELSE {}
               /\ RootTransitions(es) =
                    RootTransitions(ds) \cup IF d.type = "Root_transitioned" THEN {n} ELSE {}
               /\ BestTipChanges(es) =
                    BestTipChanges(ds) \cup IF d.type = "Best_tip_changed" THEN {n} ELSE {}
<1> DEFINE es == Append(ds, d)
           n == Len(ds) + 1
<1>1. /\ DOMAIN es = DOMAIN ds \cup {n} /\ n \notin DOMAIN ds
      /\ \A i \in DOMAIN ds : es[i] = ds[i]
      /\ es[n] = d
      BY AppendPlaces
<1> HIDE DEF es, n
<1>2. NewNodes(es) = NewNodes(ds) \cup IF d.type = "New_node" THEN {n} ELSE {}
      BY <1>1 DEF NewNodes
<1>3. RootTransitions(es) =
        RootTransitions(ds) \cup IF d.type = "Root_transitioned" THEN {n} ELSE {}
      BY <1>1 DEF RootTransitions
<1>4. BestTipChanges(es) =
        BestTipChanges(ds) \cup IF d.type = "Best_tip_changed" THEN {n} ELSE {}
      BY <1>1 DEF BestTipChanges
<1> QED
      BY <1>2, <1>3, <1>4 DEF es, n

\* A place that comes after all others is the last one.
LEMMA LastPlace ==
    ASSUME NEW S, NEW n \in Nat, \A i \in S : i \in Nat /\ i < n
    PROVE  Max(S \cup {n}) = n
<1>1. \A i \in S \cup {n} : i \in Nat /\ n >= i
      OBVIOUS
<1>2. \A m \in S \cup {n} : (\A i \in S \cup {n} : m >= i) => m = n
      BY <1>1
<1>3. Max(S \cup {n}) \in S \cup {n} /\ \A i \in S \cup {n} : Max(S \cup {n}) >= i
      BY <1>1 DEF Max
<1> QED
      BY <1>2, <1>3

\* The number of emitted proofs when a diff is appended.
LEMMA AppendEmitted ==
    ASSUME NEW ds \in Seq(Diff), NEW d \in Diff
    PROVE  Emitted(Append(ds, d)) =
             IF d.type = "Root_transitioned" /\ d.just_emitted_a_proof
             THEN Emitted(ds) + 1 ELSE Emitted(ds)
<1> DEFINE es == Append(ds, d)
           n == Len(ds) + 1
           A == {i \in RootTransitions(ds) : ds[i].just_emitted_a_proof}
           B == {i \in RootTransitions(es) : es[i].just_emitted_a_proof}
<1>1. /\ n \notin DOMAIN ds /\ es[n] = d
      /\ \A i \in DOMAIN ds : es[i] = ds[i]
      BY AppendPlaces
<1>2. RootTransitions(es) =
        RootTransitions(ds) \cup IF d.type = "Root_transitioned" THEN {n} ELSE {}
      BY AppendKinds
<1>3. RootTransitions(ds) \subseteq DOMAIN ds
      BY DEF RootTransitions
<1>4. IsFiniteSet(A)
      <2>1. Len(ds) \in Nat /\ DOMAIN ds = 1 .. Len(ds) /\ A \subseteq DOMAIN ds
            BY <1>3
      <2>2. IsFiniteSet(1 .. Len(ds))
            BY <2>1, FS_Interval
      <2> QED
            BY <2>1, <2>2, FS_Subset
<1> HIDE DEF es, n
<1>5. CASE d.type = "Root_transitioned" /\ d.just_emitted_a_proof
      <2>1. B = A \cup {n} /\ n \notin A
            BY <1>1, <1>2, <1>3, <1>5
      <2>2. Cardinality(B) = Cardinality(A) + 1
            BY <2>1, <1>4, FS_AddElement
      <2> QED
            BY <2>2, <1>5 DEF Emitted, es
<1>6. CASE ~ (d.type = "Root_transitioned" /\ d.just_emitted_a_proof)
      <2>1. B = A
            BY <1>1, <1>2, <1>3, <1>6
      <2> QED
            BY <2>1, <1>6 DEF Emitted, es
<1> QED
      BY <1>5, <1>6

\* The new blocks when a diff is appended.
LEMMA AppendHashes ==
    ASSUME NEW ds \in Seq(Diff), NEW d \in Diff
    PROVE  /\ Hashes(Append(ds, d)) =
                Hashes(ds) \cup IF d.type = "New_node" THEN {d.block} ELSE {}
           /\ Hashes(ds) \subseteq Blocks \ {Genesis}
<1> DEFINE es == Append(ds, d)
           n == Len(ds) + 1
<1>1. /\ n \notin DOMAIN ds /\ es[n] = d
      /\ \A i \in DOMAIN ds : es[i] = ds[i] /\ ds[i] \in Diff
      BY AppendPlaces
<1>2. NewNodes(es) = NewNodes(ds) \cup IF d.type = "New_node" THEN {n} ELSE {}
      BY AppendKinds
<1>3. \A i \in NewNodes(ds) : i \in DOMAIN ds /\ ds[i].type = "New_node"
      BY DEF NewNodes
<1>4. \A x \in Diff : x.type = "New_node" => x.block \in Blocks \ {Genesis}
      BY DEF Diff
<1> HIDE DEF es, n
<1>5. Hashes(es) = Hashes(ds) \cup IF d.type = "New_node" THEN {d.block} ELSE {}
      BY <1>1, <1>2, <1>3 DEF Hashes
<1>6. Hashes(ds) \subseteq Blocks \ {Genesis}
      BY <1>1, <1>3, <1>4 DEF Hashes
<1> QED
      BY <1>5, <1>6 DEF es

\* The arcs the cache ends up with for one block.
Own(ds, h) == {i \in NewNodes(ds) : ds[i].block = h}
Later(ds, h) == {i \in NewNodes(ds) : \A j \in Own(ds, h) : j < i}
CachedArcs(s, ds, h) ==
    (IF Own(ds, h) = {} THEN s.arcs[h] ELSE {})
    \cup {b \in {ds[i].block : i \in Later(ds, h)} : Parent[b] = h}

LEMMA CacheEntries ==
    ASSUME NEW s, NEW ds
    PROVE  ArcsCache(s, ds) =
             [h \in ParentsToRead(ds) \cup Hashes(ds) |-> CachedArcs(s, ds, h)]
BY Zenon DEF ArcsCache, CachedArcs, Own, Later

\* The fields of a batch's result.
BatchRoot(s, ds) ==
    IF RootTransitions(ds) = {} THEN s.root ELSE ds[Max(RootTransitions(ds))].new_root
BatchTip(s, ds) ==
    IF BestTipChanges(ds) = {} THEN s.best_tip ELSE ds[Max(BestTipChanges(ds))].block
BatchNodes(s, ds) == (s.transitions \cup Hashes(ds)) \ Gone(s, ds)
BatchArc(s, ds, h) ==
    IF h \in ParentsToRead(ds) \cup Hashes(ds) THEN CachedArcs(s, ds, h) ELSE s.arcs[h]
BatchArcs(s, ds) ==
    [h \in (DOMAIN s.arcs \cup ParentsToRead(ds) \cup Hashes(ds)) \ Gone(s, ds) |->
        BatchArc(s, ds, h)]
BatchStates(s, ds) ==
    IF RootTransitions(ds) = {} THEN s.protocol_states
    ELSE RequiredStates[ds[Max(RootTransitions(ds))].new_root]

LEMMA BatchRecord ==
    ASSUME NEW s, NEW ds
    PROVE  ApplyBatch(s, ds) =
             [root |-> BatchRoot(s, ds), best_tip |-> BatchTip(s, ds),
              transitions |-> BatchNodes(s, ds), arcs |-> BatchArcs(s, ds),
              protocol_states |-> BatchStates(s, ds)]
<1> DEFINE cache == ArcsCache(s, ds)
           arcs == [h \in DOMAIN s.arcs \cup DOMAIN cache |->
                       IF h \in DOMAIN cache THEN cache[h] ELSE s.arcs[h]]
           trimmed == [h \in DOMAIN arcs \ Gone(s, ds) |-> arcs[h]]
<1>1. /\ DOMAIN cache = ParentsToRead(ds) \cup Hashes(ds)
      /\ \A h \in DOMAIN cache : cache[h] = CachedArcs(s, ds, h)
      BY CacheEntries
<1>2. ApplyBatch(s, ds) =
        [root |-> BatchRoot(s, ds), best_tip |-> BatchTip(s, ds),
         transitions |-> BatchNodes(s, ds), arcs |-> trimmed,
         protocol_states |-> BatchStates(s, ds)]
      BY Zenon DEF ApplyBatch, Gone, BatchRoot, BatchTip, BatchNodes, BatchStates
<1> HIDE DEF cache
<1>3. trimmed = BatchArcs(s, ds)
      BY <1>1 DEF BatchArcs, BatchArc
<1> HIDE DEF trimmed
<1> QED
      BY <1>2, <1>3

\* The same, field by field, for the result of a batch that is known by a name.
LEMMA BatchFields ==
    ASSUME NEW s, NEW ds, NEW t, t = ApplyBatch(s, ds)
    PROVE  /\ t.root = BatchRoot(s, ds) /\ t.best_tip = BatchTip(s, ds)
           /\ t.transitions = BatchNodes(s, ds) /\ t.arcs = BatchArcs(s, ds)
           /\ t.protocol_states = BatchStates(s, ds)
BY BatchRecord

\* A diff that adds no block leaves the arcs alone.
LEMMA AppendOther ==
    ASSUME NEW s, NEW ds \in Seq(Diff), NEW d \in Diff, d.type # "New_node"
    PROVE  LET es == Append(ds, d)
           IN  /\ Hashes(es) = Hashes(ds) /\ ParentsToRead(es) = ParentsToRead(ds)
               /\ \A h : CachedArcs(s, es, h) = CachedArcs(s, ds, h)
               /\ CacheMiss(es) <=> CacheMiss(ds)
<1> DEFINE es == Append(ds, d)
           n == Len(ds) + 1
<1>1. \A i \in DOMAIN ds : es[i] = ds[i]
      BY AppendPlaces
<1>2. NewNodes(es) = NewNodes(ds) /\ NewNodes(ds) \subseteq DOMAIN ds
      BY AppendKinds DEF NewNodes
<1>3. Hashes(es) = Hashes(ds)
      BY AppendHashes
<1>4. ParentsToRead(es) = ParentsToRead(ds)
      BY <1>3 DEF ParentsToRead
<1>5. \A i \in NewNodes(ds) : es[i] = ds[i]
      BY <1>1, <1>2
<1> HIDE DEF es, n
<1>6. CacheMiss(es) <=> CacheMiss(ds)
      BY <1>2, <1>3, <1>5 DEF CacheMiss
<1>7. \A h : CachedArcs(s, es, h) = CachedArcs(s, ds, h)
      <2>1. \A h : Own(es, h) = Own(ds, h)
            BY <1>2, <1>5 DEF Own
      <2>2. \A h : Later(es, h) = Later(ds, h)
            BY <1>2, <2>1 DEF Later
      <2>3. \A h : {es[i].block : i \in Later(es, h)} = {ds[i].block : i \in Later(ds, h)}
            BY <1>5, <2>2 DEF Later
      <2> QED
            BY <2>1, <2>3 DEF CachedArcs
<1> QED
      BY <1>3, <1>4, <1>6, <1>7 DEF es

\* What each diff does to a copy.
LEMMA ReplayNode ==
    ASSUME NEW t, IsTree(t), NEW b
    PROVE  Replay(t, NewNode(b)) =
             [root |-> t.root, best_tip |-> t.best_tip,
              transitions |-> t.transitions \cup {b}, arcs |-> WithArc(t.arcs, b),
              protocol_states |-> t.protocol_states]
<1>1. NewNode(b).type = "New_node" /\ NewNode(b).block = b
      BY DEF NewNode
<1>2. Replay(t, NewNode(b)) =
        [t EXCEPT !.transitions = @ \cup {b}, !.arcs = WithArc(@, b)]
      BY <1>1 DEF Replay
<1> QED
      BY <1>2, TreeFields

LEMMA ReplayTip ==
    ASSUME NEW t, IsTree(t), NEW b
    PROVE  Replay(t, BestTipChanged(b)) =
             [root |-> t.root, best_tip |-> b, transitions |-> t.transitions,
              arcs |-> t.arcs, protocol_states |-> t.protocol_states]
<1>1. BestTipChanged(b).type = "Best_tip_changed" /\ BestTipChanged(b).block = b
      BY DEF BestTipChanged
<1>2. Replay(t, BestTipChanged(b)) = [t EXCEPT !.best_tip = b]
      BY <1>1 DEF Replay
<1> QED
      BY <1>2, TreeFields

LEMMA ReplayMove ==
    ASSUME NEW t, IsTree(t), NEW d \in Diff, d.type = "Root_transitioned"
    PROVE  Replay(t, d) =
             [root |-> d.new_root, best_tip |-> t.best_tip,
              transitions |-> t.transitions \ (d.garbage \cup {t.root}),
              arcs |-> [h \in t.transitions \ (d.garbage \cup {t.root}) |-> t.arcs[h]],
              protocol_states |-> RequiredStates[d.new_root]]
<1> DEFINE gone == d.garbage \cup {t.root}
           a == [h \in t.transitions \ gone |-> t.arcs[h]]
<1>1. DOMAIN t.arcs = t.transitions
      BY TreeFields
<1>2. Replay(t, d) =
        [t EXCEPT !.root = d.new_root,
                  !.transitions = @ \ gone,
                  !.arcs = [h \in DOMAIN @ \ gone |-> @[h]],
                  !.protocol_states = RequiredStates[d.new_root]]
      BY Zenon DEF Replay
<1>3. [h \in DOMAIN t.arcs \ gone |-> t.arcs[h]] = a
      BY <1>1
<1> HIDE DEF a, gone
<1>4. Replay(t, d) =
        [t EXCEPT !.root = d.new_root,
                  !.transitions = t.transitions \ gone,
                  !.arcs = a,
                  !.protocol_states = RequiredStates[d.new_root]]
      BY <1>2, <1>3
<1>5. Replay(t, d) =
        [root |-> d.new_root, best_tip |-> t.best_tip,
         transitions |-> t.transitions \ gone, arcs |-> a,
         protocol_states |-> RequiredStates[d.new_root]]
      BY <1>4, TreeFields
<1> QED
      BY <1>5 DEF a, gone

\* A best tip change can be appended to a batch.
LEMMA AppendTip ==
    ASSUME NEW s, NEW ds, NEW t, Pending(s, ds, t), NEW b \in Blocks
    PROVE  /\ Pending(s, Append(ds, BestTipChanged(b)), Replay(t, BestTipChanged(b)))
           /\ Emitted(Append(ds, BestTipChanged(b))) = Emitted(ds)
<1> DEFINE d == BestTipChanged(b)
           es == Append(ds, d)
           u == Replay(t, d)
           n == Len(ds) + 1
<1>1. /\ IsTree(s) /\ IsTree(t) /\ ds \in Seq(Diff) /\ t = ApplyBatch(s, ds)
      BY DEF Pending
<1>2. d \in Diff /\ d.type = "Best_tip_changed" /\ d.block = b
      BY DEF BestTipChanged, Diff
<1>3. u = [root |-> t.root, best_tip |-> b, transitions |-> t.transitions,
           arcs |-> t.arcs, protocol_states |-> t.protocol_states]
      BY <1>1, ReplayTip
<1>4. /\ es \in Seq(Diff) /\ n \in Nat /\ es[n] = d
      /\ \A i \in DOMAIN ds : i \in Nat /\ i < n /\ es[i] = ds[i]
      BY <1>1, <1>2, AppendPlaces
<1>5. /\ RootTransitions(es) = RootTransitions(ds)
      /\ BestTipChanges(es) = BestTipChanges(ds) \cup {n}
      BY <1>1, <1>2, AppendKinds
<1>6. /\ Hashes(es) = Hashes(ds) /\ ParentsToRead(es) = ParentsToRead(ds)
      /\ \A h : CachedArcs(s, es, h) = CachedArcs(s, ds, h)
      /\ CacheMiss(es) <=> CacheMiss(ds)
      BY <1>1, <1>2, AppendOther
<1>7. Emitted(es) = Emitted(ds)
      BY <1>1, <1>2, AppendEmitted
<1> HIDE DEF d, es, u, n
<1>8. Max(BestTipChanges(es)) = n
      <2>1. \A i \in BestTipChanges(ds) : i \in Nat /\ i < n
            BY <1>4 DEF BestTipChanges
      <2> QED
            BY <2>1, <1>4, <1>5, LastPlace
<1>9. /\ RootTransitions(ds) \subseteq DOMAIN ds
      /\ \A i \in RootTransitions(ds) : es[i] = ds[i]
      BY <1>4 DEF RootTransitions
<1>10. RootTransitions(ds) # {} => Max(RootTransitions(ds)) \in RootTransitions(ds)
      BY DEF Pending
<1>11. Gone(s, es) = Gone(s, ds)
      BY <1>5, <1>9 DEF Gone, Removed
<1>12. u = ApplyBatch(s, es)
      <2>1. BatchRoot(s, es) = BatchRoot(s, ds) /\ BatchStates(s, es) = BatchStates(s, ds)
            BY <1>5, <1>9, <1>10 DEF BatchRoot, BatchStates
      <2>2. BatchTip(s, es) = b
            BY <1>2, <1>4, <1>5, <1>8 DEF BatchTip
      <2>3. BatchNodes(s, es) = BatchNodes(s, ds)
            BY <1>6, <1>11 DEF BatchNodes
      <2>5. BatchArcs(s, es) = BatchArcs(s, ds)
            BY <1>6, <1>11 DEF BatchArcs, BatchArc
      <2>6. /\ t.root = BatchRoot(s, ds) /\ t.transitions = BatchNodes(s, ds)
            /\ t.arcs = BatchArcs(s, ds) /\ t.protocol_states = BatchStates(s, ds)
            BY <1>1, BatchFields
      <2> QED
            BY <1>3, <2>1, <2>2, <2>3, <2>5, <2>6, BatchRecord
<1>13. IsTree(u)
      BY <1>1, <1>3 DEF IsTree, Database
<1>14. u.root = t.root
      BY <1>3
<1>15. Pending(s, es, u)
      BY <1>1, <1>4, <1>5, <1>6, <1>7, <1>8, <1>10, <1>11, <1>12, <1>13, <1>14 DEF Pending
<1> QED
      BY <1>7, <1>15 DEF es, u, d

\* The tree with these nodes.
LEMMA MakeTree ==
    ASSUME NEW r \in Blocks, NEW tip \in Blocks, NEW N \in SUBSET Blocks, NEW A, NEW P,
           r \in N,
           \A b \in N : /\ r \in Ancestors(b)
                        /\ \A a \in Ancestors(b) : r \in Ancestors(a) => a \in N,
           A = [h \in N |-> {c \in N \ {r} : Parent[c] = h}],
           P = RequiredStates[r]
    PROVE  IsTree([root |-> r, best_tip |-> tip, transitions |-> N, arcs |-> A,
                   protocol_states |-> P])
<1>1. A \in [N -> SUBSET Blocks]
      OBVIOUS
<1>2. P \in SUBSET Blocks
      BY BlockTreeAssumption
<1> QED
      BY <1>1, <1>2 DEF IsTree, Database

\* A node other than the root has its parent in the tree.
LEMMA TreeParent ==
    ASSUME NEW t, IsTree(t), NEW x \in t.transitions, x # t.root
    PROVE  x \in Blocks \ {Genesis} /\ Parent[x] \in t.transitions
<1>1. x \in Blocks /\ t.root \in Ancestors(x) /\ t.root \in Blocks
      BY TreeFields DEF IsTree
<1>2. x # Genesis
      BY <1>1, GenesisAncestors
<1>3. t.root \in Ancestors(Parent[x]) /\ Parent[x] \in Ancestors(x)
      BY <1>1, <1>2, AncestorUnfold
<1> QED
      BY <1>1, <1>2, <1>3 DEF IsTree

\* A tree stays a tree when a block is added on top of one of its nodes.
LEMMA NodeOnTree ==
    ASSUME NEW t, IsTree(t), NEW b \in Blocks \ {Genesis},
           Parent[b] \in t.transitions, b \notin t.transitions
    PROVE  /\ IsTree(Replay(t, NewNode(b)))
           /\ t.root \in Ancestors(b)
<1> DEFINE N == t.transitions \cup {b}
           r == t.root
           A == [h \in N |-> {c \in N \ {r} : Parent[c] = h}]
<1>1. /\ r \in Blocks /\ t.best_tip \in Blocks /\ t.transitions \subseteq Blocks
      /\ DOMAIN t.arcs = t.transitions /\ r \in t.transitions
      /\ t.arcs = [h \in t.transitions |-> {c \in t.transitions \ {r} : Parent[c] = h}]
      /\ t.protocol_states = RequiredStates[r]
      BY TreeFields DEF IsTree
<1>2. Ancestors(b) = {b} \cup Ancestors(Parent[b]) /\ Parent[b] \in Blocks
      BY AncestorUnfold
<1>3. r \in Ancestors(Parent[b])
      BY DEF IsTree
<1>4. \A x \in N : /\ r \in Ancestors(x)
                   /\ \A a \in Ancestors(x) : r \in Ancestors(a) => a \in N
      BY <1>2, <1>3 DEF IsTree
<1>5. \A c \in t.transitions \ {r} : Parent[c] # b
      BY TreeParent
<1>6. Parent[b] # b
      OBVIOUS
<1>7. WithArc(t.arcs, b) = A
      <2>1. \A h \in N : WithArc(t.arcs, b)[h] = {c \in N \ {r} : Parent[c] = h}
            <3>1. SUFFICES ASSUME NEW h \in N
                           PROVE  WithArc(t.arcs, b)[h] = {c \in N \ {r} : Parent[c] = h}
                  OBVIOUS
            <3>2. CASE h = b
                  BY <3>2, <1>1, <1>5, <1>6 DEF WithArc
            <3>3. CASE h # b /\ h = Parent[b]
                  BY <3>3, <1>1 DEF WithArc
            <3>4. CASE h # b /\ h # Parent[b]
                  BY <3>4, <1>1 DEF WithArc
            <3> QED
                  BY <3>2, <3>3, <3>4
      <2>2. WithArc(t.arcs, b) = [h \in N |-> WithArc(t.arcs, b)[h]]
            BY <1>1 DEF WithArc
      <2> QED
            BY <2>1, <2>2
<1>8. Replay(t, NewNode(b)) =
        [root |-> r, best_tip |-> t.best_tip, transitions |-> N,
         arcs |-> WithArc(t.arcs, b), protocol_states |-> t.protocol_states]
      BY ReplayNode
<1>9. IsTree(Replay(t, NewNode(b)))
      <2>1. PICK M \in SUBSET Blocks : M = N
            BY <1>1
      <2>2. PICK a : a = WithArc(t.arcs, b)
            OBVIOUS
      <2> HIDE DEF N, A, r
      <2>3. r \in M /\ a = [h \in M |-> {c \in M \ {r} : Parent[c] = h}]
            BY <1>1, <1>7, <2>1, <2>2 DEF N, A
      <2>4. \A x \in M : /\ r \in Ancestors(x)
                         /\ \A y \in Ancestors(x) : r \in Ancestors(y) => y \in M
            BY <1>4, <2>1
      <2>5. r \in Blocks /\ t.best_tip \in Blocks /\ t.protocol_states = RequiredStates[r]
            BY <1>1 DEF r
      <2>6. IsTree([root |-> r, best_tip |-> t.best_tip, transitions |-> M,
                    arcs |-> a, protocol_states |-> t.protocol_states])
            BY <2>3, <2>4, <2>5, MakeTree
      <2> QED
            BY <1>8, <2>1, <2>2, <2>6
<1> QED
      BY <1>2, <1>3, <1>9

\* The arcs cache when a block is added that the batch does not know yet.
LEMMA AppendCache ==
    ASSUME NEW s, NEW ds \in Seq(Diff), NEW b \in Blocks \ {Genesis}, b \notin Hashes(ds)
    PROVE  /\ CachedArcs(s, Append(ds, NewNode(b)), b) = {}
           /\ \A h : h # b => CachedArcs(s, Append(ds, NewNode(b)), h) =
                CachedArcs(s, ds, h) \cup IF Parent[b] = h THEN {b} ELSE {}
<1> DEFINE d == NewNode(b)
           es == Append(ds, d)
           n == Len(ds) + 1
<1>1. d \in Diff /\ d.type = "New_node" /\ d.block = b
      BY DEF NewNode, Diff
<1>2. /\ n \in Nat /\ n \notin DOMAIN ds /\ es[n] = d
      /\ \A i \in DOMAIN ds : i \in Nat /\ i < n /\ es[i] = ds[i]
      BY <1>1, AppendPlaces
<1>3. NewNodes(es) = NewNodes(ds) \cup {n} /\ NewNodes(ds) \subseteq DOMAIN ds
      BY <1>1, AppendKinds DEF NewNodes
<1> HIDE DEF d, es, n
<1>4. \A i \in NewNodes(ds) : /\ i \in Nat /\ i < n /\ i # n
                              /\ es[i] = ds[i] /\ ds[i].block # b
      BY <1>2, <1>3 DEF Hashes
<1>5. Own(es, b) = {n}
      BY <1>1, <1>2, <1>3, <1>4 DEF Own
<1>6. Later(es, b) = {}
      BY <1>2, <1>3, <1>4, <1>5 DEF Later
<1>7. CachedArcs(s, es, b) = {}
      BY <1>5, <1>6 DEF CachedArcs
<1>8. ASSUME NEW h, h # b
      PROVE  CachedArcs(s, es, h) =
                CachedArcs(s, ds, h) \cup IF Parent[b] = h THEN {b} ELSE {}
      <2>1. Own(es, h) = Own(ds, h)
            BY <1>1, <1>2, <1>3, <1>4, <1>8 DEF Own
      <2>2. Later(es, h) = Later(ds, h) \cup {n}
            BY <1>2, <1>3, <1>4, <2>1 DEF Later, Own
      <2>3. {es[i].block : i \in Later(es, h)} = {ds[i].block : i \in Later(ds, h)} \cup {b}
            <3>1. \A i \in Later(ds, h) : es[i] = ds[i]
                  BY <1>4 DEF Later
            <3> QED
                  BY <3>1, <2>2, <1>1, <1>2
      <2> QED
            BY <2>1, <2>3 DEF CachedArcs
<1> QED
      BY <1>7, <1>8 DEF es, d

\* A block outside what the batch touches has its old arcs.
LEMMA UntouchedArcs ==
    ASSUME NEW s, NEW ds, NEW h, h \notin ParentsToRead(ds) \cup Hashes(ds)
    PROVE  CachedArcs(s, ds, h) = s.arcs[h]
<1>1. Own(ds, h) = {}
      BY DEF Own, Hashes
<1>2. ASSUME NEW i \in Later(ds, h), Parent[ds[i].block] = h PROVE FALSE
      BY <1>2 DEF Later, Hashes, ParentsToRead
<1> QED
      BY <1>1, <1>2 DEF CachedArcs

\* A new block can be appended to a batch.
LEMMA AppendNode ==
    ASSUME NEW s, NEW ds, NEW t, Pending(s, ds, t),
           NEW b \in Blocks \ {Genesis}, Parent[b] \in t.transitions, b \notin t.transitions
    PROVE  /\ Pending(s, Append(ds, NewNode(b)), Replay(t, NewNode(b)))
           /\ Emitted(Append(ds, NewNode(b))) = Emitted(ds)
<1> DEFINE d == NewNode(b)
           es == Append(ds, d)
           u == Replay(t, d)
           n == Len(ds) + 1
<1>1. /\ IsTree(s) /\ IsTree(t) /\ ds \in Seq(Diff) /\ t = ApplyBatch(s, ds)
      /\ ParentsToRead(ds) \subseteq s.transitions /\ ~ CacheMiss(ds)
      /\ RootTransitions(ds) # {} => Max(RootTransitions(ds)) \in RootTransitions(ds)
      /\ BestTipChanges(ds) # {} => Max(BestTipChanges(ds)) \in BestTipChanges(ds)
      /\ \A x \in Gone(s, ds) : x \in Blocks /\ t.root \notin Ancestors(x)
      BY DEF Pending
<1>2. d \in Diff /\ d.type = "New_node" /\ d.block = b
      BY DEF NewNode, Diff
<1>3. u = [root |-> t.root, best_tip |-> t.best_tip, transitions |-> t.transitions \cup {b},
           arcs |-> WithArc(t.arcs, b), protocol_states |-> t.protocol_states]
      BY <1>1, ReplayNode
<1>4. /\ es \in Seq(Diff) /\ n \in Nat /\ es[n] = d /\ n \notin DOMAIN ds
      /\ \A i \in DOMAIN ds : i \in Nat /\ i < n /\ es[i] = ds[i]
      BY <1>1, <1>2, AppendPlaces
<1>5. /\ RootTransitions(es) = RootTransitions(ds)
      /\ BestTipChanges(es) = BestTipChanges(ds)
      /\ NewNodes(es) = NewNodes(ds) \cup {n}
      BY <1>1, <1>2, AppendKinds
<1>6. Hashes(es) = Hashes(ds) \cup {b}
      BY <1>1, <1>2, AppendHashes
<1>7. Emitted(es) = Emitted(ds)
      BY <1>1, <1>2, AppendEmitted
<1>8. IsTree(u) /\ t.root \in Ancestors(b)
      BY <1>1, NodeOnTree
<1>9. /\ t.root = BatchRoot(s, ds) /\ t.best_tip = BatchTip(s, ds)
      /\ t.transitions = BatchNodes(s, ds)
      /\ t.arcs = BatchArcs(s, ds) /\ t.protocol_states = BatchStates(s, ds)
      BY <1>1, BatchFields
<1>10. b \notin Gone(s, ds) /\ b \notin s.transitions /\ b \notin Hashes(ds) /\ Parent[b] # b
      BY <1>1, <1>8, <1>9 DEF BatchNodes
<1> DEFINE fresh == ParentsToRead(ds) \cup Hashes(ds)
<1>11. ParentsToRead(es) \subseteq s.transitions
      BY <1>1, <1>6, <1>9 DEF ParentsToRead, BatchNodes
<1>12. ParentsToRead(es) \cup Hashes(es) = fresh \cup {b, Parent[b]}
      BY <1>1, <1>6, <1>10 DEF ParentsToRead
<1>13. /\ CachedArcs(s, es, b) = {}
       /\ \A h : h # b => CachedArcs(s, es, h) =
            CachedArcs(s, ds, h) \cup IF Parent[b] = h THEN {b} ELSE {}
      <2>1. ds \in Seq(Diff) /\ b \notin Hashes(ds)
            BY <1>1, <1>10
      <2> QED
            BY <2>1, AppendCache
<1> HIDE DEF d, es, u, n
<1>14. \A i \in RootTransitions(ds) : es[i] = ds[i]
      BY <1>4 DEF RootTransitions
<1>15. Gone(s, es) = Gone(s, ds)
      BY <1>5, <1>14 DEF Gone, Removed
<1>16. \A i \in BestTipChanges(ds) : es[i] = ds[i]
      BY <1>4 DEF BestTipChanges
<1>17. ~ CacheMiss(es)
      <2>1. \A i \in NewNodes(ds) : es[i] = ds[i] /\ i \in Nat /\ i < n
            BY <1>4 DEF NewNodes
      <2>2. SUFFICES ASSUME NEW i \in NewNodes(es), Parent[es[i].block] \in Hashes(es)
                     PROVE  \E j \in NewNodes(es) :
                               j < i /\ es[j].block = Parent[es[i].block]
            BY DEF CacheMiss
      <2>3. CASE i = n
            <3>1. Parent[b] \in Hashes(ds)
                  BY <2>2, <2>3, <1>2, <1>4, <1>6, <1>10
            <3>2. PICK j \in NewNodes(ds) : ds[j].block = Parent[b]
                  BY <3>1 DEF Hashes
            <3> QED
                  BY <3>2, <2>1, <2>3, <1>2, <1>4, <1>5
      <2>4. CASE i \in NewNodes(ds)
            <3>1. ds[i].block \in Hashes(ds) /\ es[i] = ds[i]
                  BY <2>4, <2>1 DEF Hashes
            <3>2. Parent[ds[i].block] # b
                  BY <3>1, <1>1, <1>10 DEF ParentsToRead
            <3>3. Parent[ds[i].block] \in Hashes(ds)
                  BY <3>1, <3>2, <2>2, <1>6
            <3>4. PICK j \in NewNodes(ds) : j < i /\ ds[j].block = Parent[ds[i].block]
                  BY <3>3, <2>4, <1>1 DEF CacheMiss
            <3> QED
                  BY <3>1, <3>4, <2>1, <1>5
      <2> QED
            BY <2>3, <2>4, <1>5
<1>18. u = ApplyBatch(s, es)
      <2>1. BatchRoot(s, es) = t.root /\ BatchStates(s, es) = t.protocol_states
            BY <1>1, <1>5, <1>9, <1>14 DEF BatchRoot, BatchStates
      <2>2. BatchTip(s, es) = t.best_tip
            BY <1>1, <1>5, <1>9, <1>16 DEF BatchTip
      <2>3. BatchNodes(s, es) = t.transitions \cup {b}
            BY <1>6, <1>9, <1>10, <1>15 DEF BatchNodes
      <2>4. BatchArcs(s, es) = WithArc(t.arcs, b)
            <3>1. DOMAIN s.arcs = s.transitions /\ DOMAIN t.arcs = t.transitions
                  BY <1>1, TreeFields
            <3>2. /\ ParentsToRead(ds) \subseteq s.transitions \cup Hashes(ds)
                  /\ ParentsToRead(es) \subseteq s.transitions \cup Hashes(es)
                  BY <1>1, <1>11
            <3>3. (DOMAIN s.arcs \cup ParentsToRead(es) \cup Hashes(es)) \ Gone(s, es) =
                    t.transitions \cup {b}
                  BY <3>1, <3>2, <2>3, <1>15 DEF BatchNodes
            <3>4. \A h \in t.transitions : t.arcs[h] = BatchArc(s, ds, h)
                  <4>1. (DOMAIN s.arcs \cup ParentsToRead(ds) \cup Hashes(ds)) \ Gone(s, ds) =
                          t.transitions
                        BY <3>1, <3>2, <1>9 DEF BatchNodes
                  <4> QED
                        BY <4>1, <1>9 DEF BatchArcs
            <3>5. ASSUME NEW h \in t.transitions \cup {b}
                  PROVE  BatchArc(s, es, h) = WithArc(t.arcs, b)[h]
                  <4>1. CASE h = b
                        BY <4>1, <3>1, <1>12, <1>13 DEF BatchArc, WithArc
                  <4>2. CASE h # b /\ h = Parent[b]
                        <5>1. BatchArc(s, es, h) = CachedArcs(s, ds, h) \cup {b}
                              BY <4>2, <1>12, <1>13 DEF BatchArc
                        <5>2. CachedArcs(s, ds, h) = BatchArc(s, ds, h)
                              BY UntouchedArcs DEF BatchArc
                        <5> QED
                              BY <5>1, <5>2, <4>2, <3>1, <3>4 DEF WithArc
                  <4>3. CASE h # b /\ h # Parent[b]
                        <5>1. BatchArc(s, es, h) = BatchArc(s, ds, h)
                              BY <4>3, <1>12, <1>13 DEF BatchArc
                        <5> QED
                              BY <5>1, <4>3, <3>1, <3>4, <3>5 DEF WithArc
                  <4> QED
                        BY <4>1, <4>2, <4>3
            <3>6. WithArc(t.arcs, b) = [h \in t.transitions \cup {b} |-> WithArc(t.arcs, b)[h]]
                  BY <3>1 DEF WithArc
            <3>7. BatchArcs(s, es) = [h \in t.transitions \cup {b} |-> BatchArc(s, es, h)]
                  BY <3>3 DEF BatchArcs
            <3> QED
                  BY <3>5, <3>6, <3>7
      <2> QED
            BY <1>3, <2>1, <2>2, <2>3, <2>4, BatchRecord
<1>19. u.root = t.root
      BY <1>3
<1>20. Pending(s, es, u)
      BY <1>1, <1>4, <1>5, <1>7, <1>8, <1>11, <1>15, <1>17, <1>18, <1>19 DEF Pending
<1> QED
      BY <1>7, <1>20 DEF es, u, d

\* The root moves to one of its children, and everything that does not descend
\* from the new root goes.
MovesRoot(t, d) ==
    /\ d \in Diff /\ d.type = "Root_transitioned"
    /\ d.new_root \in t.transitions \ {Genesis}
    /\ Parent[d.new_root] = t.root
    /\ d.garbage \subseteq t.transitions
    /\ \A x \in t.transitions :
          x \notin d.garbage \cup {t.root} <=> d.new_root \in Ancestors(x)
    /\ d.just_emitted_a_proof <=> d.new_root \in EmitsProof

\* A tree stays a tree when its root moves.
LEMMA MoveOnTree ==
    ASSUME NEW t, IsTree(t), NEW d, MovesRoot(t, d)
    PROVE  /\ IsTree(Replay(t, d))
           /\ d.new_root \in Blocks \ {Genesis} /\ t.root \in Ancestors(d.new_root)
           /\ d.new_root \notin Ancestors(t.root)
           /\ Height[d.new_root] = Height[t.root] + 1 /\ Height[t.root] \in Nat
<1>1. /\ t.root \in Blocks /\ t.best_tip \in Blocks /\ t.transitions \subseteq Blocks
      /\ t.root \in t.transitions
      /\ t.arcs = [h \in t.transitions |-> {c \in t.transitions \ {t.root} : Parent[c] = h}]
      BY TreeFields DEF IsTree
<1>2. PICK r \in Blocks \ {Genesis} : r = d.new_root
      BY <1>1 DEF MovesRoot
<1>3. PICK N \in SUBSET Blocks : N = t.transitions \ (d.garbage \cup {t.root})
      BY <1>1
<1>4. PICK A : A = [h \in t.transitions \ (d.garbage \cup {t.root}) |-> t.arcs[h]]
      OBVIOUS
<1>5. \A x : x \in N <=> x \in t.transitions /\ r \in Ancestors(x)
      BY <1>2, <1>3 DEF MovesRoot
<1>6. r \in t.transitions /\ Parent[r] = t.root /\ t.root \in Ancestors(r)
      BY <1>2, AncestorUnfold DEF MovesRoot
<1>7. Height[r] = Height[t.root] + 1 /\ Height[t.root] \in Nat
      BY <1>1, <1>2, <1>6, BlockTreeAssumption
<1>8. r \notin Ancestors(t.root) /\ r # t.root
      BY <1>1, <1>7, AncestorHeight
<1>9. r \in N
      BY <1>2, <1>5, <1>6, AncestorSelf
<1>10. \A b \in N : /\ r \in Ancestors(b)
                    /\ \A a \in Ancestors(b) : r \in Ancestors(a) => a \in N
      <2>1. ASSUME NEW b \in N, NEW a \in Ancestors(b), r \in Ancestors(a) PROVE a \in N
            <3>1. b \in t.transitions /\ b \in Blocks
                  BY <1>5
            <3>2. a \in Blocks
                  BY <3>1, AncestorSelf
            <3>3. t.root \in Ancestors(a)
                  BY <2>1, <3>2, <1>6, AncestorTransitive
            <3>4. a \in t.transitions
                  BY <3>1, <3>3 DEF IsTree
            <3> QED
                  BY <3>4, <2>1, <1>5
      <2> QED
            BY <2>1, <1>5
<1>11. A = [h \in N |-> {c \in N \ {r} : Parent[c] = h}]
      <2>1. ASSUME NEW h \in N
            PROVE  {c \in t.transitions \ {t.root} : Parent[c] = h} =
                     {c \in N \ {r} : Parent[c] = h}
            <3>1. ASSUME NEW c \in t.transitions \ {t.root}, Parent[c] = h
                  PROVE  c \in N \ {r}
                  <4>1. c \in Blocks \ {Genesis}
                        BY <3>1, TreeParent
                  <4>2. r \in Ancestors(h)
                        BY <2>1, <1>5
                  <4>3. r \in Ancestors(c)
                        BY <4>1, <4>2, <3>1, AncestorUnfold
                  <4>4. c # r
                        BY <4>2, <3>1, <1>6, <1>8
                  <4> QED
                        BY <4>3, <4>4, <3>1, <1>5
            <3>2. t.root \notin N
                  BY <1>3
            <3> QED
                  BY <3>1, <3>2, <1>5
      <2>2. \A h \in N : t.arcs[h] = {c \in t.transitions \ {t.root} : Parent[c] = h}
            BY <1>1, <1>5
      <2> QED
            BY <1>3, <1>4, <2>1, <2>2
<1>12. Replay(t, d) = [root |-> r, best_tip |-> t.best_tip, transitions |-> N,
                       arcs |-> A, protocol_states |-> RequiredStates[r]]
      BY <1>2, <1>3, <1>4, ReplayMove DEF MovesRoot
<1>13. IsTree(Replay(t, d))
      BY <1>1, <1>9, <1>10, <1>11, <1>12, MakeTree
<1> QED
      BY <1>2, <1>6, <1>7, <1>8, <1>13

\* The garbage of a batch, and the roots it passes through.
GarbageOf(ds) == UNION {ds[i].garbage : i \in RootTransitions(ds)}
RootsAt(ds, I) == {ds[i].new_root : i \in I}

LEMMA GoneWithMoves ==
    ASSUME NEW s, NEW ds, NEW n, RootTransitions(ds) # {}, Max(RootTransitions(ds)) = n
    PROVE  Gone(s, ds) = {s.root} \cup GarbageOf(ds) \cup RootsAt(ds, RootTransitions(ds) \ {n})
<1>1. Gone(s, ds) = Removed(s, ds)
      BY DEF Gone
<1>2. Removed(s, ds) = {s.root} \cup GarbageOf(ds)
                       \cup RootsAt(ds, RootTransitions(ds) \ {Max(RootTransitions(ds))})
      BY Zenon DEF Removed, GarbageOf, RootsAt
<1> QED
      BY <1>1, <1>2

\* A root transition can be appended to a batch.
LEMMA AppendMove ==
    ASSUME NEW s, NEW ds, NEW t, Pending(s, ds, t), NEW d, MovesRoot(t, d)
    PROVE  /\ Pending(s, Append(ds, d), Replay(t, d))
           /\ Emitted(Append(ds, d)) =
                IF d.new_root \in EmitsProof THEN Emitted(ds) + 1 ELSE Emitted(ds)
<1> DEFINE es == Append(ds, d)
           u == Replay(t, d)
           n == Len(ds) + 1
<1>1. /\ IsTree(s) /\ IsTree(t) /\ ds \in Seq(Diff) /\ t = ApplyBatch(s, ds)
      /\ ParentsToRead(ds) \subseteq s.transitions /\ ~ CacheMiss(ds)
      /\ RootTransitions(ds) # {} => Max(RootTransitions(ds)) \in RootTransitions(ds)
      /\ BestTipChanges(ds) # {} => Max(BestTipChanges(ds)) \in BestTipChanges(ds)
      /\ \A x \in Gone(s, ds) : x \in Blocks /\ t.root \notin Ancestors(x)
      /\ s.root \in Ancestors(t.root)
      /\ Emitted(ds) \in Nat
      /\ Emitted(ds) = 0 => SnarkedLedger(s.root) = SnarkedLedger(t.root)
      BY DEF Pending
<1>2. /\ d \in Diff /\ d.type = "Root_transitioned"
      /\ d.garbage \subseteq t.transitions
      /\ Parent[d.new_root] = t.root
      /\ d.just_emitted_a_proof <=> d.new_root \in EmitsProof
      BY DEF MovesRoot
<1>3. u = [root |-> d.new_root, best_tip |-> t.best_tip,
           transitions |-> t.transitions \ (d.garbage \cup {t.root}),
           arcs |-> [h \in t.transitions \ (d.garbage \cup {t.root}) |-> t.arcs[h]],
           protocol_states |-> RequiredStates[d.new_root]]
      BY <1>1, <1>2, ReplayMove
<1>4. /\ es \in Seq(Diff) /\ n \in Nat /\ es[n] = d /\ n \notin DOMAIN ds
      /\ \A i \in DOMAIN ds : i \in Nat /\ i < n /\ es[i] = ds[i]
      BY <1>1, <1>2, AppendPlaces
<1>5. /\ RootTransitions(es) = RootTransitions(ds) \cup {n}
      /\ BestTipChanges(es) = BestTipChanges(ds)
      BY <1>1, <1>2, AppendKinds
<1>6. /\ Hashes(es) = Hashes(ds) /\ ParentsToRead(es) = ParentsToRead(ds)
      /\ \A h : CachedArcs(s, es, h) = CachedArcs(s, ds, h)
      /\ CacheMiss(es) <=> CacheMiss(ds)
      BY <1>1, <1>2, AppendOther
<1>7. Emitted(es) = IF d.new_root \in EmitsProof THEN Emitted(ds) + 1 ELSE Emitted(ds)
      BY <1>1, <1>2, AppendEmitted
<1>8. /\ IsTree(u)
      /\ d.new_root \in Blocks \ {Genesis} /\ t.root \in Ancestors(d.new_root)
      /\ d.new_root \notin Ancestors(t.root)
      /\ Height[d.new_root] = Height[t.root] + 1 /\ Height[t.root] \in Nat
      BY <1>1, MoveOnTree
<1>9. /\ t.root = BatchRoot(s, ds) /\ t.best_tip = BatchTip(s, ds)
      /\ t.transitions = BatchNodes(s, ds) /\ t.arcs = BatchArcs(s, ds)
      BY <1>1, BatchFields
<1> HIDE DEF es, u, n
<1>10. Max(RootTransitions(es)) = n
      <2>1. \A i \in RootTransitions(ds) : i \in Nat /\ i < n
            BY <1>4 DEF RootTransitions
      <2> QED
            BY <2>1, <1>4, <1>5, LastPlace
<1>11. /\ n \notin RootTransitions(ds)
       /\ \A i \in RootTransitions(ds) : es[i] = ds[i]
      BY <1>4 DEF RootTransitions
<1>12. \A i \in BestTipChanges(ds) : es[i] = ds[i]
      BY <1>4 DEF BestTipChanges
<1>13. Gone(s, es) = Gone(s, ds) \cup d.garbage \cup {t.root}
      <2>1. Gone(s, es) = {s.root} \cup GarbageOf(es) \cup RootsAt(es, RootTransitions(es) \ {n})
            BY <1>5, <1>10, GoneWithMoves
      <2>2. GarbageOf(es) = d.garbage \cup GarbageOf(ds)
            BY <1>4, <1>5, <1>11 DEF GarbageOf
      <2>3. RootsAt(es, RootTransitions(es) \ {n}) = RootsAt(ds, RootTransitions(ds))
            BY <1>5, <1>11 DEF RootsAt
      <2>4. CASE RootTransitions(ds) = {}
            <3>1. GarbageOf(ds) = {} /\ RootsAt(ds, RootTransitions(ds)) = {}
                  BY <2>4 DEF GarbageOf, RootsAt
            <3>2. Gone(s, ds) = {} /\ t.root = s.root
                  BY <2>4, <1>9 DEF Gone, BatchRoot
            <3> QED
                  BY <2>1, <2>2, <2>3, <3>1, <3>2
      <2>5. CASE RootTransitions(ds) # {}
            <3>1. PICK m \in RootTransitions(ds) : m = Max(RootTransitions(ds))
                  BY <2>5, <1>1
            <3>2. t.root = ds[m].new_root
                  BY <3>1, <2>5, <1>9 DEF BatchRoot
            <3>3. RootsAt(ds, RootTransitions(ds)) =
                    RootsAt(ds, RootTransitions(ds) \ {m}) \cup {t.root}
                  BY <3>1, <3>2 DEF RootsAt
            <3>4. Gone(s, ds) =
                    {s.root} \cup GarbageOf(ds) \cup RootsAt(ds, RootTransitions(ds) \ {m})
                  BY <3>1, <2>5, GoneWithMoves
            <3> QED
                  BY <2>1, <2>2, <2>3, <3>3, <3>4
      <2> QED
            BY <2>4, <2>5
<1>14. u = ApplyBatch(s, es)
      <2>1. BatchRoot(s, es) = d.new_root /\ BatchStates(s, es) = RequiredStates[d.new_root]
            BY <1>4, <1>5, <1>10 DEF BatchRoot, BatchStates
      <2>2. BatchTip(s, es) = t.best_tip
            BY <1>1, <1>5, <1>9, <1>12 DEF BatchTip
      <2>3. BatchNodes(s, es) = t.transitions \ (d.garbage \cup {t.root})
            BY <1>6, <1>9, <1>13 DEF BatchNodes
      <2>4. BatchArcs(s, es) =
              [h \in t.transitions \ (d.garbage \cup {t.root}) |-> t.arcs[h]]
            <3>1. DOMAIN s.arcs = s.transitions
                  BY <1>1, TreeFields
            <3>2. (DOMAIN s.arcs \cup ParentsToRead(ds) \cup Hashes(ds)) \ Gone(s, ds) =
                    t.transitions
                  BY <3>1, <1>1, <1>9 DEF BatchNodes
            <3>3. (DOMAIN s.arcs \cup ParentsToRead(es) \cup Hashes(es)) \ Gone(s, es) =
                    t.transitions \ (d.garbage \cup {t.root})
                  BY <3>2, <1>6, <1>13
            <3>4. \A h \in t.transitions : t.arcs[h] = BatchArc(s, ds, h)
                  BY <3>2, <1>9 DEF BatchArcs
            <3>5. \A h : BatchArc(s, es, h) = BatchArc(s, ds, h)
                  BY <1>6 DEF BatchArc
            <3>6. BatchArcs(s, es) =
                    [h \in t.transitions \ (d.garbage \cup {t.root}) |-> BatchArc(s, es, h)]
                  BY <3>3 DEF BatchArcs
            <3> QED
                  BY <3>4, <3>5, <3>6
      <2> QED
            BY <1>3, <2>1, <2>2, <2>3, <2>4, BatchRecord
<1>15. u.root = d.new_root
      BY <1>3
<1>16. \A x \in Gone(s, es) : x \in Blocks /\ u.root \notin Ancestors(x)
      <2>1. ASSUME NEW x \in Gone(s, ds) PROVE x \in Blocks /\ d.new_root \notin Ancestors(x)
            <3>1. x \in Blocks /\ t.root \notin Ancestors(x)
                  BY <2>1, <1>1
            <3> QED
                  BY <3>1, <1>8, AncestorTransitive
      <2>2. ASSUME NEW x \in d.garbage PROVE x \in Blocks /\ d.new_root \notin Ancestors(x)
            BY <2>2, <1>1, <1>2, TreeFields DEF MovesRoot
      <2>3. t.root \in Blocks
            BY <1>1, TreeFields
      <2> QED
            BY <2>1, <2>2, <2>3, <1>8, <1>13, <1>15
<1>17. s.root \in Ancestors(u.root) /\ s.root # u.root
      <2>1. s.root \in Ancestors(d.new_root)
            BY <1>1, <1>8, AncestorTransitive
      <2> QED
            BY <2>1, <1>1, <1>8, <1>15
<1>18. Emitted(es) \in Nat /\ (Emitted(es) = 0 => SnarkedLedger(s.root) = SnarkedLedger(u.root))
      <2>1. d.new_root \notin EmitsProof => SnarkedLedger(d.new_root) = SnarkedLedger(t.root)
            BY <1>2, <1>8, SnarkedLedgerStep
      <2> QED
            BY <2>1, <1>1, <1>7, <1>15
<1>19. /\ ParentsToRead(es) \subseteq s.transitions /\ ~ CacheMiss(es)
       /\ Max(RootTransitions(es)) \in RootTransitions(es)
       /\ BestTipChanges(es) # {} => Max(BestTipChanges(es)) \in BestTipChanges(es)
      BY <1>1, <1>5, <1>6, <1>10
<1>20. Pending(s, es, u)
      BY <1>1, <1>4, <1>8, <1>14, <1>16, <1>17, <1>18, <1>19 DEF Pending
<1> QED
      BY <1>7, <1>20 DEF es, u

\* An empty batch changes nothing.
LEMMA EmptyBatch ==
    /\ Emitted(<<>>) = 0
    /\ \A s : IsTree(s) => Pending(s, <<>>, s)
<1>1. /\ NewNodes(<<>>) = {} /\ RootTransitions(<<>>) = {} /\ BestTipChanges(<<>>) = {}
      BY DEF NewNodes, RootTransitions, BestTipChanges
<1>2. Emitted(<<>>) = 0
      <2>1. {i \in RootTransitions(<<>>) : <<>>[i].just_emitted_a_proof} = {}
            BY <1>1
      <2> QED
            BY <2>1, FS_EmptySet DEF Emitted
<1>3. Hashes(<<>>) = {}
      BY <1>1 DEF Hashes
<1>4. ParentsToRead(<<>>) = {}
      BY <1>3 DEF ParentsToRead
<1>5. ~ CacheMiss(<<>>)
      BY <1>1 DEF CacheMiss
<1>6. ASSUME NEW s, IsTree(s) PROVE Pending(s, <<>>, s)
      <2>1. Gone(s, <<>>) = {}
            BY <1>1 DEF Gone
      <2>2. /\ BatchRoot(s, <<>>) = s.root /\ BatchTip(s, <<>>) = s.best_tip
            /\ BatchStates(s, <<>>) = s.protocol_states
            BY <1>1 DEF BatchRoot, BatchTip, BatchStates
      <2>3. BatchNodes(s, <<>>) = s.transitions
            BY <1>3, <2>1 DEF BatchNodes
      <2>4. BatchArcs(s, <<>>) = s.arcs
            <3>1. s.arcs = [h \in DOMAIN s.arcs |-> s.arcs[h]]
                  BY <1>6 DEF IsTree
            <3>2. \A h : BatchArc(s, <<>>, h) = s.arcs[h]
                  BY <1>3, <1>4 DEF BatchArc
            <3>3. BatchArcs(s, <<>>) = [h \in DOMAIN s.arcs |-> BatchArc(s, <<>>, h)]
                  BY <1>3, <1>4, <2>1 DEF BatchArcs
            <3> QED
                  BY <3>1, <3>2, <3>3
      <2>5. s = ApplyBatch(s, <<>>)
            BY <1>6, <2>2, <2>3, <2>4, BatchRecord, TreeFields
      <2>6. s.root \in Ancestors(s.root)
            BY <1>6, TreeFields, AncestorSelf
      <2> QED
            BY <1>1, <1>2, <1>4, <1>5, <1>6, <2>1, <2>5, <2>6 DEF Pending
<1> QED
      BY <1>2, <1>6

-----------------------------------------------------------------------------
(* Replaying the diffs one by one *)

\* A replay that has nothing to do, goes on by a diff, or goes on by a sequence.
LEMMA ReplayNothing ==
    ASSUME NEW s
    PROVE  ReplaysTo(s, <<>>, s)
<1>1. PICK c : c = [i \in {0} |-> s]
      OBVIOUS
<1>2. c[0] = s /\ Len(<<>>) = 0
      BY <1>1
<1>3. \A i \in 1 .. Len(<<>>) : FALSE
      OBVIOUS
<1> QED
      BY <1>2, <1>3 DEF ReplaysTo

LEMMA ReplayMore ==
    ASSUME NEW s, NEW ds \in Seq(Diff), NEW t, ReplaysTo(s, ds, t), NEW d \in Diff
    PROVE  ReplaysTo(s, Append(ds, d), Replay(t, d))
<1> DEFINE es == Append(ds, d)
           n == Len(ds) + 1
<1>1. PICK c : /\ c[0] = s /\ c[Len(ds)] = t
               /\ \A i \in 1 .. Len(ds) : c[i] = Replay(c[i - 1], ds[i])
      BY DEF ReplaysTo
<1>2. PICK e : e = [i \in 0 .. n |-> IF i = n THEN Replay(t, d) ELSE c[i]]
      OBVIOUS
<1>3. /\ Len(ds) \in Nat /\ Len(es) = n /\ es[n] = d
      /\ \A i \in 1 .. Len(ds) : es[i] = ds[i]
      OBVIOUS
<1>4. e[0] = s /\ e[n] = Replay(t, d) /\ e[Len(ds)] = t
      BY <1>1, <1>2, <1>3
<1>5. \A i \in 1 .. Len(ds) : e[i] = c[i] /\ e[i - 1] = c[i - 1]
      BY <1>2, <1>3
<1> HIDE DEF es
<1>6. \A i \in 1 .. n : e[i] = Replay(e[i - 1], es[i])
      <2>1. SUFFICES ASSUME NEW i \in 1 .. n PROVE e[i] = Replay(e[i - 1], es[i])
            OBVIOUS
      <2>2. CASE i = n
            <3>1. i - 1 = Len(ds)
                  BY <2>2, <1>3
            <3> QED
                  BY <3>1, <2>2, <1>3, <1>4
      <2>3. CASE i \in 1 .. Len(ds)
            BY <2>3, <1>1, <1>3, <1>5
      <2> QED
            BY <2>1, <2>2, <2>3, <1>3
<1> QED
      BY <1>3, <1>4, <1>6 DEF ReplaysTo, es

LEMMA ReplayBoth ==
    ASSUME NEW s, NEW ds \in Seq(Diff), NEW t, NEW es \in Seq(Diff), NEW u,
           ReplaysTo(s, ds, t), ReplaysTo(t, es, u)
    PROVE  ReplaysTo(s, ds \o es, u)
<1>1. PICK c : /\ c[0] = s /\ c[Len(ds)] = t
               /\ \A i \in 1 .. Len(ds) : c[i] = Replay(c[i - 1], ds[i])
      BY DEF ReplaysTo
<1>2. PICK e : /\ e[0] = t /\ e[Len(es)] = u
               /\ \A i \in 1 .. Len(es) : e[i] = Replay(e[i - 1], es[i])
      BY DEF ReplaysTo
<1>3. PICK m \in Nat, n \in Nat : m = Len(ds) /\ n = Len(es)
      OBVIOUS
<1>4. PICK a : a = [i \in 0 .. m + n |-> IF i <= m THEN c[i] ELSE e[i - m]]
      OBVIOUS
<1>5. PICK fs : fs = ds \o es
      OBVIOUS
<1>6. /\ Len(fs) = m + n
      /\ \A i \in 1 .. m : fs[i] = ds[i]
      /\ \A i \in 1 .. n : fs[m + i] = es[i]
      BY <1>3, <1>5
<1>7. a[0] = s /\ a[m + n] = u
      <2>1. CASE n = 0
            BY <2>1, <1>1, <1>2, <1>3, <1>4
      <2>2. CASE n # 0
            BY <2>2, <1>1, <1>2, <1>3, <1>4
      <2> QED
            BY <2>1, <2>2
<1>8. ASSUME NEW i \in 1 .. m + n PROVE a[i] = Replay(a[i - 1], fs[i])
      <2>1. CASE i <= m
            <3>1. a[i] = c[i] /\ a[i - 1] = c[i - 1]
                  BY <2>1, <1>4
            <3> QED
                  BY <3>1, <2>1, <1>1, <1>3, <1>6
      <2>2. CASE i > m
            <3>1. PICK j \in 1 .. n : i = m + j
                  <4>1. i - m \in 1 .. n /\ i = m + (i - m)
                        BY <2>2
                  <4> QED
                        BY <4>1
            <3>2. a[i] = e[j]
                  BY <3>1, <1>4
            <3>3. a[i - 1] = e[j - 1]
                  <4>1. CASE j = 1
                        BY <4>1, <3>1, <1>1, <1>2, <1>3, <1>4
                  <4>2. CASE j # 1
                        BY <4>2, <3>1, <1>4
                  <4> QED
                        BY <4>1, <4>2
            <3> QED
                  BY <3>1, <3>2, <3>3, <1>2, <1>3, <1>6
      <2> QED
            BY <2>1, <2>2
<1>9. ReplaysTo(s, fs, u)
      BY <1>6, <1>7, <1>8 DEF ReplaysTo
<1> QED
      BY <1>5, <1>9

\* A set of naturals that is not empty has a least element.
LEMMA LeastPlace ==
    ASSUME NEW T \in SUBSET Nat, T # {}
    PROVE  \E x \in T : \A y \in T : x <= y
<1>1. PICK x \in T : \A y \in T : ~ (<<y, x>> \in OpToRel(<, Nat))
      BY NatLessThanWellFounded, WFMin
<1>2. \A y \in T : ~ (y < x)
      BY <1>1 DEF OpToRel
<1> QED
      BY <1>2

\* The recursive definition of a replay finds the copy that a replay leads to.
LEMMA ReplayedIs ==
    ASSUME NEW s, NEW ds \in Seq(Diff), NEW t, ReplaysTo(s, ds, t)
    PROVE  Replayed(s, ds) = t
<1>1. PICK c : /\ c[0] = s /\ c[Len(ds)] = t
               /\ \A i \in 1 .. Len(ds) : c[i] = Replay(c[i - 1], ds[i])
      BY DEF ReplaysTo
<1>2. PICK n \in Nat : n = Len(ds)
      OBVIOUS
<1> DEFINE Recurs(g) == g = [i \in 0 .. n |-> IF i = 0 THEN s ELSE Replay(g[i - 1], ds[i])]
           copy == CHOOSE g : Recurs(g)
<1>3. Replayed(s, ds) = copy[n]
      BY <1>2 DEF Replayed
<1>4. PICK e : e = [i \in 0 .. n |-> c[i]]
      OBVIOUS
<1>5. Recurs(e)
      <2>1. ASSUME NEW i \in 0 .. n
            PROVE  e[i] = IF i = 0 THEN s ELSE Replay(e[i - 1], ds[i])
            <3>1. CASE i = 0
                  BY <3>1, <1>1, <1>4
            <3>2. CASE i # 0
                  <4>1. i \in 1 .. n /\ i - 1 \in 0 .. n
                        BY <3>2
                  <4> QED
                        BY <4>1, <3>2, <1>1, <1>2, <1>4
            <3> QED
                  BY <3>1, <3>2
      <2> QED
            BY <2>1, <1>4
<1>6. Recurs(copy)
      <2>1. \E g : Recurs(g)
            BY <1>5
      <2> HIDE DEF Recurs
      <2> QED
            BY <2>1
<1>7. /\ copy[0] = s
      /\ \A i \in 1 .. n : copy[i] = Replay(copy[i - 1], ds[i])
      <2>1. PICK g : g = copy
            OBVIOUS
      <2>2. Recurs(g)
            BY <1>6, <2>1
      <2> HIDE DEF copy
      <2>3. g[0] = s /\ \A i \in 1 .. n : g[i] = Replay(g[i - 1], ds[i])
            BY <2>2
      <2> QED
            BY <2>1, <2>3
<1> HIDE DEF copy
<1>8. PICK T : T = {i \in 0 .. n : copy[i] # c[i]}
      OBVIOUS
<1>10. T \in SUBSET Nat
      BY <1>8
<1>9. ASSUME T # {} PROVE FALSE
      <2>1. PICK x \in T : \A y \in T : x <= y
            BY <1>9, <1>10, LeastPlace
      <2>2. x # 0 /\ x \in 0 .. n /\ copy[x] # c[x]
            BY <2>1, <1>1, <1>7, <1>8
      <2>3. x \in 1 .. n /\ x - 1 \in 0 .. n /\ ~ (x <= x - 1)
            BY <2>2
      <2>4. copy[x - 1] = c[x - 1]
            BY <2>1, <2>3, <1>8
      <2> QED
            BY <2>2, <2>3, <2>4, <1>1, <1>2, <1>7
<1> QED
      BY <1>1, <1>2, <1>3, <1>8, <1>9

-----------------------------------------------------------------------------
(* The frontier in memory as the last copy *)

LEMMA MemoryFields ==
    /\ FrontierAsDatabase.root = root /\ FrontierAsDatabase.best_tip = best_tip
    /\ FrontierAsDatabase.transitions = DOMAIN table
    /\ FrontierAsDatabase.protocol_states = protocol_states
    /\ FrontierAsDatabase.arcs = [h \in DOMAIN table |-> table[h].successor_hashes]
BY DEF FrontierAsDatabase

\* A frontier that satisfies its invariant is a tree, as a copy.
LEMMA MemoryIsTree ==
    ASSUME TreeInv
    PROVE  IsTree(FrontierAsDatabase) /\ Fits(FrontierAsDatabase)
<1>1. /\ root \in Blocks /\ best_tip \in Blocks /\ DOMAIN table \in SUBSET Blocks
      /\ root \in DOMAIN table
      /\ \A b \in DOMAIN table :
            /\ root \in Ancestors(b)
            /\ \A a \in Ancestors(b) : root \in Ancestors(a) => a \in DOMAIN table
            /\ table[b].successor_hashes = {c \in DOMAIN table \ {root} : Parent[c] = b}
      /\ protocol_states = RequiredStates[root]
      BY DEF TreeInv, TypeOK, FrontierIsTree, ProtocolStatesSuffice
<1>2. [h \in DOMAIN table |-> table[h].successor_hashes] =
         [h \in DOMAIN table |-> {c \in DOMAIN table \ {root} : Parent[c] = h}]
      BY <1>1
<1>3. IsTree(FrontierAsDatabase)
      BY <1>1, <1>2, MakeTree DEF FrontierAsDatabase
<1>4. Fits(FrontierAsDatabase)
      BY MemoryFields DEF TreeInv, BoundedLength, Fits
<1> QED
      BY <1>3, <1>4

\* The batches that adding a block makes.
LEMMA ConcatDiffs ==
    ASSUME NEW ds \in Seq(Diff), NEW a \in Diff, NEW b \in Diff, NEW c \in Diff
    PROVE  /\ ds \o ((<<a>> \o <<>>) \o <<>>) = Append(ds, a)
           /\ ds \o ((<<a>> \o <<b>>) \o <<>>) = Append(Append(ds, a), b)
           /\ ds \o ((<<a>> \o <<>>) \o <<c>>) = Append(Append(ds, a), c)
           /\ ds \o ((<<a>> \o <<b>>) \o <<c>>) = Append(Append(Append(ds, a), b), c)
<1>1. ASSUME NEW x \in Seq(Diff), NEW y \in Seq(Diff)
      PROVE  ds \o ((<<a>> \o x) \o y) = (Append(ds, a) \o x) \o y
      <2>0. <<a>> \in Seq(Diff)
            OBVIOUS
      <2>1. PICK e \in Seq(Diff) : e = <<a>>
            BY <2>0
      <2>2. ds \o e = Append(ds, a)
            BY <2>1, AppendIsConcat
      <2>3. e \o x \in Seq(Diff) /\ ds \o e \in Seq(Diff)
            BY ConcatProperties
      <2>4. ds \o ((e \o x) \o y) = (ds \o (e \o x)) \o y
            BY <2>3, ConcatAssociative
      <2>5. ds \o (e \o x) = (ds \o e) \o x
            BY ConcatAssociative
      <2> QED
            BY <2>1, <2>2, <2>4, <2>5
<1>2. /\ <<>> \in Seq(Diff) /\ <<b>> \in Seq(Diff) /\ <<c>> \in Seq(Diff)
      /\ Append(ds, a) \in Seq(Diff)
      OBVIOUS
<1>3. \A x \in Seq(Diff) : x \o <<>> = x /\ x \o <<b>> = Append(x, b) /\ x \o <<c>> = Append(x, c)
      BY ConcatEmptySeq, AppendIsConcat
<1>4. Append(Append(ds, a), b) \in Seq(Diff)
      BY <1>2
<1>5. ds \o ((<<a>> \o <<>>) \o <<>>) = Append(ds, a)
      BY <1>1, <1>2, <1>3
<1>6. ds \o ((<<a>> \o <<b>>) \o <<>>) = Append(Append(ds, a), b)
      BY <1>1, <1>2, <1>3, <1>4
<1>7. ds \o ((<<a>> \o <<>>) \o <<c>>) = Append(Append(ds, a), c)
      BY <1>1, <1>2, <1>3
<1>8. ds \o ((<<a>> \o <<b>>) \o <<c>>) = Append(Append(Append(ds, a), b), c)
      BY <1>1, <1>2, <1>3, <1>4
<1> QED
      BY <1>5, <1>6, <1>7, <1>8

LEMMA MemoryTree == TreeInv => IsTree(FrontierAsDatabase)
BY MemoryIsTree

\* The root transition of a block that overflows the frontier, on the copy that
\* has the block already.
LEMMA TransitionMovesRoot ==
    ASSUME TreeInv, NEW b \in Blocks \ {Genesis}, Parent[b] \in DOMAIN table, Overflows(b),
           NEW t, t.root = root, t.transitions = DOMAIN table \cup {b}
    PROVE  MovesRoot(t, RootTransitioned(Heir(b)))
<1>1. TypeOK /\ FrontierIsTree /\ BoundedLength
      BY DEF TreeInv
<1>2. /\ Heir(b) \in DOMAIN table /\ Heir(b) \in Blocks \ {Genesis}
      /\ Parent[Heir(b)] = root
      BY <1>1, OverflowFacts
<1>3. PICK d : d = RootTransitioned(Heir(b))
      OBVIOUS
<1>4. /\ d.type = "Root_transitioned" /\ d.new_root = Heir(b)
      /\ d.just_emitted_a_proof = (Heir(b) \in EmitsProof)
      /\ d.garbage = UNION {Subtree(s) : s \in table[root].successor_hashes \ {Heir(b)}}
      /\ d = [type |-> "Root_transitioned", new_root |-> d.new_root, garbage |-> d.garbage,
              just_emitted_a_proof |-> d.just_emitted_a_proof]
      BY <1>3 DEF RootTransitioned
<1>5. d.garbage \subseteq DOMAIN table
      BY <1>4 DEF Subtree
<1>6. DOMAIN table \subseteq Blocks
      BY <1>1 DEF TypeOK
<1>7. d.garbage \in SUBSET Blocks /\ d.just_emitted_a_proof \in BOOLEAN /\ d.new_root \in Blocks
      BY <1>2, <1>4, <1>5, <1>6
<1>8. d \in Diff
      BY <1>4, <1>7 DEF Diff
<1>9. \A x \in DOMAIN table \cup {b} :
          x \notin d.garbage \cup {root} <=> Heir(b) \in Ancestors(x)
      BY <1>1, <1>3, SurvivorsDescendFromHeir
<1>10. d.just_emitted_a_proof <=> Heir(b) \in EmitsProof
      BY Zenon, <1>4
<1>11. \A x \in t.transitions : x \notin d.garbage \cup {t.root} <=> d.new_root \in Ancestors(x)
      BY <1>4, <1>9
<1>12. /\ d.new_root \in t.transitions \ {Genesis} /\ Parent[d.new_root] = t.root
       /\ d.garbage \subseteq t.transitions
      BY <1>2, <1>4, <1>5
<1>13. MovesRoot(t, d)
      BY <1>4, <1>8, <1>10, <1>11, <1>12 DEF MovesRoot
<1> QED
      BY <1>3, <1>13

\* Adding a new block applies the diffs, one by one, to the frontier in memory.
LEMMA AddReplays ==
    ASSUME TreeInv, NEW b \in Blocks, b \notin DOMAIN table, AddBreadcrumb(b),
           NEW s, NEW ds, Pending(s, ds, FrontierAsDatabase)
    PROVE  /\ TreeInv'
           /\ CalculateDiffs(b) \in Seq(Diff)
           /\ Pending(s, ds \o CalculateDiffs(b), FrontierAsDatabase')
           /\ Emitted(ds \o CalculateDiffs(b)) =
                Emitted(ds) + IF Overflows(b) /\ Heir(b) \in EmitsProof THEN 1 ELSE 0
           /\ ReplaysTo(s, ds, FrontierAsDatabase) =>
                ReplaysTo(s, ds \o CalculateDiffs(b), FrontierAsDatabase')
<1>1. /\ b \in Blocks \ {Genesis} /\ Parent[b] \in DOMAIN table
      /\ best_tip' = IF Select(best_tip, b) THEN b ELSE best_tip
      BY DEF AddBreadcrumb, SelectedTip
<1>2. TypeOK /\ FrontierIsTree /\ BoundedLength /\ root \in DOMAIN table
      BY DEF TreeInv, FrontierIsTree
<1>3. TreeInv'
      BY MoveRootTreeInv, NewNodeTreeInv
<1>4. PICK m0 : m0 = FrontierAsDatabase
      OBVIOUS
<1>5. /\ m0.root = root /\ m0.best_tip = best_tip /\ m0.transitions = DOMAIN table
      /\ IsTree(m0) /\ Pending(s, ds, m0)
      BY <1>4, MemoryFields, MemoryIsTree
<1>6. PICK m : m = FrontierAsDatabase'
      OBVIOUS
<1>7. /\ m.root = root' /\ m.best_tip = best_tip' /\ m.transitions = DOMAIN table'
      BY <1>6 DEF FrontierAsDatabase
<1>8. IsTree(m)
      <2>1. (TreeInv => IsTree(FrontierAsDatabase))'
            BY MemoryTree, PTL
      <2> QED
            BY <1>3, <1>6, <2>1
<1>9. PICK m1 : m1 = Replay(m0, NewNode(b))
      OBVIOUS
<1>10. /\ IsTree(m1) /\ m1.root = root /\ m1.best_tip = best_tip
       /\ m1.transitions = DOMAIN table \cup {b}
      BY <1>1, <1>5, <1>9, NodeOnTree, ReplayNode
<1>11. /\ Pending(s, Append(ds, NewNode(b)), m1)
       /\ Emitted(Append(ds, NewNode(b))) = Emitted(ds)
      BY <1>1, <1>5, <1>9, AppendNode
<1>12. ds \in Seq(Diff) /\ Emitted(ds) \in Nat /\ NewNode(b) \in Diff
      BY <1>1, <1>5 DEF Pending, Diff, NewNode
<1>13. PICK d : d = RootTransitioned(Heir(b))
      OBVIOUS
<1>14. PICK e : e = BestTipChanged(b)
      OBVIOUS
<1>15. e \in Diff
      BY <1>14 DEF Diff, BestTipChanged
<1>16. PICK es1 : es1 = Append(ds, NewNode(b))
      OBVIOUS
<1>17. PICK m2, es2 : /\ Overflows(b) => m2 = Replay(m1, d) /\ es2 = Append(es1, d)
                      /\ ~ Overflows(b) => m2 = m1 /\ es2 = es1
      <2>1. CASE Overflows(b)
            BY <2>1
      <2>2. CASE ~ Overflows(b)
            BY <2>2
      <2> QED
            BY <2>1, <2>2
<1>18. /\ IsTree(m2) /\ m2.root = root' /\ m2.best_tip = best_tip
       /\ m2.transitions = DOMAIN table'
       /\ Pending(s, es2, m2)
       /\ Emitted(es2) = Emitted(ds) + IF Overflows(b) /\ Heir(b) \in EmitsProof THEN 1 ELSE 0
       /\ Overflows(b) => d \in Diff
      <2>1. CASE Overflows(b)
            <3>1. MovesRoot(m1, d)
                  BY <1>1, <1>10, <1>13, <2>1, TransitionMovesRoot
            <3>2. d.new_root = Heir(b) /\ d \in Diff /\ d.type = "Root_transitioned"
                  BY <3>1, <1>13 DEF RootTransitioned, MovesRoot
            <3>3. /\ root' = Heir(b)
                  /\ \A x : x \in DOMAIN table' <=>
                        x \in DOMAIN table \cup {b} /\ Heir(b) \in Ancestors(x)
                  BY <2>1, MoveRootTreeInv
            <3>4. IsTree(m2)
                  BY <3>1, <1>10, <1>17, <2>1, MoveOnTree
            <3>5. /\ m2.root = Heir(b) /\ m2.best_tip = best_tip
                  /\ m2.transitions = (DOMAIN table \cup {b}) \ (d.garbage \cup {root})
                  <4>1. m2 = [root |-> d.new_root, best_tip |-> m1.best_tip,
                              transitions |-> m1.transitions \ (d.garbage \cup {m1.root}),
                              arcs |-> [h \in m1.transitions \ (d.garbage \cup {m1.root}) |->
                                           m1.arcs[h]],
                              protocol_states |-> RequiredStates[d.new_root]]
                        BY <3>2, <1>10, <1>17, <2>1, ReplayMove
                  <4> QED
                        BY <4>1, <3>2, <1>10
            <3>6. \A x \in DOMAIN table \cup {b} :
                      x \notin d.garbage \cup {root} <=> Heir(b) \in Ancestors(x)
                  BY <3>1, <3>2, <1>10 DEF MovesRoot
            <3>7. m2.transitions = DOMAIN table'
                  BY <3>3, <3>5, <3>6
            <3>8. /\ Pending(s, es2, m2)
                  /\ Emitted(es2) = IF Heir(b) \in EmitsProof THEN Emitted(es1) + 1
                                    ELSE Emitted(es1)
                  <4>1. m2 = Replay(m1, d) /\ es2 = Append(es1, d) /\ Pending(s, es1, m1)
                        BY <1>11, <1>16, <1>17, <2>1
                  <4> QED
                        BY <4>1, <3>1, <3>2, AppendMove
            <3> QED
                  <4>1. Emitted(es1) = Emitted(ds) /\ Emitted(ds) \in Nat
                        BY <1>11, <1>12, <1>16
                  <4>2. Emitted(es2) =
                          Emitted(ds) + IF Overflows(b) /\ Heir(b) \in EmitsProof THEN 1 ELSE 0
                        BY <4>1, <3>8, <2>1
                  <4> QED
                        BY <4>2, <3>2, <3>3, <3>4, <3>5, <3>7, <3>8
      <2>2. CASE ~ Overflows(b)
            <3>1. root' = root /\ table' = TableWithNode(b)
                  BY <2>2 DEF AddBreadcrumb, SelectedTip
            <3>2. DOMAIN table' = DOMAIN table \cup {b}
                  BY <3>1, <1>1, <1>2, TableWithNodeFacts
            <3> QED
                  <4>1. m2 = m1 /\ es2 = es1 /\ Pending(s, es1, m1)
                        BY <1>11, <1>16, <1>17, <2>2
                  <4>2. Emitted(es2) =
                          Emitted(ds) + IF Overflows(b) /\ Heir(b) \in EmitsProof THEN 1 ELSE 0
                        BY <4>1, <1>11, <1>12, <1>16, <2>2
                  <4> QED
                        BY <4>1, <4>2, <3>1, <3>2, <1>10, <2>2
      <2> QED
            BY <2>1, <2>2
<1>19. PICK m3, es3 : /\ Select(best_tip, b) => m3 = Replay(m2, e) /\ es3 = Append(es2, e)
                      /\ ~ Select(best_tip, b) => m3 = m2 /\ es3 = es2
      <2>1. CASE Select(best_tip, b)
            BY <2>1
      <2>2. CASE ~ Select(best_tip, b)
            BY <2>2
      <2> QED
            BY <2>1, <2>2
<1>20. m3 = m /\ Pending(s, es3, m3) /\ Emitted(es3) = Emitted(es2)
      <2>1. CASE Select(best_tip, b)
            <3>1. Pending(s, es3, m3) /\ Emitted(es3) = Emitted(es2)
                  BY <1>14, <1>18, <1>19, <2>1, AppendTip
            <3>2. IsTree(m3)
                  BY <3>1 DEF Pending
            <3>3. m3.root = m2.root /\ m3.best_tip = b /\ m3.transitions = m2.transitions
                  BY <1>14, <1>18, <1>19, <2>1, ReplayTip
            <3>4. m3 = m
                  BY <3>2, <3>3, <1>1, <1>7, <1>8, <1>18, <2>1, SameTree
            <3> QED
                  BY <3>1, <3>4
      <2>2. CASE ~ Select(best_tip, b)
            <3>1. m3 = m
                  BY <1>1, <1>7, <1>8, <1>18, <1>19, <2>2, SameTree
            <3> QED
                  BY <3>1, <1>18, <1>19, <2>2
      <2> QED
            BY <2>1, <2>2
<1>21. ReplaysTo(s, ds, m0) => ReplaysTo(s, es3, m3)
      <2>1. SUFFICES ASSUME ReplaysTo(s, ds, m0) PROVE ReplaysTo(s, es3, m3)
            OBVIOUS
      <2>2. ReplaysTo(s, es1, m1) /\ es1 \in Seq(Diff)
            BY <2>1, <1>9, <1>12, <1>16, ReplayMore
      <2>3. ReplaysTo(s, es2, m2) /\ es2 \in Seq(Diff)
            <3>1. CASE Overflows(b)
                  <4>1. d \in Diff /\ m2 = Replay(m1, d) /\ es2 = Append(es1, d)
                        BY <3>1, <1>17, <1>18
                  <4> QED
                        BY <4>1, <2>2, ReplayMore
            <3>2. CASE ~ Overflows(b)
                  BY <3>2, <2>2, <1>17
            <3> QED
                  BY <3>1, <3>2
      <2> QED
            BY <2>3, <1>15, <1>19, ReplayMore
<1>22. /\ CalculateDiffs(b) \in Seq(Diff)
       /\ ds \o CalculateDiffs(b) = es3
      <2>1. CalculateDiffs(b) = (<<NewNode(b)>> \o (IF Overflows(b) THEN <<d>> ELSE <<>>))
                                \o (IF Select(best_tip, b) THEN <<e>> ELSE <<>>)
            BY <1>13, <1>14 DEF CalculateDiffs
      <2>2. PICK a \in Diff : a = NewNode(b)
            BY <1>12
      <2>3. PICK x, y : /\ x = (IF Overflows(b) THEN <<d>> ELSE <<>>)
                        /\ y = (IF Select(best_tip, b) THEN <<e>> ELSE <<>>)
            OBVIOUS
      <2>4. x \in Seq(Diff) /\ y \in Seq(Diff) /\ <<a>> \in Seq(Diff)
            <3>1. Overflows(b) => d \in Diff
                  BY <1>18
            <3> QED
                  BY <3>1, <2>3, <1>15
      <2>5. CalculateDiffs(b) = (<<a>> \o x) \o y
            BY <2>1, <2>2, <2>3
      <2>6. CalculateDiffs(b) \in Seq(Diff)
            <3>1. <<a>> \o x \in Seq(Diff)
                  BY <2>4, ConcatProperties
            <3> QED
                  BY <3>1, <2>4, <2>5, ConcatProperties
      <2>7. es1 = Append(ds, a) /\ ds \in Seq(Diff)
            BY <1>12, <1>16, <2>2
      <2>8. CASE Overflows(b)
            <3>1. d \in Diff /\ x = <<d>> /\ es2 = Append(es1, d)
                  BY <2>3, <2>8, <1>17, <1>18
            <3>2. CASE Select(best_tip, b)
                  <4>1. y = <<e>> /\ es3 = Append(es2, e)
                        BY <3>2, <2>3, <1>19
                  <4> QED
                        BY <4>1, <3>1, <2>5, <2>6, <2>7, <1>15, ConcatDiffs
            <3>3. CASE ~ Select(best_tip, b)
                  <4>1. y = <<>> /\ es3 = es2
                        BY <3>3, <2>3, <1>19
                  <4> QED
                        BY <4>1, <3>1, <2>5, <2>6, <2>7, <1>15, ConcatDiffs
            <3> QED
                  BY <3>2, <3>3
      <2>9. CASE ~ Overflows(b)
            <3>1. x = <<>> /\ es2 = es1
                  BY <2>3, <2>9, <1>17
            <3>2. CASE Select(best_tip, b)
                  <4>1. y = <<e>> /\ es3 = Append(es2, e)
                        BY <3>2, <2>3, <1>19
                  <4> QED
                        BY <4>1, <3>1, <2>5, <2>6, <2>7, <1>15, ConcatDiffs
            <3>3. CASE ~ Select(best_tip, b)
                  <4>1. y = <<>> /\ es3 = es2
                        BY <3>3, <2>3, <1>19
                  <4> QED
                        BY <4>1, <3>1, <2>5, <2>6, <2>7, <1>15, ConcatDiffs
            <3> QED
                  BY <3>2, <3>3
      <2> QED
            BY <2>8, <2>9
<1> QED
      BY <1>3, <1>4, <1>6, <1>18, <1>20, <1>21, <1>22

-----------------------------------------------------------------------------
(* What a load finds in a database that is a tree *)

\* The crawl from the root along the stored arcs reaches exactly the stored blocks.
LEMMA CrawlReachesAll ==
    ASSUME IsTree(db)
    PROVE  Crawled = db.transitions /\ db.transitions = DOMAIN db.arcs
<1>1. /\ db.root \in Blocks /\ db.transitions \subseteq Blocks /\ db.root \in db.transitions
      /\ DOMAIN db.arcs = db.transitions
      /\ \A h \in db.transitions :
            /\ db.arcs[h] = {c \in db.transitions \ {db.root} : Parent[c] = h}
            /\ db.root \in Ancestors(h)
            /\ \A a \in Ancestors(h) : db.root \in Ancestors(a) => a \in db.transitions
      BY TreeFields DEF IsTree
<1>2. Crawled \subseteq db.transitions
      <2>1. ArcClosed(db.transitions)
            BY <1>1 DEF ArcClosed
      <2> QED
            BY <2>1, <1>1 DEF Crawled
<1>3. ASSUME NEW y \in db.transitions, NEW S \in SUBSET Blocks, db.root \in S, ArcClosed(S)
      PROVE  y \in S
      <2> DEFINE U == {z \in Blocks : db.root \in Ancestors(z) => z \in db.transitions \ S}
      <2>1. SUFFICES ASSUME y \notin S PROVE FALSE
            OBVIOUS
      <2>2. U \subseteq Blocks /\ y \in U
            BY <1>1, <1>3, <2>1
      <2>3. ParentClosed(U)
            <3>1. SUFFICES ASSUME NEW z \in U \ {Genesis} PROVE Parent[z] \in U
                  BY DEF ParentClosed
            <3>2. z \in Blocks \ {Genesis}
                  BY <3>1
            <3>3. /\ Parent[z] \in Blocks
                  /\ Parent[z] \in Ancestors(z)
                  /\ Ancestors(z) = {z} \cup Ancestors(Parent[z])
                  BY <3>2, AncestorUnfold
            <3>4. SUFFICES ASSUME db.root \in Ancestors(Parent[z])
                           PROVE  Parent[z] \in db.transitions \ S
                  BY <3>3
            <3>5. z \in db.transitions /\ z \notin S
                  BY <3>1, <3>3, <3>4
            <3>6. Parent[z] \in db.transitions
                  BY <3>3, <3>4, <3>5, <1>1
            <3>7. z # db.root
                  <4>1. Height[Parent[z]] < Height[z]
                        BY <3>2, <3>3, BlockTreeAssumption
                  <4>2. db.root = Parent[z] \/ Height[db.root] < Height[Parent[z]]
                        BY <3>3, <3>4, AncestorHeight
                  <4>3. Height[db.root] \in Nat /\ Height[Parent[z]] \in Nat /\ Height[z] \in Nat
                        BY <1>1, <3>2, <3>3, BlockTreeAssumption
                  <4> QED
                        BY <4>1, <4>2, <4>3
            <3>8. z \in db.arcs[Parent[z]]
                  BY <3>5, <3>6, <3>7, <1>1
            <3> QED
                  BY <3>5, <3>6, <3>8, <1>1, <1>3 DEF ArcClosed
      <2>4. db.root \in U
            BY <1>1, <1>3, <2>2, <2>3, AncestorInduction
      <2> QED
            BY <2>4, <1>1, <1>3, AncestorSelf
<1> QED
      BY <1>1, <1>2, <1>3 DEF Crawled

\* Every block is built on the genesis block.
LEMMA GenesisIsAncestor ==
    ASSUME NEW b \in Blocks
    PROVE  Genesis \in Ancestors(b)
<1>1. SUFFICES ASSUME Genesis \notin Ancestors(b) PROVE FALSE
      OBVIOUS
<1>2. b \in Ancestors(b) /\ Ancestors(b) \subseteq Blocks
      BY AncestorSelf
<1>3. \A a \in Ancestors(b) : a # Genesis /\ Parent[a] \in Ancestors(b)
      BY <1>1, AncestorsClosed DEF ParentClosed
<1>4. \A a \in Ancestors(b) : Height[a] \in Nat /\ Height[a] = Height[Parent[a]] + 1
      BY <1>2, <1>3, BlockTreeAssumption
<1>5. PICK T : T = {Height[a] : a \in Ancestors(b)}
      OBVIOUS
<1>6. T \in SUBSET Nat /\ T # {}
      BY <1>2, <1>4, <1>5
<1>7. PICK x \in T : \A y \in T : x <= y
      BY <1>6, LeastPlace
<1>8. PICK a \in Ancestors(b) : x = Height[a]
      BY <1>5, <1>7
<1>9. Height[Parent[a]] \in T /\ Height[Parent[a]] \in Nat
      BY <1>3, <1>4, <1>5, <1>8
<1> QED
      BY <1>4, <1>7, <1>8, <1>9

\* A database that has just been initialised is a tree with one node.
LEMMA InitializeTree ==
    ASSUME NEW r \in Blocks
    PROVE  /\ IsTree(Initialize(r)) /\ Fits(Initialize(r)) /\ TipStrongest(Initialize(r))
           /\ Initialize(r).root = r /\ Initialize(r) # NoDatabase
<1>1. /\ Initialize(r).root = r /\ Initialize(r).transitions = {r}
      /\ Initialize(r).best_tip = r
      BY DEF Initialize
<1>2. r \in Ancestors(r)
      BY AncestorSelf
<1>3. Height[r] \in Nat /\ MaxLength \in Nat
      BY BlockTreeAssumption, MaxLengthAssumption
<1>4. ASSUME NEW a \in Ancestors(r), r \in Ancestors(a) PROVE a \in {r}
      <2>1. a \in Blocks
            BY AncestorSelf
      <2>2. a = r \/ Height[a] < Height[r]
            BY AncestorHeight
      <2>3. r = a \/ Height[r] < Height[a]
            BY <1>4, <2>1, AncestorHeight
      <2> QED
            BY <2>1, <2>2, <2>3, <1>3, BlockTreeAssumption
<1>5. [h \in {r} |-> {}] = [h \in {r} |-> {c \in {r} \ {r} : Parent[c] = h}]
      OBVIOUS
<1>6. IsTree(Initialize(r))
      BY <1>2, <1>4, <1>5, MakeTree DEF Initialize
<1>7. Fits(Initialize(r))
      BY <1>1, <1>3 DEF Fits
<1>8. TipStrongest(Initialize(r))
      BY <1>1 DEF TipStrongest
<1> QED
      BY <1>1, <1>6, <1>7, <1>8, DatabaseAssumption

-----------------------------------------------------------------------------
(* The queue of checkpoints *)

\* handle_emitted_proof dequeues a checkpoint of the flight.
LEMMA QueueDequeue ==
    ASSUME NEW q, NEW d, NEW e1, NEW e2, NEW l1, NEW l2, NEW l3,
           QueueFits(q, d, e1, e2, 0, l1, l2, l3), d < e1
    PROVE  QueueFits(Tail(q), d + 1, e1, e2, 0, l1, l2, l3)
<1>1. /\ q \in Seq(Ledger) /\ d \in Nat /\ e1 \in Nat /\ e2 \in Nat
      /\ Len(q) = (e1 - d) + e2
      /\ e2 # 0 => q[(e1 - d) + 1] = l2
      BY DEF QueueFits
<1>2. q # <<>> /\ Len(q) \in Nat
      BY <1>1
<1>3. /\ Tail(q) \in Seq(Ledger) /\ Len(Tail(q)) = Len(q) - 1
      /\ \A i \in 1 .. Len(q) - 1 : Tail(q)[i] = q[i + 1]
      BY <1>1, <1>2
<1>4. ASSUME e2 # 0 PROVE Tail(q)[(e1 - (d + 1)) + 1] = l2
      <2>1. PICK i \in 1 .. Len(q) - 1 : i = (e1 - (d + 1)) + 1 /\ i + 1 = (e1 - d) + 1
            BY <1>1, <1>2, <1>4
      <2> QED
            BY <2>1, <1>1, <1>3, <1>4
<1> QED
      BY <1>1, <1>3, <1>4 DEF QueueFits

\* A flush starts: what was in the buffer is in flight.
LEMMA QueueFlush ==
    ASSUME NEW q, NEW e2, NEW l1, NEW l3, NEW m2, NEW m3,
           QueueFits(q, 0, 0, e2, 0, l1, l1, l3)
    PROVE  QueueFits(q, 0, e2, 0, 0, l1, m2, m3)
BY DEF QueueFits

\* The batch is written: what comes next in the queue belongs to the buffer.
LEMMA QueueWrite ==
    ASSUME NEW q, NEW d, NEW e2, NEW l1, NEW l2, NEW l3, NEW m3,
           QueueFits(q, d, d, e2, 0, l1, l2, l3)
    PROVE  QueueFits(q, 0, 0, e2, 0, l2, l2, m3)
BY DEF QueueFits

\* move_root takes a checkpoint.
LEMMA QueueEnqueue ==
    ASSUME NEW q, NEW e1, NEW e2, NEW l1, NEW l2, NEW l3 \in Ledger,
           QueueFits(q, 0, e1, e2, 0, l1, l2, l3)
    PROVE  QueueFits(Append(q, l3), 0, e1, e2, 1, l1, l2, l3)
<1>1. /\ q \in Seq(Ledger) /\ e1 \in Nat /\ e2 \in Nat
      /\ Len(q) = e1 + e2
      /\ e1 # 0 => q[1] = l1
      /\ e2 # 0 => q[e1 + 1] = l2
      BY DEF QueueFits
<1>2. /\ Append(q, l3) \in Seq(Ledger) /\ Len(Append(q, l3)) = Len(q) + 1 /\ Len(q) \in Nat
      /\ \A i \in 1 .. Len(q) : Append(q, l3)[i] = q[i]
      /\ Append(q, l3)[Len(q) + 1] = l3
      BY <1>1
<1>3. e1 # 0 => Append(q, l3)[1] = l1
      BY <1>1, <1>2
<1>4. e2 # 0 => Append(q, l3)[(e1 - 0) + 1] = l2
      BY <1>1, <1>2
<1> QED
      BY <1>1, <1>2, <1>3, <1>4 DEF QueueFits

\* The diffs of the root transition under way go into the buffer.
LEMMA QueueCommit ==
    ASSUME NEW q, NEW e1, NEW e2, NEW l1, NEW l2, NEW l3, NEW m3,
           QueueFits(q, 0, e1, e2, 1, l1, l2, l3), e2 = 0 => l2 = l3
    PROVE  QueueFits(q, 0, e1, e2 + 1, 0, l1, l2, m3)
<1>1. /\ q \in Seq(Ledger) /\ e1 \in Nat /\ e2 \in Nat
      /\ Len(q) = e1 + e2 + 1
      /\ e1 # 0 => q[1] = l1
      /\ e2 # 0 => q[e1 + 1] = l2
      /\ q[Len(q)] = l3
      BY DEF QueueFits
<1>2. q[(e1 - 0) + 1] = l2
      BY <1>1
<1> QED
      BY <1>1, <1>2 DEF QueueFits

-----------------------------------------------------------------------------
(* The three copies, step by step *)

\* Nothing moves the frontier in memory or its ledger.
LEMMA SameMemory ==
    ASSUME UNCHANGED <<memory, root_ledger>>
    PROVE  /\ TreeInv => TreeInv'
           /\ FrontierAsDatabase' = FrontierAsDatabase
           /\ BestTipStrongest => BestTipStrongest'
<1>1. UNCHANGED <<root, best_tip, table, protocol_states, root_ledger>>
      BY DEF memory
<1>2. TreeInv => TreeInv'
      BY <1>1 DEF TreeInv, TypeOK, FrontierIsTree, BoundedLength, RootLedgerMatchesRoot,
                  ProtocolStatesSuffice
<1>3. FrontierAsDatabase' = FrontierAsDatabase
      BY <1>1 DEF FrontierAsDatabase
<1>4. BestTipStrongest => BestTipStrongest'
      BY <1>1 DEF BestTipStrongest
<1> QED
      BY <1>2, <1>3, <1>4

\* Nothing moves any copy.
LEMMA CopiesStay ==
    ASSUME CopiesInv, UNCHANGED <<memory, root_ledger, db, flight, buffer>>
    PROVE  CopiesInv' /\ Mid' = Mid
<1>1. Mid' = Mid
      BY DEF Mid
<1>2. TreeInv' /\ FrontierAsDatabase' = FrontierAsDatabase
      BY SameMemory DEF CopiesInv
<1> QED
      BY <1>1, <1>2 DEF CopiesInv

\* When nothing is in flight the worker has written everything it took.
LEMMA NothingInFlight ==
    ASSUME IsTree(db), flight = <<>>
    PROVE  Mid = db
<1>1. Pending(db, <<>>, db)
      BY EmptyBatch
<1> QED
      BY <1>1 DEF Pending, Mid

\* The buffer grows with the frontier in memory.
LEMMA CopiesAppend ==
    ASSUME CopiesInv, UNCHANGED <<db, flight>>, TreeInv',
           Pending(Mid, buffer', FrontierAsDatabase'),
           ReplaysTo(Mid, buffer', FrontierAsDatabase')
    PROVE  CopiesInv' /\ Mid' = Mid
<1>1. Mid' = Mid
      BY DEF Mid
<1> QED
      BY <1>1 DEF CopiesInv

LEMMA MemoryFits == TreeInv => Fits(FrontierAsDatabase)
BY MemoryIsTree

\* A flush starts with everything that brings the database up to memory.
LEMMA CopiesFlush ==
    ASSUME CopiesInv, flight = <<>>, db' = db, buffer' = <<>>, TreeInv',
           Pending(Mid, flight', FrontierAsDatabase'),
           ReplaysTo(Mid, flight', FrontierAsDatabase')
    PROVE  CopiesInv' /\ Mid' = FrontierAsDatabase' /\ Mid = db
<1>1. IsTree(db)
      BY DEF CopiesInv, Pending
<1>2. Mid = db
      BY <1>1, NothingInFlight
<1>3. Mid' = FrontierAsDatabase'
      BY <1>2 DEF Mid, Pending
<1>4. (TreeInv => IsTree(FrontierAsDatabase) /\ Fits(FrontierAsDatabase))'
      BY MemoryTree, MemoryFits, PTL
<1>5. /\ Pending(FrontierAsDatabase', <<>>, FrontierAsDatabase')
      /\ ReplaysTo(FrontierAsDatabase', <<>>, FrontierAsDatabase')
      BY <1>4, EmptyBatch, ReplayNothing
<1> QED
      BY <1>2, <1>3, <1>4, <1>5 DEF CopiesInv

\* The worker writes its batch and goes on with the buffer or not.
LEMMA CopiesWrite ==
    ASSUME CopiesInv, UNCHANGED <<memory, root_ledger>>, db' = Mid,
           \/ flight' = buffer /\ buffer' = <<>>
           \/ flight' = <<>> /\ buffer' = buffer
    PROVE  CopiesInv' /\ Mid' = IF flight' = <<>> /\ buffer' = buffer THEN Mid
                               ELSE FrontierAsDatabase
<1>1. TreeInv' /\ FrontierAsDatabase' = FrontierAsDatabase
      BY SameMemory DEF CopiesInv
<1>2. /\ IsTree(Mid) /\ IsTree(FrontierAsDatabase) /\ Fits(Mid)
      /\ Pending(Mid, buffer, FrontierAsDatabase)
      /\ ReplaysTo(Mid, buffer, FrontierAsDatabase)
      BY DEF CopiesInv, Pending
<1>3. Fits(FrontierAsDatabase)
      BY MemoryIsTree DEF CopiesInv
<1>4. \A s : IsTree(s) => Pending(s, <<>>, s) /\ ReplaysTo(s, <<>>, s)
      BY EmptyBatch, ReplayNothing
<1>5. Mid' = ApplyBatch(Mid, flight')
      BY DEF Mid
<1>6. CASE flight' = <<>> /\ buffer' = buffer
      <2>1. Mid' = Mid
            BY <1>2, <1>4, <1>5, <1>6 DEF Pending
      <2> QED
            BY <2>1, <1>1, <1>2, <1>4, <1>6 DEF CopiesInv
<1>7. CASE flight' = buffer /\ buffer' = <<>> /\ ~ (flight' = <<>> /\ buffer' = buffer)
      <2>1. Mid' = FrontierAsDatabase
            BY <1>2, <1>5, <1>7 DEF Pending
      <2> QED
            BY <2>1, <1>1, <1>2, <1>3, <1>4, <1>7 DEF CopiesInv
<1> QED
      BY <1>6, <1>7

\* A load rebuilds the frontier that the database stores.
LEMMA LoadBuildsTree ==
    ASSUME IsTree(db), Fits(db), root_ledger = Expected, LoadFullFrontier
    PROVE  TreeInv' /\ FrontierAsDatabase' = db
<1>1. /\ db.root \in Blocks /\ db.best_tip \in Blocks /\ db.transitions \subseteq Blocks
      /\ db.root \in db.transitions /\ DOMAIN db.arcs = db.transitions
      /\ db.protocol_states = RequiredStates[db.root]
      /\ \A h \in db.transitions :
            /\ db.arcs[h] = {c \in db.transitions \ {db.root} : Parent[c] = h}
            /\ db.root \in Ancestors(h)
            /\ \A a \in Ancestors(h) : db.root \in Ancestors(a) => a \in db.transitions
      BY TreeFields DEF IsTree
<1>2. Crawled = db.transitions
      BY CrawlReachesAll
<1>3. /\ root' = db.root /\ best_tip' = db.best_tip
      /\ table' = [h \in db.transitions |-> [length |-> Height[h] - Height[db.root],
                                             successor_hashes |-> db.arcs[h]]]
      /\ protocol_states' = db.protocol_states /\ root_ledger' = SnarkedLedger(db.root)
      BY <1>2 DEF LoadFullFrontier, Expected
<1>4. /\ DOMAIN table' = db.transitions
      /\ \A h \in db.transitions : /\ table'[h].length = Height[h] - Height[db.root]
                                   /\ table'[h].successor_hashes = db.arcs[h]
                                   /\ table'[h] = [length |-> Height[h] - Height[db.root],
                                                   successor_hashes |-> db.arcs[h]]
      BY <1>3
<1>5. ASSUME NEW h \in db.transitions
      PROVE  /\ Height[h] - Height[db.root] \in Nat /\ Height[h] \in Nat
             /\ Height[db.root] \in Nat
             /\ db.arcs[h] \subseteq Blocks
      <2>1. db.root = h \/ Height[db.root] < Height[h]
            BY <1>1, AncestorHeight
      <2>2. Height[h] \in Nat /\ Height[db.root] \in Nat
            BY <1>1, BlockTreeAssumption
      <2> QED
            BY <2>1, <2>2, <1>1
<1>6. TypeOK'
      <2>1. ASSUME NEW h \in db.transitions PROVE table'[h] \in Node
            <3>1. PICK n \in Nat, S \in SUBSET Blocks : n = Height[h] - Height[db.root]
                                                      /\ S = db.arcs[h]
                  BY <1>5
            <3>2. table'[h] = [length |-> n, successor_hashes |-> S]
                  BY <1>4, <3>1
            <3> QED
                  BY <3>2 DEF Node
      <2>2. table' \in [db.transitions -> Node]
            BY <2>1, <1>3
      <2>3. RequiredStates[db.root] \subseteq Blocks /\ SnarkedLedger(db.root) \subseteq Blocks
            BY <1>1, BlockTreeAssumption, AncestorSelf DEF SnarkedLedger
      <2> QED
            BY <2>2, <2>3, <1>1, <1>3, <1>4 DEF TypeOK
<1>7. FrontierIsTree'
      <2>1. table'[db.root].length = 0
            <3>1. Height[db.root] \in Nat
                  BY <1>1, BlockTreeAssumption
            <3>2. table'[db.root].length = Height[db.root] - Height[db.root]
                  BY <1>1, <1>4
            <3> QED
                  BY <3>1, <3>2
      <2>2. ASSUME NEW h \in db.transitions
            PROVE  table'[h].length - table'[db.root].length = Height[h] - Height[db.root]
            <3>1. PICK n \in Nat : n = Height[h] - Height[db.root]
                  BY <1>5
            <3>2. table'[h].length = n
                  BY <3>1, <1>4
            <3>3. table'[h].length - table'[db.root].length = n - 0
                  BY <2>1, <3>2
            <3>4. n - 0 = n
                  OBVIOUS
            <3> QED
                  BY <3>1, <3>3, <3>4
      <2> QED
            BY <2>2, <1>1, <1>3, <1>4 DEF FrontierIsTree
<1>8. BoundedLength'
      BY <1>3, <1>4 DEF BoundedLength, Fits
<1>9. TreeInv'
      BY <1>1, <1>3, <1>6, <1>7, <1>8 DEF TreeInv, RootLedgerMatchesRoot, ProtocolStatesSuffice
<1>10. [h \in DOMAIN table' |-> table'[h].successor_hashes] = db.arcs
      <2>1. db.arcs = [h \in db.transitions |->
                          {c \in db.transitions \ {db.root} : Parent[c] = h}]
            BY DEF IsTree
      <2> QED
            BY <2>1, <1>4
<1>11. FrontierAsDatabase' = [root |-> db.root, best_tip |-> db.best_tip,
                              transitions |-> db.transitions, arcs |-> db.arcs,
                              protocol_states |-> db.protocol_states]
      BY <1>3, <1>4, <1>10 DEF FrontierAsDatabase
<1> QED
      BY <1>9, <1>11, TreeFields

-----------------------------------------------------------------------------
(* The steps of a frontier that is loaded *)

\* Two blocks that are each other's ancestors are the same.
LEMMA AncestorsAntisymmetric ==
    ASSUME NEW a \in Blocks, NEW b \in Blocks, a \in Ancestors(b), b \in Ancestors(a)
    PROVE  a = b
<1>1. a = b \/ Height[a] < Height[b]
      BY AncestorHeight
<1>2. b = a \/ Height[b] < Height[a]
      BY AncestorHeight
<1>3. Height[a] \in Nat /\ Height[b] \in Nat
      BY BlockTreeAssumption
<1> QED
      BY <1>1, <1>2, <1>3

\* The copies' roots follow each other, and the frontier's ledger is on disk.
LEMMA LoadedRoots ==
    ASSUME CopiesInv
    PROVE  /\ IsTree(db) /\ Fits(db) /\ IsTree(Mid)
           /\ root \in Blocks /\ db.root \in Blocks /\ Mid.root \in Blocks
           /\ db.root \in Ancestors(Mid.root) /\ Mid.root \in Ancestors(root)
           /\ db.root \in Ancestors(root)
           /\ root_ledger = SnarkedLedger(root) /\ root_ledger \in Ledger
           /\ RootOnDisk(root)
<1>1. /\ IsTree(db) /\ Fits(db) /\ IsTree(Mid) /\ IsTree(FrontierAsDatabase)
      /\ db.root \in Ancestors(Mid.root) /\ Mid.root \in Ancestors(FrontierAsDatabase.root)
      BY DEF CopiesInv, Pending
<1>2. Mid.root \in Ancestors(root) /\ db.root \in Blocks /\ Mid.root \in Blocks /\ root \in Blocks
      BY <1>1, MemoryFields, TreeFields
<1>3. db.root \in Ancestors(root)
      BY <1>1, <1>2, AncestorTransitive
<1>4. root_ledger = SnarkedLedger(root)
      BY DEF CopiesInv, TreeInv, RootLedgerMatchesRoot
<1>5. root_ledger \in Ledger
      BY <1>2, <1>4, AncestorSelf DEF Ledger, SnarkedLedger
<1>6. RootOnDisk(root)
      BY <1>3, <1>4 DEF RootOnDisk
<1> QED
      BY <1>1, <1>2, <1>3, <1>4, <1>5, <1>6

\* Except while the root identifier lags behind, what is on disk follows from the
\* frontier that is loaded.
LEMMA LoadedDisk ==
    phase \in Loaded /\ phase # "applied" /\ LoadedInv => DiskInv
<1>1. SUFFICES ASSUME phase \in Loaded, phase # "applied", LoadedInv PROVE DiskInv
      OBVIOUS
<1>2. CopiesInv /\ QueueInv /\ IdentifierInv
      BY <1>1 DEF LoadedInv
<1>3. IsTree(db) /\ Fits(db) /\ root \in Blocks /\ RootOnDisk(root)
      BY <1>2, LoadedRoots
<1>4. root_id = root
      BY <1>1, <1>2 DEF IdentifierInv
<1>5. potential \in Seq(Ledger)
      BY <1>2 DEF QueueInv, QueueFits
<1> QED
      BY <1>3, <1>4, <1>5 DEF DiskInv

\* The steps of a reset, a load and a bootstrap are other phases.
LEMMA LoadedPhase == phase \in Loaded => PhaseInv
BY DEF Loaded, PhaseInv

\* The database only becomes the copy the worker had, and that copy only becomes
\* the frontier in memory.
CopiesFollow ==
    phase' \in Loaded => /\ db' = db \/ db' = Mid
                         /\ Mid' = Mid \/ Mid' = FrontierAsDatabase'

LEMMA StillLoaded ==
    ASSUME phase' \in Loaded, phase' # "applied",
           ControlInv', CopiesInv', QueueInv', IdentifierInv', SubjectInv',
           db' = db \/ db' = Mid, Mid' = Mid \/ Mid' = FrontierAsDatabase'
    PROVE  PersistentInv' /\ CopiesFollow
<1>1. LoadedInv'
      BY DEF LoadedInv
<1>2. (phase \in Loaded /\ phase # "applied" /\ LoadedInv => DiskInv)'
      BY LoadedDisk, PTL
<1>3. (phase \in Loaded => PhaseInv)'
      BY LoadedPhase, PTL
<1> QED
      BY <1>1, <1>2, <1>3 DEF PersistentInv, CopiesFollow

\* What is on disk, when nothing is written.
LEMMA DiskStays ==
    ASSUME DiskInv, UNCHANGED <<potential, root_ledger, root_id, overwritten, db>>
    PROVE  DiskInv'
BY DEF DiskInv, RootOnDisk

\* A process that dies leaves what is on disk.
LEMMA DieInv ==
    ASSUME ControlInv, UNCHANGED <<root_ledger, overwritten>>, Die, DiskInv'
    PROVE  PersistentInv' /\ CopiesFollow
<1>1. phase' = "down" /\ subject' = NoBlock /\ caller' = "router" /\ retry' = TRUE
      /\ buffer' = <<>> /\ flight' = <<>> /\ dequeues' = 0
      BY DEF Die, NoMemory
<1>2. ControlInv'
      BY <1>1 DEF ControlInv, Phases
<1>3. LoadedInv' /\ PhaseInv'
      BY <1>1 DEF LoadedInv, PhaseInv, Loaded
<1> QED
      BY <1>1, <1>2, <1>3 DEF PersistentInv, CopiesFollow, Loaded

LEMMA NoExtra ==
    ASSUME phase # "enqueued"
    PROVE  Extra = 0
BY DEF Extra

\* Diff_buffer.write and close_and_finish_copy: the diffs go into the buffer or,
\* when nothing is in flight, start a flush.
LEMMA WriteKeeps ==
    ASSUME CopiesInv, QueueInv, phase # "enqueued", phase' # "enqueued", dequeues = 0,
           NEW all, TreeInv',
           Pending(Mid, all, FrontierAsDatabase'), ReplaysTo(Mid, all, FrontierAsDatabase'),
           Emitted(all) = Emitted(buffer),
           UNCHANGED <<db, potential, dequeues>>,
           \/ flight = <<>> /\ flight' = all /\ buffer' = <<>>
           \/ flight' = flight /\ buffer' = all
    PROVE  CopiesInv' /\ QueueInv' /\ (Mid' = Mid \/ Mid' = FrontierAsDatabase')
<1>1. QueueFits(potential, 0, Emitted(flight), Emitted(buffer), 0,
                SnarkedLedger(db.root), SnarkedLedger(Mid.root), root_ledger)
      BY NoExtra DEF QueueInv
<1>2. Extra' = 0
      BY DEF Extra
<1>3. CASE flight = <<>> /\ flight' = all /\ buffer' = <<>>
      <2>1. CopiesInv' /\ Mid' = FrontierAsDatabase' /\ Mid = db
            BY <1>3, CopiesFlush
      <2>2. Emitted(flight) = 0 /\ Emitted(buffer') = 0 /\ Emitted(flight') = Emitted(buffer)
            BY <1>3, EmptyBatch
      <2>3. QueueFits(potential, 0, Emitted(buffer), 0, 0,
                      SnarkedLedger(db.root), SnarkedLedger(Mid'.root), root_ledger')
            BY <1>1, <2>1, <2>2, QueueFlush
      <2>4. QueueInv'
            BY <1>2, <2>2, <2>3 DEF QueueInv
      <2> QED
            BY <2>1, <2>4
<1>4. CASE flight' = flight /\ buffer' = all
      <2>1. CopiesInv' /\ Mid' = Mid
            BY <1>4, CopiesAppend
      <2>2. QueueFits(potential, 0, Emitted(flight), Emitted(buffer), 0,
                      SnarkedLedger(db.root), SnarkedLedger(Mid.root), root_ledger')
            BY <1>1 DEF QueueFits
      <2>3. QueueInv'
            BY <1>2, <1>4, <2>1, <2>2 DEF QueueInv
      <2> QED
            BY <2>1, <2>3
<1> QED
      BY <1>3, <1>4

\* The parts of the invariant while a frontier is loaded.
LEMMA LoadedParts ==
    ASSUME PersistentInv, phase \in Loaded
    PROVE  ControlInv /\ DiskInv /\ CopiesInv /\ QueueInv /\ IdentifierInv /\ SubjectInv
BY DEF PersistentInv, LoadedInv

\* A block that does not move the root.
LEMMA AddBreadcrumbInv ==
    ASSUME RepeatedBlocks = {}, PersistentInv, NEW b \in Blocks, AddBreadcrumbExn(b)
    PROVE  PersistentInv' /\ CopiesFollow
<1>1. /\ phase = "running" /\ ~ (dequeues > 0) /\ b \notin DOMAIN table
      /\ ~ Overflows(b)
      /\ UNCHANGED <<potential, root_id, overwritten, db>>
      BY DEF AddBreadcrumbExn, CanAdd, WorkerBusy, Admissible
<1>2. /\ ControlInv /\ DiskInv /\ CopiesInv /\ QueueInv /\ IdentifierInv
      BY <1>1, LoadedParts DEF Loaded
<1>3. dequeues = 0
      BY <1>1, <1>2 DEF QueueInv, QueueFits
<1>4. CASE Overflow(CalculateDiffs(b))
      <2>1. Die /\ UNCHANGED root_ledger
            BY <1>4 DEF AddBreadcrumbExn
      <2>2. DiskInv'
            BY <2>1, <1>1, <1>2, DiskStays
      <2> QED
            BY <2>1, <2>2, <1>1, <1>2, DieInv
<1>5. CASE ~ Overflow(CalculateDiffs(b))
      <2>1. AddBreadcrumb(b) /\ Write(CalculateDiffs(b)) /\ UNCHANGED control
            BY <1>5 DEF AddBreadcrumbExn
      <2>2. UNCHANGED <<phase, subject, caller, retry>>
            BY <2>1 DEF control
      <2>3. UNCHANGED <<root, root_ledger>>
            BY <2>1, <1>1 DEF AddBreadcrumb, SelectedTip
      <2>4. PICK all : all = buffer \o CalculateDiffs(b)
            OBVIOUS
      <2>5. /\ \/ flight = <<>> /\ flight' = all /\ buffer' = <<>>
               \/ flight' = flight /\ buffer' = all
            /\ UNCHANGED dequeues
            BY <2>1, <2>4 DEF Write
      <2>6. TreeInv /\ Pending(Mid, buffer, FrontierAsDatabase)
            /\ ReplaysTo(Mid, buffer, FrontierAsDatabase)
            BY <1>2 DEF CopiesInv
      <2>7. Emitted(buffer) \in Nat
            BY <2>6 DEF Pending
      <2>8. /\ TreeInv' /\ Pending(Mid, all, FrontierAsDatabase')
            /\ ReplaysTo(Mid, all, FrontierAsDatabase')
            /\ Emitted(all) = Emitted(buffer) + 0
            BY <2>1, <2>4, <2>6, <1>1, AddReplays
      <2>9. Emitted(all) = Emitted(buffer)
            BY <2>7, <2>8
      <2>10. CopiesInv' /\ QueueInv' /\ (Mid' = Mid \/ Mid' = FrontierAsDatabase')
            BY <2>2, <2>5, <2>8, <2>9, <1>1, <1>2, <1>3, WriteKeeps
      <2>11. ControlInv'
            BY <2>2, <2>3, <1>1, <1>2 DEF ControlInv
      <2>12. IdentifierInv' /\ SubjectInv'
            BY <2>2, <2>3, <1>1, <1>2 DEF IdentifierInv, SubjectInv
      <2> QED
            BY <2>2, <2>10, <2>11, <2>12, <1>1, StillLoaded DEF Loaded
<1> QED
      BY <1>4, <1>5

\* A block that moves the root: the checkpoint.
LEMMA BeginMoveRootInv ==
    ASSUME RepeatedBlocks = {}, PersistentInv, NEW b \in Blocks, BeginMoveRoot(b)
    PROVE  PersistentInv' /\ CopiesFollow
<1>1. /\ phase = "running" /\ ~ (dequeues > 0) /\ b \notin DOMAIN table
      /\ b # Genesis /\ Parent[b] \in DOMAIN table /\ Overflows(b)
      /\ potential' = Enqueued(Heir(b)) /\ phase' = "enqueued" /\ subject' = b
      /\ UNCHANGED <<root, best_tip, table, protocol_states, buffer, flight, dequeues, caller,
                     retry, root_ledger, root_id, overwritten, db>>
      BY DEF BeginMoveRoot, CanAdd, WorkerBusy, Admissible, memory, sync
<1>2. /\ ControlInv /\ CopiesInv /\ QueueInv /\ IdentifierInv
      BY <1>1, LoadedParts DEF Loaded
<1>3. dequeues = 0
      BY <1>1, <1>2 DEF QueueInv, QueueFits
<1>4. CopiesInv' /\ Mid' = Mid
      BY <1>1, <1>2, CopiesStay DEF memory
<1>5. ControlInv'
      BY <1>1, <1>2 DEF ControlInv, Phases
<1>6. IdentifierInv'
      BY <1>1, <1>2 DEF IdentifierInv
<1>7. SubjectInv'
      BY <1>1 DEF SubjectInv, Overflows
<1>8. QueueInv'
      <2>1. QueueFits(potential, 0, Emitted(flight), Emitted(buffer), 0,
                      SnarkedLedger(db.root), SnarkedLedger(Mid.root), root_ledger)
            BY <1>1, <1>2, <1>3, NoExtra DEF QueueInv
      <2>2. Heir(subject)' = Heir(b)
            BY <1>1 DEF Heir
      <2>3. CASE Heir(b) \in EmitsProof
            <3>1. potential' = Append(potential, root_ledger) /\ Extra' = 1
                  BY <2>2, <2>3, <1>1 DEF Enqueued, Extra
            <3>2. root_ledger \in Ledger
                  BY <1>2, LoadedRoots
            <3>3. QueueFits(potential', 0, Emitted(flight), Emitted(buffer), 1,
                            SnarkedLedger(db.root), SnarkedLedger(Mid.root), root_ledger)
                  BY <3>1, <3>2, <2>1, QueueEnqueue
            <3> QED
                  BY <3>1, <3>3, <1>1, <1>3, <1>4 DEF QueueInv
      <2>4. CASE Heir(b) \notin EmitsProof
            <3>1. potential' = potential /\ Extra' = 0
                  BY <2>2, <2>4, <1>1 DEF Enqueued, Extra
            <3> QED
                  BY <3>1, <2>1, <1>1, <1>3, <1>4 DEF QueueInv
      <2> QED
            BY <2>3, <2>4
<1> QED
      BY <1>1, <1>4, <1>5, <1>6, <1>7, <1>8, StillLoaded DEF Loaded

\* A block that moves the root: the snarked ledger on disk changes, the root
\* identifier does not yet.
LEMMA CommitRootInv ==
    ASSUME PersistentInv, CommitRoot
    PROVE  PersistentInv' /\ CopiesFollow
<1>1. /\ phase = "enqueued" /\ AddBreadcrumb(subject)
      /\ buffer' = buffer \o CalculateDiffs(subject) /\ phase' = "applied"
      /\ UNCHANGED <<flight, dequeues, subject, caller, retry, potential, root_id, overwritten,
                     db>>
      BY DEF CommitRoot
<1>2. /\ ControlInv /\ DiskInv /\ CopiesInv /\ QueueInv /\ IdentifierInv /\ SubjectInv
      BY <1>1, LoadedParts DEF Loaded
<1>3. /\ subject \in Blocks \ {Genesis} /\ Parent[subject] \in DOMAIN table
      /\ subject \notin DOMAIN table /\ Overflows(subject)
      BY <1>1, <1>2 DEF SubjectInv
<1>4. /\ TreeInv /\ Pending(Mid, buffer, FrontierAsDatabase)
      /\ ReplaysTo(Mid, buffer, FrontierAsDatabase) /\ Pending(db, flight, Mid)
      BY <1>2 DEF CopiesInv
<1>5. /\ TreeInv' /\ Pending(Mid, buffer', FrontierAsDatabase')
      /\ ReplaysTo(Mid, buffer', FrontierAsDatabase')
      /\ Emitted(buffer') =
           Emitted(buffer) + IF Overflows(subject) /\ Heir(subject) \in EmitsProof THEN 1 ELSE 0
      BY <1>1, <1>3, <1>4, AddReplays
<1>6. CopiesInv' /\ Mid' = Mid
      BY <1>1, <1>2, <1>5, CopiesAppend
<1>7. /\ root' = Heir(subject)
      /\ Heir(subject) \in Blocks \ {Genesis} /\ Parent[Heir(subject)] = root
      BY <1>1, <1>3, <1>4, MoveRootTreeInv, OverflowFacts DEF TreeInv
<1>8. IdentifierInv' /\ SubjectInv'
      BY <1>1, <1>2, <1>7 DEF IdentifierInv, SubjectInv
<1>9. root_ledger' \in Ledger
      <2>1. root_ledger' \subseteq Blocks
            BY <1>5 DEF TreeInv, TypeOK
      <2> QED
            BY <2>1 DEF Ledger
<1>10. ControlInv'
      BY <1>1, <1>2, <1>9 DEF ControlInv, Phases
<1>11. /\ root_ledger = SnarkedLedger(root) /\ root \in Blocks /\ db.root \in Blocks
       /\ Mid.root \in Blocks
       /\ db.root \in Ancestors(Mid.root) /\ Mid.root \in Ancestors(root)
       /\ IsTree(db) /\ Fits(db)
      BY <1>2, LoadedRoots
<1>12. dequeues = 0
      BY <1>1, <1>2 DEF QueueInv
<1>13. /\ Emitted(buffer) = 0 => SnarkedLedger(Mid.root) = SnarkedLedger(root)
       /\ Emitted(buffer) \in Nat /\ Emitted(flight) \in Nat
       /\ Emitted(buffer) # 0 => Mid.root # root
       /\ Emitted(flight) # 0 => db.root # Mid.root
      BY <1>4, MemoryFields DEF Pending
<1>14. Extra' = 0
      BY <1>1 DEF Extra
<1>15. QueueFits(potential, 0, Emitted(flight), Emitted(buffer), Extra,
                 SnarkedLedger(db.root), SnarkedLedger(Mid.root), root_ledger)
      BY <1>2, <1>12 DEF QueueInv
<1>16. QueueInv'
      <2>1. CASE Heir(subject) \in EmitsProof
            <3>1. Extra = 1 /\ Emitted(buffer') = Emitted(buffer) + 1
                  BY <2>1, <1>1, <1>3, <1>5 DEF Extra
            <3>2. QueueFits(potential, 0, Emitted(flight), Emitted(buffer) + 1, 0,
                            SnarkedLedger(db.root), SnarkedLedger(Mid.root), root_ledger')
                  BY <3>1, <1>11, <1>13, <1>15, QueueCommit
            <3> QED
                  BY <3>1, <3>2, <1>1, <1>6, <1>12, <1>14 DEF QueueInv
      <2>2. CASE Heir(subject) \notin EmitsProof
            <3>1. Extra = 0 /\ Emitted(buffer') = Emitted(buffer)
                  BY <2>2, <1>5, <1>13 DEF Extra
            <3>2. QueueFits(potential, 0, Emitted(flight), Emitted(buffer), 0,
                            SnarkedLedger(db.root), SnarkedLedger(Mid.root), root_ledger')
                  BY <3>1, <1>15 DEF QueueFits
            <3> QED
                  BY <3>1, <3>2, <1>1, <1>6, <1>12, <1>14 DEF QueueInv
      <2> QED
            BY <2>1, <2>2
<1>17. RootOnDisk(root_id)'
      <2>1. root_id' = root /\ root_id = root
            BY <1>1, <1>2 DEF IdentifierInv
      <2>2. db.root \in Ancestors(root)
            BY <1>11, AncestorTransitive
      <2>3. SnarkedLedger(root) \in ToSet(potential) \cup {root_ledger'}
            <3>1. CASE Heir(subject) \in EmitsProof
                  <4>1. Extra = 1
                        BY <3>1, <1>1 DEF Extra
                  <4>2. /\ potential \in Seq(Ledger) /\ Len(potential) \in Nat
                        /\ Len(potential) # 0 /\ potential[Len(potential)] = root_ledger
                        BY <4>1, <1>13, <1>15 DEF QueueFits
                  <4>3. root_ledger \in ToSet(potential)
                        BY <4>2 DEF ToSet
                  <4> QED
                        BY <4>3, <1>11
            <3>2. CASE Heir(subject) \notin EmitsProof
                  <4>1. SnarkedLedger(Heir(subject)) = SnarkedLedger(root)
                        BY <3>2, <1>7, SnarkedLedgerStep
                  <4>2. root_ledger' = SnarkedLedger(root')
                        BY <1>5 DEF TreeInv, RootLedgerMatchesRoot
                  <4> QED
                        BY <4>1, <4>2, <1>7
            <3> QED
                  BY <3>1, <3>2
      <2> QED
            BY <2>1, <2>2, <2>3, <1>1 DEF RootOnDisk
<1>18. DiskInv'
      BY <1>1, <1>2, <1>11, <1>17 DEF DiskInv
<1>19. PhaseInv'
      BY <1>1 DEF PhaseInv, Loaded
<1>20. LoadedInv'
      BY <1>6, <1>8, <1>16 DEF LoadedInv
<1> QED
      BY <1>1, <1>6, <1>10, <1>18, <1>19, <1>20 DEF PersistentInv, CopiesFollow

\* A block that moves the root: the root identifier catches up.
LEMMA IdentifyRootInv ==
    ASSUME PersistentInv, IdentifyRoot
    PROVE  PersistentInv' /\ CopiesFollow
<1>1. /\ phase = "applied" /\ root_id' = root
      /\ UNCHANGED <<root_ledger, potential, overwritten, db>>
      BY DEF IdentifyRoot
<1>2. /\ ControlInv /\ DiskInv /\ CopiesInv /\ QueueInv /\ IdentifierInv
      BY <1>1, LoadedParts DEF Loaded
<1>3. dequeues = 0
      BY <1>1, <1>2 DEF QueueInv
<1>4. root \in Blocks /\ RootOnDisk(root)
      BY <1>2, LoadedRoots
<1>5. CASE Overflow(<<>>)
      <2>1. Die
            BY <1>5 DEF IdentifyRoot
      <2>2. RootOnDisk(root_id)'
            BY <1>1, <1>4 DEF RootOnDisk
      <2>3. DiskInv'
            BY <2>2, <1>1, <1>2, <1>4 DEF DiskInv
      <2> QED
            BY <2>1, <2>3, <1>1, <1>2, DieInv
<1>6. CASE ~ Overflow(<<>>)
      <2>1. Write(<<>>) /\ phase' = "running" /\ subject' = NoBlock
            /\ UNCHANGED <<memory, caller, retry>>
            BY <1>6 DEF IdentifyRoot
      <2>2. UNCHANGED <<root, best_tip, table, protocol_states>>
            BY <2>1 DEF memory
      <2>3. TreeInv /\ Pending(Mid, buffer, FrontierAsDatabase)
            /\ ReplaysTo(Mid, buffer, FrontierAsDatabase)
            BY <1>2 DEF CopiesInv
      <2>4. buffer \o <<>> = buffer
            BY <2>3, ConcatEmptySeq DEF Pending
      <2>5. /\ \/ flight = <<>> /\ flight' = buffer /\ buffer' = <<>>
               \/ flight' = flight /\ buffer' = buffer
            /\ UNCHANGED dequeues
            BY <2>1, <2>4 DEF Write
      <2>6. TreeInv' /\ FrontierAsDatabase' = FrontierAsDatabase
            BY <2>1, <2>3, <1>1, SameMemory
      <2>7. CopiesInv' /\ QueueInv' /\ (Mid' = Mid \/ Mid' = FrontierAsDatabase')
            BY <2>1, <2>3, <2>5, <2>6, <1>1, <1>2, <1>3, WriteKeeps
      <2>8. ControlInv'
            BY <2>1, <1>1, <1>2 DEF ControlInv, Phases
      <2>9. IdentifierInv' /\ SubjectInv'
            BY <2>1, <2>2, <1>1, <1>2 DEF IdentifierInv, SubjectInv
      <2> QED
            BY <2>1, <2>7, <2>8, <2>9, <1>1, StillLoaded DEF Loaded
<1> QED
      BY <1>5, <1>6

\* The worker never drops its batch and never misses a parent.
LEMMA WorkerFindsParents ==
    ASSUME CopiesInv
    PROVE  ~ Orphaned(flight) /\ ~ CacheMiss(flight)
<1>1. IsTree(db) /\ ParentsToRead(flight) \subseteq db.transitions /\ ~ CacheMiss(flight)
      BY DEF CopiesInv, Pending
<1> QED
      BY <1>1, TreeFields DEF Orphaned

LEMMA WorkerDequeueInv ==
    ASSUME PersistentInv, WorkerDequeue
    PROVE  PersistentInv' /\ CopiesFollow
<1>1. /\ phase \in {"running", "closing", "closing_for_bootstrap"}
      /\ dequeues < Emitted(flight)
      /\ potential' = Tail(potential) /\ dequeues' = dequeues + 1
      /\ UNCHANGED <<root, best_tip, table, protocol_states, buffer, flight, phase, subject,
                     caller, retry, root_ledger, root_id, overwritten, db>>
      BY DEF WorkerDequeue, WorkerRuns, Closing, memory, control
<1>2. /\ phase \in Loaded /\ phase # "applied" /\ phase # "enqueued"
      BY <1>1 DEF Loaded
<1>3. /\ ControlInv /\ CopiesInv /\ QueueInv /\ IdentifierInv /\ SubjectInv
      BY <1>2, LoadedParts
<1>4. CopiesInv' /\ Mid' = Mid
      BY <1>1, <1>3, CopiesStay DEF memory
<1>5. ControlInv' /\ IdentifierInv' /\ SubjectInv'
      BY <1>1, <1>2, <1>3 DEF ControlInv, IdentifierInv, SubjectInv
<1>6. QueueFits(potential, dequeues, Emitted(flight), Emitted(buffer), 0,
                SnarkedLedger(db.root), SnarkedLedger(Mid.root), root_ledger)
      BY <1>2, <1>3, NoExtra DEF QueueInv
<1>7. QueueFits(Tail(potential), dequeues + 1, Emitted(flight), Emitted(buffer), 0,
                SnarkedLedger(db.root), SnarkedLedger(Mid.root), root_ledger)
      BY <1>1, <1>6, QueueDequeue
<1>8. Extra' = 0
      BY <1>1, <1>2 DEF Extra
<1>9. QueueInv'
      BY <1>1, <1>2, <1>4, <1>7, <1>8 DEF QueueInv
<1> QED
      BY <1>1, <1>2, <1>4, <1>5, <1>9, StillLoaded

LEMMA WorkerWriteInv ==
    ASSUME PersistentInv, WorkerWrite
    PROVE  PersistentInv' /\ CopiesFollow
<1>1. /\ phase \in {"running", "closing", "closing_for_bootstrap"}
      /\ UNCHANGED persistent_root
      BY DEF WorkerWrite, WorkerRuns, Closing
<1>2. /\ phase \in Loaded /\ phase # "applied" /\ phase # "enqueued"
      BY <1>1 DEF Loaded
<1>3. /\ ControlInv /\ CopiesInv /\ QueueInv /\ IdentifierInv /\ SubjectInv
      BY <1>2, LoadedParts
<1>4. ~ Orphaned(flight) /\ ~ CacheMiss(flight)
      BY <1>3, WorkerFindsParents
<1>5. /\ dequeues = Emitted(flight) /\ db' = ApplyBatch(db, flight) /\ dequeues' = 0
      /\ \/ flight' = buffer /\ buffer' = <<>>
         \/ flight' = <<>> /\ buffer' = buffer
      /\ UNCHANGED <<memory, control>>
      BY <1>4 DEF WorkerWrite
<1>6. UNCHANGED <<root, best_tip, table, protocol_states, phase, subject, caller, retry,
                  root_ledger, potential, root_id, overwritten>>
      BY <1>1, <1>5 DEF memory, control, persistent_root
<1>7. db' = Mid
      BY <1>5 DEF Mid
<1>8. CopiesInv' /\ Mid' = IF flight' = <<>> /\ buffer' = buffer THEN Mid ELSE FrontierAsDatabase
      BY <1>3, <1>5, <1>6, <1>7, CopiesWrite
<1>9. ControlInv' /\ IdentifierInv' /\ SubjectInv'
      BY <1>2, <1>3, <1>6 DEF ControlInv, IdentifierInv, SubjectInv
<1>10. QueueFits(potential, dequeues, dequeues, Emitted(buffer), 0,
                 SnarkedLedger(db.root), SnarkedLedger(Mid.root), root_ledger)
      BY <1>2, <1>3, <1>5, NoExtra DEF QueueInv
<1>11. QueueFits(potential, 0, 0, Emitted(buffer), 0,
                 SnarkedLedger(Mid.root), SnarkedLedger(Mid.root), root_ledger)
      BY <1>10, QueueWrite
<1>12. Extra' = 0
      BY <1>2, <1>6 DEF Extra
<1>13. Emitted(<<>>) = 0
      BY EmptyBatch
<1>14. QueueInv'
      <2>1. CASE flight' = <<>> /\ buffer' = buffer
            <3>1. Mid' = Mid
                  BY <2>1, <1>8
            <3> QED
                  BY <3>1, <2>1, <1>2, <1>5, <1>6, <1>7, <1>11, <1>12, <1>13 DEF QueueInv
      <2>2. CASE flight' = buffer /\ buffer' = <<>>
            <3>1. QueueFits(potential, 0, Emitted(buffer), 0, 0,
                            SnarkedLedger(Mid.root), SnarkedLedger(Mid'.root), root_ledger)
                  BY <1>11, QueueFlush
            <3> QED
                  BY <3>1, <2>2, <1>2, <1>5, <1>6, <1>7, <1>12, <1>13 DEF QueueInv
      <2> QED
            BY <2>1, <2>2, <1>5
<1>15. Mid' = Mid \/ Mid' = FrontierAsDatabase'
      BY <1>6, <1>8, SameMemory DEF memory
<1> QED
      BY <1>2, <1>6, <1>7, <1>8, <1>9, <1>14, <1>15, StillLoaded

\* close_and_finish_copy begins.
LEMMA CloseInv ==
    ASSUME PersistentInv, NEW closing \in Closing, Close(closing)
    PROVE  PersistentInv' /\ CopiesFollow
<1>1. /\ phase = "running" /\ ~ (dequeues > 0) /\ phase' = closing
      /\ closing \in {"closing", "closing_for_bootstrap"}
      /\ UNCHANGED <<memory, dequeues, subject, caller, retry, persistent_root, db>>
      /\ \/ flight = <<>> /\ flight' = buffer /\ buffer' = <<>>
         \/ flight' = flight /\ buffer' = buffer
      BY DEF Close, Closing, WorkerBusy
<1>2. UNCHANGED <<root, best_tip, table, protocol_states, root_ledger, potential, root_id,
                  overwritten>>
      BY <1>1 DEF memory, persistent_root
<1>3. /\ ControlInv /\ CopiesInv /\ QueueInv /\ IdentifierInv
      BY <1>1, LoadedParts DEF Loaded
<1>4. dequeues = 0
      BY <1>1, <1>3 DEF QueueInv, QueueFits
<1>5. TreeInv /\ Pending(Mid, buffer, FrontierAsDatabase)
      /\ ReplaysTo(Mid, buffer, FrontierAsDatabase)
      BY <1>3 DEF CopiesInv
<1>6. TreeInv' /\ FrontierAsDatabase' = FrontierAsDatabase
      BY <1>1, <1>2, <1>5, SameMemory
<1>7. CopiesInv' /\ QueueInv' /\ (Mid' = Mid \/ Mid' = FrontierAsDatabase')
      BY <1>1, <1>2, <1>3, <1>4, <1>5, <1>6, WriteKeeps
<1>8. ControlInv'
      BY <1>1, <1>2, <1>3 DEF ControlInv, Phases
<1>9. IdentifierInv' /\ SubjectInv'
      BY <1>1, <1>2, <1>3 DEF IdentifierInv, SubjectInv
<1> QED
      BY <1>1, <1>7, <1>8, <1>9, StillLoaded DEF Loaded

\* A close that is complete, and a crash at any time.
LEMMA StopInv ==
    ASSUME PersistentInv, FinishClose \/ Crash
    PROVE  PersistentInv'
<1>1. ControlInv /\ DiskInv
      BY DEF PersistentInv
<1>2. /\ UNCHANGED <<potential, root_ledger, root_id, overwritten, db>>
      /\ phase' \in {"down", "bootstrap"} /\ subject' = NoBlock
      /\ buffer' = <<>> /\ flight' = <<>> /\ dequeues' = 0
      /\ caller' \in {caller, "router"} /\ retry' \in {retry, TRUE}
      BY DEF FinishClose, Crash, Die, NoMemory, persistent_root
<1>3. DiskInv'
      BY <1>1, <1>2, DiskStays
<1>4. ControlInv'
      BY <1>1, <1>2 DEF ControlInv, Phases
<1>5. LoadedInv' /\ PhaseInv'
      BY <1>2 DEF LoadedInv, PhaseInv, Loaded
<1> QED
      BY <1>3, <1>4, <1>5 DEF PersistentInv

-----------------------------------------------------------------------------
(* The steps of a load, a reset and a bootstrap *)

\* The phases without a frontier in memory.
LEMMA Unloaded ==
    ASSUME PersistentInv, phase \notin Loaded, phase' \in Phases \ Loaded,
           UNCHANGED sync, DiskInv', root_ledger' \in Ledger, overwritten' \in BOOLEAN,
           subject' \in Blocks \cup {NoBlock}, caller' \in {"router", "bootstrap"},
           retry' \in BOOLEAN
    PROVE  /\ ControlInv' /\ LoadedInv'
           /\ buffer' = <<>> /\ flight' = <<>> /\ dequeues' = 0
<1>1. LoadedInv'
      BY DEF LoadedInv
<1>2. ControlInv'
      BY DEF ControlInv
<1>3. buffer = <<>> /\ flight = <<>> /\ dequeues = 0
      BY DEF PersistentInv, PhaseInv
<1> QED
      BY <1>1, <1>2, <1>3 DEF sync

\* The steps that only decide where to go on.
LEMMA DecideInv ==
    ASSUME PersistentInv, phase \notin Loaded,
           phase' \in {"check", "reset_db", "bootstrap", "down"},
           UNCHANGED sync, DiskInv', UNCHANGED <<root_ledger, overwritten>>,
           subject' \in Blocks \cup {NoBlock}, caller' \in {"router", "bootstrap"},
           retry' \in BOOLEAN
    PROVE  PersistentInv'
<1>1. /\ ControlInv' /\ LoadedInv' /\ buffer' = <<>> /\ flight' = <<>> /\ dequeues' = 0
      BY Unloaded DEF PersistentInv, ControlInv, Phases, Loaded
<1>2. PhaseInv'
      BY <1>1 DEF PhaseInv, Loaded
<1> QED
      BY <1>1, <1>2 DEF PersistentInv

\* A database that goes away takes no ledger with it.
LEMMA DestroyDisk ==
    ASSUME DiskInv, db' = NoDatabase, UNCHANGED <<potential, root_ledger, root_id, overwritten>>
    PROVE  DiskInv'
BY DEF DiskInv, RootOnDisk

LEMMA BootInv ==
    ASSUME PersistentInv, Boot
    PROVE  PersistentInv'
<1>1. /\ phase = "down" /\ phase' = "check" /\ UNCHANGED <<subject, caller, retry>>
      /\ UNCHANGED <<sync, potential, root_ledger, root_id, overwritten, db>>
      BY DEF Boot, Goto, persistent_root
<1>2. ControlInv /\ DiskInv
      BY DEF PersistentInv
<1>3. DiskInv'
      BY <1>1, <1>2, DiskStays
<1> QED
      BY <1>1, <1>2, <1>3, DecideInv DEF ControlInv, Loaded

LEMMA CheckDatabaseInv ==
    ASSUME PersistentInv, CheckDatabase
    PROVE  PersistentInv'
<1>1. /\ phase = "check" /\ phase \notin Loaded
      /\ UNCHANGED <<sync, potential, root_ledger, root_id, overwritten>>
      BY DEF CheckDatabase, persistent_root, Loaded
<1>2. ControlInv /\ DiskInv
      BY DEF PersistentInv
<1>3. CASE db # NoDatabase /\ phase' = "load" /\ UNCHANGED <<subject, caller, retry, db>>
      <2>1. DiskInv'
            BY <1>1, <1>2, <1>3, DiskStays
      <2>2. /\ ControlInv' /\ LoadedInv' /\ buffer' = <<>> /\ flight' = <<>> /\ dequeues' = 0
            BY <2>1, <1>1, <1>2, <1>3, Unloaded DEF ControlInv, Phases, Loaded
      <2>3. PhaseInv'
            BY <2>2, <1>3 DEF PhaseInv, Loaded
      <2> QED
            BY <2>1, <2>2, <2>3 DEF PersistentInv
<1>4. CASE /\ phase' \in {"check", "reset_db", "bootstrap", "down"}
           /\ db' = db \/ db' = NoDatabase
           /\ subject' \in {subject, NoBlock} /\ caller' \in {caller, "router"}
           /\ retry' \in BOOLEAN
      <2>1. DiskInv'
            BY <1>1, <1>2, <1>4, DiskStays, DestroyDisk
      <2>2. subject' \in Blocks \cup {NoBlock} /\ caller' \in {"router", "bootstrap"}
            BY <1>2, <1>4 DEF ControlInv
      <2> QED
            BY <2>1, <2>2, <1>1, <1>4, DecideInv
<1>5. CASE db = NoDatabase
      BY <1>1, <1>4, <1>5 DEF CheckDatabase, ResetAndContinue
<1>6. CASE db # NoDatabase /\ Sound
      BY <1>3, <1>6 DEF CheckDatabase, Goto
<1>7. CASE db # NoDatabase /\ ~ Sound /\ retry
      BY <1>1, <1>4, <1>7 DEF CheckDatabase
<1>8. CASE db # NoDatabase /\ ~ Sound /\ ~ retry
      BY <1>1, <1>4, <1>8 DEF CheckDatabase, Fail
<1> QED
      BY <1>5, <1>6, <1>7, <1>8

\* reset_to_genesis_exn, write by write.
LEMMA ResetInv ==
    ASSUME PersistentInv,
           \/ ResetDestroyDatabase \/ ResetInitialize \/ ResetRemoveRoot
           \/ ResetTransferLedger \/ ResetRootIdentifier
    PROVE  PersistentInv'
<1>1. ControlInv /\ DiskInv /\ PhaseInv
      BY DEF PersistentInv
<1>2. Genesis \in Blocks
      BY BlockTreeAssumption
<1>3. /\ IsTree(Initialize(Genesis)) /\ Fits(Initialize(Genesis))
      /\ Initialize(Genesis).root = Genesis /\ Initialize(Genesis) # NoDatabase
      BY <1>2, InitializeTree
<1>4. SnarkedLedger(Genesis) \in Ledger
      BY <1>2, AncestorSelf DEF SnarkedLedger, Ledger
<1>5. CASE ResetDestroyDatabase
      <2>1. /\ phase = "reset_db" /\ db' = NoDatabase /\ phase' = "reset_init"
            /\ UNCHANGED <<subject, caller, retry, sync, root_ledger, potential, root_id,
                           overwritten>>
            BY <1>5 DEF ResetDestroyDatabase, Goto, persistent_root
      <2>2. DiskInv'
            BY <2>1, <1>1, DestroyDisk
      <2>3. /\ ControlInv' /\ LoadedInv' /\ buffer' = <<>> /\ flight' = <<>> /\ dequeues' = 0
            BY <2>1, <2>2, <1>1, Unloaded DEF ControlInv, Phases, Loaded
      <2>4. PhaseInv'
            BY <2>1, <2>3 DEF PhaseInv
      <2> QED
            BY <2>2, <2>3, <2>4 DEF PersistentInv
<1>6. CASE ResetInitialize
      <2>1. /\ phase = "reset_init" /\ db' = Initialize(Genesis) /\ phase' = "reset_root"
            /\ UNCHANGED <<subject, caller, retry, sync, root_ledger, potential, root_id,
                           overwritten>>
            BY <1>6 DEF ResetInitialize, Goto, persistent_root
      <2>2. ASSUME ~ overwritten', root_id' # NoBlock PROVE RootOnDisk(root_id)'
            <3>1. RootOnDisk(root_id) /\ root_id \in Blocks
                  BY <2>1, <2>2, <1>1 DEF DiskInv
            <3>2. Genesis \in Ancestors(root_id)
                  BY <3>1, GenesisIsAncestor
            <3> QED
                  BY <3>1, <3>2, <2>1, <1>3 DEF RootOnDisk
      <2>3. DiskInv'
            BY <2>1, <2>2, <1>1, <1>3 DEF DiskInv
      <2>4. /\ ControlInv' /\ LoadedInv' /\ buffer' = <<>> /\ flight' = <<>> /\ dequeues' = 0
            BY <2>1, <2>3, <1>1, Unloaded DEF ControlInv, Phases, Loaded
      <2>5. PhaseInv'
            BY <2>1, <2>4 DEF PhaseInv
      <2> QED
            BY <2>3, <2>4, <2>5 DEF PersistentInv
<1>7. CASE ResetRemoveRoot
      <2>1. /\ phase = "reset_root" /\ phase' = "reset_ledger"
            /\ root_ledger' = NoLedger /\ potential' = <<>> /\ root_id' = NoBlock
            /\ overwritten' = FALSE
            /\ UNCHANGED <<subject, caller, retry, sync, db>>
            BY <1>7 DEF ResetRemoveRoot, Goto
      <2>2. DiskInv'
            BY <2>1, <1>1 DEF DiskInv
      <2>3. /\ ControlInv' /\ LoadedInv' /\ buffer' = <<>> /\ flight' = <<>> /\ dequeues' = 0
            BY <2>1, <2>2, <1>1, Unloaded DEF ControlInv, Phases, Loaded, Ledger
      <2>4. PhaseInv'
            BY <2>1, <2>3, <1>1 DEF PhaseInv
      <2> QED
            BY <2>2, <2>3, <2>4 DEF PersistentInv
<1>8. CASE ResetTransferLedger
      <2>1. /\ phase = "reset_ledger" /\ phase' = "reset_id"
            /\ root_ledger' = SnarkedLedger(Genesis)
            /\ UNCHANGED <<subject, caller, retry, sync, potential, root_id, overwritten, db>>
            BY <1>8 DEF ResetTransferLedger, Goto
      <2>2. potential = <<>> /\ root_id = NoBlock /\ ~ overwritten /\ db = Initialize(Genesis)
            BY <2>1, <1>1 DEF PhaseInv
      <2>3. DiskInv'
            BY <2>1, <2>2, <1>1 DEF DiskInv
      <2>4. /\ ControlInv' /\ LoadedInv' /\ buffer' = <<>> /\ flight' = <<>> /\ dequeues' = 0
            BY <2>1, <2>3, <1>1, <1>4, Unloaded DEF ControlInv, Phases, Loaded
      <2>5. PhaseInv'
            BY <2>1, <2>2, <2>4 DEF PhaseInv
      <2> QED
            BY <2>3, <2>4, <2>5 DEF PersistentInv
<1>9. CASE ResetRootIdentifier
      <2>1. /\ phase = "reset_id" /\ phase' = "load" /\ root_id' = Genesis
            /\ UNCHANGED <<subject, caller, retry, sync, root_ledger, potential, overwritten, db>>
            BY <1>9 DEF ResetRootIdentifier, Goto
      <2>2. root_ledger = SnarkedLedger(Genesis) /\ db = Initialize(Genesis)
            BY <2>1, <1>1 DEF PhaseInv
      <2>3. RootOnDisk(root_id)'
            BY <2>1, <2>2, <1>2, <1>3, AncestorSelf DEF RootOnDisk
      <2>4. DiskInv'
            BY <2>1, <2>3, <1>1, <1>2 DEF DiskInv
      <2>5. /\ ControlInv' /\ LoadedInv' /\ buffer' = <<>> /\ flight' = <<>> /\ dequeues' = 0
            BY <2>1, <2>4, <1>1, Unloaded DEF ControlInv, Phases, Loaded
      <2>6. PhaseInv'
            BY <2>1, <2>2, <2>5, <1>3 DEF PhaseInv
      <2> QED
            BY <2>4, <2>5, <2>6 DEF PersistentInv
<1> QED
      BY <1>5, <1>6, <1>7, <1>8, <1>9

\* During a load the only ledger that matters is the one the database's root needs.
LEMMA DiskWithExpected ==
    ASSUME DiskInv, db # NoDatabase, UNCHANGED <<root_id, overwritten, db>>,
           potential' \in Seq(Ledger),
           Expected \in ToSet(potential) \cup {root_ledger} =>
               Expected \in ToSet(potential') \cup {root_ledger'}
    PROVE  DiskInv'
<1>1. ASSUME ~ overwritten, root_id # NoBlock PROVE RootOnDisk(root_id)'
      <2>1. root_id \in Blocks /\ RootOnDisk(root_id) /\ db.root \in Ancestors(root_id)
            BY <1>1 DEF DiskInv, RootOnDisk
      <2>2. ASSUME root_id = db.root \/ root_id = Genesis
            PROVE  SnarkedLedger(root_id) = Expected
            <3>1. root_id = db.root
                  BY <2>1, <2>2, GenesisAncestors
            <3> QED
                  BY <3>1 DEF Expected
      <2>3. ASSUME root_id = db.root \/ root_id = Genesis
            PROVE  SnarkedLedger(root_id) \in ToSet(potential') \cup {root_ledger'}
            BY <2>1, <2>2, <2>3 DEF RootOnDisk
      <2> QED
            BY <2>1, <2>3 DEF RootOnDisk
<1> QED
      BY <1>1 DEF DiskInv

\* Persistent_root.load_from_disk.
LEMMA LoadLedgerInv ==
    ASSUME PersistentInv, LoadPotential \/ RenameLedger \/ RemovePotentials \/ LoadCurrent
    PROVE  PersistentInv'
<1>1. ControlInv /\ DiskInv /\ PhaseInv
      BY DEF PersistentInv
<1>2. phase \in {"load", "restoring", "restored"}
      BY DEF LoadPotential, RenameLedger, RemovePotentials, LoadCurrent
<1>3. /\ db # NoDatabase /\ IsTree(db) /\ db.root \in Blocks /\ potential \in Seq(Ledger)
      /\ phase \notin Loaded
      BY <1>1, <1>2, TreeFields DEF PhaseInv, DiskInv, Loaded
<1>4. Expected \in Ledger /\ NoLedger \in Ledger /\ <<>> \in Seq(Ledger)
      BY <1>3, AncestorSelf DEF Expected, SnarkedLedger, Ledger
<1>5. UNCHANGED <<sync, root_id, overwritten, db>>
      BY DEF LoadPotential, RenameLedger, RemovePotentials, LoadCurrent
<1>6. Expected' = Expected
      BY <1>5 DEF Expected
<1>7. CASE LoadPotential
      <2>1. /\ phase' = "restoring" /\ Expected \in ToSet(potential) /\ root_ledger' = NoLedger
            /\ UNCHANGED <<subject, caller, retry, potential>>
            BY <1>7 DEF LoadPotential, Goto
      <2>2. DiskInv'
            BY <2>1, <1>1, <1>3, <1>5, DiskWithExpected
      <2>3. /\ ControlInv' /\ LoadedInv' /\ buffer' = <<>> /\ flight' = <<>> /\ dequeues' = 0
            BY <2>1, <2>2, <1>1, <1>3, <1>4, <1>5, Unloaded DEF ControlInv, Phases, Loaded
      <2>4. PhaseInv'
            BY <2>1, <2>3, <1>3, <1>5, <1>6 DEF PhaseInv
      <2> QED
            BY <2>2, <2>3, <2>4 DEF PersistentInv
<1>8. CASE RenameLedger
      <2>1. /\ phase' = "restored" /\ root_ledger' = Expected
            /\ UNCHANGED <<subject, caller, retry, potential>>
            BY <1>8 DEF RenameLedger, Goto
      <2>2. DiskInv'
            BY <2>1, <1>1, <1>3, <1>5, DiskWithExpected
      <2>3. /\ ControlInv' /\ LoadedInv' /\ buffer' = <<>> /\ flight' = <<>> /\ dequeues' = 0
            BY <2>1, <2>2, <1>1, <1>3, <1>4, <1>5, Unloaded DEF ControlInv, Phases, Loaded
      <2>4. PhaseInv'
            BY <2>1, <2>3, <1>3, <1>5, <1>6 DEF PhaseInv
      <2> QED
            BY <2>2, <2>3, <2>4 DEF PersistentInv
<1>9. CASE RemovePotentials
      <2>1. /\ phase = "restored" /\ phase' = "open" /\ potential' = <<>>
            /\ UNCHANGED <<subject, caller, retry, root_ledger>>
            BY <1>9 DEF RemovePotentials, Goto
      <2>2. root_ledger = Expected
            BY <2>1, <1>1 DEF PhaseInv
      <2>3. DiskInv'
            BY <2>1, <2>2, <1>1, <1>3, <1>4, <1>5, DiskWithExpected
      <2>4. /\ ControlInv' /\ LoadedInv' /\ buffer' = <<>> /\ flight' = <<>> /\ dequeues' = 0
            BY <2>1, <2>3, <1>1, <1>3, <1>4, <1>5, Unloaded DEF ControlInv, Phases, Loaded
      <2>5. PhaseInv'
            BY <2>1, <2>2, <2>4, <1>3, <1>5, <1>6 DEF PhaseInv
      <2> QED
            BY <2>3, <2>4, <2>5 DEF PersistentInv
<1>10. CASE LoadCurrent
      <2>1. /\ Expected \notin ToSet(potential) /\ potential' = <<>> /\ UNCHANGED root_ledger
            BY <1>10 DEF LoadCurrent
      <2>2. DiskInv'
            BY <2>1, <1>1, <1>3, <1>4, <1>5, DiskWithExpected
      <2>3. CASE root_ledger = Expected
            <3>1. phase' = "open" /\ UNCHANGED <<subject, caller, retry>>
                  BY <2>3, <1>10 DEF LoadCurrent, Goto
            <3>2. /\ ControlInv' /\ LoadedInv' /\ buffer' = <<>> /\ flight' = <<>>
                  /\ dequeues' = 0
                  BY <3>1, <2>1, <2>2, <1>1, <1>3, <1>4, <1>5, Unloaded
                  DEF ControlInv, Phases, Loaded
            <3>3. PhaseInv'
                  BY <3>1, <3>2, <2>1, <2>3, <1>3, <1>5, <1>6 DEF PhaseInv
            <3> QED
                  BY <3>2, <3>3, <2>2 DEF PersistentInv
      <2>4. CASE root_ledger # Expected
            <3>1. /\ phase' \in {"bootstrap", "down"} /\ retry' = TRUE /\ caller' = "router"
                  /\ subject' = NoBlock
                  BY <2>4, <1>10 DEF LoadCurrent, Fail
            <3> QED
                  BY <3>1, <2>1, <2>2, <1>1, <1>3, <1>5, DecideInv DEF ControlInv
      <2> QED
            BY <2>3, <2>4
<1> QED
      BY <1>7, <1>8, <1>9, <1>10

\* load_from_persistence_and_start.
LEMMA LoadFullFrontierInv ==
    ASSUME PersistentInv, LoadFullFrontier
    PROVE  PersistentInv' /\ CopiesFollow
<1>1. ControlInv /\ DiskInv /\ PhaseInv
      BY DEF PersistentInv
<1>2. /\ phase = "open" /\ phase' = "running" /\ caller' = "router" /\ retry' = TRUE
      /\ subject' = NoBlock /\ overwritten' = FALSE /\ root' = db.root
      /\ UNCHANGED <<buffer, flight, dequeues, root_ledger, potential, root_id, db>>
      BY DEF LoadFullFrontier, sync
<1>3. /\ db # NoDatabase /\ root_ledger = Expected /\ potential = <<>>
      /\ buffer = <<>> /\ flight = <<>> /\ dequeues = 0
      BY <1>1, <1>2 DEF PhaseInv, Loaded
<1>4. IsTree(db) /\ Fits(db)
      BY <1>1, <1>3 DEF DiskInv
<1>5. TreeInv' /\ FrontierAsDatabase' = db
      BY <1>3, <1>4, LoadBuildsTree
<1>6. /\ Pending(db, <<>>, db) /\ ReplaysTo(db, <<>>, db) /\ Emitted(<<>>) = 0
      BY <1>4, EmptyBatch, ReplayNothing
<1>7. Mid' = db
      <2>1. Mid' = ApplyBatch(db, <<>>)
            BY <1>2, <1>3 DEF Mid
      <2> QED
            BY <2>1, <1>6 DEF Pending
<1>8. CopiesInv'
      BY <1>2, <1>3, <1>4, <1>5, <1>6, <1>7 DEF CopiesInv
<1>9. QueueInv'
      <2>1. Extra' = 0
            BY <1>2 DEF Extra
      <2>2. \A l1, l2, l3 : QueueFits(<<>>, 0, 0, 0, 0, l1, l2, l3)
            BY DEF QueueFits
      <2> QED
            BY <2>1, <2>2, <1>2, <1>3, <1>6 DEF QueueInv
<1>10. root_id = db.root
      BY DEF LoadFullFrontier, OpenError
<1>11. IdentifierInv' /\ SubjectInv'
      BY <1>2, <1>10 DEF IdentifierInv, SubjectInv
<1>12. ControlInv'
      BY <1>1, <1>2 DEF ControlInv, Phases
<1> QED
      BY <1>2, <1>5, <1>7, <1>8, <1>9, <1>11, <1>12, StillLoaded DEF Loaded

\* A load that does not succeed.
LEMMA LoadFailsInv ==
    ASSUME PersistentInv, FailToOpen \/ RebuildFails
    PROVE  PersistentInv'
<1>1. ControlInv /\ DiskInv
      BY DEF PersistentInv
<1>2. /\ phase = "open" /\ phase' \in {"bootstrap", "down", "reset_db"}
      /\ retry' \in BOOLEAN /\ caller' \in {caller, "router"} /\ subject' \in {subject, NoBlock}
      /\ UNCHANGED <<sync, root_ledger, potential, root_id, overwritten, db>>
      BY DEF FailToOpen, RebuildFails, Fail, ResetAndContinue, persistent_root
<1>3. DiskInv'
      BY <1>1, <1>2, DiskStays
<1>4. caller' \in {"router", "bootstrap"} /\ subject' \in Blocks \cup {NoBlock}
      BY <1>1, <1>2 DEF ControlInv
<1> QED
      BY <1>2, <1>3, <1>4, DecideInv DEF Loaded

\* Bootstrap_controller.run, up to the new database.
LEMMA BootstrapInv ==
    ASSUME PersistentInv,
           \/ BootstrapSync \/ \E r \in Blocks : BootstrapSynced(r)
           \/ BootstrapDestroyDatabase \/ BootstrapInitialize
    PROVE  PersistentInv'
<1>1. ControlInv /\ DiskInv /\ PhaseInv
      BY DEF PersistentInv
<1>2. /\ phase \in {"bootstrap", "syncing", "synced", "destroyed"} /\ phase \notin Loaded
      /\ overwritten' = TRUE
      /\ UNCHANGED <<sync, caller, retry, potential, root_id>>
      BY <1>1 DEF BootstrapSync, BootstrapSynced, BootstrapDestroyDatabase, BootstrapInitialize,
                  Goto, PhaseInv, ControlInv, persistent_root, Loaded
<1>3. ASSUME db' # NoDatabase => IsTree(db') /\ Fits(db')
      PROVE  DiskInv'
      BY <1>1, <1>2, <1>3 DEF DiskInv
<1>4. ASSUME UNCHANGED db PROVE DiskInv'
      BY <1>1, <1>2, <1>4 DEF DiskInv
<1>5. CASE BootstrapSync
      <2>1. /\ phase' = "syncing" /\ root_ledger' = NoLedger /\ UNCHANGED <<subject, db>>
            BY <1>5 DEF BootstrapSync, Goto
      <2>2. /\ ControlInv' /\ LoadedInv' /\ buffer' = <<>> /\ flight' = <<>> /\ dequeues' = 0
            BY <2>1, <1>1, <1>2, <1>4, Unloaded DEF ControlInv, Phases, Loaded, Ledger
      <2>3. PhaseInv'
            BY <2>1, <2>2, <1>2 DEF PhaseInv
      <2> QED
            BY <2>1, <2>2, <2>3, <1>4 DEF PersistentInv
<1>6. ASSUME NEW r \in Blocks, BootstrapSynced(r) PROVE PersistentInv'
      <2>1. /\ phase' = "synced" /\ root_ledger' = SnarkedLedger(r) /\ subject' = r
            /\ UNCHANGED db
            BY <1>6 DEF BootstrapSynced
      <2>2. SnarkedLedger(r) \in Ledger
            BY AncestorSelf DEF SnarkedLedger, Ledger
      <2>3. /\ ControlInv' /\ LoadedInv' /\ buffer' = <<>> /\ flight' = <<>> /\ dequeues' = 0
            BY <2>1, <2>2, <1>1, <1>2, <1>4, Unloaded DEF ControlInv, Phases, Loaded
      <2>4. PhaseInv'
            BY <2>1, <2>3, <1>2 DEF PhaseInv
      <2> QED
            BY <2>1, <2>3, <2>4, <1>4 DEF PersistentInv
<1>7. CASE BootstrapDestroyDatabase
      <2>1. /\ phase = "synced" /\ phase' = "destroyed" /\ db' = NoDatabase
            /\ UNCHANGED <<subject, root_ledger>>
            BY <1>7 DEF BootstrapDestroyDatabase, Goto, persistent_root
      <2>5. DiskInv'
            BY <2>1, <1>3
      <2>2. subject \in Blocks /\ root_ledger = SnarkedLedger(subject)
            BY <2>1, <1>1 DEF PhaseInv
      <2>3. /\ ControlInv' /\ LoadedInv' /\ buffer' = <<>> /\ flight' = <<>> /\ dequeues' = 0
            BY <2>1, <2>5, <1>1, <1>2, Unloaded DEF ControlInv, Phases, Loaded
      <2>4. PhaseInv'
            BY <2>1, <2>2, <2>3, <1>2 DEF PhaseInv
      <2> QED
            BY <2>3, <2>4, <2>5 DEF PersistentInv
<1>8. CASE BootstrapInitialize
      <2>1. /\ phase = "destroyed" /\ phase' = "initialised" /\ db' = Initialize(subject)
            /\ UNCHANGED <<subject, root_ledger>>
            BY <1>8 DEF BootstrapInitialize, Goto, persistent_root
      <2>2. subject \in Blocks /\ root_ledger = SnarkedLedger(subject)
            BY <2>1, <1>1 DEF PhaseInv
      <2>3. DiskInv'
            BY <2>1, <2>2, <1>3, InitializeTree
      <2>4. /\ ControlInv' /\ LoadedInv' /\ buffer' = <<>> /\ flight' = <<>> /\ dequeues' = 0
            BY <2>1, <2>3, <1>1, <1>2, Unloaded DEF ControlInv, Phases, Loaded
      <2>5. PhaseInv'
            BY <2>1, <2>2, <2>4, <1>2 DEF PhaseInv
      <2> QED
            BY <2>3, <2>4, <2>5 DEF PersistentInv
<1> QED
      BY <1>5, <1>6, <1>7, <1>8

\* Its last write, and a cycle that is given up.
LEMMA BootstrapEndsInv ==
    ASSUME PersistentInv, BootstrapRetry \/ BootstrapRootIdentifier
    PROVE  PersistentInv'
<1>1. ControlInv /\ DiskInv /\ PhaseInv
      BY DEF PersistentInv
<1>2. CASE BootstrapRetry
      <2>1. /\ phase = "synced" /\ phase' = "bootstrap" /\ subject' = NoBlock
            /\ UNCHANGED <<caller, retry, sync, root_ledger, potential, root_id, overwritten, db>>
            BY <1>2 DEF BootstrapRetry, persistent_root
      <2>2. DiskInv'
            BY <2>1, <1>1, DiskStays
      <2> QED
            BY <2>1, <2>2, <1>1, DecideInv DEF ControlInv, Loaded
<1>3. CASE BootstrapRootIdentifier
      <2>1. /\ phase = "initialised" /\ root_id' = subject /\ overwritten' = FALSE
            /\ phase' = "check" /\ caller' = "bootstrap" /\ retry' = FALSE
            /\ UNCHANGED <<subject, sync, root_ledger, potential, db>>
            BY <1>3 DEF BootstrapRootIdentifier
      <2>2. /\ subject \in Blocks /\ root_ledger = SnarkedLedger(subject)
            /\ db = Initialize(subject)
            BY <2>1, <1>1 DEF PhaseInv
      <2>3. db.root = subject /\ IsTree(db) /\ Fits(db)
            BY <2>2, InitializeTree
      <2>4. RootOnDisk(root_id)'
            BY <2>1, <2>2, <2>3, AncestorSelf DEF RootOnDisk
      <2>5. DiskInv'
            BY <2>1, <2>2, <2>3, <2>4, <1>1 DEF DiskInv
      <2>6. /\ ControlInv' /\ LoadedInv' /\ buffer' = <<>> /\ flight' = <<>> /\ dequeues' = 0
            BY <2>1, <2>2, <2>5, <1>1, Unloaded DEF ControlInv, Phases, Loaded
      <2>7. PhaseInv'
            BY <2>1, <2>6 DEF PhaseInv, Loaded
      <2> QED
            BY <2>5, <2>6, <2>7 DEF PersistentInv
<1> QED
      BY <1>2, <1>3

-----------------------------------------------------------------------------
(* The invariant *)

LEMMA PersistentInitInv ==
    ASSUME PersistentInit
    PROVE  PersistentInv
<1>1. ControlInv
      BY DEF PersistentInit, ControlInv, Phases, Ledger
<1>2. LoadedInv /\ PhaseInv
      BY DEF PersistentInit, LoadedInv, PhaseInv, Loaded
<1>3. DiskInv
      BY DEF PersistentInit, DiskInv
<1> QED
      BY <1>1, <1>2, <1>3 DEF PersistentInv

LEMMA PersistentStutterInv ==
    ASSUME PersistentInv, UNCHANGED pvars
    PROVE  PersistentInv'
<1>1. /\ UNCHANGED <<root, best_tip, table, protocol_states, buffer, flight, dequeues>>
      /\ UNCHANGED <<phase, subject, caller, retry>>
      /\ UNCHANGED <<root_ledger, potential, root_id, overwritten, db>>
      BY DEF pvars, memory, sync, control, persistent_root
<1>2. ControlInv' /\ DiskInv' /\ PhaseInv'
      <2>1. ControlInv'
            BY <1>1 DEF PersistentInv, ControlInv
      <2>2. DiskInv'
            BY <1>1, DiskStays DEF PersistentInv
      <2>3. PhaseInv'
            BY <1>1 DEF PersistentInv, PhaseInv, Expected
      <2> QED
            BY <2>1, <2>2, <2>3
<1>3. ASSUME phase \in Loaded
      PROVE  CopiesInv' /\ QueueInv' /\ IdentifierInv' /\ SubjectInv'
      <2>1. CopiesInv /\ QueueInv /\ IdentifierInv /\ SubjectInv
            BY <1>3, LoadedParts
      <2>2. CopiesInv' /\ Mid' = Mid
            BY <2>1, <1>1, CopiesStay DEF memory
      <2>3. IdentifierInv'
            BY <2>1, <1>1 DEF IdentifierInv
      <2>4. SubjectInv'
            BY <2>1, <1>1 DEF SubjectInv, Overflows
      <2>5. Extra' = Extra
            <3>1. Heir(subject)' = Heir(subject)
                  BY <1>1 DEF Heir
            <3> QED
                  BY <3>1, <1>1 DEF Extra
      <2>6. QueueInv'
            BY <2>1, <2>2, <2>5, <1>1 DEF QueueInv
      <2> QED
            BY <2>2, <2>3, <2>4, <2>6
<1> QED
      BY <1>1, <1>2, <1>3 DEF PersistentInv, LoadedInv

\* The steps of a frontier that is loaded.
Runs == \/ Add \/ CommitRoot \/ IdentifyRoot \/ Worker
        \/ Close("closing") \/ Close("closing_for_bootstrap")

LEMMA RunsInv ==
    ASSUME RepeatedBlocks = {}, PersistentInv, Runs
    PROVE  PersistentInv' /\ CopiesFollow
<1>1. CASE Add
      BY <1>1, AddBreadcrumbInv, BeginMoveRootInv DEF Add
<1>2. CASE Worker
      BY <1>2, WorkerDequeueInv, WorkerWriteInv DEF Worker
<1>3. CASE Close("closing") \/ Close("closing_for_bootstrap")
      BY <1>3, CloseInv DEF Closing
<1> QED
      BY <1>1, <1>2, <1>3, CommitRootInv, IdentifyRootInv DEF Runs

\* Every step keeps the invariant.
LEMMA PersistentNextInv ==
    ASSUME RepeatedBlocks = {}, PersistentInv, [PersistentNext]_pvars
    PROVE  PersistentInv'
<1>1. CASE Runs
      BY <1>1, RunsInv
<1>2. CASE FinishClose \/ Crash
      BY <1>2, StopInv
<1>3. CASE Boot
      BY <1>3, BootInv
<1>4. CASE Load
      BY <1>4, CheckDatabaseInv, ResetInv, LoadLedgerInv, LoadFullFrontierInv, LoadFailsInv
      DEF Load
<1>5. CASE Bootstrap
      BY <1>5, BootstrapInv, BootstrapEndsInv DEF Bootstrap
<1>6. CASE UNCHANGED pvars
      BY <1>6, PersistentStutterInv
<1> QED
      BY <1>1, <1>2, <1>3, <1>4, <1>5, <1>6 DEF PersistentNext, Runs

\* The invariant holds in every reachable state: through every interleaving of
\* blocks, worker and shutdown, every crash, every load and every bootstrap.
THEOREM PersistentInvariant ==
    ASSUME RepeatedBlocks = {}
    PROVE  PersistentSpec => []PersistentInv
<1>1. PersistentInit => PersistentInv
      BY PersistentInitInv
<1>2. PersistentInv /\ [PersistentNext]_pvars => PersistentInv'
      BY PersistentNextInv
<1> QED
      BY <1>1, <1>2, PTL DEF PersistentSpec

\* Type correctness of what is in memory and on disk.
THEOREM PersistentTypeCorrect ==
    ASSUME RepeatedBlocks = {}
    PROVE  PersistentSpec => []PersistentTypeOK
<1>1. PersistentInv => PersistentTypeOK
      <2>1. SUFFICES ASSUME PersistentInv PROVE PersistentTypeOK
            OBVIOUS
      <2>2. ControlInv /\ DiskInv /\ PhaseInv
            BY <2>1 DEF PersistentInv
      <2>3. phase \in Loaded => TypeOK /\ dequeues \in Nat
            <3>1. SUFFICES ASSUME phase \in Loaded PROVE TypeOK /\ dequeues \in Nat
                  OBVIOUS
            <3>2. CopiesInv /\ QueueInv
                  BY <2>1, <3>1, LoadedParts
            <3> QED
                  BY <3>2 DEF CopiesInv, TreeInv, QueueInv, QueueFits
      <2>4. phase \notin Loaded => buffer = <<>> /\ flight = <<>> /\ dequeues \in Nat
            BY <2>2 DEF PhaseInv
      <2>5. db # NoDatabase => DOMAIN db.arcs \subseteq Blocks /\ db \in Database(DOMAIN db.arcs)
            <3>1. SUFFICES ASSUME db # NoDatabase
                           PROVE  DOMAIN db.arcs \subseteq Blocks /\ db \in Database(DOMAIN db.arcs)
                  OBVIOUS
            <3>2. IsTree(db)
                  BY <2>2, <3>1 DEF DiskInv
            <3>3. DOMAIN db.arcs = db.transitions /\ db.transitions \subseteq Blocks
                  BY <3>2, TreeFields
            <3>4. db \in Database(db.transitions)
                  BY <3>2 DEF IsTree
            <3> QED
                  BY <3>3, <3>4
      <2> QED
            BY <2>2, <2>3, <2>4, <2>5 DEF PersistentTypeOK, ControlInv, DiskInv
<1> QED
      BY <1>1, PersistentInvariant, PTL

\* The database is always an exact copy of the frontier in memory that lags behind
\* by the diffs in flight and in the buffer, although the worker applies each batch
\* compressed into one root transition and one best tip (Worker.perform).
THEOREM DatabaseAlwaysMirrors ==
    ASSUME RepeatedBlocks = {}
    PROVE  PersistentSpec => []DatabaseMirrorsFrontier
<1>1. PersistentInv => DatabaseMirrorsFrontier
      <2>1. SUFFICES ASSUME PersistentInv, phase \in Loaded
                     PROVE  Replayed(db, flight \o buffer) = FrontierAsDatabase
            BY DEF DatabaseMirrorsFrontier
      <2>2. CopiesInv
            BY <2>1, LoadedParts
      <2>3. /\ flight \in Seq(Diff) /\ buffer \in Seq(Diff)
            /\ ReplaysTo(db, flight, Mid) /\ ReplaysTo(Mid, buffer, FrontierAsDatabase)
            BY <2>2 DEF CopiesInv, Pending
      <2>4. ReplaysTo(db, flight \o buffer, FrontierAsDatabase)
            BY <2>3, ReplayBoth
      <2>5. flight \o buffer \in Seq(Diff)
            BY <2>3, ConcatProperties
      <2> QED
            BY <2>4, <2>5, ReplayedIs
<1> QED
      BY <1>1, PersistentInvariant, PTL

\* The queue always holds one checkpoint for each emitted proof that has not
\* reached the database: dequeue_exn never raises and no checkpoint is left behind.
THEOREM CheckpointsAlwaysCounted ==
    ASSUME RepeatedBlocks = {}
    PROVE  PersistentSpec => []CheckpointPerPendingProof
<1>1. PersistentInv => CheckpointPerPendingProof
      <2>1. SUFFICES ASSUME PersistentInv, phase \in Loaded
                     PROVE  Len(potential) + dequeues = Emitted(flight) + Emitted(buffer) + Extra
            BY DEF CheckpointPerPendingProof, Extra
      <2>2. QueueInv
            BY <2>1, LoadedParts
      <2>3. PICK x \in {0, 1} : x = Extra
            BY DEF Extra
      <2>4. /\ dequeues \in Nat /\ Emitted(flight) \in Nat /\ Emitted(buffer) \in Nat
            /\ Len(potential) = (Emitted(flight) - dequeues) + Emitted(buffer) + x
            BY <2>2, <2>3 DEF QueueInv, QueueFits
      <2> QED
            BY <2>3, <2>4
<1> QED
      BY <1>1, PersistentInvariant, PTL

\* Whenever the worker is not between a dequeue and its write, the snarked ledger
\* of the database's root is on disk: a crash there costs no bootstrap.
THEOREM DatabaseRootLedgerAlwaysOnDisk ==
    ASSUME RepeatedBlocks = {}
    PROVE  PersistentSpec => []DatabaseRootLedgerOnDisk
<1>1. PersistentInv => DatabaseRootLedgerOnDisk
      <2>1. SUFFICES ASSUME PersistentInv, phase \in Loaded, ~ (dequeues > 0)
                     PROVE  Expected \in ToSet(potential) \cup {root_ledger}
            BY DEF DatabaseRootLedgerOnDisk, WorkerBusy
      <2>2. CopiesInv /\ QueueInv
            BY <2>1, LoadedParts
      <2>3. PICK e1, e2, x : e1 = Emitted(flight) /\ e2 = Emitted(buffer) /\ x = Extra
            OBVIOUS
      <2>4. x \in {0, 1}
            BY <2>3 DEF Extra
      <2>5. /\ potential \in Seq(Ledger) /\ dequeues = 0 /\ e1 \in Nat /\ e2 \in Nat
            /\ Len(potential) = e1 + e2 + x
            /\ e1 # 0 => potential[1] = SnarkedLedger(db.root)
            /\ e1 = 0 /\ e2 # 0 => potential[1] = SnarkedLedger(Mid.root)
            BY <2>1, <2>2, <2>3, <2>4 DEF QueueInv, QueueFits
      <2>6. root_ledger = SnarkedLedger(root)
            BY <2>2, LoadedRoots
      <2>7. /\ e1 = 0 => SnarkedLedger(db.root) = SnarkedLedger(Mid.root)
            /\ e2 = 0 => SnarkedLedger(Mid.root) = SnarkedLedger(root)
            BY <2>2, <2>3, MemoryFields DEF CopiesInv, Pending
      <2>8. CASE e1 = 0 /\ e2 = 0
            BY <2>6, <2>7, <2>8 DEF Expected
      <2>9. CASE ~ (e1 = 0 /\ e2 = 0)
            <3>1. potential[1] = SnarkedLedger(db.root)
                  BY <2>5, <2>7, <2>9
            <3>2. 1 \in DOMAIN potential
                  BY <2>4, <2>5, <2>9
            <3> QED
                  BY <3>1, <3>2 DEF ToSet, Expected
      <2> QED
            BY <2>8, <2>9
<1> QED
      BY <1>1, PersistentInvariant, PTL

\* When the root identifier and the database agree and no bootstrap was cut short,
\* load_from_disk finds the ledger, whatever crash came before.
THEOREM AgreeingRootAlwaysLoads ==
    ASSUME RepeatedBlocks = {}
    PROVE  PersistentSpec => []AgreeingRootLoads
<1>1. PersistentInv => AgreeingRootLoads
      <2>1. SUFFICES ASSUME PersistentInv, phase = "load", root_id = db.root, ~ overwritten
                     PROVE  Expected \in ToSet(potential) \cup {root_ledger}
            BY DEF AgreeingRootLoads
      <2>2. db # NoDatabase /\ DiskInv
            BY <2>1 DEF PersistentInv, PhaseInv
      <2>3. IsTree(db)
            BY <2>2 DEF DiskInv
      <2>4. root_id # NoBlock
            BY <2>1, <2>3, TreeFields, PersistentFrontierAssumption
      <2>5. RootOnDisk(root_id)
            BY <2>1, <2>2, <2>4 DEF DiskInv
      <2> QED
            BY <2>1, <2>2, <2>5 DEF RootOnDisk, Expected
<1> QED
      BY <1>1, PersistentInvariant, PTL

\* Across crashes and restarts the root identifier only moves from a block to its
\* child, or is removed by a reset, or written after one, or by a bootstrap that
\* is complete.
THEOREM RootIdentifierAlwaysForward ==
    ASSUME RepeatedBlocks = {}
    PROVE  PersistentSpec => RootIdentifierMovesForward
<1> DEFINE Forward == root_id' # root_id =>
                         \/ root_id' = NoBlock
                         \/ root_id = NoBlock
                         \/ root_id' # Genesis /\ Parent[root_id'] = root_id
                         \/ phase = "initialised"
<1>1. PersistentInv /\ [PersistentNext]_pvars => [Forward]_pvars
      <2>1. SUFFICES ASSUME PersistentInv, PersistentNext, root_id' # root_id PROVE Forward
            OBVIOUS
      <2>2. \/ IdentifyRoot \/ ResetRemoveRoot \/ ResetRootIdentifier \/ BootstrapRootIdentifier
            BY <2>1
            DEF PersistentNext, Add, AddBreadcrumbExn, BeginMoveRoot, CommitRoot, Worker,
                WorkerDequeue, WorkerWrite, Close, FinishClose, Crash, Boot, Load, CheckDatabase,
                ResetDestroyDatabase, ResetInitialize, ResetTransferLedger, LoadPotential,
                RenameLedger, RemovePotentials, LoadCurrent, LoadFullFrontier, FailToOpen,
                RebuildFails, Bootstrap, BootstrapSync, BootstrapSynced, BootstrapRetry,
                BootstrapDestroyDatabase, BootstrapInitialize, persistent_root
      <2>3. CASE IdentifyRoot
            <3>1. phase = "applied" /\ root_id' = root
                  BY <2>3 DEF IdentifyRoot
            <3>2. IdentifierInv
                  BY <2>1, <3>1, LoadedParts DEF Loaded
            <3> QED
                  BY <3>1, <3>2 DEF IdentifierInv
      <2>4. CASE ResetRemoveRoot
            BY <2>4 DEF ResetRemoveRoot
      <2>5. CASE ResetRootIdentifier
            BY <2>1, <2>5 DEF ResetRootIdentifier, PersistentInv, PhaseInv
      <2>6. CASE BootstrapRootIdentifier
            BY <2>6 DEF BootstrapRootIdentifier
      <2> QED
            BY <2>2, <2>3, <2>4, <2>5, <2>6
<1> QED
      BY <1>1, PersistentInvariant, PTL DEF PersistentSpec, RootIdentifierMovesForward

-----------------------------------------------------------------------------
(* The best tip, inside the short range of the consensus rule *)

LEMMA MemoryTip == BestTipStrongest <=> TipStrongest(FrontierAsDatabase)
BY MemoryFields DEF BestTipStrongest, TipStrongest

\* While the frontier is loaded, each copy's best tip is its strongest block: the
\* worker writes the last best tip of a batch together with the last root.
LEMMA RunsTips ==
    ASSUME ShortRangeSelect, RepeatedBlocks = {}, PersistentInv, TipsInv, Runs
    PROVE  TipsInv'
<1>1. PersistentInv' /\ CopiesFollow
      BY RunsInv
<1>2. phase \in Loaded
      BY DEF Runs, Add, AddBreadcrumbExn, BeginMoveRoot, CanAdd, CommitRoot, IdentifyRoot, Worker,
             WorkerDequeue, WorkerWrite, WorkerRuns, Close, Closing, Loaded
<1>3. CopiesInv /\ SubjectInv /\ DiskInv
      BY <1>2, LoadedParts
<1>4. TreeInv /\ BestTipStrongest /\ TipStrongest(Mid) /\ (db # NoDatabase => TipStrongest(db))
      BY <1>2, <1>3 DEF TipsInv, CopiesInv
<1>5. CASE phase' \in Loaded
      <2>1. BestTipStrongest'
            <3>1. \/ \E b \in Blocks : AddBreadcrumb(b)
                  \/ UNCHANGED <<memory, root_ledger>>
                  <4>1. ASSUME NEW b \in Blocks, AddBreadcrumbExn(b), phase' # "down"
                        PROVE  AddBreadcrumb(b)
                        BY <4>1 DEF AddBreadcrumbExn, Die
                  <4>2. ASSUME NEW b \in Blocks, BeginMoveRoot(b)
                        PROVE  UNCHANGED <<memory, root_ledger>>
                        BY <4>2 DEF BeginMoveRoot
                  <4>3. ASSUME CommitRoot PROVE AddBreadcrumb(subject) /\ subject \in Blocks
                        BY <4>3, <1>3 DEF CommitRoot, SubjectInv
                  <4>4. ASSUME IdentifyRoot, phase' # "down"
                        PROVE  UNCHANGED <<memory, root_ledger>>
                        BY <4>4 DEF IdentifyRoot, Die
                  <4>5. ASSUME Worker PROVE UNCHANGED <<memory, root_ledger>>
                        <5>1. ~ Orphaned(flight) /\ ~ CacheMiss(flight)
                              BY <1>3, WorkerFindsParents
                        <5> QED
                              BY <4>5, <5>1 DEF Worker, WorkerDequeue, WorkerWrite, persistent_root
                  <4>6. ASSUME NEW c, Close(c) PROVE UNCHANGED <<memory, root_ledger>>
                        BY <4>6 DEF Close, persistent_root
                  <4>7. phase' # "down"
                        BY <1>5 DEF Loaded
                  <4> QED
                        BY <4>1, <4>2, <4>3, <4>4, <4>5, <4>6, <4>7 DEF Runs, Add
            <3>2. CASE UNCHANGED <<memory, root_ledger>>
                  BY <3>2, <1>4, SameMemory
            <3>3. ASSUME NEW b \in Blocks, AddBreadcrumb(b) PROVE BestTipStrongest'
                  BY <3>3, <1>4, NextBestTip
            <3> QED
                  BY <3>1, <3>2, <3>3
      <2>2. (BestTipStrongest <=> TipStrongest(FrontierAsDatabase))'
            BY MemoryTip, PTL
      <2>3. /\ db' = db \/ db' = Mid
            /\ Mid' = Mid \/ Mid' = FrontierAsDatabase'
            BY <1>1, <1>5 DEF CopiesFollow
      <2>4. TipStrongest(Mid)'
            BY <2>1, <2>2, <2>3, <1>4
      <2>5. db' # NoDatabase => TipStrongest(db')
            BY <2>3, <1>4
      <2> QED
            BY <2>1, <2>4, <2>5 DEF TipsInv
<1>6. CASE phase' \notin Loaded
      <2>1. db' = db \/ db' = Mid
            <3>1. ASSUME Worker PROVE db' = db \/ db' = Mid
                  <4>1. ~ Orphaned(flight) /\ ~ CacheMiss(flight)
                        BY <1>3, WorkerFindsParents
                  <4> QED
                        BY <3>1, <4>1 DEF Worker, WorkerDequeue, WorkerWrite, Mid
            <3> QED
                  BY <3>1
                  DEF Runs, Add, AddBreadcrumbExn, BeginMoveRoot, CommitRoot, IdentifyRoot, Close
      <2> QED
            BY <2>1, <1>4, <1>6 DEF TipsInv
<1> QED
      BY <1>5, <1>6

\* A crash, a reset, a load or a bootstrap finds and leaves a database whose best
\* tip is its strongest block.
LEMMA OtherTips ==
    ASSUME PersistentInv, TipsInv,
           FinishClose \/ Crash \/ Boot \/ Load \/ Bootstrap
    PROVE  TipsInv'
<1>1. CASE LoadFullFrontier
      <2>1. /\ phase = "open" /\ UNCHANGED <<flight, db>>
            BY <1>1 DEF LoadFullFrontier, sync
      <2>2. /\ db # NoDatabase /\ root_ledger = Expected /\ IsTree(db) /\ Fits(db)
            /\ flight = <<>>
            BY <2>1 DEF PersistentInv, PhaseInv, DiskInv, Loaded
      <2>3. TipStrongest(db)
            BY <2>2 DEF TipsInv
      <2>4. FrontierAsDatabase' = db
            BY <2>2, <1>1, LoadBuildsTree
      <2>5. Mid' = db
            <3>1. Mid' = ApplyBatch(db, <<>>)
                  BY <2>1, <2>2 DEF Mid
            <3>2. Pending(db, <<>>, db)
                  BY <2>2, EmptyBatch
            <3> QED
                  BY <3>1, <3>2 DEF Pending
      <2>6. (BestTipStrongest <=> TipStrongest(FrontierAsDatabase))'
            BY MemoryTip, PTL
      <2> QED
            BY <2>1, <2>3, <2>4, <2>5, <2>6 DEF TipsInv
<1>2. CASE ~ LoadFullFrontier
      <2>1. phase' \notin Loaded
            BY <1>2
            DEF FinishClose, Crash, Die, NoMemory, Boot, Load, CheckDatabase, ResetAndContinue,
                Fail, Goto, ResetDestroyDatabase, ResetInitialize, ResetRemoveRoot,
                ResetTransferLedger, ResetRootIdentifier, LoadPotential, RenameLedger,
                RemovePotentials, LoadCurrent, FailToOpen, RebuildFails, Bootstrap,
                BootstrapSync, BootstrapSynced, BootstrapRetry, BootstrapDestroyDatabase,
                BootstrapInitialize, BootstrapRootIdentifier, Loaded
      <2>2. \/ db' = db \/ db' = NoDatabase \/ db' = Initialize(Genesis)
            \/ BootstrapInitialize
            BY <1>2
            DEF FinishClose, Crash, Boot, Load, CheckDatabase, ResetDestroyDatabase,
                ResetInitialize, ResetRemoveRoot, ResetTransferLedger, ResetRootIdentifier,
                LoadPotential, RenameLedger, RemovePotentials, LoadCurrent, FailToOpen,
                RebuildFails, Bootstrap, BootstrapSync, BootstrapSynced, BootstrapRetry,
                BootstrapDestroyDatabase, BootstrapRootIdentifier
      <2>3. ASSUME BootstrapInitialize PROVE TipStrongest(db')
            <3>1. db' = Initialize(subject) /\ subject \in Blocks
                  BY <2>3 DEF BootstrapInitialize, PersistentInv, PhaseInv
            <3> QED
                  BY <3>1, InitializeTree
      <2>4. TipStrongest(Initialize(Genesis))
            BY InitializeTree, BlockTreeAssumption
      <2>5. db' # NoDatabase => TipStrongest(db')
            BY <2>2, <2>3, <2>4 DEF TipsInv
      <2> QED
            BY <2>1, <2>5 DEF TipsInv
<1> QED
      BY <1>1, <1>2

\* Each copy of the frontier has its strongest block as its best tip.
THEOREM BestTipsInvariant ==
    ASSUME ShortRangeSelect, RepeatedBlocks = {}
    PROVE  PersistentSpec => []TipsInv
<1>1. PersistentInit => TipsInv
      BY DEF PersistentInit, TipsInv, Loaded
<1>2. PersistentInv /\ TipsInv /\ [PersistentNext]_pvars => TipsInv'
      <2>1. SUFFICES ASSUME PersistentInv, TipsInv, [PersistentNext]_pvars PROVE TipsInv'
            OBVIOUS
      <2>2. CASE Runs
            BY <2>1, <2>2, RunsTips
      <2>3. CASE FinishClose \/ Crash \/ Boot \/ Load \/ Bootstrap
            BY <2>1, <2>3, OtherTips
      <2>4. CASE UNCHANGED pvars
            <3>1. UNCHANGED <<memory, root_ledger, phase, flight, db>>
                  BY <2>4 DEF pvars, sync, control, persistent_root
            <3>2. Mid' = Mid
                  BY <3>1 DEF Mid
            <3>3. BestTipStrongest => BestTipStrongest'
                  BY <3>1, SameMemory
            <3> QED
                  BY <3>1, <3>2, <3>3, <2>1 DEF TipsInv
      <2> QED
            BY <2>1, <2>2, <2>3, <2>4 DEF PersistentNext, Runs
<1> QED
      BY <1>1, <1>2, PersistentInvariant, PTL DEF PersistentSpec

\* Whatever was on disk and however often the process crashed, a frontier that
\* runs is a bounded tree with the strongest tip, and its root's ledger, protocol
\* states and identifier belong together.
THEOREM RunningFrontierAlwaysSound ==
    ASSUME ShortRangeSelect, RepeatedBlocks = {}
    PROVE  PersistentSpec => []RunningFrontierIsSound
<1>1. PersistentInv /\ TipsInv => RunningFrontierIsSound
      <2>1. SUFFICES ASSUME PersistentInv, TipsInv,
                            phase \in {"running", "closing", "closing_for_bootstrap"}
                     PROVE  /\ FrontierIsTree /\ BoundedLength /\ BestTipStrongest
                            /\ RootLedgerMatchesRoot /\ ProtocolStatesSuffice /\ root_id = root
            BY DEF RunningFrontierIsSound, Closing
      <2>2. phase \in Loaded /\ phase # "applied"
            BY <2>1 DEF Loaded
      <2>3. TreeInv /\ IdentifierInv
            BY <2>1, <2>2, LoadedParts DEF CopiesInv
      <2> QED
            BY <2>1, <2>2, <2>3 DEF TreeInv, IdentifierInv, TipsInv
<1> QED
      BY <1>1, PersistentInvariant, BestTipsInvariant, PTL

\* No crash, between any two writes to disk, leaves a database behind that
\* Database.check finds corrupt.
THEOREM DatabaseIsNeverCorrupt ==
    ASSUME ShortRangeSelect, RepeatedBlocks = {}
    PROVE  PersistentSpec => []DatabaseNeverCorrupt
<1>1. PersistentInv /\ TipsInv => DatabaseNeverCorrupt
      <2>1. SUFFICES ASSUME PersistentInv, TipsInv, db # NoDatabase PROVE Sound
            BY DEF DatabaseNeverCorrupt
      <2>2. IsTree(db) /\ TipStrongest(db)
            BY <2>1 DEF PersistentInv, DiskInv, TipsInv
      <2>3. Crawled = db.transitions /\ db.transitions = DOMAIN db.arcs
            BY <2>2, CrawlReachesAll
      <2> QED
            BY <2>2, <2>3 DEF Sound, TipStrongest
<1> QED
      BY <1>1, PersistentInvariant, BestTipsInvariant, PTL

\* When everything is flushed a load would find exactly the blocks in memory and
\* the best tip: that it may not (FlushedDatabaseReloads is violated when a block
\* is handed in again) takes a block that is already in the frontier.
THEOREM FlushedDatabaseAlwaysReloads ==
    ASSUME RepeatedBlocks = {}
    PROVE  PersistentSpec => []FlushedDatabaseReloads
<1>1. PersistentInv => FlushedDatabaseReloads
      <2>1. SUFFICES ASSUME PersistentInv, phase = "running", flight = <<>>, buffer = <<>>
                     PROVE  Crawled = DOMAIN table /\ db.best_tip = best_tip
            BY DEF FlushedDatabaseReloads
      <2>2. CopiesInv
            BY <2>1, LoadedParts DEF Loaded
      <2>3. IsTree(db) /\ FrontierAsDatabase = ApplyBatch(Mid, <<>>)
            BY <2>1, <2>2 DEF CopiesInv, Pending
      <2>4. Mid = db
            BY <2>1, <2>3, NothingInFlight
      <2>5. FrontierAsDatabase = db
            BY <2>3, <2>4, EmptyBatch DEF Pending
      <2> QED
            BY <2>3, <2>5, MemoryFields, CrawlReachesAll
<1> QED
      BY <1>1, PersistentInvariant, PTL
=============================================================================
