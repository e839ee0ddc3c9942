-------------------------- MODULE ProofOfStakeProofs --------------------------
(***************************************************************************)
(* Proofs about chain selection, for every choice of the consensus         *)
(* constants and every tree of blocks.                                     *)
(***************************************************************************)
EXTENDS ProofOfStake, FiniteSetTheorems, NaturalsInduction, TLAPS

-----------------------------------------------------------------------------
(* Arithmetic                                                              *)

\* Division with remainder.
LEMMA DivMod ==
    ASSUME NEW a \in Int, NEW n \in Nat \ {0}
    PROVE  /\ a \div n \in Int
           /\ a % n \in 0 .. n - 1
           /\ a % n = a - n * (a \div n)
<1>1. a \div n \in Int /\ a % n \in 0 .. n - 1
      OBVIOUS
<1>2. a % n = a - n * (a \div n)
      OBVIOUS
<1> QED
      BY <1>1, <1>2

\* Multiples of n are n apart.
LEMMA MultiplesApart ==
    ASSUME NEW x \in Int, NEW y \in Int, NEW n \in Nat \ {0}, x < y
    PROVE  n * x \in Int /\ n * y \in Int /\ n * x + n <= n * y
OBVIOUS

\* Later slots are in later sub-windows, or later in the same one.
LEMMA DivMonotone ==
    ASSUME NEW a \in Int, NEW b \in Int, NEW n \in Nat \ {0}, a <= b
    PROVE  /\ a \div n <= b \div n
           /\ a < b /\ a \div n = b \div n => a % n < b % n
<1>1. /\ a \div n \in Int /\ a % n \in 0 .. n - 1 /\ a % n = a - n * (a \div n)
      /\ b \div n \in Int /\ b % n \in 0 .. n - 1 /\ b % n = b - n * (b \div n)
      BY DivMod
<1>2. a \div n <= b \div n
      BY <1>1, MultiplesApart
<1>3. ASSUME a < b, a \div n = b \div n PROVE a % n < b % n
      <2>1. PICK m \in Int : m = n * (a \div n) /\ m = n * (b \div n)
            BY <1>1, <1>3
      <2>2. PICK ra \in Int, rb \in Int : ra = a % n /\ rb = b % n
            BY <1>1
      <2>3. ra = a - m /\ rb = b - m
            BY <1>1, <2>1, <2>2
      <2>4. ra < rb
            BY <1>3, <2>3
      <2> QED
            BY <2>2, <2>4
<1> QED
      BY <1>2, <1>3

\* A set of natural numbers has a least element.
LEMMA LeastNatural ==
    ASSUME NEW T \in SUBSET Nat, T # {}
    PROVE  \E x \in T : \A y \in T : x <= y
<1>1. PICK x \in T : \A y \in T : ~ (<<y, x>> \in OpToRel(<, Nat))
      BY NatLessThanWellFounded, WFMin
<1>2. \A y \in T : ~ (y < x)
      BY <1>1 DEF OpToRel
<1> QED
      BY <1>2

\* Numbers less than n apart have different remainders.
LEMMA ModInjective ==
    ASSUME NEW a \in Int, NEW b \in Int, NEW n \in Nat \ {0}, a < b, b < a + n
    PROVE  a % n # b % n
<1>1. /\ a \div n \in Int /\ a % n \in 0 .. n - 1 /\ a % n = a - n * (a \div n)
      /\ b \div n \in Int /\ b % n \in 0 .. n - 1 /\ b % n = b - n * (b \div n)
      BY DivMod
<1>2. CASE a \div n = b \div n
      BY <1>1, <1>2
<1>3. CASE a \div n < b \div n
      BY <1>1, <1>3, MultiplesApart
<1>4. CASE a \div n > b \div n
      BY <1>1, <1>4, MultiplesApart
<1> QED
      BY <1>1, <1>2, <1>3, <1>4

\* The smaller and the larger of two numbers.
LEMMA MinMaxOfTwo ==
    ASSUME NEW a \in Int, NEW b \in Int
    PROVE  /\ Min({a, b}) = IF a <= b THEN a ELSE b
           /\ Max({a, b}) = IF a >= b THEN a ELSE b
<1>1. Min({a, b}) = IF a <= b THEN a ELSE b
      <2>1. \E x \in {a, b} : \A y \in {a, b} : x =< y
            OBVIOUS
      <2>2. Min({a, b}) \in {a, b} /\ \A y \in {a, b} : Min({a, b}) =< y
            BY <2>1 DEF Min
      <2> QED
            BY <2>2
<1>2. Max({a, b}) = IF a >= b THEN a ELSE b
      <2>1. \E x \in {a, b} : \A y \in {a, b} : x >= y
            OBVIOUS
      <2>2. Max({a, b}) \in {a, b} /\ \A y \in {a, b} : Max({a, b}) >= y
            BY <2>1 DEF Max
      <2> QED
            BY <2>2
<1> QED
      BY <1>1, <1>2

-----------------------------------------------------------------------------
(* The ring of sub-windows                                                 *)

\* On the ring, the places strictly between prev and next are those of the
\* sub-windows after prev, among the ones in the window before next.
LEMMA RingBetween ==
    ASSUME NEW n \in Nat \ {0}, NEW a \in Int, NEW b \in Int, a < b, b <= a + n,
           NEW w \in Int, b - n <= w, w < b
    PROVE  WithinRange(w % n, a % n, b % n) <=> w > a
<1>1. /\ a \div n \in Int /\ a % n \in 0 .. n - 1 /\ a % n = a - n * (a \div n)
      /\ b \div n \in Int /\ b % n \in 0 .. n - 1 /\ b % n = b - n * (b \div n)
      /\ w \div n \in Int /\ w % n \in 0 .. n - 1 /\ w % n = w - n * (w \div n)
      BY DivMod
<1>2. PICK qa \in Int, qb \in Int, qw \in Int :
        qa = a \div n /\ qb = b \div n /\ qw = w \div n
      BY <1>1
<1>3. PICK ra \in 0 .. n - 1, rb \in 0 .. n - 1, rw \in 0 .. n - 1 :
        ra = a % n /\ rb = b % n /\ rw = w % n
      BY <1>1
<1>4. PICK A \in Int, B \in Int, W \in Int : A = n * qa /\ B = n * qb /\ W = n * qw
      OBVIOUS
<1>5. a = A + ra /\ b = B + rb /\ w = W + rw
      BY <1>1, <1>2, <1>3, <1>4
<1>6. /\ A = B \/ A + n <= B \/ B + n <= A
      /\ A + n = B \/ (A + n) + n <= B \/ B <= A
      /\ A = W \/ A + n <= W \/ W + n <= A
      /\ B = W \/ B + n <= W \/ W + n <= B
      /\ W + n = A \/ (W + n) + n <= A \/ A <= W
      <2>1. n * (qa + 1) = A + n /\ n * (qw + 1) = W + n
            BY <1>4
      <2> QED
            BY <1>4, <2>1, MultiplesApart
<1>7. CASE A = B
      BY <1>3, <1>5, <1>6, <1>7 DEF WithinRange
<1>8. CASE A + n = B
      BY <1>3, <1>5, <1>6, <1>8 DEF WithinRange
<1>9. A = B \/ A + n = B
      BY <1>5, <1>6
<1> QED
      BY <1>7, <1>8, <1>9

\* Every place on the ring is that of a sub-window in the window before b.
LEMMA RingCovered ==
    ASSUME NEW n \in Nat \ {0}, NEW b \in Int, NEW i \in 0 .. n - 1
    PROVE  \E w \in (b - n) .. (b - 1) : w % n = i
<1>1. b \div n \in Int /\ b % n \in 0 .. n - 1 /\ b % n = b - n * (b \div n)
      BY DivMod
<1>2. PICK q \in Int, r \in 0 .. n - 1 : q = b \div n /\ r = b % n
      BY <1>1
<1>3. r = b - n * q
      BY <1>1, <1>2
<1>4. \A p \in Int : (n * p + i) % n = i
      OBVIOUS
<1>5. CASE i < r
      <2>1. n * q + i \in (b - n) .. (b - 1)
            BY <1>3, <1>5
      <2> QED
            BY <1>4, <2>1
<1>6. CASE i >= r
      <2>1. PICK p \in Int : p = q - 1
            OBVIOUS
      <2>2. n * p = n * q - n
            BY <2>1
      <2>3. n * p + i \in (b - n) .. (b - 1)
            BY <1>3, <1>6, <2>2
      <2>4. (n * p + i) % n = i
            BY <1>4
      <2> QED
            BY <2>3, <2>4
<1> QED
      BY <1>5, <1>6

-----------------------------------------------------------------------------
(* The density of a window                                                 *)

\* The blocks that densities count.
Cells(f) == UNION {{i} \X (1 .. f[i]) : i \in DOMAIN f}

\* They are pairs, and finitely many.
LEMMA CellsFinite ==
    ASSUME NEW D, IsFiniteSet(D), NEW M \in Nat, NEW f \in [D -> 0 .. M]
    PROVE  /\ IsFiniteSet(Cells(f))
           /\ WindowDensity(f) = Cardinality(Cells(f)) /\ WindowDensity(f) \in Nat
           /\ \A c : c \in Cells(f) <=> \E i \in D : \E j \in 1 .. f[i] : c = <<i, j>>
<1>1. \A c : c \in Cells(f) <=> \E i \in D : \E j \in 1 .. f[i] : c = <<i, j>>
      BY DEF Cells
<1>2. Cells(f) \in SUBSET (D \X (1 .. M))
      BY <1>1
<1>3. IsFiniteSet(D \X (1 .. M))
      <2>1. IsFiniteSet(1 .. M)
            BY FS_Interval
      <2> QED
            BY <2>1, FS_Product
<1>4. IsFiniteSet(Cells(f))
      BY <1>2, <1>3, FS_Subset
<1>5. WindowDensity(f) = Cardinality(Cells(f))
      BY DEF WindowDensity, Cells
<1> QED
      BY <1>1, <1>4, <1>5, FS_CardinalityType

\* A window with more blocks in each sub-window is denser.
LEMMA DensityMonotone ==
    ASSUME NEW D, IsFiniteSet(D), NEW M \in Nat, NEW f \in [D -> 0 .. M], NEW g \in [D -> 0 .. M],
           \A i \in D : f[i] <= g[i]
    PROVE  WindowDensity(f) <= WindowDensity(g)
<1>1. Cells(f) \in SUBSET Cells(g)
      BY CellsFinite
<1> QED
      BY <1>1, CellsFinite, FS_Subset

-----------------------------------------------------------------------------
(* Consensus states                                                        *)

Ring == 0 .. SubWindowsPerWindow - 1

\* A consensus state, whose last sub-window has at most one block per slot so far.
SoundState(x) ==
    /\ x \in ConsensusState
    /\ x.sub_window_densities[SubWindow(x.slot)] <= (x.slot % SlotsPerSubWindow) + 1

\* The window and its sub-windows.
LEMMA Windows ==
    /\ SlotsPerSubWindow \in Nat \ {0} /\ SubWindowsPerWindow \in Nat \ {0}
    /\ SlotsPerWindow \in Nat /\ GracePeriodEnd \in Nat
    /\ IsFiniteSet(Ring)
    /\ \A s \in Nat : GlobalSubWindow(s) \in Nat /\ SubWindow(s) \in Ring
<1>1. /\ SlotsPerSubWindow \in Nat \ {0} /\ SubWindowsPerWindow \in Nat \ {0}
      /\ GracePeriodSlots \in Nat
      BY ConsensusConstantsAssumption
<1>2. SlotsPerWindow \in Nat
      BY <1>1 DEF SlotsPerWindow
<1>3. GracePeriodEnd \in Nat
      BY <1>1, <1>2 DEF GracePeriodEnd
<1>4. IsFiniteSet(Ring)
      BY <1>1, FS_Interval DEF Ring
<1>5. ASSUME NEW s \in Nat PROVE GlobalSubWindow(s) \in Nat /\ SubWindow(s) \in Ring
      <2>1. GlobalSubWindow(s) \in Nat
            BY <1>1 DEF GlobalSubWindow
      <2> QED
            <3>1. PICK g \in Int : g = GlobalSubWindow(s)
                  BY <2>1
            <3>2. g % SubWindowsPerWindow \in 0 .. SubWindowsPerWindow - 1
                  BY <1>1, DivMod
            <3> QED
                  BY <2>1, <3>1, <3>2 DEF SubWindow, Ring
<1> QED
      BY <1>1, <1>2, <1>3, <1>4, <1>5

\* Projecting a window keeps its type and adds nothing.
LEMMA CurrentType ==
    ASSUME NEW f \in [Ring -> 0 .. SlotsPerSubWindow], NEW a, NEW b
    PROVE  /\ CurrentDensities(f, a, b) \in [Ring -> 0 .. SlotsPerSubWindow]
           /\ \A i \in Ring : CurrentDensities(f, a, b)[i] <= f[i]
<1>1. SlotsPerSubWindow \in Nat
      BY Windows
<1>2. \A i \in Ring : f[i] \in 0 .. SlotsPerSubWindow
      OBVIOUS
<1> QED
      BY <1>1, <1>2 DEF CurrentDensities

\* The minimum density only falls.
LEMMA MinDensityType ==
    ASSUME NEW f \in [Ring -> 0 .. SlotsPerSubWindow], NEW m \in 0 .. SlotsPerWindow,
           NEW a, NEW b
    PROVE  /\ MinDensity(m, f, a, b) \in 0 .. SlotsPerWindow
           /\ MinDensity(m, f, a, b) <= m
           /\ WindowDensity(CurrentDensities(f, a, b)) \in Nat
           /\ ~ (SameSubWindow(a, b) \/ b < GracePeriodEnd) =>
                MinDensity(m, f, a, b) =
                  LET d == WindowDensity(CurrentDensities(f, a, b)) IN IF d <= m THEN d ELSE m
<1>1. PICK d : d = WindowDensity(CurrentDensities(f, a, b))
      OBVIOUS
<1>2. d \in Nat
      BY <1>1, Windows, CurrentType, CellsFinite
<1>3. SlotsPerWindow \in Nat
      BY Windows
<1>4. Min({d, m}) = IF d <= m THEN d ELSE m
      BY <1>2, <1>3, MinMaxOfTwo
<1> QED
      BY <1>1, <1>2, <1>3, <1>4 DEF MinDensity

\* Consensus_state.update of a sound state.
LEMMA UpdateSound ==
    ASSUME NEW x, x \in ConsensusState, NEW h \in Hashes, NEW s \in Nat, NEW v \in Nat,
           SameSubWindow(x.slot, s) =>
             x.sub_window_densities[SubWindow(s)] <= s % SlotsPerSubWindow
    PROVE  SoundState(Update(x, h, s, v))
<1> DEFINE f == x.sub_window_densities
           c == CurrentDensities(f, x.slot, s)
           g == NextDensities(f, x.slot, s)
<1>1. /\ x.blockchain_length \in Nat /\ x.slot \in Nat
      /\ x.min_window_density \in 0 .. SlotsPerWindow
      /\ f \in [Ring -> 0 .. SlotsPerSubWindow]
      /\ x.staking_lock \in Hashes /\ x.next_lock \in Hashes
      BY DEF ConsensusState, Ring
<1>2. SlotsPerSubWindow \in Nat \ {0} /\ SubWindow(s) \in Ring
      BY Windows
<1>3. s % SlotsPerSubWindow \in 0 .. SlotsPerSubWindow - 1
      BY <1>2, DivMod
<1>4. c \in [Ring -> 0 .. SlotsPerSubWindow]
      BY <1>1, CurrentType
<1>5. SameSubWindow(x.slot, s) => c[SubWindow(s)] = f[SubWindow(s)]
      BY <1>1, <1>2 DEF CurrentDensities
<1>6. PICK new : new = IF SameSubWindow(x.slot, s) THEN c[SubWindow(s)] + 1 ELSE 1
      OBVIOUS
<1>7. new \in 0 .. SlotsPerSubWindow /\ new <= (s % SlotsPerSubWindow) + 1
      <2>1. /\ f[SubWindow(s)] \in 0 .. SlotsPerSubWindow
            /\ SameSubWindow(x.slot, s) => f[SubWindow(s)] <= s % SlotsPerSubWindow
            BY <1>1, <1>2
      <2> HIDE DEF f, c
      <2> QED
            BY <1>2, <1>3, <1>5, <1>6, <2>1
<1>8. g = [c EXCEPT ![SubWindow(s)] = new]
      BY <1>6 DEF NextDensities
<1>9. g \in [Ring -> 0 .. SlotsPerSubWindow] /\ g[SubWindow(s)] = new
      <2> HIDE DEF f, c, g
      <2> QED
            BY <1>2, <1>4, <1>7, <1>8
<1>10. MinDensity(x.min_window_density, f, x.slot, s) \in 0 .. SlotsPerWindow
      BY <1>1, MinDensityType
<1>11. /\ UpdatePair(x, h, s).staking \in Hashes /\ UpdatePair(x, h, s).next \in Hashes
      BY <1>1, OffersAssumption DEF UpdatePair, ZeroHash
<1>12. PICK y : y = Update(x, h, s, v)
      OBVIOUS
<1>13. /\ y \in ConsensusState /\ y.slot = s /\ y.sub_window_densities = g
      <2> HIDE DEF f, g
      <2>1. y = [blockchain_length    |-> x.blockchain_length + 1,
                 slot                 |-> s,
                 min_window_density   |-> MinDensity(x.min_window_density, f, x.slot, s),
                 sub_window_densities |-> g,
                 last_vrf_output      |-> v,
                 staking_lock         |-> UpdatePair(x, h, s).staking,
                 next_lock            |-> UpdatePair(x, h, s).next]
            BY <1>12 DEF Update, f, g
      <2> QED
            BY <1>1, <1>9, <1>10, <1>11, <2>1 DEF ConsensusState, Ring
<1> QED
      BY <1>7, <1>9, <1>12, <1>13 DEF SoundState

\* The projected window: the sub-windows up to that of the previous block keep what
\* they had, the ones after it are empty.
LEMMA CurrentAt ==
    ASSUME NEW f \in [Ring -> 0 .. SlotsPerSubWindow], NEW a \in Nat, NEW b \in Nat,
           GlobalSubWindow(a) < GlobalSubWindow(b),
           NEW w \in (GlobalSubWindow(b) - SubWindowsPerWindow) .. (GlobalSubWindow(b) - 1)
    PROVE  /\ w % SubWindowsPerWindow \in Ring
           /\ CurrentDensities(f, a, b)[w % SubWindowsPerWindow] =
                IF w <= GlobalSubWindow(a) THEN f[w % SubWindowsPerWindow] ELSE 0
<1>1. PICK ga \in Nat, gb \in Nat : ga = GlobalSubWindow(a) /\ gb = GlobalSubWindow(b)
      BY Windows
<1>2. PICK n \in Nat \ {0} : n = SubWindowsPerWindow
      BY Windows
<1>3. ga < gb /\ w \in Int /\ gb - n <= w /\ w < gb
      <2>1. w \in (gb - n) .. (gb - 1)
            BY <1>1, <1>2
      <2> QED
            BY <1>1, <2>1
<1>4. PICK i \in 0 .. n - 1 : i = w % n
      <2>1. w % n \in 0 .. n - 1
            BY <1>3, DivMod
      <2> QED
            BY <2>1
<1>5. i \in Ring /\ i = w % SubWindowsPerWindow
      BY <1>2, <1>4 DEF Ring
<1>6. CurrentDensities(f, a, b)[i] =
        IF ga + n >= gb /\ ~ WithinRange(i, ga % n, gb % n) THEN f[i] ELSE 0
      BY <1>1, <1>2, <1>3, <1>5
      DEF CurrentDensities, SameSubWindow, OverlappingWindow, SubWindow
<1>7. ga + n >= gb => (WithinRange(i, ga % n, gb % n) <=> w > ga)
      <2>1. ASSUME ga + n >= gb PROVE WithinRange(w % n, ga % n, gb % n) <=> w > ga
            <3>1. ga \in Int /\ gb \in Int /\ gb <= ga + n
                  BY <2>1
            <3> QED
                  BY <1>3, <3>1, RingBetween
      <2> QED
            BY <1>4, <2>1
<1>8. (ga + n >= gb /\ ~ WithinRange(i, ga % n, gb % n)) <=> w <= ga
      BY <1>3, <1>7
<1> QED
      BY <1>1, <1>5, <1>6, <1>8

\* The window that a block leaves.
LEMMA NextAt ==
    ASSUME NEW f \in [Ring -> 0 .. SlotsPerSubWindow], NEW a \in Nat, NEW b \in Nat,
           NEW i \in Ring
    PROVE  NextDensities(f, a, b)[i] =
             IF i # SubWindow(b) THEN CurrentDensities(f, a, b)[i]
             ELSE IF SameSubWindow(a, b) THEN f[i] + 1 ELSE 1
<1>1. CurrentDensities(f, a, b) \in [Ring -> 0 .. SlotsPerSubWindow]
      BY CurrentType
<1>2. SubWindow(b) \in Ring
      BY Windows
<1>3. SameSubWindow(a, b) => CurrentDensities(f, a, b)[i] = f[i]
      BY DEF CurrentDensities
<1>4. PICK c : c = CurrentDensities(f, a, b)
      OBVIOUS
<1> QED
      BY <1>1, <1>2, <1>3, <1>4 DEF NextDensities

-----------------------------------------------------------------------------
(* Projected densities along a chain                                       *)

\* The minimum density of x if its chain were still without a block at slot s.
Projected(x, s) == MinDensity(x.min_window_density, x.sub_window_densities, x.slot, s)

\* A block that is built on x is never behind x in what it projects to: each block
\* that is skipped counts against both.
LEMMA ChildProjects ==
    ASSUME NEW x \in ConsensusState, NEW h, NEW v, NEW t \in Nat, x.slot < t,
           NEW y \in ConsensusState, y = Update(x, h, t, v), NEW s \in Nat, t <= s
    PROVE  Projected(x, s) <= Projected(y, s)
<1>1. PICK r \in Nat, f \in [Ring -> 0 .. SlotsPerSubWindow], mx \in 0 .. SlotsPerWindow :
        r = x.slot /\ f = x.sub_window_densities /\ mx = x.min_window_density
      BY DEF ConsensusState, Ring
<1>2. PICK g \in [Ring -> 0 .. SlotsPerSubWindow], my \in 0 .. SlotsPerWindow :
        g = y.sub_window_densities /\ my = y.min_window_density
      BY DEF ConsensusState, Ring
<1>3. y.slot = t /\ g = NextDensities(f, r, t) /\ my = MinDensity(mx, f, r, t)
      BY <1>1, <1>2 DEF Update
<1>4. PICK gx \in Nat, gy \in Nat, gs \in Nat :
        gx = GlobalSubWindow(r) /\ gy = GlobalSubWindow(t) /\ gs = GlobalSubWindow(s)
      BY Windows
<1>5. gx <= gy /\ gy <= gs
      <2>1. PICK k \in Nat \ {0} : k = SlotsPerSubWindow
            BY Windows
      <2>2. r <= t /\ r \in Int /\ t \in Int /\ s \in Int
            BY <1>1
      <2>3. r \div k <= t \div k
            BY <2>2, DivMonotone
      <2>4. t \div k <= s \div k
            BY <2>2, DivMonotone
      <2> QED
            BY <1>4, <2>1, <2>3, <2>4 DEF GlobalSubWindow
<1>6. PICK n \in Nat \ {0} : n = SubWindowsPerWindow
      BY Windows
<1>7. SlotsPerSubWindow \in Nat /\ SlotsPerWindow \in Nat /\ GracePeriodEnd \in Nat
      BY Windows
<1>8. \A i \in Ring : f[i] \in Nat /\ g[i] \in Nat
      BY <1>7
<1>9. ASSUME NEW i \in Ring, gx < gy, gy < gs
      PROVE  /\ CurrentDensities(f, r, s)[i] <= CurrentDensities(f, r, t)[i]
             /\ CurrentDensities(f, r, s)[i] <= CurrentDensities(g, t, s)[i]
      <2>1. PICK w \in (gs - n) .. (gs - 1) : w % n = i
            <3>1. i \in 0 .. n - 1 /\ gs \in Int
                  BY <1>6 DEF Ring
            <3> QED
                  BY <3>1, RingCovered
      <2>2. CurrentDensities(f, r, s)[i] = IF w <= gx THEN f[i] ELSE 0
            BY <1>4, <1>6, <1>9, <2>1, CurrentAt
      <2>3. CASE w > gx
            <3>1. /\ CurrentDensities(f, r, t)[i] \in 0 .. SlotsPerSubWindow
                  /\ CurrentDensities(g, t, s)[i] \in 0 .. SlotsPerSubWindow
                  BY CurrentType
            <3> QED
                  BY <1>7, <2>2, <2>3, <3>1
      <2>4. CASE w <= gx
            <3>1. w \in (gy - n) .. (gy - 1)
                  BY <1>9, <2>1, <2>4
            <3>2. CurrentDensities(f, r, t)[i] = f[i]
                  BY <1>4, <1>6, <1>9, <2>1, <2>4, <3>1, CurrentAt
            <3>3. w < gy /\ gy < w + n
                  BY <1>9, <2>1, <2>4
            <3>4. i # gy % n
                  <4>1. w \in Int /\ gy \in Int
                        BY <2>1
                  <4>2. w % n # gy % n
                        BY <3>3, <4>1, ModInjective
                  <4> QED
                        BY <2>1, <4>2
            <3>5. i # SubWindow(t)
                  BY <1>4, <1>6, <3>4 DEF SubWindow
            <3>6. g[i] = f[i]
                  BY <1>3, <3>2, <3>5, NextAt
            <3>7. CurrentDensities(g, t, s)[i] = g[i]
                  BY <1>4, <1>6, <1>9, <2>1, <3>3, CurrentAt
            <3> QED
                  BY <1>8, <2>2, <2>4, <3>2, <3>6, <3>7
      <2> QED
            BY <2>1, <2>3, <2>4
<1>10. ASSUME NEW i \in Ring, gx = gy
       PROVE  CurrentDensities(f, r, s)[i] <= CurrentDensities(g, t, s)[i]
      <2>1. SameSubWindow(r, t) /\ SubWindow(r) = SubWindow(t)
            BY <1>4, <1>10 DEF SameSubWindow, SubWindow
      <2>2. g[i] = IF i # SubWindow(t) THEN CurrentDensities(f, r, t)[i] ELSE f[i] + 1
            BY <1>3, <2>1, NextAt
      <2>3. CurrentDensities(f, r, t)[i] = f[i]
            BY <2>1 DEF CurrentDensities
      <2>4. f[i] <= g[i]
            BY <1>8, <2>2, <2>3
      <2>5. \/ CurrentDensities(f, r, s)[i] = f[i] /\ CurrentDensities(g, t, s)[i] = g[i]
            \/ CurrentDensities(f, r, s)[i] = 0 /\ CurrentDensities(g, t, s)[i] = 0
            <3>1. /\ SameSubWindow(r, s) <=> SameSubWindow(t, s)
                  /\ OverlappingWindow(r, s) <=> OverlappingWindow(t, s)
                  BY <1>4, <1>10 DEF SameSubWindow, OverlappingWindow
            <3>2. /\ CurrentDensities(f, r, s)[i] =
                       IF \/ SameSubWindow(r, s)
                          \/ /\ OverlappingWindow(r, s)
                             /\ ~ WithinRange(i, SubWindow(r), SubWindow(s))
                       THEN f[i] ELSE 0
                  /\ CurrentDensities(g, t, s)[i] =
                       IF \/ SameSubWindow(t, s)
                          \/ /\ OverlappingWindow(t, s)
                             /\ ~ WithinRange(i, SubWindow(t), SubWindow(s))
                       THEN g[i] ELSE 0
                  BY DEF CurrentDensities
            <3> QED
                  BY <2>1, <3>1, <3>2
      <2> QED
            BY <1>8, <2>4, <2>5
<1>11. PICK dx, dy, d0 : /\ dx = WindowDensity(CurrentDensities(f, r, s))
                         /\ dy = WindowDensity(CurrentDensities(g, t, s))
                         /\ d0 = WindowDensity(CurrentDensities(f, r, t))
      OBVIOUS
<1>12. dx \in Nat /\ dy \in Nat /\ d0 \in Nat
      BY <1>11, MinDensityType
<1>13. gy < gs => dx <= dy
      <2>1. ASSUME gy < gs PROVE \A i \in Ring :
              CurrentDensities(f, r, s)[i] <= CurrentDensities(g, t, s)[i]
            BY <1>5, <1>9, <1>10, <2>1
      <2> QED
            BY <1>7, <1>11, <2>1, CurrentType, DensityMonotone, Windows
<1>14. gx < gy => dx <= d0
      <2>1. ASSUME gx < gy PROVE \A i \in Ring :
              CurrentDensities(f, r, s)[i] <= CurrentDensities(f, r, t)[i]
            <3>1. CASE gy < gs
                  BY <1>9, <2>1, <3>1
            <3>2. CASE gy = gs
                  <4>1. CurrentDensities(f, r, s) = CurrentDensities(f, r, t)
                        BY <1>4, <3>2
                        DEF CurrentDensities, SameSubWindow, OverlappingWindow, SubWindow
                  <4>2. \A i \in Ring : CurrentDensities(f, r, t)[i] \in 0 .. SlotsPerSubWindow
                        BY CurrentType
                  <4> QED
                        BY <1>7, <4>1, <4>2
            <3> QED
                  BY <1>5, <3>1, <3>2
      <2> QED
            BY <1>7, <1>11, <2>1, CurrentType, DensityMonotone, Windows
<1>15. /\ Projected(x, s) = IF gx = gs \/ s < GracePeriodEnd THEN mx
                            ELSE IF dx <= mx THEN dx ELSE mx
       /\ my = IF gx = gy \/ t < GracePeriodEnd THEN mx ELSE IF d0 <= mx THEN d0 ELSE mx
       /\ Projected(y, s) = IF gy = gs \/ s < GracePeriodEnd THEN my
                            ELSE IF dy <= my THEN dy ELSE my
      <2>1. /\ Projected(x, s) = MinDensity(mx, f, r, s)
            /\ Projected(y, s) = MinDensity(my, g, t, s)
            BY <1>1, <1>2, <1>3 DEF Projected
      <2>2. /\ SameSubWindow(r, s) <=> gx = gs
            /\ SameSubWindow(r, t) <=> gx = gy
            /\ SameSubWindow(t, s) <=> gy = gs
            BY <1>4 DEF SameSubWindow
      <2>3. \A m \in 0 .. SlotsPerWindow :
              /\ Min({dx, m}) = IF dx <= m THEN dx ELSE m
              /\ Min({dy, m}) = IF dy <= m THEN dy ELSE m
              /\ Min({d0, m}) = IF d0 <= m THEN d0 ELSE m
            BY <1>7, <1>12, MinMaxOfTwo
      <2> QED
            BY <1>3, <1>11, <2>1, <2>2, <2>3 DEF MinDensity
<1> QED
      BY <1>5, <1>7, <1>12, <1>13, <1>14, <1>15

-----------------------------------------------------------------------------
(* The inductive invariant                                                 *)

\* Every block has the state that update makes of its parent's, at a later slot.
Extends(b) ==
    /\ parent[b] \in DOMAIN states
    /\ states[parent[b]].slot < states[b].slot
    /\ states[b] = Update(states[parent[b]], parent[b], states[b].slot, states[b].last_vrf_output)

\* The tree of blocks grows from genesis by Consensus_state.update alone.
PosInv ==
    /\ TypeOK
    /\ IsFiniteSet(DOMAIN states)
    /\ states[GenesisHash] = Update(NegativeOne, NegativeOneHash, 0, 0)
    /\ \A b \in DOMAIN states : SoundState(states[b])
    /\ \A b \in DOMAIN states \ {GenesisHash} : Extends(b)

\* Slot 0 is in sub-window 0.
LEMMA FirstSubWindow == GlobalSubWindow(0) = 0 /\ SubWindow(0) = 0 /\ 0 % SlotsPerSubWindow = 0
<1>1. \A k \in Nat \ {0} : 0 \div k = 0 /\ 0 % k = 0
      OBVIOUS
<1> QED
      BY <1>1, Windows DEF GlobalSubWindow, SubWindow

\* The state before genesis, which has no block in its sub-window.
LEMMA NegativeOneType ==
    /\ NegativeOne \in ConsensusState
    /\ NegativeOne.slot = 0
    /\ NegativeOne.sub_window_densities[0] = 0
<1>1. SlotsPerWindow \in Nat /\ SlotsPerSubWindow \in Nat /\ 0 \in Ring /\ 0 \in Hashes
      BY Windows, OffersAssumption DEF Ring
<1>2. PICK f : f = [i \in Ring |-> IF i = 0 THEN 0 ELSE SlotsPerSubWindow]
      OBVIOUS
<1>3. f \in [Ring -> 0 .. SlotsPerSubWindow] /\ f[0] = 0
      BY <1>1, <1>2
<1>4. NegativeOne = [blockchain_length    |-> 0,
                     slot                 |-> 0,
                     min_window_density   |-> SlotsPerWindow,
                     sub_window_densities |-> f,
                     last_vrf_output      |-> 0,
                     staking_lock         |-> 0,
                     next_lock            |-> 0]
      BY <1>2 DEF NegativeOne, Ring, ZeroHash
<1> QED
      BY <1>1, <1>3, <1>4 DEF ConsensusState, Ring

\* The genesis state.
LEMMA GenesisSound == SoundState(Update(NegativeOne, NegativeOneHash, 0, 0))
<1>1. NegativeOneHash \in Hashes
      BY OffersAssumption DEF NegativeOneHash
<1>2. SameSubWindow(NegativeOne.slot, 0) =>
        NegativeOne.sub_window_densities[SubWindow(0)] <= 0 % SlotsPerSubWindow
      BY NegativeOneType, FirstSubWindow
<1> QED
      BY <1>1, <1>2, NegativeOneType, UpdateSound

LEMMA InitPosInv == Init => PosInv
<1> SUFFICES ASSUME Init PROVE PosInv
    OBVIOUS
<1>1. PICK g : g = Update(NegativeOne, NegativeOneHash, 0, 0)
      OBVIOUS
<1>2. /\ states = [h \in {GenesisHash} |-> g]
      /\ parent = [h \in {GenesisHash} |-> NegativeOneHash]
      BY <1>1 DEF Init
<1>3. SoundState(g)
      BY <1>1, GenesisSound
<1>4. TypeOK
      BY <1>2, <1>3, OffersAssumption DEF TypeOK, SoundState, GenesisHash, NegativeOneHash
<1>5. IsFiniteSet(DOMAIN states)
      BY <1>2, FS_Singleton
<1> QED
      BY <1>1, <1>2, <1>3, <1>4, <1>5 DEF PosInv

\* What a block on offer does to the tree.
LEMMA Produced ==
    ASSUME PosInv, NEW o \in Offers, Produce(o)
    PROVE  /\ o.hash \in Hashes /\ o.hash \notin DOMAIN states /\ o.hash # GenesisHash
           /\ o.parent \in DOMAIN states /\ o.slot \in Nat /\ o.vrf \in Nat
           /\ states[o.parent].slot < o.slot
           /\ DOMAIN states' = DOMAIN states \cup {o.hash}
           /\ \A h \in DOMAIN states : states'[h] = states[h] /\ parent'[h] = parent[h]
           /\ states'[o.hash] = Update(states[o.parent], o.parent, o.slot, o.vrf)
           /\ parent'[o.hash] = o.parent
           /\ parent' \in [DOMAIN states \cup {o.hash} -> Hashes]
           /\ states' = [h \in DOMAIN states \cup {o.hash} |-> states'[h]]
<1>1. /\ o.hash \in Hashes /\ o.parent \in Hashes /\ o.slot \in Nat /\ o.vrf \in Nat
      /\ o.hash > 2 /\ o.slot > 0
      BY OffersAssumption DEF Offer
<1>2. o.hash # GenesisHash
      BY <1>1, OffersAssumption DEF GenesisHash
<1>3. /\ o.hash \notin DOMAIN states /\ o.parent \in DOMAIN states
      /\ states[o.parent].slot < o.slot
      BY <1>1 DEF Produce, CanUpdate
<1>4. parent \in [DOMAIN states -> Hashes]
      BY DEF PosInv, TypeOK
<1>5. PICK y : y = Update(states[o.parent], o.parent, o.slot, o.vrf)
      OBVIOUS
<1>6. /\ states' = [h \in DOMAIN states \cup {o.hash} |-> IF h = o.hash THEN y ELSE states[h]]
      /\ parent' = [h \in DOMAIN states \cup {o.hash} |->
                       IF h = o.hash THEN o.parent ELSE parent[h]]
      BY <1>4, <1>5 DEF Produce
<1> QED
      BY <1>1, <1>2, <1>3, <1>4, <1>5, <1>6

LEMMA ProducePosInv ==
    ASSUME PosInv, NEW o \in Offers, Produce(o)
    PROVE  PosInv'
<1>1. PICK y, x, p : /\ p = o.parent /\ x = states[p]
                     /\ y = Update(x, p, o.slot, o.vrf)
      OBVIOUS
<1>2. /\ TypeOK /\ IsFiniteSet(DOMAIN states)
      /\ \A b \in DOMAIN states : SoundState(states[b])
      /\ \A b \in DOMAIN states \ {GenesisHash} : Extends(b)
      BY DEF PosInv
<1>3. p \in DOMAIN states /\ p \in Hashes /\ SoundState(x) /\ x \in ConsensusState
      BY <1>1, <1>2, Produced DEF TypeOK, SoundState
<1>4. x.slot \in Nat /\ o.slot \in Nat /\ o.vrf \in Nat /\ x.slot < o.slot
      BY <1>1, <1>3, Produced DEF ConsensusState
<1>5. SameSubWindow(x.slot, o.slot) =>
        x.sub_window_densities[SubWindow(o.slot)] <= o.slot % SlotsPerSubWindow
      <2> SUFFICES ASSUME SameSubWindow(x.slot, o.slot)
                   PROVE  x.sub_window_densities[SubWindow(o.slot)] <= o.slot % SlotsPerSubWindow
          OBVIOUS
      <2>1. PICK k \in Nat \ {0} : k = SlotsPerSubWindow
            BY Windows
      <2>2. PICK a \in Int, b \in Int : a = x.slot /\ b = o.slot
            BY <1>4
      <2>3. a < b /\ a <= b /\ a \div k = b \div k
            BY <1>4, <2>1, <2>2 DEF SameSubWindow, GlobalSubWindow
      <2>4. a % k < b % k
            BY <2>3, DivMonotone
      <2>5. PICK ra \in Int, rb \in Int : ra = a % k /\ rb = b % k
            <3>1. a % k \in 0 .. k - 1 /\ b % k \in 0 .. k - 1
                  BY DivMod
            <3> QED
                  BY <3>1
      <2>6. SubWindow(x.slot) = SubWindow(o.slot)
            BY DEF SameSubWindow, SubWindow
      <2>7. x.sub_window_densities[SubWindow(o.slot)] <= ra + 1
            BY <1>3, <2>1, <2>2, <2>5, <2>6 DEF SoundState
      <2>8. x.sub_window_densities[SubWindow(o.slot)] \in Nat
            <3>1. SubWindow(o.slot) \in Ring /\ SlotsPerSubWindow \in Nat
                  BY <1>4, Windows
            <3>2. x.sub_window_densities \in [Ring -> 0 .. SlotsPerSubWindow]
                  BY <1>3 DEF ConsensusState, Ring
            <3>3. x.sub_window_densities[SubWindow(o.slot)] \in 0 .. SlotsPerSubWindow
                  BY <3>1, <3>2
            <3> QED
                  BY <3>1, <3>3
      <2> QED
            BY <2>1, <2>2, <2>4, <2>5, <2>7, <2>8
<1>6. SoundState(y)
      BY <1>1, <1>3, <1>4, <1>5, UpdateSound
<1>7. y.slot = o.slot /\ y.last_vrf_output = o.vrf
      BY <1>1 DEF Update
<1>8. /\ o.hash \in Hashes /\ o.hash \notin DOMAIN states /\ o.hash # GenesisHash
      /\ DOMAIN states' = DOMAIN states \cup {o.hash}
      /\ \A h \in DOMAIN states : states'[h] = states[h] /\ parent'[h] = parent[h]
      /\ states'[o.hash] = y
      /\ parent'[o.hash] = p
      /\ parent' \in [DOMAIN states \cup {o.hash} -> Hashes]
      /\ states' = [h \in DOMAIN states \cup {o.hash} |-> states'[h]]
      BY <1>1, Produced
<1>9. \A b \in DOMAIN states' : SoundState(states'[b])
      BY <1>2, <1>6, <1>8
<1>10. TypeOK'
      <2>1. GenesisHash \in DOMAIN states /\ DOMAIN states \subseteq Hashes
            BY <1>2 DEF TypeOK
      <2>2. \A b \in DOMAIN states' : states'[b] \in ConsensusState
            BY <1>9 DEF SoundState
      <2>3. states' \in [DOMAIN states' -> ConsensusState]
            BY <1>8, <2>2
      <2> QED
            BY <1>8, <2>1, <2>3 DEF TypeOK
<1>11. IsFiniteSet(DOMAIN states')
      BY <1>2, <1>8, FS_AddElement
<1>12. states'[GenesisHash] = Update(NegativeOne, NegativeOneHash, 0, 0)
      BY <1>2, <1>8 DEF PosInv, TypeOK
<1>13. ASSUME NEW b \in DOMAIN states' \ {GenesisHash} PROVE Extends(b)'
      <2>1. CASE b = o.hash
            BY <1>1, <1>3, <1>4, <1>7, <1>8, <2>1 DEF Extends
      <2>2. CASE b # o.hash
            <3>1. b \in DOMAIN states \ {GenesisHash} /\ Extends(b)
                  BY <1>2, <1>8, <2>2
            <3> QED
                  BY <1>8, <3>1 DEF Extends
      <2> QED
            BY <2>1, <2>2
<1> QED
      BY <1>9, <1>10, <1>11, <1>12, <1>13 DEF PosInv

\* The invariant holds in every reachable tree of blocks.
THEOREM ProofOfStakeInvariant == Spec => []PosInv
<1>1. Init => PosInv
      BY InitPosInv
<1>2. PosInv /\ [Next]_vars => PosInv'
      <2> SUFFICES ASSUME PosInv, [Next]_vars PROVE PosInv'
          OBVIOUS
      <2>1. CASE Next
            BY <2>1, ProducePosInv DEF Next
      <2>2. CASE UNCHANGED vars
            BY <2>2 DEF vars, PosInv, TypeOK, Extends
      <2> QED
            BY <2>1, <2>2
<1> QED
      BY <1>1, <1>2, PTL DEF Spec

\* Consensus states stay in the types of their fields: in particular no density
\* outgrows the slots it counts.
THEOREM ProofOfStakeTypeOK == Spec => []TypeOK
<1>1. PosInv => TypeOK
      BY DEF PosInv
<1> QED
      BY <1>1, ProofOfStakeInvariant, PTL

-----------------------------------------------------------------------------
(* Select                                                                  *)

\* The fields of a state that select compares.
LEMMA StateFields ==
    ASSUME PosInv, NEW b \in DOMAIN states
    PROVE  /\ states[b] \in ConsensusState /\ b \in Nat
           /\ states[b].blockchain_length \in Nat /\ states[b].slot \in Nat
           /\ states[b].last_vrf_output \in Nat
           /\ states[b].min_window_density \in Int
           /\ \A s : Projected(states[b], s) \in Int
<1>1. PICK x : x = states[b]
      OBVIOUS
<1>2. x \in ConsensusState /\ b \in Nat
      BY <1>1, OffersAssumption DEF PosInv, TypeOK
<1>3. /\ x.blockchain_length \in Nat /\ x.slot \in Nat /\ x.last_vrf_output \in Nat
      /\ x.min_window_density \in 0 .. SlotsPerWindow
      /\ x.sub_window_densities \in [Ring -> 0 .. SlotsPerSubWindow]
      BY <1>2 DEF ConsensusState, Ring
<1>4. SlotsPerWindow \in Nat
      BY Windows
<1>5. ASSUME NEW s PROVE Projected(x, s) \in 0 .. SlotsPerWindow
      BY <1>3, MinDensityType DEF Projected
<1> QED
      BY <1>1, <1>2, <1>3, <1>4, <1>5

\* With the hash as the last resort, of two chains exactly one is longer.
LEMMA LongerIsDecisive ==
    ASSUME PosInv, NEW a \in DOMAIN states, NEW b \in DOMAIN states, a # b
    PROVE  BlockchainLengthIsLonger(a, b) <=> ~ BlockchainLengthIsLonger(b, a)
<1>1. /\ a \in Nat /\ states[a].blockchain_length \in Nat /\ states[a].last_vrf_output \in Nat
      /\ b \in Nat /\ states[b].blockchain_length \in Nat /\ states[b].last_vrf_output \in Nat
      BY StateFields
<1>2. CandidateVrfIsBigger(a, b) <=> ~ CandidateVrfIsBigger(b, a)
      BY <1>1 DEF CandidateVrfIsBigger, LessThanOrEqualWhen
<1> QED
      BY <1>1, <1>2 DEF BlockchainLengthIsLonger, LessThanOrEqualWhen

\* The virtual minimum density of a state at a slot.
LEMMA VirtualIsProjected ==
    ASSUME NEW x, NEW s
    PROVE  VirtualMinWindowDensity(x, s) = Projected(x, s)
<1>1. SameSubWindow(s, s)
      BY DEF SameSubWindow
<1> QED
      BY <1>1 DEF VirtualMinWindowDensity, Projected, MinDensity

LEMMA DecisiveInv == PosInv => SelectIsDecisive
<1> SUFFICES ASSUME PosInv, NEW a \in DOMAIN states, NEW b \in DOMAIN states, a # b
             PROVE  Select(a, b) <=> ~ Select(b, a)
    BY DEF SelectIsDecisive
<1>1. IsShortRange(states[a], states[b]) <=> IsShortRange(states[b], states[a])
      BY DEF IsShortRange
<1>2. BlockchainLengthIsLonger(a, b) <=> ~ BlockchainLengthIsLonger(b, a)
      BY LongerIsDecisive
<1>3. PICK m : m = Max({states[a].slot, states[b].slot})
      OBVIOUS
<1>4. m = Max({states[b].slot, states[a].slot})
      <2>1. {states[a].slot, states[b].slot} = {states[b].slot, states[a].slot}
            OBVIOUS
      <2> QED
            BY <1>3, <2>1
<1>5. PICK va \in Int, vb \in Int : /\ va = VirtualMinWindowDensity(states[a], m)
                                    /\ vb = VirtualMinWindowDensity(states[b], m)
      BY StateFields, VirtualIsProjected
<1>6. /\ LongForkChainQualityIsBetter(a, b) <=>
           va < vb \/ (va = vb /\ BlockchainLengthIsLonger(a, b))
      /\ LongForkChainQualityIsBetter(b, a) <=>
           vb < va \/ (vb = va /\ BlockchainLengthIsLonger(b, a))
      BY <1>3, <1>4, <1>5 DEF LongForkChainQualityIsBetter, LessThanOrEqualWhen
<1>7. LongForkChainQualityIsBetter(a, b) <=> ~ LongForkChainQualityIsBetter(b, a)
      BY <1>2, <1>5, <1>6
<1> QED
      BY <1>1, <1>2, <1>7 DEF Select

\* Of two different chains select prefers exactly one, whichever of them the node
\* saw first, for every choice of the consensus constants.
THEOREM SelectAlwaysDecisive == Spec => []SelectIsDecisive
BY DecisiveInv, ProofOfStakeInvariant, PTL

\* A chain is in every set that holds its last block and, with a block, its parent.
LEMMA ChainWithin ==
    ASSUME NEW b \in DOMAIN states, NEW S \in SUBSET DOMAIN states, b \in S,
           \A x \in S \ {GenesisHash} : parent[x] \in S
    PROVE  Chain(b) \subseteq S
BY DEF Chain

\* a is b, or is behind b in length, in slot and in every projected density.
Behind(a, b) ==
    \/ a = b
    \/ /\ states[a].blockchain_length < states[b].blockchain_length
       /\ states[a].slot < states[b].slot
       /\ \A s \in Nat : s >= states[b].slot => Projected(states[a], s) <= Projected(states[b], s)

\* What a block is built on is behind it.
LEMMA ParentBehind ==
    ASSUME PosInv, NEW b \in DOMAIN states \ {GenesisHash}
    PROVE  /\ parent[b] \in DOMAIN states
           /\ states[b].blockchain_length = states[parent[b]].blockchain_length + 1
           /\ states[parent[b]].slot < states[b].slot
           /\ \A s \in Nat : s >= states[b].slot =>
                Projected(states[parent[b]], s) <= Projected(states[b], s)
<1>1. PICK p, x, y : p = parent[b] /\ x = states[p] /\ y = states[b]
      OBVIOUS
<1>2. p \in DOMAIN states /\ x.slot < y.slot /\ y = Update(x, p, y.slot, y.last_vrf_output)
      BY <1>1 DEF PosInv, Extends
<1>3. x \in ConsensusState /\ y \in ConsensusState /\ x.slot \in Nat /\ y.slot \in Nat
      BY <1>1, <1>2, StateFields
<1>4. y.blockchain_length = x.blockchain_length + 1
      <2>1. \A sl, v : Update(x, p, sl, v).blockchain_length = x.blockchain_length + 1
            BY DEF Update
      <2> QED
            BY <1>2, <2>1
<1>5. ASSUME NEW s \in Nat, s >= y.slot PROVE Projected(x, s) <= Projected(y, s)
      <2>1. PICK t \in Nat, v \in {y.last_vrf_output} : t = y.slot /\ v = y.last_vrf_output
            BY <1>3
      <2>2. x.slot < t /\ t <= s /\ y = Update(x, p, t, v)
            BY <1>2, <1>3, <1>5, <2>1
      <2> QED
            BY <1>3, <2>2, ChildProjects
<1> QED
      BY <1>1, <1>2, <1>4, <1>5

\* Every block of a chain is behind its last.
LEMMA ChainBehind ==
    ASSUME PosInv, NEW b \in DOMAIN states, NEW a \in Chain(b)
    PROVE  a \in DOMAIN states /\ Behind(a, b)
<1>1. PICK S : S = {x \in DOMAIN states : Behind(x, b)}
      OBVIOUS
<1>2. b \in S
      BY <1>1 DEF Behind
<1>3. ASSUME NEW x \in S \ {GenesisHash} PROVE parent[x] \in S
      <2>1. x \in DOMAIN states \ {GenesisHash} /\ Behind(x, b)
            BY <1>1
      <2>2. PICK p : p = parent[x]
            OBVIOUS
      <2>3. /\ p \in DOMAIN states
            /\ states[x].blockchain_length = states[p].blockchain_length + 1
            /\ states[p].slot < states[x].slot
            /\ \A s \in Nat : s >= states[x].slot =>
                 Projected(states[p], s) <= Projected(states[x], s)
            BY <2>1, <2>2, ParentBehind
      <2>4. /\ states[p].blockchain_length \in Nat /\ states[p].slot \in Nat
            /\ states[x].blockchain_length \in Nat /\ states[x].slot \in Nat
            /\ states[b].blockchain_length \in Nat /\ states[b].slot \in Nat
            BY <2>1, <2>3, StateFields
      <2>5. CASE x = b
            BY <1>1, <2>2, <2>3, <2>4, <2>5 DEF Behind
      <2>6. CASE x # b
            <3>1. /\ states[x].blockchain_length < states[b].blockchain_length
                  /\ states[x].slot < states[b].slot
                  /\ \A s \in Nat : s >= states[b].slot =>
                       Projected(states[x], s) <= Projected(states[b], s)
                  BY <2>1, <2>6 DEF Behind
            <3>2. ASSUME NEW s \in Nat, s >= states[b].slot
                  PROVE  Projected(states[p], s) <= Projected(states[b], s)
                  <4>1. s >= states[x].slot
                        BY <2>4, <3>1, <3>2
                  <4>2. /\ Projected(states[p], s) <= Projected(states[x], s)
                        /\ Projected(states[x], s) <= Projected(states[b], s)
                        BY <2>3, <3>1, <3>2, <4>1
                  <4>3. /\ Projected(states[p], s) \in Int
                        /\ Projected(states[x], s) \in Int
                        /\ Projected(states[b], s) \in Int
                        BY <2>1, <2>3, StateFields
                  <4> QED
                        BY <4>2, <4>3
            <3> QED
                  BY <1>1, <2>2, <2>3, <2>4, <3>1, <3>2 DEF Behind
      <2> QED
            BY <2>5, <2>6
<1>4. Chain(b) \subseteq S
      BY <1>1, <1>2, <1>3, ChainWithin
<1> QED
      BY <1>1, <1>4

LEMMA DescendantInv == PosInv => DescendantWins
<1> SUFFICES ASSUME PosInv, NEW b \in DOMAIN states, NEW a \in Chain(b) \ {b}
             PROVE  Select(a, b) /\ ~ Select(b, a)
    BY DEF DescendantWins
<1>1. /\ a \in DOMAIN states
      /\ states[a].blockchain_length < states[b].blockchain_length
      /\ states[a].slot < states[b].slot
      /\ \A s \in Nat : s >= states[b].slot => Projected(states[a], s) <= Projected(states[b], s)
      BY ChainBehind DEF Behind
<1>2. /\ states[a].blockchain_length \in Nat /\ states[a].slot \in Nat
      /\ states[b].blockchain_length \in Nat /\ states[b].slot \in Nat
      BY <1>1, StateFields
<1>3. BlockchainLengthIsLonger(a, b)
      BY <1>1, <1>2 DEF BlockchainLengthIsLonger, LessThanOrEqualWhen
<1>4. Max({states[a].slot, states[b].slot}) = states[b].slot
      BY <1>1, <1>2, MinMaxOfTwo
<1>5. PICK va \in Int, vb \in Int : /\ va = VirtualMinWindowDensity(states[a], states[b].slot)
                                    /\ vb = VirtualMinWindowDensity(states[b], states[b].slot)
      BY <1>1, StateFields, VirtualIsProjected
<1>6. va <= vb
      <2>1. Projected(states[a], states[b].slot) <= Projected(states[b], states[b].slot)
            BY <1>1, <1>2
      <2> QED
            BY <1>5, <2>1, VirtualIsProjected
<1>7. LongForkChainQualityIsBetter(a, b)
      BY <1>3, <1>4, <1>5, <1>6 DEF LongForkChainQualityIsBetter, LessThanOrEqualWhen
<1>8. Select(a, b)
      BY <1>3, <1>7 DEF Select
<1> QED
      BY <1>1, <1>8, DecisiveInv DEF SelectIsDecisive

\* A chain is preferred to every part of itself, in the short and in the long
\* range: a block that extends what a node follows is never refused by select.
THEOREM DescendantAlwaysWins == Spec => []DescendantWins
BY DescendantInv, ProofOfStakeInvariant, PTL

-----------------------------------------------------------------------------
(* What the densities count                                                *)

\* The chain of a block is the block and the chain of its parent.
LEMMA ChainUnfold ==
    ASSUME PosInv
    PROVE  /\ Chain(GenesisHash) = {GenesisHash}
           /\ \A b \in DOMAIN states \ {GenesisHash} :
                /\ Chain(b) = {b} \cup Chain(parent[b])
                /\ b \notin Chain(parent[b])
<1>1. GenesisHash \in DOMAIN states
      BY DEF PosInv, TypeOK
<1>2. \A b \in DOMAIN states : b \in Chain(b) /\ Chain(b) \subseteq DOMAIN states
      BY DEF Chain
<1>3. Chain(GenesisHash) = {GenesisHash}
      <2>1. Chain(GenesisHash) \subseteq {GenesisHash}
            BY <1>1, ChainWithin
      <2> QED
            BY <1>1, <1>2, <2>1
<1>4. ASSUME NEW b \in DOMAIN states \ {GenesisHash}
      PROVE  Chain(b) = {b} \cup Chain(parent[b]) /\ b \notin Chain(parent[b])
      <2>1. PICK p \in DOMAIN states : p = parent[b]
            BY ParentBehind
      <2>2. Chain(p) \subseteq Chain(b)
            BY <2>1 DEF Chain
      <2>3. ASSUME NEW x \in Chain(p) \ {GenesisHash} PROVE parent[x] \in Chain(p)
            <3>1. parent[x] \in DOMAIN states
                  BY <1>2, ParentBehind
            <3>2. ASSUME NEW S \in SUBSET DOMAIN states, p \in S,
                         \A y \in S \ {GenesisHash} : parent[y] \in S
                  PROVE  parent[x] \in S
                  <4>1. x \in S
                        BY <3>2, ChainWithin
                  <4> QED
                        BY <3>2, <4>1
            <3> QED
                  BY <3>1, <3>2 DEF Chain
      <2>4. PICK S : S = {b} \cup Chain(p)
            OBVIOUS
      <2>5. Chain(b) \subseteq S
            <3>1. S \in SUBSET DOMAIN states /\ b \in S
                  BY <1>2, <2>4
            <3>2. \A x \in S \ {GenesisHash} : parent[x] \in S
                  BY <1>2, <2>1, <2>3, <2>4
            <3> QED
                  BY <3>1, <3>2, ChainWithin
      <2>6. b \notin Chain(p)
            <3>1. b \in Chain(p) => states[b].slot <= states[p].slot
                  <4>1. states[b].slot \in Nat /\ states[p].slot \in Nat
                        BY StateFields
                  <4> QED
                        BY <4>1, ChainBehind DEF Behind
            <3>2. states[p].slot < states[b].slot
                  BY <2>1, ParentBehind
            <3>3. states[b].slot \in Nat /\ states[p].slot \in Nat
                  BY StateFields
            <3> QED
                  BY <3>1, <3>2, <3>3
      <2> QED
            BY <1>2, <2>1, <2>2, <2>4, <2>5, <2>6
<1> QED
      BY <1>3, <1>4

\* The sub-windows of a block and of its parent, and what is in them.
LEMMA ParentWindow ==
    ASSUME PosInv, NEW b \in DOMAIN states \ {GenesisHash}, NEW p, p = parent[b]
    PROVE  /\ p \in DOMAIN states
           /\ states[p].slot \in Nat /\ states[b].slot \in Nat
           /\ GlobalSubWindow(states[p].slot) \in Nat /\ GlobalSubWindow(states[b].slot) \in Nat
           /\ GlobalSubWindow(states[p].slot) <= GlobalSubWindow(states[b].slot)
           /\ states[p].sub_window_densities \in [Ring -> 0 .. SlotsPerSubWindow]
           /\ states[p].min_window_density \in 0 .. SlotsPerWindow
           /\ states[b].sub_window_densities =
                NextDensities(states[p].sub_window_densities, states[p].slot, states[b].slot)
           /\ states[b].min_window_density =
                MinDensity(states[p].min_window_density, states[p].sub_window_densities,
                           states[p].slot, states[b].slot)
<1>1. PICK x, y : x = states[p] /\ y = states[b]
      OBVIOUS
<1>2. p \in DOMAIN states /\ x.slot < y.slot /\ y = Update(x, p, y.slot, y.last_vrf_output)
      BY <1>1 DEF PosInv, Extends
<1>3. x \in ConsensusState /\ x.slot \in Nat /\ y.slot \in Nat
      BY <1>1, <1>2, StateFields
<1>4. /\ x.sub_window_densities \in [Ring -> 0 .. SlotsPerSubWindow]
      /\ x.min_window_density \in 0 .. SlotsPerWindow
      BY <1>3 DEF ConsensusState, Ring
<1>5. GlobalSubWindow(x.slot) <= GlobalSubWindow(y.slot)
      <2>1. PICK k \in Nat \ {0}, r \in Int, t \in Int :
              k = SlotsPerSubWindow /\ r = x.slot /\ t = y.slot
            BY <1>3, Windows
      <2>2. r <= t
            BY <1>2, <2>1
      <2>3. r \div k <= t \div k
            BY <2>2, DivMonotone
      <2> QED
            BY <2>1, <2>3 DEF GlobalSubWindow
<1>6. GlobalSubWindow(x.slot) \in Nat /\ GlobalSubWindow(y.slot) \in Nat
      BY <1>3, Windows
<1>7. PICK t, v : t = y.slot /\ v = y.last_vrf_output
      OBVIOUS
<1>8. y = Update(x, p, t, v)
      BY <1>2, <1>7
<1>9. /\ y.sub_window_densities = NextDensities(x.sub_window_densities, x.slot, t)
      /\ y.min_window_density =
           MinDensity(x.min_window_density, x.sub_window_densities, x.slot, t)
      BY <1>8 DEF Update
<1> QED
      BY <1>1, <1>2, <1>3, <1>4, <1>5, <1>6, <1>7, <1>9

\* A block adds itself to its sub-window, which is the last of its chain.
LEMMA BlocksInStep ==
    ASSUME PosInv, NEW b \in DOMAIN states \ {GenesisHash}, NEW p, p = parent[b], NEW w \in Int
    PROVE  /\ BlocksIn(Chain(p), w) \in Nat
           /\ w # GlobalSubWindow(states[b].slot) => BlocksIn(Chain(b), w) = BlocksIn(Chain(p), w)
           /\ w = GlobalSubWindow(states[b].slot) =>
                BlocksIn(Chain(b), w) = BlocksIn(Chain(p), w) + 1
           /\ w > GlobalSubWindow(states[p].slot) => BlocksIn(Chain(p), w) = 0
<1>1. /\ p \in DOMAIN states
      /\ GlobalSubWindow(states[p].slot) \in Nat /\ GlobalSubWindow(states[b].slot) \in Nat
      BY ParentWindow
<1>2. Chain(b) = {b} \cup Chain(p) /\ b \notin Chain(p)
      BY ChainUnfold
<1>3. PICK A, B : /\ A = {a \in Chain(p) : GlobalSubWindow(states[a].slot) = w}
                  /\ B = {a \in Chain(b) : GlobalSubWindow(states[a].slot) = w}
      OBVIOUS
<1>4. IsFiniteSet(A) /\ Cardinality(A) \in Nat
      <2>1. A \in SUBSET DOMAIN states
            BY <1>3 DEF Chain
      <2> QED
            BY <2>1, FS_Subset, FS_CardinalityType DEF PosInv
<1>5. B = IF w = GlobalSubWindow(states[b].slot) THEN A \cup {b} ELSE A
      BY <1>2, <1>3
<1>6. b \notin A
      BY <1>2, <1>3
<1>7. Cardinality(A \cup {b}) = Cardinality(A) + 1
      BY <1>4, <1>6, FS_AddElement
<1>8. w > GlobalSubWindow(states[p].slot) => A = {}
      <2> SUFFICES ASSUME w > GlobalSubWindow(states[p].slot), NEW a \in A PROVE FALSE
          OBVIOUS
      <2>1. a \in DOMAIN states /\ Behind(a, p) /\ GlobalSubWindow(states[a].slot) = w
            BY <1>1, <1>3, ChainBehind
      <2>2. PICK k \in Nat \ {0}, r \in Int, t \in Int :
              k = SlotsPerSubWindow /\ r = states[a].slot /\ t = states[p].slot
            BY <1>1, <2>1, StateFields, Windows
      <2>3. r <= t
            BY <2>1, <2>2 DEF Behind
      <2>4. r \div k <= t \div k
            BY <2>3, DivMonotone
      <2>5. w <= GlobalSubWindow(states[p].slot)
            BY <2>1, <2>2, <2>4 DEF GlobalSubWindow
      <2> QED
            BY <1>1, <2>5
<1>9. /\ BlocksIn(Chain(p), w) = IF w < 0 THEN SlotsPerSubWindow ELSE Cardinality(A)
      /\ BlocksIn(Chain(b), w) = IF w < 0 THEN SlotsPerSubWindow ELSE Cardinality(B)
      BY <1>3 DEF BlocksIn
<1>10. SlotsPerSubWindow \in Nat /\ Cardinality({}) = 0
      BY Windows, FS_EmptySet
<1> QED
      BY <1>1, <1>4, <1>5, <1>7, <1>8, <1>9, <1>10

\* The densities of a block count the blocks of its chain.
CountsBlocks(b) ==
    \A w \in Window(GlobalSubWindow(states[b].slot)) :
        states[b].sub_window_densities[w % SubWindowsPerWindow] = BlocksIn(Chain(b), w)

LEMMA GenesisCounts ==
    ASSUME PosInv
    PROVE  CountsBlocks(GenesisHash)
<1>1. PICK f : f = NegativeOne.sub_window_densities
      OBVIOUS
<1>2. /\ states[GenesisHash].slot = 0
      /\ states[GenesisHash].sub_window_densities = NextDensities(f, 0, 0)
      BY <1>1, NegativeOneType DEF PosInv, Update
<1>3. /\ f \in [Ring -> 0 .. SlotsPerSubWindow] /\ f[0] = 0
      /\ \A i \in Ring : i # 0 => f[i] = SlotsPerSubWindow
      BY <1>1, NegativeOneType DEF ConsensusState, NegativeOne, Ring
<1>4. PICK n \in Nat \ {0} : n = SubWindowsPerWindow
      BY Windows
<1>5. 0 \in Ring
      BY <1>4 DEF Ring
<1>6. SameSubWindow(0, 0)
      BY DEF SameSubWindow
<1>7. \A i \in Ring : NextDensities(f, 0, 0)[i] = IF i # 0 THEN f[i] ELSE f[i] + 1
      <2>1. \A i \in Ring : CurrentDensities(f, 0, 0)[i] = f[i]
            BY <1>3, <1>6 DEF CurrentDensities
      <2> QED
            BY <1>3, <1>6, <2>1, NextAt, FirstSubWindow
<1>8. ASSUME NEW w \in Window(GlobalSubWindow(states[GenesisHash].slot))
      PROVE  states[GenesisHash].sub_window_densities[w % SubWindowsPerWindow] =
               BlocksIn(Chain(GenesisHash), w)
      <2>1. w \in Int /\ 0 - n < w /\ w <= 0
            <3>1. w \in (0 - n + 1) .. 0
                  BY <1>2, <1>4, <1>8, FirstSubWindow DEF Window
            <3> QED
                  BY <1>4, <3>1
      <2>2. PICK i \in Ring : i = w % n
            <3>1. w % n \in 0 .. n - 1
                  BY <2>1, DivMod
            <3> QED
                  BY <1>4, <3>1 DEF Ring
      <2>3. CASE w = 0
            <3>1. i = 0
                  BY <2>2, <2>3
            <3>2. {a \in {GenesisHash} : GlobalSubWindow(states[a].slot) = w} = {GenesisHash}
                  BY <1>2, <2>3, FirstSubWindow
            <3>3. Cardinality({GenesisHash}) = 1
                  BY FS_Singleton
            <3>4. BlocksIn(Chain(GenesisHash), w) = 1
                  <4>1. BlocksIn(Chain(GenesisHash), w) = BlocksIn({GenesisHash}, w)
                        BY ChainUnfold
                  <4> QED
                        BY <2>3, <3>2, <3>3, <4>1 DEF BlocksIn
            <3> QED
                  BY <1>2, <1>3, <1>4, <1>5, <1>7, <2>2, <3>1, <3>4
      <2>4. CASE w < 0
            <3>1. w % n # 0 % n
                  <4>1. 0 < w + n /\ 0 \in Int
                        BY <2>1
                  <4> QED
                        BY <2>1, <2>4, <4>1, ModInjective
            <3>2. i # 0
                  BY <2>2, <3>1
            <3>3. BlocksIn(Chain(GenesisHash), w) = SlotsPerSubWindow
                  BY <2>4 DEF BlocksIn
            <3> QED
                  BY <1>2, <1>3, <1>4, <1>7, <2>2, <3>2, <3>3
      <2> QED
            BY <2>1, <2>3, <2>4
<1> QED
      BY <1>8 DEF CountsBlocks

\* The window before a new sub-window, as the densities project it, is what the
\* chain has in it.
LEMMA CurrentCounts ==
    ASSUME PosInv, NEW b \in DOMAIN states \ {GenesisHash}, NEW p, p = parent[b],
           CountsBlocks(p),
           GlobalSubWindow(states[p].slot) < GlobalSubWindow(states[b].slot),
           NEW w \in (GlobalSubWindow(states[b].slot) - SubWindowsPerWindow) ..
                       (GlobalSubWindow(states[b].slot) - 1)
    PROVE  CurrentDensities(states[p].sub_window_densities, states[p].slot, states[b].slot)
             [w % SubWindowsPerWindow] = BlocksIn(Chain(b), w)
<1>1. PICK r \in Nat, t \in Nat, f \in [Ring -> 0 .. SlotsPerSubWindow] :
        r = states[p].slot /\ t = states[b].slot /\ f = states[p].sub_window_densities
      BY ParentWindow
<1>2. PICK gp \in Nat, gb \in Nat : gp = GlobalSubWindow(r) /\ gb = GlobalSubWindow(t)
      BY Windows
<1>3. PICK n \in Nat \ {0} : n = SubWindowsPerWindow
      BY Windows
<1>4. gp < gb /\ w \in Int /\ gb - n <= w /\ w < gb
      <2>1. w \in (gb - n) .. (gb - 1)
            BY <1>1, <1>2, <1>3
      <2> QED
            BY <1>1, <1>2, <2>1
<1>5. CurrentDensities(f, r, t)[w % SubWindowsPerWindow] =
        IF w <= gp THEN f[w % SubWindowsPerWindow] ELSE 0
      <2>1. w \in (GlobalSubWindow(t) - SubWindowsPerWindow) .. (GlobalSubWindow(t) - 1)
            BY <1>1
      <2> QED
            BY <1>2, <1>4, <2>1, CurrentAt
<1>6. BlocksIn(Chain(b), w) = BlocksIn(Chain(p), w) /\ (w > gp => BlocksIn(Chain(p), w) = 0)
      BY <1>1, <1>2, <1>4, BlocksInStep
<1>7. w <= gp => f[w % SubWindowsPerWindow] = BlocksIn(Chain(p), w)
      <2>1. w <= gp => w \in Window(gp)
            BY <1>3, <1>4 DEF Window
      <2> QED
            BY <1>1, <1>2, <2>1 DEF CountsBlocks
<1> QED
      BY <1>1, <1>4, <1>5, <1>6, <1>7

LEMMA ChildCounts ==
    ASSUME PosInv, NEW b \in DOMAIN states \ {GenesisHash}, CountsBlocks(parent[b])
    PROVE  CountsBlocks(b)
<1>1. PICK p : p = parent[b]
      OBVIOUS
<1>2. PICK r \in Nat, t \in Nat, f \in [Ring -> 0 .. SlotsPerSubWindow] :
        r = states[p].slot /\ t = states[b].slot /\ f = states[p].sub_window_densities
      BY <1>1, ParentWindow
<1>3. PICK gp \in Nat, gb \in Nat : gp = GlobalSubWindow(r) /\ gb = GlobalSubWindow(t)
      BY Windows
<1>4. gp <= gb /\ states[b].sub_window_densities = NextDensities(f, r, t)
      BY <1>1, <1>2, <1>3, ParentWindow
<1>5. PICK n \in Nat \ {0} : n = SubWindowsPerWindow
      BY Windows
<1>6. ASSUME NEW w \in Window(gb)
      PROVE  NextDensities(f, r, t)[w % SubWindowsPerWindow] = BlocksIn(Chain(b), w)
      <2>1. w \in Int /\ gb - n < w /\ w <= gb
            <3>1. w \in (gb - n + 1) .. gb
                  BY <1>5, <1>6 DEF Window
            <3> QED
                  BY <1>5, <3>1
      <2>2. PICK i \in Ring : i = w % n
            <3>1. w % n \in 0 .. n - 1
                  BY <2>1, DivMod
            <3> QED
                  BY <1>5, <3>1 DEF Ring
      <2>3. NextDensities(f, r, t)[i] =
              IF i # SubWindow(t) THEN CurrentDensities(f, r, t)[i]
              ELSE IF SameSubWindow(r, t) THEN f[i] + 1 ELSE 1
            BY NextAt
      <2>4. /\ BlocksIn(Chain(p), w) \in Nat
            /\ w # gb => BlocksIn(Chain(b), w) = BlocksIn(Chain(p), w)
            /\ w = gb => BlocksIn(Chain(b), w) = BlocksIn(Chain(p), w) + 1
            /\ w > gp => BlocksIn(Chain(p), w) = 0
            BY <1>1, <1>2, <1>3, <2>1, BlocksInStep
      <2>5. SameSubWindow(r, t) <=> gp = gb
            BY <1>3 DEF SameSubWindow
      <2>6. i = SubWindow(t) <=> w = gb
            <3>1. SubWindow(t) = gb % n
                  BY <1>3, <1>5 DEF SubWindow
            <3>2. ASSUME w # gb PROVE w % n # gb % n
                  <4>1. w < gb /\ gb < w + n /\ gb \in Int
                        BY <2>1, <3>2
                  <4> QED
                        BY <2>1, <4>1, ModInjective
            <3> QED
                  BY <2>2, <3>1, <3>2
      <2>7. CASE gp = gb
            <3>1. f[i] = BlocksIn(Chain(p), w)
                  BY <1>1, <1>2, <1>3, <1>5, <2>2, <2>7 DEF CountsBlocks
            <3>2. CurrentDensities(f, r, t)[i] = f[i]
                  BY <2>5, <2>7 DEF CurrentDensities
            <3> QED
                  BY <1>5, <2>2, <2>3, <2>4, <2>5, <2>6, <2>7, <3>1, <3>2
      <2>8. CASE gp < gb /\ w = gb
            BY <1>5, <2>2, <2>3, <2>4, <2>5, <2>6, <2>8
      <2>9. CASE gp < gb /\ w < gb
            <3>1. w \in (gb - n) .. (gb - 1)
                  BY <2>1, <2>9
            <3>2. CurrentDensities(f, r, t)[w % SubWindowsPerWindow] = BlocksIn(Chain(b), w)
                  BY <1>1, <1>2, <1>3, <1>5, <2>9, <3>1, CurrentCounts
            <3> QED
                  BY <1>5, <2>2, <2>3, <2>6, <2>9, <3>2
      <2> QED
            BY <1>4, <2>1, <2>7, <2>8, <2>9
<1> QED
      BY <1>2, <1>3, <1>4, <1>6 DEF CountsBlocks

LEMMA CountInv == PosInv => DensitiesCountBlocks
<1> SUFFICES ASSUME PosInv PROVE \A b \in DOMAIN states : CountsBlocks(b)
    BY DEF DensitiesCountBlocks, CountsBlocks
<1>1. PICK Bad : Bad = {b \in DOMAIN states : ~ CountsBlocks(b)}
      OBVIOUS
<1>2. PICK T : T = {states[b].blockchain_length : b \in Bad}
      OBVIOUS
<1>3. ASSUME Bad # {} PROVE FALSE
      <2>1. T \in SUBSET Nat /\ T # {}
            BY <1>1, <1>2, <1>3, StateFields
      <2>2. PICK x \in T : \A y \in T : x <= y
            BY <2>1, LeastNatural
      <2>3. PICK b \in Bad : x = states[b].blockchain_length
            BY <1>2
      <2>4. b \in DOMAIN states \ {GenesisHash}
            BY <1>1, GenesisCounts
      <2>5. /\ parent[b] \in DOMAIN states
            /\ states[b].blockchain_length = states[parent[b]].blockchain_length + 1
            BY <2>4, ParentBehind
      <2>6. states[parent[b]].blockchain_length \in Nat
            BY <2>5, StateFields
      <2>7. parent[b] \notin Bad
            <3>1. parent[b] \in Bad => states[parent[b]].blockchain_length \in T
                  BY <1>2
            <3>2. PICK l \in Nat : l = states[parent[b]].blockchain_length
                  BY <2>6
            <3>3. x = l + 1
                  BY <2>3, <2>5, <3>2
            <3>4. l \notin T
                  BY <2>2, <3>3
            <3> QED
                  BY <3>1, <3>2, <3>4
      <2>8. CountsBlocks(b)
            BY <1>1, <2>4, <2>5, <2>7, ChildCounts
      <2> QED
            BY <1>1, <2>8
<1> QED
      BY <1>1, <1>3

\* The ring of densities is, for every size of the window and every slot a chain
\* skips, the number of its blocks in each of the last sub-windows.
THEOREM DensitiesAlwaysCount == Spec => []DensitiesCountBlocks
BY CountInv, ProofOfStakeInvariant, PTL

-----------------------------------------------------------------------------
(* The minimum window density                                              *)

\* h gives the sub-windows of d other names, under which c has the same densities.
Renames(h, d, c) ==
    /\ h \in [DOMAIN d -> DOMAIN c]
    /\ \A w \in DOMAIN d : d[w] = c[h[w]]
    /\ \A v, w \in DOMAIN d : h[v] = h[w] => v = w
    /\ \A i \in DOMAIN c : \E w \in DOMAIN d : h[w] = i

\* A window is as dense under other names for its sub-windows.
LEMMA Renamed ==
    ASSUME NEW h, NEW d, NEW c, Renames(h, d, c), IsFiniteSet(Cells(c))
    PROVE  WindowDensity(d) = WindowDensity(c)
<1>0. PICK W, R :
        /\ W = DOMAIN d /\ R = DOMAIN c /\ h \in [W -> R]
        /\ \A w \in W : d[w] = c[h[w]]
        /\ \A v, w \in W : h[v] = h[w] => v = w
        /\ \A i \in R : \E w \in W : h[w] = i
      BY DEF Renames
<1>1. \A x : x \in Cells(d) <=> \E i \in W : \E j \in 1 .. d[i] : x = <<i, j>>
      BY <1>0 DEF Cells
<1>2. \A x : x \in Cells(c) <=> \E i \in R : \E j \in 1 .. c[i] : x = <<i, j>>
      BY <1>0 DEF Cells
<1>3. PICK phi : phi = [x \in Cells(d) |-> <<h[x[1]], x[2]>>]
      OBVIOUS
<1>4. ASSUME NEW w \in W, NEW j \in 1 .. d[w]
      PROVE  <<w, j>> \in Cells(d) /\ phi[<<w, j>>] = <<h[w], j>> /\ <<h[w], j>> \in Cells(c)
      <2>1. <<w, j>> \in Cells(d)
            BY <1>1
      <2>2. j \in 1 .. c[h[w]] /\ h[w] \in R
            BY <1>0
      <2> QED
            BY <1>2, <1>3, <2>1, <2>2
<1>5. phi \in [Cells(d) -> Cells(c)]
      <2>1. ASSUME NEW x \in Cells(d) PROVE <<h[x[1]], x[2]>> \in Cells(c)
            <3>1. PICK w \in W : \E j \in 1 .. d[w] : x = <<w, j>>
                  BY <1>1
            <3>2. PICK j \in 1 .. d[w] : x = <<w, j>>
                  BY <3>1
            <3>3. <<h[w], j>> \in Cells(c)
                  BY <1>4
            <3> QED
                  BY <3>2, <3>3
      <2> QED
            BY <1>3, <2>1
<1>6. ASSUME NEW x \in Cells(d), NEW y \in Cells(d), phi[x] = phi[y] PROVE x = y
      <2>1. PICK w \in W : \E j \in 1 .. d[w] : x = <<w, j>>
            BY <1>1
      <2>2. PICK j \in 1 .. d[w] : x = <<w, j>>
            BY <2>1
      <2>3. PICK v \in W : \E k \in 1 .. d[v] : y = <<v, k>>
            BY <1>1
      <2>4. PICK k \in 1 .. d[v] : y = <<v, k>>
            BY <2>3
      <2>5. phi[x] = <<h[w], j>> /\ phi[y] = <<h[v], k>>
            BY <1>4, <2>2, <2>4
      <2>6. h[w] = h[v] /\ j = k
            <3>1. PICK s, t : s = h[w] /\ t = h[v]
                  OBVIOUS
            <3>2. <<s, j>> = <<t, k>>
                  BY <1>6, <2>5, <3>1
            <3> QED
                  BY <3>1, <3>2
      <2> QED
            BY <1>0, <2>2, <2>4, <2>6
<1>7. ASSUME NEW z \in Cells(c) PROVE \E x \in Cells(d) : phi[x] = z
      <2>1. PICK i \in R : \E j \in 1 .. c[i] : z = <<i, j>>
            BY <1>2
      <2>2. PICK j \in 1 .. c[i] : z = <<i, j>>
            BY <2>1
      <2>3. PICK w \in W : h[w] = i
            BY <1>0
      <2>4. j \in 1 .. d[w]
            BY <1>0, <2>2, <2>3
      <2>5. <<w, j>> \in Cells(d) /\ phi[<<w, j>>] = <<h[w], j>>
            BY <1>4, <2>4
      <2>6. phi[<<w, j>>] = z
            BY <2>2, <2>3, <2>5
      <2> QED
            BY <2>5, <2>6
<1>8. phi \in Injection(Cells(d), Cells(c))
      BY <1>5, <1>6 DEF Injection, IsInjective
<1>9. phi \in Surjection(Cells(d), Cells(c))
      BY <1>5, <1>7 DEF Surjection
<1>10. Cardinality(Cells(d)) = Cardinality(Cells(c))
      BY <1>8, <1>9, FS_Injection
<1> QED
      BY <1>10 DEF WindowDensity, Cells

\* c has on the ring what d has in order.
OnRing(d, c, n) == \A w \in DOMAIN d : d[w] = c[w % n]

\* A window is as dense on the ring as in the order of its sub-windows.
LEMMA Reindexed ==
    ASSUME NEW n \in Nat \ {0}, NEW g \in Int, NEW c, NEW d,
           DOMAIN c = 0 .. n - 1, DOMAIN d = (g - n) .. (g - 1),
           OnRing(d, c, n), IsFiniteSet(Cells(c))
    PROVE  WindowDensity(d) = WindowDensity(c)
<1>1. PICK W, R : W = (g - n) .. (g - 1) /\ R = 0 .. n - 1
      OBVIOUS
<1>2. PICK h : h = [w \in W |-> w % n]
      OBVIOUS
<1>3. \A w \in W : w \in Int /\ w % n \in R
      <2>1. \A w \in W : w \in Int
            BY <1>1
      <2>2. \A w \in W : w % n \in 0 .. n - 1
            BY <2>1, DivMod
      <2> QED
            BY <1>1, <2>1, <2>2
<1>4. \A w \in W : h[w] = w % n
      BY <1>2, <1>3
<1>5. h \in [W -> R] /\ DOMAIN c = R /\ DOMAIN d = W
      BY <1>1, <1>2, <1>3
<1>6. \A v, w \in W : h[v] = h[w] => v = w
      <2> SUFFICES ASSUME NEW v \in W, NEW w \in W, h[v] = h[w] PROVE v = w
          OBVIOUS
      <2>1. v \in Int /\ w \in Int /\ v < w + n /\ w < v + n
            BY <1>1
      <2>2. v % n = w % n
            BY <1>4
      <2>3. ~ (v < w)
            BY <2>1, <2>2, ModInjective
      <2>4. ~ (w < v)
            BY <2>1, <2>2, ModInjective
      <2> QED
            BY <2>1, <2>3, <2>4
<1>7. \A i \in R : \E w \in W : h[w] = i
      <2> SUFFICES ASSUME NEW i \in R PROVE \E w \in W : h[w] = i
          OBVIOUS
      <2>1. i \in 0 .. n - 1
            BY <1>1
      <2>2. PICK w \in (g - n) .. (g - 1) : w % n = i
            BY <2>1, RingCovered
      <2> QED
            BY <1>1, <1>4, <2>2
<1>8. \A w \in W : d[w] = c[h[w]]
      BY <1>4, <1>5 DEF OnRing
<1>9. Renames(h, d, c)
      BY <1>5, <1>6, <1>7, <1>8 DEF Renames
<1> QED
      BY <1>9, Renamed

\* The blocks of a chain in the window before the sub-window of its last.
WindowBefore(a) ==
    WindowDensity([w \in Window(GlobalSubWindow(states[a].slot) - 1) |-> BlocksIn(Chain(a), w)])

\* For the first block of a sub-window, that is the density update takes.
LEMMA OpenerDensity ==
    ASSUME PosInv, NEW b \in DOMAIN states \ {GenesisHash}, NEW p, p = parent[b],
           ~ SameSubWindow(states[p].slot, states[b].slot)
    PROVE  /\ WindowBefore(b) \in Nat
           /\ WindowBefore(b) = WindowDensity(CurrentDensities(
                states[p].sub_window_densities, states[p].slot, states[b].slot))
<1>1. PICK r \in Nat, t \in Nat, f \in [Ring -> 0 .. SlotsPerSubWindow] :
        /\ p \in DOMAIN states
        /\ r = states[p].slot /\ t = states[b].slot /\ f = states[p].sub_window_densities
      BY ParentWindow
<1>2. PICK g \in Nat : g = GlobalSubWindow(t)
      BY Windows
<1>3. GlobalSubWindow(r) < g
      BY <1>1, <1>2, ParentWindow, Windows DEF SameSubWindow
<1>4. PICK n \in Nat \ {0} : n = SubWindowsPerWindow
      BY Windows
<1>5. PICK M \in Nat : M = SlotsPerSubWindow
      BY Windows
<1>6. PICK c : c = CurrentDensities(f, r, t)
      OBVIOUS
<1>7. c \in [0 .. n - 1 -> 0 .. M]
      BY <1>4, <1>5, <1>6, CurrentType DEF Ring
<1>8. PICK W : W = (g - n) .. (g - 1)
      OBVIOUS
<1>9. \A w \in W : c[w % n] = BlocksIn(Chain(b), w)
      <2>1. CountsBlocks(p)
            BY <1>1, CountInv DEF DensitiesCountBlocks, CountsBlocks
      <2> QED
            BY <1>1, <1>2, <1>3, <1>4, <1>6, <1>8, <2>1, CurrentCounts
<1>10. Window(g - 1) = W
      BY <1>4, <1>8 DEF Window
<1>11. PICK d : d = [w \in W |-> BlocksIn(Chain(b), w)]
      OBVIOUS
<1>12. d \in [W -> 0 .. M] /\ OnRing(d, c, n)
      <2>1. \A w \in W : w \in Int
            BY <1>8
      <2>2. \A w \in W : w % n \in 0 .. n - 1
            BY <2>1, DivMod
      <2> QED
            BY <1>7, <1>9, <1>11, <2>2 DEF OnRing
<1>13. WindowDensity(d) = WindowDensity(c)
      <2>1. g \in Int /\ DOMAIN c = 0 .. n - 1 /\ DOMAIN d = (g - n) .. (g - 1)
            BY <1>7, <1>8, <1>12
      <2>2. IsFiniteSet(Cells(c))
            <3>1. IsFiniteSet(0 .. n - 1)
                  BY FS_Interval
            <3> QED
                  BY <1>7, <3>1, CellsFinite
      <2> QED
            BY <1>12, <2>1, <2>2, Reindexed
<1>14. WindowBefore(b) = WindowDensity(d)
      BY <1>1, <1>2, <1>10, <1>11 DEF WindowBefore
<1>15. WindowDensity(c) \in Nat
      <2>1. IsFiniteSet(0 .. n - 1)
            BY FS_Interval
      <2> QED
            BY <1>7, <2>1, CellsFinite
<1> QED
      BY <1>1, <1>6, <1>13, <1>14, <1>15

\* The densities that the minimum is over.
Measured(b) ==
    {SlotsPerWindow} \cup
      {WindowBefore(a) : a \in {x \in Openers(Chain(b)) : states[x].slot >= GracePeriodEnd}}

LeastMeasured(b) ==
    /\ states[b].min_window_density \in Measured(b)
    /\ \A y \in Measured(b) : states[b].min_window_density <= y

\* They are numbers.
LEMMA MeasuredType ==
    ASSUME PosInv, NEW b \in DOMAIN states
    PROVE  Measured(b) \subseteq Nat
<1>1. SlotsPerWindow \in Nat
      BY Windows
<1>2. ASSUME NEW a \in Openers(Chain(b)) PROVE WindowBefore(a) \in Nat
      <2>1. /\ a \in DOMAIN states \ {GenesisHash}
            /\ ~ SameSubWindow(states[parent[a]].slot, states[a].slot)
            BY <1>2 DEF Openers, Chain
      <2> QED
            BY <2>1, OpenerDensity
<1> QED
      BY <1>1, <1>2 DEF Measured

\* Genesis has measured nothing.
LEMMA GenesisLeast ==
    ASSUME PosInv
    PROVE  LeastMeasured(GenesisHash)
<1>1. Openers(Chain(GenesisHash)) = {}
      BY ChainUnfold DEF Openers
<1>2. Measured(GenesisHash) = {SlotsPerWindow}
      BY <1>1 DEF Measured
<1>3. states[GenesisHash].min_window_density = SlotsPerWindow
      <2>1. SameSubWindow(0, 0)
            BY DEF SameSubWindow
      <2>2. \A f : MinDensity(SlotsPerWindow, f, 0, 0) = SlotsPerWindow
            BY <2>1 DEF MinDensity
      <2>3. NegativeOne.min_window_density = SlotsPerWindow
            BY DEF NegativeOne
      <2>4. PICK x : x = NegativeOne
            OBVIOUS
      <2>5. Update(x, NegativeOneHash, 0, 0).min_window_density =
              MinDensity(x.min_window_density, x.sub_window_densities, x.slot, 0)
            BY DEF Update
      <2> QED
            BY <2>2, <2>3, <2>4, <2>5, NegativeOneType DEF PosInv
<1>4. SlotsPerWindow \in Nat
      BY Windows
<1> QED
      BY <1>2, <1>3, <1>4 DEF LeastMeasured

LEMMA ChildLeast ==
    ASSUME PosInv, NEW b \in DOMAIN states \ {GenesisHash}, LeastMeasured(parent[b])
    PROVE  LeastMeasured(b)
<1>1. PICK p \in DOMAIN states : p = parent[b]
      BY ParentWindow
<1>2. PICK mp \in 0 .. SlotsPerWindow : mp = states[p].min_window_density
      BY <1>1, ParentWindow
<1>3. PICK d :
        /\ mp = states[p].min_window_density
        /\ d = WindowDensity(CurrentDensities(states[p].sub_window_densities,
                                              states[p].slot, states[b].slot))
      BY <1>2
<1>4. mp \in Nat /\ d \in Nat /\ states[b].slot \in Nat /\ GracePeriodEnd \in Nat
      BY <1>1, <1>2, <1>3, ParentWindow, MinDensityType, Windows
<1>5. Openers(Chain(b)) =
        Openers(Chain(p)) \cup
          IF SameSubWindow(states[p].slot, states[b].slot) THEN {} ELSE {b}
      BY <1>1, ChainUnfold DEF Openers
<1>6. mp \in Measured(p) /\ \A y \in Measured(p) : mp <= y /\ y \in Nat
      BY <1>1, <1>3, MeasuredType DEF LeastMeasured
<1>7. CASE SameSubWindow(states[p].slot, states[b].slot) \/ states[b].slot < GracePeriodEnd
      <2>1. Measured(b) = Measured(p)
            <3>1. {x \in Openers(Chain(b)) : states[x].slot >= GracePeriodEnd} =
                  {x \in Openers(Chain(p)) : states[x].slot >= GracePeriodEnd}
                  BY <1>4, <1>5, <1>7
            <3> QED
                  BY <3>1 DEF Measured
      <2>2. states[b].min_window_density = mp
            BY <1>1, <1>3, <1>7, ParentWindow DEF MinDensity
      <2> QED
            BY <1>6, <2>1, <2>2 DEF LeastMeasured
<1>8. CASE ~ (SameSubWindow(states[p].slot, states[b].slot) \/ states[b].slot < GracePeriodEnd)
      <2>1. WindowBefore(b) = d
            BY <1>1, <1>3, <1>8, OpenerDensity
      <2>2. Measured(b) = Measured(p) \cup {d}
            <3>1. {x \in Openers(Chain(b)) : states[x].slot >= GracePeriodEnd} =
                  {x \in Openers(Chain(p)) : states[x].slot >= GracePeriodEnd} \cup {b}
                  BY <1>4, <1>5, <1>8
            <3> QED
                  BY <2>1, <3>1 DEF Measured
      <2>3. states[b].min_window_density = IF d <= mp THEN d ELSE mp
            <3>1. /\ states[p].sub_window_densities \in [Ring -> 0 .. SlotsPerSubWindow]
                  /\ states[b].min_window_density =
                       MinDensity(mp, states[p].sub_window_densities, states[p].slot,
                                  states[b].slot)
                  BY <1>1, <1>3, ParentWindow
            <3> QED
                  BY <1>3, <1>8, <3>1, MinDensityType
      <2> QED
            BY <1>4, <1>6, <2>2, <2>3 DEF LeastMeasured
<1> QED
      BY <1>7, <1>8

LEMMA LeastInv == PosInv => MinDensityIsLeastWindow
<1> SUFFICES ASSUME PosInv, NEW b \in DOMAIN states
             PROVE  states[b].min_window_density = Min(Measured(b))
    BY DEF MinDensityIsLeastWindow, Measured, WindowBefore
<1>1. LeastMeasured(b)
      <2>1. PICK Bad : Bad = {x \in DOMAIN states : ~ LeastMeasured(x)}
            OBVIOUS
      <2>2. PICK T : T = {states[x].blockchain_length : x \in Bad}
            OBVIOUS
      <2>3. ASSUME Bad # {} PROVE FALSE
            <3>1. T \in SUBSET Nat /\ T # {}
                  BY <2>1, <2>2, <2>3, StateFields
            <3>2. PICK m \in T : \A y \in T : m <= y
                  BY <3>1, LeastNatural
            <3>3. PICK x \in Bad : m = states[x].blockchain_length
                  BY <2>2
            <3>4. x \in DOMAIN states \ {GenesisHash}
                  BY <2>1, GenesisLeast
            <3>5. PICK l \in Nat : /\ parent[x] \in DOMAIN states
                                   /\ l = states[parent[x]].blockchain_length
                                   /\ m = l + 1
                  BY <3>3, <3>4, ParentBehind, StateFields
            <3>6. l \notin T
                  BY <3>2, <3>5
            <3>7. parent[x] \notin Bad
                  BY <2>2, <3>5, <3>6
            <3>8. LeastMeasured(x)
                  BY <2>1, <3>4, <3>5, <3>7, ChildLeast
            <3> QED
                  BY <2>1, <3>8
      <2> QED
            BY <2>1, <2>3
<1>2. PICK m : m = states[b].min_window_density
      OBVIOUS
<1>3. m \in Measured(b) /\ \A y \in Measured(b) : m <= y /\ y \in Nat
      BY <1>1, <1>2, MeasuredType DEF LeastMeasured
<1>4. PICK k : k = Min(Measured(b))
      OBVIOUS
<1>5. k \in Measured(b) /\ \A y \in Measured(b) : k <= y
      BY <1>3, <1>4 DEF Min
<1>6. k = m
      BY <1>3, <1>5
<1> QED
      BY <1>2, <1>4, <1>6

\* The minimum window density is, for every choice of the constants, the least
\* number of blocks in the window before any block that opened a sub-window after
\* the grace period.
THEOREM MinDensityAlwaysLeast == Spec => []MinDensityIsLeastWindow
BY LeastInv, ProofOfStakeInvariant, PTL
=============================================================================
