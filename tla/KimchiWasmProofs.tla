-------------------------- MODULE KimchiWasmProofs --------------------------
(***************************************************************************)
(* Theorems about the thread pool of the WebAssembly build, for pools of    *)
(* any size, any number of pools and any SRSs: the workers of a pool get    *)
(* its threads, and the pool implements PooledCalls (up to liveness).       *)
(***************************************************************************)
EXTENDS KimchiWasm, FiniteSetTheorems, TLAPS

WorkerStates == {"absent", "loading", "waiting", "running", "ended"}

\* The types of the pool's variables, and that there is a generation to build.
PoolTypeOK ==
    /\ gen \in 0..MaxGens
    /\ THREAD_POOL \in 0..MaxGens
    /\ worker \in [Gens -> [Workers -> WorkerStates]]
    /\ channel \in [Gens -> Nat]
    /\ starting => gen \in Gens /\ THREAD_POOL = 0

\* The inductive invariant of the pool.
PoolInv == PoolTypeOK /\ ThreadsReachTheirWorkers

Waiting(g) == {w \in Workers : worker[g][w] = "waiting"}

\* The workers that wait are finitely many, and all of them are NumThreads.
LEMMA WorkersAreFinite ==
    /\ IsFiniteSet(Workers)
    /\ Cardinality(Workers) = NumThreads
    /\ \A g : IsFiniteSet(Waiting(g)) /\ Cardinality(Waiting(g)) \in Nat
<1>1. NumThreads \in Nat /\ NumThreads >= 1
  BY SizesAssumption
<1>2. IsFiniteSet(Workers) /\ Cardinality(Workers) = NumThreads
  BY <1>1, FS_Interval DEF Workers
<1>3. ASSUME NEW g PROVE IsFiniteSet(Waiting(g)) /\ Cardinality(Waiting(g)) \in Nat
  <2>1. Waiting(g) \subseteq Workers
    BY DEF Waiting
  <2>2. IsFiniteSet(Waiting(g))
    BY <1>2, <2>1, FS_Subset
  <2> QED
    BY <2>2, FS_CardinalityType
<1> QED
  BY <1>2, <1>3

EveryWorkerServed ==
    THREAD_POOL # 0 =>
      /\ \A w \in Workers : worker[THREAD_POOL][w] \in {"waiting", "running"}
      /\ channel[THREAD_POOL] = Cardinality(Waiting(THREAD_POOL))

\* The invariant, with the set of waiting workers by its name.
LEMMA ThreadsByName ==
    ThreadsReachTheirWorkers <=> EveryWorkerServed
<1> DEFINE running == {w \in Workers : worker[THREAD_POOL][w] = "running"}
<1>1. ThreadsReachTheirWorkers <=>
        (THREAD_POOL # 0 =>
           /\ Waiting(THREAD_POOL) \cup running = Workers
           /\ channel[THREAD_POOL] = Cardinality(Waiting(THREAD_POOL)))
  BY Zenon DEF ThreadsReachTheirWorkers, Waiting
<1>2. Waiting(THREAD_POOL) \cup running = Workers
        <=> \A w \in Workers : worker[THREAD_POOL][w] \in {"waiting", "running"}
  BY DEF Waiting
<1> QED
  BY <1>1, <1>2 DEF EveryWorkerServed

\* Init establishes the invariant: there is no pool yet.
LEMMA PoolInvInit == Init => PoolInv
<1> SUFFICES ASSUME Init PROVE PoolInv
  OBVIOUS
<1>1. ~starting
  BY Zenon DEF Init
<1>2. PoolTypeOK
  BY <1>1, SizesAssumption DEF Init, PoolTypeOK, WorkerStates, Gens
<1>3. ThreadsReachTheirWorkers
  BY ThreadsByName DEF Init, EveryWorkerServed
<1> QED
  BY <1>2, <1>3 DEF PoolInv

\* A step that leaves the variables of the pool alone keeps the invariant.
LEMMA PoolInvStutter == PoolInv /\ UNCHANGED pool => PoolInv'
  BY DEF PoolInv, PoolTypeOK, ThreadsReachTheirWorkers, pool

\* A new pool is built from workers all of which wait, with a thread for each.
LEMMA PoolInvBuild == PoolInv /\ build => PoolInv'
<1> SUFFICES ASSUME PoolInv, build PROVE PoolInv'
  OBVIOUS
<1>1. starting' = FALSE
  BY Zenon DEF build
<1>2. gen \in Gens /\ gen' = gen /\ THREAD_POOL' = gen /\ worker' = worker
  BY DEF build, PoolInv, PoolTypeOK
<1>3. channel' = [channel EXCEPT ![gen] = NumThreads]
  BY DEF build
<1>4. PoolTypeOK'
  BY <1>1, <1>2, <1>3, SizesAssumption DEF PoolInv, PoolTypeOK, Gens
<1>5. Waiting(gen) = Workers
  BY DEF build, Waiting
<1>6. Waiting(gen)' = Waiting(gen)
  BY <1>2 DEF Waiting
<1>7. channel'[gen] = Cardinality(Waiting(gen)')
  BY <1>2, <1>3, <1>5, <1>6, WorkersAreFinite DEF PoolInv, PoolTypeOK
<1>8. \A w \in Workers : worker'[gen][w] = "waiting"
  BY <1>2 DEF build
<1>9. EveryWorkerServed'
  BY <1>2, <1>7, <1>8 DEF EveryWorkerServed, Waiting
<1>10. ThreadsReachTheirWorkers'
  BY <1>9, ThreadsByName, PTL
<1> QED
  BY <1>4, <1>10 DEF PoolInv

\* A worker that receives a thread leaves one waiting worker and one thread less.
LEMMA PoolInvStartWorker ==
    ASSUME NEW g \in Gens, NEW w \in Workers, PoolInv, wbg_rayon_start_worker(g, w)
    PROVE  PoolInv'
<1>1. THREAD_POOL' = THREAD_POOL /\ gen' = gen /\ (starting' <=> starting)
  BY Zenon DEF wbg_rayon_start_worker
<1>2. /\ channel' = [channel EXCEPT ![g] = @ - 1]
      /\ worker' = [worker EXCEPT ![g][w] = "running"]
      /\ worker[g][w] = "waiting" /\ channel[g] > 0
  BY DEF wbg_rayon_start_worker
<1>3. PoolTypeOK'
  BY <1>1, <1>2 DEF PoolInv, PoolTypeOK, WorkerStates
<1>4. ASSUME THREAD_POOL # 0
      PROVE  /\ \A v \in Workers : worker'[THREAD_POOL][v] \in {"waiting", "running"}
             /\ channel'[THREAD_POOL] = Cardinality(Waiting(THREAD_POOL)')
  <2>1. /\ \A v \in Workers : worker[THREAD_POOL][v] \in {"waiting", "running"}
        /\ channel[THREAD_POOL] = Cardinality(Waiting(THREAD_POOL))
    BY <1>4, ThreadsByName DEF PoolInv, EveryWorkerServed
  <2>2. THREAD_POOL \in Gens
    BY <1>4 DEF PoolInv, PoolTypeOK, Gens
  <2>3. \A v \in Workers : worker'[THREAD_POOL][v] \in {"waiting", "running"}
    BY <1>2, <2>1, <2>2 DEF PoolInv, PoolTypeOK
  <2>4. CASE g # THREAD_POOL
    <3>1. Waiting(THREAD_POOL)' = Waiting(THREAD_POOL)
      BY <1>1, <1>2, <2>2, <2>4 DEF Waiting, PoolInv, PoolTypeOK
    <3>2. channel'[THREAD_POOL] = channel[THREAD_POOL]
      BY <1>2, <2>2, <2>4 DEF PoolInv, PoolTypeOK
    <3> QED
      BY <2>1, <2>3, <3>1, <3>2
  <2>5. CASE g = THREAD_POOL
    <3>1. Waiting(THREAD_POOL)' = Waiting(g) \ {w}
      BY <1>1, <1>2, <2>2, <2>5 DEF Waiting, PoolInv, PoolTypeOK
    <3>2. w \in Waiting(g)
      BY <1>2 DEF Waiting
    <3>3. Cardinality(Waiting(g) \ {w}) = Cardinality(Waiting(g)) - 1
      BY <3>2, WorkersAreFinite, FS_RemoveElement
    <3>4. channel'[THREAD_POOL] = channel[g] - 1
      BY <1>2, <2>5 DEF PoolInv, PoolTypeOK
    <3> QED
      BY <2>1, <2>3, <2>5, <3>1, <3>3, <3>4
  <2> QED
    BY <2>4, <2>5
<1>5. EveryWorkerServed'
  BY <1>1, <1>4 DEF EveryWorkerServed, Waiting
<1>6. ThreadsReachTheirWorkers'
  BY <1>5, ThreadsByName, PTL
<1> QED
  BY <1>3, <1>6 DEF PoolInv

\* Every step keeps the invariant.
LEMMA PoolInvNext == PoolInv /\ [Next]_vars => PoolInv'
<1> SUFFICES ASSUME PoolInv, [Next]_vars PROVE PoolInv'
  OBVIOUS
<1>1. CASE init_thread_pool
  <2>1. /\ gen' \in Gens /\ gen' = gen + 1 /\ THREAD_POOL = 0 /\ THREAD_POOL' = 0 /\ channel' = channel
        /\ worker' = [worker EXCEPT ![gen + 1] = [w \in Workers |-> "loading"]]
    BY <1>1, SizesAssumption DEF init_thread_pool, PoolInv, PoolTypeOK, Gens
  <2>2. worker' \in [Gens -> [Workers -> WorkerStates]]
    BY <2>1 DEF PoolInv, PoolTypeOK, WorkerStates
  <2>3. PoolTypeOK'
    BY <2>1, <2>2, SizesAssumption DEF PoolInv, PoolTypeOK, Gens
  <2>4. EveryWorkerServed'
    BY <2>1 DEF EveryWorkerServed
  <2> QED
    BY <2>3, <2>4, ThreadsByName, PTL DEF PoolInv
<1>2. CASE build
  BY <1>2, PoolInvBuild
<1>3. CASE exit_thread_pool \/ Restart
  <2>1. /\ THREAD_POOL' = 0
        /\ worker' \in [Gens -> [Workers -> WorkerStates]] /\ channel' \in [Gens -> Nat]
    BY <1>3 DEF exit_thread_pool, Restart, PoolInv, PoolTypeOK, WorkerStates
  <2>2. gen' \in 0..MaxGens /\ (starting' => gen' \in Gens)
    BY <1>3, SizesAssumption DEF exit_thread_pool, Restart, PoolInv, PoolTypeOK
  <2>3. PoolTypeOK'
    BY <2>1, <2>2, SizesAssumption DEF PoolTypeOK
  <2>4. EveryWorkerServed'
    BY <2>1 DEF EveryWorkerServed
  <2> QED
    BY <2>3, <2>4, ThreadsByName, PTL DEF PoolInv
<1>4. ASSUME NEW g \in Gens, NEW w \in Workers, WorkerReady(g, w) \/ WorkerEnds(g, w)
      PROVE  PoolInv'
  <2>1. /\ THREAD_POOL' = THREAD_POOL /\ gen' = gen /\ channel' = channel
        /\ \E state \in WorkerStates : worker' = [worker EXCEPT ![g][w] = state]
    BY <1>4 DEF WorkerReady, WorkerEnds, WorkerStates
  <2>2. starting' <=> starting
    <3>1. CASE WorkerReady(g, w)
      BY <3>1, Zenon DEF WorkerReady
    <3>2. CASE WorkerEnds(g, w)
      BY <3>2, Zenon DEF WorkerEnds
    <3> QED
      BY <1>4, <3>1, <3>2
  <2>3. PoolTypeOK'
    BY <2>1, <2>2 DEF PoolInv, PoolTypeOK
  <2>4. EveryWorkerServed
    BY ThreadsByName DEF PoolInv
  <2>5. THREAD_POOL # 0 => g # THREAD_POOL
    BY <1>4, <2>4 DEF WorkerReady, WorkerEnds, EveryWorkerServed
  <2>6. THREAD_POOL # 0 => worker'[THREAD_POOL] = worker[THREAD_POOL]
    BY <2>1, <2>5 DEF PoolInv, PoolTypeOK, Gens
  <2>7. EveryWorkerServed'
    BY <2>1, <2>4, <2>6 DEF EveryWorkerServed, Waiting
  <2> QED
    BY <2>3, <2>7, ThreadsByName, PTL DEF PoolInv
<1>5. ASSUME NEW g \in Gens, NEW w \in Workers, wbg_rayon_start_worker(g, w)
      PROVE  PoolInv'
  BY <1>5, PoolInvStartWorker
<1>6. CASE SrsStep
  BY <1>6, PoolInvStutter
  DEF SrsStep, caml_fp_srs_create, verifier_index_create,
      caml_fp_srs_maybe_lagrange_commitment, caml_fp_srs_set_lagrange_basis
<1>7. ASSUME NEW op, NEW n, run_in_pool(op, n) PROVE PoolInv'
  BY <1>7, PoolInvStutter DEF run_in_pool
<1>8. CASE CallReturns
  BY <1>8, PoolInvStutter DEF CallReturns
<1>9. CASE UNCHANGED vars
  BY <1>9, PoolInvStutter DEF vars
<1> QED
  BY <1>1, <1>2, <1>3, <1>4, <1>5, <1>6, <1>7, <1>8, <1>9 DEF Next, PoolStep

\* Every thread of a pool reaches a worker of that pool, whatever pools there were
\* before and whatever workers of them are still about (rayon.rs, build and
\* wbg_rayon_start_worker), for any number of workers and of pools.
THEOREM ThreadsAlwaysReachTheirWorkers == Spec => []ThreadsReachTheirWorkers
<1>1. PoolInv => ThreadsReachTheirWorkers
  BY DEF PoolInv
<1> QED
  BY <1>1, PoolInvInit, PoolInvNext, PTL DEF Spec

-----------------------------------------------------------------------------
(* The refinement.                                                          *)

\* The initial states of the pool are initial states of PooledCalls.
LEMMA PromiseInit == Init => Calls!Init
  BY DEF Init, Calls!Init

\* Every step of the bindings is a step of PooledCalls or a stutter.
LEMMA PromiseNext == PoolInv /\ [Next]_vars => [Calls!Next]_(Calls!vars)
<1> SUFFICES ASSUME PoolInv, [Next]_vars PROVE [Calls!Next]_(Calls!vars)
  OBVIOUS
<1> USE DEF Calls!Next, Calls!Start, Calls!Stop, Calls!Call, Calls!Return, Calls!vars
<1>1. CASE init_thread_pool
  BY <1>1 DEF init_thread_pool
<1>2. CASE build
  BY <1>2 DEF build, PoolInv, PoolTypeOK, Gens
<1>3. CASE exit_thread_pool \/ Restart
  BY <1>3 DEF exit_thread_pool, Restart
<1>4. ASSUME NEW g \in Gens, NEW w \in Workers,
             WorkerReady(g, w) \/ WorkerEnds(g, w) \/ wbg_rayon_start_worker(g, w)
      PROVE  UNCHANGED <<THREAD_POOL, call>>
  BY <1>4 DEF WorkerReady, WorkerEnds, wbg_rayon_start_worker
<1>5. CASE SrsStep
  BY <1>5
  DEF SrsStep, pool, caml_fp_srs_create, verifier_index_create,
      caml_fp_srs_maybe_lagrange_commitment, caml_fp_srs_set_lagrange_basis
<1>6. ASSUME NEW op \in Ops, NEW n \in Depths \cup Sizes, run_in_pool(op, n)
      PROVE  [Calls!Next]_(Calls!vars)
  <2>1. [op |-> op, n |-> n] # None
    BY NoneAssumption
  <2> QED
    BY <1>6, <2>1 DEF run_in_pool, pool
<1>7. CASE CallReturns
  BY <1>7 DEF CallReturns, pool
<1>8. CASE UNCHANGED vars
  BY <1>8 DEF vars, pool
<1> QED
  BY <1>1, <1>2, <1>3, <1>4, <1>5, <1>6, <1>7, <1>8 DEF Next, PoolStep

\* The bindings implement PooledCalls: a call is accepted only while a pool is up,
\* and the pool is neither replaced nor left while a call runs in it (rayon.rs,
\* run_in_pool and exit_thread_pool).  That calls return is liveness and is checked
\* by TLC.
THEOREM PoolImplementsPromise == Spec => Calls!Init /\ [][Calls!Next]_(Calls!vars)
  BY PromiseInit, PromiseNext, PoolInvInit, PoolInvNext, PTL DEF Spec

-----------------------------------------------------------------------------
(* The SRS and what is computed from it.                                    *)

DomainSizes == {1, 2, 4, 8}

Points(d) == [n \in 1..d |-> n]

BasisOf(d, e) == [h |-> 0, g |-> Points(d), domain |-> e]

\* The SRS of depth d with the cache B.
MadeOf(d, B) == [h |-> 0, g |-> Points(d), lagrange_bases |-> B]

\* The cache B of an SRS of depth d holds the right bases, but for the sizes F.
CacheOK(d, B, F) ==
    /\ DOMAIN B \subseteq 1..8 /\ F \subseteq DOMAIN B
    /\ \A k \in DOMAIN B : B[k] = BasisOf(d, Domain(k)) <=> k \notin F

\* The size of a domain is rounded to itself.
LEMMA DomainRounds ==
    ASSUME NEW n \in 1..8
    PROVE  /\ Domain(n) \in DomainSizes /\ (n \in DomainSizes => Domain(n) = n)
           /\ Domain(n) \in 1..8 /\ Domain(Domain(n)) = Domain(n)
<1>1. ASSUME NEW m \in 1..8
      PROVE  Domain(m) \in DomainSizes /\ (m \in DomainSizes => Domain(m) = m)
  <2>1. \E d \in DomainSizes : m <= d /\ \A e \in DomainSizes : m <= e => d <= e
    <3>1. CASE m = 1
      BY <3>1 DEF DomainSizes
    <3>2. CASE m = 2
      BY <3>2 DEF DomainSizes
    <3>3. CASE m \in {3, 4}
      BY <3>3 DEF DomainSizes
    <3>4. CASE m \in {5, 6, 7, 8}
      BY <3>4 DEF DomainSizes
    <3> QED
      BY <3>1, <3>2, <3>3, <3>4
  <2>2. /\ Domain(m) \in DomainSizes
        /\ m <= Domain(m) /\ \A e \in DomainSizes : m <= e => Domain(m) <= e
    BY <2>1 DEF Domain, DomainSizes
  <2> QED
    BY <2>2 DEF DomainSizes
<1>2. PICK e \in DomainSizes : e = Domain(n)
  BY <1>1
<1>3. e \in 1..8
  BY DEF DomainSizes
<1>4. Domain(e) = e
  BY <1>1, <1>3
<1> QED
  BY <1>1, <1>2, <1>3, <1>4

\* Replacing the cache of an SRS.
LEMMA CacheReplaced ==
    ASSUME NEW d, NEW B, NEW e, NEW x
    PROVE  [MadeOf(d, B) EXCEPT !.lagrange_bases = With(@, e, x)] = MadeOf(d, With(B, e, x))
<1>1. PICK C : C = With(B, e, x)
  OBVIOUS
<1>2. PICK p : p = Points(d)
  OBVIOUS
<1>3. MadeOf(d, B) = [h |-> 0, g |-> p, lagrange_bases |-> B]
  BY <1>2 DEF MadeOf
<1>4. MadeOf(d, B).lagrange_bases = B
  BY <1>3
<1> QED
  BY <1>1, <1>2, <1>3, <1>4 DEF MadeOf

\* The cache after a basis was added to it.
Added(d, B, e) == IF e \in DOMAIN B THEN B ELSE With(B, e, BasisOf(d, e))

\* Adding a basis leaves what JavaScript has put in, and is right where there was none.
LEMMA AddBasis ==
    ASSUME NEW d, NEW B, NEW F, CacheOK(d, B, F), NEW e \in DomainSizes
    PROVE  /\ add_lagrange_basis(MadeOf(d, B), e) = MadeOf(d, Added(d, B, e))
           /\ CacheOK(d, Added(d, B, e), F)
           /\ e \in DOMAIN Added(d, B, e)
<1>1. MadeOf(d, B).lagrange_bases = B /\ Basis(MadeOf(d, B), e) = BasisOf(d, e)
  BY DEF MadeOf, Basis, BasisOf
<1>2. CASE e \in DOMAIN B
  BY <1>1, <1>2 DEF add_lagrange_basis, Added
<1>3. CASE e \notin DOMAIN B
  <2>1. PICK C : C = With(B, e, BasisOf(d, e))
    OBVIOUS
  <2>2. /\ DOMAIN C = DOMAIN B \cup {e} /\ C[e] = BasisOf(d, e)
        /\ \A k \in DOMAIN B \ {e} : C[k] = B[k]
    <3>1. PICK x : x = BasisOf(d, e)
      OBVIOUS
    <3>2. C = With(B, e, x)
      BY <2>1, <3>1
    <3>3. /\ DOMAIN With(B, e, x) = DOMAIN B \cup {e} /\ With(B, e, x)[e] = x
          /\ \A k \in DOMAIN B \ {e} : With(B, e, x)[k] = B[k]
      BY DEF With
    <3> QED
      BY <3>1, <3>2, <3>3, Zenon
  <2>3. Added(d, B, e) = C
    BY <1>3, <2>1 DEF Added
  <2>4. e \in 1..8
    BY DEF DomainSizes
  <2>5. Domain(e) = e
    BY <2>4, DomainRounds
  <2>6. CacheOK(d, C, F)
    BY <1>3, <2>2, <2>4, <2>5 DEF CacheOK
  <2>7. add_lagrange_basis(MadeOf(d, B), e) = MadeOf(d, C)
    BY <1>1, <1>3, <2>1, CacheReplaced DEF add_lagrange_basis
  <2> QED
    BY <2>2, <2>3, <2>6, <2>7
<1> QED
  BY <1>2, <1>3

\* A new SRS has no bases.
LEMMA NewSrs ==
    ASSUME NEW d
    PROVE  SRS(d) = MadeOf(d, <<>>) /\ CacheOK(d, <<>>, {})
<1>1. SRS(d) = MadeOf(d, <<>>)
  BY DEF SRS, MadeOf, Points
<1>2. DOMAIN <<>> = {}
  OBVIOUS
<1> QED
  BY <1>1, <1>2 DEF CacheOK

\* The points survive being taken out and put back; the bases do not.
LEMMA PointsTravel ==
    ASSUME NEW d \in Depths, NEW B
    PROVE  caml_fp_srs_set(caml_fp_srs_get(MadeOf(d, B))) = MadeOf(d, <<>>)
<1>1. d \in Nat
  BY SizesAssumption
<1>2. PICK p \in Seq(Nat) : p = Points(d)
  <2>1. Points(d) \in [1..d -> Nat]
    BY <1>1 DEF Points
  <2> QED
    BY <1>1, <2>1
<1>3. Head(<<0>> \o p) = 0 /\ Tail(<<0>> \o p) = p
  OBVIOUS
<1>4. caml_fp_srs_get(MadeOf(d, B)) = <<0>> \o p
  BY <1>2 DEF caml_fp_srs_get, MadeOf
<1> QED
  BY <1>2, <1>3, <1>4 DEF caml_fp_srs_set, MadeOf

\* The SRS r is one of a depth in Depths, whose cache is right but for the sizes F.
SrsRight(r, F) ==
    \E d \in Depths : r = MadeOf(d, r.lagrange_bases) /\ CacheOK(d, r.lagrange_bases, F)

\* An SRS with its cache is right.
LEMMA MadeIsRight ==
    ASSUME NEW d \in Depths, NEW B, NEW F, CacheOK(d, B, F)
    PROVE  SrsRight(MadeOf(d, B), F)
<1>1. MadeOf(d, B).lagrange_bases = B
  BY DEF MadeOf
<1> QED
  BY <1>1 DEF SrsRight

\* The SRS there is is right, and a call that needs one has one.
SrsOK ==
    /\ srs # None => SrsRight(srs, foreign)
    /\ call # None =>
         /\ call.op = "create_parallel" => call.n \in Depths
         /\ call.op # "create_parallel" => call.n \in Sizes /\ srs # None

\* The inductive invariant of the SRS and its answers.
SrsInv == SrsOK /\ AnswersAreComputed

\* What an answer has to satisfy.
Right(a) ==
    /\ a.why = "found" =>
         /\ a.of \in {[h |-> 0, g |-> [n \in 1..d |-> n]] : d \in Depths}
         /\ a.basis = [h |-> a.of.h, g |-> a.of.g, domain |-> Domain(a.n)] <=> ~a.foreign
    /\ a.why = "no basis" => Domain(a.n) # a.n

\* AnswersAreComputed, by this name.
LEMMA AnswersByName == AnswersAreComputed <=> (answer # None => Right(answer))
BY DEF AnswersAreComputed, Right

\* What is found under a size or under its domain is right unless it is foreign.
LEMMA FoundIsRight ==
    ASSUME NEW d \in Depths, NEW B, CacheOK(d, B, foreign), NEW n \in 1..8,
           NEW key \in DOMAIN B, Domain(key) = Domain(n)
    PROVE  Right(Found(MadeOf(d, B), key, n))
<1>1. PICK p : p = Points(d)
  OBVIOUS
<1>2. PICK x : x = B[key]
  OBVIOUS
<1>3. PICK f : f = (key \in foreign)
  OBVIOUS
<1>4. PICK a : a = Found(MadeOf(d, B), key, n)
  OBVIOUS
<1>5. a = [why |-> "found", n |-> n, basis |-> x, of |-> [h |-> 0, g |-> p], foreign |-> f]
  BY <1>1, <1>2, <1>3, <1>4 DEF Found, MadeOf
<1>6. /\ a.why = "found" /\ a.n = n /\ a.basis = x /\ a.of = [h |-> 0, g |-> p]
      /\ a.of.h = 0 /\ a.of.g = p
  BY <1>5
<1>7. a.foreign = f
  BY <1>5, Zenon
<1>8. a.foreign <=> key \in foreign
  BY <1>3, <1>7, Zenon
<1>9. a.of \in {[h |-> 0, g |-> [m \in 1..c |-> m]] : c \in Depths}
  BY <1>1, <1>6 DEF Points
<1>10. x = [h |-> 0, g |-> p, domain |-> Domain(n)] <=> key \notin foreign
  BY <1>1, <1>2 DEF CacheOK, BasisOf
<1>11. a.basis = [h |-> a.of.h, g |-> a.of.g, domain |-> Domain(a.n)] <=> ~a.foreign
  <2>1. [h |-> a.of.h, g |-> a.of.g, domain |-> Domain(a.n)]
          = [h |-> 0, g |-> p, domain |-> Domain(n)]
    BY <1>6
  <2> QED
    BY <1>6, <1>8, <1>10, <2>1, Zenon
<1>12. a.why # "no basis"
  BY <1>6
<1> QED
  BY <1>4, <1>9, <1>11, <1>12, Zenon DEF Right

\* A panic for a size that is not that of a domain, or for want of a pool.
LEMMA PanicIsRight ==
    ASSUME NEW why \in {"no pool", "no basis"}, NEW n,
           why = "no basis" => Domain(n) # n
    PROVE  Right([why |-> why, n |-> n])
<1>1. PICK a : a = [why |-> why, n |-> n]
  OBVIOUS
<1>2. a.why = why /\ a.n = n
  BY <1>1
<1>3. a.why # "found"
  BY <1>2
<1> QED
  BY <1>1, <1>2, <1>3, Zenon DEF Right

\* Calls that return.
LEMMA SrsInvReturns == SrsInv /\ CallReturns => SrsInv'
<1> SUFFICES ASSUME SrsInv, CallReturns PROVE SrsInv'
  OBVIOUS
<1>1. call # None /\ call' = None
  BY DEF CallReturns
<1>2. ASSUME SrsRight(srs', foreign') PROVE SrsOK'
  BY <1>1, <1>2 DEF SrsOK
<1>3. CASE ReturnSrs
  <2>1. call.n \in Depths
    BY <1>1, <1>3 DEF ReturnSrs, SrsInv, SrsOK
  <2>2. SrsRight(srs', foreign')
    BY <1>3, <2>1, NewSrs, MadeIsRight DEF ReturnSrs
  <2> QED
    BY <1>2, <1>3, <2>2 DEF ReturnSrs, SrsInv, AnswersAreComputed
<1>4. ASSUME call.op # "create_parallel"
      PROVE  /\ call.n \in 1..8 /\ Domain(Domain(call.n)) = Domain(call.n)
             /\ SrsRight(srs, foreign)
             /\ \E d, C :
                  /\ d \in Depths
                  /\ add_lagrange_basis(srs, Domain(call.n)) = MadeOf(d, C)
                  /\ CacheOK(d, C, foreign) /\ Domain(call.n) \in DOMAIN C
  <2>1. call.n \in Sizes /\ srs # None /\ SrsRight(srs, foreign)
    BY <1>1, <1>4 DEF SrsInv, SrsOK
  <2>2. call.n \in 1..8
    BY <2>1, SizesAssumption
  <2>3. PICK d \in Depths : srs = MadeOf(d, srs.lagrange_bases)
                            /\ CacheOK(d, srs.lagrange_bases, foreign)
    BY <2>1 DEF SrsRight
  <2>4. Domain(call.n) \in DomainSizes /\ Domain(Domain(call.n)) = Domain(call.n)
    BY <2>2, DomainRounds
  <2>5. PICK B : B = srs.lagrange_bases
    OBVIOUS
  <2>6. /\ add_lagrange_basis(MadeOf(d, B), Domain(call.n)) = MadeOf(d, Added(d, B, Domain(call.n)))
        /\ CacheOK(d, Added(d, B, Domain(call.n)), foreign)
        /\ Domain(call.n) \in DOMAIN Added(d, B, Domain(call.n))
    BY <2>3, <2>4, <2>5, AddBasis
  <2> QED
    BY <2>1, <2>2, <2>3, <2>4, <2>5, <2>6
<1>5. CASE ReturnAdded \/ ReturnIndex
  <2>1. /\ srs' = srs \/ srs' = add_lagrange_basis(srs, Domain(call.n))
        /\ foreign' = foreign /\ answer' = answer
    BY <1>5 DEF ReturnAdded, ReturnIndex, aux
  <2>2. SrsRight(srs', foreign')
    BY <1>4, <1>5, <2>1, MadeIsRight DEF ReturnAdded, ReturnIndex
  <2> QED
    BY <1>2, <2>1, <2>2 DEF SrsInv, AnswersAreComputed
<1>6. CASE ReturnCommitment \/ ReturnBasis
  <2>1. /\ call.op # "create_parallel"
        /\ srs' = add_lagrange_basis(srs, Domain(call.n)) /\ foreign' = foreign
    BY <1>6 DEF ReturnCommitment, ReturnBasis
  <2>2. PICK d, C :
          /\ d \in Depths
          /\ srs' = MadeOf(d, C) /\ CacheOK(d, C, foreign) /\ Domain(call.n) \in DOMAIN C
    BY <1>4, <2>1
  <2>3. SrsOK'
    BY <1>2, <2>1, <2>2, MadeIsRight
  <2>4. call.n \in 1..8 /\ Domain(Domain(call.n)) = Domain(call.n)
    BY <1>4, <2>1
  <2>5. Right(answer')
    <3>1. CASE ReturnCommitment
      <4>1. answer' = Found(MadeOf(d, C), Domain(call.n), call.n)
        BY <2>1, <2>2, <3>1 DEF ReturnCommitment
      <4> QED
        BY <2>2, <2>4, <4>1, FoundIsRight
    <3>2. CASE ReturnBasis /\ call.n \in DOMAIN C
      <4>1. DOMAIN MadeOf(d, C).lagrange_bases = DOMAIN C
        BY DEF MadeOf
      <4>2. answer' = Found(MadeOf(d, C), call.n, call.n)
        BY <2>1, <2>2, <3>2, <4>1 DEF ReturnBasis
      <4> QED
        BY <2>2, <2>4, <3>2, <4>2, FoundIsRight
    <3>3. CASE ReturnBasis /\ call.n \notin DOMAIN C
      <4>1. DOMAIN MadeOf(d, C).lagrange_bases = DOMAIN C
        BY DEF MadeOf
      <4>2. answer' = [why |-> "no basis", n |-> call.n]
        BY <2>1, <2>2, <3>3, <4>1 DEF ReturnBasis
      <4>3. Domain(call.n) # call.n
        BY <2>2, <3>3
      <4> QED
        BY <4>2, <4>3, PanicIsRight
    <3> QED
      BY <1>6, <3>1, <3>2, <3>3
  <2>6. AnswersAreComputed'
    BY <2>5 DEF AnswersAreComputed, Right
  <2> QED
    BY <2>3, <2>6 DEF SrsInv
<1> QED
  BY <1>3, <1>5, <1>6 DEF CallReturns

\* A basis that JavaScript puts in affects the size that it is put under.
LEMMA SrsInvSet ==
    ASSUME SrsInv, NEW n \in Sizes, NEW basis, caml_fp_srs_set_lagrange_basis(n, basis)
    PROVE  SrsInv'
<1>1. /\ call' = None /\ answer' = answer /\ SrsRight(srs, foreign)
      /\ n \in 1..8
  BY SizesAssumption DEF caml_fp_srs_set_lagrange_basis, SrsInv, SrsOK
<1>2. PICK d, B : d \in Depths /\ srs = MadeOf(d, B) /\ CacheOK(d, B, foreign)
  BY <1>1 DEF SrsRight
<1>3. PICK C : C = With(B, n, basis)
  OBVIOUS
<1>4. /\ DOMAIN C = DOMAIN B \cup {n} /\ C[n] = basis
      /\ \A k \in DOMAIN B \ {n} : C[k] = B[k]
  <2>1. /\ DOMAIN With(B, n, basis) = DOMAIN B \cup {n} /\ With(B, n, basis)[n] = basis
        /\ \A k \in DOMAIN B \ {n} : With(B, n, basis)[k] = B[k]
    BY DEF With
  <2> QED
    BY <1>3, <2>1, Zenon
<1>5. srs' = MadeOf(d, C)
  BY <1>2, <1>3, CacheReplaced DEF caml_fp_srs_set_lagrange_basis
<1>6. Basis(srs, Domain(n)) = BasisOf(d, Domain(n))
  BY <1>2 DEF Basis, MadeOf, BasisOf
<1>7. foreign' = IF basis = BasisOf(d, Domain(n)) THEN foreign \ {n} ELSE foreign \cup {n}
  BY <1>6 DEF caml_fp_srs_set_lagrange_basis
<1>8. CacheOK(d, C, foreign')
  BY <1>1, <1>2, <1>4, <1>7 DEF CacheOK
<1>9. SrsRight(srs', foreign')
  BY <1>2, <1>5, <1>8, MadeIsRight
<1> QED
  BY <1>1, <1>9 DEF SrsInv, SrsOK, AnswersAreComputed

\* Every step.
LEMMA SrsInvNext == SrsInv /\ [Next]_vars => SrsInv'
<1> SUFFICES ASSUME SrsInv, [Next]_vars PROVE SrsInv'
  OBVIOUS
<1>1. SrsOK /\ AnswersAreComputed
  BY DEF SrsInv
<1>2. CASE UNCHANGED <<call, srs, aux>>
  BY <1>1, <1>2 DEF SrsInv, SrsOK, AnswersAreComputed, aux
<1>3. CASE PoolStep
  <2>1. UNCHANGED <<call, srs, aux>>
    BY <1>3 DEF PoolStep, init_thread_pool, build, exit_thread_pool, WorkerReady,
                wbg_rayon_start_worker, WorkerEnds
  <2> QED
    BY <1>2, <2>1
<1>4. ASSUME NEW depth \in Depths, caml_fp_srs_create(depth) PROVE SrsInv'
  <2>1. SrsRight(srs', foreign') /\ call' = None /\ answer' = answer
    BY <1>4, NewSrs, MadeIsRight DEF caml_fp_srs_create
  <2> QED
    BY <1>1, <2>1 DEF SrsInv, SrsOK, AnswersAreComputed
<1>5. ASSUME NEW n \in Sizes, verifier_index_create(n) PROVE SrsInv'
  <2>1. PICK d, B : d \in Depths /\ srs = MadeOf(d, B) /\ CacheOK(d, B, foreign)
    BY <1>1, <1>5 DEF verifier_index_create, SrsOK, SrsRight
  <2>2. Domain(n) \in DomainSizes
    BY SizesAssumption, DomainRounds
  <2>3. /\ srs' = MadeOf(d, Added(d, B, Domain(n)))
        /\ CacheOK(d, Added(d, B, Domain(n)), foreign)
    BY <1>5, <2>1, <2>2, AddBasis DEF verifier_index_create
  <2>4. call' = None /\ answer' = answer /\ foreign' = foreign
    BY <1>5 DEF verifier_index_create, aux
  <2>5. SrsRight(srs', foreign')
    BY <2>1, <2>3, <2>4, MadeIsRight
  <2> QED
    BY <1>1, <2>4, <2>5 DEF SrsInv, SrsOK, AnswersAreComputed
<1>6. ASSUME NEW n \in Sizes, caml_fp_srs_maybe_lagrange_commitment(n) PROVE SrsInv'
  <2>1. PICK d, B : d \in Depths /\ srs = MadeOf(d, B) /\ CacheOK(d, B, foreign)
    BY <1>1, <1>6 DEF caml_fp_srs_maybe_lagrange_commitment, SrsOK, SrsRight
  <2>2. UNCHANGED <<call, srs, foreign>> /\ n \in 1..8
    BY <1>6, SizesAssumption DEF caml_fp_srs_maybe_lagrange_commitment
  <2>3. DOMAIN srs.lagrange_bases = DOMAIN B
    BY <2>1 DEF MadeOf
  <2>4. answer' = answer \/ Right(answer')
    <3>1. CASE n \in DOMAIN B
      <4>1. answer' = Found(MadeOf(d, B), n, n)
        BY <1>6, <2>1, <2>3, <3>1 DEF caml_fp_srs_maybe_lagrange_commitment
      <4> QED
        BY <2>1, <2>2, <3>1, <4>1, FoundIsRight
    <3>2. CASE n \notin DOMAIN B
      BY <1>6, <2>3, <3>2 DEF caml_fp_srs_maybe_lagrange_commitment
    <3> QED
      BY <3>1, <3>2
  <2>5. AnswersAreComputed'
    <3>1. CASE answer' = answer
      BY <1>1, <3>1 DEF AnswersAreComputed
    <3>2. CASE Right(answer')
      BY <3>2 DEF AnswersAreComputed, Right
    <3> QED
      BY <2>4, <3>1, <3>2
  <2> QED
    BY <1>1, <2>2, <2>5 DEF SrsInv, SrsOK
<1>7. ASSUME NEW n \in Sizes, NEW basis \in store, caml_fp_srs_set_lagrange_basis(n, basis)
      PROVE  SrsInv'
  BY <1>7, SrsInvSet
<1>8. CASE Restart
  <2>1. call' = None /\ answer' = answer /\ foreign' = {}
    BY <1>8 DEF Restart
  <2>2. srs' # None => SrsRight(srs', foreign')
    <3> SUFFICES ASSUME srs' # None PROVE SrsRight(srs', foreign')
      OBVIOUS
    <3>1. srs # None /\ srs' = caml_fp_srs_set(caml_fp_srs_get(srs))
      BY <1>8 DEF Restart
    <3>2. PICK d, B : d \in Depths /\ srs = MadeOf(d, B)
      BY <1>1, <3>1 DEF SrsOK, SrsRight
    <3>3. srs' = MadeOf(d, <<>>)
      BY <3>1, <3>2, PointsTravel
    <3> QED
      BY <2>1, <3>2, <3>3, NewSrs, MadeIsRight
  <2> QED
    BY <1>1, <2>1, <2>2 DEF SrsInv, SrsOK, AnswersAreComputed
<1>9. ASSUME NEW op \in Ops, NEW n \in IF op = "create_parallel" THEN Depths ELSE Sizes,
             run_in_pool(op, n)
      PROVE  SrsInv'
  <2>1. UNCHANGED <<srs, foreign>> /\ ((srs = None) <=> (op = "create_parallel"))
    BY <1>9 DEF run_in_pool
  <2>2. CASE THREAD_POOL = 0
    <3>1. call' = call /\ answer' = [why |-> "no pool", n |-> n]
      BY <1>9, <2>2 DEF run_in_pool
    <3>2. Right(answer')
      <4>1. Right([why |-> "no pool", n |-> n])
        BY PanicIsRight
      <4> QED
        BY <3>1, <4>1
    <3>3. AnswersAreComputed'
      BY <3>2 DEF AnswersAreComputed, Right
    <3> QED
      BY <1>1, <2>1, <3>1, <3>3 DEF SrsInv, SrsOK
  <2>3. CASE THREAD_POOL # 0
    <3>1. call' = [op |-> op, n |-> n] /\ answer' = answer
      BY <1>9, <2>3 DEF run_in_pool
    <3>2. call'.op = op /\ call'.n = n
      BY <3>1
    <3>3. SrsOK'
      BY <1>1, <2>1, <3>2 DEF SrsOK
    <3> QED
      BY <1>1, <3>1, <3>3 DEF SrsInv, AnswersAreComputed
  <2> QED
    BY <2>2, <2>3
<1>10. CASE CallReturns
  BY <1>10, SrsInvReturns
<1>11. CASE UNCHANGED vars
  BY <1>2, <1>11 DEF vars
<1> QED
  BY <1>3, <1>4, <1>5, <1>6, <1>7, <1>8, <1>9, <1>10, <1>11 DEF Next, SrsStep

\* Whatever JavaScript stores and puts in, unchecked (set_lagrange_basis), under any
\* size of SRSs of any depth: the program is given the basis of its own SRS exactly
\* where no other one was put, and points that travel to another instance arrive as
\* they were.
THEOREM AnswersAlwaysComputed == Spec => []AnswersAreComputed
<1>1. Init => SrsInv
  BY DEF Init, SrsInv, SrsOK, AnswersAreComputed
<1>2. SrsInv => AnswersAreComputed
  BY DEF SrsInv
<1> QED
  BY <1>1, <1>2, SrsInvNext, PTL DEF Spec
=============================================================================
