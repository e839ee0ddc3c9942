------------------------------ MODULE KimchiWasm ------------------------------
(***************************************************************************)
(* The WebAssembly build of the Kimchi bindings at run time: the thread     *)
(* pool in which the expensive calls run, and the SRS with its cache of     *)
(* Lagrange bases, which JavaScript can take out, store and put back in a   *)
(* later process.                                                           *)
(*                                                                          *)
(* JavaScript is one thread, and a call into the pool blocks it.  What it   *)
(* does by itself (spawning and terminating workers, storing) is external   *)
(* and follows the comments of rayon.rs; which basis it puts where is its   *)
(* own choice.                                                              *)
(***************************************************************************)
EXTENDS Naturals, Sequences, FiniteSets

CONSTANTS
    NumThreads,   \* workers of a pool
    MaxGens,      \* bound on the pools started
    MaxRestarts,  \* bound on the restarts of the program
    Depths,       \* depths of SRSs
    Sizes,        \* domain sizes that a caller passes
    None          \* no SRS, no call

ASSUME SizesAssumption ==
    /\ NumThreads \in Nat \ {0} /\ MaxGens \in Nat /\ MaxRestarts \in Nat
    /\ Depths \subseteq Nat /\ Sizes \subseteq 1..8

VARIABLES
    THREAD_POOL,  \* the generation of the pool, or 0
    gen,          \* generation of the last PoolBuilder
    starting,     \* the promise of startWorkers is pending
    worker,       \* worker[g][w]: the state of worker w of generation g
    channel,      \* channel[g]: ThreadBuilders sent and not received
    call,         \* the call that JavaScript is blocked in, or None
    srs,          \* the SRS that the program uses, or None
    store,        \* the bases that JavaScript has stored
    answer,       \* auxiliary: the last commitment or basis handed out, or panic
    foreign,      \* auxiliary: the sizes under which JavaScript last put a basis
                  \* that is not the one of the SRS for the domain of this size
    restarts

pool == <<THREAD_POOL, gen, starting, worker, channel>>

aux == <<answer, foreign>>

vars == <<pool, call, srs, store, aux, restarts>>

Gens == 1..MaxGens

Workers == 1..NumThreads

-----------------------------------------------------------------------------
(* The SRS.                                                                 *)

\* EvaluationDomain::new rounds the size up to a power of two.
Domain(size) == CHOOSE d \in {1, 2, 4, 8} : size <= d /\ \A e \in {1, 2, 4, 8} : size <= e => d <= e

\* The points of an SRS: h and then the g's; they depend on the depth alone.
SRS(depth) == [h |-> 0, g |-> [n \in 1..depth |-> n], lagrange_bases |-> <<>>]

\* A basis is named after the points and the domain it was computed for.
Basis(r, d) == [h |-> r.h, g |-> r.g, domain |-> d]

With(bases, d, basis) == [e \in DOMAIN bases \cup {d} |-> IF e = d THEN basis ELSE bases[e]]

\* A basis is computed unless there is one for the domain.
add_lagrange_basis(r, d) ==
    IF d \in DOMAIN r.lagrange_bases THEN r
    ELSE [r EXCEPT !.lagrange_bases = With(@, d, Basis(r, d))]

\* h and the g's in one vector, and back; the cache does not travel with them.
caml_fp_srs_get(r) == <<r.h>> \o r.g

\* Faulty: the generator h stays among the g's.
FaultySrsSet(h_and_gs) == [h |-> Head(h_and_gs), g |-> h_and_gs, lagrange_bases |-> <<>>]

caml_fp_srs_set(h_and_gs) ==
    [h |-> Head(h_and_gs), g |-> Tail(h_and_gs), lagrange_bases |-> <<>>]

-----------------------------------------------------------------------------
(* The pool.                                                                *)

Init ==
    /\ THREAD_POOL = 0 /\ gen = 0 /\ starting = FALSE
    /\ worker = [g \in Gens |-> [w \in Workers |-> "absent"]]
    /\ channel = [g \in Gens |-> 0]
    /\ call = None /\ srs = None
    /\ store = {} /\ answer = None /\ foreign = {} /\ restarts = 0

\* initThreadPool makes a PoolBuilder with a channel of its own, and startWorkers
\* spawns the workers.  That JavaScript starts one pool at a time, and none while
\* there is one, is assumed of it: rayon.rs does not check.
init_thread_pool ==
    /\ call = None /\ ~starting /\ THREAD_POOL = 0 /\ gen < MaxGens
    /\ gen' = gen + 1
    /\ starting' = TRUE
    /\ worker' = [worker EXCEPT ![gen + 1] = [w \in Workers |-> "loading"]]
    /\ UNCHANGED <<THREAD_POOL, channel, call, srs, store, aux, restarts>>

\* A worker has loaded the module and waits in wbg_rayon_start_worker.
WorkerReady(g, w) ==
    /\ worker[g][w] = "loading"
    /\ worker' = [worker EXCEPT ![g][w] = "waiting"]
    /\ UNCHANGED <<THREAD_POOL, gen, starting, channel, call, srs, store, aux, restarts>>

\* "This should be called by the JS side once all the Workers are spawned": one
\* ThreadBuilder is sent for every thread; nobody waits for them to be received.
build ==
    /\ starting /\ call = None
    /\ \A w \in Workers : worker[gen][w] = "waiting"
    /\ THREAD_POOL' = gen
    /\ starting' = FALSE
    /\ channel' = [channel EXCEPT ![gen] = NumThreads]
    /\ UNCHANGED <<gen, worker, call, srs, store, aux, restarts>>

\* Faulty: a worker looks at whatever channel has a ThreadBuilder.
FaultyStartWorker(g, w) ==
    /\ worker[g][w] = "waiting"
    /\ \E h \in Gens :
         /\ channel[h] > 0
         /\ channel' = [channel EXCEPT ![h] = @ - 1]
    /\ worker' = [worker EXCEPT ![g][w] = "running"]
    /\ UNCHANGED <<THREAD_POOL, gen, starting, call, srs, store, aux, restarts>>

\* A worker receives a ThreadBuilder on its own channel and runs it.
wbg_rayon_start_worker(g, w) ==
    /\ worker[g][w] = "waiting" /\ channel[g] > 0
    /\ channel' = [channel EXCEPT ![g] = @ - 1]
    /\ worker' = [worker EXCEPT ![g][w] = "running"]
    /\ UNCHANGED <<THREAD_POOL, gen, starting, call, srs, store, aux, restarts>>

\* Faulty: the pool is left while a call runs in it.
FaultyExit ==
    /\ THREAD_POOL # 0
    /\ THREAD_POOL' = 0
    /\ UNCHANGED <<gen, starting, worker, channel, call, srs, store, aux, restarts>>

\* The workers are told to terminate, the pool is dropped, and the promise of the
\* termination is returned.  That there is a pool is assumed of JavaScript.
exit_thread_pool ==
    /\ call = None /\ THREAD_POOL # 0
    /\ THREAD_POOL' = 0
    /\ UNCHANGED <<gen, starting, worker, channel, call, srs, store, aux, restarts>>

\* A worker of a dropped pool ends some time later.
WorkerEnds(g, w) ==
    /\ worker[g][w] \in {"waiting", "running"} /\ g # THREAD_POOL /\ ~(starting /\ g = gen)
    /\ worker' = [worker EXCEPT ![g][w] = "ended"]
    /\ UNCHANGED <<THREAD_POOL, gen, starting, channel, call, srs, store, aux, restarts>>

-----------------------------------------------------------------------------
(* Calls.                                                                   *)

Ops == {"create_parallel", "add_lagrange_basis", "lagrange_commitment",
        "get_lagrange_basis", "index_create", "proof_create"}

ASSUME NoneAssumption == None \notin [op : Ops, n : Depths \cup Sizes]

\* run_in_pool: without a pool it panics, otherwise the caller is blocked.
run_in_pool(op, n) ==
    /\ call = None
    /\ (srs = None) <=> (op = "create_parallel")
    /\ IF THREAD_POOL = 0
       THEN answer' = [why |-> "no pool", n |-> n] /\ UNCHANGED call
       ELSE call' = [op |-> op, n |-> n] /\ UNCHANGED answer
    /\ UNCHANGED <<pool, srs, store, foreign, restarts>>

\* What is found in the cache of the SRS r under a key, for the size n.
Found(r, key, n) ==
    [why |-> "found", n |-> n, basis |-> r.lagrange_bases[key],
     of |-> [h |-> r.h, g |-> r.g], foreign |-> key \in foreign]

\* create_parallel returns a new SRS.
ReturnSrs ==
    /\ call.op = "create_parallel"
    /\ srs' = SRS(call.n) /\ foreign' = {}
    /\ UNCHANGED <<store, answer>>

\* add_lagrange_basis, and proof_create, which adds the basis of its index first.
ReturnAdded ==
    /\ call.op \in {"add_lagrange_basis", "proof_create"}
    /\ srs' = add_lagrange_basis(srs, Domain(call.n))
    /\ UNCHANGED <<store, aux>>

\* The basis is added once the constraint system is built; if it cannot be built, the
\* call returns an error before that.
ReturnIndex ==
    /\ call.op = "index_create"
    /\ srs' \in {srs, add_lagrange_basis(srs, Domain(call.n))}
    /\ UNCHANGED <<store, aux>>

\* The commitment is looked up under the rounded size, where it was added.
ReturnCommitment ==
    /\ call.op = "lagrange_commitment"
    /\ LET r == add_lagrange_basis(srs, Domain(call.n))
       IN  /\ srs' = r
           /\ answer' = Found(r, Domain(call.n), call.n)
    /\ UNCHANGED <<store, foreign>>

\* The basis is added under the rounded size but looked up under the one that was
\* passed, which panics if there is none.  JavaScript stores what it is given.
ReturnBasis ==
    /\ call.op = "get_lagrange_basis"
    /\ LET r == add_lagrange_basis(srs, Domain(call.n))
       IN  /\ srs' = r
           /\ IF call.n \in DOMAIN r.lagrange_bases
              THEN /\ answer' = Found(r, call.n, call.n)
                   /\ store' = store \cup {r.lagrange_bases[call.n]}
              ELSE /\ answer' = [why |-> "no basis", n |-> call.n]
                   /\ UNCHANGED store
    /\ UNCHANGED foreign

\* A worker of the pool has run the call and JavaScript goes on.
CallReturns ==
    /\ call # None
    /\ \E w \in Workers : worker[THREAD_POOL][w] = "running"
    /\ ReturnSrs \/ ReturnAdded \/ ReturnIndex \/ ReturnCommitment \/ ReturnBasis
    /\ call' = None
    /\ UNCHANGED <<pool, restarts>>

-----------------------------------------------------------------------------
(* Calls that do not need the pool.                                         *)

caml_fp_srs_create(depth) ==
    /\ call = None /\ srs = None
    /\ srs' = SRS(depth) /\ foreign' = {}
    /\ UNCHANGED <<pool, call, store, answer, restarts>>

\* The basis of a verifier index is added outside of the pool.
verifier_index_create(n) ==
    /\ call = None /\ srs # None
    /\ srs' = add_lagrange_basis(srs, Domain(n))
    /\ UNCHANGED <<pool, call, store, aux, restarts>>

\* A cached commitment, under the size that is passed, or nothing.
caml_fp_srs_maybe_lagrange_commitment(n) ==
    /\ call = None /\ srs # None
    /\ answer' = IF n \in DOMAIN srs.lagrange_bases THEN Found(srs, n, n) ELSE answer
    /\ UNCHANGED <<pool, call, srs, store, foreign, restarts>>

\* JavaScript puts in a basis, under a size; nothing is checked, and a basis that is
\* there is replaced.
caml_fp_srs_set_lagrange_basis(n, basis) ==
    /\ call = None /\ srs # None
    /\ srs' = [srs EXCEPT !.lagrange_bases = With(@, n, basis)]
    /\ foreign' = IF basis = Basis(srs, Domain(n)) THEN foreign \ {n} ELSE foreign \cup {n}
    /\ UNCHANGED <<pool, call, store, answer, restarts>>

\* JavaScript starts another instance of itself, which has no pool yet, no SRS or one
\* made from the points of this one, and the bases that were stored.
Restart ==
    /\ call = None /\ restarts < MaxRestarts
    /\ restarts' = restarts + 1
    /\ THREAD_POOL' = 0 /\ gen' = 0 /\ starting' = FALSE
    /\ worker' = [g \in Gens |-> [w \in Workers |-> "absent"]]
    /\ channel' = [g \in Gens |-> 0]
    /\ srs' \in {None} \cup (IF srs = None THEN {} ELSE {caml_fp_srs_set(caml_fp_srs_get(srs))})
    /\ foreign' = {}
    /\ UNCHANGED <<call, store, answer>>

PoolStep ==
    \/ init_thread_pool \/ build \/ exit_thread_pool
    \/ \E g \in Gens, w \in Workers :
         WorkerReady(g, w) \/ wbg_rayon_start_worker(g, w) \/ WorkerEnds(g, w)

SrsStep ==
    \/ \E depth \in Depths : caml_fp_srs_create(depth)
    \/ \E n \in Sizes : verifier_index_create(n) \/ caml_fp_srs_maybe_lagrange_commitment(n)
    \/ \E n \in Sizes, basis \in store : caml_fp_srs_set_lagrange_basis(n, basis)

Next ==
    \/ PoolStep \/ SrsStep \/ Restart
    \/ \E op \in Ops : \E n \in IF op = "create_parallel" THEN Depths ELSE Sizes :
         run_in_pool(op, n)
    \/ CallReturns

\* A browser runs its workers, and a worker that has a job finishes it.
Fairness ==
    /\ WF_vars(CallReturns)
    /\ \A g \in Gens, w \in Workers : WF_vars(wbg_rayon_start_worker(g, w))

Spec == Init /\ [][Next]_vars /\ Fairness

-----------------------------------------------------------------------------
(* Properties                                                               *)

Calls == INSTANCE PooledCalls WITH up <- THREAD_POOL # 0, calling <- call # None

\* The pool keeps its promise: no call runs without a pool, the pool is not stopped
\* under a call, and a call that was accepted returns, although the pool accepts
\* calls before any of its workers has started to run.
PoolKeepsItsPromise == Calls!Spec

\* No thread of a pool is lost or taken by a worker of another pool: while a pool is
\* up, a ThreadBuilder is on its way to every worker that is not running yet, also
\* when workers of pools that were left are still about.
ThreadsReachTheirWorkers ==
    THREAD_POOL # 0 =>
      LET waiting == {w \in Workers : worker[THREAD_POOL][w] = "waiting"}
          running == {w \in Workers : worker[THREAD_POOL][w] = "running"}
      IN  /\ waiting \cup running = Workers
          /\ channel[THREAD_POOL] = Cardinality(waiting)

\* A commitment or basis that the program is given is the one of its SRS for the
\* domain of the size it passed, also after the points were taken out and put back,
\* except exactly when it is looked up where JavaScript has put a basis of other points
\* or of another domain and no right one since.  Such a basis affects no other size
\* and no SRS but this.  A basis fails to be found only for a size that is not that of
\* a domain.
AnswersAreComputed ==
    answer # None =>
      /\ answer.why = "found" =>
           /\ answer.of \in {[h |-> 0, g |-> [n \in 1..d |-> n]] : d \in Depths}
           /\ answer.basis = [h |-> answer.of.h, g |-> answer.of.g, domain |-> Domain(answer.n)]
                <=> ~answer.foreign
      /\ answer.why = "no basis" => Domain(answer.n) # answer.n
=============================================================================
