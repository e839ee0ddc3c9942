# A TLA+ model of parts of the Mina node

The repository is the Mina node: an OCaml daemon (`src/src/lib`, `src/src/app`)
with some Go and Rust beside it. This directory models three parts of it:

1. the part that decides which chain a node follows and that keeps that chain on
   disk (transition frontier and chain selection, OCaml);
2. the bindings through which OCaml and JavaScript programs use the Kimchi prover
   (`crypto/kimchi_bindings`, Rust): who owns what, how values are represented on
   either side, the thread pool of the WebAssembly build;
3. the tool that reads the daemon's trace files (`src/src/app/trace-tool`, Rust).

The modules are translated from the source; `PROJECT.json` maps each definition to
its lines. Paths below are relative to `src/src/lib`.

## The system

A block that reaches a node passes through these parts:

| part | state | operations | interacts with |
| --- | --- | --- | --- |
| gossip and RPC (`mina_networking`, `gossip_net`, `mina_net2`) | peers, subscriptions | receive, send | the router; the libp2p helper process |
| transition router (`transition_router`) | current frontier, pipes | load at start, bootstrap trigger, close | frontier, bootstrap controller |
| transition handler (`transition_handler`) | unprocessed cache, catchup scheduler | validate, process, schedule catchup | frontier, catchup |
| ledger catchup, downloader | job tree, downloads | fetch and verify missing blocks | handler, network |
| **full frontier** (`transition_frontier/full_frontier`) | table of nodes, root, best tip, root ledger, protocol states | `calculate_diffs`, `apply_diffs`, `move_root` | consensus, persistent root, extensions |
| **persistent frontier** (`transition_frontier/persistent_frontier`) | database, diff buffer, flush job | `write`, `flush`, `perform`, `check`, `load_full_frontier`, `reset_database_exn` | background worker, persistent root |
| **persistent root** (`transition_frontier/persistent_root`) | snarked ledger on disk, queue of checkpoints, root identifier | enqueue, dequeue, `load_from_disk`, `reset_to_genesis_exn` | full frontier (mutates the ledger), worker (dequeues) |
| **extensions** (`transition_frontier/extensions`) | root history, work reference counts, best tip diff | `handle_diffs` | frontier; transaction pool, snark pool, RPC |
| **chain selection** (`consensus/proof_of_stake.ml`) | consensus state of each block | `update`, `select` | frontier, router, bootstrap |
| bootstrap controller (`bootstrap_controller`) | sync target, transition cache | sync ledger, scan state, local state; reload | persistent root and frontier |
| scan state, staged ledger, pools, work selector, block producer | see "Not modelled" | | |

The prover and the tools beside it:

| part | state | operations | interacts with |
| --- | --- | --- | --- |
| **native objects** (`crypto/kimchi_bindings/stubs`) | SRS with cached Lagrange bases, field vectors, gate vectors, prover and verifier indexes, key files | create, read, write, prove, verify, finalize | OCaml's collector and threads; `arkworks` and `kimchi` (external) |
| **representations of keys and proofs** (`stubs`, `wasm`) | none: conversions | to and from OCaml records, JavaScript objects, flat vectors, files, JSON | js_of_ocaml |
| **field elements and integers** (`stubs/src/arkworks`, `wasm/src/arkworks`) | none | parse, print, bytes, arithmetic, other field | all of the above |
| **wasm thread pool and SRS cache** (`wasm/src/rayon.rs`, `wasm/src/srs.rs`) | the pool, its channel, its workers; the SRS | `initThreadPool`, `build`, `exitThreadPool`, calls in the pool | JavaScript, which spawns workers and stores bases |
| **trace tool** (`app/trace-tool`) with the daemon's plugin (`o1trace/webkit_event`) | the maps of a fold over events | write an event; read a file | a trace viewer |

What is hard about the bold parts, and what correctness means for each:

* **Full frontier.** One thread, but two representations of the same tree (parent
  hashes in the blocks; lengths and successor lists in the nodes), garbage that is
  calculated before and removed after a node is added, and a ledger that is
  mutated on some root transitions only. Correct: the table is a tree, bounded by
  `max_length`; the best tip is in it and beats everything in it; the root's
  ledger and protocol states fit the root; a root is `max_length` deep when it
  becomes final.
* **Persistent frontier and root.** Four things on disk are written by two
  interleaved activities, in several steps, with no transaction across them; the
  process may die between any two. Correct: the database is an exact lagging copy;
  the ledger that its root needs can be found; a restart decides between running,
  bootstrapping and failing; what runs afterwards is sound.
* **Extensions.** They see the diffs in reverse order and the frontier after all
  of them. Correct: they agree with the frontier after each block.
* **Chain selection.** An incrementally maintained ring of densities, checkpoints
  that are inherited, two comparison rules and nested tie breaks. Correct: the
  densities count blocks; of two chains exactly one is preferred, by all nodes; a
  chain is preferred to a part of itself.
* **Native objects.** An SRS is shared by reference count between objects that the
  collector finalizes in any order; its cache is written through a shared
  reference; a proof runs with the runtime lock released while its arguments stay
  mutable; keys go through files that a kill may leave torn. Correct: nothing is
  freed under a user or leaked; the bases of made keys and of running proofs exist; a
  proof answers its call and, wherever its basis is found, verifies under the keys of
  its index.
* **Representations.** Neither build keeps all that Rust needs: features, the
  linearization and the shifts or the domain are derived again when a key comes
  back. Vectors of pairs travel as pairs of vectors, challenges as one flat vector.
  Correct: what comes back is what was sent, or an error.
* **Field elements.** Two builds, two fields of different orders, two memory forms.
  Correct: a number keeps its value, or is refused.
* **Thread pool.** Workers are spawned by JavaScript, receive their threads through
  a channel when they get round to it, and outlive the pool. Correct: accepted calls
  return; no thread is lost to a worker of another pool. Bases may be stored and put
  back unchecked. Correct: what the program is given is the basis of its SRS, unless
  JavaScript put another one there.
* **Trace tool.** The plugin leaves events out, is switched on and off in the middle
  of a cycle, and may be killed. Correct: the bars are within a cycle, belong to the
  task that ran, and are one row for each recurring task.

## Modules

| module | models |
| --- | --- |
| `BlockTree` | the blocks on offer, as constants: parent, height, emitted proof, required protocol states |
| `FullFrontier` | the in-memory frontier; `Select` is a parameter |
| `PersistentFrontier` | extends `FullFrontier` (its state, diffs and `AddBreadcrumb`) with everything on disk, the worker, crashes, load, reset, bootstrap |
| `Extensions` | extends `FullFrontier` with root history, snark pool refcount and best tip diff |
| `ProofOfStake` | consensus states and `select`, on a growing tree of blocks |
| `KimchiStubs` | the objects of the native prover bindings, OCaml's threads and collector, the key file |
| `OcamlSerde` | how values cross between Rust and js_of_ocaml: the serde format and the flat vectors (operators only) |
| `PastaNumbers` | one number on its way through the conversions and the arithmetic of both fields and both builds |
| `PlonkConversions` | extends `OcamlSerde` and `PastaNumbers` with verification keys and proofs in both builds |
| `PooledCalls` | abstract: what the wasm thread pool promises to JavaScript |
| `KimchiWasm` | the wasm thread pool, its workers, and the SRS with stored bases; implements `PooledCalls` |
| `TraceTool` | the trace tool's fold over a file, and the plugin that writes the file |
| `FullFrontierProofs` | lemmas about ancestry, and the theorems about `FullFrontier` |
| `PersistentFrontierProofs` | the theorems about `PersistentFrontier`; extends `FullFrontierProofs` |
| `ExtensionsProofs` | the theorems about `Extensions`; extends `FullFrontierProofs` |
| `ProofOfStakeProofs` | the theorems about `ProofOfStake` |
| `KimchiStubsProofs` | the theorems about `KimchiStubs` |
| `KimchiWasmProofs` | the theorems about `KimchiWasm` |
| `TraceToolProofs` | the theorems about `TraceTool` |
| `PlonkConversionsProofs` | the theorems about `PlonkConversions` and `PastaNumbers` |
| `MC*` | the instances for TLC |

Definitions and variables keep the names of the source. A definition whose
comment begins with "Faulty" is a deliberately wrong version of the one after it;
the properties are tried against these to see that they notice.

### FullFrontier

`table`, `root`, `best_tip`, `root_ledger` and `protocol_states` are the mutable
fields of `Full_frontier.t`. A block is identified with its state hash. A ledger is
the set of blocks whose emitted proofs have been applied to it, so
`SnarkedLedger(b)` is what the protocol state of `b` commits to. A scan state is
the set of protocol states its transactions refer to.

`AddBreadcrumb(b)` is `add_breadcrumb_exn` down to `apply_diffs`: there is no
yield in between, so it is one action. `CalculateDiffs` is `calculate_diffs` and
the diffs are records with the fields of `Diff.t`. The masks that chain the staged
ledgers, metrics and logs are left out. A repeated block is accepted, and changes
the table no more than it does in the code.

### PersistentFrontier

The disk is `db`, `root_ledger`, `potential` (the checkpoints, as a queue of
ledgers), `root_id`. `phase` is the place in the code the process has reached;
every write to disk is a step of its own, and `Crash` may come before each.

* Adding a block that moves the root takes three steps, in the order of the
  writes: `BeginMoveRoot` (checkpoint and enqueue), `CommitRoot` (the ledger is
  mutated), `IdentifyRoot` (root identifier, then `Diff_buffer.write`). No other
  step of the process comes in between, since the code does not yield there.
* The worker takes a batch (`flight`), dequeues one checkpoint for each emitted
  proof (`WorkerDequeue`) and writes the batch atomically (`WorkerWrite`), as RocksDB
  does. A batch is compressed as `perform` does it. If some parent's arcs are
  missing the batch is dropped; if the arcs cache misses, the daemon dies.
* `Close` and `FinishClose` are `Transition_frontier.close`, called by the shutdown
  handler and by the router before a bootstrap.
* `CheckDatabase` to `RebuildFails` are `load_with_max_length` with its one retry,
  the reset to genesis, `load_from_disk`, `fast_forward` and `load_full_frontier`.
  `RebuildFails` may happen whenever the breadcrumbs are rebuilt.
* `BootstrapSync` to `BootstrapRootIdentifier` are the bootstrap controller's
  effects on the disk, for any block as the new root, with failing cycles.

`overwritten` is auxiliary: no action reads it. It marks a disk on which a
bootstrap was cut short, where nothing can be promised about the old database. A
reset, a load that succeeds and a bootstrap that completes take the mark away.

Abstractions: a write of a file or of a RocksDB batch is atomic and does not fail;
removing several directories in a row is one step (a half removed list of
checkpoints behaves like a removed one, since a missing directory is opened as an
empty ledger, which matches nothing); the temporary copy that `load_from_disk`
makes of a checkpoint is not state; `` `Invalid_version `` and
`` `Genesis_state_mismatch `` lead where `` `Not_initialized `` does and are not
distinguished from it.

### Extensions

`AddAndNotify` is the frontier's step together with `Extensions.notify`. Lookups
are made in the primed table because notify runs after `apply_diffs`.
`best_chain` adds the views of `best_tip_diff` up, as the transaction pool does.
`Works` gives the work statements of each block's scan state, and nothing is assumed
about it: the statement of a merge job is about the transactions of common ancestors
(`transaction_snark_scan_state.ml:1234`), so that two forks may need the same one. The
old best tip is looked up in the new table; if it is not there, `raised` is set and
`best_chain` stays as it was. A repeated block is not handed to the extensions in
this module; what it does to the frontier is in the theorems about `FullFrontier`, and
what it does to the disk in the run `repeated_block`.

### ProofOfStake

`states` and `parent` are the consensus states and the previous state hashes of
all blocks that exist anywhere in the network. `Produce` adds a block with the
state `Consensus_state.update` gives it. Of the epoch data only the lock
checkpoints are kept. Hashes and VRF outputs are numbers, as `select` only compares
them. `negative_one` and the genesis block are as in the code; genesis has
slot 0. The update would allow a second block in slot 0 on top of genesis; the
blocks on offer start at slot 1.

### KimchiStubs

`srs`, `vec`, `gates`, `index`, `key` are the Rust objects behind OCaml blocks. A
circuit is the sequence of its gates, a gate is whether its wire was redirected, and a
domain is its logarithm. An SRS has a reference count and the set of domains whose
bases are cached. `job[t]` is the proof that thread `t` computes between
`release_runtime_system` and the reacquisition: `ProofCreate` is everything before,
`ProofReturns` everything after. Every other function of the bindings runs with the
lock held and is one action. `file` is the key file, `Kill` may tear its last object.
`Verify` has three outcomes: a proof of another circuit is rejected; the verifier looks
the basis of its domain up in the SRS and does not add it, so that without it the call
panics (a key from a file, in a process that has not computed the basis); otherwise the
proof is accepted.

The Fp and the Fq half of the bindings are the same program twice; `curve` chooses
one of them (only the Fp half has `create_and_verify` and the example functions).

Assumptions: a call roots its arguments, so that the collector does not finalize
them under it (OCaml's calling convention); a Rust panic leaves the function as an
error does; the key file exists from the start, since appending does not create it.
A basis inserted while a proof reads the map is a data race, and
the proof that was being computed is then either right or not.

### OcamlSerde, PastaNumbers, PlonkConversions

`Serialize` and `Deserialize` follow `ser.rs` and `de.rs`, directed by a Rust type.
The layout (leading zero, index of a field, an option as an array of two) is kept
exactly. Serde handles one layer of a value and calls itself for the parts; here an
operator handles a layer, given the results for the parts (`Serializer`,
`Deserializer`), and is applied six times, which is the depth of `ProofEvaluations`,
the deepest type that crosses (the field `lookup_sorted`, an array of options). A value of a deeper type has no type in the model. A flat
vector and the vector of all challenges are written in closed form (byte `n` belongs to
element `(n-1) div 2`); `MCPlonkConversions` has TLC compare them with the loops of the
code, which fill and empty a buffer.

A key is a record with the fields of its Rust, OCaml or JavaScript type; a commitment
is named after what it commits to, so that one that ends up in another field is
noticed. `key` and `text` wrap it with a mark for the dummy key, which is auxiliary.
The operations on a key are making it, taking it apart and putting it
together again (which is what OCaml code under js_of_ocaml does), deep copies, files
and JSON. `OfHost` is the conversion that every verification makes.

Earlier proofs reach `proof_create` as one vector of challenges and one of commitments.
Without challenges the commitments are dropped; challenges without commitments are a
division by zero (`CreateProofPanics`), after which nothing is returned. All earlier
proofs are taken to have the same number of challenges, as the callers have it.

Field elements are kept in Montgomery form, as in memory, over fields small enough
to enumerate; `Redc` is the reduction without its last subtraction, because an
element that was read from arbitrary bytes need not be reduced. `number.expected`
and `number.detours` are auxiliary: what the number should be, and which doubtful
conversions it went through.

### KimchiWasm, PooledCalls

`THREAD_POOL` is the pool in use, `worker[g][w]` a worker of the `g`-th pool and
`channel[g]` the ThreadBuilders that were sent to that pool and not received.
JavaScript is blocked in `call` and does nothing else meanwhile. What JavaScript does
by itself (spawning, terminating, storing bases, restarting) is external and follows
the comments in `rayon.rs` and the functions that are exported for it. Two of these are
assumptions on JavaScript that `rayon.rs` does not check: a pool is started only if none is
up or starting, and left only if one is up. (A second `build` would replace the first
pool, and leaving without a pool does nothing here.)

A basis is named after the points and the domain it was computed for. JavaScript may put
any basis it has stored into any SRS under any size, as `set_lagrange_basis` checks
nothing. `foreign` is auxiliary: the sizes under which what was put last is not what the
SRS would compute. `answer` is the last thing the program was given, or the last panic.
`PooledCalls` is the promise: up or not, calling or not. The refinement maps
`THREAD_POOL # 0` to `up` and `call # None` to `calling`.

### TraceTool

`Write` advances the tool's fold when the daemon writes an event: the state after a
prefix of a file depends on that prefix only, so each state shows what the tool makes of
a file that ends there. The daemon's side (`on_new_fiber`, `on_job_enter`,
`on_cycle_end`, `start_tracing`, `stop_tracing`) is the plugin's; the scheduler is
any sequence of cycles and jobs. Time is counted in cycles. `start_tracing` writes the
process id and then every fiber, in the order of a hash table: `announcing` holds the
fibers that are still to come, `iter_fibers` writes one of them, and no job runs
meanwhile, although the daemon may be killed. The three kinds of
events that the plugin can no longer write (its functions are commented out) are
written by `mark`, so that the tool's handling of them is covered.

## Runs

All runs finish within three minutes on two cores. `violation` runs check one statement that a
comment, a message, a document or a test makes and that the code does not keep.

| run | checks | shows |
| --- | --- | --- |
| `persistent_frontier` | `DatabaseMirrorsFrontier`, `CheckpointPerPendingProof`, `DatabaseRootLedgerOnDisk`, `RunningFrontierIsSound`, `AgreeingRootLoads`, `DatabaseNeverCorrupt`, `RootIdentifierMovesForward`, `CloseCompletes`, `LoadDecides` | the disk, with crashes everywhere |
| `extensions` | `TypeOK`, `FrontierIsTree`, `BoundedLength`, `BestTipStrongest`, `RootLedgerMatchesRoot`, `ProtocolStatesSuffice`, `FinalityIsMaxLengthDeep`, `HistoryIsChainOfRoots`, `HistoryCanBeServed`, `RefcountIsExact`, `RemovedWorkIsUnreferenced` | the frontier on a tree of 15 blocks with six forks, from every possible root, and its root history and work counts |
| `best_tip_reorg` | `BestTipDiffFollowsBestChain` | violated: a reorganisation that also moves the root past the old best tip makes `best_tip_diff` raise |
| `chain_selection` | `DensitiesCountBlocks`, `MinDensityIsLeastWindow`, `DescendantWins`, `SelectIsDecisive` | densities and preference on 50 404 block trees |
| `reset_crash` | `RootIdentifierWritten` | violated: a crash in `reset_to_genesis_exn` makes every later start raise |
| `repeated_block` | `FlushedDatabaseReloads` | violated: a block added twice loses its descendants on disk |
| `selection_order` | `SelectIsTransitive` | violated: `select` is not transitive |
| `kimchi_stubs` | `TypeOK`, `SrsOutlivesHolders`, `BasisIsThere`, `HonestProofsVerify`, `ProofsAnswerTheirCall` | two threads share the native objects while proofs run without the lock, blocks are finalized in any order, keys go through a file and the process is killed |
| `srs_race` | `NoInsertionWhileProving` | violated: "We're single-threaded" does not hold once the runtime lock is released |
| `conversions` | `KeysKeepTheirMeaning`, `ProofsSurviveTheBoundary`, `ValuesSurviveTheFormat`, `NumbersKeepTheirValue` | every short sequence of conversions of both builds; the exceptions are part of the properties, as equivalences |
| `wasm_pool` | `ThreadsReachTheirWorkers`, `AnswersAreComputed`, `PoolKeepsItsPromise` | pools that are left and started again with late workers about; bases computed, cached, or stored and put anywhere |
| `trace_tool` | `SlicesStayInTheirCycle`, `SwitchesAreFollowed`, `OneRowPerRecurringTask` | what the tool makes of every prefix of every file the plugin may write |

`persistent_frontier` runs without repeated blocks (`RepeatedBlocks = {}`), because
with them its copy is not exact: that is what `repeated_block` shows.

### Bounds

* `persistent_frontier`: `MaxLength` 2 and `FlushCapacity` 2 (so `BufferMax` 8); three root
  transitions, two of them with a proof; a batch contains up to two of them, so
  that compression, several dequeues and a full buffer happen. Crashes, restarts,
  resets and bootstraps are not bounded.
* `extensions`, `best_tip_reorg`: `MaxLength` 2, a history of four roots, and a chain that
  moves the root five times from genesis, so that the history overflows; forks are thrown
  away whole, in part, or win, and one of them needs a merge statement before the main
  chain does. Every block may be the root at the start, as after a load. A scan state keeps
  the transactions of a tree until its proof is emitted, so that a required protocol state
  is inherited before it is dropped.
* `chain_selection`: `SlotsPerEpoch` 3, windows of three sub-windows of two slots,
  `MaxSlot` 9, so that blocks fall into four epochs and skip more than a whole
  window; `MaxBlocks` 4, the smallest number with which two forks can each have
  blocks in two epochs; `GracePeriodSlots` 0, so that the grace period ends after one window.
  A block's hash is bigger than its parent's, which loses nothing, as only hashes
  of equally long chains are compared.

* `kimchi_stubs`: two threads (symmetric), one place each for an SRS, a vector, an index and
  a key. Places are used again after a finalizer or a kill, so that an index may
  outlive the SRS block it was made with, and the key the index. `MaxLen` 1, `MaxRows` 2 (both
  domains), `MaxFile` 1 and `MaxProofs` 1: a proof in progress and a proof kept are
  counted together. 1.3 million states; a second SRS is out of reach with them.
* `conversions`: all circuits over the seven optional gates, with and without
  runtime tables, with 3 or 5 zero-knowledge rows; four operations on each object;
  fields of order 11 and 13 with integers of 5 bits and words of 3, so that there are
  integers that are elements of one field only, of none, and numerals that do not fit.
* `wasm_pool`: two workers, two pools, one restart, SRSs of depth 2 and 4 (so that bases of
  the one can be put into the other). Two sizes, of which one is not that of a domain. Two pools are enough for a late worker of the one to meet the
  threads of the other; the theorems hold for any number.
* `trace_tool`: three fibers, three cycles, two sessions, one kill; recurring and plain
  tasks and one whose name is too long. Three cycles, since a switch may be left out
  because of the last fiber of the cycle before, in either session.

`CHECK_DEADLOCK FALSE` stands where the blocks, steps or cycles on offer run out. In
`PersistentFrontier` and `KimchiWasm` there is always a next step, and deadlock is
checked.

### Fairness

`FairSpec` of `PersistentFrontier` assumes weak fairness of the worker, of the
remaining steps of adding a block, of finishing a close and of a load: they are jobs
of the Async scheduler that wait for nothing outside the process. Nothing is
assumed about new blocks, crashes, starts, closes or the network (a bootstrap may
take for ever). `CloseCompletes` and `LoadDecides` need no more.

`Spec` of `KimchiWasm` assumes weak fairness of `wbg_rayon_start_worker` for each worker (a
worker that waits on a channel with something in it receives it: the browser runs its
workers also while the main thread is blocked) and of `CallReturns` (a worker that has a
job finishes it). Nothing is assumed about JavaScript. `CallReturns` is enabled only
once some worker of the pool runs, so that the promise depends on the threads
reaching their workers.

## Proofs

Every theorem holds for all values of the constants that satisfy the named
assumptions of the modules. Each component has one inductive invariant, from which
its properties follow. None of them was weakened to become inductive; where a
property alone is not, the text says what had to be added.

### Full frontier

`FullFrontierProofs` is about every block tree, every `MaxLength > 0` and every
`Select`. The assumptions are those of `BlockTree` (a block's height is one more than its
parent's; a scan state only refers to the parent's and what the parent's referred
to) and that `MaxLength` is positive. The ancestry of a block is defined as the least
set closed under parents, so that no recursion is needed; the first eleven lemmas
say how it unfolds at a block and its parent, that it is
linear, and how it relates to heights.

The inductive invariant is

    TreeInv == TypeOK /\ FrontierIsTree /\ BoundedLength
               /\ RootLedgerMatchesRoot /\ ProtocolStatesSuffice

None of its parts is inductive alone. Root transitions collect garbage along the
*stored* successor lists; that this removes exactly the nodes that do not descend
from the new root (`SubtreeIsDescendants`, `SurvivorsDescendFromHeir`) needs the
lists to agree with the parent hashes. One root move for each block restores the
bound only because the bound held before and the new node is the only one that
exceeds it (`OverflowFacts`); the ledger and the protocol states stay right because
the new root is a child of the old. From `TreeInvariant` follow `TypeCorrect`,
`FrontierAlwaysTree`, `FrontierAlwaysBounded`, `RootLedgerAlwaysMatches` and
`ProtocolStatesAlwaysSuffice`.

`BestTipAlwaysStrongest` and `RootMovesOnlyWhenFinal` assume `ShortRangeSelect`: a
strict total order in which longer chains win. The length is what rescues the best
tip when its fork is thrown away: the block that moves the root is then the longest
in the tree and takes over. In the long range `select` is not such an order, as
`selection_order` shows. The code does not exclude there that a root transition
removes the best tip, and the guard of `AddBreadcrumb` (the lookup with `find_exn`)
is then where the daemon would stop.

### Persistent frontier and root

`PersistentFrontierProofs`, for every block tree, `MaxLength`, `FlushCapacity` and `Select`,
with `BlockTree`'s assumptions and the two of `PersistentFrontier` (a flush capacity
above zero; the values that stand for no block and no database are none):

    PersistentInv == ControlInv /\ LoadedInv /\ DiskInv /\ PhaseInv

There are three copies of the frontier while the process runs: the database, the database with the
batch in flight written (`Mid`), and the one in memory. `LoadedInv` relates them.

* `CopiesInv`: the batch in flight leads from the first copy to the second and the buffer
  from the second to the third. "Leads to" is said twice. `Pending` describes the copy
  by the whole batch at once, as the worker computes it (all new nodes, less all
  the garbage, the last root, the last best tip); `ReplaysTo` describes it diff by diff. `Pending`
  is inductive because a block may be appended to a batch (`AppendNode`, `AppendTip`,
  `AppendMove`), and a copy that is a tree is fixed by its root, blocks and best tip
  (`SameTree`). That is how compression (`perform`) is shown to lose nothing. Neither the
  lookup that drops a batch nor the arcs cache that kills the daemon can then miss.
* `QueueInv`: the queue holds one checkpoint for each emitted proof on the way to the
  database, and the first checkpoint of the flight, of the buffer and of a block being
  added is the ledger from which each starts. Counting alone is not inductive: a crash
  leaves the queue as it is and asks for the ledger itself.
* `IdentifierInv` and `SubjectInv`: where the root identifier and the block being added
  stand in each of the three steps of a root move.

`DiskInv` is what survives a crash, and speaks of the disk alone: the database is a tree
that fits; unless a bootstrap or a reset was cut short, its root is an ancestor of the
identified one, and when they agree its ledger is in the queue or in place (`RootOnDisk`; the
clause for genesis is there since a reset replaces the database first). It is
not enough that the ledger is right while the process runs: the worker dequeues before
it writes, and what makes the crash in between harmless is that the identifier was
written long before, so that it differs from the old root in the database. `PhaseInv` says what each
phase of load, reset and bootstrap has done so far.

From `PersistentInvariant` follow the theorems about the properties of the run. For the crawl of
a load (`FlushedDatabaseAlwaysReloads`) it is also shown that following the stored arcs
from the root reaches every stored block (`CrawlReachesAll`), a least
counterexample in height; `ReplayedIs` is an induction of the same kind over the
recursive function `Replayed`. `BestTipsInvariant`, on which `RunningFrontierAlwaysSound` and
`DatabaseIsNeverCorrupt` rest, assumes `ShortRangeSelect`, as for the full frontier.

All of them have the hypothesis `RepeatedBlocks = {}`: no block is handed in that
the frontier already has. It is the instance that `persistent_frontier` checks, and
`repeated_block` shows that without it the database does lose blocks.

### Extensions

`ExtensionsProofs`, for every block tree, `MaxLength`, `Select` and assignment of work:

    ExtensionsInv == TreeInv /\ HistoryInv /\ CountInv /\ ChainInv

The extensions look things up in the frontier after all diffs, so that each part needs
`TreeInv` before and after the step (`FrontierStep` says what goes and what comes).
`HistoryInv` speaks of the path of historical roots with the root at its end: it is linked,
the states kept beside the history are those its first block requires, and what a
later block of it requires and an earlier one does not is a block in between
(`RequiredAlong`, which grows and shrinks with the path).
`CountInv` equates a count with the cardinality of the blocks that have the work,
which needs that the table is finite and that the removed blocks were in it.
`RemovedWorkAlwaysUnreferenced` is about what stays, without the new node, and needs no
assumption on the work. `ChainInv` holds as long as nothing has raised
(`BestTipDiffFollowsUntilRaised`: the lookup of a best tip that is gone is the only way to
lose track; that it happens is what `best_tip_reorg` shows), and adds that nothing in the
views is off the path to the best tip. Nothing is assumed about `Select`.

### Chain selection

`ProofOfStakeProofs`, for every window, epoch and grace period that
`ConsensusConstantsAssumption` allows and every offer of `OffersAssumption`:

    PosInv == TypeOK, finitely many blocks, the genesis state, sound fields, and each
              block's state is Update of its parent's at a later slot

The properties speak of whole chains, `Update` of one step. They are joined by inductions
along chains, each as a least counterexample in `blockchain_length`. `DensitiesAlwaysCount`
rests on arithmetic of the ring (`RingBetween`, `RingCovered`, `ModInjective`: a
sub-window has one cell, and the cells between two sub-windows are those that are
cleared). `MinDensityAlwaysLeast` needs in addition that the blocks of a window are in
bijection with what its cells count (`Reindexed`, `Renamed`). `DescendantAlwaysWins` needs
in the long range that the density a node projects for the longer chain is not behind that of
its part (`ChildProjects`), and equal lock checkpoints in the short range.
`SelectAlwaysDecisive` needs that hashes of different blocks differ.
`WindowDensity` is a cardinality and not a sum over the ring, so that it can be
reasoned about; `MCProofOfStake` has TLC compare the two on small rings.

### Native objects

`KimchiStubsProofs`, for any sets of threads, SRSs, vectors, indexes and keys
(`HoldersAssumption`: they are finite and disjoint, as memory is; `NothingAssumption`: the value for
no object is none):

    StubsInv == TypeOK /\ SrsOutlivesHolders /\ BasisIsThere /\ FromIsKept
                /\ JobsKeepTheirCall /\ ProofsAnswerTheirCall

`SrsOutlivesHolders` equates a reference count with the cardinality of the holders, so that each
action shows which holders come and go. `FromIsKept` (what an index, a key, a written object,
a job and a proof say of their circuit is what the index was created from) and
`JobsKeepTheirCall` are what `HonestProofsVerify` and `ProofsAnswerTheirCall` lack by themselves: a
proof is finished long after the call, from what the job kept. That verification does not
panic under a key made in this process is `BasisIsThere`; for a key from a file the basis
is a hypothesis.

### Thread pool and SRS of the wasm build

`KimchiWasmProofs` is about the thread pool, for every number of workers, pools and
restarts. Its assumptions are that of `SizesAssumption` (there is at least one
worker) and `NoneAssumption` (the value that stands for no call is not a call). The
inductive invariant is

    PoolInv == PoolTypeOK /\ ThreadsReachTheirWorkers

`ThreadsReachTheirWorkers` equates the ThreadBuilders in the channel of the pool that is up with
the number of its workers that wait. Receiving takes one from both sides, which needs
that the waiting workers are a finite set; building sets both to `NumThreads`, which
needs that every worker waits, and that the generation is new. Late workers change other
generations only. From it `ThreadsAlwaysReachTheirWorkers` follows; and
`PoolImplementsPromise` shows that each action is a step of `PooledCalls` or leaves
`up` and `calling` alone. That accepted calls return is liveness: TLC checks it
(`PoolKeepsItsPromise`).

For the SRS the invariant is `SrsInv == SrsOK /\ AnswersAreComputed`. `SrsOK` says that
the SRS consists of the first points of the sequence that `create` computes, for one of
the depths, and that its cache has under each size the basis of these points for the domain
of that size exactly if the size is not in `foreign` (`CacheOK`). Nothing is said about what
JavaScript has stored, because nothing needs to be: `set_lagrange_basis` replaces one entry
(`SrsInvSet`), and computing a basis never replaces one (`AddBasis`).

### Trace tool

`TraceToolProofs`, for any tasks and any number of fibers, cycles, sessions and kills
(`TasksAssumption`):

    ToolInv == DaemonOK /\ ToolOK /\ ShownInv /\ FollowInv /\ NamesInv /\ MapsInv /\ RowsInv

The tool infers what ran from what the plugin writes, and the plugin leaves out what it takes for
redundant. `ShownInv`: a task believed to be running began in the cycle in
progress or in one that a kill cut short, and none is believed to be running once nothing was written
since a cycle ended, which is when the plugin leaves out the next end. `FollowInv`: before the first
job of a cycle only a leftover of a killed process is believed to be running, and then
`most_recent_id` is 0, so that no switch is left out because of it. `MapsInv` (in a
file without leftovers the three maps describe exactly the fibers announced by the session) and
`RowsInv` (each bar of the session is in the row of the fibers of its name) are what
`OneRowPerRecurringTask` needs; a fiber that is announced after a bar was
drawn joins the row of that bar.

### Field elements, keys and proofs of the bindings

`PlonkConversionsProofs`. The variables of the model fall into four groups that no
action mixes, and each has an invariant of its own.

`NumbersAlwaysKeepTheirValue`, for both builds, any width and any orders, operands,
integers and numerals that satisfy `OrderAssumption`. The prover knows nothing of powers and
primes; the assumption therefore names what they are needed for: the radix `2^Bits` is
more than twice the order, an odd order has an inverse modulo the radix, and each element
but 0 of a field of prime order has one. Congruence is defined by a multiplier
(`Cong`), so that what it is closed under is linear arithmetic with a few products, each a
lemma. `Reduction` is the correctness of Montgomery reduction without its last
subtraction: `Redc(t) * R` is congruent to `t`, and `Redc(t)` is below the order if
`t` is small enough. On it rest `IntoReprIs`, `FromIntoRepr` and one lemma for each operation
(`AddIs` to `QuotientIs`). The invariant

    NumberInv: the number stands for `expected`, as a value of its kind, unless a
               lossy conversion is among its detours

says for each kind what "stands for" is (`StandsFor`): an element is below its order and its
reduction is the number; bytes are those of the kind that made them.

`ValuesAlwaysSurviveTheFormat`, for any set of typed values (`SerdesAssumption`: a value has its
type). `LayerRoundTrip` is the argument for one layer: if each part is refused or comes
back, the same if it is narrow, so is and does the whole. The six depths are then six
instances of one proof (`RoundTrip1` to `RoundTrip6`), since an induction over depth is out of
the prover's reach. The layer of an option is where a value may be confused with
another: `Some(None)` is an array around a 0 and not a 0.

`KeysAlwaysKeepTheirMeaning`, for any set of circuits over the optional gates, with any number of
zero-knowledge rows (`CircuitsAssumption`: runtime tables come with lookups). The invariant
`KeyInv` says that a key is exactly what its circuit's index is converted to, and a
text exactly what is persisted of that index, however long the history. It holds in the
wasm build although the index itself does not come back: what `of_wasm` derives wrongly
is not persisted (`WasmKeys`). `FeaturesOfKey` is what the two builds derive from a key.

`ProofsAlwaysSurviveTheBoundary`, for any opening, public input, evaluations and earlier
proofs (`ProofsAssumption`: evaluations have their type, earlier proofs have the same number
of challenges, possibly none, and one commitment of one point). `FlatVectorsSurvive` and
`ChallengesSurvive` are about the closed forms, by uniqueness of quotient and remainder;
`EvaluationsSurvive` is an instance of the round trip above, since the type has neither
characters nor unsupported parts (`EvaluationsAreClean`). A flattened element has two bits here,
as in the model.

### Only model-checked

* `PersistentFrontier` with repeated blocks: `repeated_block` finds the database wrong.
  With every block of `MCPersistentFrontier` repeatable TLC also violates
  `DatabaseMirrorsFrontier`, and finds no violation of `CheckpointPerPendingProof`,
  `DatabaseRootLedgerOnDisk`, `RunningFrontierIsSound`, `AgreeingRootLoads` or
  `DatabaseNeverCorrupt` in its first ten million states or more (depth 24 to 27). Those
  searches do not end and are no run of the project, so that these five hold with repeated
  blocks is neither checked nor proved.
* That the closed forms of the flat vectors and challenges are what the loops compute
  (an assumption of `MCPlonkConversions` that TLC evaluates): an induction over data.
  Values of types nested deeper than the evaluations of a proof are not modelled.
* Liveness (`CloseCompletes`, `LoadDecides`, and that accepted calls return in
  `PoolKeepsItsPromise`), which is out of the prover's reach.

## Remarks on the code

* `snark_pool_refcount.ml:17` says that `best_tip_table` holds the work of the last 10
  blocks; `num_blocks_to_include = 3` makes it four.
* The comment on `load_from_disk` (`persistent_root.ml:133`) says that a mismatch
  resets to genesis; the router bootstraps instead.
* `reset_to_genesis_exn` ignores an error of `transfer_accounts`.
* The diff buffer's timer (`diff_buffer.ml:91`) is created and never started, so that
  a quiet buffer is not flushed after the latency that
  `transition_frontier/README.md:92` gives; the TODO in the first line of the file knows it.
* Two chains without a block in the seed update range have equal, zero lock
  checkpoints (`proof_of_stake.ml:2965`), so that an old fork counts as short range,
  against `docs/specs/consensus/README.md:486`.
* `snark_pool_refcount` handles the root transition before the new node, so that a
  statement which only a garbage fork had and the new node brings again is reported as
  removed, and `snark_pool.ml:198-212` drops its proof although the new block needs it.
* A breadcrumb whose add was waiting when the frontier is closed writes into the
  closed buffer (`diff_buffer.ml:100`); the root identifier file and the temporary
  copy of a checkpoint may be left torn or stale (`persistent_root.ml:231`, `:160`).
* Kimchi, native: verifying under a key from a file panics until something has added the
  basis of its domain to the SRS, which neither reading nor verifying does. The dummy verification key has one shift fewer than the conversion
  back expects. `of_bytes` reads memory in Montgomery form while `to_bytes` writes the
  integer, so that they are not inverse to each other (in the JavaScript build they are, and
  `bindings_js_test.ml:317` asserts it). `of_int` of a negative number gives `2^64 + i`.
* Kimchi, wasm: a key that comes back is taken to have no runtime tables and 3
  zero-knowledge rows. Numerals above `2^256` are cut, and characters above 255 become 255.
  `get_lagrange_basis` looks up under the size it was passed and not the rounded one.
  Challenges without commitments are divided by zero (`plonk_proof.rs:676`); the
  callers do not pass them. The example in `wasm_ocaml_serde/mod.rs` uses a
  `usize`, which is serialised as a `u64` and refused.
* Appending to a key file does not create it.
* Trace plugin: an event that does not fit the buffer of 512 bytes leaves a line of text
  in the file, after which the tool prints nothing. Jobs without a fiber count as time
  of the task before them.

## Not modelled, and the plan

Next, in this order; each line is a module unless it says otherwise.

1. `TransitionHandler`: processor, catchup scheduler, unprocessed cache, transition
   registry. Blocks that wait for a parent, timeouts that race with their arrival,
   values of the cache consumed exactly once.
2. `Router`: the pipes, the bootstrap trigger with `should_bootstrap` (where the
   subtraction wraps), closing and replacing the frontier; composed with
   `PersistentFrontier`.
3. Epoch ledgers in `ProofOfStake`: seeds, the local state, `frontier_root_transition` and
   `required_local_state_sync`, for the assertion at the end of `apply_diffs`.
4. `ParallelScan`: the forest of trees against a reference definition; then the
   bounds that the staged ledger relies on.
5. `IndexedPool`, `SnarkPool`, `Batcher`: the indexes agree, work and transactions
   are neither lost nor kept for ever, the batcher answers every request.
6. `StrictPipe`, `BroadcastPipe`, `CachedValue`; `WorkSelector`; `Downloader` and super
   catchup.
7. Proofs: what remains of `PersistentInv` when blocks are repeated (the queue of
   checkpoints and the root identifier do not depend on the arcs).

Of the prover bindings these are left out: oracles, Poseidon, the group operations and the
linearization (pure calls into `arkworks` and `kimchi` on data no small instance
represents), the declarations that generate the OCaml interface (`stubs/src/main.rs`), `urs_utils`,
and the spinning on a flag by which the main thread of a browser waits
(`wasm/src/lib.rs`): a call is seen only to return.

Left out for good: SNARK circuits, cryptography, the transaction logic and the
Merkle ledgers (pure functions over data no small instance represents), transport
and the libp2p helper, SQL archives, Rosetta, GraphQL and command lines (input and
output), the trust system (scores that decay in real time).
