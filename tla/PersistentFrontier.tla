------------------------- MODULE PersistentFrontier -------------------------
(***************************************************************************)
(* The transition frontier with everything it keeps on disk:               *)
(*                                                                         *)
(*   - the persistent frontier, a database that a background worker brings *)
(*     up to date from a buffer of diffs;                                  *)
(*   - the persistent root: the root snarked ledger, which move_root       *)
(*     mutates in place, the queue of checkpoints taken of it before each  *)
(*     mutation (potential_snarked_ledgers), and the root identifier.      *)
(*                                                                         *)
(* The process may crash between any two writes to disk.  A restart loads  *)
(* the frontier from what is on disk, or resets the disk to genesis, or    *)
(* bootstraps from the network.                                            *)
(***************************************************************************)
EXTENDS FullFrontier, FiniteSets, SequencesExt

CONSTANTS
    FlushCapacity,      \* Diff_buffer.Capacity.flush
    RepeatedBlocks,     \* blocks that may be handed in again while in the frontier
    NoBlock,            \* no block: a root identifier file that does not exist
    NoDatabase,         \* the database directory does not exist
    NoLedger            \* a ledger database that is empty or only partly written

ASSUME PersistentFrontierAssumption ==
    /\ FlushCapacity \in Nat \ {0}
    /\ RepeatedBlocks \subseteq Blocks
    /\ NoBlock \notin Blocks

\* Diff_buffer.Capacity.max
BufferMax == 4 * FlushCapacity

VARIABLES
    \* in memory, beside the Full_frontier.t
    buffer,             \* Diff_buffer.diff_array
    flight,             \* the diffs of the active flush job (none: empty)
    dequeues,           \* snarked ledgers the worker has dequeued for it so far
    phase,              \* where the process is
    subject,            \* the block that is being added, or bootstrapped to
    caller,             \* who called load: the router or the bootstrap controller
    retry,              \* retry_with_fresh_db
    \* on disk, beside the snarked ledger (root_ledger)
    potential,          \* potential_snarked_ledgers
    root_id,            \* the root identifier file
    db,                 \* the persistent frontier database
    overwritten         \* a bootstrap has begun to overwrite the snarked ledger, and
                        \* none has finished and no frontier has been loaded since
                        \* (auxiliary: read by no action)

memory == <<root, best_tip, table, protocol_states>>
sync == <<buffer, flight, dequeues>>
control == <<phase, subject, caller, retry>>
persistent_root == <<root_ledger, potential, root_id, overwritten>>
pvars == <<memory, sync, control, persistent_root, db>>

Phases ==
    {"running", "enqueued", "applied", "closing", "closing_for_bootstrap",
     "down", "check", "reset_db", "reset_init", "reset_root", "reset_ledger", "reset_id",
     "load", "restoring", "restored", "open",
     "bootstrap", "syncing", "synced", "destroyed", "initialised"}

\* The phases in which there is a frontier in memory.
Loaded == {"running", "enqueued", "applied", "closing", "closing_for_bootstrap"}

Ledger == (SUBSET Blocks) \cup {NoLedger}

-----------------------------------------------------------------------------
(* The database *)

\* A database with arcs for these blocks.  Its keys (Database.Key) are Root,
\* Best_tip, Transition, Arcs and Protocol_states_for_root_scan_state.
Database(hashes) ==
    [root : Blocks, best_tip : Blocks, transitions : SUBSET Blocks,
     arcs : [hashes -> SUBSET Blocks], protocol_states : SUBSET Blocks]

\* Database.initialize
Initialize(r) == [root |-> r, best_tip |-> r, transitions |-> {r},
                  arcs |-> [h \in {r} |-> {}], protocol_states |-> RequiredStates[r]]

ASSUME DatabaseAssumption == \A r \in Blocks : Initialize(r) # NoDatabase

\* The places of the three kinds of diffs in a batch.
NewNodes(diffs) == {i \in DOMAIN diffs : diffs[i].type = "New_node"}
RootTransitions(diffs) == {i \in DOMAIN diffs : diffs[i].type = "Root_transitioned"}
BestTipChanges(diffs) == {i \in DOMAIN diffs : diffs[i].type = "Best_tip_changed"}

Hashes(diffs) == {diffs[i].block : i \in NewNodes(diffs)}

\* The parents whose arcs have to be read from the database first.
ParentsToRead(diffs) == {Parent[b] : b \in Hashes(diffs)} \ Hashes(diffs)

\* The arcs cache after all calls of Database.add: each new block started without
\* successors, a parent that is not new with the ones read from the database, and
\* every block added after that was put in front of its parent's.
ArcsCache(data, diffs) ==
    [h \in ParentsToRead(diffs) \cup Hashes(diffs) |->
        LET own   == {i \in NewNodes(diffs) : diffs[i].block = h}
            later == {i \in NewNodes(diffs) : \A j \in own : j < i}
        IN  (IF own = {} THEN data.arcs[h] ELSE {})
            \cup {b \in {diffs[i].block : i \in later} : Parent[b] = h}]

\* Faulty: the roots in between are forgotten, or the last one goes as well.
RemovedTooLittle(data, diffs) ==
    {data.root} \cup (UNION {diffs[i].garbage : i \in RootTransitions(diffs)})
RemovedTooMuch(data, diffs) ==
    RemovedTooLittle(data, diffs) \cup {diffs[i].new_root : i \in RootTransitions(diffs)}

\* Everything that the compressed root transition of a batch removes.
Removed(data, diffs) ==
    LET moves == RootTransitions(diffs)
    IN  {data.root} \cup (UNION {diffs[i].garbage : i \in moves})
        \cup {diffs[i].new_root : i \in moves \ {Max(moves)}}

\* Worker.perform: all new nodes, then one root transition, then the last best
\* tip, in one batch.
ApplyBatch(data, diffs) ==
    LET cache   == ArcsCache(data, diffs)
        arcs    == [h \in DOMAIN data.arcs \cup DOMAIN cache |->
                       IF h \in DOMAIN cache THEN cache[h] ELSE data.arcs[h]]
        moves   == RootTransitions(diffs)
        tips    == BestTipChanges(diffs)
        removed == IF moves = {} THEN {} ELSE Removed(data, diffs)
        last    == diffs[Max(moves)]
    IN  [root |-> IF moves = {} THEN data.root ELSE last.new_root,
         best_tip |-> IF tips = {} THEN data.best_tip ELSE diffs[Max(tips)].block,
         transitions |-> (data.transitions \cup Hashes(diffs)) \ removed,
         arcs |-> [h \in DOMAIN arcs \ removed |-> arcs[h]],
         protocol_states |-> IF moves = {} THEN data.protocol_states
                             ELSE RequiredStates[last.new_root]]

ArcClosed(S) == \A h \in S \cap DOMAIN db.arcs : db.arcs[h] \subseteq S

\* The blocks that check_arcs and crawl_successors reach from the root.
Crawled ==
    {h \in Blocks : \A S \in SUBSET Blocks : (db.root \in S /\ ArcClosed(S)) => h \in S}

\* Database.check, for an initialised database of this version and network.
Sound == /\ db.best_tip \in db.transitions
         /\ Crawled \subseteq db.transitions \cap DOMAIN db.arcs

-----------------------------------------------------------------------------
(* The diff buffer and its worker *)

\* How many root transitions of a batch emitted a proof.
Emitted(diffs) ==
    Cardinality({i \in RootTransitions(diffs) : diffs[i].just_emitted_a_proof})

NoMemory ==
    /\ root' = NoBlock
    /\ best_tip' = NoBlock
    /\ table' = <<>>
    /\ protocol_states' = {}
    /\ buffer' = <<>>
    /\ flight' = <<>>
    /\ dequeues' = 0
    /\ subject' = NoBlock

\* The process dies: what is in memory is gone.
Die == /\ NoMemory
       /\ phase' = "down"
       /\ caller' = "router"
       /\ retry' = TRUE

\* Diff_buffer.write.
Write(diffs) ==
    LET all == buffer \o diffs
    IN  IF Len(all) >= FlushCapacity /\ flight = <<>>
        THEN buffer' = <<>> /\ flight' = all /\ UNCHANGED dequeues
        ELSE buffer' = all /\ UNCHANGED <<flight, dequeues>>

\* check_for_overflow raises, which takes the daemon down.
Overflow(diffs) == /\ Len(buffer \o diffs) > BufferMax
                   /\ flight # <<>>

Closing == {"closing", "closing_for_bootstrap"}

\* There is one thread: the worker runs between the synchronous stretches of
\* everything else.
WorkerRuns == /\ flight # <<>>
              /\ phase \in {"running"} \cup Closing

\* The stretch of the worker that dequeues and then writes has begun.
WorkerBusy == dequeues > 0

\* find_exn of Database.add: the parent is among the batch's own blocks, so its
\* arcs were not read, but it comes after its child.
CacheMiss(diffs) ==
    \E i \in NewNodes(diffs) :
        /\ Parent[diffs[i].block] \in Hashes(diffs)
        /\ \A j \in NewNodes(diffs) : j < i => diffs[j].block # Parent[diffs[i].block]

\* The arcs of some parent are not in the database: the whole batch is dropped
\* with a warning.
Orphaned(diffs) == ~ (ParentsToRead(diffs) \subseteq DOMAIN db.arcs)

\* handle_emitted_proof, for each root transition that emitted a proof.
WorkerDequeue ==
    /\ WorkerRuns
    /\ ~ Orphaned(flight) /\ ~ CacheMiss(flight)
    /\ dequeues < Emitted(flight)
    /\ potential # <<>>
    /\ potential' = Tail(potential)
    /\ dequeues' = dequeues + 1
    /\ UNCHANGED <<memory, buffer, flight, control, root_ledger, root_id, overwritten,
                   db>>

\* Faulty: close_and_finish_copy does not ask for a last flush.
FlushAgainWhenFull == Len(buffer) >= FlushCapacity

\* The flush job goes on when the buffer is full enough again, and, by
\* close_and_finish_copy, when it is being closed.
FlushAgain == \/ Len(buffer) >= FlushCapacity
              \/ phase \in Closing /\ buffer # <<>>

\* The batch is written atomically.
WorkerWrite ==
    /\ WorkerRuns
    /\ Orphaned(flight) \/ CacheMiss(flight) \/ dequeues = Emitted(flight)
    /\ IF ~ Orphaned(flight) /\ CacheMiss(flight)
       THEN Die /\ UNCHANGED db
       ELSE /\ db' = IF Orphaned(flight) THEN db ELSE ApplyBatch(db, flight)
            /\ dequeues' = 0
            /\ IF FlushAgain THEN flight' = buffer /\ buffer' = <<>>
               ELSE flight' = <<>> /\ UNCHANGED buffer
            /\ UNCHANGED <<memory, control>>
    /\ UNCHANGED <<persistent_root>>

-----------------------------------------------------------------------------
(* Adding a breadcrumb *)

\* The processor only hands in a block that is not in the frontier yet, except
\* that a block produced by this node skips the cache layer: another node with
\* the same key may have sent it already.
Admissible(b) == b \notin DOMAIN table \/ b \in RepeatedBlocks

CanAdd(b) ==
    /\ phase = "running"
    /\ ~ WorkerBusy
    /\ Admissible(b)
    /\ b # Genesis /\ Parent[b] \in DOMAIN table

\* A block that leaves the root where it is touches the disk only through the
\* buffer.
AddBreadcrumbExn(b) ==
    /\ CanAdd(b)
    /\ ~ Overflows(b)
    /\ IF Overflow(CalculateDiffs(b))
       THEN Die /\ UNCHANGED root_ledger
       ELSE /\ AddBreadcrumb(b)
            /\ Write(CalculateDiffs(b))
            /\ UNCHANGED control
    /\ UNCHANGED <<potential, root_id, overwritten, db>>

\* Faulty: a checkpoint for every new root; a checkpoint of the mutated ledger.
EnqueuedAlways(heir) == Append(potential, root_ledger)
EnqueuedLate(heir) ==
    IF heir \in EmitsProof THEN Append(potential, root_ledger \cup {heir}) ELSE potential

\* Step 3 of move_root: if the new root emitted a proof, the snarked ledger is
\* checkpointed and the checkpoint enqueued.
Enqueued(heir) ==
    IF heir \in EmitsProof THEN Append(potential, root_ledger) ELSE potential

\* A block that moves the root: first the checkpoint.
BeginMoveRoot(b) ==
    /\ CanAdd(b)
    /\ Overflows(b)
    /\ potential' = Enqueued(Heir(b))
    /\ phase' = "enqueued"
    /\ subject' = b
    /\ UNCHANGED <<memory, sync, caller, retry, root_ledger, root_id, overwritten, db>>

\* Then move_root commits into the snarked ledger on disk.  (The diffs, which are
\* calculated from this state, go into the buffer here; write looks at them in
\* the next step.)
CommitRoot ==
    /\ phase = "enqueued"
    /\ AddBreadcrumb(subject)
    /\ buffer' = buffer \o CalculateDiffs(subject)
    /\ phase' = "applied"
    /\ UNCHANGED <<flight, dequeues, subject, caller, retry, potential, root_id,
                   overwritten, db>>

\* Faulty: the new best tip is written as the root identifier.
IdentifyBestTip ==
    /\ phase = "applied"
    /\ root_id' = best_tip
    /\ IF Overflow(<<>>) THEN Die
       ELSE /\ Write(<<>>)
            /\ phase' = "running"
            /\ subject' = NoBlock
            /\ UNCHANGED <<memory, caller, retry>>
    /\ UNCHANGED <<root_ledger, potential, overwritten, db>>

\* Then set_root_identifier, and then the diffs are written.
IdentifyRoot ==
    /\ phase = "applied"
    /\ root_id' = root
    /\ IF Overflow(<<>>) THEN Die
       ELSE /\ Write(<<>>)
            /\ phase' = "running"
            /\ subject' = NoBlock
            /\ UNCHANGED <<memory, caller, retry>>
    /\ UNCHANGED <<root_ledger, potential, overwritten, db>>

-----------------------------------------------------------------------------
(* Closing: the buffer is flushed, then the files are closed *)

\* Transition_frontier.close, called by the shutdown handler and by the router.
Close(closing) ==
    /\ phase = "running"
    /\ ~ WorkerBusy
    /\ phase' = closing
    /\ IF flight = <<>> THEN flight' = buffer /\ buffer' = <<>>
       ELSE UNCHANGED <<flight, buffer>>
    /\ UNCHANGED <<memory, dequeues, subject, caller, retry, persistent_root, db>>

FinishClose ==
    /\ phase \in Closing
    /\ flight = <<>> /\ buffer = <<>>
    /\ NoMemory
    /\ phase' = IF phase = "closing" THEN "down" ELSE "bootstrap"
    /\ UNCHANGED <<caller, retry, persistent_root, db>>

\* The process crashes.
Crash ==
    /\ phase # "down"
    /\ Die
    /\ UNCHANGED <<persistent_root, db>>

-----------------------------------------------------------------------------
(* Loading *)

Goto(p) == phase' = p /\ UNCHANGED <<subject, caller, retry>>

\* A start of the daemon: the router loads the frontier.
Boot ==
    /\ phase = "down"
    /\ Goto("check")
    /\ UNCHANGED <<memory, sync, persistent_root, db>>

\* Faulty: the router tries again instead.
FailAndRetry(error) ==
    /\ phase' = IF error # "raise" /\ caller = "router" THEN "check" ELSE "down"
    /\ retry' = TRUE
    /\ caller' = "router"
    /\ subject' = NoBlock

\* Where an error of load leads: load_frontier of the router bootstraps, the
\* bootstrap controller and everything that raises take the daemon down.
Fail(error) ==
    /\ phase' = IF error # "raise" /\ caller = "router" THEN "bootstrap" ELSE "down"
    /\ retry' = TRUE
    /\ caller' = "router"
    /\ subject' = NoBlock

\* reset_and_continue: what fails after it is not tried again.
ResetAndContinue ==
    /\ phase' = "reset_db"
    /\ retry' = FALSE
    /\ UNCHANGED <<subject, caller>>

\* check_database; a corrupt database is destroyed for the one retry.
CheckDatabase ==
    /\ phase = "check"
    /\ IF db = NoDatabase THEN ResetAndContinue /\ UNCHANGED db
       ELSE IF Sound THEN Goto("load") /\ UNCHANGED db
       ELSE IF retry THEN /\ db' = NoDatabase
                          /\ retry' = FALSE
                          /\ UNCHANGED <<phase, subject, caller>>
       ELSE Fail("raise") /\ UNCHANGED db
    /\ UNCHANGED <<memory, sync, persistent_root>>

\* reset_database_exn, then reset_to_genesis_exn, write by write.
ResetDestroyDatabase ==
    /\ phase = "reset_db"
    /\ db' = NoDatabase
    /\ Goto("reset_init")
    /\ UNCHANGED <<memory, sync, persistent_root>>

ResetInitialize ==
    /\ phase = "reset_init"
    /\ db' = Initialize(Genesis)
    /\ Goto("reset_root")
    /\ UNCHANGED <<memory, sync, persistent_root>>

ResetRemoveRoot ==
    /\ phase = "reset_root"
    /\ root_ledger' = NoLedger
    /\ potential' = <<>>
    /\ root_id' = NoBlock
    /\ overwritten' = FALSE
    /\ Goto("reset_ledger")
    /\ UNCHANGED <<memory, sync, db>>

ResetTransferLedger ==
    /\ phase = "reset_ledger"
    /\ root_ledger' = SnarkedLedger(Genesis)
    /\ Goto("reset_id")
    /\ UNCHANGED <<memory, sync, potential, root_id, overwritten, db>>

ResetRootIdentifier ==
    /\ phase = "reset_id"
    /\ root_id' = Genesis
    /\ Goto("load")
    /\ UNCHANGED <<memory, sync, root_ledger, potential, overwritten, db>>

\* Persistent_root.load_from_disk: the snarked ledger the database's root needs.
Expected == SnarkedLedger(db.root)

\* Faulty: the checkpoints are removed before the copy is in place.
LoadPotentialEager ==
    /\ phase = "load"
    /\ Expected \in ToSet(potential)
    /\ root_ledger' = NoLedger
    /\ potential' = <<>>
    /\ Goto("restoring")
    /\ UNCHANGED <<memory, sync, root_id, overwritten, db>>

\* A checkpoint has it: it is copied, and replaces the snarked ledger.
LoadPotential ==
    /\ phase = "load"
    /\ Expected \in ToSet(potential)
    /\ root_ledger' = NoLedger
    /\ Goto("restoring")
    /\ UNCHANGED <<memory, sync, potential, root_id, overwritten, db>>

RenameLedger ==
    /\ phase = "restoring"
    /\ root_ledger' = Expected
    /\ Goto("restored")
    /\ UNCHANGED <<memory, sync, potential, root_id, overwritten, db>>

RemovePotentials ==
    /\ phase = "restored"
    /\ potential' = <<>>
    /\ Goto("open")
    /\ UNCHANGED <<memory, sync, root_ledger, root_id, overwritten, db>>

\* None has it: the snarked ledger itself has to be the right one.
LoadCurrent ==
    /\ phase = "load"
    /\ Expected \notin ToSet(potential)
    /\ potential' = <<>>
    /\ IF root_ledger = Expected THEN Goto("open") ELSE Fail("Snarked_ledger_mismatch")
    /\ UNCHANGED <<memory, sync, root_ledger, root_id, overwritten, db>>

\* Faulty: without fast_forward.
OpenErrorNoFastForward ==
    IF root_id = NoBlock \/ db.best_tip \notin Crawled THEN "raise" ELSE "none"

\* load_from_persistence_and_start: the root identifier, then fast_forward, then
\* the nodes that the crawl reaches, then the stored best tip.
OpenError ==
    IF root_id = NoBlock THEN "raise"
    ELSE IF root_id # db.root THEN "Bootstrap_required"
    ELSE IF db.best_tip \notin Crawled THEN "raise"
    ELSE "none"

LoadFullFrontier ==
    /\ phase = "open"
    /\ OpenError = "none"
    /\ root' = db.root
    /\ best_tip' = db.best_tip
    /\ table' = [h \in Crawled |-> [length |-> Height[h] - Height[db.root],
                                    successor_hashes |-> db.arcs[h]]]
    /\ protocol_states' = db.protocol_states
    /\ phase' = "running" /\ caller' = "router" /\ retry' = TRUE /\ subject' = NoBlock
    /\ overwritten' = FALSE
    /\ UNCHANGED <<sync, root_ledger, potential, root_id, db>>

FailToOpen ==
    /\ phase = "open"
    /\ OpenError # "none"
    /\ Fail(OpenError)
    /\ UNCHANGED <<memory, sync, persistent_root, db>>

\* load_full_frontier returns a `Failure: the root's staged ledger or a breadcrumb
\* cannot be rebuilt.
RebuildFails ==
    /\ phase = "open"
    /\ OpenError = "none"
    /\ IF retry THEN ResetAndContinue ELSE Fail("raise")
    /\ UNCHANGED <<memory, sync, persistent_root, db>>

-----------------------------------------------------------------------------
(* Bootstrapping: Bootstrap_controller.run *)

\* The snarked ledger is overwritten in place while it is synchronised.
BootstrapSync ==
    /\ phase = "bootstrap"
    /\ root_ledger' = NoLedger
    /\ overwritten' = TRUE
    /\ Goto("syncing")
    /\ UNCHANGED <<memory, sync, potential, root_id, db>>

\* The sync is complete for the root r of the best chain seen by then.
BootstrapSynced(r) ==
    /\ phase = "syncing"
    /\ root_ledger' = SnarkedLedger(r)
    /\ phase' = "synced" /\ subject' = r /\ UNCHANGED <<caller, retry>>
    /\ UNCHANGED <<memory, sync, potential, root_id, overwritten, db>>

\* A later step of the cycle fails (the scan state cannot be downloaded or does
\* not fit, the local state cannot be synchronised): the next cycle begins.
BootstrapRetry ==
    /\ phase = "synced"
    /\ phase' = "bootstrap" /\ subject' = NoBlock /\ UNCHANGED <<caller, retry>>
    /\ UNCHANGED <<memory, sync, persistent_root, db>>

BootstrapDestroyDatabase ==
    /\ phase = "synced"
    /\ db' = NoDatabase
    /\ Goto("destroyed")
    /\ UNCHANGED <<memory, sync, persistent_root>>

BootstrapInitialize ==
    /\ phase = "destroyed"
    /\ db' = Initialize(subject)
    /\ Goto("initialised")
    /\ UNCHANGED <<memory, sync, persistent_root>>

\* set_root_state_hash, then load without a retry.
BootstrapRootIdentifier ==
    /\ phase = "initialised"
    /\ root_id' = subject
    /\ overwritten' = FALSE
    /\ phase' = "check" /\ caller' = "bootstrap" /\ retry' = FALSE /\ UNCHANGED subject
    /\ UNCHANGED <<memory, sync, root_ledger, potential, db>>

-----------------------------------------------------------------------------

\* A new node: nothing on disk.
PersistentInit ==
    /\ root = NoBlock /\ best_tip = NoBlock /\ table = <<>> /\ protocol_states = {}
    /\ buffer = <<>> /\ flight = <<>> /\ dequeues = 0
    /\ phase = "down" /\ subject = NoBlock /\ caller = "router" /\ retry = TRUE
    /\ root_ledger = NoLedger /\ potential = <<>> /\ root_id = NoBlock
    /\ db = NoDatabase /\ overwritten = FALSE

Worker == WorkerDequeue \/ WorkerWrite

Add == \E b \in Blocks : AddBreadcrumbExn(b) \/ BeginMoveRoot(b)

Load ==
    \/ CheckDatabase
    \/ ResetDestroyDatabase \/ ResetInitialize \/ ResetRemoveRoot
    \/ ResetTransferLedger \/ ResetRootIdentifier
    \/ LoadPotential \/ RenameLedger \/ RemovePotentials \/ LoadCurrent
    \/ LoadFullFrontier \/ FailToOpen \/ RebuildFails

Bootstrap ==
    \/ BootstrapSync
    \/ \E r \in Blocks : BootstrapSynced(r)
    \/ BootstrapRetry
    \/ BootstrapDestroyDatabase \/ BootstrapInitialize \/ BootstrapRootIdentifier

PersistentNext ==
    \/ Add
    \/ CommitRoot
    \/ IdentifyRoot
    \/ Worker
    \/ Close("closing") \/ Close("closing_for_bootstrap")
    \/ FinishClose
    \/ Crash
    \/ Boot
    \/ Load
    \/ Bootstrap

PersistentSpec == PersistentInit /\ [][PersistentNext]_pvars

\* The scheduler runs the worker's job and continues a close or a load that has
\* begun; nothing forces a block, a crash, a bootstrap or a start.
FairSpec == /\ PersistentSpec
            /\ WF_pvars(Worker)
            /\ WF_pvars(CommitRoot) /\ WF_pvars(IdentifyRoot)
            /\ WF_pvars(FinishClose)
            /\ WF_pvars(Load)

-----------------------------------------------------------------------------
(* Properties *)

PersistentTypeOK ==
    /\ {root_id, subject} \subseteq Blocks \cup {NoBlock}
    /\ phase \in Phases
    /\ phase \in Loaded => TypeOK
    /\ phase \notin Loaded => buffer = <<>> /\ flight = <<>>
    /\ dequeues \in Nat
    /\ caller \in {"router", "bootstrap"} /\ retry \in BOOLEAN
    /\ root_ledger \in Ledger
    /\ potential \in Seq(Ledger)
    /\ db # NoDatabase => DOMAIN db.arcs \subseteq Blocks /\ db \in Database(DOMAIN db.arcs)
    /\ overwritten \in BOOLEAN

\* The block without successors, and added to its parent's.
WithArc(arcs, b) ==
    [h \in DOMAIN arcs \cup {b} |->
        IF h = b THEN {}
        ELSE IF h = Parent[b] THEN arcs[h] \cup {b}
        ELSE arcs[h]]

\* One diff applied to a copy of the frontier, as the full frontier applies it.
Replay(copy, diff) ==
    CASE diff.type = "New_node" ->
            [copy EXCEPT !.transitions = @ \cup {diff.block},
                         !.arcs = WithArc(@, diff.block)]
      [] diff.type = "Best_tip_changed" -> [copy EXCEPT !.best_tip = diff.block]
      [] diff.type = "Root_transitioned" ->
            LET gone == diff.garbage \cup {copy.root}
            IN  [copy EXCEPT !.root = diff.new_root,
                             !.transitions = @ \ gone,
                             !.arcs = [h \in DOMAIN @ \ gone |-> @[h]],
                             !.protocol_states = RequiredStates[diff.new_root]]

\* A sequence of diffs applied one by one.
Replayed(data, diffs) ==
    LET copy[i \in 0 .. Len(diffs)] == IF i = 0 THEN data ELSE Replay(copy[i - 1], diffs[i])
    IN  copy[Len(diffs)]

\* The frontier in memory, as a database would store it.
FrontierAsDatabase ==
    [root |-> root, best_tip |-> best_tip, transitions |-> DOMAIN table,
     arcs |-> [h \in DOMAIN table |-> table[h].successor_hashes],
     protocol_states |-> protocol_states]

\* The database is an exact, lagging copy: the diffs in flight and in the buffer,
\* applied one by one, turn it into the frontier in memory, although the worker
\* applies each batch compressed into one root transition and one best tip.
DatabaseMirrorsFrontier ==
    phase \in Loaded =>
        Replayed(db, flight \o buffer) = FrontierAsDatabase

\* There is exactly one checkpoint for each root transition that emitted a proof
\* and has not reached the database: dequeue_exn never finds the queue empty and
\* no checkpoint directory is left behind.
CheckpointPerPendingProof ==
    phase \in Loaded =>
        Len(potential) + dequeues =
            Emitted(flight) + Emitted(buffer)
            + (IF phase = "enqueued" /\ Heir(subject) \in EmitsProof THEN 1 ELSE 0)

\* At any time, except between a dequeue and the batch write that follows, the
\* snarked ledger of the database's root is on disk: in the queue of checkpoints
\* or as the snarked ledger itself.
DatabaseRootLedgerOnDisk ==
    phase \in Loaded /\ ~ WorkerBusy =>
        Expected \in ToSet(potential) \cup {root_ledger}

\* Whatever was on disk, a frontier that runs is a tree with the strongest tip,
\* with its root's ledger, protocol states and identifier.
RunningFrontierIsSound ==
    phase \in {"running"} \cup Closing =>
        /\ FrontierIsTree /\ BoundedLength
        /\ BestTipStrongest
        /\ RootLedgerMatchesRoot
        /\ ProtocolStatesSuffice
        /\ root_id = root

\* When the root identifier and the database agree on the root, and no bootstrap
\* was cut short, the ledger for it can be loaded: a crash while the root moves
\* does not cost a bootstrap, and the load after a bootstrap does not fail.
AgreeingRootLoads ==
    phase = "load" /\ root_id = db.root /\ ~ overwritten =>
        Expected \in ToSet(potential) \cup {root_ledger}

\* No crash leaves a database behind that check finds corrupt, which would throw
\* everything away and start from genesis.
DatabaseNeverCorrupt == phase = "check" => db = NoDatabase \/ Sound

\* Across crashes and restarts the root identifier moves from a block to its
\* child, or is reset, or is replaced by a completed bootstrap.
RootIdentifierMovesForward ==
    [][root_id' # root_id =>
          \/ root_id' = NoBlock
          \/ root_id = NoBlock
          \/ root_id' # Genesis /\ Parent[root_id'] = root_id
          \/ phase = "initialised"]_pvars

\* A close gets to its end, whatever is in the buffer and in flight when it begins:
\* close_and_finish_copy flushes until nothing is left.
CloseCompletes == phase \in Closing ~> phase \notin Closing

\* A load comes to a decision, whatever it finds on disk: the retry with a fresh
\* database and the reset to genesis do not go round in circles.
LoadDecides == phase = "check" ~> phase \in {"running", "bootstrap", "down"}

\* When load_from_persistence_and_start reads the root identifier it "should have
\* been written already".
RootIdentifierWritten == phase = "open" => root_id # NoBlock

\* When everything is flushed the database is "a persistent on-disk copy of the
\* datastructure": a load would find the blocks that are in memory.
FlushedDatabaseReloads ==
    phase = "running" /\ flight = <<>> /\ buffer = <<>> =>
        Crawled = DOMAIN table /\ db.best_tip = best_tip
=============================================================================
