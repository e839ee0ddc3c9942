----------------------------- MODULE Extensions -----------------------------
(***************************************************************************)
(* The frontier's extensions (transition_frontier/extensions): data that   *)
(* is kept up to date from the diffs of each added breadcrumb.             *)
(*                                                                         *)
(*   - root_history: the last 2 * max_length roots, with the protocol      *)
(*     states needed to serve the scan state of any of them;               *)
(*   - snark_pool_refcount: which snark work the scan states of the        *)
(*     frontier refer to, and which work can be dropped;                   *)
(*   - best_tip_diff: the blocks that joined and left the best chain, from *)
(*     which the transaction pool follows it.                              *)
(*                                                                         *)
(* Extensions.notify runs after apply_diffs, so every lookup sees the      *)
(* frontier as the diffs left it; and apply_diffs returns the diffs in     *)
(* reverse, so each extension handles the best tip, then the root          *)
(* transition, then the new node.                                          *)
(***************************************************************************)
EXTENDS FullFrontier, FiniteSets, SequencesExt

CONSTANT
    Works               \* Scan_state.all_work_statements_exn of each block

Work == UNION {Works[b] : b \in Blocks}

\* Nothing more: the statement of a merge job is about the transactions of common
\* ancestors, so two forks may both come to need it, one earlier than the other.
ASSUME WorksAssumption == DOMAIN Works = Blocks

VARIABLES
    history,            \* Root_history.history, oldest first
    current_root,       \* Root_history.current_root
    history_states,     \* Root_history.protocol_states_for_root_scan_state
    refcount_map,       \* Snark_pool_refcount.refcount_map (0: no entry)
    best_tip_table,     \* Snark_pool_refcount.best_tip_table
    removed_work,       \* what handle_diffs last reported as removed
    best_chain,         \* the best chain as the views of best_tip_diff add up
    raised              \* a notification has raised

root_history == <<history, current_root, history_states>>
snark_pool_refcount == <<refcount_map, best_tip_table, removed_work>>
best_tip_diff == <<best_chain, raised>>
xvars == <<vars, root_history, snark_pool_refcount, best_tip_diff>>

-----------------------------------------------------------------------------
(* Root history *)

Capacity == 2 * MaxLength

\* Faulty: the root that leaves the history is not among the candidates.
NextHistoryStatesOld == RequiredStates[history[2]] \cap history_states

\* protocol_states_for_next_root_scan_state, for the oldest root of the history.
NextHistoryStates ==
    RequiredStates[history[2]] \cap (history_states \cup {history[1]})

\* Faulty: the new root is put into the history.
EnqueueNew(new_root) ==
    /\ history' = Append(IF Len(history) >= Capacity THEN Tail(history) ELSE history, new_root)
    /\ current_root' = new_root
    /\ UNCHANGED history_states

\* Root_history.enqueue
Enqueue(new_root) ==
    /\ IF Len(history) >= Capacity
       THEN /\ history' = Append(Tail(history), current_root)
            /\ history_states' = NextHistoryStates
       ELSE /\ history' = Append(history, current_root)
            /\ UNCHANGED history_states
    /\ current_root' = new_root

\* protocol_states_for_scan_state: each state that a historical root's scan
\* state requires, from the history or from the oldest root's states.
ProtocolStatesFor(hash) ==
    RequiredStates[hash] \cap (ToSet(history) \cup history_states)

-----------------------------------------------------------------------------
(* Snark pool refcount *)

\* How many blocks of S have the work in their scan state.
References(w, S) == Cardinality({b \in S : w \in Works[b]})

\* Faulty: everything that a removed block refers to.
DroppedAll(gone) == {w \in Work : References(w, gone) > 0}

\* remove_from_table: for the blocks that leave the frontier.
Dropped(gone) == {w \in Work : /\ References(w, gone) > 0
                               /\ References(w, gone) = refcount_map[w]}

\* How far update_best_tip_table goes back from the best tip.
NumBlocksToInclude == 3

\* update_best_tip_table, on the nodes of the frontier.
BestTipWork(tip, nodes) ==
    UNION {Works[a] : a \in {x \in Ancestors(tip) \cap nodes :
                                Height[tip] - Height[x] <= NumBlocksToInclude}}

\* Faulty: the old root is not counted.
CountWorkGarbageOnly(b, gone) ==
    /\ refcount_map' = [w \in Work |-> refcount_map[w] - References(w, gone \ {root})
                                       + References(w, {b})]
    /\ removed_work' = Dropped(gone \ {root})

\* handle_diffs, for the new node b and the blocks that the root transition, if
\* there is one, removes.
CountWork(b, gone) ==
    /\ refcount_map' = [w \in Work |-> refcount_map[w] - References(w, gone)
                                       + References(w, {b})]
    /\ removed_work' = Dropped(gone)

UpdateBestTipTable(b) ==
    best_tip_table' = IF Select(best_tip, b) THEN BestTipWork(b, DOMAIN table')
                      ELSE best_tip_table

-----------------------------------------------------------------------------
(* Best tip diff *)

\* handle_diffs looks the old best tip up, with find_exn, in the frontier that
\* has already moved its root; get_path_diff then returns what is on one path
\* and not on the other.
ReportBestTip(b) ==
    IF ~ Select(best_tip, b) THEN UNCHANGED <<best_chain, raised>>
    ELSE IF best_tip \notin DOMAIN table' THEN raised' = TRUE /\ UNCHANGED best_chain
    ELSE LET added   == Ancestors(b) \ Ancestors(best_tip)
             removed == Ancestors(best_tip) \ Ancestors(b)
         IN  /\ best_chain' = (best_chain \ removed) \cup added
             /\ UNCHANGED raised

-----------------------------------------------------------------------------

\* add_breadcrumb_exn, with its notification of the extensions.  An exception
\* in one of them takes the daemon down.
AddAndNotify(b) ==
    /\ ~ raised
    /\ b \notin DOMAIN table
    /\ AddBreadcrumb(b)
    /\ IF Overflows(b)
       THEN /\ Enqueue(Heir(b))
            /\ CountWork(b, {root} \cup RootTransitioned(Heir(b)).garbage)
       ELSE /\ CountWork(b, {})
            /\ UNCHANGED root_history
    /\ UpdateBestTipTable(b)
    /\ ReportBestTip(b)

\* The create functions of the extensions, on a frontier with only a root.
ExtensionsInit ==
    /\ Init
    /\ history = <<>>
    /\ current_root = root
    /\ history_states = protocol_states
    /\ refcount_map = [w \in Work |-> References(w, {root})]
    /\ best_tip_table = {}
    /\ removed_work = {}
    /\ best_chain = {root}
    /\ raised = FALSE

ExtensionsNext == \E b \in Blocks : AddAndNotify(b)

ExtensionsSpec == ExtensionsInit /\ [][ExtensionsNext]_xvars

-----------------------------------------------------------------------------
(* Properties *)

ExtensionsTypeOK ==
    /\ TypeOK
    /\ ToSet(history) \subseteq Blocks
    /\ current_root \in Blocks
    /\ history_states \subseteq Blocks
    /\ refcount_map \in [Work -> Nat]
    /\ best_tip_table \subseteq Work
    /\ removed_work \subseteq Work
    /\ best_chain \subseteq Blocks
    /\ raised \in BOOLEAN

\* The history is the chain of the roots before the current one, without a gap
\* or a repetition (the assertion of enqueue), however often it has overflowed.
HistoryIsChainOfRoots ==
    /\ current_root = root
    /\ Len(history) <= Capacity
    /\ \A i \in DOMAIN history :
          Parent[IF i = Len(history) THEN root ELSE history[i + 1]] = history[i]

\* The scan state of every root in the history can be served:
\* protocol_states_for_scan_state finds each protocol state that it requires.
HistoryCanBeServed ==
    \A i \in DOMAIN history : ProtocolStatesFor(history[i]) = RequiredStates[history[i]]

\* Work is in refcount_map iff it is a member of some block's scan state, and
\* its count is the number of those blocks: remove_from_table never meets work
\* that it does not know about.
RefcountIsExact == \A w \in Work : refcount_map[w] = References(w, DOMAIN table)

Referenced(nodes) == UNION {Works[b] : b \in nodes}

\* What is reported to the snark pool, which drops its proofs, is exactly the work
\* that no block refers to any more among those that stay.  The new node does not
\* count: the root transition is handled before it, so work that only a fork had,
\* and that the new node needs as well, is reported although it is referenced.
RemovedWorkIsUnreferenced ==
    [][removed_work' = Referenced(DOMAIN table)
                       \ Referenced(DOMAIN table \cap DOMAIN table')]_xvars

\* extensions.mli: an extension is an incrementally computed view on the frontier's
\* contents.  The views of best_tip_diff add up to the best chain, as far as the
\* frontier reaches.
BestTipDiffFollowsBestChain ==
    best_chain \cap DOMAIN table = Ancestors(best_tip) \cap DOMAIN table
=============================================================================
