------------------------------ MODULE TraceTool ------------------------------
(***************************************************************************)
(* The program that turns a trace file of the daemon into JSON for a trace  *)
(* viewer (app/trace-tool), together with the plugin of the daemon that     *)
(* writes the file (o1trace_webkit_event.ml, external to this component).   *)
(*                                                                          *)
(* The tool folds over the events of the file.  Its state after a prefix of *)
(* the file depends only on that prefix, so the fold is advanced here when  *)
(* the daemon writes an event: each state shows what the tool makes of a    *)
(* file that ends there, be it because the daemon was killed.               *)
(*                                                                          *)
(* The file is named after the process id and is opened for appending, so   *)
(* it may hold several sessions, and a process that is given the id of a    *)
(* killed one continues the killed one's file.                              *)
(***************************************************************************)
EXTENDS Naturals, Sequences, FiniteSets

CONSTANTS
    Tasks,         \* names of tasks
    Recurring,     \* the ones that start with "R&"
    LongTasks,     \* the ones too long for the plugin's buffer
    NoTask,        \* no task: None
    MaxFibers,     \* bound on the fibers of a process
    MaxCycles,     \* bound on the scheduler cycles
    MaxSessions,   \* bound on the sessions of the file
    MaxKills       \* bound on the crashes of the daemon

ASSUME TasksAssumption ==
    /\ Recurring \subseteq Tasks /\ LongTasks \subseteq Tasks
    /\ NoTask \notin Nat
    /\ {MaxFibers, MaxCycles, MaxSessions, MaxKills} \subseteq Nat

VARIABLES
    fibers,    \* fibers[id]: the name of the process's fiber id
    running,   \* the fiber whose job was entered last in this cycle, or NoTask
    cycle,     \* scheduler cycles so far; time is measured in cycles
    busy,      \* a cycle is in progress
    tracing,   \* current_wr is set and the plugin is enabled
    most_recent_id,
    emitted_since_cycle_ended,
    announcing, \* fibers that start_tracing has still to write
    session,   \* number of sessions started
    kills,     \* crashes of the daemon so far
    tool,      \* the state of the tool's fold
    out,       \* the complete events it has printed
    seen,      \* auxiliary: fibers entered in this cycle and session
    cuts       \* auxiliary: cycles in which the daemon was killed

daemon == <<fibers, running, cycle, busy, tracing, most_recent_id,
            emitted_since_cycle_ended, announcing, session, kills>>

vars == <<daemon, tool, out, seen, cuts>>

-----------------------------------------------------------------------------
(* The events of the file.                                                  *)

\* The byte that the plugin writes for a kind of event.
emitk ==
    [New_thread |-> 0, Thread_switch |-> 1, Cycle_start |-> 2, Cycle_end |-> 3,
     Pid_is |-> 4, Event |-> 5, Measure_start |-> 6, Measure_end |-> 7, Trace_end |-> 8]

\* What the parser takes it for.
EventKind(byte) ==
    <<"New", "Switch", "CycleStart", "CycleEnd", "Pid", "Event", "Start", "End",
      "TraceEnd">>[byte + 1]

\* An event as the parser returns it; the event of the process id has no time
\* of its own and is given time 0.
TraceEvent(phase, tid, name, ts) ==
    LET kind == EventKind(emitk[phase])
    IN  [data |-> kind, tid |-> tid, name |-> name,
         ts |-> IF kind = "Pid" THEN 0 ELSE ts]

-----------------------------------------------------------------------------
(* The tool.                                                                *)

Lookup(map, t, default) == IF t \in DOMAIN map THEN map[t] ELSE default

Insert(map, k, v) == [x \in DOMAIN map \cup {k} |-> IF x = k THEN v ELSE map[x]]

\* The maps and the accumulator with which the fold over a file starts.
Start ==
    [seen_tids |-> <<>>, recurring_map |-> <<>>, tidmap |-> <<>>, cur_pid |-> 0,
     prev_ts |-> 0, prev_task |-> NoTask, status |-> "ok"]

\* The printed complete event of the previous task, if there is one.
complete_event(st, cur_ts, prev_task) ==
    IF prev_task = NoTask THEN {}
    ELSE {[name |-> Lookup(st.seen_tids, prev_task, "unnamed task"),
           tid |-> prev_task, ts |-> st.prev_ts, end |-> cur_ts]}

\* Faulty: the map of recurring tasks is not consulted.
FaultyNewTask(st, t, s) ==
    [st EXCEPT !.seen_tids = Insert(@, t, s)]

\* Further tasks of a recurring name are mapped to the first.
NewTask(st, t, s) ==
    LET real == Lookup(st.recurring_map, s, t)
    IN  [st EXCEPT
           !.recurring_map = IF s \in Recurring THEN Insert(@, s, real) ELSE @,
           !.tidmap = IF s \in Recurring THEN Insert(@, t, real) ELSE @,
           !.seen_tids = Insert(@, t, s)]

\* Faulty: the task that is switched to is not looked up among the recurring.
FaultySwitchTask(st, e) == [st EXCEPT !.prev_ts = e.ts, !.prev_task = e.tid]

SwitchTask(st, e) ==
    [st EXCEPT !.prev_ts = e.ts, !.prev_task = Lookup(st.tidmap, e.tid, e.tid)]

\* Faulty: the end of a cycle leaves the task that was running.
FaultyEndTask(st, e) ==
    [st EXCEPT !.prev_ts = e.ts,
               !.prev_task = IF e.data = "CycleEnd" THEN @ ELSE NoTask]

\* The end of a cycle or of a session finishes whatever was running; the end of
\* a session clears the maps as well.
EndTask(st, e) ==
    LET ended == [st EXCEPT !.prev_ts = e.ts, !.prev_task = NoTask]
    IN  IF e.data = "TraceEnd"
        THEN [ended EXCEPT !.seen_tids = <<>>, !.recurring_map = <<>>, !.tidmap = <<>>]
        ELSE ended

\* complete_event asserts that the process id is known.
Asserted(st) == IF st.cur_pid = 0 THEN [st EXCEPT !.status = "panicked"] ELSE st

\* One step of the fold.  An instant event and the start and the end of a
\* measurement are only printed.
FoldEvent(st, e) ==
    CASE e.data = "New" -> NewTask(st, e.tid, e.name)
      [] e.data = "Switch" -> SwitchTask(Asserted(st), e)
      [] e.data = "CycleStart" -> [st EXCEPT !.prev_ts = e.ts]
      [] e.data \in {"TraceEnd", "CycleEnd"} -> EndTask(Asserted(st), e)
      [] e.data = "Pid" -> [st EXCEPT !.cur_pid = 1]
      [] OTHER -> st

\* What it prints with the event; a previous task is looked up in tidmap again
\* at a switch but not at the end of a cycle.
Printed(st, e) ==
    CASE e.data = "Switch" ->
           complete_event(st, e.ts, Lookup(st.tidmap, st.prev_task, st.prev_task))
      [] e.data \in {"TraceEnd", "CycleEnd"} -> complete_event(st, e.ts, st.prev_task)
      [] OTHER -> {}

-----------------------------------------------------------------------------
(* The plugin of the daemon.                                                *)

\* An event is written to the file of the session.  One that does not fit the
\* buffer leaves a line of text in the file, which the parser does not accept:
\* the tool then prints nothing of the file at all.
Write(e) ==
    LET was == IF most_recent_id = 0 THEN "none" ELSE fibers[most_recent_id]
    IN  IF e.name \in LongTasks \/ tool.status = "garbled"
        THEN tool' = [Start EXCEPT !.status = "garbled"] /\ out' = {}
        ELSE /\ tool' = FoldEvent(tool, e)
             /\ out' = out \cup {[name |-> r.name, tid |-> r.tid, ts |-> r.ts, end |-> r.end,
                                  was |-> was, session |-> session, life |-> kills] :
                                 r \in Printed(tool, e)}

\* emit_event: nothing is written unless a session is in progress.
emit_event(phase, tid, name) ==
    IF tracing
    THEN Write(TraceEvent(phase, tid, name, cycle)) /\ emitted_since_cycle_ended' = TRUE
    ELSE UNCHANGED <<tool, out, emitted_since_cycle_ended>>

Init ==
    /\ fibers = <<>> /\ running = NoTask /\ cycle = 0 /\ busy = FALSE
    /\ tracing = FALSE /\ most_recent_id = 0 /\ emitted_since_cycle_ended = FALSE
    /\ announcing = {} /\ session = 0 /\ kills = 0
    /\ tool = Start /\ out = {} /\ seen = {} /\ cuts = {}

\* The scheduler starts a cycle; jobs without a fiber, which the plugin is not
\* told about, may run in it.
CycleBegin ==
    /\ ~busy /\ cycle < MaxCycles
    /\ busy' = TRUE /\ cycle' = cycle + 1
    /\ UNCHANGED <<fibers, running, tracing, most_recent_id, emitted_since_cycle_ended,
                   session, kills, tool, out, seen, cuts>>

\* A fiber of a new name, or another one of a recurring task.
on_new_fiber(s) ==
    /\ busy /\ Len(fibers) < MaxFibers
    /\ s \in Recurring \/ \A f \in DOMAIN fibers : fibers[f] # s
    /\ fibers' = Append(fibers, s)
    /\ emit_event("New_thread", Len(fibers) + 1, s)
    /\ UNCHANGED <<running, cycle, busy, tracing, most_recent_id, session, kills, seen, cuts>>

\* A switch is written unless the fiber is the one that was entered last.
on_job_enter(f) ==
    /\ busy
    /\ running' = f
    /\ seen' = IF tracing THEN seen \cup {f} ELSE seen
    /\ IF tracing /\ f # most_recent_id
       THEN most_recent_id' = f /\ emit_event("Thread_switch", f, "")
       ELSE UNCHANGED <<most_recent_id, tool, out, emitted_since_cycle_ended>>
    /\ UNCHANGED <<fibers, cycle, busy, tracing, session, kills, cuts>>

\* An instant event or the start or the end of a measurement in a job.  The format
\* has them and the tool reads them; the functions of the plugin that wrote them are
\* commented out.
mark(phase) ==
    /\ busy /\ tracing
    /\ emit_event(phase, 0, "")
    /\ UNCHANGED <<fibers, running, cycle, busy, tracing, most_recent_id, session, kills,
                   seen, cuts>>

\* The end of a cycle is written only if something was written since the last.
on_cycle_end ==
    /\ busy
    /\ busy' = FALSE /\ running' = NoTask /\ seen' = {}
    /\ IF tracing /\ emitted_since_cycle_ended
       THEN Write(TraceEvent("Cycle_end", 0, "", cycle))
       ELSE UNCHANGED <<tool, out>>
    /\ emitted_since_cycle_ended' = (~tracing /\ emitted_since_cycle_ended)
    /\ UNCHANGED <<fibers, cycle, tracing, most_recent_id, session, kills, cuts>>

\* The process id is written, and then every fiber there is: no job runs meanwhile.
start_tracing ==
    /\ busy /\ ~tracing /\ session < MaxSessions
    /\ tracing' = TRUE /\ session' = session + 1 /\ seen' = {}
    /\ emitted_since_cycle_ended' = TRUE
    /\ announcing' = DOMAIN fibers
    /\ Write(TraceEvent("Pid_is", 0, "", cycle))
    /\ UNCHANGED <<fibers, running, cycle, busy, most_recent_id, kills, cuts>>

\* The fibers come in the order of a hash table.
iter_fibers(f) ==
    /\ announcing' = announcing \ {f}
    /\ Write(TraceEvent("New_thread", f, fibers[f], cycle))
    /\ UNCHANGED <<fibers, running, cycle, busy, tracing, most_recent_id,
                   emitted_since_cycle_ended, session, kills, seen, cuts>>

stop_tracing ==
    /\ busy /\ tracing
    /\ emit_event("Trace_end", 0, "")
    /\ tracing' = FALSE /\ seen' = {}
    /\ UNCHANGED <<fibers, running, cycle, busy, most_recent_id, session, kills, cuts>>

\* The daemon is killed, and later a process with the same id is started.
Kill ==
    /\ kills < MaxKills
    /\ kills' = kills + 1
    /\ cuts' = IF busy THEN cuts \cup {cycle} ELSE cuts
    /\ fibers' = <<>> /\ running' = NoTask /\ busy' = FALSE /\ tracing' = FALSE
    /\ most_recent_id' = 0 /\ emitted_since_cycle_ended' = FALSE /\ announcing' = {}
    /\ seen' = {}
    /\ UNCHANGED <<cycle, session, tool, out>>

Job ==
    \/ CycleBegin
    \/ \E s \in Tasks : on_new_fiber(s)
    \/ \E f \in DOMAIN fibers : on_job_enter(f)
    \/ \E phase \in {"Event", "Measure_start", "Measure_end"} : mark(phase)
    \/ on_cycle_end
    \/ stop_tracing

Next ==
    \/ announcing = {} /\ Job /\ UNCHANGED announcing
    \/ announcing = {} /\ start_tracing
    \/ \E f \in announcing : iter_fibers(f)
    \/ Kill

Spec == Init /\ [][Next]_vars

-----------------------------------------------------------------------------
(* Properties                                                               *)

\* "if the cycle is reported as ending, then whatever thread was running just
\* finished": no bar is drawn over the time between cycles, although the plugin
\* leaves out ends of cycles and switches, and is stopped and started in the middle
\* of cycles; only the task that ran when the daemon was killed is drawn too long.
SlicesStayInTheirCycle == \A r \in out : r.ts = r.end \/ r.ts \in cuts

\* The row the tool believes is running.
Row(f) == Lookup(tool.tidmap, f, f)

\* The tool's idea of the running task, inferred from the switches, follows the
\* scheduler: once two fibers were entered in a cycle it is the running one, and
\* before it is that one or none (the plugin writes no switch for a fiber that was
\* also the last one of an earlier cycle).  The process id is always known by then.
SwitchesAreFollowed ==
    /\ tool.status # "panicked"
    /\ (tracing /\ tool.status = "ok" /\ seen # {}) =>
          IF Cardinality(seen) >= 2 THEN tool.prev_task = Row(running)
                                    ELSE tool.prev_task \in {NoTask, Row(running)}

\* "trace-tool knows how to collapse them all into one row": every bar carries the
\* name of the task that ran, and in one session the bars of a recurring task are
\* all in one row (for a file that no killed process left unfinished).
OneRowPerRecurringTask ==
    \A r \in out :
        r.life = 0 =>
          /\ r.name = r.was
          /\ \A q \in out : (q.life = 0 /\ q.session = r.session /\ q.was = r.was)
                              => q.tid = r.tid
=============================================================================
