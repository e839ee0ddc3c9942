--------------------------- MODULE TraceToolProofs ---------------------------
(***************************************************************************)
(* Proofs about TraceTool: for every set of tasks, recurring and too long,  *)
(* and every number of fibers, cycles, sessions and crashes, the tool draws *)
(* its bars within cycles, follows the switches of the scheduler and gives  *)
(* a recurring task one row.                                                *)
(*                                                                          *)
(* The tool infers what ran from what the plugin writes, and the plugin     *)
(* leaves out what it takes for redundant.  The invariants say what the two *)
(* may rely on: a task the tool believes to be running began in the cycle   *)
(* that is in progress, or is left from a killed process (ShownInv); one    *)
(* that began before the first job of the cycle can only be such a leftover *)
(* (FollowInv); the maps describe exactly the fibers the session has        *)
(* announced (MapsInv), and what is printed agrees with them (RowsInv).     *)
(***************************************************************************)
EXTENDS TraceTool, FiniteSetTheorems, TLAPS

-----------------------------------------------------------------------------
(* Types.                                                                   *)

Map(S, T) == UNION {[D -> T] : D \in SUBSET S}

ToolState ==
    [seen_tids : Map(Nat, Tasks), recurring_map : Map(Tasks, Nat), tidmap : Map(Nat, Nat),
     cur_pid : {0, 1}, prev_ts : Nat, prev_task : Nat \cup {NoTask},
     status : {"ok", "garbled"}]

\* What is left of the tool's output when the file cannot be parsed.
Garbled ==
    [seen_tids |-> <<>>, recurring_map |-> <<>>, tidmap |-> <<>>, cur_pid |-> 0,
     prev_ts |-> 0, prev_task |-> NoTask, status |-> "garbled"]

Bar ==
    [name : Tasks \cup {"unnamed task"}, tid : Nat, ts : Nat, end : Nat,
     was : Tasks \cup {"none"}, session : Nat, life : Nat]

DaemonOK ==
    /\ fibers \in Seq(Tasks)
    /\ running \in DOMAIN fibers \cup {NoTask}
    /\ most_recent_id \in DOMAIN fibers \cup {0}
    /\ cycle \in Nat /\ session \in Nat /\ kills \in Nat
    /\ busy \in BOOLEAN /\ tracing \in BOOLEAN /\ emitted_since_cycle_ended \in BOOLEAN
    /\ announcing \subseteq DOMAIN fibers
    /\ seen \subseteq DOMAIN fibers
    /\ cuts \subseteq Nat
    /\ announcing # {} => (tracing /\ emitted_since_cycle_ended /\ seen = {})
    /\ (tracing /\ seen # {}) => (running = most_recent_id /\ running \in seen)

ToolOK ==
    /\ tool \in ToolState
    /\ out \subseteq Bar
    /\ tool.status = "garbled" => (tool = Garbled /\ out = {})
    /\ (tool.status = "ok" /\ tracing) => tool.cur_pid = 1

\* A task that the tool believes to be running began in the cycle in progress, in
\* which something was written, or in a cycle that a kill cut short.
ShownInv ==
    /\ tool.prev_task # NoTask =>
          \/ tool.prev_ts \in cuts
          \/ busy /\ tracing /\ tool.prev_ts = cycle
    /\ (tracing /\ ~emitted_since_cycle_ended) => tool.prev_task = NoTask
    /\ SlicesStayInTheirCycle

\* Before the first job of a cycle only a leftover of a killed process is believed to
\* be running, and then the plugin has not seen a job yet.
FollowInv ==
    /\ (tool.prev_task # NoTask /\ (tracing => seen = {})) => most_recent_id = 0
    /\ SwitchesAreFollowed

\* The fibers that the session in progress has written to the file.
Announced == IF tracing THEN DOMAIN fibers \ announcing ELSE {}

\* Only recurring names are given to several fibers.
NamesInv ==
    \A f, g \in DOMAIN fibers : (fibers[f] = fibers[g] /\ fibers[f] \notin Recurring) => f = g

\* The maps of st describe the fibers A with their names fs.
Describes(st, A, fs) ==
    /\ DOMAIN st.seen_tids = A
    /\ \A t \in A : st.seen_tids[t] = fs[t]
    /\ \A t \in A : fs[t] \in Recurring => fs[t] \in DOMAIN st.recurring_map
    /\ \A s \in DOMAIN st.recurring_map :
          /\ s \in Recurring
          /\ st.recurring_map[s] \in A
          /\ fs[st.recurring_map[s]] = s
    /\ DOMAIN st.tidmap = {t \in A : fs[t] \in Recurring}
    /\ \A t \in DOMAIN st.tidmap : st.tidmap[t] = st.recurring_map[fs[t]]

\* In a file without leftovers the maps describe the announced fibers.
MapsInv == (kills = 0 /\ tool.status = "ok") => Describes(tool, Announced, fibers)

\* The row believed to be running is the one of the fiber entered last.
RunningRow ==
    (kills = 0 /\ tool.status = "ok" /\ tool.prev_task # NoTask) =>
      /\ tracing /\ announcing = {} /\ most_recent_id # 0
      /\ tool.prev_task = Row(most_recent_id)

\* A bar of the session in progress is in the row of the fibers that have its name.
InItsRow(r) ==
    /\ \E t \in Announced : fibers[t] = r.was
    /\ \A t \in Announced : fibers[t] = r.was => Row(t) = r.tid

BarsInRows ==
    (kills = 0 /\ tracing) => \A r \in out : r.session = session => InItsRow(r)

RowsInv ==
    /\ RunningRow
    /\ \A r \in out : r.session <= session
    /\ BarsInRows
    /\ OneRowPerRecurringTask

ToolInv ==
    /\ DaemonOK /\ ToolOK /\ ShownInv /\ FollowInv /\ NamesInv /\ MapsInv /\ RowsInv

-----------------------------------------------------------------------------
(* What an event that is written does to the tool.                          *)

\* What is printed when the row of the fiber entered last is finished.
Finished(row) ==
    [name |-> Lookup(tool.seen_tids, row, "unnamed task"), tid |-> row, ts |-> tool.prev_ts,
     end |-> cycle, was |-> IF most_recent_id = 0 THEN "none" ELSE fibers[most_recent_id],
     session |-> session, life |-> kills]

Garble == tool' = Garbled /\ out' = {}

\* The state of the tool has the fields it starts with.
Complete(st) ==
    st = [seen_tids |-> st.seen_tids, recurring_map |-> st.recurring_map,
          tidmap |-> st.tidmap, cur_pid |-> st.cur_pid, prev_ts |-> st.prev_ts,
          prev_task |-> st.prev_task, status |-> st.status]

\* The event of a fiber.
Announce(t, s) ==
    /\ tool' = NewTask(tool, t, s) /\ out' = out

\* The end of the running row, if any, at an event that leaves row task running.
Finish(row, task) ==
    /\ Complete(tool')
    /\ tool'.prev_ts = cycle /\ tool'.prev_task = task
    /\ tool'.cur_pid = tool.cur_pid /\ tool'.status = "ok"
    /\ out' = IF tool.prev_task = NoTask THEN out ELSE out \cup {Finished(row)}

KeepMaps ==
    /\ tool'.seen_tids = tool.seen_tids /\ tool'.recurring_map = tool.recurring_map
    /\ tool'.tidmap = tool.tidmap

ClearMaps ==
    /\ tool'.seen_tids = <<>> /\ tool'.recurring_map = <<>> /\ tool'.tidmap = <<>>

LEMMA WrittenKind ==
    ASSUME NEW phase, NEW tid, NEW name, NEW ts, NEW e, e = TraceEvent(phase, tid, name, ts)
    PROVE  /\ e.tid = tid /\ e.name = name
           /\ phase = "New_thread" => (e.data = "New" /\ e.ts = ts)
           /\ phase = "Thread_switch" => (e.data = "Switch" /\ e.ts = ts)
           /\ phase = "Cycle_end" => (e.data = "CycleEnd" /\ e.ts = ts)
           /\ phase = "Pid_is" => e.data = "Pid"
           /\ phase = "Trace_end" => (e.data = "TraceEnd" /\ e.ts = ts)
           /\ phase = "Event" => e.data = "Event"
           /\ phase = "Measure_start" => e.data = "Start"
           /\ phase = "Measure_end" => e.data = "End"
<1>1. /\ EventKind(emitk["New_thread"]) = "New"
      /\ EventKind(emitk["Thread_switch"]) = "Switch"
      /\ EventKind(emitk["Cycle_end"]) = "CycleEnd"
      /\ EventKind(emitk["Pid_is"]) = "Pid"
      /\ EventKind(emitk["Trace_end"]) = "TraceEnd"
      /\ EventKind(emitk["Event"]) = "Event"
      /\ EventKind(emitk["Measure_start"]) = "Start"
      /\ EventKind(emitk["Measure_end"]) = "End"
  BY DEF EventKind, emitk
<1>2. PICK kind : kind = EventKind(emitk[phase])
  OBVIOUS
<1>3. e = [data |-> kind, tid |-> tid, name |-> name, ts |-> IF kind = "Pid" THEN 0 ELSE ts]
  BY <1>2 DEF TraceEvent
<1>4. /\ e.data = kind /\ e.tid = tid /\ e.name = name
      /\ kind # "Pid" => e.ts = ts
  BY <1>3
<1> QED BY <1>1, <1>2, <1>4

LEMMA GarbledWrite ==
    ASSUME NEW e, Write(e), e.name \in LongTasks \/ tool.status = "garbled"
    PROVE  Garble
BY DEF Write, Garble, Garbled, Start

LEMMA SoundWrite ==
    ASSUME NEW e, Write(e), ~(e.name \in LongTasks \/ tool.status = "garbled")
    PROVE  /\ tool' = FoldEvent(tool, e)
           /\ Printed(tool, e) = {} => out' = out
           /\ \A row : Printed(tool, e)
                         = {[name |-> Lookup(tool.seen_tids, row, "unnamed task"),
                             tid |-> row, ts |-> tool.prev_ts, end |-> cycle]}
                       => out' = out \cup {Finished(row)}
<1>1. tool' = FoldEvent(tool, e)
  BY DEF Write
<1>2. ASSUME Printed(tool, e) = {}
      PROVE  out' = out
  BY <1>2 DEF Write
<1>3. ASSUME NEW row, Printed(tool, e)
                         = {[name |-> Lookup(tool.seen_tids, row, "unnamed task"),
                             tid |-> row, ts |-> tool.prev_ts, end |-> cycle]}
      PROVE  out' = out \cup {Finished(row)}
  <2>1. PICK n : n = Lookup(tool.seen_tids, row, "unnamed task")
    OBVIOUS
  <2>2. PICK was : was = IF most_recent_id = 0 THEN "none" ELSE fibers[most_recent_id]
    OBVIOUS
  <2>3. out' = out \cup {[name |-> r.name, tid |-> r.tid, ts |-> r.ts, end |-> r.end,
                          was |-> was, session |-> session, life |-> kills] :
                         r \in Printed(tool, e)}
    BY <2>2 DEF Write
  <2>4. PICK pr : pr = [name |-> n, tid |-> row, ts |-> tool.prev_ts, end |-> cycle]
    OBVIOUS
  <2>5. pr.name = n /\ pr.tid = row /\ pr.ts = tool.prev_ts /\ pr.end = cycle
    BY <2>4
  <2>6. out' = out \cup {[name |-> r.name, tid |-> r.tid, ts |-> r.ts, end |-> r.end,
                          was |-> was, session |-> session, life |-> kills] :
                         r \in {pr}}
    BY <1>3, <2>1, <2>3, <2>4
  <2>7. Finished(row) = [name |-> pr.name, tid |-> pr.tid, ts |-> pr.ts, end |-> pr.end,
                         was |-> was, session |-> session, life |-> kills]
    BY <2>1, <2>2, <2>5 DEF Finished
  <2> QED BY <2>6, <2>7, Zenon
<1> QED BY <1>1, <1>2, <1>3

\* Only announced fibers are mapped, and no fiber is NoTask.
LEMMA NoTaskHasNoRow ==
    ASSUME TasksAssumption, NEW st \in ToolState
    PROVE  Lookup(st.tidmap, NoTask, NoTask) = NoTask
<1>1. st.tidmap \in Map(Nat, Nat)
  BY DEF ToolState
<1>2. PICK D \in SUBSET Nat : st.tidmap \in [D -> Nat]
  BY <1>1 DEF Map
<1>3. NoTask \notin DOMAIN st.tidmap
  BY <1>2 DEF TasksAssumption
<1> QED BY <1>3 DEF Lookup

LEMMA EmptyMap ==
    ASSUME NEW S, NEW T
    PROVE  <<>> \in Map(S, T)
<1>1. <<>> \in [{} -> T]
  OBVIOUS
<1> QED BY <1>1 DEF Map

LEMMA WriteNew ==
    ASSUME ToolOK, NEW t, NEW s, Write(TraceEvent("New_thread", t, s, cycle))
    PROVE  Garble \/ (tool.status = "ok" /\ Announce(t, s))
<1>0. PICK e : e = TraceEvent("New_thread", t, s, cycle)
  OBVIOUS
<1>1. e.data = "New" /\ e.tid = t /\ e.name = s
  BY <1>0, WrittenKind
<1>2. tool.status \in {"ok", "garbled"}
  BY DEF ToolOK, ToolState
<1>3. CASE e.name \in LongTasks \/ tool.status = "garbled"
  BY <1>3, <1>0, GarbledWrite
<1>4. CASE ~(e.name \in LongTasks \/ tool.status = "garbled")
  <2>1. tool' = FoldEvent(tool, e) /\ (Printed(tool, e) = {} => out' = out)
    BY <1>4, <1>0, SoundWrite
  <2>2. FoldEvent(tool, e) = NewTask(tool, t, s) /\ Printed(tool, e) = {}
    BY <1>1 DEF FoldEvent, Printed
  <2> QED BY <1>2, <1>4, <2>1, <2>2 DEF Announce
<1> QED BY <1>3, <1>4

LEMMA WriteSwitch ==
    ASSUME TasksAssumption, ToolOK, tracing, NEW f, NEW s,
           Write(TraceEvent("Thread_switch", f, s, cycle))
    PROVE  \/ Garble
           \/ tool.status = "ok" /\ Finish(Row(tool.prev_task), Row(f)) /\ KeepMaps
<1>0. PICK e : e = TraceEvent("Thread_switch", f, s, cycle)
  OBVIOUS
<1>1. e.data = "Switch" /\ e.tid = f /\ e.ts = cycle
  BY <1>0, WrittenKind
<1>2. tool \in ToolState /\ tool.status \in {"ok", "garbled"}
  BY DEF ToolOK, ToolState
<1>3. CASE e.name \in LongTasks \/ tool.status = "garbled"
  BY <1>3, <1>0, GarbledWrite
<1>4. CASE ~(e.name \in LongTasks \/ tool.status = "garbled")
  <2>1. tool' = FoldEvent(tool, e)
    BY <1>4, <1>0, SoundWrite
  <2>2. tool.status = "ok" /\ tool.cur_pid = 1
    BY <1>2, <1>4 DEF ToolOK
  <2>3. FoldEvent(tool, e)
          = [tool EXCEPT !.prev_ts = cycle, !.prev_task = Row(f)]
    BY <1>1, <2>2 DEF FoldEvent, SwitchTask, Asserted, Row
  <2>4. tool' = [seen_tids |-> tool.seen_tids, recurring_map |-> tool.recurring_map,
                 tidmap |-> tool.tidmap, cur_pid |-> tool.cur_pid, prev_ts |-> cycle,
                 prev_task |-> Row(f), status |-> tool.status]
    BY <1>2, <2>1, <2>3 DEF ToolState
  <2>5. Printed(tool, e) = complete_event(tool, cycle, Row(tool.prev_task))
    BY <1>1 DEF Printed, Row
  <2>6. CASE tool.prev_task = NoTask
    <3>1. Row(tool.prev_task) = NoTask
      BY <1>2, <2>6, NoTaskHasNoRow DEF Row
    <3>2. Printed(tool, e) = {}
      BY <2>5, <3>1 DEF complete_event
    <3> QED BY <1>4, <2>2, <2>4, <2>6, <3>2, <1>0, SoundWrite DEF Finish, KeepMaps, Complete
  <2>7. CASE tool.prev_task # NoTask
    <3>1. Row(tool.prev_task) # NoTask
      <4>1. PICK D \in SUBSET Nat : tool.tidmap \in [D -> Nat]
        BY <1>2 DEF ToolState, Map
      <4>2. tool.prev_task \in Nat
        BY <1>2, <2>7 DEF ToolState
      <4> QED BY <4>1, <4>2 DEF TasksAssumption, Row, Lookup
    <3>2. Printed(tool, e) = {[name |-> Lookup(tool.seen_tids, Row(tool.prev_task), "unnamed task"),
                               tid |-> Row(tool.prev_task), ts |-> tool.prev_ts, end |-> cycle]}
      BY <2>5, <3>1 DEF complete_event
    <3>3. out' = out \cup {Finished(Row(tool.prev_task))}
      BY <1>4, <3>2, <1>0, SoundWrite
    <3> QED BY <2>2, <2>4, <2>7, <3>3 DEF Finish, KeepMaps, Complete
  <2> QED BY <2>6, <2>7
<1> QED BY <1>3, <1>4

LEMMA WriteEnd ==
    ASSUME ToolOK, tracing, NEW name, NEW phase \in {"Cycle_end", "Trace_end"},
           Write(TraceEvent(phase, 0, name, cycle))
    PROVE  \/ Garble
           \/ /\ tool.status = "ok" /\ Finish(tool.prev_task, NoTask)
              /\ IF phase = "Trace_end" THEN ClearMaps ELSE KeepMaps
<1>0. PICK e : e = TraceEvent(phase, 0, name, cycle)
  OBVIOUS
<1>1. /\ e.data = IF phase = "Trace_end" THEN "TraceEnd" ELSE "CycleEnd"
      /\ e.ts = cycle
  BY <1>0, WrittenKind
<1>2. tool \in ToolState /\ tool.status \in {"ok", "garbled"}
  BY DEF ToolOK, ToolState
<1>3. CASE e.name \in LongTasks \/ tool.status = "garbled"
  BY <1>3, <1>0, GarbledWrite
<1>4. CASE ~(e.name \in LongTasks \/ tool.status = "garbled")
  <2>1. tool' = FoldEvent(tool, e)
    BY <1>4, <1>0, SoundWrite
  <2>2. tool.status = "ok" /\ tool.cur_pid = 1
    BY <1>2, <1>4 DEF ToolOK
  <2>3. FoldEvent(tool, e) = EndTask(tool, e)
    <3>1. Asserted(tool) = tool
      BY <2>2 DEF Asserted
    <3>2. e.data \in {"TraceEnd", "CycleEnd"}
      BY <1>1
    <3> QED BY <3>1, <3>2 DEF FoldEvent
  <2>9. PICK ended : ended = [tool EXCEPT !.prev_ts = cycle, !.prev_task = NoTask]
    OBVIOUS
  <2>4. ended
          = [seen_tids |-> tool.seen_tids, recurring_map |-> tool.recurring_map,
             tidmap |-> tool.tidmap, cur_pid |-> tool.cur_pid, prev_ts |-> cycle,
             prev_task |-> NoTask, status |-> tool.status]
    BY <1>2, <2>9 DEF ToolState
  <2>5. /\ tool'.prev_ts = cycle /\ tool'.prev_task = NoTask
        /\ tool'.cur_pid = tool.cur_pid /\ tool'.status = "ok"
        /\ Complete(tool')
        /\ IF phase = "Trace_end" THEN ClearMaps ELSE KeepMaps
    <3>1. CASE phase = "Trace_end"
      <4>1. e.data = "TraceEnd" /\ e.ts = cycle
        BY <1>1, <3>1
      <4>2. tool' = [ended EXCEPT !.seen_tids = <<>>, !.recurring_map = <<>>, !.tidmap = <<>>]
        BY <2>1, <2>3, <2>9, <4>1 DEF EndTask
      <4>3. tool' = [seen_tids |-> <<>>, recurring_map |-> <<>>,
                     tidmap |-> <<>>, cur_pid |-> tool.cur_pid, prev_ts |-> cycle,
                     prev_task |-> NoTask, status |-> tool.status]
        BY <2>4, <4>2
      <4> QED BY <2>2, <3>1, <4>3 DEF ClearMaps, Complete
    <3>2. CASE phase = "Cycle_end"
      <4>1. e.data = "CycleEnd" /\ e.ts = cycle
        BY <1>1, <3>2
      <4>2. tool' = ended
        BY <2>1, <2>3, <2>9, <4>1 DEF EndTask
      <4> QED BY <2>2, <2>4, <3>2, <4>2 DEF KeepMaps, Complete
    <3> QED BY <3>1, <3>2
  <2>6. Printed(tool, e) = complete_event(tool, cycle, tool.prev_task)
    BY <1>1 DEF Printed
  <2>7. CASE tool.prev_task = NoTask
    <3>1. Printed(tool, e) = {}
      BY <2>6, <2>7 DEF complete_event
    <3> QED BY <1>4, <2>2, <2>5, <2>7, <3>1, <1>0, SoundWrite DEF Finish
  <2>8. CASE tool.prev_task # NoTask
    <3>1. Printed(tool, e) = {[name |-> Lookup(tool.seen_tids, tool.prev_task, "unnamed task"),
                               tid |-> tool.prev_task, ts |-> tool.prev_ts, end |-> cycle]}
      BY <2>6, <2>8 DEF complete_event
    <3>2. out' = out \cup {Finished(tool.prev_task)}
      BY <1>4, <3>1, <1>0, SoundWrite
    <3> QED BY <2>2, <2>5, <2>8, <3>2 DEF Finish
  <2> QED BY <2>7, <2>8
<1> QED BY <1>3, <1>4

LEMMA WritePid ==
    ASSUME ToolOK, NEW name, Write(TraceEvent("Pid_is", 0, name, cycle))
    PROVE  \/ Garble
           \/ /\ tool.status = "ok" /\ out' = out
              /\ tool' = [tool EXCEPT !.cur_pid = 1]
<1>0. PICK e : e = TraceEvent("Pid_is", 0, name, cycle)
  OBVIOUS
<1>1. e.data = "Pid"
  BY <1>0, WrittenKind
<1>2. tool.status \in {"ok", "garbled"}
  BY DEF ToolOK, ToolState
<1>3. CASE e.name \in LongTasks \/ tool.status = "garbled"
  BY <1>3, <1>0, GarbledWrite
<1>4. CASE ~(e.name \in LongTasks \/ tool.status = "garbled")
  <2>1. tool' = FoldEvent(tool, e) /\ (Printed(tool, e) = {} => out' = out)
    BY <1>4, <1>0, SoundWrite
  <2>2. FoldEvent(tool, e) = [tool EXCEPT !.cur_pid = 1] /\ Printed(tool, e) = {}
    BY <1>1 DEF FoldEvent, Printed
  <2> QED BY <1>2, <1>4, <2>1, <2>2
<1> QED BY <1>3, <1>4

LEMMA WriteMark ==
    ASSUME ToolOK, NEW name, NEW phase \in {"Event", "Measure_start", "Measure_end"},
           Write(TraceEvent(phase, 0, name, cycle))
    PROVE  Garble \/ UNCHANGED <<tool, out>>
<1>0. PICK e : e = TraceEvent(phase, 0, name, cycle)
  OBVIOUS
<1>1. e.data \in {"Event", "Start", "End"}
  BY <1>0, WrittenKind
<1>2. CASE e.name \in LongTasks \/ tool.status = "garbled"
  BY <1>2, <1>0, GarbledWrite
<1>3. CASE ~(e.name \in LongTasks \/ tool.status = "garbled")
  <2>1. tool' = FoldEvent(tool, e) /\ (Printed(tool, e) = {} => out' = out)
    BY <1>3, <1>0, SoundWrite
  <2>2. FoldEvent(tool, e) = tool /\ Printed(tool, e) = {}
    BY <1>1 DEF FoldEvent, Printed
  <2> QED BY <2>1, <2>2
<1> QED BY <1>2, <1>3

-----------------------------------------------------------------------------
(* The daemon, whatever it writes.                                          *)

LEMMA DaemonStep ==
    ASSUME TasksAssumption, DaemonOK, [Next]_vars
    PROVE  DaemonOK'
<1> USE DEF DaemonOK
<1>1. ASSUME announcing = {}, UNCHANGED announcing, CycleBegin
      PROVE  DaemonOK'
  BY <1>1 DEF CycleBegin
<1>2. ASSUME announcing = {}, UNCHANGED announcing, NEW s \in Tasks, on_new_fiber(s)
      PROVE  DaemonOK'
  <2>1. fibers' \in Seq(Tasks) /\ DOMAIN fibers \subseteq DOMAIN fibers'
    BY <1>2 DEF on_new_fiber
  <2>2. emitted_since_cycle_ended' \in BOOLEAN
    BY <1>2 DEF on_new_fiber, emit_event
  <2>3. UNCHANGED <<running, cycle, busy, tracing, most_recent_id, session, kills, seen, cuts>>
    BY <1>2 DEF on_new_fiber
  <2> QED BY <1>2, <2>1, <2>2, <2>3
<1>3. ASSUME announcing = {}, UNCHANGED announcing, NEW f \in DOMAIN fibers, on_job_enter(f)
      PROVE  DaemonOK'
  <2>1. UNCHANGED <<fibers, cycle, busy, tracing, session, kills, cuts>> /\ running' = f
    BY <1>3 DEF on_job_enter
  <2>2. emitted_since_cycle_ended' \in BOOLEAN
    BY <1>3 DEF on_job_enter, emit_event
  <2>3. seen' = (IF tracing THEN seen \cup {f} ELSE seen)
    BY <1>3 DEF on_job_enter
  <2>4. /\ most_recent_id' \in DOMAIN fibers \cup {0}
        /\ tracing => most_recent_id' = f
    BY <1>3 DEF on_job_enter
  <2> QED BY <1>3, <2>1, <2>2, <2>3, <2>4
<1>4. ASSUME announcing = {}, UNCHANGED announcing, NEW phase, mark(phase)
      PROVE  DaemonOK'
  BY <1>4 DEF mark, emit_event
<1>5. ASSUME announcing = {}, UNCHANGED announcing, on_cycle_end
      PROVE  DaemonOK'
  <2>1. UNCHANGED <<fibers, cycle, tracing, most_recent_id, session, kills, cuts>>
    BY <1>5 DEF on_cycle_end
  <2>2. busy' = FALSE /\ running' = NoTask /\ seen' = {}
    BY <1>5 DEF on_cycle_end
  <2>3. emitted_since_cycle_ended' \in BOOLEAN
    BY <1>5 DEF on_cycle_end
  <2> QED BY <1>5, <2>1, <2>2, <2>3
<1>6. ASSUME announcing = {}, UNCHANGED announcing, stop_tracing
      PROVE  DaemonOK'
  <2>1. UNCHANGED <<fibers, running, cycle, busy, most_recent_id, session, kills, cuts>>
    BY <1>6 DEF stop_tracing
  <2>2. tracing' = FALSE /\ seen' = {}
    BY <1>6 DEF stop_tracing
  <2>3. emitted_since_cycle_ended' \in BOOLEAN
    BY <1>6 DEF stop_tracing, emit_event
  <2> QED BY <1>6, <2>1, <2>2, <2>3
<1>7. CASE start_tracing
  <2>1. UNCHANGED <<fibers, running, cycle, busy, most_recent_id, kills, cuts>>
    BY <1>7 DEF start_tracing
  <2>2. /\ tracing' = TRUE /\ session' = session + 1 /\ seen' = {}
        /\ emitted_since_cycle_ended' = TRUE /\ announcing' = DOMAIN fibers
    BY <1>7 DEF start_tracing
  <2> QED BY <2>1, <2>2
<1>8. ASSUME NEW f \in announcing, iter_fibers(f)
      PROVE  DaemonOK'
  <2>1. UNCHANGED <<fibers, running, cycle, busy, tracing, most_recent_id,
                    emitted_since_cycle_ended, session, kills, seen, cuts>>
    BY <1>8 DEF iter_fibers
  <2>2. announcing' = announcing \ {f}
    BY <1>8 DEF iter_fibers
  <2> QED BY <2>1, <2>2
<1>9. CASE Kill
  <2>1. /\ fibers' = <<>> /\ running' = NoTask /\ busy' = FALSE /\ tracing' = FALSE
        /\ most_recent_id' = 0 /\ emitted_since_cycle_ended' = FALSE /\ announcing' = {}
        /\ seen' = {} /\ kills' = kills + 1 /\ UNCHANGED <<cycle, session>>
    BY <1>9 DEF Kill
  <2>2. cuts' \subseteq Nat
    BY <1>9 DEF Kill
  <2>3. fibers' \in Seq(Tasks) /\ DOMAIN fibers' = {}
    BY <2>1
  <2>4. kills' \in Nat /\ cycle' \in Nat /\ session' \in Nat
    BY <2>1
  <2>5. (tracing' /\ seen' # {}) => (running' = most_recent_id' /\ running' \in seen')
    BY <2>1
  <2> QED BY <2>1, <2>2, <2>3, <2>4, <2>5
<1>10. CASE UNCHANGED vars
  BY <1>10 DEF vars, daemon
<1> QED BY <1>1, <1>2, <1>3, <1>4, <1>5, <1>6, <1>7, <1>8, <1>9, <1>10 DEF Next, Job

LEMMA NamesStep ==
    ASSUME DaemonOK, NamesInv, [Next]_vars
    PROVE  NamesInv'
<1>1. ASSUME NEW s \in Tasks, on_new_fiber(s)
      PROVE  NamesInv'
  <2>1. fibers \in Seq(Tasks) /\ fibers' = Append(fibers, s)
    BY <1>1 DEF DaemonOK, on_new_fiber
  <2>2. s \in Recurring \/ \A f \in DOMAIN fibers : fibers[f] # s
    BY <1>1 DEF on_new_fiber
  <2> QED BY <2>1, <2>2 DEF NamesInv
<1>2. CASE fibers' = <<>>
  BY <1>2 DEF NamesInv
<1>3. CASE UNCHANGED fibers
  BY <1>3 DEF NamesInv
<1> QED
  BY <1>1, <1>2, <1>3 DEF Next, Job, CycleBegin, on_job_enter, mark, on_cycle_end, start_tracing,
     iter_fibers, stop_tracing, Kill, vars, daemon

\* A file that cannot be parsed leaves nothing to say about what it prints.
LEMMA GarbledStep ==
    ASSUME TasksAssumption, Garble
    PROVE  ToolOK' /\ ShownInv' /\ FollowInv' /\ MapsInv' /\ RowsInv'
<1>1. tool' = Garbled /\ out' = {}
  BY DEF Garble
<1>2. tool'.status = "garbled" /\ tool'.prev_task = NoTask
  BY <1>1 DEF Garbled
<1>3. ToolOK'
  <2>1. Garbled \in ToolState
    <3>1. /\ <<>> \in Map(Nat, Tasks) /\ <<>> \in Map(Tasks, Nat) /\ <<>> \in Map(Nat, Nat)
      BY EmptyMap
    <3> QED BY <3>1 DEF Garbled, ToolState
  <2> QED BY <1>1, <1>2, <2>1 DEF ToolOK
<1>4. ShownInv'
  BY <1>1, <1>2 DEF ShownInv, SlicesStayInTheirCycle
<1>5. FollowInv'
  BY <1>2 DEF FollowInv, SwitchesAreFollowed
<1>6. MapsInv'
  BY <1>2 DEF MapsInv
<1>7. RowsInv'
  BY <1>1, <1>2 DEF RowsInv, RunningRow, BarsInRows, OneRowPerRecurringTask
<1> QED BY <1>3, <1>4, <1>5, <1>6, <1>7

-----------------------------------------------------------------------------
(* The state of the tool.                                                   *)

LEMMA InsertMap ==
    ASSUME NEW S, NEW T, NEW map \in Map(S, T), NEW k \in S, NEW v \in T
    PROVE  Insert(map, k, v) \in Map(S, T)
<1>1. PICK D \in SUBSET S : map \in [D -> T]
  BY DEF Map
<1>2. Insert(map, k, v) \in [D \cup {k} -> T]
  BY <1>1 DEF Insert
<1>3. D \cup {k} \in SUBSET S
  BY <1>1
<1> QED BY <1>2, <1>3 DEF Map

\* A fiber is named and, if it recurs, mapped to the first of its name.
LEMMA NewTaskMaps ==
    ASSUME NEW st \in ToolState, NEW t \in Nat, NEW s \in Tasks
    PROVE  /\ NewTask(st, t, s) \in ToolState
           /\ NewTask(st, t, s).cur_pid = st.cur_pid
           /\ NewTask(st, t, s).prev_ts = st.prev_ts
           /\ NewTask(st, t, s).prev_task = st.prev_task
           /\ NewTask(st, t, s).status = st.status
           /\ NewTask(st, t, s).seen_tids = Insert(st.seen_tids, t, s)
           /\ s \notin Recurring => /\ NewTask(st, t, s).recurring_map = st.recurring_map
                                    /\ NewTask(st, t, s).tidmap = st.tidmap
           /\ s \in Recurring =>
                 LET real == Lookup(st.recurring_map, s, t)
                 IN  /\ NewTask(st, t, s).recurring_map = Insert(st.recurring_map, s, real)
                     /\ NewTask(st, t, s).tidmap = Insert(st.tidmap, t, real)
                     /\ real \in Nat
<1>1. PICK real : real = Lookup(st.recurring_map, s, t)
  OBVIOUS
<1>2. real \in Nat
  <2>1. PICK D \in SUBSET Tasks : st.recurring_map \in [D -> Nat]
    BY DEF ToolState, Map
  <2> QED BY <1>1, <2>1 DEF Lookup
<1>3. PICK rm : rm = IF s \in Recurring THEN Insert(st.recurring_map, s, real)
                                        ELSE st.recurring_map
  OBVIOUS
<1>4. PICK tm : tm = IF s \in Recurring THEN Insert(st.tidmap, t, real) ELSE st.tidmap
  OBVIOUS
<1>5. PICK sm : sm = Insert(st.seen_tids, t, s)
  OBVIOUS
<1>6. /\ st.recurring_map \in Map(Tasks, Nat) /\ st.tidmap \in Map(Nat, Nat)
      /\ st.seen_tids \in Map(Nat, Tasks)
  BY DEF ToolState
<1>7. rm \in Map(Tasks, Nat) /\ tm \in Map(Nat, Nat) /\ sm \in Map(Nat, Tasks)
  BY <1>2, <1>3, <1>4, <1>5, <1>6, InsertMap
<1>8. PICK new : new = NewTask(st, t, s)
  OBVIOUS
<1>9. new = [st EXCEPT !.recurring_map = rm, !.tidmap = tm, !.seen_tids = sm]
  BY <1>1, <1>3, <1>4, <1>5, <1>8 DEF NewTask
<1>10. new = [seen_tids |-> sm, recurring_map |-> rm, tidmap |-> tm, cur_pid |-> st.cur_pid,
              prev_ts |-> st.prev_ts, prev_task |-> st.prev_task, status |-> st.status]
  BY <1>9 DEF ToolState
<1>11. new \in ToolState
  BY <1>7, <1>10 DEF ToolState
<1> QED BY <1>1, <1>2, <1>3, <1>4, <1>5, <1>8, <1>10, <1>11

LEMMA AnnounceOK ==
    ASSUME ToolOK, tool.status = "ok", NEW t \in Nat, NEW s \in Tasks, Announce(t, s),
           tracing
    PROVE  ToolOK'
<1>1. tool \in ToolState /\ out \subseteq Bar /\ tool.cur_pid = 1
  BY DEF ToolOK
<1>2. tool' \in ToolState /\ tool'.cur_pid = tool.cur_pid /\ tool'.status = tool.status
  BY <1>1, NewTaskMaps DEF Announce
<1> QED BY <1>1, <1>2 DEF ToolOK, Announce

\* What is printed about a row is a bar.
LEMMA FinishedIsBar ==
    ASSUME DaemonOK, ToolOK, NEW row \in Nat
    PROVE  Finished(row) \in Bar
<1>1. PICK D \in SUBSET Nat : tool.seen_tids \in [D -> Tasks]
  BY DEF ToolOK, ToolState, Map
<1>2. PICK n : n = Lookup(tool.seen_tids, row, "unnamed task")
  OBVIOUS
<1>3. n \in Tasks \cup {"unnamed task"}
  BY <1>1, <1>2 DEF Lookup
<1>4. PICK was : was = IF most_recent_id = 0 THEN "none" ELSE fibers[most_recent_id]
  OBVIOUS
<1>5. was \in Tasks \cup {"none"}
  BY <1>4 DEF DaemonOK
<1>6. tool.prev_ts \in Nat /\ cycle \in Nat /\ session \in Nat /\ kills \in Nat
  BY DEF DaemonOK, ToolOK, ToolState
<1>7. Finished(row) = [name |-> n, tid |-> row, ts |-> tool.prev_ts, end |-> cycle,
                       was |-> was, session |-> session, life |-> kills]
  BY <1>2, <1>4 DEF Finished
<1>8. ASSUME NEW a, NEW b, NEW c, a \in Nat, b \in Nat, c \in Nat, NEW d, d \in Nat
      PROVE  [name |-> n, tid |-> row, ts |-> a, end |-> b, was |-> was, session |-> c,
              life |-> d] \in Bar
  BY <1>3, <1>5, <1>8 DEF Bar
<1> QED BY <1>6, <1>7, <1>8

LEMMA RowIsNat ==
    ASSUME ToolOK, NEW t \in Nat
    PROVE  Row(t) \in Nat
<1>1. PICK D \in SUBSET Nat : tool.tidmap \in [D -> Nat]
  BY DEF ToolOK, ToolState, Map
<1> QED BY <1>1 DEF Row, Lookup

LEMMA FinishOK ==
    ASSUME TasksAssumption, DaemonOK, ToolOK, tracing, tool.status = "ok",
           NEW row, NEW task \in Nat \cup {NoTask}, Finish(row, task),
           tool.prev_task # NoTask => row \in Nat, KeepMaps \/ ClearMaps
    PROVE  ToolOK'
<1>1. tool \in ToolState /\ out \subseteq Bar /\ tool.cur_pid = 1
  BY DEF ToolOK
<1>2. /\ tool'.seen_tids \in Map(Nat, Tasks) /\ tool'.recurring_map \in Map(Tasks, Nat)
      /\ tool'.tidmap \in Map(Nat, Nat)
  BY <1>1, EmptyMap DEF KeepMaps, ClearMaps, ToolState
<1>3. /\ tool'.prev_ts \in Nat /\ tool'.prev_task \in Nat \cup {NoTask}
      /\ tool'.cur_pid = 1 /\ tool'.status = "ok"
  BY <1>1 DEF Finish, DaemonOK
<1>4. Complete(tool')
  BY DEF Finish
<1>5. tool' \in ToolState
  BY <1>2, <1>3, <1>4 DEF Complete, ToolState
<1>6. out' \subseteq Bar
  BY <1>1, FinishedIsBar DEF Finish
<1> QED BY <1>3, <1>5, <1>6 DEF ToolOK

-----------------------------------------------------------------------------
(* The steps, with what they do to the tool when the file stays readable.   *)

Scheduled ==
    /\ ~busy /\ busy' = TRUE /\ announcing = {}
    /\ UNCHANGED <<fibers, running, tracing, most_recent_id, emitted_since_cycle_ended,
                   announcing, session, kills, tool, out, seen, cuts>>

Forked(s) ==
    /\ s \in Tasks /\ announcing = {} /\ fibers' = Append(fibers, s)
    /\ s \in Recurring \/ \A f \in DOMAIN fibers : fibers[f] # s
    /\ IF tracing
       THEN /\ tool.status = "ok" /\ Announce(Len(fibers) + 1, s)
            /\ emitted_since_cycle_ended' = TRUE
       ELSE UNCHANGED <<tool, out, emitted_since_cycle_ended>>
    /\ UNCHANGED <<running, cycle, busy, tracing, most_recent_id, announcing, session, kills,
                   seen, cuts>>

Entered(f) ==
    /\ busy /\ f \in DOMAIN fibers /\ announcing = {} /\ running' = f
    /\ seen' = IF tracing THEN seen \cup {f} ELSE seen
    /\ IF tracing /\ f # most_recent_id
       THEN /\ most_recent_id' = f /\ emitted_since_cycle_ended' = TRUE
            /\ tool.status = "ok" /\ Finish(Row(tool.prev_task), Row(f)) /\ KeepMaps
       ELSE UNCHANGED <<most_recent_id, tool, out, emitted_since_cycle_ended>>
    /\ UNCHANGED <<fibers, cycle, busy, tracing, announcing, session, kills, cuts>>

Marked ==
    /\ emitted_since_cycle_ended' = TRUE
    /\ UNCHANGED <<fibers, running, cycle, busy, tracing, most_recent_id, announcing, session,
                   kills, tool, out, seen, cuts>>

CycleEnded ==
    /\ busy /\ busy' = FALSE /\ running' = NoTask /\ seen' = {} /\ announcing = {}
    /\ IF tracing /\ emitted_since_cycle_ended
       THEN tool.status = "ok" /\ Finish(tool.prev_task, NoTask) /\ KeepMaps
       ELSE UNCHANGED <<tool, out>>
    /\ UNCHANGED <<fibers, cycle, tracing, most_recent_id, announcing, session, kills, cuts>>

Stopped ==
    /\ busy /\ tracing /\ tracing' = FALSE /\ seen' = {} /\ announcing = {}
    /\ tool.status = "ok" /\ Finish(tool.prev_task, NoTask) /\ ClearMaps
    /\ UNCHANGED <<fibers, running, cycle, busy, most_recent_id, announcing, session, kills, cuts>>

Started ==
    /\ busy /\ ~tracing /\ tracing' = TRUE /\ session' = session + 1 /\ seen' = {}
    /\ announcing = {} /\ announcing' = DOMAIN fibers
    /\ emitted_since_cycle_ended' = TRUE
    /\ tool.status = "ok" /\ tool' = [tool EXCEPT !.cur_pid = 1] /\ out' = out
    /\ UNCHANGED <<fibers, running, cycle, busy, most_recent_id, kills, cuts>>

Listed(f) ==
    /\ f \in announcing /\ announcing' = announcing \ {f}
    /\ tool.status = "ok" /\ Announce(f, fibers[f])
    /\ UNCHANGED <<fibers, running, cycle, busy, tracing, most_recent_id,
                   emitted_since_cycle_ended, session, kills, seen, cuts>>

LEMMA Steps ==
    ASSUME TasksAssumption, DaemonOK, ToolOK, [Next]_vars
    PROVE  \/ Garble
           \/ Scheduled
           \/ \E s \in Tasks : Forked(s)
           \/ \E f \in DOMAIN fibers : Entered(f)
           \/ Marked
           \/ CycleEnded
           \/ Stopped
           \/ Started
           \/ \E f \in announcing : Listed(f)
           \/ Kill
           \/ UNCHANGED vars
<1>1. ASSUME announcing = {}, UNCHANGED announcing, CycleBegin
      PROVE  Scheduled
  BY <1>1 DEF CycleBegin, Scheduled
<1>2. ASSUME announcing = {}, UNCHANGED announcing, NEW s \in Tasks, on_new_fiber(s)
      PROVE  Garble \/ Forked(s)
  <2>1. CASE tracing
    <3>1. /\ Write(TraceEvent("New_thread", Len(fibers) + 1, s, cycle))
          /\ emitted_since_cycle_ended' = TRUE
      BY <1>2, <2>1 DEF on_new_fiber, emit_event
    <3>2. Garble \/ (tool.status = "ok" /\ Announce(Len(fibers) + 1, s))
      BY <3>1, WriteNew
    <3> QED BY <1>2, <2>1, <3>1, <3>2 DEF on_new_fiber, Forked
  <2>2. CASE ~tracing
    BY <1>2, <2>2 DEF on_new_fiber, emit_event, Forked
  <2> QED BY <2>1, <2>2
<1>3. ASSUME announcing = {}, UNCHANGED announcing, NEW f \in DOMAIN fibers, on_job_enter(f)
      PROVE  Garble \/ Entered(f)
  <2>1. CASE tracing /\ f # most_recent_id
    <3>1. /\ Write(TraceEvent("Thread_switch", f, "", cycle))
          /\ emitted_since_cycle_ended' = TRUE /\ most_recent_id' = f
      BY <1>3, <2>1 DEF on_job_enter, emit_event
    <3>2. \/ Garble
          \/ tool.status = "ok" /\ Finish(Row(tool.prev_task), Row(f)) /\ KeepMaps
      BY <2>1, <3>1, WriteSwitch
    <3> QED BY <1>3, <2>1, <3>1, <3>2 DEF on_job_enter, Entered
  <2>2. CASE ~(tracing /\ f # most_recent_id)
    BY <1>3, <2>2 DEF on_job_enter, Entered
  <2> QED BY <2>1, <2>2
<1>4. ASSUME announcing = {}, UNCHANGED announcing,
             NEW phase \in {"Event", "Measure_start", "Measure_end"}, mark(phase)
      PROVE  Garble \/ Marked
  <2>1. /\ Write(TraceEvent(phase, 0, "", cycle)) /\ emitted_since_cycle_ended' = TRUE
    BY <1>4 DEF mark, emit_event
  <2>2. Garble \/ UNCHANGED <<tool, out>>
    BY <2>1, WriteMark
  <2> QED BY <1>4, <2>1, <2>2 DEF mark, Marked
<1>5. ASSUME announcing = {}, UNCHANGED announcing, on_cycle_end
      PROVE  Garble \/ CycleEnded
  <2>1. CASE tracing /\ emitted_since_cycle_ended
    <3>1. Write(TraceEvent("Cycle_end", 0, "", cycle))
      BY <1>5, <2>1 DEF on_cycle_end
    <3>2. Garble \/ (tool.status = "ok" /\ Finish(tool.prev_task, NoTask) /\ KeepMaps)
      BY <2>1, <3>1, WriteEnd
    <3> QED BY <1>5, <2>1, <3>2 DEF on_cycle_end, CycleEnded
  <2>2. CASE ~(tracing /\ emitted_since_cycle_ended)
    BY <1>5, <2>2 DEF on_cycle_end, CycleEnded
  <2> QED BY <2>1, <2>2
<1>6. ASSUME announcing = {}, UNCHANGED announcing, stop_tracing
      PROVE  Garble \/ Stopped
  <2>1. tracing /\ Write(TraceEvent("Trace_end", 0, "", cycle))
    BY <1>6 DEF stop_tracing, emit_event
  <2>2. Garble \/ (tool.status = "ok" /\ Finish(tool.prev_task, NoTask) /\ ClearMaps)
    BY <2>1, WriteEnd
  <2> QED BY <1>6, <2>2 DEF stop_tracing, Stopped
<1>7. ASSUME announcing = {}, start_tracing
      PROVE  Garble \/ Started
  <2>1. Write(TraceEvent("Pid_is", 0, "", cycle))
    BY <1>7 DEF start_tracing
  <2>2. \/ Garble
        \/ tool.status = "ok" /\ tool' = [tool EXCEPT !.cur_pid = 1] /\ out' = out
    BY <2>1, WritePid
  <2> QED BY <1>7, <2>2 DEF start_tracing, Started
<1>8. ASSUME NEW f \in announcing, iter_fibers(f)
      PROVE  Garble \/ Listed(f)
  <2>1. Write(TraceEvent("New_thread", f, fibers[f], cycle))
    BY <1>8 DEF iter_fibers
  <2>2. Garble \/ (tool.status = "ok" /\ Announce(f, fibers[f]))
    BY <2>1, WriteNew
  <2> QED BY <1>8, <2>2 DEF iter_fibers, Listed
<1> QED
  BY <1>1, <1>2, <1>3, <1>4, <1>5, <1>6, <1>7, <1>8 DEF Next, Job

LEMMA ToolStep ==
    ASSUME TasksAssumption, DaemonOK, ToolOK, [Next]_vars
    PROVE  ToolOK'
<1>1. CASE Garble
  BY <1>1, GarbledStep
<1>2. CASE UNCHANGED <<tool, out>> /\ (tracing' => tracing)
  BY <1>2 DEF ToolOK
<1>3. ASSUME NEW s \in Tasks, Forked(s), tracing
      PROVE  ToolOK'
  <2>1. Len(fibers) + 1 \in Nat
    BY DEF DaemonOK
  <2> QED BY <1>3, <2>1, AnnounceOK DEF Forked
<1>4. ASSUME NEW f \in DOMAIN fibers, Entered(f), tracing /\ f # most_recent_id
      PROVE  ToolOK'
  <2>1. f \in Nat
    BY DEF DaemonOK
  <2>2. Row(f) \in Nat
    BY <2>1, RowIsNat
  <2>3. tool.prev_task # NoTask => Row(tool.prev_task) \in Nat
    BY RowIsNat DEF ToolOK, ToolState
  <2> QED BY <1>4, <2>2, <2>3, FinishOK DEF Entered
<1>5. CASE CycleEnded /\ tracing /\ emitted_since_cycle_ended
  <2>1. tool.prev_task # NoTask => tool.prev_task \in Nat
    BY DEF ToolOK, ToolState
  <2> QED BY <1>5, <2>1, FinishOK DEF CycleEnded
<1>6. CASE Stopped
  <2>1. tool.prev_task # NoTask => tool.prev_task \in Nat
    BY DEF ToolOK, ToolState
  <2> QED BY <1>6, <2>1, FinishOK DEF Stopped
<1>7. CASE Started
  BY <1>7 DEF Started, ToolOK, ToolState
<1>8. ASSUME NEW f \in announcing, Listed(f)
      PROVE  ToolOK'
  <2>1. f \in Nat /\ fibers[f] \in Tasks /\ tracing
    BY DEF DaemonOK
  <2> QED BY <1>8, <2>1, AnnounceOK DEF Listed
<1>9. CASE Scheduled \/ Marked \/ Kill \/ UNCHANGED vars
  BY <1>2, <1>9 DEF Scheduled, Marked, Kill, vars, daemon
<1>10. ASSUME NEW s \in Tasks, Forked(s), ~tracing
       PROVE  ToolOK'
  BY <1>2, <1>10 DEF Forked
<1>11. ASSUME NEW f \in DOMAIN fibers, Entered(f), ~(tracing /\ f # most_recent_id)
       PROVE  ToolOK'
  BY <1>2, <1>11 DEF Entered
<1>12. CASE CycleEnded /\ ~(tracing /\ emitted_since_cycle_ended)
  BY <1>2, <1>12 DEF CycleEnded
<1> QED
  BY <1>1, <1>3, <1>4, <1>5, <1>6, <1>7, <1>8, <1>9, <1>10, <1>11, <1>12, Steps

-----------------------------------------------------------------------------
(* The bars are drawn within cycles.                                        *)

\* The start of what is printed is the time of the last switch, and a row that is
\* finished began in this cycle or in one that was cut short.
LEMMA FinishShown ==
    ASSUME ShownInv, NEW row, NEW task, Finish(row, task), UNCHANGED cuts
    PROVE  SlicesStayInTheirCycle'
<1>1. tool.prev_task # NoTask => (tool.prev_ts \in cuts \/ tool.prev_ts = cycle)
  BY DEF ShownInv
<1>2. Finished(row).ts = tool.prev_ts /\ Finished(row).end = cycle
  BY DEF Finished
<1>3. \A r \in out : r.ts = r.end \/ r.ts \in cuts
  BY DEF ShownInv, SlicesStayInTheirCycle
<1>4. \A r \in out' : r.ts = r.end \/ r.ts \in cuts
  BY <1>1, <1>2, <1>3 DEF Finish
<1> QED BY <1>4 DEF SlicesStayInTheirCycle

LEMMA ShownStep ==
    ASSUME TasksAssumption, DaemonOK, ToolOK, ShownInv, [Next]_vars
    PROVE  ShownInv'
<1>1. CASE Garble
  BY <1>1, GarbledStep
<1>2. ASSUME UNCHANGED <<out, cuts>>
      PROVE  SlicesStayInTheirCycle'
  BY <1>2 DEF ShownInv, SlicesStayInTheirCycle
<1>3. CASE Scheduled
  BY <1>2, <1>3 DEF Scheduled, ShownInv
<1>4. ASSUME NEW s \in Tasks, Forked(s)
      PROVE  ShownInv'
  <2>1. CASE tracing
    <3>3. PICK t : t = Len(fibers) + 1
      OBVIOUS
    <3>1. t \in Nat /\ tool \in ToolState
      BY <3>3 DEF DaemonOK, ToolOK
    <3>4. tool' = NewTask(tool, t, s) /\ out' = out
      BY <1>4, <2>1, <3>3 DEF Forked, Announce
    <3>2. tool'.prev_task = tool.prev_task /\ tool'.prev_ts = tool.prev_ts /\ out' = out
      BY <3>1, <3>4, NewTaskMaps
    <3> QED BY <1>2, <1>4, <2>1, <3>2 DEF Forked, ShownInv
  <2>2. CASE ~tracing
    BY <1>2, <1>4, <2>2 DEF Forked, ShownInv
  <2> QED BY <2>1, <2>2
<1>5. ASSUME NEW f \in DOMAIN fibers, Entered(f)
      PROVE  ShownInv'
  <2>1. CASE tracing /\ f # most_recent_id
    <3>1. SlicesStayInTheirCycle'
      BY <1>5, <2>1, FinishShown DEF Entered
    <3>2. tool'.prev_ts = cycle /\ busy' /\ tracing' /\ cycle' = cycle
          /\ emitted_since_cycle_ended' = TRUE
      BY <1>5, <2>1 DEF Entered, Finish
    <3> QED BY <3>1, <3>2 DEF ShownInv
  <2>2. CASE ~(tracing /\ f # most_recent_id)
    BY <1>2, <1>5, <2>2 DEF Entered, ShownInv
  <2> QED BY <2>1, <2>2
<1>6. CASE Marked
  BY <1>2, <1>6 DEF Marked, ShownInv
<1>7. CASE CycleEnded
  <2>1. CASE tracing /\ emitted_since_cycle_ended
    <3>1. SlicesStayInTheirCycle'
      BY <1>7, <2>1, FinishShown DEF CycleEnded
    <3>2. tool'.prev_task = NoTask
      BY <1>7, <2>1 DEF CycleEnded, Finish
    <3> QED BY <3>1, <3>2 DEF ShownInv
  <2>2. CASE ~(tracing /\ emitted_since_cycle_ended)
    BY <1>2, <1>7, <2>2 DEF CycleEnded, ShownInv, DaemonOK
  <2> QED BY <2>1, <2>2
<1>8. CASE Stopped
  <2>1. SlicesStayInTheirCycle'
    BY <1>8, FinishShown DEF Stopped
  <2>2. tool'.prev_task = NoTask
    BY <1>8 DEF Stopped, Finish
  <2> QED BY <2>1, <2>2 DEF ShownInv
<1>9. CASE Started
  <2>1. tool'.prev_task = tool.prev_task /\ tool'.prev_ts = tool.prev_ts
    BY <1>9 DEF Started, ToolOK, ToolState
  <2> QED BY <1>2, <1>9, <2>1 DEF Started, ShownInv
<1>10. ASSUME NEW f \in announcing, Listed(f)
       PROVE  ShownInv'
  <2>1. f \in Nat /\ fibers[f] \in Tasks /\ tracing /\ tool \in ToolState
    BY DEF DaemonOK, ToolOK
  <2>2. tool'.prev_task = tool.prev_task /\ tool'.prev_ts = tool.prev_ts /\ out' = out
    BY <1>10, <2>1, NewTaskMaps DEF Listed, Announce
  <2> QED BY <1>2, <1>10, <2>2 DEF Listed, ShownInv
<1>11. CASE Kill
  BY <1>11 DEF Kill, ShownInv, SlicesStayInTheirCycle
<1>12. CASE UNCHANGED vars
  BY <1>12 DEF vars, daemon, ShownInv, SlicesStayInTheirCycle
<1> QED
  BY <1>1, <1>3, <1>4, <1>5, <1>6, <1>7, <1>8, <1>9, <1>10, <1>11, <1>12, Steps

-----------------------------------------------------------------------------
(* The tool follows the switches.                                           *)

\* Announcing a fiber does not move the row of another one.
LEMMA AnnounceRow ==
    ASSUME ToolOK, NEW t \in Nat, NEW s \in Tasks, Announce(t, s), NEW f \in Nat, f # t
    PROVE  Row(f)' = Row(f)
<1>1. tool \in ToolState /\ tool.tidmap \in Map(Nat, Nat)
  BY DEF ToolOK, ToolState
<1>2. tool' = NewTask(tool, t, s)
  BY DEF Announce
<1>3. CASE s \in Recurring
  <2>1. PICK real \in Nat : tool'.tidmap = Insert(tool.tidmap, t, real)
    BY <1>1, <1>2, <1>3, NewTaskMaps
  <2>2. /\ DOMAIN tool'.tidmap = DOMAIN tool.tidmap \cup {t}
        /\ \A x \in DOMAIN tool.tidmap : x # t => tool'.tidmap[x] = tool.tidmap[x]
    BY <2>1 DEF Insert
  <2> QED BY <2>2 DEF Row, Lookup
<1>4. CASE s \notin Recurring
  <2>1. tool'.tidmap = tool.tidmap
    BY <1>1, <1>2, <1>4, NewTaskMaps
  <2> QED BY <2>1 DEF Row, Lookup
<1> QED BY <1>3, <1>4

LEMMA AnnounceKeeps ==
    ASSUME ToolOK, NEW t \in Nat, NEW s \in Tasks, Announce(t, s)
    PROVE  /\ tool'.prev_task = tool.prev_task /\ tool'.prev_ts = tool.prev_ts
           /\ tool'.status = tool.status /\ out' = out
BY NewTaskMaps DEF ToolOK, Announce

\* What a step that keeps the tool's view of the running fiber preserves.
LEMMA FollowKept ==
    ASSUME FollowInv, UNCHANGED <<most_recent_id, tracing, seen>>, tool'.status # "panicked",
           tool'.prev_task = tool.prev_task, tool'.status = tool.status,
           (tracing /\ seen # {}) => (UNCHANGED running /\ Row(running)' = Row(running))
    PROVE  FollowInv'
<1>1. tool.prev_task # NoTask /\ (tracing => seen = {}) => most_recent_id = 0
  BY DEF FollowInv
<1>2. (tracing /\ tool.status = "ok" /\ seen # {}) =>
          IF Cardinality(seen) >= 2 THEN tool.prev_task = Row(running)
                                    ELSE tool.prev_task \in {NoTask, Row(running)}
  BY DEF FollowInv, SwitchesAreFollowed
<1>3. (tracing' /\ tool'.status = "ok" /\ seen' # {}) =>
          IF Cardinality(seen') >= 2 THEN tool'.prev_task = Row(running)'
                                     ELSE tool'.prev_task \in {NoTask, Row(running)'}
  BY <1>2
<1> QED BY <1>1, <1>3 DEF FollowInv, SwitchesAreFollowed

LEMMA FollowStep ==
    ASSUME TasksAssumption, DaemonOK, ToolOK, ToolOK', ShownInv, FollowInv, [Next]_vars
    PROVE  FollowInv'
<1>0. tool'.status # "panicked" /\ tool.status # "panicked"
  BY DEF ToolOK, ToolState
<1>1. CASE Garble
  BY <1>1, GarbledStep
<1>2. ASSUME UNCHANGED <<most_recent_id, tracing, seen, tool, running>>
      PROVE  FollowInv'
  <2>1. Row(running)' = Row(running)
    BY <1>2 DEF Row
  <2> QED BY <1>0, <1>2, <2>1, FollowKept
<1>3. CASE Scheduled \/ Marked \/ UNCHANGED vars
  BY <1>2, <1>3 DEF Scheduled, Marked, vars, daemon
<1>4. ASSUME NEW t \in Nat, NEW s \in Tasks, Announce(t, s), running # t,
             UNCHANGED <<most_recent_id, tracing, seen, running>>
      PROVE  FollowInv'
  <2>1. tool'.prev_task = tool.prev_task /\ tool'.status = tool.status
    BY <1>4, AnnounceKeeps
  <2>2. (tracing /\ seen # {}) => running \in Nat
    BY DEF DaemonOK
  <2>3. (tracing /\ seen # {}) => Row(running)' = Row(running)
    <3>1. SUFFICES ASSUME tracing /\ seen # {}
                   PROVE  Row(running)' = Row(running)
      OBVIOUS
    <3>2. PICK f : f = running /\ f \in Nat /\ f # t
      BY <1>4, <2>2, <3>1
    <3>3. Row(f)' = Row(f)
      BY <1>4, <3>2, AnnounceRow
    <3> QED BY <1>4, <3>2, <3>3 DEF Row
  <2> QED BY <1>0, <1>4, <2>1, <2>3, FollowKept
<1>5. ASSUME NEW s \in Tasks, Forked(s)
      PROVE  FollowInv'
  <2>1. CASE tracing
    <3>1. PICK t : t = Len(fibers) + 1
      OBVIOUS
    <3>2. t \in Nat /\ running # t
      BY <3>1 DEF DaemonOK, TasksAssumption
    <3>3. Announce(t, s) /\ UNCHANGED <<most_recent_id, tracing, seen, running>>
      BY <1>5, <2>1, <3>1 DEF Forked
    <3> QED BY <1>4, <3>2, <3>3
  <2>2. CASE ~tracing
    BY <1>2, <1>5, <2>2 DEF Forked
  <2> QED BY <2>1, <2>2
<1>6. ASSUME NEW f \in DOMAIN fibers, Entered(f)
      PROVE  FollowInv'
  <2>0. f # 0 /\ f # NoTask
    BY DEF DaemonOK, TasksAssumption
  <2>1. CASE tracing /\ f # most_recent_id
    <3>1. /\ tool'.prev_task = Row(f) /\ tool'.tidmap = tool.tidmap /\ running' = f
          /\ seen' = seen \cup {f} /\ tracing'
      BY <1>6, <2>1 DEF Entered, Finish, KeepMaps
    <3>2. tool'.prev_task = Row(running)'
      BY <3>1 DEF Row
    <3> QED BY <1>0, <3>1, <3>2 DEF FollowInv, SwitchesAreFollowed
  <2>2. CASE tracing /\ f = most_recent_id
    <3>1. /\ UNCHANGED <<tool, tracing, most_recent_id>> /\ running' = f
          /\ seen' = seen \cup {f}
      BY <1>6, <2>2 DEF Entered
    <3>2. CASE seen = {}
      <4>1. tool.prev_task = NoTask
        BY <2>0, <2>2, <3>2 DEF FollowInv
      <4>2. Cardinality(seen') = 1
        BY <3>1, <3>2, FS_Singleton
      <4> QED BY <1>0, <3>1, <4>1, <4>2 DEF FollowInv, SwitchesAreFollowed
    <3>3. CASE seen # {}
      <4>1. running = f /\ f \in seen
        BY <2>2, <3>3 DEF DaemonOK
      <4> QED BY <1>2, <3>1, <4>1
    <3> QED BY <3>2, <3>3
  <2>3. CASE ~tracing
    BY <1>0, <1>6, <2>3 DEF Entered, FollowInv, SwitchesAreFollowed
  <2> QED BY <2>1, <2>2, <2>3
<1>7. CASE CycleEnded
  <2>1. seen' = {} /\ UNCHANGED <<most_recent_id, tracing>>
    BY <1>7 DEF CycleEnded
  <2>2. CASE tracing
    <3>1. tool'.prev_task = NoTask
      BY <1>7, <2>2 DEF CycleEnded, Finish, ShownInv, DaemonOK
    <3> QED BY <1>0, <2>1, <3>1 DEF FollowInv, SwitchesAreFollowed
  <2>3. CASE ~tracing
    <3>1. tool' = tool
      BY <1>7, <2>3 DEF CycleEnded
    <3> QED BY <1>0, <2>1, <2>3, <3>1 DEF FollowInv, SwitchesAreFollowed
  <2> QED BY <2>2, <2>3
<1>8. CASE Stopped
  <2>1. tool'.prev_task = NoTask /\ seen' = {}
    BY <1>8 DEF Stopped, Finish
  <2> QED BY <1>0, <2>1 DEF FollowInv, SwitchesAreFollowed
<1>9. CASE Started
  <2>1. tool'.prev_task = tool.prev_task
    BY <1>9 DEF Started, ToolOK, ToolState
  <2>2. seen' = {} /\ UNCHANGED most_recent_id /\ ~tracing
    BY <1>9 DEF Started
  <2> QED BY <1>0, <2>1, <2>2 DEF FollowInv, SwitchesAreFollowed
<1>10. ASSUME NEW f \in announcing, Listed(f)
       PROVE  FollowInv'
  <2>1. f \in Nat /\ fibers[f] \in Tasks /\ seen = {} /\ tracing
    BY DEF DaemonOK
  <2>2. Announce(f, fibers[f]) /\ UNCHANGED <<most_recent_id, tracing, seen, running>>
    BY <1>10 DEF Listed
  <2>3. tool'.prev_task = tool.prev_task /\ tool'.status = tool.status
    BY <2>1, <2>2, AnnounceKeeps
  <2> QED BY <1>0, <2>1, <2>2, <2>3, FollowKept
<1>11. CASE Kill
  <2>1. most_recent_id' = 0 /\ seen' = {}
    BY <1>11 DEF Kill
  <2> QED BY <1>0, <2>1 DEF FollowInv, SwitchesAreFollowed
<1> QED
  BY <1>1, <1>3, <1>5, <1>6, <1>7, <1>8, <1>9, <1>10, <1>11, Steps

-----------------------------------------------------------------------------
(* The maps describe the announced fibers.                                  *)

LEMMA EmptyDescribes ==
    ASSUME NEW st, DOMAIN st.seen_tids = {}, DOMAIN st.recurring_map = {},
           DOMAIN st.tidmap = {}, NEW fs
    PROVE  Describes(st, {}, fs)
BY DEF Describes

\* One more fiber, whose name other fibers may have.
LEMMA NewDescribes ==
    ASSUME NEW st \in ToolState, NEW A \in SUBSET Nat, NEW fs, Describes(st, A, fs),
           NEW t \in Nat, t \notin A, NEW s \in Tasks, NEW gs,
           gs[t] = s, \A x \in A : gs[x] = fs[x]
    PROVE  Describes(NewTask(st, t, s), A \cup {t}, gs)
<1>1. PICK new : new = NewTask(st, t, s)
  OBVIOUS
<1>2. PICK sm : sm = new.seen_tids
  OBVIOUS
<1>3. PICK rm : rm = new.recurring_map
  OBVIOUS
<1>4. PICK tm : tm = new.tidmap
  OBVIOUS
<1>5. PICK sm0 : sm0 = st.seen_tids
  OBVIOUS
<1>6. PICK rm0 : rm0 = st.recurring_map
  OBVIOUS
<1>7. PICK tm0 : tm0 = st.tidmap
  OBVIOUS
<1>8. sm0 \in Map(Nat, Tasks) /\ rm0 \in Map(Tasks, Nat) /\ tm0 \in Map(Nat, Nat)
  BY <1>5, <1>6, <1>7 DEF ToolState
<1>9. /\ DOMAIN sm0 = A
      /\ \A u \in A : sm0[u] = fs[u]
      /\ \A u \in A : fs[u] \in Recurring => fs[u] \in DOMAIN rm0
      /\ \A n \in DOMAIN rm0 : n \in Recurring /\ rm0[n] \in A /\ fs[rm0[n]] = n
      /\ DOMAIN tm0 = {u \in A : fs[u] \in Recurring}
      /\ \A u \in DOMAIN tm0 : tm0[u] = rm0[fs[u]]
  BY <1>5, <1>6, <1>7 DEF Describes
<1>10. sm = Insert(sm0, t, s)
  BY <1>1, <1>2, <1>5, NewTaskMaps
<1>11. /\ DOMAIN sm = A \cup {t}
       /\ \A u \in A \cup {t} : sm[u] = gs[u]
  BY <1>9, <1>10 DEF Insert
<1>12. /\ \A u \in A \cup {t} : gs[u] \in Recurring => gs[u] \in DOMAIN rm
       /\ \A n \in DOMAIN rm : n \in Recurring /\ rm[n] \in A \cup {t} /\ gs[rm[n]] = n
       /\ DOMAIN tm = {u \in A \cup {t} : gs[u] \in Recurring}
       /\ \A u \in DOMAIN tm : tm[u] = rm[gs[u]]
  <2>1. CASE s \notin Recurring
    <3>1. rm = rm0 /\ tm = tm0
      BY <1>1, <1>3, <1>4, <1>6, <1>7, <2>1, NewTaskMaps
    <3> QED BY <1>9, <2>1, <3>1
  <2>2. CASE s \in Recurring
    <3>1. PICK real : real = Lookup(rm0, s, t)
      OBVIOUS
    <3>2. rm = Insert(rm0, s, real) /\ tm = Insert(tm0, t, real) /\ real \in Nat
      BY <1>1, <1>3, <1>4, <1>6, <1>7, <2>2, <3>1, NewTaskMaps
    <3>3. /\ DOMAIN rm = DOMAIN rm0 \cup {s} /\ rm[s] = real
          /\ \A n \in DOMAIN rm0 : n # s => rm[n] = rm0[n]
      BY <3>2 DEF Insert
    <3>4. /\ DOMAIN tm = DOMAIN tm0 \cup {t} /\ tm[t] = real
          /\ \A u \in DOMAIN tm0 : u # t => tm[u] = tm0[u]
      BY <3>2 DEF Insert
    <3>5. \A n \in DOMAIN rm0 : rm[n] = rm0[n]
      BY <3>1, <3>3 DEF Lookup
    <3>6. real \in A \cup {t} /\ gs[real] = s
      BY <1>9, <3>1 DEF Lookup
    <3>7. \A u \in A \cup {t} : gs[u] \in Recurring => gs[u] \in DOMAIN rm
      BY <1>9, <3>3
    <3>8. \A n \in DOMAIN rm : n \in Recurring /\ rm[n] \in A \cup {t} /\ gs[rm[n]] = n
      <4>1. ASSUME NEW n \in DOMAIN rm0
            PROVE  n \in Recurring /\ rm[n] \in A \cup {t} /\ gs[rm[n]] = n
        <5>1. n \in Recurring /\ rm0[n] \in A /\ fs[rm0[n]] = n
          BY <1>9
        <5> QED BY <3>5, <5>1
      <4> QED BY <2>2, <3>3, <3>6, <4>1
    <3>9. DOMAIN tm = {u \in A \cup {t} : gs[u] \in Recurring}
      BY <1>9, <2>2, <3>4
    <3>10. \A u \in DOMAIN tm : tm[u] = rm[gs[u]]
      <4>1. ASSUME NEW u \in DOMAIN tm0
            PROVE  tm[u] = rm[gs[u]]
        <5>1. u \in A /\ fs[u] \in DOMAIN rm0 /\ gs[u] = fs[u] /\ u # t
          BY <1>9
        <5> QED BY <1>9, <3>4, <3>5, <5>1
      <4> QED BY <3>3, <3>4, <4>1
    <3> QED BY <3>7, <3>8, <3>9, <3>10
  <2> QED BY <2>1, <2>2
<1> QED BY <1>1, <1>2, <1>3, <1>4, <1>11, <1>12 DEF Describes

LEMMA MapsKept ==
    ASSUME MapsInv, UNCHANGED <<kills, fibers>>, Announced' = Announced, KeepMaps,
           tool'.status = "ok" => tool.status = "ok"
    PROVE  MapsInv'
<1>1. Describes(tool, Announced, fibers) => Describes(tool', Announced', fibers')
  BY DEF Describes, KeepMaps
<1> QED BY <1>1 DEF MapsInv

\* A fiber announced in a file without leftovers.
LEMMA MapsAnnounce ==
    ASSUME DaemonOK, ToolOK, MapsInv, UNCHANGED kills, tool.status = "ok",
           NEW t \in Nat, NEW s \in Tasks, t \notin Announced, Announce(t, s),
           Announced' = Announced \cup {t}, fibers'[t] = s,
           \A x \in Announced : fibers'[x] = fibers[x]
    PROVE  MapsInv'
<1>1. SUFFICES ASSUME kills' = 0 /\ tool'.status = "ok"
               PROVE  Describes(tool', Announced', fibers')
  BY DEF MapsInv
<1>2. Describes(tool, Announced, fibers)
  BY <1>1 DEF MapsInv
<1>3. Announced \in SUBSET Nat /\ tool \in ToolState
  BY DEF Announced, DaemonOK, ToolOK
<1>4. PICK A : A = Announced
  OBVIOUS
<1>5. PICK gs : gs = fibers'
  OBVIOUS
<1>6. Describes(NewTask(tool, t, s), A \cup {t}, gs)
  BY <1>2, <1>3, <1>4, <1>5, NewDescribes
<1> QED BY <1>4, <1>5, <1>6 DEF Announce

LEMMA MapsStep ==
    ASSUME TasksAssumption, DaemonOK, ToolOK, MapsInv, [Next]_vars
    PROVE  MapsInv'
<1>1. CASE Garble
  BY <1>1, GarbledStep
<1>2. ASSUME UNCHANGED <<kills, fibers, tracing, announcing>>, KeepMaps,
             tool'.status = "ok" => tool.status = "ok"
      PROVE  MapsInv'
  <2>1. Announced' = Announced
    BY <1>2 DEF Announced
  <2> QED BY <1>2, <2>1, MapsKept
<1>3. CASE Scheduled \/ Marked \/ UNCHANGED vars
  BY <1>2, <1>3 DEF Scheduled, Marked, vars, daemon, KeepMaps
<1>4. ASSUME NEW s \in Tasks, Forked(s)
      PROVE  MapsInv'
  <2>1. /\ fibers \in Seq(Tasks) /\ fibers' = Append(fibers, s) /\ announcing = {}
        /\ UNCHANGED <<tracing, announcing, kills>>
    BY <1>4 DEF Forked, DaemonOK
  <2>2. CASE tracing
    <3>1. PICK t : t = Len(fibers) + 1
      OBVIOUS
    <3>2. t \in Nat /\ Announce(t, s) /\ tool.status = "ok"
      BY <1>4, <2>1, <2>2, <3>1 DEF Forked
    <3>3. /\ t \notin Announced /\ Announced' = Announced \cup {t}
          /\ fibers'[t] = s /\ \A x \in Announced : fibers'[x] = fibers[x]
      BY <2>1, <2>2, <3>1 DEF Announced
    <3> QED BY <2>1, <3>2, <3>3, MapsAnnounce
  <2>3. CASE ~tracing
    <3>1. UNCHANGED tool /\ Announced = {} /\ Announced' = {}
      BY <1>4, <2>1, <2>3 DEF Forked, Announced
    <3>2. SUFFICES ASSUME kills = 0 /\ tool.status = "ok"
                   PROVE  Describes(tool, {}, fibers')
      BY <2>1, <3>1 DEF MapsInv
    <3>3. Describes(tool, {}, fibers)
      BY <3>1, <3>2 DEF MapsInv
    <3> QED BY <3>3 DEF Describes
  <2> QED BY <2>2, <2>3
<1>5. ASSUME NEW f \in DOMAIN fibers, Entered(f)
      PROVE  MapsInv'
  BY <1>2, <1>5 DEF Entered, KeepMaps
<1>6. CASE CycleEnded
  BY <1>2, <1>6 DEF CycleEnded, KeepMaps
<1>7. CASE Stopped
  <2>1. Announced' = {} /\ ClearMaps
    BY <1>7 DEF Stopped, Announced
  <2>2. Describes(tool', {}, fibers')
    BY <2>1 DEF ClearMaps, Describes
  <2> QED BY <2>1, <2>2 DEF MapsInv
<1>8. CASE Started
  <2>1. Announced' = {} /\ Announced = {} /\ UNCHANGED <<kills, fibers>> /\ tool.status = "ok"
    BY <1>8 DEF Started, Announced
  <2>2. KeepMaps
    BY <1>8 DEF Started, ToolOK, ToolState, KeepMaps
  <2> QED BY <2>1, <2>2, MapsKept
<1>9. ASSUME NEW f \in announcing, Listed(f)
      PROVE  MapsInv'
  <2>1. PICK s : s = fibers[f]
    OBVIOUS
  <2>2. f \in Nat /\ f \in DOMAIN fibers /\ s \in Tasks /\ tracing
    BY <2>1 DEF DaemonOK
  <2>3. /\ Announce(f, s) /\ tool.status = "ok" /\ UNCHANGED <<kills, fibers, tracing>>
        /\ announcing' = announcing \ {f}
    BY <1>9, <2>1 DEF Listed
  <2>4. f \notin Announced /\ Announced' = Announced \cup {f}
    BY <2>2, <2>3 DEF Announced
  <2> QED BY <2>1, <2>2, <2>3, <2>4, MapsAnnounce
<1>10. CASE Kill
  BY <1>10 DEF Kill, MapsInv, DaemonOK
<1> QED
  BY <1>1, <1>3, <1>4, <1>5, <1>6, <1>7, <1>8, <1>9, <1>10, Steps

-----------------------------------------------------------------------------
(* A recurring task has one row.                                            *)

\* What the maps say of an announced fiber: its row is an announced fiber of the same
\* name, which is its own row and the row of every fiber of that name.
LEMMA RowNames ==
    ASSUME DaemonOK, NamesInv, NEW A \in SUBSET DOMAIN fibers, Describes(tool, A, fibers),
           NEW t \in A
    PROVE  /\ Row(t) \in A /\ fibers[Row(t)] = fibers[t] /\ Row(Row(t)) = Row(t)
           /\ tool.seen_tids[Row(t)] = fibers[t]
           /\ \A u \in A : fibers[u] = fibers[t] => Row(u) = Row(t)
<1>1. PICK rm : rm = tool.recurring_map
  OBVIOUS
<1>2. PICK tm : tm = tool.tidmap
  OBVIOUS
<1>3. /\ \A u \in A : tool.seen_tids[u] = fibers[u]
      /\ \A u \in A : fibers[u] \in Recurring => fibers[u] \in DOMAIN rm
      /\ \A n \in DOMAIN rm : rm[n] \in A /\ fibers[rm[n]] = n
      /\ DOMAIN tm = {u \in A : fibers[u] \in Recurring}
      /\ \A u \in DOMAIN tm : tm[u] = rm[fibers[u]]
  BY <1>1, <1>2 DEF Describes
<1>4. \A u : Row(u) = IF u \in DOMAIN tm THEN tm[u] ELSE u
  BY <1>2 DEF Row, Lookup
<1>5. CASE fibers[t] \in Recurring
  <2>1. PICK n : n = fibers[t]
    OBVIOUS
  <2>2. n \in DOMAIN rm /\ rm[n] \in A /\ fibers[rm[n]] = n
    BY <1>3, <1>5, <2>1
  <2>3. \A u \in A : fibers[u] = n => Row(u) = rm[n]
    BY <1>3, <1>4, <1>5, <2>1
  <2> QED BY <1>3, <2>1, <2>2, <2>3
<1>6. CASE fibers[t] \notin Recurring
  <2>1. Row(t) = t
    BY <1>3, <1>4, <1>6
  <2>2. \A u \in A : fibers[u] = fibers[t] => u = t
    BY <1>6 DEF NamesInv
  <2> QED BY <1>3, <2>1, <2>2
<1> QED BY <1>5, <1>6

\* The bar that is printed when a row is finished, in a file without leftovers.
LEMMA FinishedRow ==
    ASSUME DaemonOK, ToolOK, NamesInv, MapsInv, RowsInv, tracing, announcing = {},
           tool.status = "ok", kills = 0, tool.prev_task # NoTask,
           NEW row, row \in {tool.prev_task, Row(tool.prev_task)}
    PROVE  /\ Finished(row).name = Finished(row).was
           /\ Finished(row).tid = row
           /\ most_recent_id \in Announced /\ Finished(row).was = fibers[most_recent_id]
           /\ row = Row(most_recent_id)
           /\ InItsRow(Finished(row))
<1>1. most_recent_id # 0 /\ tool.prev_task = Row(most_recent_id)
  BY DEF RowsInv, RunningRow
<1>2. PICK m : m = most_recent_id
  OBVIOUS
<1>3. PICK A : A = Announced
  OBVIOUS
<1>4. A = DOMAIN fibers /\ m \in A
  BY <1>1, <1>2, <1>3 DEF Announced, DaemonOK
<1>5. Describes(tool, A, fibers)
  BY <1>3 DEF MapsInv
<1>6. /\ Row(m) \in A /\ fibers[Row(m)] = fibers[m] /\ Row(Row(m)) = Row(m)
      /\ tool.seen_tids[Row(m)] = fibers[m]
      /\ \A u \in A : fibers[u] = fibers[m] => Row(u) = Row(m)
  BY <1>4, <1>5, RowNames
<1>7. row = Row(m)
  BY <1>1, <1>2, <1>6
<1>8. DOMAIN tool.seen_tids = A
  BY <1>5 DEF Describes
<1>9. Lookup(tool.seen_tids, row, "unnamed task") = fibers[m]
  BY <1>6, <1>7, <1>8 DEF Lookup
<1>10. PICK b : b = Finished(row)
  OBVIOUS
<1>11. b.name = fibers[m] /\ b.was = fibers[m] /\ b.tid = row
  BY <1>1, <1>2, <1>9, <1>10 DEF Finished
<1>12. InItsRow(b)
  BY <1>3, <1>4, <1>6, <1>7, <1>11 DEF InItsRow
<1> QED BY <1>2, <1>3, <1>4, <1>7, <1>10, <1>11, <1>12

LEMMA FinishRows ==
    ASSUME DaemonOK, ToolOK, NamesInv, MapsInv, RowsInv, tracing, announcing = {},
           tool.status = "ok", UNCHANGED <<session, kills>>,
           NEW row, row \in {tool.prev_task, Row(tool.prev_task)},
           NEW task, Finish(row, task)
    PROVE  /\ \A r \in out' : r.session <= session'
           /\ kills = 0 => \A r \in out' : r.session = session => InItsRow(r)
           /\ OneRowPerRecurringTask'
<1>1. PICK b : b = Finished(row)
  OBVIOUS
<1>2. b.session = session /\ b.life = kills /\ session \in Nat /\ kills \in Nat
  BY <1>1 DEF Finished, DaemonOK
<1>3. out' \subseteq out \cup {b} /\ (tool.prev_task = NoTask => out' = out)
  BY <1>1 DEF Finish
<1>4. /\ \A r \in out : r.session <= session
      /\ kills = 0 => \A r \in out : r.session = session => InItsRow(r)
      /\ \A r \in out : r.life = 0 => r.name = r.was
      /\ \A r, q \in out :
            (r.life = 0 /\ q.life = 0 /\ q.session = r.session /\ q.was = r.was) => q.tid = r.tid
  BY DEF RowsInv, BarsInRows, OneRowPerRecurringTask
<1>5. ASSUME kills = 0, tool.prev_task # NoTask
      PROVE  /\ b.name = b.was /\ InItsRow(b)
             /\ \A q \in out : (q.session = session /\ q.was = b.was) => q.tid = b.tid
  <2>1. /\ b.name = b.was /\ b.tid = row /\ most_recent_id \in Announced
        /\ b.was = fibers[most_recent_id] /\ row = Row(most_recent_id) /\ InItsRow(b)
    BY <1>1, <1>5, FinishedRow
  <2>2. \A q \in out : q.session = session => InItsRow(q)
    BY <1>4, <1>5
  <2> QED BY <2>1, <2>2 DEF InItsRow
<1>6. \A r \in out' : r.session <= session'
  BY <1>2, <1>3, <1>4
<1>7. kills = 0 => \A r \in out' : r.session = session => InItsRow(r)
  BY <1>3, <1>4, <1>5
<1>8. \A r \in out' : r.life = 0 => r.name = r.was
  BY <1>2, <1>3, <1>4, <1>5
<1>9. ASSUME NEW r \in out', NEW q \in out', r.life = 0, q.life = 0,
             q.session = r.session, q.was = r.was
      PROVE  q.tid = r.tid
  BY <1>2, <1>3, <1>4, <1>5, <1>9
<1> QED BY <1>6, <1>7, <1>8, <1>9 DEF OneRowPerRecurringTask

\* A fiber of the name of a bar is announced: it joins the bar's row.
LEMMA AnnounceRows ==
    ASSUME DaemonOK, ToolOK, NamesInv, MapsInv, RowsInv, tracing, tool.status = "ok",
           NEW t \in Nat, NEW s \in Tasks, t \notin Announced, Announce(t, s),
           Announced' = Announced \cup {t}, fibers'[t] = s,
           \A x \in Announced : fibers'[x] = fibers[x],
           \A x \in Announced : fibers[x] = s => s \in Recurring,
           UNCHANGED <<tracing, session, kills>>
    PROVE  BarsInRows'
<1>1. SUFFICES ASSUME kills = 0, NEW r \in out, r.session = session
               PROVE  InItsRow(r)'
  <2>1. out' = out
    BY DEF Announce
  <2> QED BY <1>1, <2>1 DEF BarsInRows
<1>2. PICK A : A = Announced
  OBVIOUS
<1>3. A \in SUBSET DOMAIN fibers /\ A \in SUBSET Nat
  BY <1>2 DEF Announced, DaemonOK
<1>4. Describes(tool, A, fibers)
  BY <1>1, <1>2 DEF MapsInv
<1>5. (\E u \in A : fibers[u] = r.was) /\ (\A u \in A : fibers[u] = r.was => Row(u) = r.tid)
  BY <1>1, <1>2 DEF RowsInv, BarsInRows, InItsRow
<1>6. PICK u \in A : fibers[u] = r.was
  BY <1>5
<1>7. \A x \in A : Row(x)' = Row(x)
  BY <1>2, <1>3, AnnounceRow
<1>8. ASSUME s = r.was
      PROVE  Row(t)' = r.tid
  <2>1. s \in Recurring
    BY <1>2, <1>6, <1>8
  <2>2. PICK real : real = Lookup(tool.recurring_map, s, t)
    OBVIOUS
  <2>3. tool'.tidmap = Insert(tool.tidmap, t, real)
    BY <2>1, <2>2, NewTaskMaps DEF Announce, ToolOK
  <2>4. Row(t)' = real
    BY <2>3 DEF Row, Lookup, Insert
  <2>5. /\ s \in DOMAIN tool.recurring_map /\ u \in DOMAIN tool.tidmap
        /\ tool.tidmap[u] = tool.recurring_map[s]
    BY <1>4, <1>6, <1>8, <2>1 DEF Describes
  <2>6. Row(u) = tool.recurring_map[s]
    BY <2>5 DEF Row, Lookup
  <2> QED BY <1>5, <1>6, <2>2, <2>4, <2>5, <2>6 DEF Lookup
<1>9. \E x \in Announced' : fibers'[x] = r.was
  BY <1>2, <1>6
<1>10. ASSUME NEW x \in A \cup {t}, fibers'[x] = r.was
       PROVE  Row(x)' = r.tid
  <2>1. CASE x = t
    BY <1>8, <1>10, <2>1
  <2>2. CASE x \in A
    BY <1>2, <1>5, <1>7, <1>10, <2>2
  <2> QED BY <2>1, <2>2
<1> QED BY <1>2, <1>9, <1>10 DEF InItsRow

LEMMA RowsKept ==
    ASSUME RowsInv, out' = out, session <= session', BarsInRows', RunningRow',
           session \in Nat, session' \in Nat, out \subseteq Bar
    PROVE  RowsInv'
<1>1. \A r \in out : r.session <= session /\ r.session \in Nat
  BY DEF RowsInv, Bar
<1>2. OneRowPerRecurringTask'
  BY DEF RowsInv, OneRowPerRecurringTask
<1> QED BY <1>1, <1>2 DEF RowsInv

LEMMA RowsStep ==
    ASSUME TasksAssumption, DaemonOK, DaemonOK', ToolOK, NamesInv, MapsInv, RowsInv, [Next]_vars
    PROVE  RowsInv'
<1>0. session \in Nat /\ session' \in Nat /\ out \subseteq Bar
  BY DEF DaemonOK, ToolOK
<1>1. CASE Garble
  BY <1>1, GarbledStep
<1>2. ASSUME UNCHANGED <<fibers, most_recent_id, tracing, announcing, session, kills, tool, out>>
      PROVE  RowsInv'
  <2>1. RunningRow'
    BY <1>2 DEF RowsInv, RunningRow, Row
  <2>2. BarsInRows'
    BY <1>2 DEF RowsInv, BarsInRows, InItsRow, Announced, Row
  <2> QED BY <1>0, <1>2, <2>1, <2>2, RowsKept
<1>3. CASE Scheduled \/ Marked \/ UNCHANGED vars
  BY <1>2, <1>3 DEF Scheduled, Marked, vars, daemon
<1>4. ASSUME NEW s \in Tasks, Forked(s)
      PROVE  RowsInv'
  <2>1. /\ fibers \in Seq(Tasks) /\ fibers' = Append(fibers, s) /\ announcing = {}
        /\ UNCHANGED <<tracing, announcing, session, kills, most_recent_id>>
    BY <1>4 DEF Forked, DaemonOK
  <2>2. CASE tracing
    <3>1. PICK t : t = Len(fibers) + 1
      OBVIOUS
    <3>2. t \in Nat /\ Announce(t, s) /\ tool.status = "ok"
      BY <1>4, <2>1, <2>2, <3>1 DEF Forked
    <3>3. /\ t \notin Announced /\ Announced' = Announced \cup {t}
          /\ fibers'[t] = s /\ \A x \in Announced : fibers'[x] = fibers[x]
      BY <2>1, <2>2, <3>1 DEF Announced
    <3>4. \A x \in Announced : fibers[x] = s => s \in Recurring
      BY <1>4, <2>2 DEF Forked, Announced
    <3>5. BarsInRows'
      BY <2>1, <2>2, <3>2, <3>3, <3>4, AnnounceRows
    <3>6. tool'.prev_task = tool.prev_task /\ tool'.status = tool.status /\ out' = out
      BY <3>2, AnnounceKeeps
    <3>7. RunningRow'
      <4>1. most_recent_id \in Nat /\ most_recent_id # t
        BY <2>1, <3>1 DEF DaemonOK
      <4>2. PICK m : m = most_recent_id
        OBVIOUS
      <4>3. Row(m)' = Row(m)
        BY <3>2, <4>1, <4>2, AnnounceRow
      <4>4. Row(most_recent_id)' = Row(most_recent_id)
        BY <2>1, <4>2, <4>3 DEF Row
      <4> QED BY <2>1, <3>6, <4>4 DEF RowsInv, RunningRow
    <3> QED BY <1>0, <2>1, <3>5, <3>6, <3>7, RowsKept
  <2>3. CASE ~tracing
    <3>1. UNCHANGED <<tool, out>> /\ ~tracing'
      BY <1>4, <2>1, <2>3 DEF Forked
    <3>2. RunningRow' /\ BarsInRows'
      BY <2>1, <2>3, <3>1 DEF RowsInv, RunningRow, BarsInRows
    <3> QED BY <1>0, <2>1, <3>1, <3>2, RowsKept
  <2> QED BY <2>2, <2>3
<1>5. ASSUME NEW row, row \in {tool.prev_task, Row(tool.prev_task)}, NEW task,
             Finish(row, task), KeepMaps, tracing, announcing = {}, tool.status = "ok",
             UNCHANGED <<fibers, tracing, announcing, session, kills>>, RunningRow'
      PROVE  RowsInv'
  <2>1. /\ \A r \in out' : r.session <= session'
        /\ kills = 0 => \A r \in out' : r.session = session => InItsRow(r)
        /\ OneRowPerRecurringTask'
    BY <1>5, FinishRows
  <2>2. ASSUME NEW r, InItsRow(r)
        PROVE  InItsRow(r)'
    BY <1>5, <2>2 DEF InItsRow, Announced, Row, KeepMaps
  <2>3. BarsInRows'
    BY <1>5, <2>1, <2>2 DEF BarsInRows
  <2> QED BY <1>5, <2>1, <2>3 DEF RowsInv
<1>6. ASSUME NEW f \in DOMAIN fibers, Entered(f)
      PROVE  RowsInv'
  <2>1. CASE tracing /\ f # most_recent_id
    <3>1. /\ Finish(Row(tool.prev_task), Row(f)) /\ KeepMaps /\ tool.status = "ok"
          /\ announcing = {} /\ most_recent_id' = f
          /\ UNCHANGED <<fibers, tracing, announcing, session, kills>>
      BY <1>6, <2>1 DEF Entered
    <3>2. RunningRow'
      <4>1. f # 0
        BY DEF DaemonOK
      <4>2. tool'.prev_task = Row(f) /\ tool'.tidmap = tool.tidmap
        BY <3>1 DEF Finish, KeepMaps
      <4>3. Row(most_recent_id)' = Row(f)
        BY <3>1, <4>2 DEF Row
      <4> QED BY <2>1, <3>1, <4>1, <4>2, <4>3 DEF RunningRow
    <3> QED BY <1>5, <2>1, <3>1, <3>2
  <2>2. CASE ~(tracing /\ f # most_recent_id)
    BY <1>2, <1>6, <2>2 DEF Entered
  <2> QED BY <2>1, <2>2
<1>7. CASE CycleEnded
  <2>1. CASE tracing /\ emitted_since_cycle_ended
    <3>1. /\ Finish(tool.prev_task, NoTask) /\ KeepMaps /\ tool.status = "ok"
          /\ announcing = {}
          /\ UNCHANGED <<fibers, tracing, announcing, session, kills>>
      BY <1>7, <2>1 DEF CycleEnded
    <3>2. RunningRow'
      BY <3>1 DEF Finish, RunningRow
    <3> QED BY <1>5, <2>1, <3>1, <3>2
  <2>2. CASE ~(tracing /\ emitted_since_cycle_ended)
    BY <1>2, <1>7, <2>2 DEF CycleEnded
  <2> QED BY <2>1, <2>2
<1>8. CASE Stopped
  <2>1. /\ Finish(tool.prev_task, NoTask) /\ tool.status = "ok" /\ tracing /\ ~tracing'
        /\ announcing = {} /\ UNCHANGED <<session, kills>>
    BY <1>8 DEF Stopped
  <2>2. (\A r \in out' : r.session <= session') /\ OneRowPerRecurringTask'
    BY <2>1, FinishRows
  <2>3. RunningRow' /\ BarsInRows'
    BY <2>1 DEF Finish, RunningRow, BarsInRows
  <2> QED BY <2>2, <2>3 DEF RowsInv
<1>9. CASE Started
  <2>1. tool'.prev_task = tool.prev_task /\ tool'.status = tool.status
    BY <1>9 DEF Started, ToolOK, ToolState
  <2>2. out' = out /\ session' = session + 1 /\ ~tracing /\ UNCHANGED kills
    BY <1>9 DEF Started
  <2>3. RunningRow'
    BY <2>1, <2>2 DEF RowsInv, RunningRow
  <2>4. BarsInRows'
    <3>1. \A r \in out : r.session <= session /\ r.session \in Nat
      BY <1>0 DEF RowsInv, Bar
    <3>2. \A r \in out : r.session # session'
      BY <1>0, <2>2, <3>1
    <3> QED BY <2>2, <3>2 DEF BarsInRows
  <2> QED BY <1>0, <2>2, <2>3, <2>4, RowsKept
<1>10. ASSUME NEW f \in announcing, Listed(f)
       PROVE  RowsInv'
  <2>1. PICK s : s = fibers[f]
    OBVIOUS
  <2>2. f \in Nat /\ f \in DOMAIN fibers /\ s \in Tasks /\ tracing
    BY <2>1 DEF DaemonOK
  <2>3. /\ Announce(f, s) /\ tool.status = "ok"
        /\ UNCHANGED <<kills, fibers, tracing, session>>
        /\ announcing' = announcing \ {f}
    BY <1>10, <2>1 DEF Listed
  <2>4. f \notin Announced /\ Announced' = Announced \cup {f}
    BY <2>2, <2>3 DEF Announced
  <2>5. \A x \in Announced : fibers[x] = s => s \in Recurring
    BY <2>1, <2>2, <2>4 DEF NamesInv, Announced
  <2>6. BarsInRows'
    BY <2>1, <2>2, <2>3, <2>4, <2>5, AnnounceRows
  <2>7. tool'.prev_task = tool.prev_task /\ tool'.status = tool.status /\ out' = out
    BY <2>2, <2>3, AnnounceKeeps
  <2>8. RunningRow'
    BY <1>10, <2>3, <2>7 DEF RowsInv, RunningRow
  <2> QED BY <1>0, <2>3, <2>6, <2>7, <2>8, RowsKept
<1>11. CASE Kill
  <2>1. kills' # 0 /\ UNCHANGED <<session, out>>
    BY <1>11 DEF Kill, DaemonOK
  <2>2. RunningRow' /\ BarsInRows'
    BY <2>1 DEF RunningRow, BarsInRows
  <2> QED BY <1>0, <2>1, <2>2, RowsKept
<1> QED
  BY <1>1, <1>3, <1>4, <1>6, <1>7, <1>8, <1>9, <1>10, <1>11, Steps

-----------------------------------------------------------------------------
(* Theorems.                                                                *)

LEMMA ToolInit ==
    ASSUME TasksAssumption, Init
    PROVE  ToolInv
<1>1. DaemonOK
  <2>1. fibers \in Seq(Tasks) /\ DOMAIN fibers = {} /\ announcing = {} /\ seen = {}
    BY DEF Init
  <2> QED BY <2>1 DEF Init, DaemonOK
<1>2. tool = Start /\ out = {} /\ ~tracing
  BY DEF Init
<1>3. /\ tool.prev_task = NoTask /\ tool.status = "ok" /\ tool.seen_tids = <<>>
      /\ tool.recurring_map = <<>> /\ tool.tidmap = <<>>
  BY <1>2 DEF Start
<1>4. ToolOK
  <2>1. <<>> \in Map(Nat, Tasks) /\ <<>> \in Map(Tasks, Nat) /\ <<>> \in Map(Nat, Nat)
    BY EmptyMap
  <2>2. Start \in ToolState
    BY <2>1 DEF Start, ToolState
  <2> QED BY <1>2, <1>3, <2>2 DEF ToolOK
<1>5. ShownInv
  BY <1>2, <1>3 DEF ShownInv, SlicesStayInTheirCycle
<1>6. FollowInv
  BY <1>2, <1>3 DEF FollowInv, SwitchesAreFollowed
<1>7. NamesInv
  BY DEF Init, NamesInv
<1>8. MapsInv
  <2>1. Announced = {}
    BY <1>2 DEF Announced
  <2> QED BY <1>3, <2>1 DEF MapsInv, Describes
<1>9. RowsInv
  BY <1>2, <1>3 DEF RowsInv, RunningRow, BarsInRows, OneRowPerRecurringTask
<1> QED BY <1>1, <1>4, <1>5, <1>6, <1>7, <1>8, <1>9 DEF ToolInv

\* The inductive invariant of the plugin and the tool: what the plugin leaves out of
\* the file is what the tool infers, through sessions, cycles and crashes.
THEOREM ToolInvariant == Spec => []ToolInv
<1>1. Init => ToolInv
  BY ToolInit, TasksAssumption
<1>2. ToolInv /\ [Next]_vars => ToolInv'
  <2>1. SUFFICES ASSUME ToolInv, [Next]_vars
                 PROVE  ToolInv'
    OBVIOUS
  <2>2. /\ DaemonOK /\ ToolOK /\ ShownInv /\ FollowInv /\ NamesInv /\ MapsInv /\ RowsInv
    BY <2>1 DEF ToolInv
  <2>3. DaemonOK' /\ ToolOK' /\ NamesInv'
    BY <2>1, <2>2, TasksAssumption, DaemonStep, ToolStep, NamesStep
  <2>4. ShownInv' /\ FollowInv'
    BY <2>1, <2>2, <2>3, TasksAssumption, ShownStep, FollowStep
  <2>5. MapsInv' /\ RowsInv'
    BY <2>1, <2>2, <2>3, TasksAssumption, MapsStep, RowsStep
  <2> QED BY <2>3, <2>4, <2>5 DEF ToolInv
<1> QED BY <1>1, <1>2, PTL DEF Spec

\* complete_event and the CycleEnd and TraceEnd arms of the fold: no bar covers the
\* time between cycles, whatever ends of cycles and switches the plugin leaves out,
\* except the one of a task that ran when the daemon was killed.
THEOREM SlicesAlwaysInTheirCycle == Spec => []SlicesStayInTheirCycle
<1>1. ToolInv => SlicesStayInTheirCycle
  BY DEF ToolInv, ShownInv
<1> QED BY <1>1, ToolInvariant, PTL

\* The Switch arm of the fold and on_job_enter: once two fibers were entered in a
\* cycle the tool believes the running one to be running, and complete_event's
\* assertion that the process id is known never fails.
THEOREM SwitchesAlwaysFollowed == Spec => []SwitchesAreFollowed
<1>1. ToolInv => SwitchesAreFollowed
  BY DEF ToolInv, FollowInv
<1> QED BY <1>1, ToolInvariant, PTL

\* The New arm of the fold with recurring_map and tidmap: bars carry the name of the
\* task that ran, and those of a recurring task share one row per session.
THEOREM RecurringTasksAlwaysOneRow == Spec => []OneRowPerRecurringTask
<1>1. ToolInv => OneRowPerRecurringTask
  BY DEF ToolInv, RowsInv
<1> QED BY <1>1, ToolInvariant, PTL
=============================================================================
