-------------------------------- MODULE Cron --------------------------------
(***************************************************************************)
(* The cron scheduler (cron/observer.py) with the job list and its file    *)
(* (cron/manager.py), the watcher of that file (infra/file_watcher.py),    *)
(* the /cron buttons (selectors/cron_selector.py), the queue of jobs that  *)
(* share a dependency (cron/dependency_queue.py) and the webhooks that run *)
(* in the same queue (webhook/observer.py).                                *)
(*                                                                         *)
(* Each scheduled run of a job is an asyncio task: it sleeps until its     *)
(* slot, executes the job and schedules a task for the next slot.  The     *)
(* table _scheduled holds one task per job, _executing one mark per job;   *)
(* a reschedule drops the tasks of the jobs without a mark and schedules   *)
(* every enabled job anew.  Other tools edit the file at any time.         *)
(***************************************************************************)
EXTENDS Integers, FiniteSets

CONSTANTS
  Jobs, Hooks,  \* cron jobs; webhooks in cron_task mode
  Deps, NoDep,  \* dependencies, and the absence of one
  DepOf,        \* the dependency of a job or hook
  Plans,        \* contents of a job: its schedule and instruction
  Gone,         \* a job that is not in the list
  MaxTasks,     \* bound: tasks of one job that are alive together
  MaxEdits,     \* bound: edits of the file by other tools
  MaxToggles    \* bound: presses of /cron buttons

ASSUME CronAssumption ==
  /\ IsFiniteSet(Jobs) /\ IsFiniteSet(Hooks)
  /\ Jobs \cap Hooks = {} /\ NoDep \notin Deps
  /\ Gone \notin [on : BOOLEAN, plan : Plans]
  /\ DepOf \in [Jobs \cup Hooks -> Deps \cup {NoDep}]
  /\ MaxTasks \in Nat \ {0}
  /\ MaxEdits \in Nat /\ MaxToggles \in Nat

VARIABLES
  file,      \* cron_jobs.json
  mem,       \* CronManager._jobs
  noted,     \* _last_mtime is the mtime of the file
  loaded,    \* what the thread of reload() has read
  task,      \* the asyncio tasks: the content they were scheduled with, how far they are,
             \* and the dependency they have read
  table,     \* _scheduled: the number of a job's task, 0 if none is alive
  executing, \* _executing
  ahead,     \* the tasks in front of one that waits for its dependency
  at,        \* how far the watcher and the requested reschedule are
  gathered,  \* cancelled tasks whose end a reschedule awaits
  up,        \* _running
  edits, toggles,
  doubled,   \* history: jobs a reschedule has given a second task
  bared,     \* history: executions whose mark has gone with the end of another task
  cut,       \* history: executions cancelled although no other task of the job had ended
  outdated,  \* history: jobs rescheduled with the content of a finished run
  unscheduled, \* history: jobs for which _schedule_job has failed the last time
  order,     \* history: what the last button of a job said, until the job is edited
  unread,    \* history: jobs edited since the file was last read or overwritten
  hidden,    \* history: jobs whose edit was noted before it was read
  crossed    \* history: the bot has saved its list while a reload held a newer one

store == <<file, mem, noted, loaded>>
runs == <<task, table, executing, ahead>>
bounds == <<edits, toggles>>
runHistory == <<doubled, bared, cut, outdated, unscheduled>>
listHistory == <<order, unread, hidden, crossed>>
vars == <<store, runs, at, gathered, up, bounds, runHistory, listHistory>>

Entries == [on : BOOLEAN, plan : Plans] \cup {Gone}
Ids == (Jobs \X (1..MaxTasks)) \cup (Hooks \X {1})
Parties == {"watcher", "request"}
InLine == {"waiting", "running", "killed"}
Phases == {"free", "sleeping", "routing", "refusing", "delivering", "noting"} \cup InLine

\* The variables range over the states the observer can be in.
TypeInv ==
  /\ file \in [Jobs -> Entries] /\ mem \in [Jobs -> Entries]
  /\ loaded \in [Jobs -> Entries] /\ noted \in BOOLEAN
  /\ task \in [Ids -> [plan : Plans \cup {Gone}, at : Phases, dep : Deps \cup {NoDep}]]
  /\ table \in [Jobs -> 0..MaxTasks]
  /\ executing \subseteq Jobs
  /\ ahead \in [Ids -> SUBSET Ids]
  /\ at \in [Parties -> {"idle", "loading", "read", "noting", "ready", "cancelling", "ended"}]
  /\ gathered \subseteq Ids /\ up \in BOOLEAN
  /\ edits \in 0..MaxEdits /\ toggles \in 0..MaxToggles
  /\ doubled \subseteq Jobs /\ bared \subseteq Ids /\ cut \subseteq Ids
  /\ outdated \subseteq Jobs /\ unscheduled \subseteq Jobs
  /\ order \in [Jobs -> {"on", "off", "none"}]
  /\ unread \subseteq Jobs /\ hidden \subseteq Jobs /\ crossed \in BOOLEAN

-----------------------------------------------------------------------------
(* Tasks.                                                                   *)

Enabled(j) == mem[j] # Gone /\ mem[j].on
Alive(tk, j) == {i \in 1..MaxTasks : tk[<<j, i>>].at # "free"}
Executes(phase) == phase \notin {"free", "sleeping"}
NoTask == [plan |-> Gone, at |-> "free", dep |-> NoDep]

\* Task.cancel: a process is killed and waited for, anything else ends at once.
Cancelled(tk, T) ==
  [t \in Ids |-> IF t \notin T THEN tk[t]
                 ELSE IF tk[t].at \in {"running", "killed"}
                      THEN [tk[t] EXCEPT !.at = "killed"] ELSE NoTask]

\* Mutant of Shortened: a cancelled waiter keeps its place.
ShortenedAtHead(tk) ==
  [t \in Ids |-> {u \in ahead[t] : tk[u].at \in InLine \/ task[u].at = "waiting"}]
\* Those who still hold the dependency, or wait for it, in front of a waiter.
Shortened(tk) ==
  [t \in Ids |-> IF tk[t].at = "waiting" THEN {u \in ahead[t] : tk[u].at \in InLine} ELSE {}]

\* The table without the tasks that have ended.
Pruned(tb, tk) ==
  [j \in Jobs |-> IF tb[j] # 0 /\ tk[<<j, tb[j]>>].at = "free" THEN 0 ELSE tb[j]]

\* The executions beside a task of the same job: the end of the task takes their mark.
Beside(t) == {u \in Ids \ {t} : t[1] \in Jobs /\ u[1] = t[1] /\ Executes(task[u].at)}

\* An execution is bared until it has ended, or its job is marked again.
Bare(B) == bared' = {t \in B : Executes(task'[t].at) /\ t[1] \notin executing'}

\* Executions among T beside which no other task of their job has ended.
CutAmong(T, B) == {t \in T : Executes(task[t].at) /\ t \notin B}

\* Mutant of Replaced: the task in the table is left alone.
ReplacedOnly(j, marks) == {}
\* _schedule_job: the idle task of the job that the table still holds.
Replaced(j, marks) ==
  IF table[j] # 0 /\ j \notin marks THEN {<<j, table[j]>>} ELSE {}

\* A task of the job that is not alive: it is used for the new one.
Fresh(tk, j) == CHOOSE i \in 1..MaxTasks : i \notin Alive(tk, j)
HasFresh(tk, j) == Alive(tk, j) # 1..MaxTasks

\* _schedule_job for the jobs J, after the tasks tk: the tasks, then the table.
Scheduled(tk, J, plan) ==
  [t \in Ids |-> IF t[1] \in J /\ t[2] = Fresh(tk, t[1])
                 THEN [plan |-> plan[t[1]], at |-> "sleeping", dep |-> NoDep] ELSE tk[t]]
Tabled(tk, J) == [j \in Jobs |-> IF j \in J THEN Fresh(tk, j) ELSE Pruned(table, tk)[j]]

\* The only task of the job is the one in the table, and is marked while it executes.
Single(tk, tb, marks, j) ==
  \A i \in Alive(tk, j) : tb[j] = i /\ (Executes(tk[<<j, i>>].at) => j \in marks)

\* A job is doubled until its surplus tasks are gone.
Settle(D, marks) == doubled' = {j \in D : ~Single(task', table', marks, j)}

\* The end of _execute_job and of _run_at: the mark of the job goes, and an
\* enabled job gets a task for its next slot, with the content of this one, unless
\* _schedule_job fails (a schedule that is none, an error): then it changes nothing.
Leave(t) ==
  LET j == t[1]
      marks == executing \ {j}
      next == up /\ Enabled(j) /\ j \notin unscheduled'
      old == IF next THEN Replaced(j, marks) \ {t} ELSE {}
      tk == Cancelled([task EXCEPT ![t] = NoTask], old)
  IN /\ unscheduled' \in IF up /\ Enabled(j) THEN {unscheduled \cup {j}, unscheduled \ {j}}
                                            ELSE {unscheduled}
     /\ next => HasFresh(tk, j)
     /\ task' = IF next THEN Scheduled(tk, {j}, [k \in {j} |-> task[t].plan]) ELSE tk
     /\ table' = IF next THEN Tabled(tk, {j}) ELSE Pruned(table, tk)
     /\ ahead' = Shortened(tk)
     /\ executing' = marks
     /\ cut' = cut \cup CutAmong(old, bared \cup Beside(t)) /\ Bare(bared \cup Beside(t))
     /\ outdated' = IF next /\ task[t].plan # mem[j].plan THEN outdated \cup {j} ELSE outdated
     /\ Settle(doubled, marks)

\* The task goes on to the next phase.
Move(t, phase) == task' = [task EXCEPT ![t].at = phase]
End(t) == task' = [task EXCEPT ![t] = NoTask]

\* _save: the whole list is written; an edit that was not read yet is overwritten, and
\* so is what a reload has read and not put in place yet.
Save(jobs) ==
  /\ file' = jobs /\ noted' = FALSE
  /\ unread' = {} /\ hidden' = {} /\ crossed' = (at["watcher"] = "read")

\* update_mtime: whatever the file holds now counts as known.
Note == noted' = TRUE /\ hidden' = hidden \cup unread

\* update_run_status, for a job that is still in the list.
SaveStatus(j) ==
  IF mem[j] = Gone THEN UNCHANGED <<file, noted, unread, hidden, crossed>> ELSE Save(mem)

-----------------------------------------------------------------------------
(* Executions.                                                              *)

Nothing == [j \in Jobs |-> Gone]

Init ==
  \E p \in Plans :
    /\ file = [j \in Jobs |-> [on |-> TRUE, plan |-> p]]
    /\ mem = file /\ noted = TRUE /\ loaded = Nothing
    /\ task = [t \in Ids |-> IF t[1] \in Jobs /\ t[2] = 1
                              THEN [plan |-> p, at |-> "sleeping", dep |-> NoDep] ELSE NoTask]
    /\ table = [j \in Jobs |-> 1]
    /\ executing = {} /\ ahead = [t \in Ids |-> {}]
    /\ at = [w \in Parties |-> "idle"] /\ gathered = {} /\ up = TRUE
    /\ edits = 0 /\ toggles = 0
    /\ doubled = {} /\ bared = {} /\ cut = {} /\ outdated = {} /\ unscheduled = {}
    /\ order = [j \in Jobs |-> "none"] /\ unread = {} /\ hidden = {} /\ crossed = FALSE

\* The task has read its dependency, and goes on.
Place(t, d, phase) == task' = [task EXCEPT ![t].dep = d, ![t].at = phase]

\* The slot of a task has come; a job that is not in the list any more is executed too,
\* without a dependency.
Fire(t) ==
  /\ t[1] \in Jobs /\ task[t].at = "sleeping"
  /\ mem[t[1]] # Gone => mem[t[1]].on
  /\ Place(t, IF mem[t[1]] = Gone THEN NoDep ELSE DepOf[t[1]], "routing")
  /\ executing' = executing \cup {t[1]} /\ Bare(bared)
  /\ UNCHANGED <<store, table, ahead, at, gathered, up, bounds,
                doubled, cut, outdated, unscheduled, listHistory>>

\* A disabled job, or one in its quiet hours: nothing is executed.
Skip(t) ==
  /\ t[1] \in Jobs /\ task[t].at = "sleeping"
  /\ mem[t[1]] # Gone
  /\ Leave(t)
  /\ UNCHANGED <<store, at, gathered, up, bounds, listHistory>>

\* Get in line for the dependency, if there is one.
Enter(t, d) ==
  IF d = NoDep THEN Place(t, d, "running") /\ UNCHANGED ahead
  ELSE /\ Place(t, d, "waiting")
       /\ ahead' = [ahead EXCEPT ![t] = {u \in Ids : task[u].dep = d /\ task[u].at \in InLine}]

\* The model policy has chosen a model, or refuses the job.
Routed(t) ==
  /\ task[t].at = "routing"
  /\ Enter(t, task[t].dep) \/ (Move(t, "refusing") /\ UNCHANGED ahead)
  /\ UNCHANGED <<store, table, executing, at, gathered, up, bounds, runHistory, listHistory>>

\* The lock of the dependency is handed to the first in line.
Turn(t) ==
  /\ task[t].at = "waiting" /\ ahead[t] = {}
  /\ Move(t, "running")
  /\ UNCHANGED <<store, table, executing, ahead, at, gathered, up, bounds, runHistory, listHistory>>

\* The process has ended or timed out, or there is no such CLI.
Finished(t) ==
  /\ t[1] \in Jobs /\ task[t].at = "running"
  /\ \E phase \in {"delivering", "refusing"} : Move(t, phase)
  /\ ahead' = Shortened(task')
  /\ UNCHANGED <<store, table, executing, at, gathered, up, bounds, runHistory, listHistory>>

\* The result is delivered, or needs no delivery; the status of the run is saved.
Delivered(t) ==
  /\ task[t].at = "delivering" /\ t[1] \in Jobs
  /\ Move(t, "noting") /\ SaveStatus(t[1])
  /\ UNCHANGED <<mem, loaded, table, executing, ahead, at, gathered, up, bounds,
                runHistory, order>>

\* The mtime of that save is noted.
Noted(t) ==
  /\ task[t].at = "noting"
  /\ Note /\ Leave(t)
  /\ UNCHANGED <<file, mem, loaded, at, gathered, up, bounds, order, unread, crossed>>

\* A refusal is delivered, or the folder of the job is missing: the status is
\* saved, its mtime is not noted.
Refused(t) ==
  /\ t[1] \in Jobs /\ task[t].at \in {"refusing", "running"}
  /\ SaveStatus(t[1]) /\ Leave(t)
  /\ UNCHANGED <<mem, loaded, at, gathered, up, bounds, order>>

\* The process of a cancelled execution is dead.
Died(t) ==
  /\ task[t].at = "killed"
  /\ End(t)
  /\ ahead' = Shortened(task')
  /\ executing' = executing \ {t[1]}
  /\ table' = Pruned(table, task')
  /\ gathered' = gathered \ {t}
  /\ Settle(doubled, executing') /\ Bare(bared \cup Beside(t))
  /\ UNCHANGED <<store, at, up, bounds, cut, outdated, unscheduled, listHistory>>

\* A request for a webhook: _dispatch_cron_task, up to the dependency.
HookArrives(t) ==
  /\ up /\ t[1] \in Hooks /\ task[t].at = "free"
  /\ Enter(t, DepOf[t[1]])
  /\ UNCHANGED <<store, table, executing, at, gathered, up, bounds, runHistory, listHistory>>

\* The process of a webhook has ended.
HookFinished(t) ==
  /\ t[1] \in Hooks /\ task[t].at = "running"
  /\ End(t) /\ ahead' = Shortened(task')
  /\ UNCHANGED <<store, table, executing, at, gathered, up, bounds, runHistory, listHistory>>

-----------------------------------------------------------------------------
(* The file, the watcher and the buttons.                                   *)

\* A tool (cron_add, cron_edit, cron_remove) changes a job in the file.
Edit(j) ==
  /\ up /\ edits < MaxEdits /\ edits' = edits + 1
  /\ \E e \in Entries \ {file[j]} : file' = [file EXCEPT ![j] = e]
  /\ noted' = FALSE /\ unread' = unread \cup {j} /\ order' = [order EXCEPT ![j] = "none"]
  /\ UNCHANGED <<mem, loaded, runs, at, gathered, up, toggles, runHistory, hidden, crossed>>

\* request_reschedule: one request at a time.
Requested ==
  IF at["request"] = "idle" THEN at' = [at EXCEPT !["request"] = "noting"] ELSE UNCHANGED at

\* A button holds, unless a reload that has read the file will replace the list.
Ordered(J, on) ==
  [j \in Jobs |-> IF j \notin J THEN order[j]
                  ELSE IF at["watcher"] = "read" THEN "none" ELSE IF on THEN "on" ELSE "off"]

\* Mutant of Toggle: a job that is enabled is left to the task it had.
ToggleOff ==
  /\ up /\ toggles < MaxToggles /\ toggles' = toggles + 1
  /\ \E J \in {{j} : j \in Jobs} \cup {Jobs} : \E on \in BOOLEAN :
       LET flips == {j \in J : mem[j] # Gone /\ mem[j].on # on} IN
         /\ flips # {}
         /\ mem' = [j \in Jobs |-> IF j \in flips THEN [mem[j] EXCEPT !.on = on] ELSE mem[j]]
         /\ order' = Ordered(flips, on)
  /\ Save(mem')
  /\ IF \E j \in Jobs : Enabled(j) /\ ~mem'[j].on THEN Requested ELSE UNCHANGED at
  /\ UNCHANGED <<loaded, runs, gathered, up, edits, runHistory>>
\* A button enables or disables one job, or all of them.
Toggle ==
  /\ up /\ toggles < MaxToggles /\ toggles' = toggles + 1
  /\ \E J \in {{j} : j \in Jobs} \cup {Jobs} : \E on \in BOOLEAN :
       LET flips == {j \in J : mem[j] # Gone /\ mem[j].on # on} IN
         /\ flips # {}
         /\ mem' = [j \in Jobs |-> IF j \in flips THEN [mem[j] EXCEPT !.on = on] ELSE mem[j]]
         /\ order' = Ordered(flips, on)
  /\ Save(mem') /\ Requested
  /\ UNCHANGED <<loaded, runs, gathered, up, edits, runHistory>>

Step(w, from, to) == at[w] = from /\ at' = [at EXCEPT ![w] = to]

\* Mutant of Poll: a change during an execution is taken for its status.
PollUnlessExecuting ==
  /\ up /\ ~noted
  /\ IF executing = {} THEN Step("watcher", "idle", "loading")
     ELSE at["watcher"] = "idle" /\ UNCHANGED at
  /\ noted' = TRUE
  /\ UNCHANGED <<file, mem, loaded, runs, gathered, up, bounds, runHistory, listHistory>>
\* The watcher finds another mtime than it has noted, and notes it.
Poll ==
  /\ up /\ ~noted /\ Step("watcher", "idle", "loading")
  /\ noted' = TRUE
  /\ UNCHANGED <<file, mem, loaded, runs, gathered, up, bounds, runHistory, listHistory>>

\* reload() runs in a thread: it reads the file, then replaces the list.
Read ==
  /\ Step("watcher", "loading", "read")
  /\ loaded' = file /\ unread' = {} /\ hidden' = {} /\ crossed' = FALSE
  /\ UNCHANGED <<file, mem, noted, runs, gathered, up, bounds, runHistory, order>>

\* The list is replaced; an edit or a button that came after the reading is not in it.
Replace ==
  /\ Step("watcher", "read", "ready")
  /\ mem' = loaded /\ loaded' = Nothing
  /\ UNCHANGED <<file, noted, runs, gathered, up, bounds, runHistory, listHistory>>

\* reload() raises, on a file that is no list of jobs: the loop of the watcher ends.
WatcherFails ==
  /\ Step("watcher", "loading", "ended")
  /\ UNCHANGED <<store, runs, gathered, up, bounds, runHistory, listHistory>>

\* reschedule_now notes the mtime first: the save of the button is known.
RequestNotes ==
  /\ Step("request", "noting", "ready")
  /\ Note
  /\ UNCHANGED <<file, mem, loaded, runs, gathered, up, bounds, runHistory, order, unread, crossed>>

\* Mutant of Begin: the tasks of executing jobs are cancelled too.
BeginAll(w) ==
  LET old == {<<j, table[j]>> : j \in {k \in Jobs : table[k] # 0}}
      tk == Cancelled(task, old)
  IN /\ Step(w, "ready", "cancelling") /\ "cancelling" \notin {at[v] : v \in Parties}
     /\ task' = tk /\ ahead' = Shortened(tk)
     /\ table' = [j \in Jobs |-> 0]
     /\ gathered' = {t \in old : tk[t].at = "killed"}
     /\ UNCHANGED <<store, executing, up, bounds, outdated, unscheduled, listHistory>>
     /\ cut' = cut \cup CutAmong(old, bared) /\ Bare(bared)
     /\ Settle(doubled, executing)
\* _reschedule_all, under its lock: the tasks of jobs that are not executing are
\* cancelled, and their end is awaited.
Begin(w) ==
  LET old == {<<j, table[j]>> : j \in {k \in Jobs \ executing : table[k] # 0}}
      tk == Cancelled(task, old)
  IN /\ Step(w, "ready", "cancelling") /\ "cancelling" \notin {at[v] : v \in Parties}
     /\ task' = tk /\ ahead' = Shortened(tk)
     /\ table' = [j \in Jobs |-> IF j \in executing THEN table[j] ELSE 0]
     /\ gathered' = {t \in old : tk[t].at = "killed"}
     /\ UNCHANGED <<store, executing, up, bounds, outdated, unscheduled, listHistory>>
     /\ cut' = cut \cup CutAmong(old, bared) /\ Bare(bared)
     /\ Settle(doubled, executing)

\* _schedule_all: the mtime is noted, and every enabled job is scheduled with
\* its present content, except those for which _schedule_job fails.
Finish(w) ==
  LET J == {j \in Jobs \ unscheduled' : Enabled(j)}
      old == UNION {Replaced(j, executing) : j \in J}
      tk == Cancelled(task, old)
  IN /\ Step(w, "cancelling", "idle") /\ gathered = {}
     /\ unscheduled' \in SUBSET {j \in Jobs : Enabled(j)}
     /\ \A j \in J : HasFresh(tk, j)
     /\ Note
     /\ task' = Scheduled(tk, J, [j \in J |-> mem[j].plan])
     /\ table' = Tabled(tk, J) /\ ahead' = Shortened(tk)
     /\ UNCHANGED <<file, mem, loaded, executing, gathered, up, bounds, order, unread, crossed>>
     /\ cut' = cut \cup CutAmong(old, bared) /\ Bare(bared)
     /\ outdated' = {}
     /\ Settle(doubled \cup (J \cap executing), executing)

\* stop(): the watcher, the request and the tasks of the table are cancelled.
Stop ==
  LET old == {<<j, table[j]>> : j \in {k \in Jobs : table[k] # 0}} \cup (Hooks \X {1})
      tk == Cancelled(task, old)
  IN /\ up /\ up' = FALSE
     /\ at' = [w \in Parties |-> "idle"] /\ gathered' = {}
     /\ task' = tk /\ ahead' = Shortened(tk)
     /\ table' = [j \in Jobs |-> 0]
     /\ executing' = {j \in executing : \E i \in Alive(tk, j) : Executes(tk[<<j, i>>].at)}
     /\ loaded' = Nothing
     /\ doubled' = {} /\ bared' = {} /\ outdated' = {} /\ unscheduled' = {}
     /\ order' = [j \in Jobs |-> "none"] /\ unread' = {} /\ hidden' = {} /\ crossed' = FALSE
     /\ UNCHANGED <<file, mem, noted, bounds, cut>>

Next ==
  \/ \E t \in Ids :
       \/ Fire(t) \/ Skip(t) \/ Routed(t) \/ Turn(t) \/ Finished(t) \/ Delivered(t)
       \/ Noted(t) \/ Refused(t) \/ Died(t) \/ HookArrives(t) \/ HookFinished(t)
  \/ \E j \in Jobs : Edit(j)
  \/ \E w \in Parties : Begin(w) \/ Finish(w)
  \/ Toggle \/ Poll \/ Read \/ Replace \/ WatcherFails \/ RequestNotes \/ Stop

Spec == Init /\ [][Next]_vars

-----------------------------------------------------------------------------
(* Properties.                                                              *)

\* A reschedule is due or under way.
Rescheduling == at["request"] # "idle" \/ at["watcher"] \in {"ready", "cancelling"}

\* A job has one task: only a reschedule that finds the job executing gives it a
\* second one (observer.py, _schedule_all).
OneTaskEach == up => \A j \in Jobs \ doubled : Cardinality(Alive(task, j)) <= 1

\* As long as the observer runs an execution is cancelled in one case only: its job had a
\* second task, and the end of that one takes the mark of the job and thereby the
\* protection of the execution. An edit, a button, a webhook, another job, or a second
\* task alone never cancels it (observer.py:293, "Jobs that are currently executing are
\* left running").
ExecutionsSurvive == cut = {}

\* Whenever no reschedule is due or under way every enabled job has a task in the table,
\* which will run the content the list has now, unless _schedule_job has failed for the
\* job, or the job was executing when its content changed. And the list does what the
\* last button said, until a tool edits the job: no save, no reload and no execution
\* reverts it, except the reload that had read the file before the button was pressed.
EnabledIsScheduled ==
  /\ up /\ ~Rescheduling =>
       \A j \in Jobs \ unscheduled : Enabled(j) =>
         /\ table[j] # 0
         /\ \/ task[<<j, table[j]>>].plan = mem[j].plan
            \/ Executes(task[<<j, table[j]>>].at) \/ j \in outdated
  /\ \A j \in Jobs : order[j] # "none" => mem[j] # Gone /\ mem[j].on = (order[j] = "on")

\* When the watcher has nothing to look at, the list holds what the file holds. Three
\* things make it miss a change: the bot notes the mtime of an edit the watcher has not
\* come to, after a save of its own or in the course of a reschedule; it saves its list
\* while a reload has read a newer one; an exception has ended the watcher.
EditsAreRead ==
  up /\ noted /\ at["watcher"] \notin {"loading", "read", "ended"} =>
    \A j \in Jobs : mem[j] = file[j] \/ j \in hidden \/ crossed

\* The line of a dependency is served one by one (dependency_queue.py:26, "Tasks with
\* same dependency run sequentially"): nobody holds it beside another, nobody waits for
\* a task that has left it, and whoever waits, waits in the end for one that holds the
\* dependency or can take it: the line never jams.
LineIsServed ==
  /\ \A t, u \in Ids :
       /\ task[t].dep = task[u].dep /\ task[t].dep # NoDep
       /\ task[t].at \in {"running", "killed"} /\ task[u].at \in {"running", "killed"}
       => t = u
  /\ \A t \in Ids : \A u \in ahead[t] : task[u].at \in InLine
  /\ \A t \in Ids : \E u \in ahead[t] \cup {t} : ahead[u] = {}

=============================================================================
