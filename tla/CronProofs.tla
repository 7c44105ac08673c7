----------------------------- MODULE CronProofs -----------------------------
(* What the cron scheduler guarantees for any jobs, webhooks, dependencies   *)
(* and schedules, and however many tasks, edits and buttons there are.       *)
EXTENDS Cron, FiniteSetTheorems, WellFoundedInduction, TLAPS

Task == [plan : Plans \cup {Gone}, at : Phases, dep : Deps \cup {NoDep}]

\* Webhooks have no slots and no status to save.
HooksWait == \A t \in Ids : t[1] \in Hooks => task[t].at \in {"free"} \cup InLine

\* A stopped observer reschedules no more.
DownIsIdle == up \/ \A w \in Parties : at[w] = "idle"

\* The task in the table is alive and has not been cancelled.
TableIsTrue == \A j \in Jobs : table[j] # 0 => task[<<j, table[j]>>].at \notin {"free", "killed"}

\* A job that is not doubled has no task but the one in the table, and it is marked
\* while it executes.
SinglesHold == up => \A j \in Jobs \ doubled : Single(task, table, executing, j)

\* The line of a dependency: of two tasks in it one is in front of the other, who is
\* in front of that one too, and only waiters have somebody in front of them.
SameDep(t, u) == task[t].dep = task[u].dep /\ task[t].dep # NoDep
LineInv ==
  /\ \A t \in Ids : ahead[t] # {} => task[t].at = "waiting"
  /\ \A t \in Ids : \A u \in ahead[t] : task[u].at \in InLine /\ SameDep(t, u)
  /\ \A t \in Ids : t \notin ahead[t] /\ \A u \in ahead[t] : ahead[u] \subseteq ahead[t]
  /\ \A t, u \in Ids :
       t # u /\ SameDep(t, u) /\ task[t].at \in InLine /\ task[u].at \in InLine
         => u \in ahead[t] \/ t \in ahead[u]

\* An execution has the mark of its job, unless the end of another task has taken it.
MarksHold ==
  up => \A t \in Ids : t[1] \in Jobs /\ Executes(task[t].at) => t[1] \in executing \/ t \in bared

\* Wherever a job is kept it is as the last button said; what a reload has read too.
Obeys(e, o) == e # Gone /\ e.on = (o = "on")
OrdersHold ==
  \A j \in Jobs : order[j] # "none" =>
    /\ Obeys(mem[j], order[j]) /\ Obeys(file[j], order[j])
    /\ at["watcher"] = "read" => Obeys(loaded[j], order[j])

\* The list, or the one that will replace it, differs from the file only in jobs whose
\* edit is unread or hidden, and an unread edit is seen by the watcher or hidden.
Coming(j) == IF at["watcher"] = "read" THEN loaded[j] ELSE mem[j]
EditsKnown ==
  up => /\ ~crossed => \A j \in Jobs : Coming(j) = file[j] \/ j \in hidden \cup unread
        /\ noted /\ at["watcher"] \notin {"loading", "ended"} => unread \subseteq hidden

CronInv ==
  /\ TypeInv /\ HooksWait /\ DownIsIdle /\ TableIsTrue /\ SinglesHold /\ LineInv
  /\ MarksHold /\ OrdersHold /\ EditsKnown

-----------------------------------------------------------------------------
(* The operators on tasks.                                                   *)

\* The number of a task belongs to its job, and a webhook has but one.
LEMMA IdShape ==
  ASSUME CronAssumption
  PROVE  /\ \A j \in Jobs : \A i \in 1..MaxTasks : <<j, i>> \in Ids
         /\ \A t \in Ids : /\ t = <<t[1], t[2]>> /\ t[1] \in Jobs \cup Hooks
                           /\ t[1] \in Jobs => t[2] \in 1..MaxTasks /\ t[1] \notin Hooks
                           /\ t[1] \in Hooks => t[1] \notin Jobs
BY DEF CronAssumption, Ids

\* _schedule_job takes a task that is not alive.
LEMMA FreshIsFree ==
  ASSUME NEW tk, NEW j, HasFresh(tk, j)
  PROVE  Fresh(tk, j) \in 1..MaxTasks /\ tk[<<j, Fresh(tk, j)>>].at = "free"
<1>1. \E i \in 1..MaxTasks : i \notin Alive(tk, j)
  BY DEF HasFresh, Alive
<1>2. Fresh(tk, j) \in 1..MaxTasks /\ Fresh(tk, j) \notin Alive(tk, j)
  BY <1>1 DEF Fresh
<1> QED
  BY <1>2 DEF Alive

LEMMA CancelledType ==
  ASSUME NEW tk \in [Ids -> Task], NEW T
  PROVE  Cancelled(tk, T) \in [Ids -> Task]
BY DEF Cancelled, NoTask, Task, Phases, InLine

LEMMA ScheduledType ==
  ASSUME NEW tk \in [Ids -> Task], NEW J, NEW plan, \A j \in J : plan[j] \in Plans \cup {Gone}
  PROVE  Scheduled(tk, J, plan) \in [Ids -> Task]
BY DEF Scheduled, Task, Phases

\* The table of a schedule, and the table without what has ended, hold numbers.
LEMMA TabledType ==
  ASSUME CronAssumption, TypeInv, NEW tk, NEW J, \A j \in J : HasFresh(tk, j)
  PROVE  /\ Pruned(table, tk) \in [Jobs -> 0..MaxTasks]
         /\ Tabled(tk, J) \in [Jobs -> 0..MaxTasks]
<1>1. Pruned(table, tk) \in [Jobs -> 0..MaxTasks]
  BY DEF Pruned, TypeInv, CronAssumption
<1>2. \A j \in J : Fresh(tk, j) \in 0..MaxTasks
  BY FreshIsFree, 1..MaxTasks \subseteq 0..MaxTasks
<1> QED
  BY <1>1, <1>2 DEF Tabled

LEMMA ShortenedType ==
  ASSUME TypeInv, NEW tk
  PROVE  Shortened(tk) \in [Ids -> SUBSET Ids]
BY DEF Shortened, TypeInv

\* A job in the list has a content.
LEMMA EntryPlan ==
  ASSUME CronAssumption, NEW e \in Entries, e # Gone
  PROVE  e.on \in BOOLEAN /\ e.plan \in Plans
BY DEF Entries

\* The parts of Leave: whether the job goes on, what is cancelled, what is left.
GoesOn(t) == up /\ Enabled(t[1]) /\ t[1] \notin unscheduled'
Dropped(t) == IF GoesOn(t) THEN Replaced(t[1], executing \ {t[1]}) \ {t} ELSE {}
Remaining(t) == Cancelled([task EXCEPT ![t] = NoTask], Dropped(t))

LEMMA LeaveEffect ==
  ASSUME NEW t, Leave(t)
  PROVE  /\ GoesOn(t) => HasFresh(Remaining(t), t[1])
         /\ task' = IF GoesOn(t) THEN Scheduled(Remaining(t), {t[1]}, [k \in {t[1]} |-> task[t].plan])
                                 ELSE Remaining(t)
         /\ table' = IF GoesOn(t) THEN Tabled(Remaining(t), {t[1]}) ELSE Pruned(table, Remaining(t))
         /\ ahead' = Shortened(Remaining(t))
         /\ executing' = executing \ {t[1]}
         /\ cut' = cut \cup CutAmong(Dropped(t), bared \cup Beside(t))
         /\ Bare(bared \cup Beside(t))
         /\ unscheduled' \in {unscheduled, unscheduled \cup {t[1]}, unscheduled \ {t[1]}}
         /\ ~GoesOn(t) /\ up /\ Enabled(t[1]) => t[1] \in unscheduled'
         /\ outdated' = IF GoesOn(t) /\ task[t].plan # mem[t[1]].plan
                        THEN outdated \cup {t[1]} ELSE outdated
         /\ Settle(doubled, executing \ {t[1]})
BY DEF Leave, GoesOn, Dropped, Remaining

LEMMA LeaveType ==
  ASSUME CronAssumption, TypeInv, NEW t \in Ids, t[1] \in Jobs, Leave(t)
  PROVE  /\ task' \in [Ids -> Task] /\ table' \in [Jobs -> 0..MaxTasks]
         /\ ahead' \in [Ids -> SUBSET Ids] /\ executing' \subseteq Jobs
         /\ cut' \subseteq Ids /\ outdated' \subseteq Jobs /\ doubled' \subseteq Jobs
         /\ bared' \subseteq Ids /\ unscheduled' \subseteq Jobs
<1>1. task \in [Ids -> Task]
  BY DEF TypeInv, Task
<1>2. [task EXCEPT ![t] = NoTask] \in [Ids -> Task]
  BY <1>1 DEF NoTask, Task, Phases
<1>3. Remaining(t) \in [Ids -> Task]
  BY <1>2, CancelledType DEF Remaining
<1>4. task' \in [Ids -> Task]
  <2> DEFINE plan == [k \in {t[1]} |-> task[t].plan]
  <2>1. \A k \in {t[1]} : plan[k] \in Plans \cup {Gone}
    BY <1>1 DEF Task
  <2>2. Scheduled(Remaining(t), {t[1]}, plan) \in [Ids -> Task]
    BY <1>3, <2>1, ScheduledType
  <2>3. task' = Scheduled(Remaining(t), {t[1]}, plan) \/ task' = Remaining(t)
    BY LeaveEffect
  <2> QED
    BY <1>3, <2>2, <2>3
<1>5. table' \in [Jobs -> 0..MaxTasks]
  <2>1. CASE GoesOn(t)
    <3>1. \A j \in {t[1]} : HasFresh(Remaining(t), j)
      BY <2>1, LeaveEffect
    <3>2. table' = Tabled(Remaining(t), {t[1]})
      BY <2>1, LeaveEffect
    <3> QED
      BY <3>1, <3>2, TabledType
  <2>2. CASE ~GoesOn(t)
    <3>1. Pruned(table, Remaining(t)) \in [Jobs -> 0..MaxTasks]
      BY TabledType
    <3> QED
      BY <2>2, <3>1, LeaveEffect
  <2> QED
    BY <2>1, <2>2
<1>6. Dropped(t) \subseteq Ids
  BY IdShape DEF Dropped, Replaced, TypeInv
<1>7. cut' \subseteq Ids
  <2>1. cut' = cut \cup CutAmong(Dropped(t), bared \cup Beside(t))
    BY LeaveEffect
  <2>2. CutAmong(Dropped(t), bared \cup Beside(t)) \subseteq Dropped(t)
    BY DEF CutAmong
  <2> QED
    BY <1>6, <2>1, <2>2 DEF TypeInv
<1>8. ahead' \in [Ids -> SUBSET Ids]
  <2>1. ahead' = Shortened(Remaining(t))
    BY LeaveEffect
  <2> QED
    BY <2>1, ShortenedType
<1>9. executing' \subseteq Jobs /\ outdated' \subseteq Jobs /\ doubled' \subseteq Jobs
  <2>1. executing' = executing \ {t[1]} /\ Settle(doubled, executing \ {t[1]})
    BY LeaveEffect
  <2>2. outdated' = outdated \cup {t[1]} \/ outdated' = outdated
    BY LeaveEffect
  <2>3. doubled' \subseteq doubled
    BY <2>1 DEF Settle
  <2> QED
    BY <2>1, <2>2, <2>3 DEF TypeInv
<1>10. bared' \subseteq Ids
  BY LeaveEffect DEF Bare, Beside, TypeInv
<1>11. unscheduled' \subseteq Jobs
  <2>1. unscheduled' \in {unscheduled, unscheduled \cup {t[1]}, unscheduled \ {t[1]}}
    BY LeaveEffect
  <2> QED
    BY <2>1 DEF TypeInv
<1> QED
  BY <1>4, <1>5, <1>7, <1>8, <1>9, <1>10, <1>11

\* Where a task can move to is a phase.
LEMMA MoveType ==
  ASSUME TypeInv, NEW t \in Ids, NEW phase \in Phases, Move(t, phase)
  PROVE  task' \in [Ids -> Task]
BY DEF TypeInv, Move, Task

LEMMA PlaceType ==
  ASSUME TypeInv, NEW t \in Ids, NEW d \in Deps \cup {NoDep}, NEW phase \in Phases,
         Place(t, d, phase)
  PROVE  task' \in [Ids -> Task]
BY DEF TypeInv, Place, Task

LEMMA EndType ==
  ASSUME TypeInv, NEW t \in Ids, End(t)
  PROVE  task' \in [Ids -> Task]
BY DEF TypeInv, End, Task, NoTask, Phases

LEMMA EnterType ==
  ASSUME TypeInv, NEW t \in Ids, NEW d \in Deps \cup {NoDep}, Enter(t, d)
  PROVE  task' \in [Ids -> Task] /\ ahead' \in [Ids -> SUBSET Ids]
<1>1. task' \in [Ids -> Task]
  BY PlaceType DEF Enter, Phases, InLine
<1>2. ahead' \in [Ids -> SUBSET Ids]
  BY DEF Enter, TypeInv
<1> QED
  BY <1>1, <1>2

\* The observer starts with an idle task per job.
LEMMA TypeInit == ASSUME CronAssumption, Init PROVE TypeInv
<1>1. PICK p \in Plans :
        /\ file = [j \in Jobs |-> [on |-> TRUE, plan |-> p]]
        /\ task = [t \in Ids |-> IF t[1] \in Jobs /\ t[2] = 1
                                THEN [plan |-> p, at |-> "sleeping", dep |-> NoDep] ELSE NoTask]
  BY DEF Init
<1>2. file \in [Jobs -> Entries] /\ mem \in [Jobs -> Entries] /\ loaded \in [Jobs -> Entries]
  BY <1>1 DEF Init, Entries, Nothing
<1>3. task \in [Ids -> [plan : Plans \cup {Gone}, at : Phases, dep : Deps \cup {NoDep}]]
  BY <1>1 DEF NoTask, Phases
<1>4. table \in [Jobs -> 0..MaxTasks] /\ ahead \in [Ids -> SUBSET Ids]
  BY DEF Init, CronAssumption
<1>5. edits \in 0..MaxEdits /\ toggles \in 0..MaxToggles
  BY DEF Init, CronAssumption
<1>6. /\ at \in [Parties -> {"idle", "loading", "read", "noting", "ready", "cancelling", "ended"}]
      /\ executing = {} /\ gathered = {} /\ up = TRUE /\ noted = TRUE
      /\ doubled = {} /\ bared = {} /\ cut = {} /\ outdated = {} /\ unscheduled = {}
      /\ order \in [Jobs -> {"on", "off", "none"}]
      /\ unread = {} /\ hidden = {} /\ crossed = FALSE
  BY DEF Init
<1> QED
  BY <1>2, <1>3, <1>4, <1>5, <1>6 DEF TypeInv

LEMMA TypeStep ==
  ASSUME CronAssumption, TypeInv, HooksWait, [Next]_vars
  PROVE  TypeInv'
<1> USE DEF vars, store, runs, bounds, runHistory, listHistory
<1>1. CASE UNCHANGED vars
  BY <1>1 DEF TypeInv
<1>2. ASSUME NEW t \in Ids, Fire(t) PROVE TypeInv'
  <2> DEFINE d == IF mem[t[1]] = Gone THEN NoDep ELSE DepOf[t[1]]
  <2>1. d \in Deps \cup {NoDep} /\ "routing" \in Phases /\ Place(t, d, "routing")
    BY <1>2 DEF Fire, CronAssumption, Phases
  <2> HIDE DEF d
  <2>2. task' \in [Ids -> Task]
    BY <2>1, PlaceType
  <2>3. bared' \subseteq bared /\ executing' \subseteq Jobs
    BY <1>2 DEF Fire, Bare, TypeInv
  <2> QED
    BY <1>2, <2>2, <2>3 DEF Fire, TypeInv, Task
<1>3. ASSUME NEW t \in Ids, Skip(t) PROVE TypeInv'
  BY <1>3, LeaveType DEF Skip, TypeInv, Task
<1>4. ASSUME NEW t \in Ids, Routed(t) PROVE TypeInv'
  <2>1. task' \in [Ids -> Task] /\ ahead' \in [Ids -> SUBSET Ids]
    <3>1. CASE Enter(t, task[t].dep)
      <4>1. task[t].dep \in Deps \cup {NoDep}
        BY DEF TypeInv
      <4> QED
        BY <3>1, <4>1, EnterType
    <3>2. CASE Move(t, "refusing") /\ UNCHANGED ahead
      BY <3>2, MoveType DEF Phases, TypeInv
    <3> QED
      BY <1>4, <3>1, <3>2 DEF Routed
  <2> QED
    BY <1>4, <2>1 DEF Routed, TypeInv, Task
<1>5. ASSUME NEW t \in Ids, Turn(t) PROVE TypeInv'
  BY <1>5, MoveType DEF Turn, TypeInv, Task, Phases, InLine
<1>6. ASSUME NEW t \in Ids, Finished(t) PROVE TypeInv'
  BY <1>6, MoveType, ShortenedType DEF Finished, TypeInv, Task, Phases
<1>7. ASSUME NEW t \in Ids, Delivered(t) PROVE TypeInv'
  <2>1. task' \in [Ids -> Task]
    BY <1>7, MoveType DEF Delivered, Phases
  <2>2. /\ file' \in [Jobs -> Entries] /\ noted' \in BOOLEAN
        /\ unread' \subseteq Jobs /\ hidden' \subseteq Jobs /\ crossed' \in BOOLEAN
    BY <1>7 DEF Delivered, SaveStatus, Save, TypeInv
  <2> QED
    BY <1>7, <2>1, <2>2 DEF Delivered, TypeInv, Task
<1>8. ASSUME NEW t \in Ids, Noted(t) PROVE TypeInv'
  <2>1. t[1] \in Jobs
    BY <1>8, IdShape DEF Noted, HooksWait, InLine
  <2> QED
    BY <1>8, <2>1, LeaveType DEF Noted, Note, TypeInv, Task
<1>9. ASSUME NEW t \in Ids, Refused(t) PROVE TypeInv'
  <2>1. /\ file' \in [Jobs -> Entries] /\ noted' \in BOOLEAN
        /\ unread' \subseteq Jobs /\ hidden' \subseteq Jobs /\ crossed' \in BOOLEAN
    BY <1>9 DEF Refused, SaveStatus, Save, TypeInv
  <2> QED
    BY <1>9, <2>1, LeaveType DEF Refused, TypeInv, Task
<1>10. ASSUME NEW t \in Ids, Died(t) PROVE TypeInv'
  <2>1. table' \in [Jobs -> 0..MaxTasks]
    <3>1. Pruned(table, task') \in [Jobs -> 0..MaxTasks]
      BY DEF Pruned, TypeInv, CronAssumption
    <3> QED
      BY <1>10, <3>1 DEF Died
  <2>2. doubled' \subseteq doubled
    BY <1>10 DEF Died, Settle
  <2>3. bared' \subseteq Ids
    BY <1>10 DEF Died, Bare, Beside, TypeInv
  <2> QED
    BY <1>10, <2>1, <2>2, <2>3, EndType, ShortenedType DEF Died, TypeInv, Task
<1>11. ASSUME NEW t \in Ids, HookArrives(t) PROVE TypeInv'
  <2>1. DepOf[t[1]] \in Deps \cup {NoDep} /\ Enter(t, DepOf[t[1]])
    BY <1>11 DEF HookArrives, CronAssumption
  <2>2. task' \in [Ids -> Task] /\ ahead' \in [Ids -> SUBSET Ids]
    BY <2>1, EnterType
  <2> QED
    BY <1>11, <2>2 DEF HookArrives, TypeInv, Task
<1>12. ASSUME NEW t \in Ids, HookFinished(t) PROVE TypeInv'
  BY <1>12, EndType, ShortenedType DEF HookFinished, TypeInv, Task
<1>13. ASSUME NEW j \in Jobs, Edit(j) PROVE TypeInv'
  <2>1. file' \in [Jobs -> Entries]
    BY <1>13 DEF Edit, TypeInv
  <2>2. edits' \in 0..MaxEdits
    BY <1>13 DEF Edit, TypeInv, CronAssumption
  <2> QED
    BY <1>13, <2>1, <2>2 DEF Edit, TypeInv
<1>14. ASSUME NEW w \in Parties, Begin(w) PROVE TypeInv'
  <2> DEFINE old == {<<j, table[j]>> : j \in {k \in Jobs \ executing : table[k] # 0}}
             tk == Cancelled(task, old)
  <2>1. old \subseteq Ids
    BY IdShape DEF TypeInv, CronAssumption
  <2>2. tk \in [Ids -> Task]
    BY CancelledType DEF TypeInv, Task
  <2>3. task' \in [Ids -> Task] /\ ahead' \in [Ids -> SUBSET Ids]
    BY <1>14, <2>2, ShortenedType DEF Begin
  <2>4. cut' \subseteq Ids /\ gathered' \subseteq Ids /\ bared' \subseteq Ids
    BY <1>14, <2>1 DEF Begin, CutAmong, Bare, TypeInv
  <2>5. table' \in [Jobs -> 0..MaxTasks]
    BY <1>14 DEF Begin, TypeInv, CronAssumption
  <2>6. doubled' \subseteq Jobs
    BY <1>14 DEF Begin, Settle, TypeInv
  <2> QED
    BY <1>14, <2>3, <2>4, <2>5, <2>6 DEF Begin, Step, TypeInv, Task
<1>15. ASSUME NEW w \in Parties, Finish(w) PROVE TypeInv'
  <2> DEFINE J == {j \in Jobs \ unscheduled' : Enabled(j)}
             old == UNION {Replaced(j, executing) : j \in J}
             tk == Cancelled(task, old)
             plan == [j \in J |-> mem[j].plan]
  <2>1. old \subseteq Ids
    BY IdShape DEF Replaced, TypeInv, CronAssumption
  <2>2. tk \in [Ids -> Task]
    BY CancelledType DEF TypeInv, Task
  <2>3. \A j \in J : plan[j] \in Plans \cup {Gone}
    BY EntryPlan DEF Enabled, TypeInv
  <2>4. Scheduled(tk, J, plan) \in [Ids -> Task]
    BY <2>2, <2>3, ScheduledType
  <2>5. task' \in [Ids -> Task] /\ ahead' \in [Ids -> SUBSET Ids]
    BY <1>15, <2>4, ShortenedType DEF Finish
  <2>6. cut' \subseteq Ids /\ bared' \subseteq Ids /\ unscheduled' \subseteq Jobs
    BY <1>15, <2>1 DEF Finish, CutAmong, Bare, TypeInv
  <2>7. table' \in [Jobs -> 0..MaxTasks]
    <3>1. \A j \in J : HasFresh(tk, j)
      BY <1>15 DEF Finish
    <3> QED
      BY <1>15, <3>1, TabledType DEF Finish
  <2>8. doubled' \subseteq Jobs
    BY <1>15 DEF Finish, Settle, TypeInv
  <2> QED
    BY <1>15, <2>5, <2>6, <2>7, <2>8 DEF Finish, Step, Note, TypeInv, Task
<1>16. CASE Toggle
  <2>1. PICK J \in {{j} : j \in Jobs} \cup {Jobs} : \E on \in BOOLEAN :
          LET flips == {j \in J : mem[j] # Gone /\ mem[j].on # on} IN
            /\ mem' = [j \in Jobs |-> IF j \in flips THEN [mem[j] EXCEPT !.on = on] ELSE mem[j]]
            /\ order' = Ordered(flips, on)
    BY <1>16 DEF Toggle
  <2>2. mem' \in [Jobs -> Entries] /\ order' \in [Jobs -> {"on", "off", "none"}]
    <3>1. mem' \in [Jobs -> Entries]
      BY <2>1 DEF TypeInv, Entries
    <3>2. order' \in [Jobs -> {"on", "off", "none"}]
      BY <2>1 DEF TypeInv, Ordered
    <3> QED
      BY <3>1, <3>2
  <2>3. at' \in [Parties -> {"idle", "loading", "read", "noting", "ready", "cancelling", "ended"}]
    BY <1>16 DEF Toggle, Requested, TypeInv
  <2>4. toggles' \in 0..MaxToggles
    BY <1>16 DEF Toggle, TypeInv, CronAssumption
  <2>5. /\ file' = mem' /\ noted' = FALSE /\ unread' = {} /\ hidden' = {}
        /\ crossed' \in BOOLEAN
    BY <1>16 DEF Toggle, Save
  <2>6. UNCHANGED <<loaded, runs, gathered, up, edits, runHistory>>
    BY <1>16 DEF Toggle
  <2> QED
    BY <2>2, <2>3, <2>4, <2>5, <2>6 DEF TypeInv
<1>17. CASE Poll
  BY <1>17 DEF Poll, Step, TypeInv
<1>18. CASE Read
  BY <1>18 DEF Read, Step, TypeInv
<1>19. CASE Replace
  BY <1>19 DEF Replace, Step, TypeInv, Nothing, Entries
<1>20. CASE RequestNotes \/ WatcherFails
  BY <1>20 DEF RequestNotes, WatcherFails, Step, Note, TypeInv
<1>21. CASE Stop
  <2> DEFINE old == {<<j, table[j]>> : j \in {k \in Jobs : table[k] # 0}} \cup (Hooks \X {1})
  <2>1. Cancelled(task, old) \in [Ids -> Task]
    BY CancelledType DEF TypeInv, Task
  <2>2. Shortened(Cancelled(task, old)) \in [Ids -> SUBSET Ids]
    BY ShortenedType
  <2>3. task' \in [Ids -> Task] /\ ahead' \in [Ids -> SUBSET Ids]
    BY <1>21, <2>1, <2>2 DEF Stop
  <2>4. /\ table' \in [Jobs -> 0..MaxTasks] /\ loaded' \in [Jobs -> Entries]
        /\ executing' \subseteq executing
        /\ at' \in [Parties -> {"idle", "loading", "read", "noting", "ready", "cancelling", "ended"}]
    BY <1>21 DEF Stop, Nothing, Entries, CronAssumption
  <2>5. /\ up' = FALSE /\ gathered' = {} /\ doubled' = {} /\ bared' = {} /\ outdated' = {}
        /\ unscheduled' = {} /\ order' \in [Jobs -> {"on", "off", "none"}]
        /\ unread' = {} /\ hidden' = {} /\ crossed' = FALSE
        /\ UNCHANGED <<file, mem, noted, bounds, cut>>
    BY <1>21 DEF Stop
  <2> QED
    BY <2>3, <2>4, <2>5 DEF TypeInv, Task
<1> QED
  BY <1>1, <1>2, <1>3, <1>4, <1>5, <1>6, <1>7, <1>8, <1>9, <1>10, <1>11, <1>12, <1>13,
     <1>14, <1>15, <1>16, <1>17, <1>18, <1>19, <1>20, <1>21 DEF Next

-----------------------------------------------------------------------------
(* The kinds of steps, as far as the tasks of the jobs are concerned.        *)

\* A task goes on: it is neither new nor over afterwards.
Advances(t) ==
  /\ task[t].at \notin {"free", "killed"}
  /\ \A u \in Ids \ {t} : task'[u] = task[u]
  /\ task'[t].plan = task[t].plan
  /\ task'[t].at \in Phases \ {"free", "killed", "sleeping"}
  /\ executing \subseteq executing' /\ executing' \subseteq executing \cup {t[1]}
  /\ task[t].at = "sleeping" => t[1] \in executing'
  /\ t[1] \in Hooks => task'[t].at \in InLine
  /\ Bare(bared) \/ bared' = bared
  /\ UNCHANGED <<table, up, doubled, cut, unscheduled>>

\* A webhook comes or goes.
HookStep(t) ==
  /\ t[1] \in Hooks
  /\ \A u \in Ids \ {t} : task'[u] = task[u]
  /\ task'[t].at \in {"free"} \cup InLine
  /\ UNCHANGED <<table, executing, up, doubled, bared, cut, unscheduled>>

\* A task of a job is over by itself.
Ends(t) ==
  /\ t[1] \in Jobs /\ task[t].at \notin {"free", "killed"}
  /\ Leave(t) /\ up' = up

LEMMA StepKinds ==
  ASSUME CronAssumption, TypeInv, HooksWait, [Next]_vars
  PROVE  \/ UNCHANGED <<task, table, executing, up, doubled, bared, cut, unscheduled>>
         \/ \E t \in Ids : Advances(t) \/ HookStep(t) \/ Ends(t) \/ Died(t)
         \/ \E w \in Parties : Begin(w) \/ Finish(w)
         \/ Stop
<1> DEFINE Kind == \/ UNCHANGED <<task, table, executing, up, doubled, bared, cut, unscheduled>>
                   \/ \E t \in Ids : Advances(t) \/ HookStep(t) \/ Ends(t) \/ Died(t)
                   \/ \E w \in Parties : Begin(w) \/ Finish(w)
                   \/ Stop
<1> USE DEF vars, store, runs, bounds, runHistory, listHistory
<1>1. CASE \/ UNCHANGED vars \/ \E j \in Jobs : Edit(j)
           \/ Toggle \/ Poll \/ Read \/ Replace \/ WatcherFails \/ RequestNotes
  BY <1>1 DEF Edit, Toggle, Poll, Read, Replace, WatcherFails, RequestNotes
<1>2. ASSUME NEW t \in Ids, Fire(t) PROVE Kind
  <2>1. t[1] \notin Hooks
    BY <1>2, IdShape DEF Fire
  <2>2. Advances(t)
    BY <1>2, <2>1 DEF Fire, Place, Advances, Phases, TypeInv
  <2> QED
    BY <2>2
<1>3. ASSUME NEW t \in Ids, Skip(t) PROVE Kind
  BY <1>3 DEF Skip, Ends
<1>4. ASSUME NEW t \in Ids, Routed(t) PROVE Kind
  <2>1. t[1] \notin Hooks
    BY <1>4 DEF Routed, HooksWait, InLine
  <2>2. /\ \A u \in Ids \ {t} : task'[u] = task[u]
        /\ task'[t].plan = task[t].plan /\ task'[t].at \in {"running", "waiting", "refusing"}
    BY <1>4 DEF Routed, Enter, Place, Move, TypeInv
  <2>3. Advances(t)
    BY <1>4, <2>1, <2>2 DEF Routed, Advances, Phases, InLine
  <2> QED
    BY <2>3
<1>5. ASSUME NEW t \in Ids, Turn(t) PROVE Kind
  <2>1. task'[t].at = "running"
    BY <1>5 DEF Turn, Move, TypeInv
  <2>2. Advances(t)
    BY <1>5, <2>1 DEF Turn, Move, Advances, Phases, InLine, TypeInv
  <2> QED
    BY <2>2
<1>6. ASSUME NEW t \in Ids, Finished(t) PROVE Kind
  <2>1. t[1] \notin Hooks
    BY <1>6, IdShape DEF Finished
  <2>2. Advances(t)
    BY <1>6, <2>1 DEF Finished, Move, Advances, Phases, TypeInv
  <2> QED
    BY <2>2
<1>7. ASSUME NEW t \in Ids, Delivered(t) PROVE Kind
  <2>1. t[1] \notin Hooks
    BY <1>7, IdShape DEF Delivered
  <2>2. Advances(t)
    BY <1>7, <2>1 DEF Delivered, Move, Advances, Phases, TypeInv
  <2> QED
    BY <2>2
<1>8. ASSUME NEW t \in Ids, Noted(t) PROVE Kind
  <2>1. t[1] \in Jobs
    BY <1>8, IdShape DEF Noted, HooksWait, InLine
  <2> QED
    BY <1>8, <2>1 DEF Noted, Ends
<1>9. ASSUME NEW t \in Ids, Refused(t) PROVE Kind
  BY <1>9 DEF Refused, Ends
<1>10. ASSUME NEW t \in Ids, HookArrives(t) PROVE Kind
  <2>1. PICK phase \in {"running", "waiting"} : Place(t, DepOf[t[1]], phase)
    BY <1>10 DEF HookArrives, Enter
  <2>2. HookStep(t)
    BY <1>10, <2>1 DEF HookArrives, HookStep, Place, InLine, TypeInv
  <2> QED
    BY <2>2
<1>11. ASSUME NEW t \in Ids, HookFinished(t) PROVE Kind
  <2>1. HookStep(t)
    BY <1>11 DEF HookFinished, HookStep, End, NoTask, TypeInv
  <2> QED
    BY <2>1
<1> QED
  BY <1>1, <1>2, <1>3, <1>4, <1>5, <1>6, <1>7, <1>8, <1>9, <1>10, <1>11 DEF Next

\* What cancelling does to a task.
LEMMA CancelledAt ==
  ASSUME NEW tk \in [Ids -> Task], NEW T, NEW t \in Ids
  PROVE  /\ t \notin T => Cancelled(tk, T)[t] = tk[t]
         /\ t \in T /\ tk[t].at \in {"running", "killed"} =>
              Cancelled(tk, T)[t].at = "killed" /\ Cancelled(tk, T)[t].dep = tk[t].dep
         /\ t \in T /\ tk[t].at \notin {"running", "killed"} => Cancelled(tk, T)[t].at = "free"
BY DEF Cancelled, NoTask, Task

\* What scheduling does to one.
LEMMA ScheduledAt ==
  ASSUME NEW tk \in [Ids -> Task], NEW J, NEW plan, NEW t \in Ids
  PROVE  /\ t[1] \notin J \/ t[2] # Fresh(tk, t[1]) => Scheduled(tk, J, plan)[t] = tk[t]
         /\ t[1] \in J /\ t[2] = Fresh(tk, t[1]) =>
              Scheduled(tk, J, plan)[t] = [plan |-> plan[t[1]], at |-> "sleeping", dep |-> NoDep]
BY DEF Scheduled

\* The end of a task is the end of no other one but the one in the table, and that
\* one is replaced.
LEMMA EndEffect ==
  ASSUME CronAssumption, TypeInv, NEW t \in Ids, Ends(t)
  PROVE  /\ Remaining(t) \in [Ids -> Task] /\ Remaining(t)[t].at = "free"
         /\ Dropped(t) \subseteq {<<t[1], table[t[1]]>>} \ {t}
         /\ \A u \in Ids : u[1] # t[1] => Remaining(t)[u] = task[u] /\ task'[u] = task[u]
         /\ \A u \in Ids \ {t} : u \notin Dropped(t) => Remaining(t)[u] = task[u]
         /\ \A u \in Ids \ {t} : Executes(Remaining(t)[u].at) => Executes(task[u].at)
         /\ GoesOn(t) => \A u \in Ids : u[1] = t[1] =>
              IF u[2] = table'[t[1]] THEN task'[u] = [plan |-> task[t].plan, at |-> "sleeping", dep |-> NoDep]
                                     ELSE task'[u] = Remaining(t)[u]
         /\ ~GoesOn(t) => task' = Remaining(t)
         /\ GoesOn(t) => table'[t[1]] \in 1..MaxTasks
         /\ \A j \in Jobs \ {t[1]} : table'[j] = Pruned(table, Remaining(t))[j]
         /\ ~GoesOn(t) => table' = Pruned(table, Remaining(t))
<1> DEFINE tk0 == [task EXCEPT ![t] = NoTask]
           plan == [k \in {t[1]} |-> task[t].plan]
           F == Fresh(Remaining(t), t[1])
<1>1. tk0 \in [Ids -> Task] /\ tk0[t].at = "free" /\ \A u \in Ids \ {t} : tk0[u] = task[u]
  BY DEF NoTask, Task, Phases, TypeInv
<1>2. Remaining(t) = Cancelled(tk0, Dropped(t))
  BY DEF Remaining
<1> HIDE DEF tk0
<1>3. Remaining(t) \in [Ids -> Task]
  BY <1>1, <1>2, CancelledType
<1>4. Dropped(t) \subseteq {<<t[1], table[t[1]]>>} \ {t}
  BY DEF Dropped, Replaced
<1>5. Remaining(t)[t].at = "free"
  BY <1>1, <1>2, <1>4, CancelledAt
<1>6. \A u \in Ids \ {t} : u \notin Dropped(t) => Remaining(t)[u] = task[u]
  BY <1>1, <1>2, CancelledAt
<1>7. \A u \in Ids : u[1] # t[1] => Remaining(t)[u] = task[u]
  BY <1>4, <1>6
<1>8. ASSUME GoesOn(t)
      PROVE  /\ F \in 1..MaxTasks
             /\ task' = Scheduled(Remaining(t), {t[1]}, plan)
             /\ table' = Tabled(Remaining(t), {t[1]})
  BY <1>8, LeaveEffect, FreshIsFree DEF Ends
<1>9. ASSUME GoesOn(t)
      PROVE  table'[t[1]] = F /\ \A j \in Jobs \ {t[1]} : table'[j] = Pruned(table, Remaining(t))[j]
  BY <1>8, <1>9 DEF Tabled, Ends
<1>10. ASSUME ~GoesOn(t) PROVE task' = Remaining(t) /\ table' = Pruned(table, Remaining(t))
  BY <1>10, LeaveEffect DEF Ends
<1>11. ASSUME GoesOn(t), NEW u \in Ids
       PROVE  IF u[1] = t[1] /\ u[2] = F
                THEN task'[u] = [plan |-> task[t].plan, at |-> "sleeping", dep |-> NoDep]
                ELSE task'[u] = Remaining(t)[u]
  <2>1. plan[t[1]] = task[t].plan
    OBVIOUS
  <2> HIDE DEF plan
  <2>2. task'[u] = Scheduled(Remaining(t), {t[1]}, plan)[u]
    BY <1>8, <1>11
  <2>3. CASE u[1] = t[1] /\ u[2] = F
    <3>1. u[1] \in {t[1]} /\ u[2] = Fresh(Remaining(t), u[1]) /\ plan[u[1]] = task[t].plan
      BY <2>1, <2>3
    <3> QED
      BY <1>3, <2>2, <2>3, <3>1, ScheduledAt
  <2>4. CASE u[1] # t[1] \/ u[2] # F
    <3>1. u[1] \notin {t[1]} \/ u[2] # Fresh(Remaining(t), u[1])
      BY <2>4
    <3>2. Scheduled(Remaining(t), {t[1]}, plan)[u] = Remaining(t)[u]
      BY <3>1 DEF Scheduled
    <3>3. ~(u[1] = t[1] /\ u[2] = F)
      BY <2>4
    <3> HIDE DEF F
    <3> QED
      BY <2>2, <3>2, <3>3
  <2> QED
    BY <2>3, <2>4
<1>12. ASSUME NEW u \in Ids, u[1] # t[1] PROVE task'[u] = task[u]
  BY <1>7, <1>10, <1>11, <1>12
<1>13. ASSUME GoesOn(t), NEW u \in Ids, u[1] = t[1]
       PROVE  IF u[2] = table'[t[1]] THEN task'[u] = [plan |-> task[t].plan, at |-> "sleeping", dep |-> NoDep]
                                     ELSE task'[u] = Remaining(t)[u]
  BY <1>9, <1>11, <1>13
<1>14. ASSUME GoesOn(t) PROVE table'[t[1]] \in 1..MaxTasks
  BY <1>8, <1>9, <1>14
<1>15. ASSUME NEW j \in Jobs \ {t[1]} PROVE table'[j] = Pruned(table, Remaining(t))[j]
  BY <1>9, <1>10
<1>16. \A u \in Ids \ {t} : Executes(Remaining(t)[u].at) => Executes(task[u].at)
  BY <1>1, <1>2, CancelledAt DEF Executes
<1> HIDE DEF F, plan
<1> QED
  BY <1>3, <1>4, <1>5, <1>6, <1>7, <1>10, <1>12, <1>13, <1>14, <1>15, <1>16

\* _reschedule_all cancels what the table holds of the jobs that are not executing.
Idling(u) == u[1] \in Jobs \ executing /\ u[2] = table[u[1]]

LEMMA BeginEffect ==
  ASSUME CronAssumption, TypeInv, NEW w \in Parties, Begin(w)
  PROVE  /\ \A u \in Ids : ~Idling(u) => task'[u] = task[u]
         /\ \A u \in Ids : Idling(u) =>
              task'[u].at = IF task[u].at \in {"running", "killed"} THEN "killed" ELSE "free"
         /\ \A j \in Jobs : table'[j] = IF j \in executing THEN table[j] ELSE 0
         /\ executing' = executing /\ up' = up /\ at[w] = "ready"
<1> DEFINE old == {<<j, table[j]>> : j \in {k \in Jobs \ executing : table[k] # 0}}
<1>1. \A u \in Ids : u \in old <=> Idling(u)
  BY IdShape DEF Idling, TypeInv, CronAssumption
<1>2. task' = Cancelled(task, old) /\ task \in [Ids -> Task]
  BY DEF Begin, TypeInv, Task
<1> HIDE DEF old
<1>3. \A u \in Ids : ~Idling(u) => task'[u] = task[u]
  BY <1>1, <1>2, CancelledAt
<1>4. \A u \in Ids : Idling(u) =>
        task'[u].at = IF task[u].at \in {"running", "killed"} THEN "killed" ELSE "free"
  BY <1>1, <1>2, CancelledAt
<1> QED
  BY <1>3, <1>4 DEF Begin, Step

\* _schedule_all replaces what the table holds of the enabled ones among them.
Due(j) == Enabled(j) /\ j \notin unscheduled'
Replacing == Cancelled(task, UNION {Replaced(j, executing) : j \in {k \in Jobs \ unscheduled' : Enabled(k)}})

LEMMA FinishEffect ==
  ASSUME CronAssumption, TypeInv, NEW w \in Parties, Finish(w)
  PROVE  /\ Replacing \in [Ids -> Task]
         /\ \A u \in Ids : ~(Idling(u) /\ Due(u[1])) => Replacing[u] = task[u]
         /\ \A u \in Ids : Idling(u) /\ Due(u[1]) =>
              Replacing[u].at = IF task[u].at \in {"running", "killed"} THEN "killed" ELSE "free"
         /\ \A u \in Ids : IF u[1] \in Jobs /\ Due(u[1]) /\ u[2] = table'[u[1]]
              THEN task'[u] = [plan |-> mem[u[1]].plan, at |-> "sleeping", dep |-> NoDep]
              ELSE task'[u] = Replacing[u]
         /\ \A j \in Jobs : Due(j) => table'[j] \in 1..MaxTasks
         /\ \A j \in Jobs : ~Due(j) => table'[j] = Pruned(table, Replacing)[j]
<1> DEFINE J == {j \in Jobs \ unscheduled' : Enabled(j)}
           old == UNION {Replaced(j, executing) : j \in J}
           plan == [j \in J |-> mem[j].plan]
<1>1. \A u \in Ids : u \in old <=> Idling(u) /\ Due(u[1])
  <2>1. ASSUME NEW u \in Ids, u \in old PROVE Idling(u) /\ Due(u[1])
    BY <2>1 DEF Replaced, Idling, Due
  <2>2. ASSUME NEW u \in Ids, Idling(u), Due(u[1]) PROVE u \in old
    <3>1. u[1] \in J /\ u = <<u[1], table[u[1]]>> /\ table[u[1]] # 0
      BY <2>2, IdShape DEF Idling, Due, CronAssumption
    <3>2. u \in Replaced(u[1], executing)
      BY <2>2, <3>1 DEF Replaced, Idling
    <3> QED
      BY <3>1, <3>2
  <2> QED
    BY <2>1, <2>2
<1>2. Replacing = Cancelled(task, old) /\ task \in [Ids -> Task]
  BY DEF Replacing, TypeInv, Task
<1>3. /\ task' = Scheduled(Replacing, J, plan) /\ table' = Tabled(Replacing, J)
      /\ \A j \in J : HasFresh(Replacing, j)
  BY DEF Finish, Replacing
<1> HIDE DEF old
<1>4. Replacing \in [Ids -> Task]
  BY <1>2, CancelledType
<1>5. \A u \in Ids : ~(Idling(u) /\ Due(u[1])) => Replacing[u] = task[u]
  BY <1>1, <1>2, CancelledAt
<1>6. \A u \in Ids : Idling(u) /\ Due(u[1]) =>
        Replacing[u].at = IF task[u].at \in {"running", "killed"} THEN "killed" ELSE "free"
  BY <1>1, <1>2, CancelledAt
<1>7. \A j \in J : table'[j] = Fresh(Replacing, j) /\ table'[j] \in 1..MaxTasks
  BY <1>3, FreshIsFree DEF Tabled
<1>8. \A j \in Jobs \ J : table'[j] = Pruned(table, Replacing)[j]
  BY <1>3 DEF Tabled
<1>9. ASSUME NEW u \in Ids
      PROVE  IF u[1] \in Jobs /\ Due(u[1]) /\ u[2] = table'[u[1]]
               THEN task'[u] = [plan |-> mem[u[1]].plan, at |-> "sleeping", dep |-> NoDep]
               ELSE task'[u] = Replacing[u]
  <2>1. task'[u] = IF u[1] \in J /\ u[2] = Fresh(Replacing, u[1])
                   THEN [plan |-> plan[u[1]], at |-> "sleeping", dep |-> NoDep] ELSE Replacing[u]
    BY <1>3 DEF Scheduled
  <2>2. u[1] \in J <=> u[1] \in Jobs /\ Due(u[1])
    BY DEF Due
  <2>3. u[1] \in J => plan[u[1]] = mem[u[1]].plan
    OBVIOUS
  <2> HIDE DEF J, plan
  <2> QED
    BY <1>7, <2>1, <2>2, <2>3
<1>10. \A j \in Jobs : j \in J <=> Due(j)
  BY DEF Due
<1> HIDE DEF J, plan
<1> QED
  BY <1>4, <1>5, <1>6, <1>7, <1>8, <1>9, <1>10

LEMMA StopEffect ==
  ASSUME CronAssumption, TypeInv, Stop
  PROVE  /\ \A u \in Ids : task'[u] = task[u] \/ task'[u].at \in {"killed", "free"}
         /\ \A j \in Jobs : table'[j] = 0
         /\ ~up' /\ at' = [w \in Parties |-> "idle"]
<1>1. PICK T : task' = Cancelled(task, T)
  BY DEF Stop
<1>2. task \in [Ids -> Task]
  BY DEF TypeInv, Task
<1> QED
  BY <1>1, <1>2, CancelledAt DEF Stop

-----------------------------------------------------------------------------
(* The parts of the invariant, one after the other.                          *)

LEMMA HooksStep ==
  ASSUME CronAssumption, TypeInv, HooksWait, [Next]_vars
  PROVE  HooksWait'
<1> SUFFICES ASSUME NEW u \in Ids, u[1] \in Hooks
             PROVE  task'[u].at \in {"free"} \cup InLine
  BY DEF HooksWait
<1>1. task[u].at \in {"free"} \cup InLine /\ u[1] \notin Jobs
  BY IdShape DEF HooksWait
<1>2. CASE UNCHANGED <<task, table, executing, up, doubled, bared, cut, unscheduled>>
  BY <1>1, <1>2
<1>3. ASSUME NEW t \in Ids, Advances(t) PROVE task'[u].at \in {"free"} \cup InLine
  <2>1. u # t => task'[u] = task[u]
    BY <1>3 DEF Advances
  <2> QED
    BY <1>1, <1>3, <2>1 DEF Advances
<1>4. ASSUME NEW t \in Ids, HookStep(t) PROVE task'[u].at \in {"free"} \cup InLine
  BY <1>1, <1>4 DEF HookStep
<1>5. ASSUME NEW t \in Ids, Ends(t) PROVE task'[u].at \in {"free"} \cup InLine
  <2>1. u[1] # t[1]
    BY <1>1, <1>5 DEF Ends
  <2>2. \A v \in Ids : v[1] # t[1] => Remaining(t)[v] = task[v] /\ task'[v] = task[v]
    BY <1>5, EndEffect
  <2> QED
    BY <1>1, <2>1, <2>2
<1>6. ASSUME NEW t \in Ids, Died(t) PROVE task'[u].at \in {"free"} \cup InLine
  <2>1. u # t => task'[u] = task[u]
    BY <1>6 DEF Died, End, TypeInv
  <2>2. task'[t].at = "free"
    BY <1>6 DEF Died, End, NoTask, TypeInv
  <2> QED
    BY <1>1, <2>1, <2>2
<1>7. ASSUME NEW w \in Parties, Begin(w) PROVE task'[u].at \in {"free"} \cup InLine
  BY <1>1, <1>7, BeginEffect DEF Idling
<1>8. ASSUME NEW w \in Parties, Finish(w) PROVE task'[u].at \in {"free"} \cup InLine
  BY <1>1, <1>8, FinishEffect DEF Idling
<1>9. CASE Stop
  BY <1>1, <1>9, StopEffect DEF InLine
<1> QED
  BY <1>2, <1>3, <1>4, <1>5, <1>6, <1>7, <1>8, <1>9, StepKinds

LEMMA DownStep ==
  ASSUME DownIsIdle, [Next]_vars
  PROVE  DownIsIdle'
<1> USE DEF vars, store, runs, bounds, runHistory, listHistory
<1>1. CASE UNCHANGED <<at, up>>
  BY <1>1 DEF DownIsIdle
<1>2. CASE up /\ up' = up
  BY <1>2 DEF DownIsIdle
<1>3. ASSUME NEW w \in Parties, \/ Begin(w) \/ Finish(w) PROVE DownIsIdle'
  <2>1. up' = up /\ at[w] # "idle"
    BY <1>3 DEF Begin, Finish, Step
  <2> QED
    BY <2>1 DEF DownIsIdle
<1>4. CASE Read \/ Replace \/ WatcherFails \/ RequestNotes
  <2>1. up' = up /\ \E w \in Parties : at[w] # "idle"
    BY <1>4 DEF Read, Replace, WatcherFails, RequestNotes, Step, Parties
  <2> QED
    BY <2>1 DEF DownIsIdle
<1>5. CASE Stop
  BY <1>5 DEF Stop, DownIsIdle
<1> QED
  BY <1>1, <1>2, <1>3, <1>4, <1>5 DEF Next, Fire, Skip, Routed, Turn, Finished, Delivered, Noted,
     Refused, Died, HookArrives, HookFinished, Edit, Toggle, Poll

LEMMA TableStep ==
  ASSUME CronAssumption, TypeInv, HooksWait, TableIsTrue, [Next]_vars
  PROVE  TableIsTrue'
<1> SUFFICES ASSUME NEW j \in Jobs, table'[j] # 0
             PROVE  task'[<<j, table'[j]>>].at \notin {"free", "killed"}
  BY DEF TableIsTrue
<1> DEFINE id == <<j, table[j]>>
<1>1. table[j] # 0 => id \in Ids /\ id[1] = j /\ id[2] = table[j] /\ task[id].at \notin {"free", "killed"}
  BY IdShape DEF TableIsTrue, TypeInv, CronAssumption
<1> HIDE DEF id
<1>2. ASSUME table'[j] = table[j], task'[id].at \notin {"free", "killed"}
      PROVE  task'[<<j, table'[j]>>].at \notin {"free", "killed"}
  BY <1>2 DEF id
<1>3. ASSUME NEW tk, table'[j] = Pruned(table, tk)[j]
      PROVE  table'[j] = table[j] /\ table[j] # 0 /\ tk[id].at # "free"
  BY <1>3 DEF Pruned, id
<1>4. CASE UNCHANGED <<task, table, executing, up, doubled, bared, cut, unscheduled>>
  BY <1>1, <1>2, <1>4
<1>5. ASSUME NEW t \in Ids, Advances(t) PROVE task'[<<j, table'[j]>>].at \notin {"free", "killed"}
  <2>1. \A u \in Ids \ {t} : task'[u] = task[u]
    BY <1>5 DEF Advances
  <2>2. task'[t].at \notin {"free", "killed"}
    BY <1>5 DEF Advances
  <2>3. table' = table
    BY <1>5 DEF Advances
  <2> QED
    BY <1>1, <1>2, <2>1, <2>2, <2>3
<1>6. ASSUME NEW t \in Ids, HookStep(t) PROVE task'[<<j, table'[j]>>].at \notin {"free", "killed"}
  <2>1. table' = table /\ \A u \in Ids \ {t} : task'[u] = task[u]
    BY <1>6 DEF HookStep
  <2>2. t[1] # j
    BY <1>6, IdShape DEF HookStep
  <2> QED
    BY <1>1, <1>2, <2>1, <2>2
<1>7. ASSUME NEW t \in Ids, Ends(t) PROVE task'[<<j, table'[j]>>].at \notin {"free", "killed"}
  <2>1. CASE t[1] = j /\ GoesOn(t)
    <3>1. table'[j] \in 1..MaxTasks
      BY <1>7, <2>1, EndEffect
    <3>2. \A u \in Ids : u[1] = t[1] =>
              IF u[2] = table'[t[1]] THEN task'[u] = [plan |-> task[t].plan, at |-> "sleeping", dep |-> NoDep]
                                     ELSE task'[u] = Remaining(t)[u]
      BY <1>7, <2>1, EndEffect
    <3> QED
      BY <2>1, <3>1, <3>2, IdShape
  <2>2. CASE t[1] = j /\ ~GoesOn(t)
    <3>1. task' = Remaining(t) /\ table'[j] = Pruned(table, Remaining(t))[j]
      BY <1>7, <2>2, EndEffect
    <3>2. Dropped(t) = {}
      BY <2>2 DEF Dropped
    <3>3. \A u \in Ids \ {t} : u \notin Dropped(t) => Remaining(t)[u] = task[u]
      BY <1>7, EndEffect
    <3>4. Remaining(t)[t].at = "free"
      BY <1>7, EndEffect
    <3> QED
      BY <1>1, <1>2, <1>3, <3>1, <3>2, <3>3, <3>4
  <2>3. CASE t[1] # j
    <3>1. table'[j] = Pruned(table, Remaining(t))[j]
      BY <1>7, <2>3, EndEffect
    <3>2. \A v \in Ids : v[1] # t[1] => Remaining(t)[v] = task[v] /\ task'[v] = task[v]
      BY <1>7, EndEffect
    <3> QED
      BY <1>1, <1>2, <1>3, <2>3, <3>1, <3>2
  <2> QED
    BY <2>1, <2>2, <2>3
<1>8. ASSUME NEW t \in Ids, Died(t) PROVE task'[<<j, table'[j]>>].at \notin {"free", "killed"}
  <2>1. table'[j] = Pruned(table, task')[j] /\ task[t].at = "killed"
    BY <1>8 DEF Died
  <2>2. \A u \in Ids \ {t} : task'[u] = task[u]
    BY <1>8 DEF Died, End, TypeInv
  <2>3. id # t
    BY <1>1, <1>3, <2>1
  <2> QED
    BY <1>1, <1>2, <1>3, <2>1, <2>2, <2>3
<1>9. ASSUME NEW w \in Parties, Begin(w) PROVE task'[<<j, table'[j]>>].at \notin {"free", "killed"}
  <2>1. \A u \in Ids : ~Idling(u) => task'[u] = task[u]
    BY <1>9, BeginEffect
  <2>2. \A k \in Jobs : table'[k] = IF k \in executing THEN table[k] ELSE 0
    BY <1>9, BeginEffect
  <2> QED
    BY <1>1, <1>2, <2>1, <2>2 DEF Idling
<1>10. ASSUME NEW w \in Parties, Finish(w) PROVE task'[<<j, table'[j]>>].at \notin {"free", "killed"}
  <2>1. \A u \in Ids : IF u[1] \in Jobs /\ Due(u[1]) /\ u[2] = table'[u[1]]
              THEN task'[u] = [plan |-> mem[u[1]].plan, at |-> "sleeping", dep |-> NoDep]
              ELSE task'[u] = Replacing[u]
    BY <1>10, FinishEffect
  <2>2. CASE Due(j)
    <3>1. \A k \in Jobs : Due(k) => table'[k] \in 1..MaxTasks
      BY <1>10, FinishEffect
    <3> DEFINE new == <<j, table'[j]>>
    <3>2. new \in Ids /\ new[1] = j /\ new[2] = table'[j]
      BY <2>2, <3>1, IdShape
    <3> HIDE DEF new
    <3>3. task'[new] = [plan |-> mem[new[1]].plan, at |-> "sleeping", dep |-> NoDep]
      BY <2>1, <2>2, <3>2
    <3> QED
      BY <3>3 DEF new
  <2>3. CASE ~Due(j)
    <3>1. \A k \in Jobs : ~Due(k) => table'[k] = Pruned(table, Replacing)[k]
      BY <1>10, FinishEffect
    <3>2. \A u \in Ids : ~(Idling(u) /\ Due(u[1])) => Replacing[u] = task[u]
      BY <1>10, FinishEffect
    <3> QED
      BY <1>1, <1>2, <1>3, <2>1, <2>3, <3>1, <3>2
  <2> QED
    BY <2>2, <2>3
<1>11. CASE Stop
  BY <1>11, StopEffect
<1> QED
  BY <1>4, <1>5, <1>6, <1>7, <1>8, <1>9, <1>10, <1>11, StepKinds

\* Single, said of tasks instead of their numbers.
Alone(tk, tb, marks, j) ==
  \A u \in Ids : u[1] = j /\ tk[u].at # "free" =>
    tb[j] = u[2] /\ (Executes(tk[u].at) => j \in marks)

LEMMA SingleIsAlone ==
  ASSUME CronAssumption, NEW tk, NEW tb, NEW marks, NEW j \in Jobs
  PROVE  Single(tk, tb, marks, j) <=> Alone(tk, tb, marks, j)
<1>1. ASSUME Single(tk, tb, marks, j) PROVE Alone(tk, tb, marks, j)
  <2> SUFFICES ASSUME NEW u \in Ids, u[1] = j, tk[u].at # "free"
               PROVE  tb[j] = u[2] /\ (Executes(tk[u].at) => j \in marks)
    BY DEF Alone
  <2>1. u = <<j, u[2]>> /\ u[2] \in 1..MaxTasks
    BY IdShape
  <2>2. u[2] \in Alive(tk, j)
    BY <2>1 DEF Alive
  <2> QED
    BY <1>1, <2>1, <2>2 DEF Single
<1>2. ASSUME Alone(tk, tb, marks, j) PROVE Single(tk, tb, marks, j)
  <2> SUFFICES ASSUME NEW i \in Alive(tk, j)
               PROVE  tb[j] = i /\ (Executes(tk[<<j, i>>].at) => j \in marks)
    BY DEF Single
  <2> DEFINE u == <<j, i>>
  <2>1. u \in Ids /\ u[1] = j /\ u[2] = i /\ tk[u].at # "free"
    BY IdShape DEF Alive
  <2> QED
    BY <1>2, <2>1 DEF Alone
<1> QED
  BY <1>1, <1>2

\* A job that is no longer doubled has settled.
LEMMA SettledIsAlone ==
  ASSUME CronAssumption, NEW D, NEW j \in Jobs \cap D, Settle(D, executing'), j \notin doubled'
  PROVE  Alone(task', table', executing', j)
<1>1. Single(task', table', executing', j)
  BY DEF Settle
<1> QED
  BY <1>1, SingleIsAlone

LEMMA SinglesStep ==
  ASSUME CronAssumption, TypeInv, HooksWait, DownIsIdle, SinglesHold, [Next]_vars
  PROVE  SinglesHold'
<1> SUFFICES ASSUME up', NEW j \in Jobs, j \notin doubled'
             PROVE  Alone(task', table', executing', j)
  <2>1. ASSUME up', NEW j \in Jobs \ doubled', Alone(task', table', executing', j)
        PROVE  Single(task', table', executing', j)
    BY <2>1, SingleIsAlone
  <2> QED
    BY <2>1 DEF SinglesHold
<1> DEFINE Goal == Alone(task', table', executing', j)
<1>1. up /\ j \notin doubled => Alone(task, table, executing, j)
  BY SingleIsAlone DEF SinglesHold
<1>2. CASE UNCHANGED <<task, table, executing, up, doubled, bared, cut, unscheduled>>
  BY <1>1, <1>2
<1>3. ASSUME NEW t \in Ids, Advances(t) PROVE Goal
  <2>1. Alone(task, table, executing, j)
    BY <1>1, <1>3 DEF Advances
  <2>2. \A u \in Ids \ {t} : task'[u] = task[u]
    BY <1>3 DEF Advances
  <2>3. /\ table' = table /\ executing \subseteq executing' /\ task[t].at # "free"
        /\ task[t].at = "sleeping" => t[1] \in executing'
    BY <1>3 DEF Advances
  <2> QED
    BY <2>1, <2>2, <2>3 DEF Alone, Executes
<1>4. ASSUME NEW t \in Ids, HookStep(t) PROVE Goal
  <2>1. Alone(task, table, executing, j)
    BY <1>1, <1>4 DEF HookStep
  <2>2. /\ table' = table /\ executing' = executing
        /\ \A u \in Ids \ {t} : task'[u] = task[u]
    BY <1>4 DEF HookStep
  <2>3. t[1] # j
    BY <1>4, IdShape DEF HookStep
  <2> QED
    BY <2>1, <2>2, <2>3 DEF Alone
<1>5. ASSUME NEW t \in Ids, Ends(t) PROVE Goal
  <2>1. executing' = executing \ {t[1]} /\ Settle(doubled, executing')
    BY <1>5, LeaveEffect DEF Ends
  <2>2. CASE j \in doubled
    BY <2>1, <2>2, SettledIsAlone
  <2>3. CASE j \notin doubled /\ t[1] = j
    <3>1. Alone(task, table, executing, j)
      BY <1>1, <1>5, <2>3 DEF Ends
    <3>2. table[j] = t[2] /\ t = <<t[1], t[2]>>
      BY <1>5, <2>3, <3>1, IdShape DEF Alone, Ends
    <3>3. Dropped(t) \subseteq {<<t[1], table[t[1]]>>} \ {t}
      BY <1>5, EndEffect
    <3>4. Dropped(t) = {}
      BY <2>3, <3>2, <3>3
    <3>5. \A u \in Ids \ {t} : u \notin Dropped(t) => Remaining(t)[u] = task[u]
      BY <1>5, EndEffect
    <3>6. Remaining(t)[t].at = "free"
      BY <1>5, EndEffect
    <3>7. \A u \in Ids : u[1] = j => Remaining(t)[u].at = "free"
      <4> SUFFICES ASSUME NEW u \in Ids, u[1] = j, u # t PROVE Remaining(t)[u].at = "free"
        BY <3>6
      <4>1. u[2] # t[2]
        BY <2>3, IdShape
      <4>2. task[u].at = "free"
        BY <3>1, <3>2, <4>1 DEF Alone
      <4> QED
        BY <3>4, <3>5, <4>2
    <3>8. GoesOn(t) => \A u \in Ids : u[1] = t[1] =>
              IF u[2] = table'[t[1]] THEN task'[u] = [plan |-> task[t].plan, at |-> "sleeping", dep |-> NoDep]
                                     ELSE task'[u] = Remaining(t)[u]
      BY <1>5, EndEffect
    <3>9. ~GoesOn(t) => task' = Remaining(t)
      BY <1>5, EndEffect
    <3> QED
      BY <2>3, <3>7, <3>8, <3>9 DEF Alone, Executes
  <2>4. CASE j \notin doubled /\ t[1] # j
    <3>1. Alone(task, table, executing, j)
      BY <1>1, <1>5, <2>4 DEF Ends
    <3>2. \A v \in Ids : v[1] # t[1] => Remaining(t)[v] = task[v] /\ task'[v] = task[v]
      BY <1>5, EndEffect
    <3>3. table'[j] = Pruned(table, Remaining(t))[j]
      BY <1>5, <2>4, EndEffect
    <3>4. ASSUME NEW u \in Ids, u[1] = j, task[u].at # "free" PROVE table'[j] = table[j]
      <4>1. u = <<j, table[j]>> /\ Remaining(t)[u].at # "free"
        BY <2>4, <3>1, <3>2, <3>4, IdShape DEF Alone
      <4> QED
        BY <3>3, <4>1 DEF Pruned
    <3> QED
      BY <2>1, <2>4, <3>1, <3>2, <3>4 DEF Alone
  <2> QED
    BY <2>2, <2>3, <2>4
<1>6. ASSUME NEW t \in Ids, Died(t) PROVE Goal
  <2>1. /\ executing' = executing \ {t[1]} /\ Settle(doubled, executing') /\ up' = up
        /\ table' = Pruned(table, task') /\ task[t].at = "killed"
    BY <1>6 DEF Died
  <2>2. task'[t].at = "free" /\ \A u \in Ids \ {t} : task'[u] = task[u]
    BY <1>6 DEF Died, End, NoTask, TypeInv
  <2>3. CASE j \in doubled
    BY <2>1, <2>3, SettledIsAlone
  <2>4. CASE j \notin doubled
    <3>1. Alone(task, table, executing, j)
      BY <1>1, <2>1, <2>4
    <3>2. ASSUME NEW u \in Ids, u[1] = j, task'[u].at # "free"
          PROVE  table'[j] = u[2] /\ (Executes(task'[u].at) => j \in executing')
      <4>1. u # t /\ task'[u] = task[u]
        BY <2>2, <3>2
      <4>2. u = <<j, u[2]>> /\ table[j] = u[2] /\ u[2] # 0
        BY <3>1, <3>2, <4>1, IdShape DEF Alone, CronAssumption
      <4>3. table'[j] = u[2]
        BY <2>1, <3>2, <4>2 DEF Pruned
      <4>4. t[1] # j
        BY <2>1, <3>1, <4>1, <4>2, IdShape DEF Alone
      <4> QED
        BY <2>1, <3>1, <3>2, <4>1, <4>3, <4>4 DEF Alone
    <3> QED
      BY <3>2 DEF Alone
  <2> QED
    BY <2>3, <2>4
<1>7. ASSUME NEW w \in Parties, Begin(w) PROVE Goal
  <2>1. executing' = executing /\ up' = up /\ Settle(doubled, executing')
    BY <1>7 DEF Begin
  <2>2. CASE j \in doubled
    BY <2>1, <2>2, SettledIsAlone
  <2>3. CASE j \notin doubled
    <3>1. Alone(task, table, executing, j)
      BY <1>1, <2>1, <2>3
    <3>2. \A u \in Ids : ~Idling(u) => task'[u] = task[u]
      BY <1>7, BeginEffect
    <3>3. \A u \in Ids : Idling(u) =>
              task'[u].at = IF task[u].at \in {"running", "killed"} THEN "killed" ELSE "free"
      BY <1>7, BeginEffect
    <3>4. table'[j] = IF j \in executing THEN table[j] ELSE 0
      BY <1>7, BeginEffect
    <3>5. CASE j \in executing
      <4>1. \A u \in Ids : u[1] = j => task'[u] = task[u]
        BY <3>2, <3>5 DEF Idling
      <4> QED
        BY <2>1, <3>1, <3>4, <3>5, <4>1 DEF Alone
    <3>6. CASE j \notin executing
      <4>1. ASSUME NEW u \in Ids, u[1] = j PROVE task'[u].at = "free"
        <5>1. CASE task[u].at = "free"
          BY <3>2, <3>3, <5>1
        <5>2. CASE task[u].at # "free"
          <6>1. Idling(u) /\ ~Executes(task[u].at)
            BY <3>1, <3>6, <4>1, <5>2 DEF Alone, Idling
          <6> QED
            BY <3>3, <6>1 DEF Executes
        <5> QED
          BY <5>1, <5>2
      <4> QED
        BY <4>1 DEF Alone
    <3> QED
      BY <3>5, <3>6
  <2> QED
    BY <2>2, <2>3
<1>8. ASSUME NEW w \in Parties, Finish(w) PROVE Goal
  <2> DEFINE D == doubled \cup ({k \in Jobs \ unscheduled' : Enabled(k)} \cap executing)
  <2>1. executing' = executing /\ up' = up /\ Settle(D, executing')
    BY <1>8 DEF Finish
  <2>2. CASE j \in D
    <3> HIDE DEF D
    <3> QED
      BY <2>1, <2>2, SettledIsAlone
  <2>3. CASE j \notin D
    <3>1. Alone(task, table, executing, j) /\ ~(Due(j) /\ j \in executing)
      BY <1>1, <2>1, <2>3 DEF Due
    <3>2. \A u \in Ids : ~(Idling(u) /\ Due(u[1])) => Replacing[u] = task[u]
      BY <1>8, FinishEffect
    <3>3. \A u \in Ids : Idling(u) /\ Due(u[1]) =>
              Replacing[u].at = IF task[u].at \in {"running", "killed"} THEN "killed" ELSE "free"
      BY <1>8, FinishEffect
    <3>4. \A u \in Ids : IF u[1] \in Jobs /\ Due(u[1]) /\ u[2] = table'[u[1]]
              THEN task'[u] = [plan |-> mem[u[1]].plan, at |-> "sleeping", dep |-> NoDep]
              ELSE task'[u] = Replacing[u]
      BY <1>8, FinishEffect
    <3>5. CASE Due(j)
      <4>1. ASSUME NEW u \in Ids, u[1] = j PROVE Replacing[u].at = "free"
        <5>1. CASE task[u].at = "free"
          BY <3>2, <3>3, <5>1
        <5>2. CASE task[u].at # "free"
          <6>1. Idling(u) /\ ~Executes(task[u].at)
            BY <3>1, <3>5, <4>1, <5>2 DEF Alone, Idling
          <6> QED
            BY <3>3, <3>5, <4>1, <6>1 DEF Executes
        <5> QED
          BY <5>1, <5>2
      <4>2. ASSUME NEW u \in Ids, u[1] = j, task'[u].at # "free"
            PROVE  table'[j] = u[2] /\ task'[u].at = "sleeping"
        <5>1. task'[u] # Replacing[u]
          BY <4>1, <4>2
        <5>2. u[2] = table'[u[1]] /\ task'[u] = [plan |-> mem[u[1]].plan, at |-> "sleeping", dep |-> NoDep]
          BY <3>4, <5>1
        <5> QED
          BY <4>2, <5>2
      <4> QED
        BY <4>2 DEF Alone, Executes
    <3>6. CASE ~Due(j)
      <4>1. \A u \in Ids : u[1] = j => task'[u] = task[u] /\ Replacing[u] = task[u]
        BY <3>2, <3>4, <3>6
      <4>2. table'[j] = Pruned(table, Replacing)[j]
        BY <1>8, <3>6, FinishEffect
      <4>3. ASSUME NEW u \in Ids, u[1] = j, task[u].at # "free" PROVE table'[j] = table[j]
        <5>1. u = <<j, table[j]>> /\ Replacing[u].at # "free"
          BY <3>1, <4>1, <4>3, IdShape DEF Alone
        <5> QED
          BY <4>2, <5>1 DEF Pruned
      <4> QED
        BY <2>1, <3>1, <4>1, <4>3 DEF Alone
    <3> QED
      BY <3>5, <3>6
  <2> QED
    BY <2>2, <2>3
<1>9. CASE Stop
  BY <1>9 DEF Stop
<1> QED
  BY <1>2, <1>3, <1>4, <1>5, <1>6, <1>7, <1>8, <1>9, StepKinds

-----------------------------------------------------------------------------
(* The line of a dependency.                                                 *)

\* Of the tasks in line some are cancelled, none is new.
Thins(tk) ==
  \A u \in Ids : \/ tk[u] = task[u]
                 \/ tk[u].at \notin InLine
                 \/ /\ tk[u].at = "killed" /\ task[u].at \in {"running", "killed"}
                    /\ tk[u].dep = task[u].dep

\* Apart from tasks out of line nothing changes.
SameLine(tk, new) ==
  \A u \in Ids : \/ new[u].at = tk[u].at /\ new[u].dep = tk[u].dep
                 \/ tk[u].at \notin InLine /\ new[u].at \notin InLine

LEMMA ShortenedLine ==
  ASSUME TypeInv, LineInv, NEW tk, Thins(tk), SameLine(tk, task'), ahead' = Shortened(tk)
  PROVE  LineInv'
<1>1. \A t \in Ids : ahead'[t] \subseteq ahead[t]
  BY DEF Shortened
<1>2. ASSUME NEW t \in Ids, ahead'[t] # {} PROVE task'[t].at = "waiting"
  BY <1>2 DEF Shortened, SameLine, InLine
<1>5. ASSUME NEW t \in Ids, task'[t].at \in InLine
      PROVE  tk[t].at \in InLine /\ task[t].at \in InLine /\ task'[t].dep = task[t].dep
  <2>1. task'[t].at = tk[t].at /\ task'[t].dep = tk[t].dep
    BY <1>5 DEF SameLine
  <2> QED
    BY <1>5, <2>1 DEF Thins, InLine
<1>3. ASSUME NEW t \in Ids, NEW u \in ahead'[t] PROVE task'[u].at \in InLine /\ SameDep(t, u)'
  <2>1. u \in Ids /\ tk[u].at \in InLine /\ u \in ahead[t]
    BY <1>3 DEF Shortened, TypeInv
  <2>2. task'[u].at \in InLine /\ SameDep(t, u)
    BY <2>1 DEF SameLine, LineInv
  <2>3. task'[t].at \in InLine
    BY <1>2, <1>3 DEF InLine
  <2> QED
    BY <1>5, <2>1, <2>2, <2>3 DEF SameDep
<1>4. ASSUME NEW t \in Ids, NEW u \in Ids, t # u, SameDep(t, u)',
             task'[t].at \in InLine, task'[u].at \in InLine
      PROVE  u \in ahead'[t] \/ t \in ahead'[u]
  <2>1. tk[t].at \in InLine /\ tk[u].at \in InLine
    BY <1>4, <1>5
  <2>2. task[t].at \in InLine /\ task[u].at \in InLine /\ SameDep(t, u)
    BY <1>4, <1>5 DEF SameDep
  <2>3. \A v, x \in Ids : v \in ahead[x] /\ tk[x].at \in InLine /\ tk[v].at \in InLine => v \in ahead'[x]
    <3> SUFFICES ASSUME NEW v \in Ids, NEW x \in Ids, v \in ahead[x],
                        tk[x].at \in InLine, tk[v].at \in InLine
                 PROVE  v \in ahead'[x]
      OBVIOUS
    <3>1. task[x].at = "waiting"
      BY DEF LineInv
    <3>2. tk[x].at = "waiting"
      BY <3>1 DEF Thins
    <3> QED
      BY <3>2 DEF Shortened
  <2> QED
    BY <1>4, <2>1, <2>2, <2>3 DEF LineInv
<1>6. ASSUME NEW t \in Ids
      PROVE  t \notin ahead'[t] /\ \A u \in ahead'[t] : ahead'[u] \subseteq ahead'[t]
  <2>1. t \notin ahead[t] /\ \A u \in ahead[t] : u \in Ids /\ ahead[u] \subseteq ahead[t]
    BY DEF LineInv, TypeInv
  <2>2. ASSUME NEW u \in ahead'[t], NEW v \in ahead'[u] PROVE v \in ahead'[t]
    <3>1. u \in ahead[t] /\ u \in Ids
      BY <1>1, <2>1, <2>2
    <3>2. v \in ahead[u] /\ tk[v].at \in InLine
      BY <2>2, <3>1 DEF Shortened
    <3>3. v \in ahead[t] /\ tk[t].at = "waiting"
      BY <2>1, <2>2, <3>1, <3>2 DEF Shortened
    <3> QED
      BY <3>2, <3>3 DEF Shortened
  <2> QED
    BY <1>1, <2>1, <2>2
<1> QED
  BY <1>2, <1>3, <1>4, <1>6 DEF LineInv

LEMMA UnchangedLine ==
  ASSUME TypeInv, LineInv, SameLine(task, task'), ahead' = ahead
  PROVE  LineInv'
<1>1. \A t \in Ids : task[t].at \in InLine => task'[t].at = task[t].at /\ task'[t].dep = task[t].dep
  BY DEF SameLine
<1>2. \A t \in Ids : task'[t].at \in InLine => task[t].at \in InLine
  BY DEF SameLine
<1>3. \A t \in Ids : ahead'[t] # {} => task'[t].at = "waiting"
  BY <1>1 DEF LineInv, InLine
<1>4. ASSUME NEW t \in Ids, NEW u \in ahead'[t] PROVE task'[u].at \in InLine /\ SameDep(t, u)'
  <2>1. u \in Ids /\ task[u].at \in InLine /\ SameDep(t, u)
    BY <1>4 DEF LineInv, TypeInv
  <2>2. task[t].at \in InLine
    BY <1>4 DEF LineInv, InLine
  <2> QED
    BY <1>1, <2>1, <2>2 DEF SameDep
<1>5. ASSUME NEW t \in Ids, NEW u \in Ids, t # u, SameDep(t, u)',
             task'[t].at \in InLine, task'[u].at \in InLine
      PROVE  u \in ahead'[t] \/ t \in ahead'[u]
  <2>1. task[t].at \in InLine /\ task[u].at \in InLine /\ SameDep(t, u)
    BY <1>1, <1>2, <1>5 DEF SameDep
  <2> QED
    BY <1>5, <2>1 DEF LineInv
<1>6. \A t \in Ids : t \notin ahead'[t] /\ \A u \in ahead'[t] : ahead'[u] \subseteq ahead'[t]
  BY DEF LineInv
<1> QED
  BY <1>3, <1>4, <1>5, <1>6 DEF LineInv

\* Who gets in line is behind everybody in it.
LEMMA EnteredLine ==
  ASSUME CronAssumption, TypeInv, LineInv, NEW t \in Ids, task[t].at \notin InLine,
         NEW d, Enter(t, d)
  PROVE  LineInv'
<1>1. task'[t].dep = d /\ \A u \in Ids \ {t} : task'[u] = task[u]
  BY DEF Enter, Place, TypeInv
<1>2. t \notin ahead[t] /\ ahead[t] = {} /\ \A u \in Ids : t \notin ahead[u]
  BY DEF LineInv, InLine
<1>3. CASE d = NoDep
  <2>1. ahead' = ahead
    BY <1>3 DEF Enter
  <2>2. \A u \in Ids : ahead'[u] # {} => task'[u].at = "waiting"
    BY <1>1, <1>2, <2>1 DEF LineInv
  <2>3. \A v \in Ids : \A u \in ahead'[v] : task'[u].at \in InLine /\ SameDep(v, u)'
    BY <1>1, <1>2, <2>1 DEF LineInv, SameDep, TypeInv
  <2>4. \A v, u \in Ids :
          v # u /\ SameDep(v, u)' /\ task'[v].at \in InLine /\ task'[u].at \in InLine
            => u \in ahead'[v] \/ v \in ahead'[u]
    BY <1>1, <1>3, <2>1 DEF LineInv, SameDep
  <2>5. \A v \in Ids : v \notin ahead'[v] /\ \A u \in ahead'[v] : ahead'[u] \subseteq ahead'[v]
    BY <2>1 DEF LineInv
  <2> QED
    BY <2>2, <2>3, <2>4, <2>5 DEF LineInv, SameDep
<1>4. CASE d # NoDep
  <2>1. /\ ahead'[t] = {u \in Ids : task[u].dep = d /\ task[u].at \in InLine}
        /\ \A u \in Ids \ {t} : ahead'[u] = ahead[u]
        /\ task'[t].at = "waiting"
    BY <1>4 DEF Enter, Place, TypeInv
  <2>2. \A u \in Ids : ahead'[u] # {} => task'[u].at = "waiting"
    BY <1>1, <2>1 DEF LineInv
  <2>3. \A v \in Ids : \A u \in ahead'[v] : task'[u].at \in InLine /\ SameDep(v, u)'
    <3>1. ASSUME NEW u \in ahead'[t] PROVE task'[u].at \in InLine /\ SameDep(t, u)'
      BY <1>1, <1>4, <2>1, <3>1 DEF SameDep
    <3>2. ASSUME NEW v \in Ids \ {t}, NEW u \in ahead'[v] PROVE task'[u].at \in InLine /\ SameDep(v, u)'
      <4>1. u \in ahead[v] /\ v # t /\ u # t /\ u \in Ids
        BY <1>2, <2>1, <3>2 DEF TypeInv
      <4> QED
        BY <1>1, <3>2, <4>1 DEF LineInv, SameDep
    <3> QED
      BY <3>1, <3>2
  <2>4. ASSUME NEW v \in Ids, NEW u \in Ids, v # u, SameDep(v, u)',
               task'[v].at \in InLine, task'[u].at \in InLine
        PROVE  u \in ahead'[v] \/ v \in ahead'[u]
    <3>1. CASE v = t
      BY <1>1, <2>1, <2>4, <3>1 DEF SameDep
    <3>2. CASE u = t
      BY <1>1, <2>1, <2>4, <3>2 DEF SameDep
    <3>3. CASE v # t /\ u # t
      BY <1>1, <2>1, <2>4, <3>3 DEF LineInv, SameDep
    <3> QED
      BY <3>1, <3>2, <3>3
  <2>5. ASSUME NEW v \in Ids
        PROVE  v \notin ahead'[v] /\ \A u \in ahead'[v] : ahead'[u] \subseteq ahead'[v]
    <3>1. CASE v # t
      <4>1. ahead'[v] = ahead[v] /\ v \notin ahead[v]
        BY <2>1, <3>1 DEF LineInv
      <4>2. \A u \in ahead[v] : u \in Ids \ {t} /\ ahead[u] \subseteq ahead[v]
        BY <1>2 DEF LineInv, TypeInv
      <4>3. \A u \in ahead[v] : ahead'[u] = ahead[u]
        BY <2>1, <4>2
      <4> QED
        BY <4>1, <4>2, <4>3
    <3>2. CASE v = t
      <4>1. t \notin ahead'[t]
        BY <2>1
      <4>2. ASSUME NEW u \in ahead'[t], NEW x \in ahead'[u] PROVE x \in ahead'[t]
        <5>1. u \in Ids \ {t} /\ task[u].dep = d
          BY <2>1, <4>1, <4>2
        <5>2. x \in ahead[u] /\ x \in Ids
          BY <2>1, <4>2, <5>1 DEF TypeInv
        <5>3. task[x].at \in InLine /\ task[x].dep = d
          BY <5>1, <5>2 DEF LineInv, SameDep
        <5> QED
          BY <2>1, <5>2, <5>3
      <4> QED
        BY <3>2, <4>1, <4>2
    <3> QED
      BY <3>1, <3>2
  <2> QED
    BY <2>2, <2>3, <2>4, <2>5 DEF LineInv, SameDep
<1> QED
  BY <1>3, <1>4

\* Cancelling thins the line, and scheduling leaves it alone.
LEMMA CancelledThins ==
  ASSUME TypeInv, NEW T
  PROVE  Thins(Cancelled(task, T))
<1>1. task \in [Ids -> Task]
  BY DEF TypeInv, Task
<1>2. \A u \in Ids : \/ Cancelled(task, T)[u] = task[u]
                     \/ Cancelled(task, T)[u].at = "free"
                     \/ /\ Cancelled(task, T)[u].at = "killed" /\ task[u].at \in {"running", "killed"}
                        /\ Cancelled(task, T)[u].dep = task[u].dep
  BY <1>1, CancelledAt
<1> QED
  BY <1>2 DEF Thins, InLine

LEMMA ScheduledSameLine ==
  ASSUME NEW tk, NEW J, NEW plan, \A j \in J : HasFresh(tk, j)
  PROVE  SameLine(tk, Scheduled(tk, J, plan))
<1> SUFFICES ASSUME NEW u \in Ids
             PROVE  \/ Scheduled(tk, J, plan)[u] = tk[u]
                    \/ tk[u].at \notin InLine /\ Scheduled(tk, J, plan)[u].at \notin InLine
  BY DEF SameLine
<1>1. CASE u[1] \in J /\ u[2] = Fresh(tk, u[1])
  <2>1. tk[<<u[1], Fresh(tk, u[1])>>].at = "free"
    BY <1>1, FreshIsFree
  <2>2. u = <<u[1], Fresh(tk, u[1])>>
    BY <1>1 DEF Ids
  <2>3. Scheduled(tk, J, plan)[u].at = "sleeping"
    BY <1>1 DEF Scheduled
  <2> QED
    BY <2>1, <2>2, <2>3 DEF InLine
<1>2. CASE ~(u[1] \in J /\ u[2] = Fresh(tk, u[1]))
  BY <1>2 DEF Scheduled
<1> QED
  BY <1>1, <1>2

LEMMA EndedLine ==
  ASSUME CronAssumption, TypeInv, LineInv, NEW t \in Ids, Ends(t)
  PROVE  LineInv'
<1>1. \A u \in Ids \ {t} : u \notin Dropped(t) => Remaining(t)[u] = task[u]
  BY EndEffect
<1>2. Remaining(t)[t].at = "free"
  BY EndEffect
<1>3. Thins(Remaining(t))
  <2> DEFINE tk0 == [task EXCEPT ![t] = NoTask]
  <2>1. tk0 \in [Ids -> Task] /\ \A u \in Ids \ {t} : tk0[u] = task[u]
    BY DEF NoTask, Task, Phases, TypeInv
  <2>2. Remaining(t) = Cancelled(tk0, Dropped(t))
    BY DEF Remaining
  <2> HIDE DEF tk0
  <2>3. \A u \in Ids \ {t} : u \in Dropped(t) =>
          \/ Remaining(t)[u].at = "free"
          \/ /\ Remaining(t)[u].at = "killed" /\ task[u].at \in {"running", "killed"}
             /\ Remaining(t)[u].dep = task[u].dep
    BY <2>1, <2>2, CancelledAt
  <2> QED
    BY <1>1, <1>2, <2>3 DEF Thins, InLine
<1>4. SameLine(Remaining(t), task')
  <2>1. CASE GoesOn(t)
    <3> DEFINE plan == [k \in {t[1]} |-> task[t].plan]
    <3>1. HasFresh(Remaining(t), t[1]) /\ task' = Scheduled(Remaining(t), {t[1]}, plan)
      BY <2>1, LeaveEffect DEF Ends
    <3> HIDE DEF plan
    <3>2. \A j \in {t[1]} : HasFresh(Remaining(t), j)
      BY <3>1
    <3> QED
      BY <3>1, <3>2, ScheduledSameLine
  <2>2. CASE ~GoesOn(t)
    BY <2>2, LeaveEffect DEF Ends, SameLine
  <2> QED
    BY <2>1, <2>2
<1>5. ahead' = Shortened(Remaining(t))
  BY LeaveEffect DEF Ends
<1> QED
  BY <1>3, <1>4, <1>5, ShortenedLine

LEMMA LineStep ==
  ASSUME CronAssumption, TypeInv, HooksWait, LineInv, [Next]_vars
  PROVE  LineInv'
<1> USE DEF vars, store, runs, bounds, runHistory, listHistory
<1>1. ASSUME NEW t \in Ids, NEW phase, Move(t, phase), ahead' = ahead,
             task[t].at \notin InLine, phase \notin InLine
      PROVE  LineInv'
  <2>1. SameLine(task, task')
    BY <1>1 DEF SameLine, Move, TypeInv
  <2> QED
    BY <1>1, <2>1, UnchangedLine
<1>2. ASSUME NEW t \in Ids, ahead' = Shortened(task'), task'[t].at \notin InLine,
             \A u \in Ids \ {t} : task'[u] = task[u]
      PROVE  LineInv'
  <2>1. Thins(task') /\ SameLine(task', task')
    BY <1>2 DEF Thins, SameLine
  <2> QED
    BY <1>2, <2>1, ShortenedLine
<1>3. CASE UNCHANGED <<task, ahead>>
  <2>1. SameLine(task, task')
    BY <1>3 DEF SameLine
  <2> QED
    BY <1>3, <2>1, UnchangedLine
<1>4. ASSUME NEW t \in Ids, Fire(t) PROVE LineInv'
  <2>1. SameLine(task, task')
    BY <1>4 DEF SameLine, Fire, Place, InLine, TypeInv
  <2> QED
    BY <1>4, <2>1, UnchangedLine DEF Fire
<1>5. ASSUME NEW t \in Ids, Delivered(t) PROVE LineInv'
  BY <1>1, <1>5 DEF Delivered, InLine
<1>6. ASSUME NEW t \in Ids, Routed(t) PROVE LineInv'
  <2>1. task[t].at \notin InLine
    BY <1>6 DEF Routed, InLine
  <2>2. CASE Enter(t, task[t].dep)
    BY <2>1, <2>2, EnteredLine
  <2>3. CASE Move(t, "refusing") /\ UNCHANGED ahead
    BY <1>1, <2>1, <2>3 DEF InLine
  <2> QED
    BY <1>6, <2>2, <2>3 DEF Routed
<1>7. ASSUME NEW t \in Ids, HookArrives(t) PROVE LineInv'
  <2>1. task[t].at \notin InLine /\ Enter(t, DepOf[t[1]])
    BY <1>7 DEF HookArrives, InLine
  <2> QED
    BY <2>1, EnteredLine
<1>8. ASSUME NEW t \in Ids, Turn(t) PROVE LineInv'
  <2>1. /\ task[t].at = "waiting" /\ ahead[t] = {} /\ ahead' = ahead
        /\ task'[t].at = "running" /\ task'[t].dep = task[t].dep
        /\ \A u \in Ids \ {t} : task'[u] = task[u]
    BY <1>8 DEF Turn, Move, TypeInv
  <2>2. \A u \in Ids : /\ task'[u].at \in InLine <=> task[u].at \in InLine
                       /\ task'[u].dep = task[u].dep
    BY <2>1 DEF InLine
  <2>3. \A u \in Ids : ahead'[u] # {} => task'[u].at = "waiting"
    BY <2>1 DEF LineInv
  <2>4. \A v \in Ids : \A u \in ahead'[v] : task'[u].at \in InLine /\ SameDep(v, u)'
    BY <2>1, <2>2 DEF LineInv, SameDep, TypeInv
  <2>5. \A v, u \in Ids :
          v # u /\ SameDep(v, u)' /\ task'[v].at \in InLine /\ task'[u].at \in InLine
            => u \in ahead'[v] \/ v \in ahead'[u]
    BY <2>1, <2>2 DEF LineInv, SameDep
  <2>6. \A v \in Ids : v \notin ahead'[v] /\ \A u \in ahead'[v] : ahead'[u] \subseteq ahead'[v]
    BY <2>1 DEF LineInv
  <2> QED
    BY <2>3, <2>4, <2>5, <2>6 DEF LineInv, SameDep
<1>9. ASSUME NEW t \in Ids, Finished(t) PROVE LineInv'
  <2>1. PICK phase \in {"delivering", "refusing"} : Move(t, phase)
    BY <1>9 DEF Finished
  <2>2. task'[t].at \notin InLine /\ \A u \in Ids \ {t} : task'[u] = task[u]
    BY <2>1 DEF Move, InLine, TypeInv
  <2> QED
    BY <1>2, <1>9, <2>2 DEF Finished
<1>10. ASSUME NEW t \in Ids, Died(t) \/ HookFinished(t) PROVE LineInv'
  <2>1. End(t) /\ ahead' = Shortened(task')
    BY <1>10 DEF Died, HookFinished
  <2>2. task'[t].at \notin InLine /\ \A u \in Ids \ {t} : task'[u] = task[u]
    BY <2>1 DEF End, NoTask, InLine, TypeInv
  <2> QED
    BY <1>2, <2>1, <2>2
<1>11. ASSUME NEW t \in Ids, Skip(t) \/ Noted(t) \/ Refused(t) PROVE LineInv'
  <2>1. t[1] \in Jobs
    BY <1>11, IdShape DEF Skip, Noted, Refused, HooksWait, InLine
  <2>2. Ends(t)
    BY <1>11, <2>1 DEF Skip, Noted, Refused, Ends
  <2> QED
    BY <2>2, EndedLine
<1>12. ASSUME NEW T, task' = Cancelled(task, T), ahead' = Shortened(task') PROVE LineInv'
  <2>1. Thins(task') /\ SameLine(task', task')
    BY <1>12, CancelledThins DEF SameLine
  <2> QED
    BY <1>12, <2>1, ShortenedLine
<1>13. ASSUME NEW w \in Parties, Begin(w) PROVE LineInv'
  BY <1>12, <1>13 DEF Begin
<1>14. CASE Stop
  BY <1>12, <1>14 DEF Stop
<1>15. ASSUME NEW w \in Parties, Finish(w) PROVE LineInv'
  <2> DEFINE J == {j \in Jobs \ unscheduled' : Enabled(j)}
             plan == [j \in J |-> mem[j].plan]
  <2>1. /\ task' = Scheduled(Replacing, J, plan) /\ ahead' = Shortened(Replacing)
        /\ \A j \in J : HasFresh(Replacing, j)
    BY <1>15 DEF Finish, Replacing
  <2>2. Thins(Replacing)
    BY CancelledThins DEF Replacing
  <2> HIDE DEF J, plan
  <2>3. SameLine(Replacing, task')
    BY <2>1, ScheduledSameLine
  <2> QED
    BY <2>1, <2>2, <2>3, ShortenedLine
<1> QED
  BY <1>3, <1>4, <1>5, <1>6, <1>7, <1>8, <1>9, <1>10, <1>11, <1>13, <1>14, <1>15
     DEF Next, Edit, Toggle, Poll, Read, Replace, WatcherFails, RequestNotes

-----------------------------------------------------------------------------
(* Marks, buttons and edits.                                                 *)

\* What is bared stays so until it has ended or is marked again.
LEMMA BareKeeps ==
  ASSUME NEW B, Bare(B), NEW u \in B, Executes(task'[u].at)
  PROVE  u[1] \in executing' \/ u \in bared'
BY DEF Bare

LEMMA MarksStep ==
  ASSUME CronAssumption, TypeInv, HooksWait, DownIsIdle, MarksHold, [Next]_vars
  PROVE  MarksHold'
<1> SUFFICES ASSUME up', NEW u \in Ids, u[1] \in Jobs, Executes(task'[u].at)
             PROVE  u[1] \in executing' \/ u \in bared'
  BY DEF MarksHold
<1>1. ASSUME up, Executes(task[u].at) PROVE u[1] \in executing \/ u \in bared
  BY <1>1 DEF MarksHold
<1>2. CASE UNCHANGED <<task, table, executing, up, doubled, bared, cut, unscheduled>>
  BY <1>1, <1>2
<1>3. ASSUME NEW t \in Ids, Advances(t) PROVE u[1] \in executing' \/ u \in bared'
  <2>1. /\ up /\ executing \subseteq executing'
        /\ Bare(bared) \/ bared' = bared
        /\ task[t].at = "sleeping" => t[1] \in executing'
        /\ task[t].at # "free" /\ \A v \in Ids \ {t} : task'[v] = task[v]
    BY <1>3 DEF Advances
  <2>2. CASE u = t /\ task[t].at = "sleeping"
    BY <2>1, <2>2
  <2>3. CASE ~(u = t /\ task[t].at = "sleeping")
    <3>1. Executes(task[u].at)
      BY <2>1, <2>3 DEF Executes
    <3> QED
      BY <1>1, <2>1, <3>1, BareKeeps
  <2> QED
    BY <2>2, <2>3
<1>4. ASSUME NEW t \in Ids, HookStep(t) PROVE u[1] \in executing' \/ u \in bared'
  <2>1. u # t
    BY <1>4, IdShape DEF HookStep
  <2> QED
    BY <1>1, <1>4, <2>1 DEF HookStep
<1>5. ASSUME NEW t \in Ids, Ends(t) PROVE u[1] \in executing' \/ u \in bared'
  <2>1. /\ up /\ executing' = executing \ {t[1]} /\ Bare(bared \cup Beside(t)) /\ t[1] \in Jobs
    BY <1>5, LeaveEffect DEF Ends
  <2>2. CASE u[1] = t[1]
    <3>1. task'[u].at = "sleeping" \/ task'[u] = Remaining(t)[u]
      <4>1. GoesOn(t) => \A v \in Ids : v[1] = t[1] =>
              IF v[2] = table'[t[1]]
                THEN task'[v] = [plan |-> task[t].plan, at |-> "sleeping", dep |-> NoDep]
                ELSE task'[v] = Remaining(t)[v]
        BY <1>5, EndEffect
      <4>2. ~GoesOn(t) => task' = Remaining(t)
        BY <1>5, EndEffect
      <4> QED
        BY <2>2, <4>1, <4>2
    <3>2. Remaining(t)[t].at = "free" /\ Executes(Remaining(t)[u].at)
      BY <1>5, <3>1, EndEffect DEF Executes
    <3>3. u # t
      BY <3>2 DEF Executes
    <3>4. Executes(task[u].at)
      BY <1>5, <3>2, <3>3, EndEffect
    <3>5. u \in bared \cup Beside(t)
      BY <2>1, <2>2, <3>3, <3>4 DEF Beside
    <3> QED
      BY <2>1, <3>5, BareKeeps
  <2>3. CASE u[1] # t[1]
    <3>1. Executes(task[u].at)
      <4>1. \A v \in Ids : v[1] # t[1] => Remaining(t)[v] = task[v] /\ task'[v] = task[v]
        BY <1>5, EndEffect
      <4> QED
        BY <2>3, <4>1
    <3>2. u[1] \in executing' \/ u \in bared \cup Beside(t)
      BY <1>1, <2>1, <2>3, <3>1
    <3> QED
      BY <2>1, <3>2, BareKeeps
  <2> QED
    BY <2>2, <2>3
<1>6. ASSUME NEW t \in Ids, Died(t) PROVE u[1] \in executing' \/ u \in bared'
  <2>1. /\ up /\ executing' = executing \ {t[1]} /\ Bare(bared \cup Beside(t))
        /\ task'[t].at = "free" /\ \A v \in Ids \ {t} : task'[v] = task[v]
    BY <1>6 DEF Died, End, NoTask, TypeInv
  <2>2. u # t /\ Executes(task[u].at)
    BY <2>1 DEF Executes
  <2>3. u[1] \in executing' \/ u \in bared \cup Beside(t)
    BY <1>1, <2>1, <2>2 DEF Beside
  <2> QED
    BY <2>1, <2>3, BareKeeps
<1>7. ASSUME up' = up, executing' = executing, Bare(bared), Executes(task[u].at)
      PROVE  u[1] \in executing' \/ u \in bared'
  BY <1>1, <1>7, BareKeeps
<1>8. ASSUME NEW w \in Parties, Begin(w) PROVE u[1] \in executing' \/ u \in bared'
  <2>1. Executes(task[u].at)
    BY <1>8, BeginEffect DEF Executes
  <2> QED
    BY <1>7, <1>8, <2>1 DEF Begin
<1>9. ASSUME NEW w \in Parties, Finish(w) PROVE u[1] \in executing' \/ u \in bared'
  <2>1. task'[u] = Replacing[u]
    <3>1. \A v \in Ids : IF v[1] \in Jobs /\ Due(v[1]) /\ v[2] = table'[v[1]]
              THEN task'[v] = [plan |-> mem[v[1]].plan, at |-> "sleeping", dep |-> NoDep]
              ELSE task'[v] = Replacing[v]
      BY <1>9, FinishEffect
    <3>2. task'[u].at # "sleeping"
      BY DEF Executes
    <3>3. task'[u] = [plan |-> mem[u[1]].plan, at |-> "sleeping", dep |-> NoDep]
            \/ task'[u] = Replacing[u]
      BY <3>1
    <3> QED
      BY <3>2, <3>3
  <2>2. Executes(task[u].at)
    <3>1. \A v \in Ids : ~(Idling(v) /\ Due(v[1])) => Replacing[v] = task[v]
      BY <1>9, FinishEffect
    <3>2. \A v \in Ids : Idling(v) /\ Due(v[1]) =>
            Replacing[v].at = IF task[v].at \in {"running", "killed"} THEN "killed" ELSE "free"
      BY <1>9, FinishEffect
    <3> QED
      BY <2>1, <3>1, <3>2 DEF Executes
  <2> QED
    BY <1>7, <1>9, <2>2 DEF Finish
<1>10. CASE Stop
  BY <1>10 DEF Stop
<1> QED
  BY <1>2, <1>3, <1>4, <1>5, <1>6, <1>8, <1>9, <1>10, StepKinds

\* The steps that concern neither the list nor the file.
Apart ==
  \/ \E t \in Ids : \/ Fire(t) \/ Skip(t) \/ Routed(t) \/ Turn(t) \/ Finished(t)
                    \/ Died(t) \/ HookArrives(t) \/ HookFinished(t)
  \/ UNCHANGED vars

LEMMA ApartKeeps ==
  ASSUME Apart
  PROVE  UNCHANGED <<store, at, up, listHistory>>
BY DEF Apart, Fire, Skip, Routed, Turn, Finished, Died, HookArrives, HookFinished,
       vars, store, listHistory

LEMMA OrdersStep ==
  ASSUME TypeInv, OrdersHold, [Next]_vars
  PROVE  OrdersHold'
<1> USE DEF store, bounds, listHistory
<1>1. CASE /\ UNCHANGED <<file, mem, loaded, order>>
           /\ at'["watcher"] = "read" => at["watcher"] = "read"
  BY <1>1 DEF OrdersHold, Obeys
<1>2. CASE Apart
  BY <1>1, <1>2, ApartKeeps
<1>3. ASSUME NEW t \in Ids, Delivered(t) \/ Refused(t) PROVE OrdersHold'
  <2>1. /\ UNCHANGED <<mem, loaded, order, at>>
        /\ file' = file \/ file' = mem
    BY <1>3 DEF Delivered, Refused, SaveStatus, Save
  <2> QED
    BY <2>1 DEF OrdersHold, Obeys
<1>4. ASSUME NEW t \in Ids, Noted(t) PROVE OrdersHold'
  BY <1>1, <1>4 DEF Noted
<1>5. ASSUME NEW k \in Jobs, Edit(k) PROVE OrdersHold'
  <2>1. /\ UNCHANGED <<mem, loaded, at>> /\ \A j \in Jobs \ {k} : file'[j] = file[j]
        /\ order' = [order EXCEPT ![k] = "none"]
    BY <1>5 DEF Edit, TypeInv
  <2>2. order'[k] = "none" /\ \A j \in Jobs \ {k} : order'[j] = order[j]
    BY <2>1 DEF TypeInv
  <2> QED
    BY <2>1, <2>2 DEF OrdersHold, Obeys
<1>6. CASE Toggle
  <2>1. PICK J \in {{j} : j \in Jobs} \cup {Jobs}, on \in BOOLEAN :
          LET flips == {j \in J : mem[j] # Gone /\ mem[j].on # on} IN
            /\ mem' = [j \in Jobs |-> IF j \in flips THEN [mem[j] EXCEPT !.on = on] ELSE mem[j]]
            /\ order' = Ordered(flips, on)
    BY <1>6 DEF Toggle
  <2> DEFINE flips == {j \in J : mem[j] # Gone /\ mem[j].on # on}
  <2>2. /\ file' = mem' /\ loaded' = loaded
        /\ at'["watcher"] = at["watcher"]
    BY <1>6 DEF Toggle, Save, Requested, TypeInv, Parties
  <2>3. ASSUME NEW j \in Jobs, order'[j] # "none"
        PROVE  /\ Obeys(mem'[j], order'[j]) /\ Obeys(file'[j], order'[j])
               /\ at'["watcher"] = "read" => Obeys(loaded'[j], order'[j])
    <3>1. CASE j \in flips
      <4>1. at["watcher"] # "read" /\ order'[j] = IF on THEN "on" ELSE "off"
        BY <2>1, <2>3, <3>1 DEF Ordered
      <4>2. mem'[j] = [mem[j] EXCEPT !.on = on] /\ mem[j] \in [on : BOOLEAN, plan : Plans]
        BY <2>1, <3>1 DEF TypeInv, Entries
      <4>3. mem'[j].on = on /\ mem'[j] \in [on : BOOLEAN, plan : Plans]
        BY <4>2
      <4>4. mem'[j] # Gone
        BY <4>3, CronAssumption DEF CronAssumption
      <4> QED
        BY <2>2, <4>1, <4>3, <4>4 DEF Obeys
    <3>2. CASE j \notin flips
      <4>1. mem'[j] = mem[j] /\ order'[j] = order[j]
        BY <2>1, <3>2 DEF Ordered
      <4> QED
        BY <2>2, <2>3, <4>1 DEF OrdersHold
    <3> QED
      BY <3>1, <3>2
  <2> QED
    BY <2>3 DEF OrdersHold, Obeys
<1>7. CASE Read
  <2>1. loaded' = file /\ UNCHANGED <<file, mem, order>>
    BY <1>7 DEF Read
  <2> QED
    BY <2>1 DEF OrdersHold, Obeys
<1>8. CASE Replace
  <2>1. mem' = loaded /\ at["watcher"] = "read" /\ at'["watcher"] = "ready" /\ UNCHANGED <<file, order>>
    BY <1>8 DEF Replace, Step, TypeInv, Parties
  <2> QED
    BY <2>1 DEF OrdersHold, Obeys
<1>9. CASE Poll \/ WatcherFails \/ RequestNotes
  BY <1>1, <1>9 DEF Poll, WatcherFails, RequestNotes, Step, TypeInv, Parties
<1>10. ASSUME NEW w \in Parties, Begin(w) \/ Finish(w) PROVE OrdersHold'
  <2>1. /\ UNCHANGED <<file, mem, loaded, order>>
        /\ at'["watcher"] = "read" => at["watcher"] = "read"
    BY <1>10 DEF Begin, Finish, Step, TypeInv, Parties
  <2> QED
    BY <1>1, <2>1
<1>11. CASE Stop
  BY <1>11 DEF Stop, OrdersHold
<1> QED
  BY <1>2, <1>3, <1>4, <1>5, <1>6, <1>7, <1>8, <1>9, <1>10, <1>11 DEF Next, Apart

\* Who writes the file sets noted to FALSE, and who notes the mtime hides what is unread.
LEMMA EditsStep ==
  ASSUME TypeInv, EditsKnown, [Next]_vars
  PROVE  EditsKnown'
<1> USE DEF store, bounds, listHistory
<1> SUFFICES ASSUME up'
             PROVE  /\ ~crossed' => \A j \in Jobs : Coming(j)' = file'[j] \/ j \in hidden' \cup unread'
                    /\ noted' /\ at'["watcher"] \notin {"loading", "ended"} => unread' \subseteq hidden'
  BY DEF EditsKnown
<1>1. CASE /\ UNCHANGED <<file, mem, loaded, unread, crossed, up>>
           /\ \/ hidden' = hidden /\ noted' = noted
              \/ Note
           /\ \/ at'["watcher"] = at["watcher"]
              \/ /\ at["watcher"] \notin {"read", "loading", "ended"} /\ at'["watcher"] # "read"
  <2>1. \A j \in Jobs : Coming(j)' = Coming(j)
    BY <1>1 DEF Coming
  <2>2. hidden \cup unread \subseteq hidden' \cup unread'
    BY <1>1 DEF Note
  <2>3. noted' /\ at'["watcher"] \notin {"loading", "ended"} => unread' \subseteq hidden'
    BY <1>1 DEF Note, EditsKnown
  <2> QED
    BY <1>1, <2>1, <2>2, <2>3 DEF EditsKnown
<1>2. CASE Apart
  BY <1>1, <1>2, ApartKeeps
<1>3. ASSUME Save(mem'), loaded' = loaded, at'["watcher"] = at["watcher"]
      PROVE  /\ ~crossed' => \A j \in Jobs : Coming(j)' = file'[j] \/ j \in hidden' \cup unread'
             /\ noted' /\ at'["watcher"] \notin {"loading", "ended"} => unread' \subseteq hidden'
  BY <1>3 DEF Save, Coming
<1>4. ASSUME NEW t \in Ids, Delivered(t) \/ Refused(t)
      PROVE  /\ ~crossed' => \A j \in Jobs : Coming(j)' = file'[j] \/ j \in hidden' \cup unread'
             /\ noted' /\ at'["watcher"] \notin {"loading", "ended"} => unread' \subseteq hidden'
  <2>1. UNCHANGED <<mem, loaded, at, up>> /\ SaveStatus(t[1])
    BY <1>4 DEF Delivered, Refused
  <2>2. CASE UNCHANGED <<file, noted, unread, hidden, crossed>>
    BY <1>1, <2>1, <2>2
  <2>3. CASE Save(mem)
    BY <1>3, <2>1, <2>3
  <2> QED
    BY <2>1, <2>2, <2>3 DEF SaveStatus
<1>5. ASSUME NEW t \in Ids, Noted(t)
      PROVE  /\ ~crossed' => \A j \in Jobs : Coming(j)' = file'[j] \/ j \in hidden' \cup unread'
             /\ noted' /\ at'["watcher"] \notin {"loading", "ended"} => unread' \subseteq hidden'
  BY <1>1, <1>5 DEF Noted
<1>6. ASSUME NEW k \in Jobs, Edit(k)
      PROVE  /\ ~crossed' => \A j \in Jobs : Coming(j)' = file'[j] \/ j \in hidden' \cup unread'
             /\ noted' /\ at'["watcher"] \notin {"loading", "ended"} => unread' \subseteq hidden'
  <2>1. /\ UNCHANGED <<mem, loaded, at, up, hidden, crossed>> /\ noted' = FALSE
        /\ unread' = unread \cup {k} /\ \A j \in Jobs \ {k} : file'[j] = file[j]
    BY <1>6 DEF Edit, TypeInv
  <2>2. \A j \in Jobs : Coming(j)' = Coming(j)
    BY <2>1 DEF Coming
  <2> QED
    BY <2>1, <2>2 DEF EditsKnown
<1>7. CASE Toggle
  <2>1. Save(mem') /\ loaded' = loaded /\ at'["watcher"] = at["watcher"]
    BY <1>7 DEF Toggle, Requested, TypeInv, Parties
  <2> QED
    BY <1>3, <2>1
<1>8. CASE Poll
  <2>1. /\ UNCHANGED <<file, mem, loaded, unread, hidden, crossed, up>>
        /\ at["watcher"] = "idle" /\ at'["watcher"] = "loading"
    BY <1>8 DEF Poll, Step, TypeInv, Parties
  <2> QED
    BY <2>1 DEF EditsKnown, Coming
<1>9. CASE Read
  <2>1. /\ loaded' = file /\ file' = file /\ unread' = {} /\ at'["watcher"] = "read"
    BY <1>9 DEF Read, Step, TypeInv, Parties
  <2> QED
    BY <2>1 DEF Coming
<1>10. CASE Replace
  <2>1. /\ mem' = loaded /\ UNCHANGED <<file, noted, unread, hidden, crossed, up>>
        /\ at["watcher"] = "read" /\ at'["watcher"] = "ready"
    BY <1>10 DEF Replace, Step, TypeInv, Parties
  <2> QED
    BY <2>1 DEF EditsKnown, Coming
<1>11. CASE WatcherFails
  <2>1. /\ UNCHANGED <<file, mem, loaded, noted, unread, hidden, crossed, up>>
        /\ at["watcher"] = "loading" /\ at'["watcher"] = "ended"
    BY <1>11 DEF WatcherFails, Step, TypeInv, Parties
  <2> QED
    BY <2>1 DEF EditsKnown, Coming
<1>12. CASE RequestNotes
  <2>1. at'["watcher"] = at["watcher"]
    BY <1>12 DEF RequestNotes, Step, TypeInv
  <2> QED
    BY <1>1, <1>12, <2>1 DEF RequestNotes
<1>13. ASSUME NEW w \in Parties, Begin(w) \/ Finish(w)
       PROVE  /\ ~crossed' => \A j \in Jobs : Coming(j)' = file'[j] \/ j \in hidden' \cup unread'
              /\ noted' /\ at'["watcher"] \notin {"loading", "ended"} => unread' \subseteq hidden'
  <2>1. \/ at'["watcher"] = at["watcher"]
        \/ at["watcher"] \notin {"read", "loading", "ended"} /\ at'["watcher"] # "read"
    BY <1>13 DEF Begin, Finish, Step, TypeInv, Parties
  <2>2. /\ UNCHANGED <<file, mem, loaded, unread, crossed, up>>
        /\ \/ hidden' = hidden /\ noted' = noted
           \/ Note
    BY <1>13 DEF Begin, Finish
  <2> QED
    BY <1>1, <2>1, <2>2
<1>14. CASE Stop
  BY <1>14 DEF Stop
<1> QED
  BY <1>2, <1>4, <1>5, <1>6, <1>7, <1>8, <1>9, <1>10, <1>11, <1>12, <1>13, <1>14 DEF Next, Apart

-----------------------------------------------------------------------------
(* The invariant.                                                            *)

LEMMA CronInit == ASSUME CronAssumption, Init PROVE CronInv
<1>1. PICK p \in Plans :
        task = [t \in Ids |-> IF t[1] \in Jobs /\ t[2] = 1
                              THEN [plan |-> p, at |-> "sleeping", dep |-> NoDep] ELSE NoTask]
  BY DEF Init
<1>2. \A t \in Ids : /\ t[1] \in Jobs /\ t[2] = 1 => task[t].at = "sleeping"
                     /\ ~(t[1] \in Jobs /\ t[2] = 1) => task[t].at = "free"
  BY <1>1 DEF NoTask
<1>3. /\ table = [j \in Jobs |-> 1] /\ executing = {} /\ ahead = [t \in Ids |-> {}]
      /\ at = [w \in Parties |-> "idle"] /\ up = TRUE
  BY DEF Init
<1>4. TypeInv
  BY TypeInit
<1>5. HooksWait
  BY <1>2, IdShape DEF HooksWait
<1>6. DownIsIdle
  BY <1>3 DEF DownIsIdle
<1>7. TableIsTrue
  <2> SUFFICES ASSUME NEW j \in Jobs PROVE task[<<j, 1>>].at \notin {"free", "killed"}
    BY <1>3 DEF TableIsTrue
  <2>1. <<j, 1>> \in Ids
    BY IdShape DEF CronAssumption
  <2> QED
    BY <1>2, <2>1
<1>8. SinglesHold
  <2>1. \A j \in Jobs : Alone(task, table, executing, j)
    BY <1>2, <1>3 DEF Alone, Executes
  <2> QED
    BY <2>1, SingleIsAlone DEF SinglesHold
<1>9. LineInv
  BY <1>2, <1>3 DEF LineInv, InLine
<1>10. MarksHold
  BY <1>2 DEF MarksHold, Executes
<1>11. OrdersHold
  BY DEF Init, OrdersHold
<1>12. EditsKnown
  BY <1>3 DEF Init, EditsKnown, Coming, Parties
<1> QED
  BY <1>4, <1>5, <1>6, <1>7, <1>8, <1>9, <1>10, <1>11, <1>12 DEF CronInv

\* CronInv holds in every state of the observer.
THEOREM CronAlways == Spec => []CronInv
<1>1. Init => CronInv
  BY CronAssumption, CronInit
<1>2. CronInv /\ [Next]_vars => CronInv'
  BY CronAssumption, TypeStep, HooksStep, DownStep, TableStep, SinglesStep, LineStep,
     MarksStep, OrdersStep, EditsStep DEF CronInv
<1> QED
  BY <1>1, <1>2, PTL DEF Spec

\* What is cancelled when a reschedule begins or finishes has no mark: if it executes, it
\* is bared; what is cancelled when a task ends is bared by that end.
LEMMA SurvivalStep ==
  ASSUME CronAssumption, CronInv, ExecutionsSurvive, [Next]_vars
  PROVE  ExecutionsSurvive'
<1> USE DEF CronInv
<1>1. CASE \/ UNCHANGED <<task, table, executing, up, doubled, bared, cut, unscheduled>>
           \/ \E t \in Ids : Advances(t) \/ HookStep(t) \/ Died(t)
           \/ Stop
  BY <1>1 DEF Advances, HookStep, Died, Stop, ExecutionsSurvive
<1>2. ASSUME NEW t \in Ids, Ends(t) PROVE ExecutionsSurvive'
  <2>1. ASSUME NEW u \in CutAmong(Dropped(t), bared \cup Beside(t)) PROVE FALSE
    <3>1. u \in Dropped(t) /\ Executes(task[u].at) /\ u \notin Beside(t) /\ t[1] \in Jobs
      BY <1>2, <2>1 DEF CutAmong, Ends
    <3>2. u = <<t[1], table[t[1]]>> /\ u # t /\ table[t[1]] # 0
      BY <3>1 DEF Dropped, Replaced
    <3>3. u \in Ids
      BY <3>1, <3>2, IdShape DEF TypeInv, CronAssumption
    <3> QED
      BY <3>1, <3>2, <3>3 DEF Beside
  <2>2. cut' = cut \cup CutAmong(Dropped(t), bared \cup Beside(t))
    BY <1>2, LeaveEffect DEF Ends
  <2> QED
    BY <2>1, <2>2 DEF ExecutionsSurvive
<1>3. ASSUME NEW T, \A u \in T : u \in Ids /\ Idling(u), up, cut' = cut \cup CutAmong(T, bared)
      PROVE  ExecutionsSurvive'
  <2>1. ASSUME NEW u \in CutAmong(T, bared) PROVE FALSE
    <3>1. u \in Ids /\ u[1] \in Jobs \ executing /\ u \notin bared /\ Executes(task[u].at)
      BY <1>3, <2>1 DEF CutAmong, Idling
    <3> QED
      BY <1>3, <3>1 DEF MarksHold
  <2> QED
    BY <1>3, <2>1 DEF ExecutionsSurvive
<1>4. ASSUME NEW w \in Parties, Begin(w) PROVE ExecutionsSurvive'
  <2> DEFINE old == {<<j, table[j]>> : j \in {k \in Jobs \ executing : table[k] # 0}}
  <2>1. \A u \in old : u \in Ids /\ Idling(u)
    BY IdShape DEF Idling, TypeInv, CronAssumption
  <2>2. up
    BY <1>4 DEF DownIsIdle, Begin, Step
  <2>3. cut' = cut \cup CutAmong(old, bared)
    BY <1>4 DEF Begin
  <2> HIDE DEF old
  <2> QED
    BY <1>3, <2>1, <2>2, <2>3
<1>5. ASSUME NEW w \in Parties, Finish(w) PROVE ExecutionsSurvive'
  <2> DEFINE old == UNION {Replaced(j, executing) : j \in {k \in Jobs \ unscheduled' : Enabled(k)}}
  <2>1. \A u \in old : u \in Ids /\ Idling(u)
    BY IdShape DEF Replaced, Idling, TypeInv, CronAssumption
  <2>2. up
    BY <1>5 DEF DownIsIdle, Finish, Step
  <2>3. cut' = cut \cup CutAmong(old, bared)
    BY <1>5 DEF Finish
  <2> HIDE DEF old
  <2> QED
    BY <1>3, <2>1, <2>2, <2>3
<1> QED
  BY <1>1, <1>2, <1>4, <1>5, StepKinds

\* The list and the jobs with an older content change only in the course of a reschedule.
LEMMA MemKinds ==
  ASSUME TypeInv, [Next]_vars
  PROVE  \/ Rescheduling'
         \/ mem' = mem /\ ~Rescheduling /\ outdated \subseteq outdated'
         \/ \E w \in Parties : Finish(w)
         \/ Stop
<1> USE DEF vars, store, runs, bounds, runHistory, listHistory, Rescheduling
<1>1. ASSUME NEW w \in Parties, NEW from, NEW to, Step(w, from, to), to \in {"ready", "cancelling"}
      PROVE  Rescheduling'
  BY <1>1 DEF Step, Parties, TypeInv
<1>2. ASSUME NEW w \in Parties, Begin(w) PROVE Rescheduling'
  BY <1>1, <1>2 DEF Begin
<1>3. CASE Replace \/ RequestNotes
  BY <1>1, <1>3 DEF Replace, RequestNotes, Parties
<1>4. CASE Poll \/ Read \/ WatcherFails
  <2>1. /\ mem' = mem /\ outdated' = outdated /\ at'["request"] = at["request"]
        /\ at["watcher"] \in {"idle", "loading"}
    BY <1>4 DEF Poll, Read, WatcherFails, Step, TypeInv, Parties
  <2> QED
    BY <2>1
<1>5. CASE Toggle
  <2>1. at'["request"] # "idle"
    BY <1>5 DEF Toggle, Requested, Parties, TypeInv
  <2> QED
    BY <2>1
<1>6. ASSUME UNCHANGED <<mem, at>>, outdated \subseteq outdated'
      PROVE  Rescheduling' \/ (mem' = mem /\ ~Rescheduling /\ outdated \subseteq outdated')
  BY <1>6
<1>7. ASSUME NEW t \in Ids, Leave(t) PROVE outdated \subseteq outdated'
  BY <1>7, LeaveEffect
<1>8. ASSUME NEW t \in Ids,
             \/ Fire(t) \/ Skip(t) \/ Routed(t) \/ Turn(t) \/ Finished(t) \/ Delivered(t)
             \/ Noted(t) \/ Refused(t) \/ Died(t) \/ HookArrives(t) \/ HookFinished(t)
      PROVE  UNCHANGED <<mem, at>> /\ outdated \subseteq outdated'
  BY <1>7, <1>8 DEF Fire, Skip, Routed, Turn, Finished, Delivered, Noted, Refused, Died,
                    HookArrives, HookFinished
<1>9. CASE UNCHANGED vars \/ \E j \in Jobs : Edit(j)
  BY <1>6, <1>9 DEF Edit
<1> QED
  BY <1>2, <1>3, <1>4, <1>5, <1>6, <1>8, <1>9 DEF Next

\* The first half of EnabledIsScheduled.
Slotted(j) ==
  /\ table[j] # 0
  /\ \/ task[<<j, table[j]>>].plan = mem[j].plan
     \/ Executes(task[<<j, table[j]>>].at) \/ j \in outdated
Slots == up /\ ~Rescheduling => \A j \in Jobs \ unscheduled : Enabled(j) => Slotted(j)

LEMMA ScheduleStep ==
  ASSUME CronAssumption, CronInv, Slots, [Next]_vars
  PROVE  Slots'
<1> USE DEF CronInv, Slotted
<1> SUFFICES ASSUME up', ~Rescheduling', NEW j \in Jobs, j \notin unscheduled', Enabled(j)'
             PROVE  Slotted(j)'
  BY DEF Slots
<1> DEFINE id == <<j, table[j]>>
<1>1. ASSUME NEW w \in Parties, Finish(w) PROVE Slotted(j)'
  <2>1. mem' = mem /\ Due(j)
    BY <1>1 DEF Finish, Enabled, Due
  <2>2. \A k \in Jobs : Due(k) => table'[k] \in 1..MaxTasks
    BY <1>1, FinishEffect
  <2>3. \A u \in Ids : IF u[1] \in Jobs /\ Due(u[1]) /\ u[2] = table'[u[1]]
              THEN task'[u] = [plan |-> mem[u[1]].plan, at |-> "sleeping", dep |-> NoDep]
              ELSE task'[u] = Replacing[u]
    BY <1>1, FinishEffect
  <2> DEFINE new == <<j, table'[j]>>
  <2>4. new \in Ids /\ new[1] = j /\ new[2] = table'[j]
    BY <2>1, <2>2, IdShape
  <2> HIDE DEF new
  <2>5. task'[new] = [plan |-> mem[j].plan, at |-> "sleeping", dep |-> NoDep]
    BY <2>1, <2>3, <2>4
  <2>6. table'[j] # 0
    BY <2>1, <2>2
  <2> QED
    BY <2>1, <2>5, <2>6 DEF new
<1>2. CASE mem' = mem /\ ~Rescheduling /\ outdated \subseteq outdated'
  <2>1. Enabled(j)
    BY <1>2 DEF Enabled
  <2>2. up /\ j \notin unscheduled => Slotted(j)
    BY <1>2, <2>1 DEF Slots
  <2>3. ASSUME up, j \notin unscheduled, table'[j] = table[j],
               \/ task'[id] = task[id]
               \/ task'[id].plan = task[id].plan /\ Executes(task'[id].at)
        PROVE  Slotted(j)'
    BY <1>2, <2>2, <2>3
  <2>4. up /\ j \notin unscheduled => id \in Ids /\ id[1] = j /\ id[2] = table[j] /\ task[id].at \notin {"free", "killed"}
    BY <2>2, IdShape DEF TableIsTrue, TypeInv, CronAssumption
  <2> HIDE DEF id
  <2>5. CASE UNCHANGED <<task, table, executing, up, doubled, bared, cut, unscheduled>>
    BY <2>3, <2>5
  <2>6. ASSUME NEW t \in Ids, Advances(t) PROVE Slotted(j)'
    <3>1. up' = up /\ table' = table /\ unscheduled' = unscheduled
      BY <2>6 DEF Advances
    <3>2. \A u \in Ids \ {t} : task'[u] = task[u]
      BY <2>6 DEF Advances
    <3>3. task'[t].plan = task[t].plan /\ Executes(task'[t].at)
      BY <2>6 DEF Advances, Executes
    <3> QED
      BY <2>3, <2>4, <3>1, <3>2, <3>3
  <2>7. ASSUME NEW t \in Ids, HookStep(t) PROVE Slotted(j)'
    <3>1. /\ up' = up /\ table' = table /\ unscheduled' = unscheduled /\ t[1] # j
          /\ \A u \in Ids \ {t} : task'[u] = task[u]
      BY <2>7, IdShape DEF HookStep
    <3> QED
      BY <2>3, <2>4, <3>1
  <2>8. ASSUME NEW t \in Ids, Ends(t) PROVE Slotted(j)'
    <3>1. up' = up
      BY <2>8 DEF Ends
    <3>2. CASE t[1] = j
      <4>1. GoesOn(t)
        BY <2>1, <3>1, <3>2 DEF GoesOn
      <4>2. table'[j] \in 1..MaxTasks
        BY <2>8, <3>2, <4>1, EndEffect
      <4>3. \A u \in Ids : u[1] = t[1] =>
              IF u[2] = table'[t[1]] THEN task'[u] = [plan |-> task[t].plan, at |-> "sleeping", dep |-> NoDep]
                                     ELSE task'[u] = Remaining(t)[u]
        BY <2>8, <4>1, EndEffect
      <4>4. task'[<<j, table'[j]>>].plan = task[t].plan
        BY <3>2, <4>2, <4>3, IdShape
      <4>5. task[t].plan # mem[j].plan => j \in outdated'
        BY <2>8, <3>2, <4>1, LeaveEffect DEF Ends
      <4> QED
        BY <1>2, <4>2, <4>4, <4>5
    <3>3. CASE t[1] # j
      <4>0. j \notin unscheduled
        <5>1. unscheduled' \in {unscheduled, unscheduled \cup {t[1]}, unscheduled \ {t[1]}}
          BY <2>8, LeaveEffect DEF Ends
        <5> QED
          BY <3>3, <5>1
      <4>1. table'[j] = Pruned(table, Remaining(t))[j]
        BY <2>8, <3>3, EndEffect
      <4>2. \A v \in Ids : v[1] # t[1] => Remaining(t)[v] = task[v] /\ task'[v] = task[v]
        BY <2>8, EndEffect
      <4>3. task'[id] = task[id] /\ Remaining(t)[id] = task[id]
        BY <2>4, <3>1, <3>3, <4>0, <4>2
      <4>4. table'[j] = table[j]
        BY <2>4, <3>1, <4>0, <4>1, <4>3 DEF Pruned, id
      <4> QED
        BY <2>3, <3>1, <4>0, <4>3, <4>4
    <3> QED
      BY <3>2, <3>3
  <2>9. ASSUME NEW t \in Ids, Died(t) PROVE Slotted(j)'
    <3>1. /\ up' = up /\ table'[j] = Pruned(table, task')[j] /\ task[t].at = "killed"
          /\ unscheduled' = unscheduled
          /\ \A u \in Ids \ {t} : task'[u] = task[u]
      BY <2>9 DEF Died, End, TypeInv
    <3>2. task'[id] = task[id]
      BY <2>4, <3>1
    <3>3. table'[j] = table[j]
      BY <2>4, <3>1, <3>2 DEF Pruned, id
    <3> QED
      BY <2>3, <3>1, <3>2, <3>3
  <2>10. ASSUME NEW w \in Parties, Begin(w) PROVE FALSE
    BY <1>2, <2>10 DEF Begin, Step, Rescheduling, Parties
  <2>11. CASE Stop
    BY <2>11 DEF Stop
  <2> QED
    BY <1>1, <2>5, <2>6, <2>7, <2>8, <2>9, <2>10, <2>11, StepKinds
<1>3. CASE Stop
  BY <1>3 DEF Stop
<1> QED
  BY <1>1, <1>2, <1>3, MemKinds

-----------------------------------------------------------------------------
(* What the scheduler promises.                                              *)

\* The list, the tasks, the table and the parties of a reschedule keep their types.
THEOREM CronTypeCorrect == Spec => []TypeInv
<1>1. CronInv => TypeInv
  BY DEF CronInv
<1> QED
  BY <1>1, CronAlways, PTL

\* No job has two tasks, unless a reschedule found it executing.
THEOREM OneTaskPerJob == Spec => []OneTaskEach
<1>1. CronInv => OneTaskEach
  <2> SUFFICES ASSUME CronInv, up, NEW j \in Jobs \ doubled
               PROVE  Cardinality(Alive(task, j)) <= 1
    BY DEF OneTaskEach
  <2>1. \A i \in Alive(task, j) : table[j] = i
    BY DEF CronInv, SinglesHold, Single
  <2>2. Alive(task, j) = {} \/ Alive(task, j) = {table[j]}
    BY <2>1
  <2>3. Cardinality(Alive(task, j)) = 0 \/ Cardinality(Alive(task, j)) = 1
    BY <2>2, FS_EmptySet, FS_Singleton
  <2> QED
    BY <2>3
<1> QED
  BY <1>1, CronAlways, PTL

\* No reschedule cancels an execution, unless another task of the job has ended beside it
\* and taken its mark, and no other job ever does.
THEOREM NoExecutionIsCut == Spec => []ExecutionsSurvive
<1>1. Init => ExecutionsSurvive
  BY DEF Init, ExecutionsSurvive
<1>2. CronInv /\ ExecutionsSurvive /\ [Next]_vars => ExecutionsSurvive'
  BY CronAssumption, SurvivalStep
<1> QED
  BY <1>1, <1>2, CronAlways, PTL DEF Spec

\* Between reschedules an enabled job that can be scheduled has a task that runs what the
\* list says, and the list does what the last button said.
THEOREM EnabledJobsAreScheduled == Spec => []EnabledIsScheduled
<1>1. Init => Slots
  <2> SUFFICES ASSUME Init, NEW j \in Jobs
               PROVE  table[j] # 0 /\ task[<<j, table[j]>>].plan = mem[j].plan
    BY DEF Slots, Slotted
  <2>1. <<j, 1>> \in Ids
    BY CronAssumption, IdShape DEF CronAssumption
  <2>2. PICK p \in Plans :
          /\ mem[j].plan = p
          /\ task = [t \in Ids |-> IF t[1] \in Jobs /\ t[2] = 1
                                  THEN [plan |-> p, at |-> "sleeping", dep |-> NoDep] ELSE NoTask]
    BY DEF Init
  <2>3. table[j] = 1
    BY DEF Init
  <2>4. task[<<j, 1>>].plan = p
    BY <2>1, <2>2
  <2> QED
    BY <2>2, <2>3, <2>4
<1>2. CronInv /\ Slots /\ [Next]_vars => Slots'
  BY CronAssumption, ScheduleStep
<1>3. CronInv /\ Slots => EnabledIsScheduled
  BY DEF CronInv, OrdersHold, Obeys, Slots, Slotted, EnabledIsScheduled
<1> QED
  BY <1>1, <1>2, <1>3, CronAlways, PTL DEF Spec

\* No edit of the file is missed but those whose mtime the bot itself notes before the
\* watcher has come to them, or over which it writes while they are being loaded, as long
\* as no exception has ended the watcher.
THEOREM NoEditIsMissed == Spec => []EditsAreRead
<1>1. CronInv => EditsAreRead
  BY DEF CronInv, EditsKnown, Coming, EditsAreRead
<1> QED
  BY <1>1, CronAlways, PTL

\* Of the tasks in front of one and that one itself, somebody has nobody in front: a
\* task with the fewest in front of it.
LEMMA SomebodyIsFirst ==
  ASSUME CronAssumption, CronInv, NEW t \in Ids
  PROVE  \E u \in ahead[t] \cup {t} : ahead[u] = {}
<1> DEFINE Crowd == ahead[t] \cup {t}
           Counts == {Cardinality(ahead[u]) : u \in Crowd}
           R == {p \in Nat \X Nat : p[1] < p[2]}
<1>1. Crowd \subseteq Ids /\ \A u \in Crowd : ahead[u] \subseteq Crowd
  <2>1. ahead[t] \subseteq Ids
    BY DEF CronInv, TypeInv
  <2>2. \A u \in ahead[t] : ahead[u] \subseteq ahead[t]
    BY DEF CronInv, LineInv
  <2>3. Crowd \subseteq Ids
    BY <2>1
  <2>4. ASSUME NEW u \in Crowd PROVE ahead[u] \subseteq Crowd
    <3>1. CASE u = t
      BY <3>1
    <3>2. CASE u \in ahead[t]
      BY <2>2, <3>2
    <3> QED
      BY <2>4, <3>1, <3>2
  <2> QED
    BY <2>3, <2>4
<1>2. IsFiniteSet(Ids)
  <2>1. IsFiniteSet(1..MaxTasks) /\ IsFiniteSet({1})
    <3>1. 1 \in Int /\ MaxTasks \in Int
      BY DEF CronAssumption
    <3>2. IsFiniteSet(1..MaxTasks)
      BY ONLY <3>1, FS_Interval
    <3>3. IsFiniteSet({1})
      BY FS_Singleton
    <3> QED
      BY <3>2, <3>3
  <2>2. IsFiniteSet(Jobs \X (1..MaxTasks)) /\ IsFiniteSet(Hooks \X {1})
    BY <2>1, FS_Product DEF CronAssumption
  <2> QED
    BY <2>2, FS_Union DEF Ids
<1>3. \A u \in Ids : IsFiniteSet(ahead[u]) /\ Cardinality(ahead[u]) \in Nat
  BY <1>2, FS_Subset, FS_CardinalityType DEF CronInv, TypeInv
<1>4. Counts \subseteq Nat /\ Counts # {}
  BY <1>1, <1>3
<1>5. IsWellFoundedOn(R, Nat)
  <2>1. R = OpToRel(<, Nat)
    BY DEF OpToRel
  <2> QED
    BY <2>1, NatLessThanWellFounded
<1> HIDE DEF R, Counts
<1>6. PICK n \in Counts : \A m \in Counts : <<m, n>> \notin R
  BY <1>4, <1>5, WFMin
<1>7. \A m \in Counts : ~(m < n)
  BY <1>4, <1>6 DEF R
<1>8. PICK u \in Crowd : n = Cardinality(ahead[u])
  BY <1>6 DEF Counts
<1>9. ASSUME NEW v \in ahead[u] PROVE FALSE
  <2>1. v \in Crowd /\ v \in Ids /\ u \in Ids
    BY <1>1, <1>8, <1>9
  <2>2. ahead[v] \subseteq ahead[u] /\ ahead[v] # ahead[u]
    BY <1>9, <2>1 DEF CronInv, LineInv
  <2>3. Cardinality(ahead[v]) < Cardinality(ahead[u])
    <3>1. IsFiniteSet(ahead[u]) /\ Cardinality(ahead[u]) \in Nat /\ Cardinality(ahead[v]) \in Nat
      BY <1>3, <2>1
    <3>2. /\ Cardinality(ahead[v]) <= Cardinality(ahead[u])
          /\ Cardinality(ahead[u]) = Cardinality(ahead[v]) => ahead[u] = ahead[v]
      BY <2>2, <3>1, FS_Subset
    <3> QED
      BY <2>2, <3>1, <3>2
  <2> QED
    BY <1>7, <1>8, <2>1, <2>3 DEF Counts
<1> QED
  BY <1>8, <1>9

\* Jobs and webhooks with the same dependency run one at a time, a waiter waits only
\* for those who are in line, and the line never jams.
THEOREM DependencyIsExclusive == Spec => []LineIsServed
<1>1. CronInv => LineIsServed
  <2> SUFFICES ASSUME CronInv PROVE LineIsServed
    OBVIOUS
  <2>1. ASSUME NEW t \in Ids, NEW u \in Ids, SameDep(t, u), t # u,
               task[t].at \in {"running", "killed"}, task[u].at \in {"running", "killed"}
        PROVE  FALSE
    <3>1. u \in ahead[t] \/ t \in ahead[u]
      BY <2>1 DEF CronInv, LineInv, InLine
    <3>2. task[t].at = "waiting" \/ task[u].at = "waiting"
      BY <3>1 DEF CronInv, LineInv
    <3> QED
      BY <2>1, <3>2
  <2>2. \A t \in Ids : \E u \in ahead[t] \cup {t} : ahead[u] = {}
    BY CronAssumption, SomebodyIsFirst
  <2> QED
    BY <2>1, <2>2 DEF LineIsServed, SameDep, CronInv, LineInv
<1> QED
  BY <1>1, CronAlways, PTL
=============================================================================
