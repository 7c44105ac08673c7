------------------------------- MODULE TaskHub -------------------------------
(***************************************************************************)
(* Background tasks (tasks/hub.py, tasks/registry.py): tasks are submitted  *)
(* and resumed through a router that is awaited, each (re)start spawns a    *)
(* run, which is an asyncio task that executes the CLI and delivers the     *)
(* outcome to the parent agent; cancel calls, agent questions, deletions,   *)
(* the shutdown of the hub and a crash of the process interleave with them. *)
(*                                                                          *)
(* The registry is persisted on every update, so after a crash it is what   *)
(* it was in memory; everything else here is lost.  The provider of a task  *)
(* is pinned by the router before the first run, which is why the guard of  *)
(* resume() on a recorded provider does not appear.                         *)
(*                                                                          *)
(* A result that is injected into the parent's session takes the lock of    *)
(* that session (bus.submit, adapters.from_task_result), which the parent's *)
(* own turns take, too; and the CLI of such a turn may be the one that      *)
(* calls POST /tasks/cancel, holding the lock while it waits for the answer.*)
(***************************************************************************)
EXTENDS Integers, FiniteSets

CONSTANTS
  Tasks,        \* task ids
  ChatOf,       \* the chat a task is submitted from
  Interactive,  \* tasks with priority "interactive": no concurrency cap
  Losable,      \* tasks whose folder may be removed from outside
  MaxParallel,  \* config.tasks.max_parallel
  Resumers,     \* POST /tasks/resume requests
  ResumeOf,     \* the task each of them names
  Cancellers,   \* cancel() and cancel_all() calls
  AimOf,        \* the tasks each of them is about
  CallerOf,     \* the chat whose turn makes the call through a tool; {}: a button
  TurnChats,    \* the chats in which the parent has turns of its own
  ShutsDown,    \* whether the supervisor ever stops the hub
  MaxRuns,      \* bound on spawned runs
  MaxCrashes    \* bound on crashes of the process

NoRun == 0

ASSUME HubAssumption ==
  /\ IsFiniteSet(Tasks)
  /\ NoRun \notin Tasks
  /\ Interactive \subseteq Tasks
  /\ Losable \subseteq Tasks
  /\ ResumeOf \in [Resumers -> Tasks]
  /\ AimOf \in [Cancellers -> SUBSET Tasks]
  /\ CallerOf \in [Cancellers -> SUBSET TurnChats]
  /\ MaxParallel \in Nat \ {0}
  /\ ShutsDown \in BOOLEAN
  /\ MaxRuns \in Nat
  /\ MaxCrashes \in Nat

Runs == 1..MaxRuns
ChatsInUse == {ChatOf[t] : t \in Tasks}

VARIABLES
  status,      \* registry: the status of the entry of a task
  resumable,   \* registry: the tasks whose entry has a session id
  spawned,     \* how many runs there have been
  taskOf,      \* the task of a run
  pc,          \* where a run is suspended, or whether it ended
  outcome,     \* the status a run has given its task
  inflight,    \* _in_flight: the run whose handle is registered for a task
  flagged,     \* runs with has_pending_question in their handle
  cancelReq,   \* runs with a cancellation that they have not noticed
  sending,     \* runs whose final delivery is a task of its own, under way
  delivered,   \* runs whose result the parent's handler has taken
  turns,       \* chats whose session lock a turn of the parent holds
  injecting,   \* runs whose delivery holds the session lock of their chat
  submit,      \* the request that submits a task
  resume,      \* the requests that resume tasks
  cancelStage, \* the cancel calls
  target,      \* the runs a cancel call, once begun, is about
  hub,         \* shutdown()
  stopTarget,  \* the runs it waits for
  stopWait,    \* the deliveries it waits for
  crashes

registryVars == <<status, resumable>>
runVars == <<spawned, taskOf, pc, outcome, inflight, flagged, cancelReq>>
sessionVars == <<turns, injecting>>
deliveryVars == <<sending, delivered, sessionVars>>
requestVars == <<submit, resume, cancelStage, target>>
hubVars == <<hub, stopTarget, stopWait, crashes>>
vars == <<registryVars, runVars, deliveryVars, requestVars, hubVars>>

Finished == {"done", "failed", "cancelled"}
Resumable == Finished \cup {"waiting"}
Statuses == {"absent", "running", "deleted"} \cup Resumable

Executing == {"created", "executing"}
Live == Executing \cup {"delivering", "deliveringCancel", "deliveringFailure"}
PCs == {"none", "ended", "gone"} \cup Live

TypeOK ==
  /\ status \in [Tasks -> Statuses]
  /\ resumable \subseteq Tasks
  /\ spawned \in 0..MaxRuns
  /\ taskOf \in [Runs -> Tasks \cup {NoRun}]
  /\ pc \in [Runs -> PCs]
  /\ outcome \in [Runs -> Resumable \cup {"none", "aborted"}]
  /\ inflight \in [Tasks -> Runs \cup {NoRun}]
  /\ flagged \subseteq Runs
  /\ cancelReq \subseteq Runs
  /\ sending \subseteq Runs
  /\ delivered \subseteq Runs
  /\ turns \subseteq TurnChats
  /\ injecting \subseteq Runs
  /\ submit \in [Tasks -> {"new", "routing", "created", "rejected"}]
  /\ resume \in [Resumers -> {"new", "routing", "resumed", "refused"}]
  /\ cancelStage \in [Cancellers -> {"new", "killing", "awaiting", "accepted", "refused"}]
  /\ target \in [Cancellers -> SUBSET Runs]
  /\ hub \in {"up", "stopping", "draining", "stopped"}
  /\ stopTarget \subseteq Runs
  /\ stopWait \subseteq Runs
  /\ crashes \in 0..MaxCrashes

Init ==
  /\ status = [t \in Tasks |-> "absent"]
  /\ resumable = {}
  /\ spawned = 0
  /\ taskOf = [r \in Runs |-> NoRun]
  /\ pc = [r \in Runs |-> "none"]
  /\ outcome = [r \in Runs |-> "none"]
  /\ inflight = [t \in Tasks |-> NoRun]
  /\ flagged = {}
  /\ cancelReq = {}
  /\ sending = {}
  /\ delivered = {}
  /\ turns = {}
  /\ injecting = {}
  /\ submit = [t \in Tasks |-> "new"]
  /\ resume = [q \in Resumers |-> "new"]
  /\ cancelStage = [c \in Cancellers |-> "new"]
  /\ target = [c \in Cancellers |-> {}]
  /\ hub = "up"
  /\ stopTarget = {}
  /\ stopWait = {}
  /\ crashes = 0

-----------------------------------------------------------------------------
(* The registry and the in-flight handles.                                 *)

\* Mutant of UpdateStatus: an entry that is gone comes back.
UpdateStatusAnyway(t, s) == status' = [status EXCEPT ![t] = s]

\* update_status does nothing if the entry is gone.
UpdateStatus(t, s) ==
  status' = IF status[t] = "deleted" THEN status ELSE [status EXCEPT ![t] = s]

\* The handle of a task, unless it has none or its asyncio task is done.
ActiveRuns(ts) == {inflight[t] : t \in {u \in ts : inflight[u] # NoRun}}
                    \cap {r \in Runs : pc[r] \in Live}

\* The capped tasks of a chat that have such a handle.
Load(c) ==
  Cardinality({t \in Tasks \ Interactive : ChatOf[t] = c /\ ActiveRuns({t}) # {}})

HasCapacity(t) == t \in Interactive \/ Load(ChatOf[t]) < MaxParallel

\* _spawn: a new asyncio task, which has not run yet, and its handle.
Spawn(t) ==
  /\ spawned < MaxRuns
  /\ spawned' = spawned + 1
  /\ taskOf' = [taskOf EXCEPT ![spawned + 1] = t]
  /\ pc' = [pc EXCEPT ![spawned + 1] = "created"]
  /\ inflight' = [inflight EXCEPT ![t] = spawned + 1]
  /\ UNCHANGED <<outcome, flagged, cancelReq>>

ServerUp == hub # "stopped"

-----------------------------------------------------------------------------
(* submit_routed.  One request per chat is past the routing lock.          *)

SubmitBegin(t) ==
  /\ ServerUp
  /\ submit[t] = "new"
  /\ \A u \in Tasks : ChatOf[u] = ChatOf[t] => submit[u] # "routing"
  /\ submit' = [submit EXCEPT ![t] = IF HasCapacity(t) THEN "routing" ELSE "rejected"]
  /\ UNCHANGED <<registryVars, runVars, deliveryVars, resume, cancelStage, target, hubVars>>

\* The route handler raised.
SubmitRouteFails(t) ==
  /\ submit[t] = "routing"
  /\ submit' = [submit EXCEPT ![t] = "rejected"]
  /\ UNCHANGED <<registryVars, runVars, deliveryVars, resume, cancelStage, target, hubVars>>

\* The route handler returned: submit() checks the capacity again.
SubmitEnd(t) ==
  /\ submit[t] = "routing"
  /\ IF HasCapacity(t)
     THEN /\ submit' = [submit EXCEPT ![t] = "created"]
          /\ status' = [status EXCEPT ![t] = "running"]
          /\ Spawn(t)
     ELSE /\ submit' = [submit EXCEPT ![t] = "rejected"]
          /\ UNCHANGED <<status, runVars>>
  /\ UNCHANGED <<resumable, deliveryVars, resume, cancelStage, target, hubVars>>

-----------------------------------------------------------------------------
(* resume_routed.  One request per task is past the routing lock.          *)

MayResume(t) ==
  /\ status[t] \in Resumable
  /\ t \in resumable
  /\ ActiveRuns({t}) = {}

ResumeBegin(q) ==
  /\ ServerUp
  /\ resume[q] = "new"
  /\ \A p \in Resumers : ResumeOf[p] = ResumeOf[q] => resume[p] # "routing"
  /\ resume' = [resume EXCEPT ![q] = IF MayResume(ResumeOf[q]) THEN "routing" ELSE "refused"]
  /\ UNCHANGED <<registryVars, runVars, deliveryVars, submit, cancelStage, target, hubVars>>

\* The route handler raised, or answered with another provider or model.
ResumeRouteFails(q) ==
  /\ resume[q] = "routing"
  /\ resume' = [resume EXCEPT ![q] = "refused"]
  /\ UNCHANGED <<registryVars, runVars, deliveryVars, submit, cancelStage, target, hubVars>>

\* The route handler returned: resume() checks everything but the capacity.
ResumeEnd(q) ==
  LET t == ResumeOf[q] IN
  /\ resume[q] = "routing"
  /\ IF MayResume(t)
     THEN /\ resume' = [resume EXCEPT ![q] = "resumed"]
          /\ UpdateStatus(t, "running")
          /\ Spawn(t)
     ELSE /\ resume' = [resume EXCEPT ![q] = "refused"]
          /\ UNCHANGED <<status, runVars>>
  /\ UNCHANGED <<resumable, deliveryVars, submit, cancelStage, target, hubVars>>

-----------------------------------------------------------------------------
(* A run: _run, from its first step to its done callback.                  *)

RunStep(r, from, to) ==
  /\ pc[r] = from
  /\ pc' = [pc EXCEPT ![r] = to]
  /\ UNCHANGED <<spawned, taskOf, inflight, flagged>>

Start(r) ==
  /\ r \notin cancelReq
  /\ RunStep(r, "created", "executing")
  /\ UNCHANGED <<registryVars, outcome, cancelReq, deliveryVars, requestVars, hubVars>>

\* Cancelled before its first step: the body, with its try, is never entered.
Abort(r) ==
  /\ r \in cancelReq
  /\ RunStep(r, "created", "ended")
  /\ outcome' = [outcome EXCEPT ![r] = "aborted"]
  /\ UNCHANGED <<registryVars, cancelReq, deliveryVars, requestVars, hubVars>>

\* The run found a question in the handle that is registered for its task.
Asked(t) == inflight[t] \in flagged

\* The CLI answered: a success, an error or a timeout, or a process that was
\* killed.  The session id of the entry is that of the answer, if it has one.
Respond(r, s) ==
  LET t == taskOf[r] IN
  /\ r \notin cancelReq
  /\ RunStep(r, "executing", "delivering")
  /\ s \in Resumable
  /\ s = "done" => ~Asked(t)
  /\ s = "waiting" => Asked(t)
  /\ UpdateStatus(t, s)
  /\ outcome' = [outcome EXCEPT ![r] = s]
  /\ \/ resumable' = IF status[t] = "deleted" THEN resumable ELSE resumable \cup {t}
     \/ resumable' = IF status[t] = "deleted" THEN resumable ELSE resumable \ {t}
  /\ sending' = sending \cup {r}
  /\ UNCHANGED <<cancelReq, delivered, sessionVars, requestVars, hubVars>>

\* Mutant of RunFails: the registry is not told.
RunFailsSilently(r) ==
  /\ r \notin cancelReq
  /\ RunStep(r, "executing", "deliveringFailure")
  /\ outcome' = [outcome EXCEPT ![r] = "failed"]
  /\ UNCHANGED <<registryVars, cancelReq, deliveryVars, requestVars, hubVars>>

\* Anything but an answer: except Exception.
RunFails(r) ==
  /\ r \notin cancelReq
  /\ RunStep(r, "executing", "deliveringFailure")
  /\ UpdateStatus(taskOf[r], "failed")
  /\ outcome' = [outcome EXCEPT ![r] = "failed"]
  /\ UNCHANGED <<resumable, cancelReq, deliveryVars, requestVars, hubVars>>

\* except CancelledError, before the final delivery has started.
CancelExecution(r) ==
  /\ r \in cancelReq
  /\ RunStep(r, "executing", "deliveringCancel")
  /\ UpdateStatus(taskOf[r], "cancelled")
  /\ outcome' = [outcome EXCEPT ![r] = "cancelled"]
  /\ cancelReq' = cancelReq \ {r}
  /\ UNCHANGED <<resumable, deliveryVars, requestVars, hubVars>>

ChatOfRun(r) == ChatOf[taskOf[r]]

\* The session lock of a chat is held.
Occupied(c) == c \in turns \/ \E r \in injecting : ChatOfRun(r) = c

\* Mutant of NeedsLock: the notice of a cancellation is injected as well.
NeedsLockAlways(r) == outcome[r] # "none"

\* A success or a failure is injected into the session of the parent; that the task
\* was cancelled or waits for an answer is a message to the user.
NeedsLock(r) == outcome[r] \in {"done", "failed"}

\* The delivery gets the session lock, and the parent's CLI is given the result.
Inject(r) ==
  /\ \/ r \in sending
     \/ pc[r] \in {"deliveringCancel", "deliveringFailure"} /\ r \notin cancelReq
  /\ NeedsLock(r)
  /\ r \notin injecting
  /\ ~Occupied(ChatOfRun(r))
  /\ injecting' = injecting \cup {r}
  /\ UNCHANGED <<registryVars, runVars, sending, delivered, turns, requestVars, hubVars>>

\* The final delivery, a task of its own, returned.
Deliver(r) ==
  /\ r \in sending
  /\ NeedsLock(r) => r \in injecting
  /\ sending' = sending \ {r}
  /\ delivered' = delivered \cup {r}
  /\ injecting' = injecting \ {r}
  /\ UNCHANGED <<registryVars, runVars, turns, requestVars, hubVars>>

\* Mutant of FinishDelivery: without the shield the delivery is cancelled, too.
FinishUnshielded(r) ==
  /\ r \notin sending \/ r \in cancelReq
  /\ RunStep(r, "delivering", "ended")
  /\ sending' = sending \ {r}
  /\ injecting' = injecting \ {r}
  /\ UNCHANGED <<registryVars, outcome, cancelReq, delivered, turns, requestVars, hubVars>>

\* The run goes on when its delivery is done, or stops waiting for it if it is
\* cancelled; the shield keeps the cancellation from the delivery.
FinishDelivery(r) ==
  /\ r \notin sending \/ r \in cancelReq
  /\ RunStep(r, "delivering", "ended")
  /\ UNCHANGED <<registryVars, outcome, cancelReq, deliveryVars, requestVars, hubVars>>

\* The handlers of an exception await the delivery without a shield: it is done,
\* or the run is cancelled (again) and the delivery with it, wherever that waits.
FinishInline(r) ==
  /\ r \in cancelReq \/ (NeedsLock(r) => r \in injecting)
  /\ \/ RunStep(r, "deliveringCancel", "ended")
     \/ RunStep(r, "deliveringFailure", "ended")
  /\ delivered' = IF r \in cancelReq THEN delivered ELSE delivered \cup {r}
  /\ injecting' = injecting \ {r}
  /\ UNCHANGED <<registryVars, outcome, cancelReq, sending, turns, requestVars, hubVars>>

\* The done callback pops whatever handle is registered for the task.
Callback(r) ==
  /\ pc[r] = "ended"
  /\ pc' = [pc EXCEPT ![r] = "gone"]
  /\ inflight' = [inflight EXCEPT ![taskOf[r]] = NoRun]
  /\ UNCHANGED <<registryVars, spawned, taskOf, outcome, flagged, cancelReq,
                 deliveryVars, requestVars, hubVars>>

-----------------------------------------------------------------------------
(* Questions, deletion, orphans.                                           *)

\* Mutant of Question: the question changes the status, as it once did.
QuestionWaits(t) ==
  /\ ServerUp
  /\ status[t] \notin {"absent", "deleted"}
  /\ inflight[t] # NoRun
  /\ flagged' = flagged \cup {inflight[t]}
  /\ status' = [status EXCEPT ![t] = "waiting"]
  /\ UNCHANGED <<resumable, spawned, taskOf, pc, outcome, inflight, cancelReq,
                 deliveryVars, requestVars, hubVars>>

\* forward_question, called by the agent of a run: the status stays, the handle
\* registered for the task is flagged.
Question(t) ==
  /\ ServerUp
  /\ status[t] \notin {"absent", "deleted"}
  /\ inflight[t] # NoRun
  /\ flagged' = flagged \cup {inflight[t]}
  /\ UNCHANGED <<registryVars, spawned, taskOf, pc, outcome, inflight, cancelReq,
                 deliveryVars, requestVars, hubVars>>

Forget(t) ==
  /\ status' = [status EXCEPT ![t] = "deleted"]
  /\ resumable' = resumable \ {t}
  /\ UNCHANGED <<runVars, deliveryVars, requestVars, hubVars>>

\* delete, cleanup_old, cleanup_finished: by status, whatever runs.
Delete(t) ==
  /\ ServerUp
  /\ status[t] \in Finished
  /\ Forget(t)

\* cleanup_orphans after somebody removed the folder of the task.
DropOrphan(t) ==
  /\ ServerUp
  /\ t \in Losable
  /\ status[t] \notin {"absent", "deleted"}
  /\ Forget(t)

-----------------------------------------------------------------------------
(* Turns of the parent: a message, a heartbeat or another result.          *)

TurnBegin(c) ==
  /\ ~Occupied(c)
  /\ turns' = turns \cup {c}
  /\ UNCHANGED <<registryVars, runVars, sending, delivered, injecting, requestVars, hubVars>>

\* The CLI of the turn answered, timed out or was killed.
TurnEnd(c) ==
  /\ c \in turns
  /\ turns' = turns \ {c}
  /\ UNCHANGED <<registryVars, runVars, sending, delivered, injecting, requestVars, hubVars>>

-----------------------------------------------------------------------------
(* cancel and cancel_all.                                                  *)

Pending(c) == cancelStage[c] \in {"killing", "awaiting"}

\* A CLI that works in the session of a chat waits for the answer of a cancel call.
Calling(ch) == \E c \in Cancellers : ch \in CallerOf[c] /\ Pending(c)

CancelBegin(c) ==
  /\ ServerUp
  /\ cancelStage[c] = "new"
  /\ \A ch \in CallerOf[c] : Occupied(ch)
  /\ target' = [target EXCEPT ![c] = ActiveRuns(AimOf[c])]
  /\ cancelStage' = [cancelStage EXCEPT ![c] =
                       IF ActiveRuns(AimOf[c]) = {} THEN "refused" ELSE "killing"]
  /\ UNCHANGED <<registryVars, runVars, deliveryVars, submit, resume, hubVars>>

\* kill_for_task has returned for every target; cancelling a task that is done
\* has no effect.
CancelSignal(c) ==
  /\ cancelStage[c] = "killing"
  /\ cancelReq' = cancelReq \cup {r \in target[c] : pc[r] \in Live}
  /\ cancelStage' = [cancelStage EXCEPT ![c] = "awaiting"]
  /\ UNCHANGED <<registryVars, spawned, taskOf, pc, outcome, inflight, flagged,
                 deliveryVars, submit, resume, target, hubVars>>

CancelReturn(c) ==
  /\ cancelStage[c] = "awaiting"
  /\ \A r \in target[c] : pc[r] \notin Live
  /\ cancelStage' = [cancelStage EXCEPT ![c] = "accepted"]
  /\ UNCHANGED <<registryVars, runVars, deliveryVars, submit, resume, target, hubVars>>

-----------------------------------------------------------------------------
(* shutdown, which the supervisor calls before it stops the internal API.  *)

StopBegin ==
  /\ ShutsDown
  /\ hub = "up"
  /\ hub' = "stopping"
  /\ stopTarget' = ActiveRuns(Tasks)
  /\ cancelReq' = cancelReq \cup ActiveRuns(Tasks)
  /\ UNCHANGED <<registryVars, spawned, taskOf, pc, outcome, inflight, flagged,
                 deliveryVars, requestVars, stopWait, crashes>>

\* The runs have ended: the handles are cleared, the deliveries awaited.
StopGathered ==
  /\ hub = "stopping"
  /\ \A r \in stopTarget : pc[r] \notin Live
  /\ hub' = "draining"
  /\ inflight' = [t \in Tasks |-> NoRun]
  /\ stopWait' = sending
  /\ UNCHANGED <<registryVars, spawned, taskOf, pc, outcome, flagged, cancelReq,
                 deliveryVars, requestVars, stopTarget, crashes>>

\* Mutant of StopEnd: every run that was cancelled is expected to deliver.
StopEndOnDelivery ==
  /\ hub = "draining"
  /\ stopTarget \subseteq delivered
  /\ hub' = "stopped"
  /\ UNCHANGED <<registryVars, runVars, deliveryVars, requestVars, stopTarget,
                 stopWait, crashes>>

StopEnd ==
  /\ hub = "draining"
  /\ stopWait \cap sending = {}
  /\ hub' = "stopped"
  /\ UNCHANGED <<registryVars, runVars, deliveryVars, requestVars, stopTarget,
                 stopWait, crashes>>

-----------------------------------------------------------------------------
(* A crash, and the start that follows it: _load downgrades "running".     *)

Crash ==
  /\ crashes < MaxCrashes
  /\ crashes' = crashes + 1
  /\ status' = [t \in Tasks |-> IF status[t] = "running" THEN "failed" ELSE status[t]]
  /\ pc' = [r \in Runs |-> IF pc[r] = "none" THEN "none" ELSE "gone"]
  /\ inflight' = [t \in Tasks |-> NoRun]
  /\ flagged' = {}
  /\ cancelReq' = {}
  /\ sending' = {}
  /\ turns' = {}
  /\ injecting' = {}
  /\ submit' = [t \in Tasks |-> IF submit[t] = "routing" THEN "rejected" ELSE submit[t]]
  /\ resume' = [q \in Resumers |-> IF resume[q] = "routing" THEN "refused" ELSE resume[q]]
  /\ cancelStage' = [c \in Cancellers |-> IF cancelStage[c] \in {"killing", "awaiting"}
                                          THEN "refused" ELSE cancelStage[c]]
  /\ hub' = "up"
  /\ stopTarget' = {}
  /\ stopWait' = {}
  /\ UNCHANGED <<resumable, spawned, taskOf, outcome, delivered, target>>

-----------------------------------------------------------------------------

SystemStep(r) ==
  \/ Start(r)
  \/ Abort(r)
  \/ \E s \in Resumable : Respond(r, s)
  \/ RunFails(r)
  \/ CancelExecution(r)
  \/ Inject(r)
  \/ Deliver(r)
  \/ FinishDelivery(r)
  \/ FinishInline(r)
  \/ Callback(r)

Next ==
  \/ \E r \in Runs : SystemStep(r)
  \/ \E t \in Tasks :
       \/ SubmitBegin(t)
       \/ SubmitRouteFails(t)
       \/ SubmitEnd(t)
       \/ Question(t)
       \/ Delete(t)
       \/ DropOrphan(t)
  \/ \E q \in Resumers : ResumeBegin(q) \/ ResumeRouteFails(q) \/ ResumeEnd(q)
  \/ \E c \in TurnChats : TurnBegin(c) \/ TurnEnd(c)
  \/ \E c \in Cancellers : CancelBegin(c) \/ CancelSignal(c) \/ CancelReturn(c)
  \/ StopBegin
  \/ StopGathered
  \/ StopEnd
  \/ Crash

Spec == Init /\ [][Next]_vars

\* The CLI that a turn or a delivery has started in a session does not wait for a
\* cancel call of its own.
Free(ch) == ~Calling(ch)
FreeRun(r) == r \in injecting => Free(ChatOfRun(r))

\* The loop runs what is ready, kills of processes return within their grace period,
\* and a session lock is handed out in the order of the requests, so a delivery gets
\* it if it is free again and again.  A CLI answers within its timeout: but of the one
\* that has called cancel, nothing is assumed while the call has not returned.
Fairness ==
  /\ \A r \in Runs :
       /\ WF_vars(Start(r) \/ Abort(r))
       /\ WF_vars((\E s \in Resumable : Respond(r, s)) \/ RunFails(r) \/ CancelExecution(r))
       /\ SF_vars(Inject(r))
       /\ WF_vars(FreeRun(r) /\ Deliver(r))
       /\ WF_vars(FinishDelivery(r))
       /\ WF_vars((r \in cancelReq \/ FreeRun(r)) /\ FinishInline(r))
       /\ WF_vars(Callback(r))
  /\ \A c \in TurnChats : WF_vars(Free(c) /\ TurnEnd(c))
  /\ \A c \in Cancellers : WF_vars(CancelSignal(c)) /\ WF_vars(CancelReturn(c))
  /\ WF_vars(StopGathered) /\ WF_vars(StopEnd)

FairSpec == Spec /\ Fairness

-----------------------------------------------------------------------------
(* Properties.                                                             *)

ExecutingRuns(t) == {r \in Runs : taskOf[r] = t /\ pc[r] \in Executing}

\* No task is executed by two runs at a time (what the #158 check of resume()
\* is for), and while one executes it the entry, if it exists, says so.
OneExecution ==
  \A t \in Tasks :
    /\ \A r, s \in ExecutingRuns(t) : r = s
    /\ ExecutingRuns(t) # {} => status[t] \in {"running", "deleted"}

\* An entry says "running" only while a run executes the task, or its latest run
\* was cancelled before its first step: neither an outcome nor a restart of the
\* process leaves "running" behind.
RunningHasRun ==
  \A t \in Tasks :
    status[t] = "running" =>
      \/ ExecutingRuns(t) # {}
      \/ \E r \in Runs :
           /\ taskOf[r] = t /\ outcome[r] = "aborted"
           /\ \A s \in Runs : taskOf[s] = t => s <= r

\* Once a run has given its task an outcome, the parent is told: a final
\* delivery survives every cancellation of the run (asyncio.shield).
OutcomeDelivered ==
  \A r \in Runs : (pc[r] = "delivering" ~> (r \in delivered))

\* cancel() and cancel_all() return, also to the turn that holds the session lock in
\* which the cancelled run wants to deliver: the call waits for the run, the run must
\* not wait for the lock.
EveryCancelReturns ==
  \A c \in Cancellers :
    Pending(c) ~> cancelStage[c] = "accepted"

\* shutdown() returns: it waits for the deliveries, they for the locks of the sessions.
EveryStopEnds == hub = "stopping" ~> hub = "stopped"

ExecutingTasks == {taskOf[r] : r \in {s \in Runs : pc[s] \in Executing}}

\* The registry and the executions move as TaskLifecycle allows.
Lifecycle == INSTANCE TaskLifecycle WITH executing <- ExecutingTasks

LifecycleSpec == Lifecycle!Spec

=============================================================================
