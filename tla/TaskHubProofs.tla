--------------------------- MODULE TaskHubProofs ---------------------------
(***************************************************************************)
(* Theorems about TaskHub.  The invariants that make the argument:         *)
(*   - runs are numbered in the order in which they are spawned;           *)
(*   - a task has an entry from the moment submit() creates it, and no run *)
(*     before that;                                                        *)
(*   - a run that executes is the latest run of its task, and the entry of *)
(*     the task, unless deleted, says "running".                           *)
(* The last one is what keeps resume() from starting a second execution:   *)
(* the status alone refuses it, even when the done callback of an earlier  *)
(* run has removed the handle of the present one.                          *)
(***************************************************************************)
EXTENDS TaskHub, TLAPS

Spawned(r) == pc[r] # "none"

RunsNumbered ==
  \A r \in Runs :
    /\ Spawned(r) => r <= spawned /\ taskOf[r] \in Tasks
    /\ ~Spawned(r) => r > spawned /\ taskOf[r] = NoRun

EntryOnceSubmitted ==
  /\ \A t \in Tasks : status[t] = "absent" <=> submit[t] # "created"
  /\ \A r \in Runs : Spawned(r) => submit[taskOf[r]] = "created"

LatestExecutes ==
  \A r \in Runs :
    pc[r] \in Executing =>
      /\ status[taskOf[r]] \in {"running", "deleted"}
      /\ \A s \in Runs : taskOf[s] = taskOf[r] => s <= r

HubInv ==
  /\ TypeOK
  /\ RunsNumbered
  /\ EntryOnceSubmitted
  /\ LatestExecutes
  /\ RunningHasRun

-----------------------------------------------------------------------------

LEMMA HubInitial == ASSUME HubAssumption, Init PROVE HubInv
<1> USE HubAssumption DEF Init, Runs, NoRun
<1>1. TypeOK
  BY DEF TypeOK, PCs, Statuses
<1>2. RunsNumbered /\ EntryOnceSubmitted
  BY DEF RunsNumbered, EntryOnceSubmitted, Spawned
<1>3. LatestExecutes /\ RunningHasRun
  BY DEF LatestExecutes, RunningHasRun, Executing
<1> QED
  BY <1>1, <1>2, <1>3 DEF HubInv

\* Typing, one action at a time.
LEMMA HubTyping ==
  ASSUME HubAssumption, TypeOK, RunsNumbered, [Next]_vars
  PROVE  TypeOK'
<1> USE HubAssumption DEF TypeOK, Runs, NoRun, registryVars, runVars, deliveryVars,
                          sessionVars, requestVars, hubVars, Statuses, Resumable, Finished
<1>a. \A ts : ActiveRuns(ts) \subseteq Runs
  BY DEF ActiveRuns
<1>b. ASSUME NEW t, NEW s \in Statuses, UpdateStatus(t, s)
      PROVE  status' \in [Tasks -> Statuses]
  BY <1>b DEF UpdateStatus
<1>c. ASSUME NEW t \in Tasks, Spawn(t)
      PROVE  /\ spawned' \in 0..MaxRuns
             /\ taskOf' \in [Runs -> Tasks \cup {NoRun}]
             /\ pc' \in [Runs -> PCs]
             /\ inflight' \in [Tasks -> Runs \cup {NoRun}]
  BY <1>c DEF Spawn, PCs, Live, Executing
<1>d. ASSUME NEW r \in Runs, NEW from, NEW to \in PCs, RunStep(r, from, to)
      PROVE  pc' \in [Runs -> PCs]
  BY <1>d DEF RunStep
<1>e. /\ {"none", "created", "executing", "delivering", "deliveringCancel",
          "deliveringFailure", "ended", "gone"} = PCs
      /\ "running" \in Statuses /\ "failed" \in Statuses /\ "cancelled" \in Statuses
      /\ Resumable \subseteq Statuses
  BY DEF PCs, Live, Executing
<1>1. ASSUME NEW r \in Runs, Start(r) PROVE TypeOK'
  BY <1>1, <1>d, <1>e DEF Start, RunStep
<1>2. ASSUME NEW r \in Runs, Abort(r) PROVE TypeOK'
  BY <1>2, <1>d, <1>e DEF Abort, RunStep
<1>3. ASSUME NEW r \in Runs, NEW s \in Resumable, Respond(r, s) PROVE TypeOK'
  <2>1. status' \in [Tasks -> Statuses]
    BY <1>3, <1>b, <1>e DEF Respond
  <2>2. pc' \in [Runs -> PCs] /\ outcome' \in [Runs -> Resumable \cup {"none", "aborted"}]
    BY <1>3, <1>d, <1>e DEF Respond
  <2>3. resumable' \subseteq Tasks
    <3>1. taskOf[r] \in Tasks
      BY <1>3 DEF Respond, RunStep, RunsNumbered, Spawned
    <3> QED
      BY <1>3, <3>1 DEF Respond
  <2> QED
    BY <1>3, <2>1, <2>2, <2>3 DEF Respond, RunStep
<1>4. ASSUME NEW r \in Runs, RunFails(r) PROVE TypeOK'
  BY <1>4, <1>b, <1>d, <1>e DEF RunFails, RunStep
<1>5. ASSUME NEW r \in Runs, CancelExecution(r) PROVE TypeOK'
  BY <1>5, <1>b, <1>d, <1>e DEF CancelExecution, RunStep
<1>6. ASSUME NEW r \in Runs, Deliver(r) PROVE TypeOK'
  BY <1>6 DEF Deliver
<1>7. ASSUME NEW r \in Runs, FinishDelivery(r) PROVE TypeOK'
  BY <1>7, <1>d, <1>e DEF FinishDelivery, RunStep
<1>8. ASSUME NEW r \in Runs, FinishInline(r) PROVE TypeOK'
  BY <1>8, <1>d, <1>e DEF FinishInline, RunStep
<1>9. ASSUME NEW r \in Runs, Callback(r) PROVE TypeOK'
  BY <1>9, <1>e DEF Callback
<1>10. ASSUME NEW t \in Tasks, SubmitBegin(t) PROVE TypeOK'
  BY <1>10 DEF SubmitBegin
<1>11. ASSUME NEW t \in Tasks, SubmitRouteFails(t) PROVE TypeOK'
  BY <1>11 DEF SubmitRouteFails
<1>12. ASSUME NEW t \in Tasks, SubmitEnd(t) PROVE TypeOK'
  BY <1>12, <1>c DEF SubmitEnd, Spawn
<1>13. ASSUME NEW t \in Tasks, Question(t) PROVE TypeOK'
  BY <1>13 DEF Question
<1>14. ASSUME NEW t \in Tasks, Delete(t) PROVE TypeOK'
  BY <1>14 DEF Delete, Forget
<1>15. ASSUME NEW t \in Tasks, DropOrphan(t) PROVE TypeOK'
  BY <1>15 DEF DropOrphan, Forget
<1>16. ASSUME NEW q \in Resumers, ResumeBegin(q) PROVE TypeOK'
  BY <1>16 DEF ResumeBegin
<1>17. ASSUME NEW q \in Resumers, ResumeRouteFails(q) PROVE TypeOK'
  BY <1>17 DEF ResumeRouteFails
<1>18. ASSUME NEW q \in Resumers, ResumeEnd(q) PROVE TypeOK'
  <2>1. ResumeOf[q] \in Tasks
    OBVIOUS
  <2>2. CASE MayResume(ResumeOf[q])
    <3>1. UpdateStatus(ResumeOf[q], "running") /\ Spawn(ResumeOf[q])
      BY <1>18, <2>2 DEF ResumeEnd
    <3>2. status' \in [Tasks -> Statuses]
      BY <1>b, <1>e, <3>1
    <3> QED
      BY <1>18, <1>c, <2>1, <2>2, <3>1, <3>2 DEF ResumeEnd, Spawn
  <2>3. CASE ~MayResume(ResumeOf[q])
    BY <1>18, <2>3 DEF ResumeEnd
  <2> QED
    BY <2>2, <2>3
<1>19. ASSUME NEW k \in Cancellers, CancelBegin(k) PROVE TypeOK'
  BY <1>19, <1>a DEF CancelBegin
<1>20. ASSUME NEW k \in Cancellers, CancelSignal(k) PROVE TypeOK'
  BY <1>20 DEF CancelSignal
<1>21. ASSUME NEW k \in Cancellers, CancelReturn(k) PROVE TypeOK'
  BY <1>21 DEF CancelReturn
<1>22. ASSUME StopBegin PROVE TypeOK'
  BY <1>22, <1>a DEF StopBegin
<1>23. ASSUME StopGathered PROVE TypeOK'
  BY <1>23 DEF StopGathered
<1>24. ASSUME StopEnd PROVE TypeOK'
  BY <1>24 DEF StopEnd
<1>25. ASSUME Crash PROVE TypeOK'
  BY <1>25, <1>e DEF Crash
<1>26. CASE UNCHANGED vars
  BY <1>26 DEF vars
<1>27. ASSUME NEW r \in Runs, Inject(r) PROVE TypeOK'
  BY <1>27 DEF Inject
<1>28. ASSUME NEW ch \in TurnChats, TurnBegin(ch) PROVE TypeOK'
  BY <1>28 DEF TurnBegin
<1>29. ASSUME NEW ch \in TurnChats, TurnEnd(ch) PROVE TypeOK'
  BY <1>29 DEF TurnEnd
<1> QED
  BY <1>1, <1>2, <1>3, <1>4, <1>5, <1>6, <1>7, <1>8, <1>9, <1>10, <1>11, <1>12, <1>13, <1>14, <1>15, <1>16, <1>17, <1>18, <1>19, <1>20, <1>21, <1>22, <1>23, <1>24, <1>25, <1>26, <1>27, <1>28, <1>29 DEF Next, SystemStep

-----------------------------------------------------------------------------
(* Spawning, and moving, a run.                                            *)

\* What a new run is: the next number, of a task that nothing executes.
LEMMA SpawnKeeps ==
  ASSUME HubAssumption, HubInv, NEW t \in Tasks, Spawn(t),
         submit'[t] = "created", submit' \in [Tasks -> {"new", "routing", "created", "rejected"}],
         \A u \in Tasks : u # t => submit'[u] = submit[u],
         status' = [status EXCEPT ![t] = "running"],
         status[t] \notin {"running", "deleted"}
  PROVE  RunsNumbered' /\ EntryOnceSubmitted' /\ LatestExecutes' /\ RunningHasRun'
<1> DEFINE n == spawned + 1
<1>1. /\ n \in Runs /\ ~Spawned(n) /\ pc'[n] = "created" /\ taskOf'[n] = t
      /\ \A r \in Runs : r # n => pc'[r] = pc[r] /\ taskOf'[r] = taskOf[r]
      /\ spawned' = n /\ spawned \in Nat /\ outcome' = outcome
  <2>1. spawned \in Nat /\ n \in Runs
    BY DEF HubInv, TypeOK, Spawn, Runs, HubAssumption
  <2>2. ~Spawned(n)
    BY <2>1 DEF HubInv, RunsNumbered
  <2> QED
    BY <2>1, <2>2 DEF HubInv, TypeOK, Spawn
<1>2. status'[t] = "running" /\ \A u \in Tasks : u # t => status'[u] = status[u]
  BY DEF HubInv, TypeOK
<1>3. \A r \in Runs : r # n /\ Spawned(r) => r <= spawned /\ taskOf[r] \in Tasks
  BY DEF HubInv, RunsNumbered
<1>4. \A r \in Runs : r # n /\ ~Spawned(r) => r > n /\ taskOf[r] = NoRun
  BY <1>1 DEF HubInv, RunsNumbered, Runs
<1>5. RunsNumbered'
  BY <1>1, <1>3, <1>4 DEF RunsNumbered, Spawned, Runs
<1>6. EntryOnceSubmitted'
  BY <1>1, <1>2, <1>3 DEF HubInv, EntryOnceSubmitted, Spawned
<1>7. \A r \in Runs : taskOf'[r] \in Tasks => r <= n
  BY <1>1, <1>3, <1>4 DEF HubAssumption, Runs
<1>8. LatestExecutes'
  <2>1. SUFFICES ASSUME NEW r \in Runs, pc'[r] \in Executing
                 PROVE  /\ status'[taskOf'[r]] \in {"running", "deleted"}
                        /\ \A s \in Runs : taskOf'[s] = taskOf'[r] => s <= r
    BY DEF LatestExecutes
  <2>2. CASE r = n
    BY <1>1, <1>2, <1>7, <2>2
  <2>3. CASE r # n
    <3>1. pc[r] \in Executing /\ Spawned(r) /\ taskOf[r] \in Tasks /\ taskOf'[r] = taskOf[r]
      BY <1>1, <1>3, <2>1, <2>3 DEF Executing, Spawned
    <3>2. /\ status[taskOf[r]] \in {"running", "deleted"}
          /\ \A s \in Runs : taskOf[s] = taskOf[r] => s <= r
      BY <3>1 DEF HubInv, LatestExecutes
    <3>3. taskOf[r] # t
      BY <3>2
    <3> QED
      BY <1>1, <1>2, <3>1, <3>2, <3>3
  <2> QED
    BY <2>2, <2>3
<1>9. RunningHasRun'
  <2>1. SUFFICES ASSUME NEW u \in Tasks, status'[u] = "running"
                 PROVE  \/ ExecutingRuns(u)' # {}
                        \/ \E r \in Runs :
                             /\ taskOf'[r] = u /\ outcome'[r] = "aborted"
                             /\ \A s \in Runs : taskOf'[s] = u => s <= r
    BY DEF RunningHasRun
  <2>2. CASE u = t
    BY <1>1, <2>2 DEF ExecutingRuns, Executing
  <2>3. CASE u # t
    <3>1. status[u] = "running" /\ NoRun # u
      BY <1>2, <2>1, <2>3 DEF HubAssumption
    <3>2. taskOf[n] = NoRun
      BY <1>1 DEF HubInv, RunsNumbered
    <3>3. CASE ExecutingRuns(u) # {}
      BY <1>1, <2>3, <3>1, <3>2, <3>3 DEF ExecutingRuns
    <3>4. CASE ExecutingRuns(u) = {}
      <4>1. PICK r \in Runs : /\ taskOf[r] = u /\ outcome[r] = "aborted"
                              /\ \A s \in Runs : taskOf[s] = u => s <= r
        BY <3>1, <3>4 DEF HubInv, RunningHasRun
      <4> QED
        BY <1>1, <2>3, <3>1, <3>2, <4>1
    <3> QED
      BY <3>3, <3>4
  <2> QED
    BY <2>2, <2>3
<1> QED
  BY <1>5, <1>6, <1>8, <1>9

\* A run stops executing its task: the entry gets another status, is gone, or the
\* run never began.
LEMMA EndOfExecutionKeeps ==
  ASSUME HubAssumption, HubInv, NEW r \in Runs, pc[r] \in Executing,
         NEW to \in PCs \ (Executing \cup {"none"}), pc' = [pc EXCEPT ![r] = to],
         NEW s \in Resumable \cup {"aborted"}, outcome' = [outcome EXCEPT ![r] = s],
         IF s = "aborted" THEN status' = status ELSE UpdateStatus(taskOf[r], s),
         UNCHANGED <<spawned, taskOf, submit>>
  PROVE  RunsNumbered' /\ EntryOnceSubmitted' /\ LatestExecutes' /\ RunningHasRun'
<1> DEFINE t == taskOf[r]
<1>1. /\ pc'[r] = to /\ \A q \in Runs : q # r => pc'[q] = pc[q]
      /\ outcome'[r] = s /\ \A q \in Runs : q # r => outcome'[q] = outcome[q]
      /\ \A q \in Runs : Spawned(q)' = Spawned(q)
      /\ \A q \in Runs : pc'[q] \in Executing <=> q # r /\ pc[q] \in Executing
  BY DEF HubInv, TypeOK, Spawned, Executing
<1>2. t \in Tasks /\ Spawned(r) /\ status[t] \in {"running", "deleted"}
  BY DEF HubInv, RunsNumbered, LatestExecutes, Spawned, Executing
<1>3. \A q \in Runs : taskOf[q] = t => q <= r
  BY DEF HubInv, LatestExecutes
<1>4. /\ \A u \in Tasks : u # t => status'[u] = status[u]
      /\ status'[t] = IF s = "aborted" \/ status[t] = "deleted" THEN status[t] ELSE s
  BY <1>2 DEF UpdateStatus, HubInv, TypeOK
<1>5. RunsNumbered'
  BY <1>1 DEF HubInv, RunsNumbered
<1>6. EntryOnceSubmitted'
  <2>1. \A u \in Tasks : status'[u] = "absent" <=> status[u] = "absent"
    BY <1>2, <1>4 DEF Resumable, Finished
  <2> QED
    BY <1>1, <2>1 DEF HubInv, EntryOnceSubmitted
<1>7. \A q \in Runs : pc[q] \in Executing /\ q # r => taskOf[q] # t /\ taskOf[q] \in Tasks
  <2>1. SUFFICES ASSUME NEW q \in Runs, pc[q] \in Executing, q # r
                 PROVE  taskOf[q] # t /\ taskOf[q] \in Tasks
    OBVIOUS
  <2>2. taskOf[q] \in Tasks /\ (taskOf[q] = t => r <= q)
    BY <2>1 DEF HubInv, RunsNumbered, LatestExecutes, Spawned, Executing
  <2> QED
    BY <1>3, <2>1, <2>2 DEF Runs, HubAssumption
<1>8. LatestExecutes'
  BY <1>1, <1>4, <1>7 DEF HubInv, LatestExecutes
<1>9. RunningHasRun'
  <2>1. SUFFICES ASSUME NEW u \in Tasks, status'[u] = "running"
                 PROVE  \/ ExecutingRuns(u)' # {}
                        \/ \E q \in Runs :
                             /\ taskOf'[q] = u /\ outcome'[q] = "aborted"
                             /\ \A p \in Runs : taskOf'[p] = u => p <= q
    BY DEF RunningHasRun
  <2>2. CASE u = t
    <3>1. s = "aborted"
      BY <1>4, <2>1, <2>2 DEF Resumable, Finished
    <3> QED
      BY <1>1, <1>3, <2>2, <3>1
  <2>3. CASE u # t
    <3>1. status[u] = "running"
      BY <1>4, <2>1, <2>3
    <3>2. CASE ExecutingRuns(u) # {}
      BY <1>1, <2>3, <3>2 DEF ExecutingRuns
    <3>3. CASE ExecutingRuns(u) = {}
      <4>1. PICK q \in Runs : /\ taskOf[q] = u /\ outcome[q] = "aborted"
                              /\ \A p \in Runs : taskOf[p] = u => p <= q
        BY <3>1, <3>3 DEF HubInv, RunningHasRun
      <4> QED
        BY <1>1, <2>3, <4>1
    <3> QED
      BY <3>2, <3>3
  <2> QED
    BY <2>2, <2>3
<1> QED
  BY <1>5, <1>6, <1>8, <1>9

\* What keeps all the executions, and the statuses that matter, keeps the rest.
LEMMA SameExecutionsKeep ==
  ASSUME HubInv, UNCHANGED <<spawned, taskOf, outcome>>,
         \A r \in Runs : Spawned(r)' = Spawned(r) /\ (pc'[r] \in Executing <=> pc[r] \in Executing),
         \A t \in Tasks : /\ status'[t] = "absent" <=> status[t] = "absent"
                          /\ submit'[t] = "created" <=> submit[t] = "created"
                          /\ status'[t] = status[t] \/ status'[t] = "deleted"
  PROVE  RunsNumbered' /\ EntryOnceSubmitted' /\ LatestExecutes' /\ RunningHasRun'
<1>1. \A r \in Runs : Spawned(r) => taskOf[r] \in Tasks
  BY DEF HubInv, RunsNumbered
<1>2. RunsNumbered'
  BY DEF HubInv, RunsNumbered
<1>3. EntryOnceSubmitted'
  BY <1>1 DEF HubInv, EntryOnceSubmitted
<1>4. LatestExecutes'
  BY <1>1 DEF HubInv, LatestExecutes, Spawned, Executing
<1>5. RunningHasRun'
  <2>1. SUFFICES ASSUME NEW t \in Tasks, status'[t] = "running"
                 PROVE  \/ ExecutingRuns(t)' # {}
                        \/ \E r \in Runs :
                             /\ taskOf'[r] = t /\ outcome'[r] = "aborted"
                             /\ \A s \in Runs : taskOf'[s] = t => s <= r
    BY DEF RunningHasRun
  <2>2. status[t] = "running" /\ ExecutingRuns(t)' = ExecutingRuns(t)
    BY <2>1 DEF ExecutingRuns
  <2> QED
    BY <2>2 DEF HubInv, RunningHasRun
<1> QED
  BY <1>2, <1>3, <1>4, <1>5

-----------------------------------------------------------------------------
(* The invariant.                                                          *)

LEMMA HubStep ==
  ASSUME HubAssumption, HubInv, [Next]_vars
  PROVE  HubInv'
<1>1. TypeOK'
  BY HubTyping DEF HubInv
<1> DEFINE Rest == RunsNumbered' /\ EntryOnceSubmitted' /\ LatestExecutes' /\ RunningHasRun'
<1> SUFFICES Rest
  BY <1>1 DEF HubInv
<1>2. /\ status \in [Tasks -> Statuses]
      /\ submit \in [Tasks -> {"new", "routing", "created", "rejected"}]
      /\ pc \in [Runs -> PCs]
      /\ outcome \in [Runs -> Resumable \cup {"none", "aborted"}]
      /\ submit' \in [Tasks -> {"new", "routing", "created", "rejected"}]
  BY <1>1 DEF HubInv, TypeOK
<1>3. ASSUME NEW r \in Runs, Start(r) PROVE Rest
  BY SameExecutionsKeep, <1>2, <1>3 DEF Start, RunStep, registryVars, requestVars, Spawned, Executing
<1>4. ASSUME NEW r \in Runs, Abort(r) PROVE Rest
  <2>1. /\ pc[r] \in Executing /\ pc' = [pc EXCEPT ![r] = "ended"]
        /\ outcome' = [outcome EXCEPT ![r] = "aborted"]
        /\ status' = status
        /\ UNCHANGED <<spawned, taskOf, submit>>
    BY <1>4 DEF Abort, RunStep, registryVars, requestVars, Executing
  <2>2. "ended" \in PCs \ (Executing \cup {"none"})
    BY DEF PCs, Live, Executing
  <2>3. "aborted" \in Resumable \cup {"aborted"} /\ "aborted" = "aborted"
    BY DEF Resumable, Finished
  <2> QED
    BY EndOfExecutionKeeps, <2>1, <2>2, <2>3
<1>5. ASSUME NEW r \in Runs, NEW s \in Resumable, Respond(r, s) PROVE Rest
  <2>1. /\ pc[r] \in Executing /\ pc' = [pc EXCEPT ![r] = "delivering"]
        /\ outcome' = [outcome EXCEPT ![r] = s]
        /\ UpdateStatus(taskOf[r], s)
        /\ UNCHANGED <<spawned, taskOf, submit>>
    BY <1>5 DEF Respond, RunStep, registryVars, requestVars, Executing
  <2>2. "delivering" \in PCs \ (Executing \cup {"none"})
    BY DEF PCs, Live, Executing
  <2>3. s \in Resumable \cup {"aborted"} /\ s # "aborted"
    BY DEF Resumable, Finished
  <2> QED
    BY EndOfExecutionKeeps, <2>1, <2>2, <2>3
<1>6. ASSUME NEW r \in Runs, RunFails(r) PROVE Rest
  <2>1. /\ pc[r] \in Executing /\ pc' = [pc EXCEPT ![r] = "deliveringFailure"]
        /\ outcome' = [outcome EXCEPT ![r] = "failed"]
        /\ UpdateStatus(taskOf[r], "failed")
        /\ UNCHANGED <<spawned, taskOf, submit>>
    BY <1>6 DEF RunFails, RunStep, registryVars, requestVars, Executing
  <2>2. "deliveringFailure" \in PCs \ (Executing \cup {"none"})
    BY DEF PCs, Live, Executing
  <2>3. "failed" \in Resumable \cup {"aborted"} /\ "failed" # "aborted"
    BY DEF Resumable, Finished
  <2> QED
    BY EndOfExecutionKeeps, <2>1, <2>2, <2>3
<1>7. ASSUME NEW r \in Runs, CancelExecution(r) PROVE Rest
  <2>1. /\ pc[r] \in Executing /\ pc' = [pc EXCEPT ![r] = "deliveringCancel"]
        /\ outcome' = [outcome EXCEPT ![r] = "cancelled"]
        /\ UpdateStatus(taskOf[r], "cancelled")
        /\ UNCHANGED <<spawned, taskOf, submit>>
    BY <1>7 DEF CancelExecution, RunStep, registryVars, requestVars, Executing
  <2>2. "deliveringCancel" \in PCs \ (Executing \cup {"none"})
    BY DEF PCs, Live, Executing
  <2>3. "cancelled" \in Resumable \cup {"aborted"} /\ "cancelled" # "aborted"
    BY DEF Resumable, Finished
  <2> QED
    BY EndOfExecutionKeeps, <2>1, <2>2, <2>3
<1>8. ASSUME NEW r \in Runs, Deliver(r) PROVE Rest
  BY SameExecutionsKeep, <1>8 DEF Deliver, requestVars, registryVars, runVars, Spawned
<1>9. ASSUME NEW r \in Runs, FinishDelivery(r) PROVE Rest
  BY SameExecutionsKeep, <1>2, <1>9 DEF FinishDelivery, RunStep, registryVars, requestVars, Spawned, Executing
<1>10. ASSUME NEW r \in Runs, FinishInline(r) PROVE Rest
  BY SameExecutionsKeep, <1>2, <1>10 DEF FinishInline, RunStep, registryVars, requestVars, Spawned, Executing
<1>11. ASSUME NEW r \in Runs, Callback(r) PROVE Rest
  BY SameExecutionsKeep, <1>2, <1>11 DEF Callback, RunStep, registryVars, requestVars, Spawned, Executing
<1>12. ASSUME NEW t \in Tasks, SubmitBegin(t) PROVE Rest
  BY SameExecutionsKeep, <1>2, <1>12 DEF SubmitBegin, registryVars, runVars, Spawned
<1>13. ASSUME NEW t \in Tasks, SubmitRouteFails(t) PROVE Rest
  BY SameExecutionsKeep, <1>2, <1>13 DEF SubmitRouteFails, registryVars, runVars, Spawned
<1>14. ASSUME NEW t \in Tasks, SubmitEnd(t) PROVE Rest
  <2>1. CASE HasCapacity(t)
    <3>1. /\ Spawn(t) /\ status' = [status EXCEPT ![t] = "running"]
          /\ submit[t] = "routing" /\ submit' = [submit EXCEPT ![t] = "created"]
      BY <1>14, <2>1 DEF SubmitEnd
    <3>2. status[t] = "absent"
      BY <3>1 DEF HubInv, EntryOnceSubmitted
    <3> QED
      BY SpawnKeeps, <1>2, <3>1, <3>2
  <2>2. CASE ~HasCapacity(t)
    BY SameExecutionsKeep, <1>2, <1>14, <2>2 DEF SubmitEnd, runVars, Spawned
  <2> QED
    BY <2>1, <2>2
<1>15. ASSUME NEW t \in Tasks, Question(t) PROVE Rest
  BY SameExecutionsKeep, <1>15 DEF Question, requestVars, registryVars, runVars, Spawned
<1>16. ASSUME NEW t \in Tasks, Delete(t) PROVE Rest
  BY SameExecutionsKeep, <1>2, <1>16 DEF Delete, Forget, Finished, runVars, requestVars, Spawned
<1>17. ASSUME NEW t \in Tasks, DropOrphan(t) PROVE Rest
  BY SameExecutionsKeep, <1>2, <1>17 DEF DropOrphan, Forget, Finished, runVars, requestVars, Spawned
<1>18. ASSUME NEW q \in Resumers, ResumeBegin(q) PROVE Rest
  BY SameExecutionsKeep, <1>18 DEF ResumeBegin, registryVars, runVars, Spawned
<1>19. ASSUME NEW q \in Resumers, ResumeRouteFails(q) PROVE Rest
  BY SameExecutionsKeep, <1>19 DEF ResumeRouteFails, registryVars, runVars, Spawned
<1>20. ASSUME NEW q \in Resumers, ResumeEnd(q) PROVE Rest
  <2> DEFINE t == ResumeOf[q]
  <2>0. t \in Tasks
    BY DEF HubAssumption
  <2>1. CASE MayResume(t)
    <3>1. /\ Spawn(t) /\ UpdateStatus(t, "running") /\ submit' = submit
          /\ status[t] \in Resumable
      BY <1>20, <2>1 DEF ResumeEnd, MayResume
    <3>2. status[t] \notin {"running", "deleted", "absent"}
      BY <3>1 DEF Resumable, Finished
    <3>3. status' = [status EXCEPT ![t] = "running"]
      BY <3>1, <3>2 DEF UpdateStatus
    <3>4. submit[t] = "created"
      BY <2>0, <3>2 DEF HubInv, EntryOnceSubmitted
    <3> QED
      BY SpawnKeeps, <1>2, <2>0, <3>1, <3>2, <3>3, <3>4
  <2>2. CASE ~MayResume(t)
    BY SameExecutionsKeep, <1>20, <2>2 DEF ResumeEnd, runVars, Spawned
  <2> QED
    BY <2>1, <2>2
<1>21. ASSUME NEW k \in Cancellers, CancelBegin(k) PROVE Rest
  BY SameExecutionsKeep, <1>21 DEF CancelBegin, registryVars, runVars, Spawned
<1>22. ASSUME NEW k \in Cancellers, CancelReturn(k) PROVE Rest
  BY SameExecutionsKeep, <1>22 DEF CancelReturn, registryVars, runVars, Spawned
<1>23. ASSUME NEW k \in Cancellers, CancelSignal(k) PROVE Rest
  BY SameExecutionsKeep, <1>23 DEF CancelSignal, registryVars, runVars, Spawned
<1>24. ASSUME StopBegin PROVE Rest
  BY SameExecutionsKeep, <1>24 DEF StopBegin, requestVars, registryVars, runVars, Spawned
<1>25. ASSUME StopGathered PROVE Rest
  BY SameExecutionsKeep, <1>25 DEF StopGathered, requestVars, registryVars, runVars, Spawned
<1>26. ASSUME StopEnd PROVE Rest
  BY SameExecutionsKeep, <1>26 DEF StopEnd, requestVars, registryVars, runVars, Spawned
<1>27. ASSUME Crash PROVE Rest
  <2>1. /\ \A r \in Runs : (pc'[r] # "none" <=> pc[r] # "none") /\ pc'[r] \notin Executing
        /\ \A t \in Tasks : status'[t] = IF status[t] = "running" THEN "failed" ELSE status[t]
        /\ \A t \in Tasks : submit'[t] = "created" <=> submit[t] = "created"
        /\ UNCHANGED <<spawned, taskOf>>
    BY <1>2, <1>27 DEF Crash, Executing
  <2>2. \A r \in Runs : Spawned(r) => taskOf[r] \in Tasks
    BY DEF HubInv, RunsNumbered
  <2>3. RunsNumbered' /\ LatestExecutes'
    BY <2>1 DEF HubInv, RunsNumbered, LatestExecutes, Spawned
  <2>4. EntryOnceSubmitted'
    BY <2>1, <2>2 DEF HubInv, EntryOnceSubmitted, Spawned
  <2>5. RunningHasRun'
    BY <2>1 DEF RunningHasRun
  <2> QED
    BY <2>3, <2>4, <2>5
<1>28. CASE UNCHANGED vars
  BY SameExecutionsKeep, <1>28 DEF vars, registryVars, runVars, requestVars, Spawned
<1>29. ASSUME NEW r \in Runs, Inject(r) PROVE Rest
  BY SameExecutionsKeep, <1>29 DEF Inject, requestVars, registryVars, runVars, Spawned
<1>30. ASSUME NEW ch \in TurnChats, TurnBegin(ch) PROVE Rest
  BY SameExecutionsKeep, <1>30 DEF TurnBegin, requestVars, registryVars, runVars, Spawned
<1>31. ASSUME NEW ch \in TurnChats, TurnEnd(ch) PROVE Rest
  BY SameExecutionsKeep, <1>31 DEF TurnEnd, requestVars, registryVars, runVars, Spawned
<1> QED
  BY <1>3, <1>4, <1>5, <1>6, <1>7, <1>8, <1>9, <1>10, <1>11, <1>12, <1>13, <1>14, <1>15, <1>16, <1>17, <1>18, <1>19, <1>20, <1>21, <1>22, <1>23, <1>24, <1>25, <1>26, <1>27, <1>28, <1>29, <1>30, <1>31 DEF Next, SystemStep

LEMMA HubInvariant == Spec => []HubInv
<1>1. Init => HubInv
  BY HubInitial, HubAssumption
<1>2. HubInv /\ [Next]_vars => HubInv'
  BY HubStep, HubAssumption
<1> QED
  BY <1>1, <1>2, PTL DEF Spec

\* The types of the hub's state.
THEOREM HubTypeCorrect == Spec => []TypeOK
<1>1. HubInv => TypeOK
  BY DEF HubInv
<1> QED
  BY <1>1, HubInvariant, PTL

\* No task is executed by two runs at a time, and the registry says "running"
\* while one executes it: for any number of tasks, resumes, cancellations,
\* deletions and crashes.
THEOREM HubExecutesOnce == Spec => []OneExecution
<1>1. HubInv => OneExecution
  <2>1. SUFFICES ASSUME HubInv, NEW t \in Tasks
                 PROVE  /\ \A r, s \in ExecutingRuns(t) : r = s
                        /\ ExecutingRuns(t) # {} => status[t] \in {"running", "deleted"}
    BY DEF OneExecution
  <2>2. \A r, s \in ExecutingRuns(t) : r <= s /\ s <= r /\ r \in Int /\ s \in Int
    BY <2>1, HubAssumption DEF HubInv, LatestExecutes, ExecutingRuns, Runs
  <2> QED
    BY <2>1, <2>2 DEF HubInv, LatestExecutes, ExecutingRuns
<1> QED
  BY <1>1, HubInvariant, PTL

\* Only a run cancelled before its first step can leave "running" behind.
THEOREM RunningIsAccountedFor == Spec => []RunningHasRun
<1>1. HubInv => RunningHasRun
  BY DEF HubInv
<1> QED
  BY <1>1, HubInvariant, PTL

-----------------------------------------------------------------------------
(* The hub implements the life cycle of a task.                            *)

\* Nothing starts or stops executing.
LEMMA SameExecuting ==
  ASSUME \A r \in Runs : pc'[r] \in Executing <=> pc[r] \in Executing,
         \A r \in Runs : pc[r] \in Executing => taskOf'[r] = taskOf[r]
  PROVE  ExecutingTasks' = ExecutingTasks
BY DEF ExecutingTasks

\* A run that is spawned adds its task to those that are executed.
LEMMA SpawnExecutes ==
  ASSUME HubAssumption, HubInv, NEW t \in Tasks, Spawn(t)
  PROVE  ExecutingTasks' = ExecutingTasks \cup {t}
<1> DEFINE n == spawned + 1
<1>1. n \in Runs /\ spawned \in Nat
  BY DEF HubInv, TypeOK, Spawn, Runs, HubAssumption
<1>2. pc[n] \notin Executing
  BY <1>1 DEF HubInv, RunsNumbered, Spawned, Executing
<1>3. /\ pc'[n] = "created" /\ taskOf'[n] = t
      /\ \A r \in Runs : r # n => pc'[r] = pc[r] /\ taskOf'[r] = taskOf[r]
  BY <1>1 DEF HubInv, TypeOK, Spawn
<1> QED
  BY <1>1, <1>2, <1>3 DEF ExecutingTasks, Executing

\* A run that stops executing removes its task: no other run executes it.
LEMMA EndExecutes ==
  ASSUME HubAssumption, HubInv, NEW r \in Runs, pc[r] \in Executing,
         NEW to \in PCs \ Executing, pc' = [pc EXCEPT ![r] = to], taskOf' = taskOf
  PROVE  /\ taskOf[r] \in ExecutingTasks \cap Tasks
         /\ status[taskOf[r]] \in {"running", "deleted"}
         /\ ExecutingTasks' = ExecutingTasks \ {taskOf[r]}
<1>1. pc'[r] = to /\ \A q \in Runs : q # r => pc'[q] = pc[q]
  BY DEF HubInv, TypeOK
<1>2. \A q \in Runs : pc[q] \in Executing /\ q # r => taskOf[q] # taskOf[r]
  <2>1. SUFFICES ASSUME NEW q \in Runs, pc[q] \in Executing, taskOf[q] = taskOf[r]
                 PROVE  q = r
    OBVIOUS
  <2>2. q <= r /\ r <= q
    BY <2>1 DEF HubInv, LatestExecutes
  <2> QED
    BY <2>2 DEF Runs, HubAssumption
<1>3. taskOf[r] \in Tasks /\ status[taskOf[r]] \in {"running", "deleted"}
  BY DEF HubInv, RunsNumbered, LatestExecutes, Spawned, Executing
<1> QED
  BY <1>1, <1>2, <1>3 DEF ExecutingTasks

LEMMA LifecycleStep ==
  ASSUME HubAssumption, HubInv, [Next]_vars
  PROVE  [Lifecycle!Next]_(Lifecycle!lifeVars)
<1> DEFINE Goal == [Lifecycle!Next]_(Lifecycle!lifeVars)
<1>1. /\ status \in [Tasks -> Statuses]
      /\ pc \in [Runs -> PCs]
      /\ \A r \in Runs : pc[r] \in Executing => taskOf[r] \in ExecutingTasks
      /\ \A t \in ExecutingTasks : \E r \in Runs : taskOf[r] = t /\ pc[r] \in Executing
  BY DEF HubInv, TypeOK, ExecutingTasks
<1>2. \A t \in ExecutingTasks : status[t] \in {"running", "deleted"}
  BY <1>1 DEF HubInv, LatestExecutes
<1>3. Lifecycle!Resumable = Resumable
  BY DEF Lifecycle!Resumable, Lifecycle!Finished, Resumable, Finished
\* A step that changes neither the registry's statuses nor the executions.
<1>4. ASSUME status' = status, ExecutingTasks' = ExecutingTasks PROVE Goal
  BY <1>4 DEF Lifecycle!lifeVars
<1>5. ASSUME NEW r \in Runs, Start(r) PROVE Goal
  BY SameExecuting, <1>1, <1>4, <1>5 DEF Start, RunStep, registryVars, requestVars, Executing
<1>6. ASSUME NEW r \in Runs, Abort(r) PROVE Goal
  <2>1. /\ pc[r] \in Executing /\ pc' = [pc EXCEPT ![r] = "ended"] /\ taskOf' = taskOf
        /\ status' = status
    BY <1>6 DEF Abort, RunStep, registryVars, Executing
  <2>2. "ended" \in PCs \ Executing
    BY DEF PCs, Live, Executing
  <2>3. /\ taskOf[r] \in ExecutingTasks \cap Tasks
        /\ status[taskOf[r]] \in {"running", "deleted"}
        /\ ExecutingTasks' = ExecutingTasks \ {taskOf[r]}
    BY EndExecutes, <2>1, <2>2
  <2>4. Lifecycle!Vanish(taskOf[r])
    BY <2>1, <2>3 DEF Lifecycle!Vanish
  <2> QED
    BY <2>3, <2>4 DEF Lifecycle!Next
<1>7. ASSUME NEW r \in Runs, NEW s \in Resumable, Respond(r, s) PROVE Goal
  <2>1. /\ pc[r] \in Executing /\ pc' = [pc EXCEPT ![r] = "delivering"] /\ taskOf' = taskOf
        /\ UpdateStatus(taskOf[r], s)
    BY <1>7 DEF Respond, RunStep, registryVars, Executing
  <2>2. "delivering" \in PCs \ Executing
    BY DEF PCs, Live, Executing
  <2>3. /\ taskOf[r] \in ExecutingTasks \cap Tasks
        /\ status[taskOf[r]] \in {"running", "deleted"}
        /\ ExecutingTasks' = ExecutingTasks \ {taskOf[r]}
    BY EndExecutes, <2>1, <2>2
  <2>4. s \in Lifecycle!Resumable
    BY <1>3 DEF Resumable, Finished
  <2>5. status' = IF status[taskOf[r]] = "running"
                  THEN [status EXCEPT ![taskOf[r]] = s] ELSE status
    BY <2>1, <2>3 DEF UpdateStatus
  <2>6. Lifecycle!Outcome(taskOf[r])
    BY <2>3, <2>4, <2>5 DEF Lifecycle!Outcome
  <2> QED
    BY <2>3, <2>6 DEF Lifecycle!Next
<1>8. ASSUME NEW r \in Runs, RunFails(r) PROVE Goal
  <2>1. /\ pc[r] \in Executing /\ pc' = [pc EXCEPT ![r] = "deliveringFailure"] /\ taskOf' = taskOf
        /\ UpdateStatus(taskOf[r], "failed")
    BY <1>8 DEF RunFails, RunStep, registryVars, Executing
  <2>2. "deliveringFailure" \in PCs \ Executing
    BY DEF PCs, Live, Executing
  <2>3. /\ taskOf[r] \in ExecutingTasks \cap Tasks
        /\ status[taskOf[r]] \in {"running", "deleted"}
        /\ ExecutingTasks' = ExecutingTasks \ {taskOf[r]}
    BY EndExecutes, <2>1, <2>2
  <2>4. "failed" \in Lifecycle!Resumable
    BY <1>3 DEF Resumable, Finished
  <2>5. status' = IF status[taskOf[r]] = "running"
                  THEN [status EXCEPT ![taskOf[r]] = "failed"] ELSE status
    BY <2>1, <2>3 DEF UpdateStatus
  <2>6. Lifecycle!Outcome(taskOf[r])
    BY <2>3, <2>4, <2>5 DEF Lifecycle!Outcome
  <2> QED
    BY <2>3, <2>6 DEF Lifecycle!Next
<1>9. ASSUME NEW r \in Runs, CancelExecution(r) PROVE Goal
  <2>1. /\ pc[r] \in Executing /\ pc' = [pc EXCEPT ![r] = "deliveringCancel"] /\ taskOf' = taskOf
        /\ UpdateStatus(taskOf[r], "cancelled")
    BY <1>9 DEF CancelExecution, RunStep, registryVars, Executing
  <2>2. "deliveringCancel" \in PCs \ Executing
    BY DEF PCs, Live, Executing
  <2>3. /\ taskOf[r] \in ExecutingTasks \cap Tasks
        /\ status[taskOf[r]] \in {"running", "deleted"}
        /\ ExecutingTasks' = ExecutingTasks \ {taskOf[r]}
    BY EndExecutes, <2>1, <2>2
  <2>4. "cancelled" \in Lifecycle!Resumable
    BY <1>3 DEF Resumable, Finished
  <2>5. status' = IF status[taskOf[r]] = "running"
                  THEN [status EXCEPT ![taskOf[r]] = "cancelled"] ELSE status
    BY <2>1, <2>3 DEF UpdateStatus
  <2>6. Lifecycle!Outcome(taskOf[r])
    BY <2>3, <2>4, <2>5 DEF Lifecycle!Outcome
  <2> QED
    BY <2>3, <2>6 DEF Lifecycle!Next
<1>10. ASSUME NEW r \in Runs, Deliver(r) PROVE Goal
  BY SameExecuting, <1>4, <1>10 DEF Deliver, registryVars, runVars
<1>11. ASSUME NEW r \in Runs, FinishDelivery(r) PROVE Goal
  BY SameExecuting, <1>1, <1>4, <1>11 DEF FinishDelivery, RunStep, registryVars, requestVars, Executing
<1>12. ASSUME NEW r \in Runs, FinishInline(r) PROVE Goal
  BY SameExecuting, <1>1, <1>4, <1>12 DEF FinishInline, RunStep, registryVars, requestVars, Executing
<1>13. ASSUME NEW r \in Runs, Callback(r) PROVE Goal
  BY SameExecuting, <1>1, <1>4, <1>13 DEF Callback, RunStep, registryVars, requestVars, Executing
<1>14. ASSUME NEW t \in Tasks, SubmitBegin(t) PROVE Goal
  BY SameExecuting, <1>4, <1>14 DEF SubmitBegin, registryVars, runVars
<1>15. ASSUME NEW t \in Tasks, SubmitRouteFails(t) PROVE Goal
  BY SameExecuting, <1>4, <1>15 DEF SubmitRouteFails, registryVars, runVars
<1>16. ASSUME NEW t \in Tasks, SubmitEnd(t) PROVE Goal
  <2>1. CASE HasCapacity(t)
    <3>1. /\ Spawn(t) /\ status' = [status EXCEPT ![t] = "running"]
          /\ submit[t] = "routing"
      BY <1>16, <2>1 DEF SubmitEnd
    <3>2. status[t] = "absent"
      BY <3>1 DEF HubInv, EntryOnceSubmitted
    <3>3. Lifecycle!Create(t)
      BY SpawnExecutes, <3>1, <3>2 DEF Lifecycle!Create
    <3> QED
      BY <3>3 DEF Lifecycle!Next
  <2>2. CASE ~HasCapacity(t)
    BY SameExecuting, <1>4, <1>16, <2>2 DEF SubmitEnd, runVars
  <2> QED
    BY <2>1, <2>2
<1>17. ASSUME NEW t \in Tasks, Question(t) PROVE Goal
  BY SameExecuting, <1>4, <1>17 DEF Question, registryVars, runVars
<1>18. ASSUME NEW t \in Tasks, Delete(t) PROVE Goal
  <2>1. status[t] # "absent" /\ status' = [status EXCEPT ![t] = "deleted"]
    BY <1>18 DEF Delete, Forget, Finished
  <2>2. ExecutingTasks' = ExecutingTasks
    BY SameExecuting, <1>18 DEF Delete, Forget, runVars
  <2> QED
    BY <2>1, <2>2 DEF Lifecycle!Next, Lifecycle!Delete
<1>19. ASSUME NEW t \in Tasks, DropOrphan(t) PROVE Goal
  <2>1. status[t] # "absent" /\ status' = [status EXCEPT ![t] = "deleted"]
    BY <1>19 DEF DropOrphan, Forget, Finished
  <2>2. ExecutingTasks' = ExecutingTasks
    BY SameExecuting, <1>19 DEF DropOrphan, Forget, runVars
  <2> QED
    BY <2>1, <2>2 DEF Lifecycle!Next, Lifecycle!Delete
<1>20. ASSUME NEW q \in Resumers, ResumeBegin(q) PROVE Goal
  BY SameExecuting, <1>4, <1>20 DEF ResumeBegin, registryVars, runVars
<1>21. ASSUME NEW q \in Resumers, ResumeRouteFails(q) PROVE Goal
  BY SameExecuting, <1>4, <1>21 DEF ResumeRouteFails, registryVars, runVars
<1>22. ASSUME NEW q \in Resumers, ResumeEnd(q) PROVE Goal
  <2> DEFINE t == ResumeOf[q]
  <2>0. t \in Tasks
    BY DEF HubAssumption
  <2>1. CASE MayResume(t)
    <3>1. /\ Spawn(t) /\ UpdateStatus(t, "running") /\ status[t] \in Resumable
      BY <1>22, <2>1 DEF ResumeEnd, MayResume
    <3>2. status[t] \notin {"running", "deleted"} /\ t \notin ExecutingTasks
      BY <1>2, <3>1 DEF Resumable, Finished
    <3>3. Lifecycle!Resume(t)
      BY SpawnExecutes, <1>3, <2>0, <3>1, <3>2 DEF Lifecycle!Resume, UpdateStatus
    <3> QED
      BY <2>0, <3>3 DEF Lifecycle!Next
  <2>2. CASE ~MayResume(t)
    BY SameExecuting, <1>4, <1>22, <2>2 DEF ResumeEnd, runVars
  <2> QED
    BY <2>1, <2>2
<1>23. ASSUME NEW k \in Cancellers, CancelBegin(k) PROVE Goal
  BY SameExecuting, <1>4, <1>23 DEF CancelBegin, registryVars, runVars
<1>24. ASSUME NEW k \in Cancellers, CancelSignal(k) PROVE Goal
  BY SameExecuting, <1>4, <1>24 DEF CancelSignal, registryVars, runVars
<1>25. ASSUME NEW k \in Cancellers, CancelReturn(k) PROVE Goal
  BY SameExecuting, <1>4, <1>25 DEF CancelReturn, registryVars, runVars
<1>26. ASSUME StopBegin PROVE Goal
  BY SameExecuting, <1>4, <1>26 DEF StopBegin, registryVars, runVars
<1>27. ASSUME StopGathered PROVE Goal
  BY SameExecuting, <1>4, <1>27 DEF StopGathered, registryVars, runVars
<1>28. ASSUME StopEnd PROVE Goal
  BY SameExecuting, <1>4, <1>28 DEF StopEnd, registryVars, runVars
<1>29. ASSUME Crash PROVE Goal
  <2>1. /\ status' = [t \in Tasks |-> IF status[t] = "running" THEN "failed" ELSE status[t]]
        /\ \A r \in Runs : pc'[r] \notin Executing
    BY <1>1, <1>29 DEF Crash, Executing
  <2>2. ExecutingTasks' = {}
    BY <2>1 DEF ExecutingTasks
  <2> QED
    BY <2>1, <2>2 DEF Lifecycle!Next, Lifecycle!Restart
<1>30. CASE UNCHANGED vars
  BY SameExecuting, <1>4, <1>30 DEF vars, registryVars, runVars
<1>31. ASSUME NEW r \in Runs, Inject(r) PROVE Goal
  BY SameExecuting, <1>4, <1>31 DEF Inject, registryVars, runVars
<1>32. ASSUME NEW ch \in TurnChats, TurnBegin(ch) PROVE Goal
  BY SameExecuting, <1>4, <1>32 DEF TurnBegin, registryVars, runVars
<1>33. ASSUME NEW ch \in TurnChats, TurnEnd(ch) PROVE Goal
  BY SameExecuting, <1>4, <1>33 DEF TurnEnd, registryVars, runVars
<1> QED
  BY <1>5, <1>6, <1>7, <1>8, <1>9, <1>10, <1>11, <1>12, <1>13, <1>14, <1>15, <1>16, <1>17, <1>18, <1>19, <1>20, <1>21, <1>22, <1>23, <1>24, <1>25, <1>26, <1>27, <1>28, <1>29, <1>30, <1>31, <1>32, <1>33 DEF Next, SystemStep

\* The registry and the executions of the hub move as TaskLifecycle allows: an
\* execution starts only from "absent" or a resumable status and never beside
\* another, its outcome is written once, and a deleted entry never comes back.
THEOREM HubImplementsLifecycle == Spec => LifecycleSpec
<1>1. Init => Lifecycle!Init
  BY DEF Init, Lifecycle!Init, ExecutingTasks, Executing
<1>2. HubInv /\ [Next]_vars => [Lifecycle!Next]_(Lifecycle!lifeVars)
  BY LifecycleStep, HubAssumption
<1> QED
  BY <1>1, <1>2, HubInvariant, PTL DEF Spec, LifecycleSpec, Lifecycle!Spec
=============================================================================
