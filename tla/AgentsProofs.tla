---------------------------- MODULE AgentsProofs ----------------------------
(* What the supervisor and the bus guarantee for any sub-agents, commands    *)
(* and requests, and however many runs, crashes and edits there are.         *)
EXTENDS Agents, TLAPS

Run == [of : Names \cup {NoName}, token : 0..MaxEdits, crashes : 0..MaxRetries,
        phase : Live \cup {"unused", "created", "over"}]

\* An actor at work has an agent, and a live run too.
Placed ==
  /\ \A a \in Actors : stage[a] # "idle" => target[a] \in Names
  /\ \A r \in Runs : run[r].phase \in Live => run[r].of \in Names

\* What the watcher works on is no longer among the agents it has still to start.
WatcherTakes == stage[Watcher] # "idle" => target[Watcher] \notin todo.start

\* An agent without a clash has one actor, and waits for its start only while it
\* has no stack.
OneActor ==
  \A n \in Names \ clash :
    /\ \A a, b \in Bound(n) : a = b
    /\ n \in todo.start => ~Present(n)

\* The tables of an agent without a clash, between operations and in the course of one.
Consistent(n) ==
  /\ LiveRuns(n) \subseteq {tasks[n]}
  /\ At(n) = {} => stacks[n] = tasks[n] /\ (n \in bus <=> Present(n))
  /\ \A a \in At(n) :
       /\ tasks[n] = NoRun
       /\ stage[a] \in {"creating", "closing"} => ~Present(n)
       /\ stage[a] = "creating" => n \notin bus
  /\ Present(n) => handler[n] = stacks[n]
TablesHold == \A n \in Names \ clash : Consistent(n)

AgentsInv == TypeInv /\ Placed /\ WatcherTakes /\ OneActor /\ TablesHold

-----------------------------------------------------------------------------
(* What the actions have in common.                                          *)

LEMMA EnterType ==
  ASSUME TypeInv, NEW a \in Actors, NEW n \in Names, NEW s \in Stages, Enter(a, n, s)
  PROVE  /\ stage' \in [Actors -> Stages] /\ target' \in [Actors -> Names \cup {NoName}]
         /\ clash \subseteq clash' /\ clash' \subseteq Names
         /\ \A b \in Actors \ {a} : stage'[b] = stage[b] /\ target'[b] = target[b]
         /\ stage'[a] = s /\ target'[a] = n
         /\ n \notin clash' => Bound(n) \subseteq {a}
BY DEF Enter, TypeInv

LEMMA OverRun ==
  ASSUME NEW past \in Run
  PROVE  /\ Over(past) \in Run /\ Over(past).phase = "over"
         /\ Over(past).of = past.of /\ Over(past).token = past.token
<1>1. 0 \in 0..MaxRetries
  BY AgentsAssumption
<1> QED
  BY <1>1 DEF Over, Run

LEMMA StopType ==
  ASSUME TypeInv, NEW a \in Actors, NEW n \in Names, StopBegins(a, n)
  PROVE  /\ tasks' \in [Names -> Runs \cup {NoRun}] /\ run' \in [Runs -> Run]
         /\ tasks'[n] = NoRun /\ \A m \in Names \ {n} : tasks'[m] = tasks[m]
         /\ \A r \in Runs : /\ run'[r] = run[r] \/ run'[r].phase = "over"
                            /\ run'[r].of = run[r].of
                            /\ r = tasks[n] => run'[r].phase \notin Live
<1>1. run \in [Runs -> Run]
  BY DEF TypeInv, Run
<1>2. \A r \in Runs : run'[r] = IF r = tasks[n] /\ run[r].phase \in Live THEN Over(run[r]) ELSE run[r]
  BY DEF StopBegins
<1>3. run' \in [Runs -> Run]
  BY <1>1, OverRun DEF StopBegins
<1>4. \A r \in Runs : /\ run'[r] = run[r] \/ run'[r].phase = "over"
                      /\ run'[r].of = run[r].of
                      /\ r = tasks[n] => run'[r].phase \notin Live
  BY <1>1, <1>2, OverRun DEF Live
<1>5. /\ tasks' \in [Names -> Runs \cup {NoRun}]
      /\ tasks'[n] = NoRun /\ \A m \in Names \ {n} : tasks'[m] = tasks[m]
  BY DEF StopBegins, TypeInv
<1> QED
  BY <1>3, <1>4, <1>5

\* A step of a run leaves its agent and identity alone, and the other runs.
LEMMA SupervisedStep ==
  ASSUME TypeInv, NEW r \in Runs, Crash(r) \/ Rebuild(r) \/ Rebuilt(r) \/ Exit(r)
  PROVE  /\ run[r].phase \in Live /\ run'[r].phase \in Live \cup {"over"}
         /\ run'[r].of = run[r].of /\ run'[r].token = run[r].token
         /\ \A s \in Runs \ {r} : run'[s] = run[s]
<1>1. run \in [Runs -> Run]
  BY DEF TypeInv, Run
<1>2. CASE Crash(r)
  <2>1. CASE run[r].crashes = MaxRetries
    <3>1. run' = [run EXCEPT ![r] = Over(run[r])] /\ run[r].phase = "running"
      BY <1>2, <2>1 DEF Crash
    <3> QED
      BY <1>1, <3>1, OverRun DEF Live
  <2>2. CASE run[r].crashes # MaxRetries
    <3>1. /\ run' = [run EXCEPT ![r] = [run[r] EXCEPT !.phase = "backoff",
                                                     !.crashes = run[r].crashes + 1]]
          /\ run[r].phase = "running"
      BY <1>2, <2>2 DEF Crash
    <3> QED
      BY <1>1, <3>1 DEF Live, Run
  <2> QED
    BY <2>1, <2>2
<1>3. CASE Rebuild(r) \/ Rebuilt(r)
  BY <1>1, <1>3 DEF Rebuild, Rebuilt, Phase, Live, Run
<1>4. CASE Exit(r)
  BY <1>1, <1>4, OverRun DEF Exit, Live
<1> QED
  BY <1>2, <1>3, <1>4

\* What an actor that has decided on an agent does to the state of the actors.
LEMMA SyncSplits ==
  ASSUME TypeInv, NEW n \in Names, Sync(n)
  PROVE  /\ stage[Watcher] = "idle"
         /\ todo'.start = todo.start \ {n}
         /\ todo'.stop \subseteq todo.stop
         /\ todo' \in [start : SUBSET Names, stop : SUBSET Names, check : SUBSET Names]
         /\ \/ /\ n \in todo.start /\ Enter(Watcher, n, "creating")
               /\ UNCHANGED <<tasks, run, again>>
            \/ /\ todo.start = {} /\ StopBegins(Watcher, n) /\ again' \subseteq again \cup {Watcher}
            \/ UNCHANGED <<stage, target, tasks, run, again, clash>>
         /\ UNCHANGED <<json, changed, reading, stacks, bus, handler, requests, failed, commanded>>
<1>1. /\ stage[Watcher] = "idle"
      /\ UNCHANGED <<json, changed, reading, stacks, bus, handler, requests, failed, commanded>>
  BY DEF Sync
<1>2. CASE /\ n \in todo.start
           /\ todo' = [todo EXCEPT !.start = @ \ {n}]
           /\ Enter(Watcher, n, "creating")
           /\ UNCHANGED <<tasks, run, again>>
  BY <1>1, <1>2 DEF TypeInv
<1>3. CASE /\ todo.start = {} /\ n \in todo.stop
           /\ todo' = [todo EXCEPT !.stop = @ \ {n}]
           /\ StopBegins(Watcher, n)
           /\ UNCHANGED again
  BY <1>1, <1>3 DEF TypeInv
<1>4. CASE /\ todo.start = {} /\ todo.stop = {} /\ n \in todo.check
           /\ todo' = [todo EXCEPT !.check = @ \ {n}]
           /\ IF Present(n) /\ run[stacks[n]].token # loaded[Watcher][n]
              THEN StopBegins(Watcher, n) /\ again' = again \cup {Watcher}
              ELSE UNCHANGED <<stage, target, tasks, run, again, clash>>
  BY <1>1, <1>4 DEF TypeInv
<1> QED
  BY <1>2, <1>3, <1>4 DEF Sync

\* What an exception out of the watcher does: the watcher leaves everything as it is.
LEMMA FailsStep ==
  ASSUME TypeInv, WatcherFails
  PROVE  /\ stage' \in [Actors -> Stages] /\ stage'[Watcher] = "idle" /\ watching' = FALSE
         /\ stage[Watcher] \in {"idle", "creating"}
         /\ \A b \in Actors \ {Watcher} : stage'[b] = stage[b]
         /\ \A m \in Names : At(m)' = At(m) \ {Watcher} /\ Bound(m)' \subseteq Bound(m)
         /\ todo' = Nothing
         /\ UNCHANGED <<json, changed, loaded, tables, run, target, again, requests, history>>
<1>0. Watcher \in Actors
  BY DEF Actors
<1>1. /\ stage' = [stage EXCEPT ![Watcher] = "idle"] /\ stage[Watcher] \in {"idle", "creating"}
      /\ todo' = Nothing /\ watching' = FALSE
      /\ UNCHANGED <<json, changed, loaded, tables, run, target, again, requests, history>>
  BY DEF WatcherFails
<1>2. /\ stage' \in [Actors -> Stages] /\ stage'[Watcher] = "idle"
      /\ \A b \in Actors \ {Watcher} : stage'[b] = stage[b]
  BY <1>0, <1>1 DEF TypeInv, Stages
<1>3. \A m \in Names : At(m)' = At(m) \ {Watcher}
  BY <1>1, <1>2 DEF At
<1>4. \A m \in Names : Bound(m)' \subseteq Bound(m)
  BY <1>1, <1>3 DEF Bound, Nothing
<1> QED
  BY <1>1, <1>2, <1>3, <1>4

LEMMA AgentsTypeInit == ASSUME AgentsAssumption, Init PROVE TypeInv /\ Placed
BY DEF AgentsAssumption, Init, TypeInv, Placed, Nothing, Stages, Live, Settled

LEMMA AgentsTypeStep ==
  ASSUME AgentsAssumption, TypeInv, Placed, [Next]_vars
  PROVE  TypeInv' /\ Placed'
<1> USE DEF vars, json, reading, tables, actors, requests, history
<1> DEFINE Goal == TypeInv' /\ Placed'
<1>0. run \in [Runs -> Run]
  BY DEF TypeInv, Run
<1>1. CASE UNCHANGED vars \/ Quiet
  BY <1>1 DEF Quiet, TypeInv, Placed
<1>2. CASE Edit
  <2>1. edits' \in 0..MaxEdits /\ edits' = edits + 1
    BY <1>2 DEF Edit, TypeInv, AgentsAssumption
  <2>2. desired' \subseteq Names /\ token' \in [Names -> 0..MaxEdits]
    BY <1>2, <2>1 DEF Edit, TypeInv
  <2> QED
    BY <1>2, <2>1, <2>2 DEF Edit, TypeInv, Placed
<1>3. CASE Notice
  <2>1. PICK seen \in {desired, {}} :
       /\ todo' = [start |-> {n \in seen : ~Present(n)},
                   stop  |-> {n \in Names \ seen : Present(n)},
                   check |-> {n \in seen : Present(n)}]
       /\ failed' = (failed \ seen) \cup (desired \ seen)
    BY <1>3 DEF Notice
  <2>2. /\ todo' \in [start : SUBSET Names, stop : SUBSET Names, check : SUBSET Names]
        /\ failed' \subseteq Names /\ todo'.start \subseteq Names /\ todo'.stop \subseteq Names
    BY <2>1 DEF TypeInv
  <2>3. clash' \subseteq Names /\ changed' \in BOOLEAN
    BY <1>3, <2>2 DEF Notice, TypeInv
  <2> QED
    BY <1>3, <2>2, <2>3 DEF Notice, TypeInv, Placed
<1>4. CASE CancelAll
  BY <1>4 DEF CancelAll, TypeInv, Placed, Settled
<1>13. CASE WatcherFails
  <2>1. watching' = FALSE /\ todo' = Nothing
    BY <1>13 DEF WatcherFails
  <2>2. todo' \in [start : SUBSET Names, stop : SUBSET Names, check : SUBSET Names]
    BY <2>1 DEF Nothing
  <2> QED
    BY <1>13, <2>1, <2>2, FailsStep DEF TypeInv, Placed
<1>5. ASSUME NEW a \in Actors, Command(a) PROVE Goal
  <2>1. PICK n \in Names :
       /\ commanded' = commanded \cup {n}
       /\ \/ Present(n) /\ StopBegins(a, n) /\ UNCHANGED again
          \/ /\ ~Present(n) /\ n \in desired /\ Enter(a, n, "creating")
             /\ UNCHANGED <<tasks, run, again>>
          \/ /\ Present(n) /\ n \in desired /\ StopBegins(a, n)
             /\ again' = again \cup {a}
    BY <1>5 DEF Command
  <2>2. again' \subseteq Actors
    BY <2>1 DEF TypeInv
  <2>3. PICK s \in Stages : Enter(a, n, s)
    BY <2>1 DEF StopBegins, Stages
  <2>4. tasks' \in [Names -> Runs \cup {NoRun}] /\ run' \in [Runs -> Run]
    BY <1>0, <2>1, StopType DEF TypeInv
  <2>5. \A r \in Runs : run'[r].phase \in Live => run'[r] = run[r]
    <3>1. CASE StopBegins(a, n)
      BY <3>1, StopType DEF Live
    <3>2. CASE UNCHANGED run
      BY <3>2
    <3> QED
      BY <2>1, <3>1, <3>2
  <2>8. loaded' \in [Actors -> [Names -> 0..MaxEdits]]
    BY <1>5 DEF Command, TypeInv
  <2>6. TypeInv'
    BY <1>5, <2>1, <2>2, <2>3, <2>4, <2>8, EnterType DEF Command, TypeInv, Run
  <2>7. Placed'
    BY <2>3, <2>5, EnterType DEF Placed
  <2> QED
    BY <2>6, <2>7
<1>6. ASSUME NEW a \in Actors, Created(a) PROVE Goal
  <2> DEFINE n == target[a]
  <2>1. n \in Names /\ stage' \in [Actors -> Stages]
    BY <1>6 DEF Created, Placed, TypeInv, Stages
  <2>2. \A b \in Actors : stage'[b] # "idle" => stage[b] # "idle"
    BY <1>6 DEF Created, TypeInv
  <2>3. CASE failed' = failed \cup {n} /\ UNCHANGED <<tables, run>>
    BY <1>6, <2>1, <2>2, <2>3 DEF Created, TypeInv, Placed
  <2>4. ASSUME NEW r \in Runs,
          run' = [run EXCEPT ![r] = [of |-> n, token |-> loaded[a][n], crashes |-> 0,
                                     phase |-> "running"]],
          stacks' = [stacks EXCEPT ![n] = r], tasks' = [tasks EXCEPT ![n] = r],
          handler' = [handler EXCEPT ![n] = r], bus' = bus \cup {n},
          UNCHANGED failed
        PROVE Goal
    <3>1. [of |-> n, token |-> loaded[a][n], crashes |-> 0, phase |-> "running"] \in Run
      BY <2>1 DEF Run, Live, TypeInv, AgentsAssumption
    <3>2. run' \in [Runs -> Run]
      BY <1>0, <2>4, <3>1
    <3>3. /\ stacks' \in [Names -> Runs \cup {NoRun}] /\ tasks' \in [Names -> Runs \cup {NoRun}]
          /\ handler' \in [Names -> Runs \cup {NoRun}] /\ bus' \subseteq Names
      BY <2>1, <2>4 DEF TypeInv
    <3>4. Placed'
      BY <1>0, <1>6, <2>1, <2>2, <2>4 DEF Created, Placed, AgentsAssumption, TypeInv
    <3> QED
      BY <1>6, <2>1, <2>4, <3>2, <3>3, <3>4 DEF Created, TypeInv, Run
  <2> QED
    BY <1>6, <2>3, <2>4 DEF Created
<1>7. ASSUME NEW a \in Actors, StopCloses(a) PROVE Goal
  BY <1>7 DEF StopCloses, TypeInv, Placed, Stages
<1>8. ASSUME NEW a \in Actors, StopEnds(a) PROVE Goal
  BY <1>8 DEF StopEnds, TypeInv, Placed, Stages
<1>9. ASSUME NEW n \in Names, Sync(n) PROVE Goal
  <2>0. Watcher \in Actors
    BY DEF Actors
  <2>1. again' \subseteq Actors
    BY <1>9, <2>0, SyncSplits DEF TypeInv
  <2>2. todo' \in [start : SUBSET Names, stop : SUBSET Names, check : SUBSET Names]
    BY <1>9, SyncSplits
  <2>3. UNCHANGED <<json, changed, reading, stacks, bus, handler, requests, failed, commanded>>
    BY <1>9, SyncSplits
  <2>4. tasks' \in [Names -> Runs \cup {NoRun}] /\ run' \in [Runs -> Run]
    BY <1>0, <1>9, <2>0, SyncSplits, StopType DEF TypeInv
  <2>5. \A r \in Runs : run'[r].phase \in Live => run'[r] = run[r]
    <3>1. CASE StopBegins(Watcher, n)
      BY <2>0, <3>1, StopType DEF Live
    <3>2. CASE UNCHANGED run
      BY <3>2
    <3> QED
      BY <1>9, <3>1, <3>2, SyncSplits
  <2>6. CASE UNCHANGED <<stage, target, clash>>
    BY <2>1, <2>2, <2>3, <2>4, <2>5, <2>6 DEF TypeInv, Placed, Run
  <2>7. ASSUME NEW s \in Stages, Enter(Watcher, n, s) PROVE Goal
    <3>1. TypeInv'
      BY <2>0, <2>1, <2>2, <2>3, <2>4, <2>7, EnterType DEF TypeInv, Run
    <3>2. Placed'
      BY <2>0, <2>5, <2>7, EnterType DEF Placed
    <3> QED
      BY <3>1, <3>2
  <2> QED
    BY <1>9, <2>6, <2>7, SyncSplits DEF StopBegins, Stages
<1>10. ASSUME NEW r \in Runs, Crash(r) PROVE Goal
  <2>1. run[r].phase \in Live /\ run[r] \in Run /\ MaxRetries \in Nat
    BY <1>0, <1>10, AgentsAssumption DEF Crash, Live
  <2>2. run[r].crashes \in 0..MaxRetries
    BY <2>1 DEF Run
  <2>3. CASE run[r].crashes = MaxRetries
    <3>1. run' = [run EXCEPT ![r] = Over(run[r])]
      BY <1>10, <2>3 DEF Crash
    <3>2. Over(run[r]) \in Run /\ Over(run[r]).phase \notin Live
      BY <2>1, OverRun DEF Live
    <3>3. run' \in [Runs -> Run] /\ Placed'
      BY <1>0, <1>10, <3>1, <3>2 DEF Crash, Placed
    <3> QED
      BY <1>10, <3>3 DEF Crash, TypeInv, Run
  <2>4. CASE run[r].crashes # MaxRetries
    <3> DEFINE next == [run[r] EXCEPT !.phase = "backoff", !.crashes = run[r].crashes + 1]
    <3>1. run' = [run EXCEPT ![r] = next]
      BY <1>10, <2>4 DEF Crash
    <3>2. run[r].crashes + 1 \in 0..MaxRetries
      BY <2>1, <2>2, <2>4
    <3>3. next \in Run /\ next.of = run[r].of
      BY <2>1, <3>2 DEF Run, Live
    <3> HIDE DEF next
    <3>4. run' \in [Runs -> Run]
      BY <1>0, <3>1, <3>3
    <3>5. Placed'
      BY <1>0, <1>10, <2>1, <3>1, <3>3 DEF Crash, Placed
    <3> QED
      BY <1>10, <3>4, <3>5 DEF Crash, TypeInv, Run
  <2> QED
    BY <2>3, <2>4
<1>11. ASSUME NEW r \in Runs, Rebuild(r) \/ Rebuilt(r) \/ Exit(r) PROVE Goal
  <2>1. run[r].phase \in Live /\ run[r].of \in Names
    BY <1>11 DEF Rebuild, Rebuilt, Exit, Placed, Live
  <2>2. run' \in [Runs -> Run]
    <3>1. CASE Exit(r)
      BY <1>0, <3>1, OverRun DEF Exit
    <3>2. CASE Rebuild(r) \/ Rebuilt(r)
      BY <1>0, <3>2, AgentsAssumption DEF Rebuild, Rebuilt, Phase, Run, Live
    <3> QED
      BY <1>11, <3>1, <3>2
  <2>3. run'[r].of = run[r].of /\ \A s \in Runs \ {r} : run'[s] = run[s]
    BY <1>0, <1>11 DEF Rebuild, Rebuilt, Exit, Phase, Over, Run
  <2>4. Placed'
    <3>1. UNCHANGED <<stage, target>>
      BY <1>11 DEF Rebuild, Rebuilt, Exit
    <3> QED
      BY <2>1, <2>3, <3>1 DEF Placed
  <2>5. /\ stacks' \in [Names -> Runs \cup {NoRun}] /\ handler' \in [Names -> Runs \cup {NoRun}]
        /\ bus' \subseteq Names
    <3>1. /\ stacks \in [Names -> Runs \cup {NoRun}] /\ handler \in [Names -> Runs \cup {NoRun}]
          /\ bus \subseteq Names
      BY DEF TypeInv
    <3>2. CASE Rebuilt(r)
      BY <2>1, <3>1, <3>2 DEF Rebuilt
    <3>3. CASE Rebuild(r) \/ Exit(r)
      BY <3>1, <3>3 DEF Rebuild, Exit
    <3> QED
      BY <1>11, <3>2, <3>3
  <2> QED
    BY <1>11, <2>2, <2>4, <2>5 DEF Rebuild, Rebuilt, Exit, TypeInv, Run
<1>12. ASSUME NEW q \in Requests, Send(q) \/ Work(q) \/ Worked(q) \/ Deliver(q) PROVE Goal
  <2>1. /\ ask' \in [Requests -> {"new", "accepted", "working", "result"} \cup Settled]
        /\ sender' \in [Requests -> Names \cup {Main, NoName}]
        /\ recipient' \in [Requests -> Names \cup {Main, NoName}]
    <3>1. /\ ask \in [Requests -> {"new", "accepted", "working", "result"} \cup Settled]
          /\ sender \in [Requests -> Names \cup {Main, NoName}]
          /\ recipient \in [Requests -> Names \cup {Main, NoName}]
      BY DEF TypeInv
    <3>2. CASE Send(q)
      BY <3>1, <3>2 DEF Send, Asking, Settled
    <3>3. CASE Work(q) \/ Worked(q) \/ Deliver(q)
      BY <3>1, <3>3 DEF Work, Worked, Deliver, Asking, Settled
    <3> QED
      BY <1>12, <3>2, <3>3
  <2> QED
    BY <1>12, <2>1 DEF Send, Work, Worked, Deliver, TypeInv, Placed
<1> QED
  BY <1>1, <1>2, <1>3, <1>4, <1>5, <1>6, <1>7, <1>8, <1>9, <1>10, <1>11, <1>12,
     <1>13 DEF Next

-----------------------------------------------------------------------------
(* The actors.                                                               *)

\* An actor that begins with an agent is alone there, or there is a clash; the other
\* agents keep theirs.
LEMMA Arrival ==
  ASSUME TypeInv, NEW a \in Actors, NEW n \in Names, NEW s \in Stages \ {"idle"},
         stage[a] = "idle", Enter(a, n, s)
  PROVE  /\ clash \subseteq clash'
         /\ \A m \in Names \ {n} : At(m)' = At(m)
         /\ At(n)' = At(n) \cup {a} /\ stage'[a] = s
         /\ n \notin clash' => Bound(n) \subseteq {a} /\ At(n) = {} /\ At(n)' = {a}
<1>1. /\ clash \subseteq clash' /\ stage'[a] = s /\ target'[a] = n
      /\ \A b \in Actors \ {a} : stage'[b] = stage[b] /\ target'[b] = target[b]
  BY EnterType
<1>2. n \notin clash' => Bound(n) \subseteq {a}
  BY EnterType
<1>3. \A m \in Names \ {n} : At(m)' = At(m)
  BY <1>1 DEF At
<1>4. At(n)' = At(n) \cup {a} /\ a \notin At(n)
  BY <1>1 DEF At
<1>5. n \notin clash' => At(n) = {}
  BY <1>2, <1>4 DEF Bound
<1> QED
  BY <1>1, <1>2, <1>3, <1>4, <1>5

\* An actor that goes on with an agent, or is done with it.
LEMMA Progress ==
  ASSUME TypeInv, NEW a \in Actors, stage[a] # "idle", NEW s \in Stages,
         stage' = [stage EXCEPT ![a] = s], UNCHANGED target
  PROVE  \A m \in Names : /\ At(m)' \subseteq At(m)
                          /\ m # target[a] => At(m)' = At(m)
                          /\ At(m) \ {a} \subseteq At(m)'
                          /\ \A b \in Actors \ {a} : stage'[b] = stage[b]
                          /\ stage'[a] = s /\ a \in At(target[a])
BY DEF At, TypeInv

\* The steps of the actors by what they do to the sets At and to the watcher's list.
LEMMA ActorKinds ==
  ASSUME TypeInv, [Next]_vars
  PROVE  \/ UNCHANGED <<stage, target, todo, clash, stacks>>
         \/ \E r \in Runs : Rebuilt(r)
         \/ Notice \/ WatcherFails
         \/ \E a \in Actors : Command(a) \/ Created(a) \/ StopCloses(a) \/ StopEnds(a)
         \/ \E n \in Names : Sync(n)
BY DEF Next, vars, json, reading, tables, actors, requests, history, Edit, CancelAll, Quiet,
       Crash, Rebuild, Exit, Send, Work, Worked, Deliver

LEMMA CommandSplits ==
  ASSUME TypeInv, NEW a \in Actors, Command(a)
  PROVE  /\ a \in Commands /\ stage[a] = "idle" /\ UNCHANGED <<todo, stacks, bus, handler>>
         /\ \E n \in Names :
              \/ Present(n) /\ StopBegins(a, n)
              \/ ~Present(n) /\ Enter(a, n, "creating") /\ UNCHANGED <<tasks, run>>
BY DEF Command

LEMMA WatcherStep ==
  ASSUME AgentsAssumption, TypeInv, WatcherTakes, [Next]_vars
  PROVE  WatcherTakes'
<1>0. Watcher \in Actors
  BY DEF Actors
<1>1. CASE UNCHANGED <<stage, target, todo>>
  BY <1>1 DEF WatcherTakes
<1>2. CASE Notice
  BY <1>2 DEF Notice, WatcherFree, WatcherTakes
<1>3. ASSUME NEW a \in Actors, Command(a) PROVE WatcherTakes'
  <2>1. a # Watcher /\ todo' = todo
    BY <1>3, CommandSplits DEF AgentsAssumption
  <2>2. PICK n \in Names, s \in Stages : Enter(a, n, s)
    BY <1>3, CommandSplits DEF StopBegins, Stages
  <2>3. stage'[Watcher] = stage[Watcher] /\ target'[Watcher] = target[Watcher]
    BY <1>0, <2>1, <2>2, EnterType
  <2> QED
    BY <2>1, <2>3 DEF WatcherTakes
<1>4. ASSUME NEW a \in Actors, Created(a) \/ StopCloses(a) \/ StopEnds(a) PROVE WatcherTakes'
  <2>1. /\ todo' = todo /\ target' = target /\ stage[a] # "idle"
        /\ \A b \in Actors \ {a} : stage'[b] = stage[b]
    BY <1>4 DEF Created, StopCloses, StopEnds, TypeInv
  <2> QED
    BY <1>0, <2>1 DEF WatcherTakes
<1>5. ASSUME NEW n \in Names, Sync(n) PROVE WatcherTakes'
  <2>1. stage[Watcher] = "idle" /\ todo'.start = todo.start \ {n}
    BY <1>5, SyncSplits
  <2>2. CASE UNCHANGED <<stage, target>>
    BY <2>1, <2>2 DEF WatcherTakes
  <2>3. ASSUME NEW s \in Stages, Enter(Watcher, n, s) PROVE WatcherTakes'
    <3>1. target'[Watcher] = n
      BY <1>0, <2>3, EnterType
    <3> QED
      BY <2>1, <3>1 DEF WatcherTakes
  <2> QED
    BY <1>5, <2>2, <2>3, SyncSplits DEF StopBegins, Stages
<1>6. ASSUME NEW r \in Runs, Rebuilt(r) PROVE WatcherTakes'
  BY <1>1, <1>6 DEF Rebuilt, actors
<1>7. CASE WatcherFails
  BY <1>7, FailsStep DEF WatcherTakes
<1> QED
  BY <1>1, <1>2, <1>3, <1>4, <1>5, <1>6, <1>7, ActorKinds

\* While an agent without a clash waits for its start nobody is at work on it.
LEMMA Awaited ==
  ASSUME AgentsAssumption, TypeInv, WatcherTakes, OneActor,
         NEW n \in Names \ clash, n \in todo.start
  PROVE  At(n) = {} /\ ~Present(n)
<1>1. Watcher \in Bound(n)
  BY DEF Bound
<1>2. At(n) \subseteq {Watcher}
  BY <1>1 DEF OneActor, Bound
<1>3. Watcher \notin At(n)
  BY DEF At, WatcherTakes
<1> QED
  BY <1>2, <1>3 DEF OneActor

LEMMA OneActorStep ==
  ASSUME AgentsAssumption, TypeInv, Placed, WatcherTakes, OneActor, TablesHold, [Next]_vars
  PROVE  OneActor'
<1>0. Watcher \in Actors
  BY DEF Actors
<1> SUFFICES ASSUME NEW n \in Names, n \notin clash'
             PROVE  /\ \A a, b \in Bound(n)' : a = b
                    /\ n \in todo'.start => ~Present(n)'
  BY DEF OneActor
<1> DEFINE Goal == /\ \A a, b \in Bound(n)' : a = b
                   /\ n \in todo'.start => ~Present(n)'
<1>1. CASE UNCHANGED <<stage, target, todo, clash, stacks>>
  BY <1>1 DEF OneActor, Bound, At, Present
<1>2. CASE Notice
  <2>1. /\ clash' = clash \cup {m \in todo'.start \cup todo'.stop : At(m) # {}}
        /\ UNCHANGED <<stage, target, stacks>>
    BY <1>2 DEF Notice, tables
  <2>2. At(n)' = At(n) /\ Present(n)' = Present(n)
    BY <2>1 DEF At, Present
  <2>3. n \in todo'.start \cup todo'.stop => At(n) = {}
    BY <2>1
  <2>4. \A a, b \in At(n) : a = b
    BY <2>1 DEF OneActor, Bound
  <2>5. n \in todo'.start => ~Present(n)
    BY <1>2 DEF Notice
  <2> QED
    BY <2>2, <2>3, <2>4, <2>5 DEF Bound
<1>3. ASSUME NEW a \in Actors, NEW m \in Names, NEW s \in Stages \ {"idle"},
             stage[a] = "idle", Enter(a, m, s),
             todo'.start \subseteq todo.start, todo'.stop \subseteq todo.stop, UNCHANGED stacks
      PROVE  Goal
  <2>1. clash \subseteq clash'
    BY <1>3, Arrival
  <2>2. n # m => At(n)' = At(n)
    BY <1>3, Arrival
  <2>3. n = m => Bound(n) \subseteq {a} /\ At(n)' = {a}
    BY <1>3, Arrival
  <2>4. Present(n)' = Present(n)
    BY <1>3 DEF Present
  <2>5. n = m => Bound(n)' \subseteq {a}
    BY <1>3, <2>3 DEF Bound
  <2>6. n # m => Bound(n)' \subseteq Bound(n)
    BY <1>3, <2>2 DEF Bound
  <2> QED
    BY <1>3, <2>1, <2>4, <2>5, <2>6 DEF OneActor
<1>4. ASSUME NEW a \in Actors, Command(a) PROVE Goal
  <2>1. stage[a] = "idle" /\ todo' = todo /\ UNCHANGED stacks
    BY <1>4, CommandSplits
  <2>2. PICK m \in Names, s \in Stages \ {"idle"} : Enter(a, m, s)
    BY <1>4, CommandSplits DEF StopBegins, Stages
  <2> QED
    BY <1>3, <2>1, <2>2
<1>5. ASSUME NEW m \in Names, Sync(m) PROVE Goal
  <2>1. /\ stage[Watcher] = "idle" /\ todo'.start \subseteq todo.start
        /\ todo'.stop \subseteq todo.stop /\ UNCHANGED stacks
    BY <1>5, SyncSplits
  <2>2. CASE UNCHANGED <<stage, target, clash>>
    <3>1. Bound(n)' \subseteq Bound(n)
      BY <2>1, <2>2 DEF Bound, At
    <3>2. Present(n)' = Present(n)
      BY <2>1 DEF Present
    <3> QED
      BY <2>1, <2>2, <3>1, <3>2 DEF OneActor
  <2>3. ASSUME NEW s \in Stages \ {"idle"}, Enter(Watcher, m, s) PROVE Goal
    BY <1>0, <1>3, <2>1, <2>3
  <2> QED
    BY <1>5, <2>2, <2>3, SyncSplits DEF StopBegins, Stages
<1>6. ASSUME NEW a \in Actors, Created(a) \/ StopCloses(a) \/ StopEnds(a) PROVE Goal
  <2>1. PICK s \in Stages : stage' = [stage EXCEPT ![a] = s]
    BY <1>6 DEF Created, StopCloses, StopEnds, Stages
  <2>2. stage[a] # "idle" /\ target' = target /\ todo' = todo /\ clash' = clash
    BY <1>6 DEF Created, StopCloses, StopEnds, history
  <2>3. At(n)' \subseteq At(n)
    BY <2>1, <2>2, Progress
  <2>4. Bound(n)' \subseteq Bound(n)
    BY <2>2, <2>3 DEF Bound
  <2>5. n \in todo.start => ~Present(n)'
    <3> SUFFICES ASSUME n \in todo.start PROVE ~Present(n)'
      OBVIOUS
    <3>1. At(n) = {} /\ ~Present(n)
      BY <2>2, Awaited
    <3>2. target[a] # n
      BY <2>2, <3>1 DEF At
    <3>3. stacks'[n] = stacks[n]
      BY <1>6, <3>2 DEF Created, StopCloses, StopEnds, tables, TypeInv
    <3> QED
      BY <3>1, <3>3 DEF Present
  <2> QED
    BY <2>2, <2>4, <2>5 DEF OneActor
<1>7. ASSUME NEW r \in Runs, Rebuilt(r) PROVE Goal
  <2>1. UNCHANGED <<stage, target, todo, clash>>
    BY <1>7 DEF Rebuilt, actors, history
  <2>2. Bound(n)' = Bound(n)
    BY <2>1 DEF Bound, At
  <2>3. n \in todo.start => ~Present(n)'
    <3> SUFFICES ASSUME n \in todo.start PROVE ~Present(n)'
      OBVIOUS
    <3>1. At(n) = {} /\ ~Present(n)
      BY <2>1, Awaited
    <3>2. LiveRuns(n) \subseteq {NoRun}
      BY <2>1, <3>1 DEF TablesHold, Consistent, Present
    <3>3. r \in LiveRuns(run[r].of)
      BY <1>7 DEF Rebuilt, LiveRuns, Live
    <3>4. run[r].of # n
      BY <3>2, <3>3 DEF AgentsAssumption
    <3>5. stacks'[n] = stacks[n]
      BY <1>7, <3>4 DEF Rebuilt, TypeInv
    <3> QED
      BY <3>1, <3>5 DEF Present
  <2> QED
    BY <2>1, <2>2, <2>3 DEF OneActor
<1>8. CASE WatcherFails
  <2>1. Bound(n)' \subseteq Bound(n) /\ todo'.start = {} /\ clash' = clash
    BY <1>8, FailsStep DEF Nothing, history
  <2> QED
    BY <2>1 DEF OneActor
<1> QED
  BY <1>1, <1>2, <1>4, <1>5, <1>6, <1>7, <1>8, ActorKinds

-----------------------------------------------------------------------------
(* The tables.                                                               *)

\* The tables of an agent that a step leaves alone.
LEMMA Untouched ==
  ASSUME NEW n \in Names, Consistent(n),
         stacks'[n] = stacks[n], tasks'[n] = tasks[n], handler'[n] = handler[n],
         n \in bus' <=> n \in bus, At(n)' = At(n),
         \A a \in At(n) : stage'[a] = stage[a], LiveRuns(n)' \subseteq LiveRuns(n)
  PROVE  Consistent(n)'
<1>1. Present(n)' <=> Present(n)
  BY DEF Present
<1> QED
  BY <1>1 DEF Consistent

\* Who stops an agent that nobody works on.
LEMMA StoppedTables ==
  ASSUME AgentsAssumption, TypeInv, NEW n \in Names, Consistent(n), At(n) = {},
         NEW a \in Actors, StopBegins(a, n), At(n)' = {a}, stage'[a] = "cancelling",
         UNCHANGED <<stacks, bus, handler>>
  PROVE  Consistent(n)'
<1>1. /\ tasks'[n] = NoRun
      /\ \A r \in Runs : /\ run'[r] = run[r] \/ run'[r].phase = "over"
                         /\ run'[r].of = run[r].of
                         /\ r = tasks[n] => run'[r].phase \notin Live
  BY StopType
<1>2. LiveRuns(n)' = {}
  <2> SUFFICES ASSUME NEW r \in Runs, run'[r].of = n, run'[r].phase \in Live PROVE FALSE
    BY DEF LiveRuns
  <2>1. run'[r] = run[r]
    BY <1>1 DEF Live
  <2>2. r = tasks[n]
    BY <2>1 DEF Consistent, LiveRuns
  <2> QED
    BY <1>1, <2>2
<1>3. Present(n)' <=> Present(n)
  BY DEF Present
<1> QED
  BY <1>1, <1>2, <1>3 DEF Consistent

LEMMA TablesStep ==
  ASSUME AgentsAssumption, TypeInv, Placed, WatcherTakes, OneActor, TablesHold, [Next]_vars
  PROVE  TablesHold'
<1> USE DEF json, reading, tables, actors, requests, history
<1>0. Watcher \in Actors /\ run \in [Runs -> Run]
  BY DEF Actors, TypeInv, Run
<1> SUFFICES ASSUME NEW n \in Names, n \notin clash' PROVE Consistent(n)'
  BY DEF TablesHold
<1>1. CASE UNCHANGED <<tables, run, stage, target, clash>>
  BY <1>1, Untouched DEF TablesHold, At, LiveRuns
<1>2. CASE Notice
  <2>1. UNCHANGED <<tables, run, stage, target>> /\ clash \subseteq clash'
    BY <1>2 DEF Notice
  <2> QED
    BY <2>1, Untouched DEF TablesHold, At, LiveRuns
<1>3. ASSUME NEW a \in Actors, NEW m \in Names, stage[a] = "idle", clash \subseteq clash',
             UNCHANGED <<stacks, bus, handler>>,
             \/ StopBegins(a, m)
             \/ /\ Enter(a, m, "creating") /\ UNCHANGED <<tasks, run>>
                /\ m \notin clash => ~Present(m)
      PROVE  Consistent(n)'
  <2>1. PICK s \in {"creating", "cancelling"} : Enter(a, m, s)
    BY <1>3 DEF StopBegins
  <2>2. s \in Stages \ {"idle"}
    BY DEF Stages
  <2>3. /\ \A k \in Names \ {m} : At(k)' = At(k)
        /\ m \notin clash' => At(m) = {} /\ At(m)' = {a}
        /\ stage'[a] = s
    BY <1>3, <2>1, <2>2, Arrival
  <2>4. Consistent(n)
    BY <1>3 DEF TablesHold
  <2>5. CASE n # m
    <3>1. \A b \in At(n) : stage'[b] = stage[b]
      <4>1. \A b \in Actors \ {a} : stage'[b] = stage[b]
        BY <2>1, <2>2, EnterType
      <4> QED
        BY <1>3, <4>1 DEF At
    <3>2. tasks'[n] = tasks[n] /\ LiveRuns(n)' \subseteq LiveRuns(n)
      <4>1. CASE StopBegins(a, m)
        <5>1. \A k \in Names \ {m} : tasks'[k] = tasks[k]
          BY <4>1, StopType
        <5>2. \A r \in Runs : run'[r] = run[r] \/ run'[r].phase = "over"
          BY <4>1, StopType
        <5> QED
          BY <2>5, <5>1, <5>2 DEF LiveRuns, Live
      <4>2. CASE UNCHANGED <<tasks, run>>
        BY <4>2 DEF LiveRuns
      <4> QED
        BY <1>3, <4>1, <4>2
    <3> QED
      BY <1>3, <2>3, <2>4, <2>5, <3>1, <3>2, Untouched
  <2>6. CASE n = m
    <3>1. At(n) = {} /\ At(n)' = {a}
      BY <2>3, <2>6
    <3>2. CASE StopBegins(a, m)
      <4>1. stage'[a] = "cancelling"
        BY <1>3, <3>2, EnterType DEF StopBegins, Stages
      <4> QED
        BY <1>3, <2>4, <2>6, <3>1, <3>2, <4>1, StoppedTables
    <3>3. CASE Enter(a, m, "creating") /\ UNCHANGED <<tasks, run>> /\ ~Present(m)
      <4>1. /\ tasks[n] = NoRun /\ n \notin bus /\ LiveRuns(n) \subseteq {tasks[n]}
        BY <2>4, <2>6, <3>1, <3>3 DEF Consistent, Present
      <4>2. LiveRuns(n)' = LiveRuns(n) /\ (Present(n)' <=> Present(n))
        BY <1>3, <3>3 DEF LiveRuns, Present
      <4> QED
        BY <1>3, <2>6, <3>1, <3>3, <4>1, <4>2 DEF Consistent
    <3> QED
      BY <1>3, <2>6, <3>2, <3>3
  <2> QED
    BY <2>5, <2>6
<1>4. ASSUME NEW a \in Actors, Command(a) PROVE Consistent(n)'
  <2>1. stage[a] = "idle" /\ UNCHANGED <<stacks, bus, handler>>
    BY <1>4, CommandSplits
  <2>2. PICK m \in Names : \/ Present(m) /\ StopBegins(a, m)
                           \/ ~Present(m) /\ Enter(a, m, "creating") /\ UNCHANGED <<tasks, run>>
    BY <1>4, CommandSplits
  <2>3. clash \subseteq clash'
    BY <2>2 DEF StopBegins, Enter
  <2> QED
    BY <1>3, <2>1, <2>2, <2>3
<1>5. ASSUME NEW m \in Names, Sync(m) PROVE Consistent(n)'
  <2>1. stage[Watcher] = "idle" /\ UNCHANGED <<stacks, bus, handler>>
    BY <1>5, SyncSplits
  <2>2. CASE UNCHANGED <<stage, target, tasks, run, again, clash>>
    BY <1>1, <2>1, <2>2
  <2>3. CASE m \in todo.start /\ Enter(Watcher, m, "creating") /\ UNCHANGED <<tasks, run>>
    <3>1. m \notin clash => ~Present(m)
      BY <2>3 DEF OneActor
    <3>2. clash \subseteq clash'
      BY <2>3 DEF Enter
    <3> QED
      BY <1>0, <1>3, <2>1, <2>3, <3>1, <3>2
  <2>4. CASE StopBegins(Watcher, m)
    <3>1. clash \subseteq clash'
      BY <2>4 DEF StopBegins, Enter
    <3> QED
      BY <1>0, <1>3, <2>1, <2>4, <3>1
  <2> QED
    BY <1>5, <2>2, <2>3, <2>4, SyncSplits
<1>6. ASSUME NEW a \in Actors, Created(a) \/ StopCloses(a) \/ StopEnds(a) PROVE Consistent(n)'
  <2>1. PICK s \in Stages : stage' = [stage EXCEPT ![a] = s]
    BY <1>6 DEF Created, StopCloses, StopEnds, Stages
  <2>2. stage[a] # "idle" /\ target' = target /\ clash' = clash /\ target[a] \in Names
    BY <1>6 DEF Created, StopCloses, StopEnds, Placed
  <2>3. Consistent(n)
    BY <2>2 DEF TablesHold
  <2>4. CASE target[a] # n
    <3>1. At(n)' = At(n) /\ \A b \in At(n) : stage'[b] = stage[b]
      BY <2>1, <2>2, <2>4, Progress DEF At
    <3>2. /\ stacks'[n] = stacks[n] /\ tasks'[n] = tasks[n] /\ handler'[n] = handler[n]
          /\ n \in bus' <=> n \in bus
      BY <1>6, <2>4 DEF Created, StopCloses, StopEnds, TypeInv
    <3>3. LiveRuns(n)' \subseteq LiveRuns(n)
      BY <1>0, <1>6, <2>4 DEF Created, StopCloses, StopEnds, LiveRuns
    <3> QED
      BY <2>3, <3>1, <3>2, <3>3, Untouched
  <2>5. CASE target[a] = n
    <3>1. At(n) = {a}
      <4>1. a \in At(n)
        BY <2>2, <2>5 DEF At
      <4> QED
        BY <2>2, <4>1 DEF OneActor, Bound
    <3>2. At(n)' \subseteq {a} /\ stage'[a] = s
      BY <2>1, <2>2, <3>1, Progress
    <3>3. tasks[n] = NoRun /\ LiveRuns(n) = {}
      BY <2>3, <3>1 DEF Consistent, LiveRuns, AgentsAssumption
    <3>4. CASE StopCloses(a)
      <4>1. /\ stacks'[n] = NoRun /\ tasks' = tasks /\ run' = run
            /\ stage'[a] = "closing"
        BY <2>5, <3>4 DEF StopCloses, TypeInv
      <4>2. At(n)' = {a}
        BY <2>2, <2>5, <3>2, <4>1 DEF At
      <4> QED
        BY <3>3, <4>1, <4>2 DEF Consistent, Present, LiveRuns
    <3>5. CASE StopEnds(a)
      <4>1. ~Present(n) /\ n \notin bus' /\ UNCHANGED <<stacks, tasks, run>>
        BY <2>3, <2>5, <3>1, <3>5 DEF StopEnds, Consistent
      <4>2. stage'[a] \in {"creating", "idle"}
        BY <3>5 DEF StopEnds, TypeInv
      <4> QED
        BY <3>2, <3>3, <4>1, <4>2 DEF Consistent, Present, LiveRuns
    <3>6. CASE Created(a)
      <4>1. ~Present(n) /\ n \notin bus
        BY <2>3, <3>1, <3>6 DEF Consistent, Created
      <4>2. At(n)' = {}
        <5>1. stage'[a] = "idle"
          BY <3>6 DEF Created, TypeInv
        <5> QED
          BY <3>2, <5>1 DEF At
      <4>3. CASE UNCHANGED <<tables, run>>
        BY <3>3, <4>1, <4>2, <4>3 DEF Consistent, Present, LiveRuns
      <4>4. ASSUME NEW r \in Runs,
              run' = [run EXCEPT ![r] = [of |-> n, token |-> loaded[a][n], crashes |-> 0,
                                         phase |-> "running"]],
              stacks' = [stacks EXCEPT ![n] = r], tasks' = [tasks EXCEPT ![n] = r],
              handler' = [handler EXCEPT ![n] = r], bus' = bus \cup {n}
            PROVE Consistent(n)'
        <5>1. stacks'[n] = r /\ tasks'[n] = r /\ handler'[n] = r /\ n \in bus' /\ r # NoRun
          BY <4>4 DEF TypeInv, AgentsAssumption
        <5>2. LiveRuns(n)' \subseteq {r}
          BY <1>0, <3>3, <4>4 DEF LiveRuns
        <5> QED
          BY <4>2, <5>1, <5>2 DEF Consistent, Present
      <4> QED
        BY <2>5, <3>6, <4>3, <4>4 DEF Created
    <3> QED
      BY <1>6, <3>4, <3>5, <3>6
  <2> QED
    BY <2>4, <2>5
<1>7. ASSUME NEW r \in Runs, Crash(r) \/ Rebuild(r) \/ Exit(r) PROVE Consistent(n)'
  <2>1. UNCHANGED <<tables, stage, target, clash>> /\ run[r].phase \in Live
    BY <1>7 DEF Crash, Rebuild, Exit, Live
  <2>2. run'[r].of = run[r].of /\ \A k \in Runs \ {r} : run'[k] = run[k]
    BY <1>0, <1>7, SupervisedStep
  <2>3. LiveRuns(n)' \subseteq LiveRuns(n)
    BY <2>1, <2>2 DEF LiveRuns
  <2>4. At(n)' = At(n)
    BY <2>1 DEF At
  <2> QED
    BY <2>1, <2>3, <2>4, Untouched DEF TablesHold
<1>8. ASSUME NEW r \in Runs, Rebuilt(r) PROVE Consistent(n)'
  <2>1. UNCHANGED <<tasks, stage, target, clash>> /\ run[r].phase \in Live /\ run[r].of \in Names
    BY <1>8 DEF Rebuilt, Live, Placed
  <2>2. run'[r].of = run[r].of /\ \A k \in Runs \ {r} : run'[k] = run[k]
    BY <1>0, <1>8 DEF Rebuilt, Phase, Run
  <2>3. LiveRuns(n)' \subseteq LiveRuns(n) /\ At(n)' = At(n)
    BY <2>1, <2>2 DEF LiveRuns, At
  <2>4. Consistent(n)
    BY <2>1 DEF TablesHold
  <2>5. CASE run[r].of # n \/ UNCHANGED <<stacks, handler, bus>>
    <3>1. /\ stacks'[n] = stacks[n] /\ handler'[n] = handler[n] /\ (n \in bus' <=> n \in bus)
      BY <1>8, <2>1, <2>5 DEF Rebuilt, TypeInv
    <3> QED
      BY <2>1, <2>3, <2>4, <3>1, Untouched
  <2>6. CASE run[r].of = n /\ ~UNCHANGED <<stacks, handler, bus>>
    <3>1. r = tasks[n] /\ r # NoRun
      BY <2>1, <2>4, <2>6 DEF Consistent, LiveRuns, AgentsAssumption
    <3>2. At(n) = {} /\ stacks[n] = r /\ n \in bus
      BY <2>4, <3>1 DEF Consistent, Present
    <3>3. stacks'[n] = r /\ handler'[n] = r /\ n \in bus'
      BY <1>8, <2>6 DEF Rebuilt, TypeInv
    <3>4. LiveRuns(n)' \subseteq {tasks'[n]}
      BY <2>1, <2>3, <2>4 DEF Consistent
    <3> QED
      BY <2>1, <2>3, <3>1, <3>2, <3>3, <3>4 DEF Consistent, Present
  <2> QED
    BY <2>5, <2>6
<1>9. CASE Edit \/ CancelAll \/ Quiet \/ UNCHANGED vars
  BY <1>1, <1>9 DEF Edit, CancelAll, Quiet, vars
<1>10. ASSUME NEW q \in Requests, Send(q) \/ Work(q) \/ Worked(q) \/ Deliver(q)
       PROVE  Consistent(n)'
  BY <1>1, <1>10 DEF Send, Work, Worked, Deliver
<1>11. CASE WatcherFails
  <2>1. /\ UNCHANGED <<tables, run, target, clash>> /\ At(n)' = At(n) \ {Watcher}
        /\ \A b \in Actors \ {Watcher} : stage'[b] = stage[b]
    BY <1>11, FailsStep
  <2>2. Consistent(n)
    BY <2>1 DEF TablesHold
  <2>3. (Present(n)' <=> Present(n)) /\ LiveRuns(n)' = LiveRuns(n)
    BY <2>1 DEF Present, LiveRuns
  <2>4. CASE Watcher \in At(n)
    <3>1. At(n)' = {}
      BY <2>1, <2>4 DEF OneActor, Bound
    <3>2. stage[Watcher] = "creating"
      BY <1>11, <2>4, FailsStep DEF At
    <3> QED
      BY <2>1, <2>2, <2>3, <2>4, <3>1, <3>2 DEF Consistent, Present
  <2>5. CASE Watcher \notin At(n)
    <3>1. At(n)' = At(n) /\ \A b \in At(n) : stage'[b] = stage[b]
      BY <2>1, <2>5 DEF At
    <3> QED
      BY <2>1, <2>2, <2>3, <3>1, Untouched
  <2> QED
    BY <2>4, <2>5
<1> QED
  BY <1>2, <1>4, <1>5, <1>6, <1>7, <1>8, <1>9, <1>10, <1>11 DEF Next

-----------------------------------------------------------------------------
(* What the supervisor and the bus promise.                                  *)

\* AgentsInv holds in every state of the supervisor.
THEOREM AgentsAlways == Spec => []AgentsInv
<1>1. Init => AgentsInv
  <2> SUFFICES ASSUME Init PROVE AgentsInv
    OBVIOUS
  <2>1. TypeInv /\ Placed
    BY AgentsAssumption, AgentsTypeInit
  <2>2. WatcherTakes /\ OneActor
    BY DEF Init, WatcherTakes, OneActor, Bound, At, Nothing, Actors
  <2>3. TablesHold
    BY AgentsAssumption DEF Init, TablesHold, Consistent, At, LiveRuns, Live, Present
  <2> QED
    BY <2>1, <2>2, <2>3 DEF AgentsInv
<1>2. AgentsInv /\ [Next]_vars => AgentsInv'
  BY AgentsAssumption, AgentsTypeStep, WatcherStep, OneActorStep, TablesStep DEF AgentsInv
<1> QED
  BY <1>1, <1>2, PTL DEF Spec

\* The tables, the runs, the actors and the requests keep their types; above all, no
\* run is tried again after more than MaxRetries crashes in a row.
THEOREM AgentsTypeCorrect == Spec => []TypeInv
<1>1. AgentsInv => TypeInv
  BY DEF AgentsInv
<1> QED
  BY <1>1, AgentsAlways, PTL

\* Between operations that did not overlap an agent has at most one run, and _tasks,
\* _stacks and the bus agree on it.
THEOREM AgentTablesAgree == Spec => []TablesAgree
<1>1. AgentsInv => TablesAgree
  BY DEF AgentsInv, TablesHold, Consistent, TablesAgree
<1> QED
  BY <1>1, AgentsAlways, PTL

\* A result goes to the present run of its sender.
THEOREM ResultsReachTheRun == Spec => []ResultsReachTheSender
<1>1. AgentsInv => ResultsReachTheSender
  BY DEF AgentsInv, TablesHold, Consistent, ResultsReachTheSender
<1> QED
  BY <1>1, AgentsAlways, PTL
-----------------------------------------------------------------------------
(* What the watcher achieves.                                                *)

\* An agent is what agents.json says: there with its present identity, or not there.
InSync(n) ==
  IF n \in desired THEN Present(n) /\ run[stacks[n]].token = token[n] ELSE ~Present(n)

\* At an agent that no command was given for there is nobody but the watcher.
LeftToWatcher(n) == At(n) \subseteq {Watcher} /\ n \notin clash

\* The watcher starts agents again only in the course of a restart.
AgainIsRestart == Watcher \in again => stage[Watcher] \in {"cancelling", "closing"}

\* The watcher is at it: with a start, a restart or a stop.
BringsUp(n) ==
  At(n) # {} /\ (stage[Watcher] = "creating" \/ Watcher \in again)
TakesDown(n) ==
  At(n) # {} /\ stage[Watcher] \in {"cancelling", "closing"} /\ Watcher \notin again

\* What is not in sync is on the watcher's list or under its hands, and only that.
Pursued(n) ==
  IF n \in desired
  THEN /\ n \notin todo.stop /\ ~TakesDown(n)
       /\ n \in todo.start \/ (n \in todo.check /\ Present(n)) \/ BringsUp(n) \/ InSync(n)
  ELSE /\ n \notin todo.start \cup todo.check /\ ~BringsUp(n)
       /\ n \in todo.stop \/ TakesDown(n) \/ InSync(n)

\* The stack of an agent belongs to a run that has begun.
StacksHaveRun == \A n \in Names : Present(n) => run[stacks[n]].phase # "unused"

SyncInv ==
  /\ AgainIsRestart /\ StacksHaveRun
  /\ \A n \in Names \ commanded : LeftToWatcher(n)
  /\ watching /\ ~changed =>
       /\ loaded[Watcher] = token
       /\ \A n \in Names \ (commanded \cup failed) : Pursued(n)

\* When the watcher has seen the last edit of agents.json and has nothing left to do,
\* every agent is what the file says, but for those a command was given for, that
\* could not be created, or that an unreadable file has stopped; and unless an
\* exception has ended the watcher.
QuietIsInSync ==
  watching /\ WatcherFree /\ ~changed => \A n \in Names \ (commanded \cup failed) : InSync(n)

\* The claim about an agent that a step leaves alone.
LEMMA StillPursued ==
  ASSUME NEW n \in Names, Pursued(n), UNCHANGED desired,
         stacks'[n] = stacks[n], token'[n] = token[n],
         Present(n) => run'[stacks[n]].token = run[stacks[n]].token,
         At(n)' = At(n),
         At(n) # {} => stage'[Watcher] = stage[Watcher] /\ (Watcher \in again' <=> Watcher \in again),
         n \in todo'.start <=> n \in todo.start, n \in todo'.stop <=> n \in todo.stop,
         n \in todo'.check <=> n \in todo.check
  PROVE  Pursued(n)'
<1>1. Present(n)' <=> Present(n)
  BY DEF Present
<1>2. InSync(n)' <=> InSync(n)
  BY <1>1 DEF InSync, Present
<1>3. (BringsUp(n)' <=> BringsUp(n)) /\ (TakesDown(n)' <=> TakesDown(n))
  BY DEF BringsUp, TakesDown
<1> QED
  BY <1>1, <1>2, <1>3 DEF Pursued

\* If somebody is at such an agent it is the watcher.
LEMMA WatcherIsAt ==
  ASSUME NEW n \in Names, LeftToWatcher(n), NEW a \in Actors, stage[a] # "idle", target[a] = n
  PROVE  a = Watcher /\ At(n) = {Watcher}
BY DEF LeftToWatcher, At

LEMMA AgainStep ==
  ASSUME AgentsAssumption, TypeInv, AgainIsRestart, [Next]_vars
  PROVE  AgainIsRestart'
<1>0. Watcher \in Actors
  BY DEF Actors
<1>1. CASE UNCHANGED <<stage, again>>
  BY <1>1 DEF AgainIsRestart
<1>2. ASSUME NEW a \in Actors, Command(a) PROVE AgainIsRestart'
  <2>1. a # Watcher
    BY <1>2, CommandSplits DEF AgentsAssumption
  <2>2. PICK m \in Names, s \in Stages : Enter(a, m, s)
    BY <1>2, CommandSplits DEF StopBegins, Stages
  <2>3. stage'[Watcher] = stage[Watcher]
    BY <1>0, <2>1, <2>2, EnterType
  <2>4. again' \subseteq again \cup {a}
    BY <1>2 DEF Command
  <2> QED
    BY <2>1, <2>3, <2>4 DEF AgainIsRestart
<1>3. ASSUME NEW a \in Actors, Created(a) \/ StopCloses(a) PROVE AgainIsRestart'
  <2>1. again' = again
    BY <1>3 DEF Created, StopCloses
  <2>2. stage'[Watcher] = stage[Watcher] \/ Watcher \notin again \/ stage'[Watcher] = "closing"
    BY <1>0, <1>3 DEF Created, StopCloses, TypeInv, AgainIsRestart
  <2> QED
    BY <2>1, <2>2 DEF AgainIsRestart
<1>4. ASSUME NEW a \in Actors, StopEnds(a) PROVE AgainIsRestart'
  BY <1>0, <1>4 DEF StopEnds, TypeInv, AgainIsRestart
<1>5. ASSUME NEW n \in Names, Sync(n) PROVE AgainIsRestart'
  <2>1. stage[Watcher] = "idle" /\ Watcher \notin again
    BY <1>5 DEF Sync, AgainIsRestart
  <2>2. CASE UNCHANGED again
    BY <2>1, <2>2 DEF AgainIsRestart
  <2>3. CASE StopBegins(Watcher, n)
    BY <1>0, <2>3, EnterType DEF StopBegins, Stages, AgainIsRestart
  <2> QED
    BY <1>5, <2>2, <2>3, SyncSplits
<1>6. CASE Edit \/ Notice \/ CancelAll \/ Quiet \/ UNCHANGED vars
  BY <1>1, <1>6 DEF Edit, Notice, CancelAll, Quiet, vars, actors
<1>7. ASSUME NEW r \in Runs, Crash(r) \/ Rebuild(r) \/ Rebuilt(r) \/ Exit(r) PROVE AgainIsRestart'
  BY <1>1, <1>7 DEF Crash, Rebuild, Rebuilt, Exit, actors
<1>8. ASSUME NEW q \in Requests, Send(q) \/ Work(q) \/ Worked(q) \/ Deliver(q) PROVE AgainIsRestart'
  BY <1>1, <1>8 DEF Send, Work, Worked, Deliver, actors
<1>9. CASE WatcherFails
  BY <1>9, FailsStep DEF AgainIsRestart
<1> QED
  BY <1>2, <1>3, <1>4, <1>5, <1>6, <1>7, <1>8, <1>9 DEF Next

\* A run that has begun keeps its identity, and is never unused again.
LEMMA RunsKeep ==
  ASSUME AgentsAssumption, TypeInv, [Next]_vars
  PROVE  \A r \in Runs : run[r].phase # "unused" =>
           run'[r].phase # "unused" /\ run'[r].token = run[r].token
<1> USE DEF Run
<1>0. run \in [Runs -> Run]
  BY DEF TypeInv
<1>1. CASE UNCHANGED run
  BY <1>1
<1>2. ASSUME NEW a \in Actors, NEW n \in Names, StopBegins(a, n)
      PROVE  \A r \in Runs : run[r].phase # "unused" =>
               run'[r].phase # "unused" /\ run'[r].token = run[r].token
  BY <1>0, <1>2, OverRun DEF StopBegins
<1>3. ASSUME NEW a \in Actors, Created(a)
      PROVE  \A r \in Runs : run[r].phase # "unused" =>
               run'[r].phase # "unused" /\ run'[r].token = run[r].token
  <2>1. CASE UNCHANGED run
    BY <2>1
  <2>2. ASSUME NEW r \in Runs, IsNext(r),
               run' = [run EXCEPT ![r] = [of |-> target[a], token |-> loaded[a][target[a]],
                                          crashes |-> 0, phase |-> "running"]]
        PROVE  \A k \in Runs : run[k].phase # "unused" =>
                 run'[k].phase # "unused" /\ run'[k].token = run[k].token
    <3>1. run[r].phase = "unused"
      BY <2>2 DEF IsNext, Unused
    <3> QED
      BY <1>0, <2>2, <3>1
  <2> QED
    BY <1>3, <2>1, <2>2 DEF Created
<1>4. ASSUME NEW k \in Runs, Crash(k) \/ Rebuild(k) \/ Rebuilt(k) \/ Exit(k)
      PROVE  \A r \in Runs : run[r].phase # "unused" =>
               run'[r].phase # "unused" /\ run'[r].token = run[r].token
  BY <1>0, <1>4, SupervisedStep DEF Live
<1>5. ASSUME NEW a \in Actors, Command(a)
      PROVE  \A r \in Runs : run[r].phase # "unused" =>
               run'[r].phase # "unused" /\ run'[r].token = run[r].token
  <2>1. (\E n \in Names : StopBegins(a, n)) \/ UNCHANGED run
    BY <1>5, CommandSplits
  <2> QED
    BY <1>1, <1>2, <2>1
<1>6. ASSUME NEW n \in Names, Sync(n)
      PROVE  \A r \in Runs : run[r].phase # "unused" =>
               run'[r].phase # "unused" /\ run'[r].token = run[r].token
  BY <1>1, <1>2, <1>6, SyncSplits DEF Actors
<1>7. CASE Edit \/ Notice \/ WatcherFails \/ CancelAll \/ Quiet \/ UNCHANGED vars
  BY <1>1, <1>7 DEF Edit, Notice, WatcherFails, CancelAll, Quiet, vars
<1>8. ASSUME NEW a \in Actors, StopCloses(a) \/ StopEnds(a) PROVE UNCHANGED run
  BY <1>8 DEF StopCloses, StopEnds
<1>9. ASSUME NEW q \in Requests, Send(q) \/ Work(q) \/ Worked(q) \/ Deliver(q) PROVE UNCHANGED run
  BY <1>9 DEF Send, Work, Worked, Deliver
<1> QED
  BY <1>1, <1>3, <1>4, <1>5, <1>6, <1>7, <1>8, <1>9 DEF Next

\* Only a new run, or one that is rebuilt, gets a stack.
LEMMA NewStacks ==
  ASSUME AgentsAssumption, TypeInv, Placed, [Next]_vars, NEW n \in Names
  PROVE  stacks'[n] \in {stacks[n], NoRun} \/ run'[stacks'[n]].phase = "running"
<1> USE DEF tables, vars
<1>0. run \in [Runs -> Run]
  BY DEF TypeInv, Run
<1>1. ASSUME NEW a \in Actors, Created(a)
      PROVE  stacks'[n] \in {stacks[n], NoRun} \/ run'[stacks'[n]].phase = "running"
  BY <1>0, <1>1 DEF Created, TypeInv
<1>2. ASSUME NEW a \in Actors, Command(a) \/ StopCloses(a) \/ StopEnds(a)
      PROVE  stacks'[n] \in {stacks[n], NoRun}
  BY <1>2 DEF Command, StopCloses, StopEnds, TypeInv
<1>3. ASSUME NEW r \in Runs, Rebuilt(r)
      PROVE  stacks'[n] \in {stacks[n], NoRun} \/ run'[stacks'[n]].phase = "running"
  <2>1. run'[r].phase = "running"
    BY <1>0, <1>3 DEF Rebuilt, Phase, Run
  <2> QED
    BY <1>3, <2>1 DEF Rebuilt, TypeInv
<1>4. ASSUME NEW r \in Runs, Crash(r) \/ Rebuild(r) \/ Exit(r) PROVE stacks' = stacks
  BY <1>4 DEF Crash, Rebuild, Exit
<1>5. ASSUME NEW q \in Requests, Send(q) \/ Work(q) \/ Worked(q) \/ Deliver(q) PROVE stacks' = stacks
  BY <1>5 DEF Send, Work, Worked, Deliver
<1>6. ASSUME NEW m \in Names, Sync(m) PROVE stacks' = stacks
  BY <1>6 DEF Sync
<1>7. CASE Edit \/ Notice \/ WatcherFails \/ CancelAll \/ Quiet \/ UNCHANGED vars
  BY <1>7 DEF Edit, Notice, WatcherFails, CancelAll, Quiet
<1> QED
  BY <1>1, <1>2, <1>3, <1>4, <1>5, <1>6, <1>7 DEF Next

LEMMA StacksHaveRunStep ==
  ASSUME AgentsAssumption, TypeInv, Placed, StacksHaveRun, [Next]_vars
  PROVE  StacksHaveRun'
<1> SUFFICES ASSUME NEW n \in Names, stacks'[n] # NoRun PROVE run'[stacks'[n]].phase # "unused"
  BY DEF StacksHaveRun, Present
<1>1. CASE stacks'[n] = stacks[n]
  <2>1. stacks[n] \in Runs /\ run[stacks[n]].phase # "unused"
    BY <1>1 DEF StacksHaveRun, Present, TypeInv
  <2> QED
    BY <1>1, <2>1, RunsKeep
<1> QED
  BY <1>1, NewStacks

\* What a step of the actors does to an agent that no command was given for.
LEMMA LeftStep ==
  ASSUME AgentsAssumption, TypeInv, \A n \in Names \ commanded : LeftToWatcher(n), [Next]_vars,
         NEW n \in Names \ commanded'
  PROVE  n \notin commanded /\ LeftToWatcher(n)'
<1> USE DEF history, actors
<1>0. Watcher \in Actors
  BY DEF Actors
<1>1. CASE UNCHANGED <<stage, target, clash, commanded>>
  BY <1>1 DEF LeftToWatcher, At
<1>2. ASSUME NEW a \in Actors, Command(a) PROVE n \notin commanded /\ LeftToWatcher(n)'
  <2>1. PICK m \in Names : /\ commanded' = commanded \cup {m}
                           /\ \E s \in Stages \ {"idle"} : Enter(a, m, s)
    BY <1>2 DEF Command, StopBegins, Stages
  <2>2. n # m /\ n \notin commanded
    BY <2>1
  <2>3. At(n)' = At(n)
    BY <1>2, <2>1, <2>2, CommandSplits, Arrival
  <2>4. n \notin clash'
    BY <2>1, <2>2 DEF Enter, LeftToWatcher
  <2> QED
    BY <2>2, <2>3, <2>4 DEF LeftToWatcher
<1>3. ASSUME NEW a \in Actors, Created(a) \/ StopCloses(a) \/ StopEnds(a)
      PROVE  n \notin commanded /\ LeftToWatcher(n)'
  <2>1. PICK s \in Stages : stage' = [stage EXCEPT ![a] = s]
    BY <1>3 DEF Created, StopCloses, StopEnds, Stages
  <2>2. stage[a] # "idle" /\ UNCHANGED <<target, clash, commanded>>
    BY <1>3 DEF Created, StopCloses, StopEnds
  <2>3. At(n)' \subseteq At(n)
    BY <2>1, <2>2, Progress
  <2> QED
    BY <2>2, <2>3 DEF LeftToWatcher
<1>4. ASSUME NEW m \in Names, Sync(m) PROVE n \notin commanded /\ LeftToWatcher(n)'
  <2>1. stage[Watcher] = "idle" /\ UNCHANGED commanded
    BY <1>4, SyncSplits
  <2>2. n \notin commanded /\ At(n) = {} /\ Bound(n) \subseteq {Watcher} /\ n \notin clash
    BY <2>1 DEF LeftToWatcher, At, Bound
  <2>3. CASE UNCHANGED <<stage, target, clash>>
    BY <1>1, <2>1, <2>3
  <2>4. ASSUME NEW s \in Stages \ {"idle"}, Enter(Watcher, m, s) PROVE LeftToWatcher(n)'
    <3>1. At(n)' \subseteq {Watcher}
      BY <1>0, <2>1, <2>2, <2>4, Arrival
    <3>2. n \notin clash'
      BY <2>2, <2>4 DEF Enter
    <3> QED
      BY <3>1, <3>2 DEF LeftToWatcher
  <2> QED
    BY <1>4, <2>2, <2>3, <2>4, SyncSplits DEF StopBegins, Stages
<1>5. CASE Notice
  <2>1. /\ stage[Watcher] = "idle" /\ UNCHANGED <<stage, target, commanded>>
        /\ clash' = clash \cup {m \in todo'.start \cup todo'.stop : At(m) # {}}
    BY <1>5 DEF Notice, WatcherFree
  <2>2. n \notin commanded /\ At(n) = {} /\ n \notin clash
    BY <2>1 DEF LeftToWatcher, At
  <2>3. At(n)' = At(n)
    BY <2>1 DEF At
  <2> QED
    BY <2>1, <2>2, <2>3 DEF LeftToWatcher
<1>6. CASE Edit \/ CancelAll \/ Quiet \/ UNCHANGED vars
  BY <1>1, <1>6 DEF Edit, CancelAll, Quiet, vars
<1>7. ASSUME NEW r \in Runs, Crash(r) \/ Rebuild(r) \/ Rebuilt(r) \/ Exit(r)
      PROVE  UNCHANGED <<stage, target, clash, commanded>>
  BY <1>7 DEF Crash, Rebuild, Rebuilt, Exit
<1>8. ASSUME NEW q \in Requests, Send(q) \/ Work(q) \/ Worked(q) \/ Deliver(q)
      PROVE  UNCHANGED <<stage, target, clash, commanded>>
  BY <1>8 DEF Send, Work, Worked, Deliver
<1>9. CASE WatcherFails
  BY <1>9, FailsStep DEF LeftToWatcher
<1> QED
  BY <1>1, <1>2, <1>3, <1>4, <1>5, <1>6, <1>7, <1>8, <1>9 DEF Next

\* What the watcher has read is what is in the file that it has seen.
LEMMA LoadedStep ==
  ASSUME AgentsAssumption, TypeInv, [Next]_vars, watching', ~changed',
         watching /\ ~changed => loaded[Watcher] = token
  PROVE  watching /\ loaded'[Watcher] = token'
<1> USE DEF json, reading
<1>0. Watcher \in Actors /\ loaded \in [Actors -> [Names -> 0..MaxEdits]]
  BY DEF Actors, TypeInv
<1>1. CASE UNCHANGED <<json, reading, changed>>
  BY <1>1
<1>2. CASE Notice
  BY <1>0, <1>2 DEF Notice
<1>3. ASSUME NEW a \in Actors, Command(a) PROVE watching /\ loaded'[Watcher] = token'
  <2>1. a # Watcher /\ UNCHANGED <<json, changed, watching>>
    BY <1>3 DEF Command, AgentsAssumption
  <2>2. loaded' = loaded \/ loaded' = [loaded EXCEPT ![a] = token]
    BY <1>3 DEF Command
  <2> QED
    BY <1>0, <2>1, <2>2
<1>4. CASE WatcherFails \/ Edit
  BY <1>4 DEF WatcherFails, Edit
<1>5. CASE CancelAll \/ Quiet \/ UNCHANGED vars
  BY <1>1, <1>5 DEF CancelAll, Quiet, vars
<1>6. ASSUME NEW a \in Actors, Created(a) \/ StopCloses(a) \/ StopEnds(a)
      PROVE  UNCHANGED <<json, reading, changed>>
  BY <1>6 DEF Created, StopCloses, StopEnds
<1>7. ASSUME NEW n \in Names, Sync(n) PROVE UNCHANGED <<json, reading, changed>>
  BY <1>7 DEF Sync
<1>8. ASSUME NEW r \in Runs, Crash(r) \/ Rebuild(r) \/ Rebuilt(r) \/ Exit(r)
      PROVE  UNCHANGED <<json, reading, changed>>
  BY <1>8 DEF Crash, Rebuild, Rebuilt, Exit
<1>9. ASSUME NEW q \in Requests, Send(q) \/ Work(q) \/ Worked(q) \/ Deliver(q)
      PROVE  UNCHANGED <<json, reading, changed>>
  BY <1>9 DEF Send, Work, Worked, Deliver
<1> QED
  BY <1>1, <1>2, <1>3, <1>4, <1>5, <1>6, <1>7, <1>8, <1>9 DEF Next

\* What the watcher has found is pursued until it is done.
LEMMA PursuedStep ==
  ASSUME AgentsAssumption, AgentsInv, SyncInv, [Next]_vars, watching', ~changed',
         NEW n \in Names \ (commanded' \cup failed')
  PROVE  Pursued(n)'
<1> USE DEF json, reading, tables, actors, requests, history
<1>0. /\ Watcher \in Actors /\ TypeInv /\ Placed /\ WatcherTakes /\ OneActor /\ TablesHold
      /\ run \in [Runs -> Run] /\ AgainIsRestart /\ StacksHaveRun
  BY DEF Actors, AgentsInv, SyncInv, TypeInv, Run
<1>1. n \notin commanded /\ LeftToWatcher(n)
  <2>1. \A m \in Names \ commanded : LeftToWatcher(m)
    BY DEF SyncInv
  <2>2. n \notin commanded
    BY <1>0, <2>1, LeftStep
  <2> QED
    BY <2>1, <2>2
<1>2. n \notin clash /\ Consistent(n)
  BY <1>0, <1>1 DEF LeftToWatcher, TablesHold
<1>3. Present(n) => /\ stacks[n] \in Runs
                    /\ run[stacks[n]].phase # "unused" /\ run'[stacks[n]].token = run[stacks[n]].token
  BY <1>0, RunsKeep DEF Present, StacksHaveRun, TypeInv
<1>4. CASE Notice
  <2>1. PICK seen \in {desired, {}} :
       /\ todo' = [start |-> {m \in seen : ~Present(m)},
                   stop  |-> {m \in Names \ seen : Present(m)},
                   check |-> {m \in seen : Present(m)}]
       /\ failed' = (failed \ seen) \cup (desired \ seen)
    BY <1>4 DEF Notice
  <2>2. /\ stage[Watcher] = "idle"
        /\ UNCHANGED <<json, tables, run, stage, target, again>>
    BY <1>4 DEF Notice, WatcherFree
  <2>3. At(n) = {}
    BY <1>1, <2>2 DEF LeftToWatcher, At
  <2>4. At(n)' = {} /\ (Present(n)' <=> Present(n))
    BY <2>2, <2>3 DEF At, Present
  <2>5. n \in desired <=> n \in seen
    BY <2>1
  <2> QED
    BY <2>1, <2>2, <2>4, <2>5 DEF Pursued, BringsUp, TakesDown, InSync
<1>6. watching
  BY <1>0, LoadedStep DEF SyncInv
<1>5. CASE ~Notice
  <2>0. ~changed /\ n \notin failed /\ UNCHANGED json
    <3>1. CASE UNCHANGED <<changed, failed, json>>
      BY <3>1
    <3>2. ASSUME NEW a \in Actors, Created(a) PROVE ~changed /\ n \notin failed /\ UNCHANGED json
      BY <3>2 DEF Created
    <3>3. ASSUME NEW a \in Actors, Command(a) \/ StopCloses(a) \/ StopEnds(a)
          PROVE  UNCHANGED <<changed, failed, json>>
      BY <3>3 DEF Command, StopCloses, StopEnds
    <3>4. ASSUME NEW m \in Names, Sync(m) PROVE UNCHANGED <<changed, failed, json>>
      BY <3>4 DEF Sync
    <3>5. ASSUME NEW r \in Runs, Crash(r) \/ Rebuild(r) \/ Rebuilt(r) \/ Exit(r)
          PROVE  UNCHANGED <<changed, failed, json>>
      BY <3>5 DEF Crash, Rebuild, Rebuilt, Exit
    <3>6. ASSUME NEW q \in Requests, Send(q) \/ Work(q) \/ Worked(q) \/ Deliver(q)
          PROVE  UNCHANGED <<changed, failed, json>>
      BY <3>6 DEF Send, Work, Worked, Deliver
    <3>7. CASE CancelAll \/ Quiet \/ UNCHANGED vars
      BY <3>1, <3>7 DEF CancelAll, Quiet, vars
    <3>8. CASE Edit \/ WatcherFails
      BY <3>8 DEF Edit, WatcherFails
    <3> QED
      BY <1>5, <3>1, <3>2, <3>3, <3>4, <3>5, <3>6, <3>7, <3>8 DEF Next
  <2>1. Pursued(n) /\ loaded[Watcher][n] = token[n]
    BY <1>1, <1>6, <2>0 DEF SyncInv
  <2>2. CASE UNCHANGED <<stacks, stage, target, todo, again>>
    <3>1. At(n)' = At(n)
      BY <2>2 DEF At
    <3> QED
      BY <1>3, <2>0, <2>1, <2>2, <3>1, StillPursued
  <2>3. ASSUME NEW a \in Actors, Command(a) PROVE Pursued(n)'
    <3>1. PICK m \in Names : /\ commanded' = commanded \cup {m}
                             /\ \E s \in Stages \ {"idle"} : Enter(a, m, s)
      BY <2>3 DEF Command, StopBegins, Stages
    <3>2. n # m /\ a # Watcher /\ UNCHANGED <<stacks, todo>> /\ stage[a] = "idle"
      BY <1>0, <2>3, <3>1, CommandSplits DEF AgentsAssumption
    <3>3. At(n)' = At(n)
      BY <1>0, <3>1, <3>2, Arrival
    <3>4. stage'[Watcher] = stage[Watcher]
      BY <1>0, <3>1, <3>2, EnterType
    <3>5. Watcher \in again' <=> Watcher \in again
      BY <2>3, <3>2 DEF Command
    <3> QED
      BY <1>3, <2>0, <2>1, <3>2, <3>3, <3>4, <3>5, StillPursued
  <2>4. ASSUME NEW a \in Actors, Created(a) \/ StopCloses(a) \/ StopEnds(a), target[a] # n
        PROVE  Pursued(n)'
    <3>1. PICK s \in Stages : stage' = [stage EXCEPT ![a] = s]
      BY <2>4 DEF Created, StopCloses, StopEnds, Stages
    <3>2. stage[a] # "idle" /\ UNCHANGED <<target, todo>> /\ stacks'[n] = stacks[n]
      BY <1>0, <2>4 DEF Created, StopCloses, StopEnds, TypeInv
    <3>3. At(n)' = At(n) /\ \A b \in Actors \ {a} : stage'[b] = stage[b]
      BY <1>0, <2>4, <3>1, <3>2, Progress
    <3>4. At(n) # {} => a # Watcher
      BY <1>1, <2>4 DEF LeftToWatcher, At
    <3>5. a # Watcher => (Watcher \in again' <=> Watcher \in again)
      BY <2>4 DEF Created, StopCloses, StopEnds
    <3> QED
      BY <1>0, <1>3, <2>0, <2>1, <3>2, <3>3, <3>4, <3>5, StillPursued
  <2>5. ASSUME NEW a \in Actors, Created(a) \/ StopCloses(a) \/ StopEnds(a), target[a] = n
        PROVE  Pursued(n)'
    <3>1. a = Watcher /\ At(n) = {Watcher} /\ stage[Watcher] # "idle"
      BY <1>1, <2>5, WatcherIsAt DEF Created, StopCloses, StopEnds
    <3>2. /\ UNCHANGED <<target, todo>> /\ n \notin todo.start
          /\ \A b \in Actors \ {Watcher} : stage'[b] = stage[b]
      <4>1. \A s \in Stages : stage' = [stage EXCEPT ![a] = s] =>
              \A b \in Actors \ {Watcher} : stage'[b] = stage[b]
        BY <1>0, <3>1 DEF TypeInv
      <4>2. \E s \in Stages : stage' = [stage EXCEPT ![a] = s]
        BY <2>5 DEF Created, StopCloses, StopEnds, Stages
      <4>3. UNCHANGED <<target, todo>>
        BY <2>5 DEF Created, StopCloses, StopEnds
      <4> QED
        BY <1>0, <2>5, <3>1, <4>1, <4>2, <4>3 DEF WatcherTakes
    <3>3. At(n)' = IF stage'[Watcher] = "idle" THEN {} ELSE {Watcher}
      BY <1>0, <2>5, <3>1, <3>2 DEF At
    <3>4. CASE StopCloses(Watcher)
      <4>1. stage'[Watcher] = "closing" /\ again' = again /\ stage[Watcher] = "cancelling"
        BY <1>0, <3>4 DEF StopCloses, TypeInv
      <4> QED
        BY <2>0, <2>1, <3>1, <3>2, <3>3, <4>1 DEF Pursued, BringsUp, TakesDown
    <3>5. CASE StopEnds(Watcher)
      <4>1. /\ stage[Watcher] = "closing" /\ stacks' = stacks
            /\ stage'[Watcher] = IF Watcher \in again THEN "creating" ELSE "idle"
        BY <1>0, <3>5 DEF StopEnds, TypeInv
      <4>2. ~Present(n) /\ ~Present(n)'
        BY <1>2, <3>1, <4>1 DEF Consistent, Present
      <4> QED
        BY <2>0, <2>1, <3>1, <3>2, <3>3, <4>1, <4>2 DEF Pursued, BringsUp, TakesDown, InSync
    <3>6. CASE Created(Watcher)
      <4>1. stage[Watcher] = "creating" /\ stage'[Watcher] = "idle"
        BY <1>0, <3>6 DEF Created, TypeInv
      <4>2. n \in desired /\ n \notin todo.stop
        BY <2>1, <3>1, <4>1 DEF Pursued, BringsUp
      <4>3. PICK r \in Runs :
              /\ run' = [run EXCEPT ![r] = [of |-> n, token |-> loaded[a][n], crashes |-> 0,
                                           phase |-> "running"]]
              /\ stacks' = [stacks EXCEPT ![n] = r]
        BY <2>5, <3>1, <3>6 DEF Created
      <4>4. stacks'[n] = r /\ run'[r].token = token[n] /\ r # NoRun
        BY <1>0, <2>1, <3>1, <4>3 DEF TypeInv, Run, AgentsAssumption
      <4>5. InSync(n)'
        BY <2>0, <4>2, <4>4 DEF InSync, Present
      <4> QED
        BY <2>0, <3>2, <3>3, <4>1, <4>2, <4>5 DEF Pursued, TakesDown
    <3> QED
      BY <2>5, <3>1, <3>4, <3>5, <3>6
  <2>6. ASSUME NEW m \in Names, Sync(m) PROVE Pursued(n)'
    <3>1. stage[Watcher] = "idle" /\ UNCHANGED stacks
      BY <1>0, <2>6, SyncSplits
    <3>2. At(n) = {} /\ Watcher \notin again
      BY <1>0, <1>1, <3>1 DEF LeftToWatcher, At, AgainIsRestart
    <3>3. CASE n # m
      <4>1. At(n)' = At(n)
        <5>1. CASE UNCHANGED <<stage, target>>
          BY <5>1 DEF At
        <5>2. ASSUME NEW s \in Stages \ {"idle"}, Enter(Watcher, m, s) PROVE At(n)' = At(n)
          BY <1>0, <3>1, <3>3, <5>2, Arrival
        <5> QED
          BY <1>0, <2>6, <5>1, <5>2, SyncSplits DEF StopBegins, Stages
      <4>2. /\ n \in todo'.start <=> n \in todo.start
            /\ n \in todo'.stop <=> n \in todo.stop
            /\ n \in todo'.check <=> n \in todo.check
        <5>1. \/ todo' = [todo EXCEPT !.start = @ \ {m}]
              \/ todo' = [todo EXCEPT !.stop = @ \ {m}]
              \/ todo' = [todo EXCEPT !.check = @ \ {m}]
          BY <2>6 DEF Sync
        <5>2. todo \in [start : SUBSET Names, stop : SUBSET Names, check : SUBSET Names]
          BY <1>0 DEF TypeInv
        <5> QED
          BY <3>3, <5>1, <5>2
      <4> QED
        BY <1>3, <2>0, <2>1, <3>1, <3>2, <4>1, <4>2, StillPursued
    <3>4. CASE n = m
      <4> DEFINE Entered(s) == /\ At(n)' = {Watcher} /\ stage'[Watcher] = s
      <4>1. ASSUME NEW s \in Stages \ {"idle"}, Enter(Watcher, n, s) PROVE Entered(s)
        BY <1>0, <3>1, <3>2, <4>1, Arrival
      <4>2. CASE /\ n \in todo.start
                 /\ todo' = [todo EXCEPT !.start = @ \ {n}]
                 /\ Enter(Watcher, n, "creating")
        <5>1. Entered("creating")
          BY <4>1, <4>2 DEF Stages
        <5>2. n \in desired /\ n \notin todo.stop /\ todo'.stop = todo.stop
          BY <1>0, <2>1, <4>2 DEF Pursued, TypeInv
        <5> QED
          BY <2>0, <5>1, <5>2 DEF Pursued, BringsUp, TakesDown
      <4>3. CASE /\ n \in todo.stop
                 /\ todo' = [todo EXCEPT !.stop = @ \ {n}]
                 /\ StopBegins(Watcher, n)
                 /\ UNCHANGED again
        <5>1. Entered("cancelling")
          BY <4>1, <4>3 DEF Stages, StopBegins
        <5>2. n \notin desired /\ n \notin todo.start \cup todo.check
              /\ todo'.start = todo.start /\ todo'.check = todo.check
          BY <1>0, <2>1, <4>3 DEF Pursued, TypeInv
        <5> QED
          BY <2>0, <3>2, <4>3, <5>1, <5>2 DEF Pursued, BringsUp, TakesDown
      <4>4. CASE /\ todo.start = {} /\ todo.stop = {} /\ n \in todo.check
                 /\ todo' = [todo EXCEPT !.check = @ \ {n}]
                 /\ IF Present(n) /\ run[stacks[n]].token # loaded[Watcher][n]
                    THEN StopBegins(Watcher, n) /\ again' = again \cup {Watcher}
                    ELSE UNCHANGED <<stage, target, tasks, run, again, clash>>
        <5>1. n \in desired /\ todo'.stop = {}
          BY <1>0, <2>1, <4>4 DEF Pursued, TypeInv
        <5>2. CASE Present(n) /\ run[stacks[n]].token # loaded[Watcher][n]
          <6>1. Entered("cancelling")
            BY <4>1, <4>4, <5>2 DEF Stages, StopBegins
          <6> QED
            BY <2>0, <4>4, <5>1, <5>2, <6>1 DEF Pursued, BringsUp, TakesDown
        <5>3. CASE ~(Present(n) /\ run[stacks[n]].token # loaded[Watcher][n])
          <6>1. InSync(n)
            BY <2>1, <3>2, <4>4, <5>1, <5>3 DEF Pursued, BringsUp, InSync
          <6>2. InSync(n)' /\ At(n)' = {}
            BY <2>0, <3>1, <3>2, <4>4, <5>3, <6>1 DEF InSync, Present, At
          <6> QED
            BY <2>0, <5>1, <6>2 DEF Pursued, TakesDown
        <5> QED
          BY <5>2, <5>3
      <4> QED
        BY <2>6, <3>4, <4>2, <4>3, <4>4 DEF Sync
    <3> QED
      BY <3>3, <3>4
  <2>7. ASSUME NEW r \in Runs, Rebuilt(r) PROVE Pursued(n)'
    <3>1. UNCHANGED <<stage, target, todo, again>> /\ run[r].phase \in Live
      BY <2>7 DEF Rebuilt, Live
    <3>2. At(n)' = At(n)
      BY <3>1 DEF At
    <3>3. stacks'[n] = stacks[n]
      <4>1. CASE run[r].of # n
        BY <1>0, <2>7, <4>1 DEF Rebuilt, TypeInv
      <4>2. CASE run[r].of = n
        <5>1. r = tasks[n] /\ r # NoRun
          BY <1>2, <3>1, <4>2 DEF Consistent, LiveRuns, AgentsAssumption
        <5>2. stacks[n] = r
          BY <1>2, <5>1 DEF Consistent
        <5> QED
          BY <1>0, <2>7, <4>2, <5>2 DEF Rebuilt, TypeInv
      <4> QED
        BY <4>1, <4>2
    <3> QED
      BY <1>3, <2>0, <2>1, <3>1, <3>2, <3>3, StillPursued
  <2>8. CASE Edit \/ WatcherFails \/ CancelAll \/ Quiet \/ UNCHANGED vars
    BY <2>2, <2>8 DEF Edit, WatcherFails, CancelAll, Quiet, vars
  <2>9. ASSUME NEW r \in Runs, Crash(r) \/ Rebuild(r) \/ Exit(r)
        PROVE  UNCHANGED <<stacks, stage, target, todo, again>>
    BY <2>9 DEF Crash, Rebuild, Exit
  <2>10. ASSUME NEW q \in Requests, Send(q) \/ Work(q) \/ Worked(q) \/ Deliver(q)
         PROVE  UNCHANGED <<stacks, stage, target, todo, again>>
    BY <2>10 DEF Send, Work, Worked, Deliver
  <2> QED
    BY <1>5, <2>2, <2>3, <2>4, <2>5, <2>6, <2>7, <2>8, <2>9, <2>10 DEF Next
<1> QED
  BY <1>4, <1>5

\* The watcher has carried out agents.json when it rests: the safety of
\* EventuallyInSync, which also says that it comes to rest.
THEOREM WatcherKeepsInSync == Spec => []QuietIsInSync
<1>1. Init => SyncInv
  BY AgentsAssumption DEF Init, SyncInv, AgainIsRestart, StacksHaveRun, Present, LeftToWatcher, At
<1>2. AgentsInv /\ SyncInv /\ [Next]_vars => SyncInv'
  <2> SUFFICES ASSUME AgentsInv, SyncInv, [Next]_vars PROVE SyncInv'
    OBVIOUS
  <2>1. TypeInv /\ Placed /\ AgainIsRestart /\ StacksHaveRun
    BY DEF AgentsInv, SyncInv
  <2>2. AgainIsRestart' /\ StacksHaveRun'
    BY <2>1, AgentsAssumption, AgainStep, StacksHaveRunStep
  <2>3. \A m \in Names \ commanded' : LeftToWatcher(m)'
    <3>1. \A m \in Names \ commanded : LeftToWatcher(m)
      BY DEF SyncInv
    <3> QED
      BY <2>1, <3>1, AgentsAssumption, LeftStep
  <2>4. watching' /\ ~changed' => \A m \in Names \ (commanded' \cup failed') : Pursued(m)'
    BY AgentsAssumption, PursuedStep
  <2>5. watching' /\ ~changed' => loaded'[Watcher] = token'
    BY <2>1, AgentsAssumption, LoadedStep DEF SyncInv
  <2> QED
    BY <2>2, <2>3, <2>4, <2>5 DEF SyncInv
<1>3. SyncInv => QuietIsInSync
  <2> SUFFICES ASSUME SyncInv, watching, WatcherFree, ~changed, NEW n \in Names \ (commanded \cup failed)
               PROVE  InSync(n)
    BY DEF QuietIsInSync
  <2>1. Pursued(n) /\ LeftToWatcher(n)
    BY DEF SyncInv
  <2>2. At(n) = {}
    BY <2>1 DEF LeftToWatcher, At, WatcherFree
  <2> QED
    BY <2>1, <2>2 DEF Pursued, BringsUp, TakesDown, WatcherFree, Nothing
<1> QED
  BY <1>1, <1>2, <1>3, AgentsAlways, PTL DEF Spec
=============================================================================
