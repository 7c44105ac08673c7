------------------------------- MODULE Agents -------------------------------
(***************************************************************************)
(* The sub-agents of a process: the supervisor that starts, restarts and   *)
(* stops them (multiagent/supervisor.py) as agents.json changes or the     *)
(* user says, and the bus by which one agent asks another and gets the     *)
(* answer later (multiagent/bus.py).                                       *)
(*                                                                         *)
(* Only the watcher of agents.json takes _agents_lock.  The commands do    *)
(* not: an operation of theirs can run beside one of the watcher, or of    *)
(* another command, on the same agent.                                     *)
(***************************************************************************)
EXTENDS Integers, FiniteSets

CONSTANTS
  Names,     \* sub-agents
  Main,      \* the main agent, which is always there
  Runs,      \* bound: the starts of sub-agents, _supervised_run each
  Commands,  \* /agent_start, /agent_stop, /agent_restart
  Watcher,   \* the watcher of agents.json
  Requests,  \* messages sent with send_async
  MaxRetries,\* _MAX_RESTART_RETRIES
  MaxEdits,  \* bound: changes of agents.json
  NoRun, NoName

Actors == Commands \cup {Watcher}

ASSUME AgentsAssumption ==
  /\ Main \notin Names /\ NoName \notin Names
  /\ Watcher \notin Commands
  /\ MaxRetries \in Nat /\ MaxEdits \in Nat
  /\ NoRun \notin Runs

VARIABLES
  desired,  \* agents.json: the agents in it
  token,    \* and their identities (bot token, Matrix user)
  edits,    \* changes of agents.json so far
  changed,  \* its mtime is not the one the watcher has seen
  watching, \* no exception has ended the loop of the watcher
  loaded,   \* the identities in the file as an actor has read it last
  stacks,   \* _stacks: the run a stack belongs to
  tasks,    \* _tasks
  bus,      \* the agents on the bus
  handler,  \* _async_result_handlers
  run,      \* the runs: agent, identity, phase, crashes in a row
  stage,    \* what an actor is doing
  target,   \* to which agent
  todo,     \* what the watcher still has to do
  again,    \* the actors that start the agent once it has stopped
  ask,      \* how far a request is
  sender,   \* whom its result is for (who has sent it, or its reply_to)
  recipient,\* whom it is for
  clash,    \* history: agents on which two operations have overlapped
  failed,   \* history: agents that could not be created, or read, for the watcher
  commanded \* history: agents a command was given for

json == <<desired, token, edits>>
reading == <<watching, loaded>>
tables == <<stacks, tasks, bus, handler>>
actors == <<stage, target, todo, again>>
requests == <<ask, sender, recipient>>
history == <<clash, failed, commanded>>
vars == <<json, changed, reading, tables, run, actors, requests, history>>

Live == {"running", "backoff", "rebuilding"}
Stages == {"idle", "creating", "cancelling", "closing"}

\* The ends of a request: its result is taken in by the bot of the sender, or lost in
\* a handler that raises, or given to a bot that has ended, or to nobody.
Settled == {"answered", "lost", "stale", "dropped", "refused", "cancelled"}

TypeInv ==
  /\ desired \subseteq Names
  /\ token \in [Names -> 0..MaxEdits]
  /\ edits \in 0..MaxEdits /\ changed \in BOOLEAN
  /\ watching \in BOOLEAN /\ loaded \in [Actors -> [Names -> 0..MaxEdits]]
  /\ stacks \in [Names -> Runs \cup {NoRun}]
  /\ tasks \in [Names -> Runs \cup {NoRun}]
  /\ bus \subseteq Names
  /\ handler \in [Names -> Runs \cup {NoRun}]
  /\ run \in [Runs -> [of : Names \cup {NoName}, token : 0..MaxEdits, crashes : 0..MaxRetries,
                       phase : Live \cup {"unused", "created", "over"}]]
  /\ stage \in [Actors -> Stages]
  /\ target \in [Actors -> Names \cup {NoName}]
  /\ todo \in [start : SUBSET Names, stop : SUBSET Names, check : SUBSET Names]
  /\ again \subseteq Actors
  /\ ask \in [Requests -> {"new", "accepted", "working", "result"} \cup Settled]
  /\ sender \in [Requests -> Names \cup {Main, NoName}]
  /\ recipient \in [Requests -> Names \cup {Main, NoName}]
  /\ clash \subseteq Names /\ failed \subseteq Names /\ commanded \subseteq Names

Nothing == [start |-> {}, stop |-> {}, check |-> {}]

\* The supervisor starts: the watcher has not seen agents.json yet.
Init ==
  /\ desired \in SUBSET Names /\ token = [n \in Names |-> 0]
  /\ edits = 0 /\ changed = TRUE
  /\ watching = TRUE /\ loaded = [a \in Actors |-> token]
  /\ stacks = [n \in Names |-> NoRun] /\ tasks = [n \in Names |-> NoRun]
  /\ bus = {} /\ handler = [n \in Names |-> NoRun]
  /\ run = [r \in Runs |-> [of |-> NoName, token |-> 0, crashes |-> 0, phase |-> "unused"]]
  /\ stage = [a \in Actors |-> "idle"] /\ target = [a \in Actors |-> NoName]
  /\ todo = Nothing /\ again = {}
  /\ ask = [q \in Requests |-> "new"] 
  /\ sender = [q \in Requests |-> NoName] /\ recipient = [q \in Requests |-> NoName]
  /\ clash = {} /\ failed = {} /\ commanded = {}

Present(n) == stacks[n] # NoRun
LiveRuns(n) == {r \in Runs : run[r].of = n /\ run[r].phase \in Live}
\* The actors at work on an agent, and those that have decided to be.
At(n) == {a \in Actors : stage[a] # "idle" /\ target[a] = n}
Bound(n) == At(n) \cup {a \in {Watcher} : n \in todo.start \cup todo.stop}

\* Somebody edits agents.json: an agent is added, removed or given a new identity.
Edit ==
  /\ edits < MaxEdits /\ edits' = edits + 1
  /\ changed' = TRUE
  /\ \E n \in Names :
       \/ desired' = desired \cup {n} /\ n \notin desired /\ UNCHANGED token
       \/ desired' = desired \ {n} /\ n \in desired /\ UNCHANGED token
       \/ n \in desired /\ token' = [token EXCEPT ![n] = edits + 1] /\ UNCHANGED desired
  /\ UNCHANGED <<reading, tables, run, actors, requests, history>>

-----------------------------------------------------------------------------
(* Starting and stopping, whoever does it.                                  *)

Enter(a, n, s) ==
  /\ stage' = [stage EXCEPT ![a] = s]
  /\ target' = [target EXCEPT ![a] = n]
  /\ clash' = IF Bound(n) \ {a} = {} THEN clash ELSE clash \cup {n}

\* A run that is over has forgotten its crashes: the counter is local to it.
Over(past) == [past EXCEPT !.phase = "over", !.crashes = 0]

\* stop_agent: the task is taken out and cancelled.
StopBegins(a, n) ==
  /\ Enter(a, n, "cancelling")
  /\ tasks' = [tasks EXCEPT ![n] = NoRun]
  /\ run' = [r \in Runs |-> IF r = tasks[n] /\ run[r].phase \in Live
                           THEN Over(run[r]) ELSE run[r]]

\* The next run to be started.
Unused == {r \in Runs : run[r].phase = "unused"}
IsNext(r) == r \in Unused /\ r = CHOOSE x \in Unused : TRUE

\* The commands.  /agent_start and /agent_restart read agents.json at once, and start
\* the agent as it was there, whatever is written in the meantime.
Command(a) ==
  /\ a \in Commands /\ stage[a] = "idle" /\ target[a] = NoName
  /\ \E n \in Names :
       /\ commanded' = commanded \cup {n}
       /\ \/ Present(n) /\ StopBegins(a, n) /\ UNCHANGED <<again, loaded>>
          \/ /\ ~Present(n) /\ n \in desired /\ Enter(a, n, "creating")
             /\ loaded' = [loaded EXCEPT ![a] = token]
             /\ UNCHANGED <<tasks, run, again>>
          \/ /\ Present(n) /\ n \in desired /\ StopBegins(a, n)
             /\ loaded' = [loaded EXCEPT ![a] = token]
             /\ again' = again \cup {a}
  /\ UNCHANGED <<json, changed, watching, stacks, bus, handler, todo, requests, failed>>

\* Mutant of Created: the first result handler of an agent remains.
CreatedHandlerOnce(a) ==
  LET n == target[a] IN
  /\ stage[a] = "creating"
  /\ stage' = [stage EXCEPT ![a] = "idle"]
  /\ \/ \E r \in Runs :
          /\ IsNext(r)
          /\ run' = [run EXCEPT ![r] = [of |-> n, token |-> loaded[a][n], crashes |-> 0,
                                       phase |-> "running"]]
          /\ stacks' = [stacks EXCEPT ![n] = r] /\ tasks' = [tasks EXCEPT ![n] = r]
          /\ handler' = [handler EXCEPT ![n] = IF @ = NoRun THEN r ELSE @]
          /\ bus' = bus \cup {n}
          /\ UNCHANGED failed
     \/ failed' = failed \cup {n} /\ UNCHANGED <<tables, run>>
  /\ UNCHANGED <<json, changed, reading, target, todo, again, requests, clash, commanded>>

\* _start_sub_agent: the stack is created, of the identity that the actor has read,
\* and then entered into every table; or that has failed.
Created(a) ==
  LET n == target[a] IN
  /\ stage[a] = "creating"
  /\ stage' = [stage EXCEPT ![a] = "idle"]
  /\ \/ \E r \in Runs :
          /\ IsNext(r)
          /\ run' = [run EXCEPT ![r] = [of |-> n, token |-> loaded[a][n], crashes |-> 0,
                                       phase |-> "running"]]
          /\ stacks' = [stacks EXCEPT ![n] = r] /\ tasks' = [tasks EXCEPT ![n] = r]
          /\ handler' = [handler EXCEPT ![n] = r] /\ bus' = bus \cup {n}
          /\ UNCHANGED failed
     \/ failed' = failed \cup {n} /\ UNCHANGED <<tables, run>>
  /\ UNCHANGED <<json, changed, reading, target, todo, again, requests, clash, commanded>>

\* The cancelled task is over; the stack is taken out and shut down.
StopCloses(a) ==
  LET n == target[a] IN
  /\ stage[a] = "cancelling"
  /\ stage' = [stage EXCEPT ![a] = "closing"]
  /\ stacks' = [stacks EXCEPT ![n] = NoRun]
  /\ UNCHANGED <<json, changed, reading, tasks, bus, handler, run, target, todo, again,
                 requests, history>>

\* Mutant of StopEnds: the agent stays on the bus.
StopEndsOnBus(a) ==
  LET n == target[a] IN
  /\ stage[a] = "closing"
  /\ stage' = [stage EXCEPT ![a] = IF a \in again THEN "creating" ELSE "idle"]
  /\ again' = again \ {a}
  /\ UNCHANGED <<json, changed, reading, tables, run, target, todo, requests, history>>

\* It leaves the bus; its result handler stays.
StopEnds(a) ==
  LET n == target[a] IN
  /\ stage[a] = "closing"
  /\ stage' = [stage EXCEPT ![a] = IF a \in again THEN "creating" ELSE "idle"]
  /\ again' = again \ {a}
  /\ bus' = bus \ {n}
  /\ UNCHANGED <<json, changed, reading, stacks, tasks, handler, run, target, todo,
                 requests, history>>

-----------------------------------------------------------------------------
(* The watcher.                                                             *)

WatcherFree == stage[Watcher] = "idle" /\ todo = Nothing

\* Mutant of Notice: only new agents are looked for.
NoticeNewOnly ==
  /\ watching /\ WatcherFree /\ changed
  /\ changed' = FALSE
  /\ loaded' = [loaded EXCEPT ![Watcher] = token]
  /\ \E seen \in {desired, {}} :
       /\ todo' = [start |-> {n \in seen : ~Present(n)}, stop |-> {}, check |-> {}]
       /\ failed' = (failed \ seen) \cup (desired \ seen)
  /\ clash' = clash \cup {n \in todo'.start : At(n) # {}}
  /\ UNCHANGED <<json, watching, tables, run, stage, target, again, requests, commanded>>

\* The mtime is noted first and the file read then; an unreadable file counts as
\* one without agents.
Notice ==
  /\ watching /\ WatcherFree /\ changed
  /\ changed' = FALSE
  /\ loaded' = [loaded EXCEPT ![Watcher] = token]
  /\ \E seen \in {desired, {}} :
       /\ todo' = [start |-> {n \in seen : ~Present(n)},
                   stop  |-> {n \in Names \ seen : Present(n)},
                   check |-> {n \in seen : Present(n)}]
       /\ failed' = (failed \ seen) \cup (desired \ seen)
  /\ clash' = clash \cup {n \in todo'.start \cup todo'.stop : At(n) # {}}
  /\ UNCHANGED <<json, watching, tables, run, stage, target, again, requests, commanded>>

\* New agents first, then those removed, then those with another identity than the
\* one read.  The file is not looked at again, nor is what there is to do.
Sync(n) ==
  /\ stage[Watcher] = "idle"
  /\ \/ /\ n \in todo.start
        /\ todo' = [todo EXCEPT !.start = @ \ {n}]
        /\ Enter(Watcher, n, "creating")
        /\ UNCHANGED <<tasks, run, again>>
     \/ /\ todo.start = {} /\ n \in todo.stop
        /\ todo' = [todo EXCEPT !.stop = @ \ {n}]
        /\ StopBegins(Watcher, n)
        /\ UNCHANGED again
     \/ /\ todo.start = {} /\ todo.stop = {} /\ n \in todo.check
        /\ todo' = [todo EXCEPT !.check = @ \ {n}]
        /\ IF Present(n) /\ run[stacks[n]].token # loaded[Watcher][n]
           THEN StopBegins(Watcher, n) /\ again' = again \cup {Watcher}
           ELSE UNCHANGED <<stage, target, tasks, run, again, clash>>
  /\ UNCHANGED <<json, changed, reading, stacks, bus, handler, requests, failed, commanded>>

\* Nothing between the poll and the tables catches an exception but the creation of a
\* stack: when the file cannot be looked at, a configuration cannot be merged or
\* written, or the shared knowledge cannot be, the watcher has polled for the last time.
WatcherFails ==
  /\ watching /\ stage[Watcher] \in {"idle", "creating"}
  /\ watching' = FALSE
  /\ stage' = [stage EXCEPT ![Watcher] = "idle"]
  /\ todo' = Nothing
  /\ UNCHANGED <<json, changed, loaded, tables, run, target, again, requests, history>>

-----------------------------------------------------------------------------
(* _supervised_run.                                                         *)

Phase(r, p) == run' = [run EXCEPT ![r].phase = p]

\* The bot crashes: it is tried again after a while, a limited number of times.
Crash(r) ==
  /\ run[r].phase = "running"
  /\ run' = [run EXCEPT ![r] =
               IF run[r].crashes = MaxRetries THEN Over(run[r])
               ELSE [run[r] EXCEPT !.phase = "backoff", !.crashes = run[r].crashes + 1]]
  /\ UNCHANGED <<json, changed, reading, tables, actors, requests, history>>

\* The bot asks for a restart, or the waiting is over: the stack is shut down and a
\* new one created.
Rebuild(r) ==
  /\ run[r].phase \in {"running", "backoff"}
  /\ run' = [run EXCEPT ![r].phase = "rebuilding",
                        ![r].crashes = IF run[r].phase = "running" THEN 0 ELSE @]
  /\ UNCHANGED <<json, changed, reading, tables, actors, requests, history>>

\* The new stack takes the place of whatever is there; or it could not be created
\* and the old one runs again.
Rebuilt(r) ==
  LET n == run[r].of IN
  /\ run[r].phase = "rebuilding"
  /\ Phase(r, "running")
  /\ \/ /\ stacks' = [stacks EXCEPT ![n] = r] /\ handler' = [handler EXCEPT ![n] = r]
        /\ bus' = bus \cup {n}
     \/ UNCHANGED <<stacks, handler, bus>>
  /\ UNCHANGED <<json, changed, reading, tasks, actors, requests, history>>

\* The bot ends by itself; its stack stays where it is.
Exit(r) ==
  /\ run[r].phase = "running"
  /\ run' = [run EXCEPT ![r] = Over(run[r])]
  /\ UNCHANGED <<json, changed, reading, tables, actors, requests, history>>

-----------------------------------------------------------------------------
(* Requests.                                                                *)

Asking(q, phase) == ask' = [ask EXCEPT ![q] = phase]

\* send_async: refused if the recipient is not on the bus.  The main agent always is.
OnBus(n) == n \in bus \cup {Main}
Send(q) ==
  /\ ask[q] = "new"
  /\ \E s, n \in Names \cup {Main} :
       /\ s # n
       /\ sender' = [sender EXCEPT ![q] = s]
       /\ recipient' = [recipient EXCEPT ![q] = n]
       /\ Asking(q, IF OnBus(n) THEN "accepted" ELSE "refused")
  /\ UNCHANGED <<json, changed, reading, tables, run, actors, history>>

\* Mutant of Work: an agent that has left is waited for.
WorkIfThere(q) ==
  /\ ask[q] = "accepted" /\ OnBus(recipient[q])
  /\ Asking(q, "working")
  /\ UNCHANGED <<json, changed, reading, tables, run, actors, sender, recipient, history>>

\* _run_async looks the recipient up again; an agent that has left is an error,
\* which is a result like any other.
Work(q) ==
  /\ ask[q] = "accepted"
  /\ Asking(q, IF OnBus(recipient[q]) THEN "working" ELSE "result")
  /\ UNCHANGED <<json, changed, reading, tables, run, actors, sender, recipient, history>>

\* The turn of the recipient ends: an answer, an error, or after an hour a timeout.
Worked(q) ==
  /\ ask[q] = "working"
  /\ Asking(q, "result")
  /\ UNCHANGED <<json, changed, reading, tables, run, actors, sender, recipient, history>>

\* An agent whose bot polls.  The bus may hold the handler of another, earlier one.
Polls(s) == s # Main => Present(s) /\ run[stacks[s]].phase = "running"
HasHandler(s) == s # Main => handler[s] # NoRun
HandlerPolls(s) == Polls(s) /\ (s # Main => handler[s] = stacks[s])

\* _deliver_async_result: to the handler of the sender, if it ever had one.  The
\* handler may be that of a bot that has ended, and whichever it is may raise.
Deliver(q) ==
  LET s == sender[q] IN
  /\ ask[q] = "result"
  /\ \/ HandlerPolls(s) /\ Asking(q, "answered")
     \/ HasHandler(s) /\ ~HandlerPolls(s) /\ Asking(q, "stale")
     \/ HasHandler(s) /\ Asking(q, "lost")
     \/ ~HasHandler(s) /\ Asking(q, "dropped")
  /\ UNCHANGED <<json, changed, reading, tables, run, actors, sender, recipient, history>>

\* /stop_all: the requests on their way are cancelled, and nobody is told.
CancelAll ==
  /\ \E q \in Requests : ask[q] \in {"accepted", "working", "result"}
  /\ ask' = [q \in Requests |-> IF ask[q] \in {"accepted", "working", "result"}
                               THEN "cancelled" ELSE ask[q]]
  /\ UNCHANGED <<json, changed, reading, tables, run, actors, sender, recipient, history>>

Quiet ==
  /\ \A a \in Actors : stage[a] = "idle"
  /\ UNCHANGED vars

Next ==
  \/ Edit \/ Notice \/ WatcherFails \/ CancelAll \/ Quiet
  \/ \E a \in Actors : Command(a) \/ Created(a) \/ StopCloses(a) \/ StopEnds(a)
  \/ \E n \in Names : Sync(n)
  \/ \E r \in Runs : Crash(r) \/ Rebuild(r) \/ Rebuilt(r) \/ Exit(r)
  \/ \E q \in Requests : Send(q) \/ Work(q) \/ Worked(q) \/ Deliver(q)

\* The event loop serves every operation that has begun, the watcher polls as long as
\* no exception has ended it, and a turn ends by its timeout.  Nobody has to give a command, and no bot to crash.
Fairness ==
  /\ WF_vars(Notice)
  /\ \A n \in Names : WF_vars(Sync(n))
  /\ \A a \in Actors : WF_vars(Created(a)) /\ WF_vars(StopCloses(a)) /\ WF_vars(StopEnds(a))
  /\ \A q \in Requests : WF_vars(Work(q)) /\ WF_vars(Worked(q)) /\ WF_vars(Deliver(q))

Spec == Init /\ [][Next]_vars /\ Fairness

-----------------------------------------------------------------------------
(* Properties.                                                              *)

\* As long as no two operations on an agent have overlapped, and none is under way:
\* the agent has at most one run, which is the one that _tasks names and whose
\* stack is in place; and it is on the bus exactly if it has a stack.
TablesAgree ==
  \A n \in Names \ clash : At(n) = {} =>
    /\ LiveRuns(n) \subseteq {tasks[n]}
    /\ stacks[n] = tasks[n]
    /\ n \in bus <=> Present(n)

\* The result of a request that came from a running agent is handed to that run and
\* to no earlier one, as long as no two operations on the agent have overlapped.
ResultsReachTheSender ==
  \A n \in Names \ clash : Present(n) => handler[n] = stacks[n]

\* Once agents.json is edited no more, the agents in it and no others have a stack
\* of their present identity, except those that a command was given for, that could
\* not be created, or that an unreadable file has stopped; and unless an exception has
\* ended the watcher.
EventuallyInSync ==
  \A n \in Names :
    <>[](\/ ~watching \/ n \in commanded \cup failed
         \/ IF n \in desired THEN Present(n) /\ run[stacks[n]].token = token[n]
                            ELSE ~Present(n))

\* A request that the bus has accepted comes to an end, whoever is stopped meanwhile.
\* Its result is taken in by the bot of the sender, unless the handler raises or
\* /stop_all cancels the request: only a sender whose bot does not run just then, or
\* on which two operations have overlapped, does without.
AcceptedIsSettled ==
  /\ \A q \in Requests : ask[q] = "accepted" ~> ask[q] \in Settled
  /\ [][\A q \in Requests : ask[q] = "result" /\ ask'[q] \in {"stale", "dropped"} =>
           sender[q] \in clash \/ ~Polls(sender[q])]_vars
=============================================================================
