# A TLA+ model of ductor

ductor turns AI command line tools (Claude Code, Codex, Gemini, Antigravity)
into a chat bot. One Python process runs one asyncio event loop per agent stack;
messages come in from Telegram, Matrix, a WebSocket API, webhooks, cron jobs,
heartbeats, background tasks and other agents, and all of them end in a
subprocess that works in a shared session. Everything hard in the program
comes from that: coroutines that suspend at an `await` in the middle of an
operation, asyncio locks that are handed out by a bounded pool, cancellations
that arrive anywhere, and a process that may die between two saves.

This directory holds TLA+ modules of the parts where those things matter, TLC
configurations that check them on small instances, and proofs that hold for
every instance.

Contents: [The system](#the-system) · [Modules](#modules) ·
[How the models relate to the code](#how-the-models-relate-to-the-code) ·
[Runs](#runs) · [Bounds](#bounds) · [Fairness](#fairness) · [Proofs](#proofs) ·
[What the code does not do](#what-the-code-does-not-do) ·
[Not modelled](#not-modelled)

## The system

```
 Telegram ─ middleware ─┐                       ┌─ sessions, named sessions
 Matrix ─ room queue ───┤                       ├─ in-flight record
 API (WebSocket) ───────┼─ lock pool ─ orchestrator ─ CLI service ─ subprocess
                        │      │                │        │
 cron, webhook, heart-  │      │                │        └ process registry
 beat, background ──────┴─ message bus          ├─ task hub ─ task registry
 inter-agent bus ───────────┘                   └─ memory flush, hooks
 supervisor: one stack per agent, shared hub, bus and internal API
```

| Component | State it keeps | Operations | What makes it hard | What makes it correct |
|---|---|---|---|---|
| Session lock pool (`bus/lock_pool.py`) | dict of locks in insertion order, bound | `get`, eviction, `is_locked` | a lock is idle for an instant while it is handed over; callers keep references across awaits | held locks are never evicted; one turn per session; the bound gives way only to held locks |
| Telegram ingress (`telegram/middleware.py`) | queue entries per chat, cancelled flags, indicator ids | arrive, wait, Cancel button, `/stop` drain, restart watcher | the queue list changes while it is iterated; a cancellation races the admission | a cancelled message is never served, every other one is, unless the process ends; the queue lists what waits; a `/stop` takes all of it |
| Task hub and registry (`tasks/`) | persisted entries, in-flight handles, deliveries under way | submit, resume, question, cancel, delete, shutdown, restart | router awaited between check and spawn; done callbacks are late; cancellation at any await; crash | no task executed twice, capacity, no lost result, statuses move as documented |
| Telegram outbox (`telegram/outbox.py`, `sender.py`) | one file per reply: text, attempts, next retry | enqueue, drain, drain loop | every turn and the loop drain the same files at once; a send fails half way; restarts | a reply is deleted only when it was sent, not sent again once a drain knows that it was, except by overlapping drains, and delivered in the end |
| Message bus (`bus/bus.py`, `envelope.py`, `adapters.py`, the transports) | transports, injector | submit, inject, deliver, fall back | lock held over injection and delivery; partial failure of transports; cancellation anywhere | an answer is delivered before the next turn that locks in the same pool; a failing transport keeps nothing from the others; no lock is lost |
| Multi-transport wiring (`messenger/multi.py`) | shared bus and lock pool | start, fan-out, stop | the same object has to be shared; every bot submits the same result | transports exclude each other on one session |
| Matrix bot (`matrix/bot.py`, `message_queue.py`) | counters per room | dispatch, abort | counters beside locks | counters agree with what waits |
| Orchestrator flows (`orchestrator/flows.py`, `core.py`) | — | normal and streaming turns, injected results, one retry on a fresh session, abort, interrupt | the user's orders arrive beside the turn; retries look at flags that others raise and clear | a stopped turn is not tried again; no answer is thrown away without a reason |
| Memory flush (`orchestrator/memory_flush.py`) | boundary marks, last flush | mark, flush | check outside the lock, action inside | one flush per boundary |
| Process registry (`cli/process_registry.py`) | registered processes, stopped chats and topics, interrupted chats | register, kill by chat, topic, label, task, age; interrupt | registration during a kill, flags keyed by chat | every process that nobody has stopped is registered while it runs |
| Timeout controller (`cli/timeout_controller.py`) | deadline, warnings, extensions | wait, extend | activity racing the deadline | bounded extensions, warnings in order |
| Sessions (`session/manager.py`) | one file: a session per chat and topic, a bucket per provider | resolve, sync, update, preserve, reset | every operation rewrites the whole file, two of the five without the lock; a turn holds its copy for minutes | a conversation keeps its provider and session; a cleared one stays cleared; nothing is counted twice |
| Named sessions (`session/named.py`, `background/observer.py`) | sessions with a status, in memory and on disk; tasks per chat | create, follow up, end, end all, `/stop`, resume after a crash | the check and the marking are separated by an await; tasks are refused after the marking; not every change is saved | one worker per session, a true status, ended means ended |
| Crash recovery (`infra/inflight.py`, `recovery.py`) | persisted records, one per chat | begin, complete, plan | crash between two saves; turns of two topics share a record | a turn that was lost is announced, unless the network fails just then; one that was answered is not |
| Cron (`cron/`) | jobs in a file and in memory, scheduled asyncio tasks, executing jobs, dependency queue | schedule, reschedule, run, toggle, reload, stop | reschedules during executions; the file is edited by tools and rewritten by the bot; cancelled waiters | one task per job; executions are left alone; an edit or a button is forgotten only where the bot's own save or reload crosses it; the queue moves on |
| Webhook, heartbeat (`webhook/`, `heartbeat/`) | rate window, cooldowns | accept, wake, run | their turns compete with the users' | they take the session lock and leave it |
| Inter-agent bus (`multiagent/bus.py`) | registered agents, result handlers, asynchronous tasks | send, send async, deliver, cancel all | agents come and go between the acceptance and the answer | every accepted request comes to an end; results reach the sender that is there |
| Supervisor (`multiagent/supervisor.py`) | stacks, supervision tasks, registrations | start, stop, restart, supervise with back-off, follow `agents.json` | commands and the watcher do not exclude each other; a bot rebuilds its own stack meanwhile | one running stack per agent, known to all tables; in the end the agents of the file run |
| PID lock, updates, configuration reload, cleanup, workspace, files, i18n, CLI commands | files | — | mostly pure I/O | — |

How they interact: every path into a session goes through a lock of the pool
(`LockPool.get` then `async with`), which the ingress, the message bus,
heartbeats and memory flushes share. Background work (task hub, cron, webhooks,
inter-agent messages) ends in an `Envelope` on the message bus, which takes the
session lock when the parent agent has to be told. The final reply of a Telegram
turn, and most deliveries of the bus to Telegram, go through the outbox: they are
written to a file and the writer drains the whole directory, the files of other
chats included, while it still holds its session lock. The task hub is shared by all
agents through the internal HTTP API; the supervisor owns the order in which
they go down.

## Modules

| Module | What it is |
|---|---|
| `LockPool` | the pool, its eviction, and the asyncio locks, seen from the coroutines ("turns") that use them |
| `SessionQueue` | EXTENDS `LockPool`: the Telegram ingress, its queue, `/stop`, the deploy watcher; turns that are not messages are the bus envelopes, heartbeats and flushes on the same locks |
| `TaskHub` | hub, registry, runs, deliveries, cancel calls, shutdown, crash |
| `TaskLifecycle` | what the hub promises of a task: how its status moves, one execution at a time. `TaskHub` implements it (`LifecycleSpec`) |
| `MessageBus` | EXTENDS `LockPool`: envelopes of every origin, the turns that hold the lock themselves, routing and handler tables, several bots on one bus |
| `Outbox` | the files of unsent replies, the drains of the turns and of the loop, the parts of a message, outages, restarts |
| `Turn` | one conversation turn between lock and answer: registry flags, flow, CLI service with its retries, subprocess, in-flight record, crash; beside it `/stop`, `/interrupt` and the commands that bypass the queue |
| `SessionStore` | `sessions.json`: the read-modify-write cycles of turns, resets and model switches |
| `NamedSessions` | named sessions in memory and on disk, the jobs that work on them, the user's orders to end them, crash and resumption |
| `Agents` | the supervisor's tables and the inter-agent bus under commands, the watcher of `agents.json`, crashes and rebuilds; asynchronous requests |
| `Cron` | jobs, their tasks, the dependency line shared with webhooks, edits, buttons, the watcher, reschedules, stop |
| `MC...` | one per module: values of the constants |
| `LockPoolProofs` (with `SessionQueue` and `MessageBus`), `TaskHubProofs`, `OutboxProofs`, `TurnProofs`, `SessionStoreProofs`, `NamedSessionsProofs`, `AgentsProofs`, `CronProofs` | theorems |

Every definition written beside another one under the comment "Mutant of X" is
a way in which X could be wrong; the property it breaks is named in
`PROJECT.json`. They are not part of any specification.

## How the models relate to the code

One step of a model is what the event loop runs between two suspension points.
A handler that awaits nothing is one action; one that awaits is an action per
stretch, and the values it keeps in local variables across an await are state.

**`LockPool`.** `locks`/`stamp` are the `OrderedDict`-like dict with its insertion
order, `GetLock` is `get` with `_evict_if_needed`: when the pool is full the oldest
half (at least one) of the locks that are *not held now* leave. A lock object is
named after the turn whose `get` made it, so an evicted lock and its
replacement differ. `Acquire`, `Wake`, `Leave`, `Abandon` are asyncio's lock:
`acquire` takes a free lock without suspending but queues behind waiters; a
release leaves the lock free and schedules the first waiter, which takes it
when it runs; a cancelled waiter leaves the queue. `Enter` is get-and-lock without an
await in between (message bus), `Defer`/`EnterDeferred` are the ingress, which
sends its indicator between the two.

**`SessionQueue`.** `pending` is the list of entries per chat, `cancelled` and
`shown` are the flag and the indicator id of an entry, `Admit` is what happens in
the same step in which a turn gets its lock: the entry leaves the list and the
handler is called unless the flag is set. `DrainFrom` is the `for` loop of
`drain_pending` from an index on; it stops at every indicator it has to edit, as
the code does, and goes on with the next *index* of the list as it is then. An
emptied list is dropped from the dict, so an iteration over it ends
(`drainAt = 0`). `listed` remembers who was given an entry, `shifted` the drains under
which an entry at or before their index left the list. The watcher takes its snapshot of
locks and queue (`HasActiveWork`) in one step, or its deadline passes (`RestartForced`);
then `ProcessEnds`: the polling stops and the process ends, at once or after some more steps
of the handlers. What waits or runs then is lost, because nothing awaits it.

**`MessageBus`.** A turn is a call of `submit`, or a turn that takes the session lock
itself (a user's message, a heartbeat, a webhook wake) and may then submit what it
produced. `OriginOf` decides what the adapter of that kind puts into the envelope:
`Injected` origins require the lock and are injected (`Answer`), the others go
straight to their delivery (`SubmitUnlocked`). A call of `inject_prompt` that raises
becomes an error text and is delivered like an answer, so `Answer` is both. `Route`
is the list of transports that `_deliver` asks, `HasHandler` the handler tables (constant ones) of
`TelegramTransport` and `MatrixTransport`; one `DeliverLeg` is one transport's
`deliver` or `deliver_broadcast`, successful or not. `Release` is the end of `async
with lock`, in the same step as the end of the last leg or the exception that
`Cancel` stands for. `TransportOf` is bound by an assumption to what the adapters
set: only cron jobs and inter-agent results name a transport. `PoolOf` says which of
the process's pools a turn locks in: with several bots, each bot's own for its
messages and wakes, the bus's for everything else. The pools are one `LockPool`
whose keys are pairs of a pool and a chat; it has room for all of them, because
what eviction does is the subject of `pool`. `After` makes the second
bot's submission of a result wait for the first's, as the loop of `multi.py` does;
the model lets other turns in between the two, where the code reaches the second
`get` without an await.

**`TaskHub`.** A run goes through `created` (asyncio task made, not started),
`executing` (CLI), `delivering*` (outcome written, parent being told), `ended` (the
coroutine returned) and `gone` (done callback ran). `cancelReq` is a
cancellation that was requested and is delivered at the next await. `turns` are the turns of
the parents' sessions that hold the session lock, and `injecting` the deliveries that do: a
success or a failure is injected under that lock (`NeedsLock`, `Inject`), the notice of a
cancellation is not. A cancel call comes from the bot (a button, a command) or, through the
internal API, from the CLI of a turn or delivery in one of the chats `CallerOf[c]`, which then
works until the call returns. The final
delivery of an answer runs in its own task under `asyncio.shield` (`sending`);
deliveries in the exception handlers do not, which is why `FinishInline` is
interrupted by a second cancellation. `Callback` pops *the* handle of the task,
whichever run it belongs to. Submissions and resumes check, await the router,
and check again (`SubmitBegin`/`SubmitEnd`, `ResumeBegin`/`ResumeEnd`). The registry saves
on every change, so `Crash` keeps it and loses the rest, and the next start
downgrades "running" to "failed".

**`Outbox`.** An item is the number of its file in the order of the names, which
begin with the second of their creation, and which is the order of the drains. A
drain reads the clock, lists the directory in a thread (`List`), and goes through
the first `Limit` names; it reads a file, finds it gone or not yet due and goes
on, without an await, to the first one it can send (`StartNext`). A send is a
sequence of parts, the chunks of the text and then the file, with an await at each.
A part that fails ends the send, except for the file, whose network errors
`send_file` swallows (`SkipFile`); Telegram may have accepted the part whose answer was
lost. After the last part the file is unlinked (`Complete`); after a failure
the dict the drain read at the beginning is written back (`FailPart`), also over a
file that another drain has deleted. Time is counted in units of the first retry
delay and relative to now: `due[i]` is how far the retry time of a file is ahead,
`age[d]` how long ago drain `d` read its clock, so that a file is due for the drain
when `due[i] <= -age[d]`. A restart keeps the files and forgets the drains; the
turns whose reply was not written yet go on as turns of the next process. `known` are the
replies of whose last part a drain got the response; `repeated` those among them that
Telegram then accepted to the end once more.

**`Turn`.** `pc` is how far a turn is: it waits for its lock, prepares (hooks, policy,
session), starts a process, reads it, has it exited, recovers, answers. The three
sets of the registry are `aborted` (chats), `abortedTopics` (sessions) and
`interrupted` (chats), as in the code, which is what makes turns of one chat meddle
with each other. `Receive` is the beginning of `_handle_message_impl`, which forgets
the stops; `QuickCommand` is the same function reached without the lock. `Exit` is
every way in which a process ends, a deadline and a rejected session included, whether or not it was signalled; `StreamBreak` is the reader
that leaves when it sees a flag. `Fallback` and `RetryStream` are the retries of the
CLI service, `Recover` and `Recovered` the retry of the flow on a fresh session,
`Judge` what the flow makes of the answer. `record` is the in-flight file, one entry per chat;
`Announce` reads it and sends the notices, any of which a network error may make `send_rich` skip (`unheard`); `Open` removes it. A record older than twice the turn's timeout is
dropped by the code and not announced: the model's restart comes before that.
Injected turns look at no flag and write no record.

**`SessionStore`.** An operation that loads the file in a thread and saves it later is two
actions, with what it read in `snap`. `update_session`, `preserve_session_identity`
and `sync_session_target` hold the manager's lock (`mutex`) in between,
`resolve_session` and `reset_provider_session` do not. `mem` is the entry a turn
carries through its CLI call. A save rewrites the whole file, so it also sets the entries
of other sessions back to what was read. A conversation is named by the turn that
started it and the provider it was started on, which is what lets an invariant say that it has
strayed. `Days` selects which operations take part in a behaviour.

**`NamedSessions`.** A job is a task of the background observer (new, follow-up, or
resumed after a crash) or a follow-up in the foreground. `checked` is the await between
the check of the status and `mark_running`. `Submit` refuses one task too many after the
session was marked. `Deliver` is the Telegram handler, which updates the registry before it
sends anything, whatever the result was. `file` is what the last `_persist` wrote; a
change of status that writes nothing is `InMemory`. `Stop`, `Cancel`, `StopEnds` are the
three stretches of a chat-wide `abort`.

**`Agents`.** `stacks`, `tasks`, `bus` and `handler` are the tables of supervisor and bus. An
operation on an agent goes through `cancelling`, `closing` and `creating`, each ended
by an await; `Commands` do so without a lock, the `Watcher` under its own. `Notice` compares
the file with the stacks once, keeps what it has read (`loaded`), and `Sync` carries the difference out agent by agent from that copy,
which may be older than the file by then; a command works from what it has loaded in the same way. `WatcherFails` is an
exception that the callback does not catch, after which nobody polls. A run is one
`_supervised_run`: it crashes and waits, rebuilds its stack (which puts it back into the tables),
or exits. `clash` remembers the agents on which two operations overlapped. A request goes
from any agent to any other; its result is taken in (`answered`), lost in a handler that raises, given to the handler of a
bot that has ended (`stale`), or to nobody (`dropped`).

**`Cron`.** A task of a job sleeps, routes, waits in the line of its dependency (`ahead` is who
was in the line before it and has not left), runs, delivers, saves its status and notes the file's time; the end of each (`Leave`) schedules the next
one. `file` and `mem` are the job list on disk and in memory, `noted` says whether the
observer knows the file's present time. Two parties reschedule, the watcher and the
request of the buttons; `Begin` cancels the idle tasks and `Finish` schedules every
enabled job, of which `_schedule_job` may fail for any (`unscheduled`). A job that is no longer in the list runs
without its dependency (`dep`). `WatcherFails` is a reload that raises on a file that is no list of jobs. `plan` is the content of a job at the time its task was made. Slots come when they
come: there is no clock. `order` is what the last button said of a job; `bared` are the executions beside which another
task of their job has ended; `unread` the edits the watcher has not come to, `hidden` those among them whose time the
bot then noted itself, and `crossed` that the bot saved its list while a reload held a newer one.

## Runs

| Run | Instance | Checks | Shows |
|---|---|---|---|
| `pool` | 5 sessions, 6 turns, 4 locks | `GrowsOnlyWhenAllHeld`, `HeldLockStays` | eviction (of two of four, of a single one, and of none) is safe for held locks |
| `queue` | 3 messages in 2 sessions of one chat, 1 background turn, 1 `/stop`, restart watcher, 2 locks | `SessionExclusion`, `CancelledNeverServed`, `PendingAgrees`, `DrainTakesAll`, `RestartSparesRunning`; under fairness `EveryMessageSettled` | the ingress is right as long as nothing is evicted: with two locks for two sessions nothing is, what eviction does is the subject of `pool` |
| `hub_safe` | 2 capped tasks, cap 1, 1 resume, 3 runs, 1 folder that may vanish, 1 crash | `OneExecution`, `RunningHasRun`, `LifecycleSpec` | no double execution, the life cycle |
| `hub_live` | 1 interactive task, a cancel call by a button and one by the CLI of a turn that holds the session lock, shutdown | `OutcomeDelivered`, `EveryCancelReturns`, `EveryStopEnds` | nothing waits forever, not even where a turn cancels the task whose result waits for its lock, and no answer is lost |
| `bus` | 2 bots, 1 chat: a task result that both submit, an inter-agent answer, a heartbeat, a message, a broadcast | `AnswerBeforeNextTurn`, `FailureIsolated`; under fairness `EverySubmissionEnds` | the bus is right with both transports registered, as far as its own pool reaches |
| `outbox` | 3 replies (one never taken by Telegram, one of two chunks and a file), 2 of them left by an earlier process, 2 files per drain, 1 restart | `NothingLost`, `KnownOnlyOnce`; under fairness `EveryReplyDelivered` | no reply is lost, and one that cannot be delivered does not hold up the others as long as there are fewer of them than a drain takes files |
| `turn` | a chat with a topic; a streamed message of the topic, a message of the chat, a result injected into the topic; 1 order, any quick commands, 1 crash | `StoppedStaysStopped`, `DiscardExplained`, `ProcessesWatched`, `LostIsAnnounced` | what the flags of the registry, keyed by chat, can do to the turns of two sessions, and what they cannot |
| `store` | 2 sessions, 2 providers; five selections of turns, `/new` in and beside the queue, `/model` | `ConversationsApart`, `ForgottenStaysForgotten`, `CountedOnce` | which updates of the session file can be lost, and that no conversation strays |
| `named` | 2 sessions, 2 tasks at a time; 2 new sessions, a follow-up in the background and one in the foreground, 2 orders to end, 2 crashes and 4 resumptions | `OneWorker`, `StatusIsTrue`, `EndedStaysEnded`, `ResumedWasRunning` | the status of a named session tells the truth except where a job was refused, and its sessions end |
| `agents` | 1 sub-agent, 1 command, 2 edits of `agents.json`, 2 crashes in a row, 3 runs, 1 request in either direction | `TablesAgree`, `ResultsReachTheSender`; under fairness `EventuallyInSync`, `AcceptedIsSettled` | the tables agree wherever operations have not overlapped, edits are carried out although they are worked on from copies, and results reach a sender that runs |
| `cron` | 1 job with up to 2 tasks, 1 webhook on its dependency, 1 edit, 1 press of a button | `OneTaskEach`, `ExecutionsSurvive`, `EnabledIsScheduled`, `EditsAreRead`, `LineIsServed` | the only ways to a second task, a cancelled execution, a lost button, an unread edit |
| `bus_pools` | 2 bots | `OneTurnPerChat`, refuted | see [What the code does not do](#what-the-code-does-not-do) |

Several properties name an exception. The property then says that this is the *only* way for
things to go wrong; a second way would violate it, which is what the mutants show. An exception
that has to be remembered is a history variable, raised by its cause and never by the damage:

* `DrainTakesAll`: a drain under whose suspended iterator an entry left the list.
* `RestartSparesRunning`: it speaks of the idle decision. The restart that the deadline forces
  spares nobody, and a message that queued behind a hand-over has no entry and is not seen.
* `EveryMessageSettled`: the process ended for a restart.
* `AnswerBeforeNextTurn`: a message or a wake of one of several bots, in a pool of its own.
* `KnownOnlyOnce`: two drains were sending the reply together. A reply of whose acceptance nobody
  was told (the response was lost, or the process died before the unlink) is sent again by
  design (`README.md:116-119` of the repository), and the property does not speak of it.
* `StoppedStaysStopped`: a session rejected twice is told, since the flow looks at that before the flags.
* `LostIsAnnounced`: turns that shared the record of their chat, groups, and notices that were
  sent and met a network error.
* `OneWorker`: sessions into which two follow-ups were let together.
* `ForgottenStaysForgotten`: sessions of which somebody still held a copy. `CountedOnce`: a race
  of two saves.
* `TablesAgree`, `ResultsReachTheSender`: agents on which two operations overlapped, so that what is
  shown is that crashes, rebuilds and edits do no harm beside one operation; `EventuallyInSync`: agents a command was given
  for or that failed, and a watcher that an exception has ended. `AcceptedIsSettled` names every end a
  request may have, and says that a result misses a bot that polls only where its handler raises, where the request is
  cancelled, or on such agents.
* `OneTaskEach`: jobs that were rescheduled while they executed. `ExecutionsSurvive`: executions beside
  which another task of their job has ended. `EnabledIsScheduled`: jobs for which `_schedule_job` failed, and
  buttons pressed while a reload had read the file. `EditsAreRead`: edits whose time the bot noted before
  the watcher came to them, a save by the bot that crossed a reload, and a watcher that an exception has ended.

## Bounds

`MaxLocks = 4` is the smallest at which "half of the idle locks" is
more than the minimum of one; five sessions are one more than fit, so that the
fifth `get` evicts two, one or none, depending on how many are held. Two turns
of one session are needed for a hand-over, two sessions for `chat ≠ session`,
two messages beside the one that runs for a drain that suspends between two
entries. Two tasks under a cap of one make the cap bite, and one of them
resumed makes a second run of the same task exist beside a first run of another;
`MaxRuns` is one run per task and resume. Two cancel calls are needed for a
cancellation that is itself cancelled. One crash meets every state; a second one
would meet a registry without "running", which is what the first leaves.
Four turns on the bus's pool are the holder of the lock, two that queue and the
second submission of the result; the message is in its bot's pool, the broadcast in
none. Two transports are all there are.
Three replies under `Limit = 2` are one more than a drain takes, so that one that is
never accepted competes with two others for its places; two chunks and a file are
the shortest reply that can fail at, between and after chunks; `MaxBackoff = 2`
tells a first failure from a later one. `MaxAge` bounds how long a drain takes in
units of 30 seconds; it only limits how stale the clock of a drain can be, and one
unit is enough for a file to become due for one drain and not for another. The
starvation of replies by as many undeliverable ones as a drain takes files is thereby outside the bounds. Model
values are not declared symmetric where liveness is checked; of the other instances only
those that need it to finish declare a symmetry.

A run without deadlock checking models a finite set of messages or requests: when
all are handled the system does stop.

`turn`: two sessions of one chat, one of them with a topic, are what separates the flags of a
chat from those of a session; a second turn in the topic (the injected one) meets what the
first has left behind. One order reaches every interleaving of a stop with the retries,
because flags stay until somebody clears them. `MaxAttempts` is a consequence, not a bound.
`store`: two providers and two sessions are needed for anything to stray; each selection of
operations lets two that race meet a third. `named`: two sessions and two tasks make both caps
bite; two orders let an end button meet a `/stop`; the second
crash meets a resumption of the first, and four resumptions are one per session and crash. Its
names, new sessions and resumptions are symmetric: it states no liveness. `agents`: one
sub-agent, because its tables are indexed by name and operations on different agents
share only the watcher's list; three runs are one stack, its replacement and one more;
`MaxRetries = 1` lets a bot be tried again and given up. `cron`: `MaxTasks = 2` is what one
reschedule during an execution leads to; a state in which a third task would be made is not
left by that step. The third task, the sleeper that a second reschedule during one execution
leaves behind, is left to the theorems of `CronProofs`, which bound nothing. `MaxEdits` and `MaxToggles` are one each: one edit and one press meet
in every order: either may disable a job and the other enable it again while a reschedule is under way.

## Fairness

`QueueFairness`: the loop runs what is ready (`WakeTurn`), the Telegram call that
sends or edits an indicator returns or raises (aiogram has a request timeout; the
middleware catches the exception), and a handler ends (CLI calls have a
timeout). No fairness for arrivals, for the user's buttons, for cancellations of
background turns, for the watcher or for the end of the process.

`BusFairness`: the loop runs what is ready, the CLI call behind an injection or a turn
returns or raises (it has a timeout), a delivery returns or raises (both client
libraries have timeouts), and the loop over the bots goes on. None for messages,
results or cancellations.

`Fairness` of the hub: a created run starts, the CLI answers or raises (the hub passes
`timeout_seconds`), a delivery that needs no lock or has it returns, done callbacks run,
`kill_for_task` returns after its grace period, and `gather` returns when its tasks have.
A delivery gets the session lock if the lock is free again and again (strong fairness:
asyncio serves the requests in their order). A turn ends, and so does the CLI of an injected
result, but *not* while it waits for a cancel call it has made: that the call returns is
the question, so nothing assumes it. No fairness for submissions, resumes, questions, cancellations, deletions,
router answers or crashes. `hub_live` has no crash, because the hub promises nothing
about results that were being delivered when the process died.

`Fairness` of the outbox: every drain goes on (a send returns or raises, because aiogram
has a request timeout), and time passes. Strong fairness says that outages
are temporary: a part that the loop tries to send again and again is accepted in
the end, unless its reply is in `Poison`. Weak fairness would not do, since a failure
ends the attempt and disables the step. No fairness for the drains of the turns
beyond their end, for new replies or for restarts.

`Fairness` of `Agents`: the loop goes on with every operation that has begun, the watcher polls,
and the turn of a recipient ends by its timeout. None for edits, commands, crashes,
rebuilds, `/stop_all` or exceptions. `Turn`, `SessionStore`, `NamedSessions` and `Cron` state no fairness:
their properties are invariants.

## Proofs

All theorems hold for any sets of sessions, turns, chats, tasks, requests, replies, agents and jobs
(finite where the assumption says so), and for any value of the bounds. `PoolAssumption`,
`QueueAssumption`, `BusAssumption`, `HubAssumption`, `OutboxAssumption`, `TurnAssumption`,
`StoreAssumption`, `NamedAssumption`, `AgentsAssumption` and `CronAssumption` say no more than that
the constants have their types, except that `BusAssumption` also states which transport the
adapters address and in which pool a turn locks, `StoreAssumption` that a turn, a reset and a
switch are different operations, and `CronAssumption` that there are finitely many jobs and
webhooks. Each theorem of `LockPoolProofs` names the assumptions it uses, so those about the pool
alone say nothing of queue or bus.

*`LockPoolProofs`.* `TypeCorrect`; `LockExcludes` (`[]ObjectExclusion`);
`EvictionSparesHeldLocks` (`HeldLockStays`), which needs that the key of a held
pooled lock is not among `Idle`; `SessionExcludes`: if there are at most as many
sessions as `MaxLocks`, `[]SessionExclusion`; `BoundGivesWayToHeldLocks` (`GrowsOnlyWhenAllHeld`):
the oldest idle lock is always among those evicted, so that for one lock more there is at least one
less. `SessionExclusion` is not
inductive: the invariant adds that every turn past `get` refers to the lock
pooled for its key, which holds only as long as nothing is evicted, and nothing is
because a new key always finds the pool below its bound (a cardinality argument).
That hypothesis cannot be dropped: a pool smaller than the number of its sessions
lets two turns of one session in (see the next section).

`LockForgetsNobody` is about the queue of a lock: whoever waits has a turn before it in the same
lock that is inside, or one that can be woken. It needs `WaitersAgree`, that the queue of a lock
object holds exactly the turns that wait for it, each once. That must survive a cancellation that
takes a turn out of the middle of the queue, and an eviction that leaves the lock object to the turns
that still refer to it. It is what the fairness of `WakeTurn` needs to be of any use, and it
carries over to queue and bus.

The queue of messages. `QueueImplementsPool`: every queue step is a step of `LockPool`
or leaves it alone, so the pool's theorems carry over (`QueueSessionExcludes`).
`PendingIsExact` and `CancelledStaysUnserved` are proved together from one
invariant: the entries of a chat are those of its `listed` messages that are deferred or
waiting, each once; a cancelled message is either still an
entry or never runs its handler; `served` turns are inside or done. Neither part
is inductive alone: that a cancelled message is not served needs that
only messages in the list can be cancelled and that they have not been admitted.
`WatcherSparesHandlers` (`RestartSparesRunning`) needs that the pool has room for every session: then
the lock of a handler is in the pool and held, and the watcher sees it; it says nothing of the forced restart. `DrainsTakeAll`
(`DrainTakesAll`): of a drain that nobody has shifted every entry before its index is cancelled. `MessagesAreSettled` is the
safety half of `EveryMessageSettled`: nobody is left behind in the queue of a lock, and a message that
got its lock was handled or had been cancelled. What `RemoveFirst` does to a
list without duplicates is in the lemmas that open `LockPoolProofs`.

The bus. `BusImplementsPool`: every step of the bus is a step of `LockPool`
or leaves it alone. `BusAnswersFirst` (`[]AnswerBeforeNextTurn`, with its exception for several bots) follows from
`SessionExcludes` and an invariant that ties the phase of a turn to its lock: it is
working, or delivering an injected answer, exactly while it is inside.
`BusIsolatesFailures` (`[]FailureIsolated`) counts the legs that are through.
`OneBotExcludes`: with one transport no two turns of a chat work at once
(`[]OneTurnPerChat`), because then there is one pool; `bus_pools` refutes the
conclusion for two.

*`TaskHubProofs`.* `HubTypeCorrect`, `HubExecutesOnce` (`[]OneExecution`), `RunningIsAccountedFor`
(`[]RunningHasRun`) and `HubImplementsLifecycle` (the refinement). The invariant
they share: runs are numbered in the order in which they were spawned and have a
task exactly when spawned; an entry exists once its task was submitted; an
executing run is the latest of its task and the entry says "running" or is
deleted; and "running" without an executing run means the latest one was aborted
before its first step. `OneExecution` alone is not inductive, because the handle of an
executing run can be lost: what keeps a second run from
starting is then the status, not the in-flight check, and the invariant has to
say that an executing run pins the status. That is also what the mutant that
lets a question change the status, as it once did, breaks.

*`OutboxProofs`.* `OutboxTypeCorrect`; `OutboxLosesNothing` (`[]NothingLost`), which needs
that a sending drain has had all the chunks behind it accepted and always has one
more part before it, so that reaching the last part means the text is through;
`OutboxSendsOnce` (`[]KnownOnlyOnce`), whose invariant says that unless drains
overlapped on a reply at most one is at it, and that a reply known to be sent has no file
and no drain at it. What keeps a list that a drain took long ago from sending a reply
again is that the file is read once more first; the mutant `ReadyAsListed` drops that.
That a non-empty set of file numbers has a first one comes from the well-foundedness
of the naturals (`FirstOfItems`).

*`TurnProofs`.* `TurnTypeCorrect`, `StopsAreFinal` (`[]StoppedStaysStopped`), `DiscardsAreExplained`
(`[]DiscardExplained`), `ProcessesAreWatched` (`[]ProcessesWatched`), `LostTurnsAreAnnounced`
(`[]LostIsAnnounced`). `TurnInv` is one conjunct per question. `Placed` ties the position of a turn to its lock, its
process and its entry in the registry: an entry belongs to a process that runs or has just ended.
`Budgeted` adds to the processes a turn has started those its retries may still cost, which bounds them;
without it the types are not inductive. `StopsHold`: the flag of a stop stands until the stopped turn is over or
the stop is forgotten, and whatever the stopped process comes back with, a rejected session included, is discarded,
unless the session was rejected once before. `Explained` and `Watched` follow every flag a message can see back to an order given during
it. `Recorded`: a message in flight that never ran beside another one of its chat is the one in the record.

*`SessionStoreProofs`.* `StoreTypeCorrect`; `ConversationsStayApart` (`[]ConversationsApart`);
`ForgottenForGood` (`[]ForgottenStaysForgotten`); `CountedExactlyOnce` (`[]CountedOnce`). None of the
three is inductive, because a save writes back what was read long before: `StoreInv` says of every
*reading* between its load and its save, and of every copy a turn carries through its CLI call, what
the property says of the file. It adds that a turn that has no answer yet has its conversation
nowhere: neither in the file, nor in a reading or a copy, nor among those that were dropped. That is what
keeps a conversation that starts now from being one that was forgotten before. That a
drop blames exactly the sessions whose copies are held ties the readings to `blamed`.

*`NamedSessionsProofs`.* `TypeCorrect`; `OneWorkerAlways` (`[]OneWorker`); `StatusIsTrueAlways`
(`[]StatusIsTrue`); `EndedStaysEndedAlways` (`[]EndedStaysEnded`); `ResumedWasRunningAlways`
(`[]ResumedWasRunning`), for any number of crashes. `SessionsInv` counts as inside a job that has passed the
check and not only one that works: otherwise two jobs could be let in and both begin later
(`OneInside`), and a session that ended with nobody working could still be marked by one that had
been let in (`QuietIsOver`). For the restart it says that what is not in `unsaved` is in the file as it is
in memory (`FileIsTrue`), that no job survives the process (`NobodyWhenDown`), and that while the
resumptions are submitted no other job is at work on a session that still waits for its own
(`OnlyResumptions`); without the last a resumption would be a second worker.

*`AgentsProofs`.* `AgentsTypeCorrect`; `AgentTablesAgree` (`[]TablesAgree`); `ResultsReachTheRun`
(`[]ResultsReachTheSender`). The tables disagree in the course of every operation, so `Consistent`
says of each stage of one, up to the next await, which of the four tables have been changed. It is claimed of the
agents without a clash only, which is why `OneActor` belongs to the invariant: such an agent
has one operation under way at most, and one that the watcher has still to start has no stack.
`Placed` and `WatcherTakes` are what makes `OneActor` inductive: who is at work has an agent, and what the watcher
has taken up is off its list. `WatcherKeepsInSync` is the safety half of `EventuallyInSync`: when
the watcher has read the last edit and has nothing left to do, every agent is what the file says,
but for those that somebody gave a command for, that could not be created, or that an unreadable
file has stopped, as long as no exception has ended the watcher. Each operation works from a copy of the file, so the
invariant says that the watcher's copy is the file unless another edit waits to be noticed, so that an agent started
with stale content is stopped and started again. It says of every agent out of sync that it is on the watcher's list or under
the watcher's hands (`Pursued`), and of every one that no command was given for that nobody but
the watcher touches it (`LeftToWatcher`); a crash, an exit or a rebuild may come in between.

*`CronProofs`.* `CronTypeCorrect`; `OneTaskPerJob` (`[]OneTaskEach`); `NoExecutionIsCut`
(`[]ExecutionsSurvive`); `EnabledJobsAreScheduled` (`[]EnabledIsScheduled`); `NoEditIsMissed`
(`[]EditsAreRead`); `DependencyIsExclusive` (`[]LineIsServed`). That a job has one task is not
inductive: `SinglesHold` adds that the one task is the one in the table and that the job is marked
while it executes, which is all that keeps a reschedule from cancelling it or adding a second one.
Hence `NoExecutionIsCut`: a reschedule looks at the marks only, and an execution without one
has seen another task of its job end beside it, which took the mark along (`MarksHold`). `TableIsTrue` says that the table holds no task
that is over or being killed. `NoEditIsMissed` and `EnabledJobsAreScheduled` follow an edit through the
stages of the watcher: it is unread, in the thread's hands, or in the list with a reschedule to come (`EditsKnown`);
`OrdersHold` follows a button in the same way through saves and reloads.
`LineInv` makes a strict order of the line of a dependency; since the tasks are finitely many
and somebody in front of a waiter is in front of everybody behind it, one of them has nobody in front
(`SomebodyIsFirst`), which runs, is being killed or can take its turn. So no line jams, however
many jobs, webhooks and cancellations there are.

Only model-checked: what holds under fairness, because the prover has no rule for `ENABLED` and
ours would need an induction over queues and files. These are `EveryMessageSettled`,
`EverySubmissionEnds`, `OutcomeDelivered`, `EveryCancelReturns`, `EveryStopEnds`, `EveryReplyDelivered`,
`EventuallyInSync` and `AcceptedIsSettled`. Every other property of the passing runs is proved.
`bus_pools` is a refutation and has nothing to prove.

## What the code does not do

One disagreement between the code and a sentence about it has a run that TLC refutes; the
sentence is quoted in `PROJECT.json`.

* `bus_pools` — with Telegram and Matrix in one process the bots do not share the lock
  pool: it is empty when they are built, an empty `LockPool` is false, and `lock_pool or
  LockPool()` makes a new one. A message and a task result of one chat work in the
  session at the same time.

Seen on the way, without a run of their own. Many of them are the exceptions named
in the properties above.

*Pool and ingress.* Once the pool evicts (more than its bound of 1000 sessions), a session
can be inside its lock twice: a lock whose holder has just left and whose first
waiter has not run yet is "idle", and so is one a suspended turn is about to
acquire. `/stop` can leave a message in the queue: when an entry leaves the
list while `drain_pending` edits an indicator, the iterator skips the next one. The deploy
watcher can take the bot for idle while a message waits on a lock in hand-over. The end of the process
awaits no handler: messages that run or wait then are lost, and a restart that was forced by its deadline
is no different.

*Tasks.* A resume between the end of a run and its done callback loses
the handle of the new run, and cancelling the task does not find it. Resumes are not subject to
`max_parallel`. A run cancelled during its final delivery lets a resumed run
deliver beside it; a task cancelled before its first step stays "running" until the next
start, although `cancel` returned True; a second cancellation interrupts the delivery of the
first one's outcome, and the parent hears nothing; a run spawned while `shutdown`
waits is neither cancelled nor awaited; a run that ends without a session id overwrites the one
a resumed task had.

*Bus and outbox.* With Matrix alone the results and questions of tasks, background results and
heartbeats reach nobody: their envelopes are addressed to `"tg"`, and the
fallback turns them into a broadcast of their origin, for which no transport has a
handler. With two bots every task result is injected twice; the result of a task of a Matrix
chat is injected into the session of `"tg"`. Replies that Telegram rejects for good stay in the
outbox and count against the 20 files a drain looks at even while they are not due; twenty
of them stop the delivery to every chat. Two drains that overlap send a reply twice, and so does one whose last
response was lost; the
file of a reply is dropped when its upload meets a network error.

*Turns.* A message in another topic of a chat, or `/status`, clears the stop of the whole chat, and
a killed turn that has not been judged yet is then retried on a fresh session. `/stop` in a
topic flags nothing when no process is there yet, so the turn goes on. An interrupt that
nobody took notice of silences the next answer of the chat. A chat-wide stop just before
the process of a streamed turn is started makes its reader leave at the first event and unregister
the process, which nobody then stops. A second rejection of the session is told
even if the user has stopped the turn. Groups are never told of a lost turn, and nobody is if the notice meets a
network error, because the file is cleared all the same; the record of a
turn is removed before its answer is sent, and shared by the topics of a chat.

*Sessions.* `resolve_session` and `reset_provider_session` save without the lock that
`update_session` takes against lost updates, so an update of any other chat in between is
lost. A turn that was running during `/new` brings the cleared conversation back. A
`/model` during a turn is undone by its end. An aborted stream loses the id of a first
conversation.

*Named sessions.* Two follow-ups that pass the check together work on one CLI session. A session
stays "running", and refuses everybody, when the task is refused or the CLI cannot be
started. One that was ended while a task delivered is idle again. A stopped follow-up is
resumed after a crash. The first run of a session is not resumed. The Matrix handler of
background results never updates the registry. A background task cancelled while it delivers
delivers again.

*Agents.* A command beside the watcher can leave an agent with two runs, or off the bus with a stack;
an unreadable `agents.json` stops every sub-agent; an agent that was given up keeps its stack and
its place on the bus; a result handler is never removed, so a result can go to a bot that has
ended; one whose handler raises is lost; an exception in the callback ends the watcher, and edits are then never seen.

*Cron.* A job that is rescheduled while it executes has two tasks, one of which no table
holds: both fire at the next slot, `stop()` misses one of them, and a second reschedule leaves one more
asleep. One of the two can lose its process, of which the docstring of `_reschedule_all` says the opposite: "Jobs that are currently executing are left running" (`cron/observer.py:293`) holds of the execution that is
marked; once the other task has ended and taken the mark, a reschedule, a button included, cancels the one that is left. A job
whose expression is invalid, or whose scheduling fails otherwise, is enabled without a task. A button pressed while a reload has
read the file and not yet replaced the list is overwritten. The end of an execution schedules the job with the content it had at its beginning.
Saving the status of a run overwrites an edit the watcher has not read, and a reschedule that
notes the file's time hides one.

## Not modelled

What has no entry in [Modules](#modules) is listed with its reason under
"components" in `PROJECT.json`. The larger part of the repository's lines is of a kind in which
these models would only repeat the code: rendering (messages, menus, keyboards, translations),
conversions (command lines and output of four CLI tools, Markdown, file names),
configuration and model tables, the setup wizard and installer, workspace seeding, access
administration, and the clients of the chat platforms. What remains beside it:

* memory flush, the timeout controller, heartbeats' clock, quiet hours and rate limits depend on
  time and are best effort; the effect they have on others (a turn on the session lock, a process
  that ends) is in `LockPool`, `MessageBus` and `Turn`;
* the PID lock is a race of operating system processes that share nothing with the rest;
* the duplicate filter, the encryption of the API and the webhook signatures are
  synchronous functions.

Inside the modelled components: authorisation, group filters and quick commands of the
middleware (they end before the queue; `Turn` has what a quick command does to the flags);
the text of indicators, prompts and results; the contents of task folders; the
background maintenance loop of the hub except the removal of orphans; the
provider guard of `resume()`, which the router makes true before the first run; kills by label and
age; pinned model settings of sessions; topics' names; the synchronous send between
agents; time zones and cron expressions; a `cron_jobs.json` that is unreadable or no JSON, which loads as an empty list
(one of the wrong shape, which makes the reload raise, is `WatcherFails`). Saves are atomic and succeed, and an edit by a
tool is one step. The order in which two deliveries of one task reach the parent is not checked.

What a later extension would take up first: a second sub-agent in the run of `Agents`; the memory flush as one more turn of `SessionStore`.
