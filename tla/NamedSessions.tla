---------------------------- MODULE NamedSessions ----------------------------
(***************************************************************************)
(* The named sessions of a chat: the registry and its file                 *)
(* (session/named.py), background runs (background/observer.py) and        *)
(* follow-ups in the foreground (orchestrator/flows.py), /session, /stop   *)
(* and the /sessions buttons (orchestrator/core.py, session_selector.py),  *)
(* and what is resumed after a crash (infra/recovery.py).                   *)
(*                                                                         *)
(* A follow-up looks at the session, waits for the model policy to choose  *)
(* a model, and marks the session as running only then.  The file is       *)
(* written by some changes of status and not by others.                    *)
(***************************************************************************)
EXTENDS Integers, FiniteSets

CONSTANTS
  Names,       \* names of sessions
  Jobs,        \* pieces of work: prompts of the user, and resumptions
  New,         \* the jobs that start a session (/session)
  Foreground,  \* follow-ups in the foreground (@name, a button)
  Resumptions, \* background follow-ups that the start of the bot submits
  MaxSessions, \* MAX_SESSIONS_PER_CHAT
  MaxTasks,    \* MAX_TASKS_PER_CHAT
  MaxOrders,   \* bound: /stop and buttons pressed
  MaxCrashes,  \* bound: crashes
  NoName

ASSUME NamedAssumption ==
  /\ New \subseteq Jobs /\ Foreground \subseteq Jobs \ New
  /\ Resumptions \subseteq Jobs \ (New \cup Foreground)
  /\ MaxSessions \in Nat /\ MaxTasks \in Nat
  /\ MaxOrders \in Nat /\ MaxCrashes \in Nat
  /\ NoName \notin Names

VARIABLES
  status,   \* NamedSession.status in memory, "absent" if there is no entry
  known,    \* the sessions with a CLI session id
  file,     \* named_sessions.json: the status and id of every session
  at,       \* how far a job is
  name,     \* the session of a job
  ending,   \* sessions whose end button waits for the kill
  stopping, \* how far /stop is
  awaited,  \* the tasks whose end /stop waits for
  up,       \* the bot is "up", "down" or "starting" again
  pending,  \* sessions to be resumed
  orders, crashes,
  overlap,  \* history: sessions two jobs were let into
  stuck,    \* history: marked running by a job that was then refused or failed
  quiet,    \* history: sessions ended while nobody was at work on them
  unsaved,  \* history: sessions whose last change of status is not in the file
  leftover  \* history: sessions of which the file said something untrue at the crash

memory == <<status, known, file>>
control == <<ending, stopping, awaited, orders>>
host == <<up, pending, crashes>>
history == <<overlap, stuck, quiet, unsaved, leftover>>
vars == <<memory, at, name, control, host, history>>

Phases == {"new", "checked", "task", "delivering", "foreground", "done", "lost"}
Statuses == {"absent", "idle", "running", "ended"}

TypeInv ==
  /\ status \in [Names -> Statuses]
  /\ known \subseteq Names
  /\ file \in [Names -> [status : Statuses \ {"ended"}, known : BOOLEAN]]
  /\ at \in [Jobs -> Phases]
  /\ name \in [Jobs -> Names \cup {NoName}]
  /\ ending \subseteq Names
  /\ stopping \in {"no", "killing", "cancelling"}
  /\ awaited \subseteq Jobs
  /\ up \in {"up", "down", "starting"}
  /\ pending \subseteq Names
  /\ orders \in 0..MaxOrders /\ crashes \in 0..MaxCrashes
  /\ overlap \subseteq Names /\ stuck \subseteq Names /\ quiet \subseteq Names
  /\ unsaved \subseteq Names /\ leftover \subseteq Names

Init ==
  /\ status = [n \in Names |-> "absent"]
  /\ known = {}
  /\ file = [n \in Names |-> [status |-> "absent", known |-> FALSE]]
  /\ at = [j \in Jobs |-> "new"]
  /\ name = [j \in Jobs |-> NoName]
  /\ ending = {} /\ stopping = "no" /\ awaited = {}
  /\ up = "up" /\ pending = {}
  /\ orders = 0 /\ crashes = 0
  /\ overlap = {} /\ stuck = {} /\ quiet = {} /\ unsaved = {} /\ leftover = {}

-----------------------------------------------------------------------------
(* The registry.                                                           *)

Active == {n \in Names : status[n] \in {"idle", "running"}}

Working(n) == {j \in Jobs : name[j] = n /\ at[j] \in {"task", "delivering", "foreground"}}
\* Whoever has passed the check of a session and may still change it.
Inside(n) == Working(n) \cup {j \in Jobs : name[j] = n /\ at[j] = "checked"}

Tasks == {j \in Jobs : at[j] \in {"task", "delivering"}}

\* _persist: every session, except those that have ended.
Written(now) ==
  [n \in Names |-> [status |-> IF now[n] = "ended" THEN "absent" ELSE now[n],
                   known  |-> n \in known' /\ now[n] # "ended"]]
Persist == file' = Written(status') /\ unsaved' = {}

\* A change of status that writes nothing.
InMemory(n) == UNCHANGED file /\ unsaved' = unsaved \cup {n}

SetStatus(n, s) == status' = [status EXCEPT ![n] = s]
EndAllOf(N) == status' = [n \in Names |-> IF n \in N THEN "ended" ELSE status[n]]

\* History of the end of the sessions N.
Ended(N) == quiet' = quiet \cup {n \in N : Inside(n) = {}}

Move(j, phase) == at' = [at EXCEPT ![j] = phase]

\* BackgroundObserver.submit refuses a task too many; the session remains as it
\* has been marked.
Submit(j, n) ==
  IF Cardinality(Tasks) >= MaxTasks
  THEN Move(j, "done") /\ stuck' = stuck \cup {n}
  ELSE Move(j, "task") /\ stuck' = stuck \ {n}

-----------------------------------------------------------------------------
(* Jobs.                                                                    *)

\* submit_named_session: a fresh name, an entry that is running, a task.
Create(j) ==
  /\ up = "up" /\ j \in New /\ at[j] = "new"
  /\ \/ /\ Cardinality(Active) >= MaxSessions
        /\ Move(j, "done")
        /\ UNCHANGED <<memory, name, overlap, stuck, quiet, unsaved>>
     \/ /\ Cardinality(Active) < MaxSessions
        /\ \E n \in Names \ Active :
             /\ SetStatus(n, "running") /\ known' = known \ {n} /\ Persist
             /\ name' = [name EXCEPT ![j] = n]
             /\ overlap' = IF Inside(n) = {} THEN overlap \ {n} ELSE overlap \cup {n}
             /\ quiet' = quiet \ {n}
             /\ Submit(j, n)
  /\ UNCHANGED <<control, host, leftover>>

\* Mutant of Check: a session that is still processing is let in.
CheckNotEnded(j) ==
  /\ up = "up" /\ j \in Jobs \ (New \cup Resumptions) /\ at[j] = "new"
  /\ \E n \in Names :
       \/ /\ status[n] \in {"idle", "running"}
          /\ Move(j, "checked") /\ name' = [name EXCEPT ![j] = n]
          /\ overlap' = overlap
       \/ /\ status[n] = "ended"
          /\ Move(j, "done") /\ UNCHANGED <<name, overlap>>
  /\ UNCHANGED <<memory, control, host, stuck, quiet, unsaved, leftover>>

\* A follow-up, in the background or in the foreground, is let into an idle
\* session, and told that another one is running or has ended.
Check(j) ==
  /\ up = "up" /\ j \in Jobs \ (New \cup Resumptions) /\ at[j] = "new"
  /\ \E n \in Names :
       \/ /\ status[n] = "idle"
          /\ Move(j, "checked") /\ name' = [name EXCEPT ![j] = n]
          /\ overlap' = IF Inside(n) = {} THEN overlap ELSE overlap \cup {n}
       \/ /\ status[n] \in {"running", "ended"}
          /\ Move(j, "done") /\ UNCHANGED <<name, overlap>>
  /\ UNCHANGED <<memory, control, host, stuck, quiet, unsaved, leftover>>

\* The policy has refused every model.
Denied(j) ==
  /\ up = "up" /\ at[j] = "checked"
  /\ Move(j, "done")
  /\ UNCHANGED <<memory, name, control, host, history>>

\* mark_running looks at nothing; then the task is submitted, or the CLI called.
\* A denial after the marking puts the status back, in memory.
Mark(j) ==
  LET n == name[j] IN
  /\ up = "up" /\ at[j] = "checked"
  /\ UNCHANGED known
  /\ \/ /\ j \notin Foreground
        /\ SetStatus(n, "running") /\ Persist /\ Submit(j, n)
     \/ /\ j \in Foreground
        /\ SetStatus(n, "running") /\ Persist /\ Move(j, "foreground")
        /\ stuck' = stuck \ {n}
     \/ /\ j \in Foreground
        /\ SetStatus(n, "idle") /\ Move(j, "done")
        /\ file' = Written([status EXCEPT ![n] = "running"]) /\ unsaved' = {n}
        /\ UNCHANGED stuck
  /\ UNCHANGED <<name, control, host, overlap, quiet, leftover>>

\* Mutant of Answered: the status is left to the next one.
AnsweredStillRunning(j) ==
  LET n == name[j] IN
  /\ up = "up" /\ at[j] = "foreground"
  /\ \/ /\ known' = known \cup {n} /\ UNCHANGED status /\ Persist
        /\ Move(j, "done") /\ UNCHANGED stuck
     \/ /\ UNCHANGED <<known, status>> /\ InMemory(n) /\ Move(j, "done") /\ UNCHANGED stuck
  /\ UNCHANGED <<name, control, host, overlap, quiet, leftover>>

\* The CLI of a follow-up in the foreground is back: with an answer, with an error
\* or stopped (only the status in memory changes), or it could not be started.
Answered(j) ==
  LET n == name[j] IN
  /\ up = "up" /\ at[j] = "foreground"
  /\ Move(j, "done")
  /\ \/ known' = known \cup {n} /\ SetStatus(n, "idle") /\ Persist /\ stuck' = stuck \ {n}
     \/ SetStatus(n, "idle") /\ InMemory(n) /\ UNCHANGED known /\ stuck' = stuck \ {n}
     \/ stuck' = stuck \cup {n} /\ UNCHANGED <<memory, unsaved>>
  /\ UNCHANGED <<name, control, host, overlap, quiet, leftover>>

\* The CLI of a task is back, or the task was cancelled: it delivers its result.
Return(j) ==
  /\ up = "up" /\ at[j] = "task"
  /\ Move(j, "delivering")
  /\ UNCHANGED <<memory, name, control, host, history>>

\* The Telegram transport updates the registry first, whatever the result is.
Deliver(j) ==
  LET n == name[j] IN
  /\ up = "up" /\ at[j] = "delivering"
  /\ Move(j, "done")
  /\ known' \in {known, known \cup {n}}
  /\ SetStatus(n, "idle") /\ Persist /\ stuck' = stuck \ {n}
  /\ UNCHANGED <<name, control, host, overlap, quiet, leftover>>

-----------------------------------------------------------------------------
(* The user ends sessions.                                                  *)

Order == up = "up" /\ orders < MaxOrders /\ orders' = orders + 1

\* The end button kills the processes of the session first, and waits for that.
EndButton(n) ==
  /\ Order
  /\ status[n] # "absent"
  /\ ending' = ending \cup {n}
  /\ UNCHANGED <<memory, at, name, stopping, awaited, host, history>>

EndSession(n) ==
  /\ up = "up" /\ n \in ending
  /\ ending' = ending \ {n} /\ UNCHANGED known
  /\ IF status[n] \in {"idle", "running"}
     THEN SetStatus(n, "ended") /\ Persist /\ Ended({n})
     ELSE UNCHANGED <<status, file, unsaved, quiet>>
  /\ UNCHANGED <<at, name, stopping, awaited, orders, host, overlap, stuck, leftover>>

\* The button for all of them kills nothing.
EndAll ==
  /\ Order
  /\ EndAllOf(Active) /\ UNCHANGED known
  /\ IF Active = {} THEN UNCHANGED <<file, unsaved>> ELSE Persist
  /\ Ended(Active)
  /\ UNCHANGED <<at, name, ending, stopping, awaited, host, overlap, stuck, leftover>>

\* /stop: processes are killed, then tasks cancelled, and when these have delivered
\* their last word every session is ended.
Stop ==
  /\ Order /\ stopping = "no"
  /\ stopping' = "killing"
  /\ UNCHANGED <<memory, at, name, ending, awaited, host, history>>

Cancel ==
  /\ up = "up" /\ stopping = "killing"
  /\ stopping' = "cancelling"
  /\ awaited' = Tasks
  /\ UNCHANGED <<memory, at, name, ending, orders, host, history>>

\* Mutant of StopEnds: the tasks are cancelled and not awaited.
StopEndsAtOnce ==
  /\ up = "up" /\ stopping = "cancelling"
  /\ stopping' = "no" /\ awaited' = {}
  /\ EndAllOf(Active) /\ UNCHANGED known
  /\ IF Active = {} THEN UNCHANGED <<file, unsaved>> ELSE Persist
  /\ quiet' = quiet \cup {n \in Active : Inside(n) \subseteq awaited}
  /\ UNCHANGED <<at, name, ending, orders, host, overlap, stuck, leftover>>

StopEnds ==
  /\ up = "up" /\ stopping = "cancelling"
  /\ \A j \in awaited : at[j] = "done"
  /\ stopping' = "no" /\ awaited' = {}
  /\ EndAllOf(Active) /\ UNCHANGED known
  /\ IF Active = {} THEN UNCHANGED <<file, unsaved>> ELSE Persist
  /\ quiet' = quiet \cup {n \in Active : Inside(n) \subseteq awaited}
  /\ UNCHANGED <<at, name, ending, orders, host, overlap, stuck, leftover>>

-----------------------------------------------------------------------------
(* The bot is killed and started again.                                     *)

Crash ==
  /\ up # "down" /\ crashes < MaxCrashes
  /\ up' = "down" /\ crashes' = crashes + 1
  /\ at' = [j \in Jobs |-> IF at[j] \in {"task", "delivering", "foreground"} THEN "lost"
                          ELSE IF at[j] \in {"checked", "lost"} THEN "done" ELSE at[j]]
  /\ ending' = {} /\ stopping' = "no" /\ awaited' = {} /\ pending' = {}
  /\ leftover' = unsaved \cup stuck
  /\ UNCHANGED <<memory, name, orders, overlap, stuck, quiet, unsaved>>

\* Mutant of Load: every session with an id is resumed.
LoadAll ==
  /\ up = "down"
  /\ up' = "starting"
  /\ status' = [n \in Names |-> IF file[n].status = "running" THEN "idle" ELSE file[n].status]
  /\ known' = {n \in Names : file[n].known}
  /\ pending' = {n \in Names : file[n].known}
  /\ overlap' = {} /\ stuck' = {} /\ quiet' = {}
  /\ unsaved' = {n \in Names : file[n].status = "running"}
  /\ UNCHANGED <<file, at, name, control, crashes, leftover>>

\* The registry is read; what is "running" in the file becomes idle, and is
\* resumed if it has an id.
Load ==
  /\ up = "down"
  /\ up' = "starting"
  /\ status' = [n \in Names |-> IF file[n].status = "running" THEN "idle" ELSE file[n].status]
  /\ known' = {n \in Names : file[n].known}
  /\ pending' = {n \in Names : file[n].status = "running" /\ file[n].known}
  /\ overlap' = {} /\ stuck' = {} /\ quiet' = {}
  /\ unsaved' = {n \in Names : file[n].status = "running"}
  /\ UNCHANGED <<file, at, name, control, crashes, leftover>>

\* Before the bot polls, each of them is submitted with its last prompt.
Resume(j) ==
  /\ up = "starting" /\ j \in Resumptions /\ at[j] = "new"
  /\ UNCHANGED known
  /\ \E n \in pending :
       /\ pending' = pending \ {n}
       /\ name' = [name EXCEPT ![j] = n]
       /\ \/ /\ status[n] = "idle"
             /\ SetStatus(n, "running") /\ Persist /\ Submit(j, n)
          \/ Move(j, "done") /\ UNCHANGED <<status, file, unsaved, stuck>>
  /\ UNCHANGED <<control, up, crashes, overlap, quiet, leftover>>

Open ==
  /\ up = "starting" /\ pending = {}
  /\ up' = "up"
  /\ UNCHANGED <<memory, at, name, control, pending, crashes, history>>

Idle ==
  /\ up = "up" /\ stopping = "no" /\ ending = {}
  /\ \A j \in Jobs : at[j] \in {"new", "done", "lost"}
  /\ UNCHANGED vars

Next ==
  \/ \E j \in Jobs : \/ Create(j) \/ Check(j) \/ Denied(j) \/ Mark(j) \/ Answered(j)
                     \/ Return(j) \/ Deliver(j) \/ Resume(j)
  \/ \E n \in Names : EndButton(n) \/ EndSession(n)
  \/ EndAll \/ Stop \/ Cancel \/ StopEnds
  \/ Crash \/ Load \/ Open
  \/ Idle

Spec == Init /\ [][Next]_vars

-----------------------------------------------------------------------------
(* Properties.                                                              *)

\* Two CLI processes resume the same conversation only if two follow-ups were let
\* into the session together: both looked before either had marked it.
OneWorker == \A n \in Names \ overlap : Cardinality(Working(n)) <= 1

\* "is still processing" is said of a session only while a job is at work on it,
\* and a session that is idle has none, unless two follow-ups were let in, or a
\* submission was refused or failed after the session had been marked.
StatusIsTrue ==
  up = "up" => \A n \in Names \ overlap :
    /\ status[n] = "running" /\ n \notin stuck => Working(n) # {}
    /\ status[n] = "idle" => Working(n) = {}

\* A session that /stop or a button has ended stays ended, unless a follow-up or a
\* run that /stop does not wait for was under way at that moment.
EndedStaysEnded == \A n \in quiet : status[n] = "ended"

\* After a crash a session is resumed only if a job was at work on it when the bot
\* died, or if the file was not true of it: its last change of status had not been
\* written, or a refused or failed submission had left it marked as running.
ResumedWasRunning ==
  \A n \in pending :
    n \in leftover \/ \E j \in Jobs : name[j] = n /\ at[j] = "lost"

=============================================================================
