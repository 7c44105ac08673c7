---------------------------- MODULE SessionQueue ----------------------------
(***************************************************************************)
(* The Telegram ingress (SequentialMiddleware) on top of the lock pool:    *)
(* messages that find their session busy get a queue entry, an indicator   *)
(* message with a Cancel button, and then wait for the lock; the user may  *)
(* cancel one entry, /stop drains the entries of a chat, and the deploy    *)
(* watcher waits for the queue to be idle before it restarts the bot.      *)
(*                                                                         *)
(* The turns of LockPool that are not messages are the background turns    *)
(* that take the same locks: bus envelopes, heartbeats, memory flushes.    *)
(***************************************************************************)
EXTENDS LockPool

CONSTANTS
  Messages,  \* the turns that come in through the middleware
  QueueChats,
  ChatOfKey,    \* the chat of a session key: the queue is per chat, not per session
  Drainers,  \* /stop commands, each of which drains one chat once
  DrainOf    \* the chat that a /stop was sent in

ASSUME QueueAssumption ==
  /\ Messages \subseteq Turns
  /\ ChatOfKey \in [Keys -> QueueChats]
  /\ DrainOf \in [Drainers -> QueueChats]

VARIABLES
  pending,     \* the list of queue entries of a chat, named by their turn
  cancelled,   \* entries whose cancelled flag is set
  shown,       \* entries whose indicator message id is known
  served,      \* turns whose handler was called
  listed,      \* history: messages that were given an entry
  drainStage,  \* how far a /stop is in drain_pending
  drainAt,     \* the index it is suspended at; 0: its list object was emptied
  shifted,     \* history: /stops under which an entry left at or before their index
  restart      \* the deploy watcher

queueVars == <<pending, cancelled, shown, served, listed>>
drainVars == <<drainStage, drainAt, shifted>>
qvars == <<vars, queueVars, drainVars, restart>>

RestartStages == {"none", "wanted", "idle", "forced", "over"}

QueueTypeOK ==
  /\ TypeOK
  /\ pending \in [QueueChats -> Seq(Messages)]
  /\ cancelled \subseteq Messages
  /\ shown \subseteq Messages
  /\ served \subseteq Turns
  /\ listed \subseteq Messages
  /\ drainStage \in [Drainers -> {"new", "editing", "done"}]
  /\ drainAt \in [Drainers -> Nat]
  /\ shifted \subseteq Drainers
  /\ restart \in RestartStages

QueueInit ==
  /\ Init
  /\ pending = [c \in QueueChats |-> <<>>]
  /\ cancelled = {}
  /\ shown = {}
  /\ served = {}
  /\ listed = {}
  /\ drainStage = [d \in Drainers |-> "new"]
  /\ drainAt = [d \in Drainers |-> 0]
  /\ shifted = {}
  /\ restart = "none"

Chat(t) == ChatOfKey[KeyOf[t]]

Entries(c) == {pending[c][i] : i \in 1..Len(pending[c])}

-----------------------------------------------------------------------------
(* A message turn: _run_under_lock.                                        *)

\* The entry of a turn that has the lock leaves the list.  A list that becomes empty
\* is dropped, so a drain iterating it ends; what follows the entry in the list moves
\* one place forward, also under a drain that is suspended at or behind it.
Unlist(t) ==
  LET list == pending[Chat(t)]
  IN  /\ pending' = [pending EXCEPT ![Chat(t)] = RemoveFirst(@, t)]
      /\ drainAt' = [d \in Drainers |->
                       IF DrainOf[d] = Chat(t) /\ pending'[Chat(t)] = <<>>
                       THEN 0 ELSE drainAt[d]]
      /\ shifted' = shifted \cup
           {d \in Drainers : /\ DrainOf[d] = Chat(t) /\ drainStage[d] = "editing"
                             /\ \E i \in 1..Len(list) : i <= drainAt[d] /\ list[i] = t}

\* Mutant of Admit: the flag of the entry is not looked at.
AdmitUnflagged(t) ==
  IF stage'[t] # "inside"
  THEN UNCHANGED <<pending, served, drainAt, shifted>>
  ELSE Unlist(t) /\ served' = served \cup {t}

\* Mutant of Admit: a cancelled entry is left in the list.
AdmitLeavesCancelled(t) ==
  IF stage'[t] # "inside" \/ t \in cancelled
  THEN UNCHANGED <<pending, served, drainAt, shifted>>
  ELSE Unlist(t) /\ served' = served \cup {t}

\* What follows at once when the turn has the lock: its entry, if it has one,
\* leaves the list, and the handler is called unless the entry was cancelled.
Admit(t) ==
  IF stage'[t] # "inside"
  THEN UNCHANGED <<pending, served, drainAt, shifted>>
  ELSE Unlist(t) /\ served' = IF t \in cancelled THEN served ELSE served \cup {t}

\* The process runs.  Updates that were fetched before the polling stopped have tasks
\* of their own, so messages arrive until the end.
Up == restart # "over"

\* The lock is not held: no entry, even if the turn has to queue behind the
\* waiters of a lock that is being handed over.
ArriveFree(t) ==
  /\ t \in Messages
  /\ Up
  /\ ~IsLocked(LockFor(t))
  /\ Enter(t)
  /\ Admit(t)
  /\ UNCHANGED <<cancelled, shown, listed, drainStage, restart>>

\* The lock is held: the entry is appended and the indicator is being sent.
ArriveBusy(t) ==
  /\ t \in Messages
  /\ Up
  /\ Defer(t)
  /\ pending' = [pending EXCEPT ![Chat(t)] = Append(@, t)]
  /\ listed' = listed \cup {t}
  /\ UNCHANGED <<cancelled, shown, served, drainVars, restart>>

\* Mutant of IndicatorDone: a turn that was cancelled meanwhile does not go on.
IndicatorDoneUnlessCancelled(t) ==
  /\ Up
  /\ t \in Messages \ cancelled
  /\ EnterDeferred(t)
  /\ \/ shown' = shown \cup {t}
     \/ UNCHANGED shown
  /\ Admit(t)
  /\ UNCHANGED <<cancelled, listed, drainStage, restart>>

\* send_message returned or failed; the turn goes on to acquire the lock.
IndicatorDone(t) ==
  /\ Up
  /\ t \in Messages
  /\ EnterDeferred(t)
  /\ \/ shown' = shown \cup {t}
     \/ UNCHANGED shown
  /\ Admit(t)
  /\ UNCHANGED <<cancelled, listed, drainStage, restart>>

WakeTurn(t) ==
  /\ Up
  /\ Wake(t)
  /\ Admit(t)
  /\ UNCHANGED <<cancelled, shown, listed, drainStage, restart>>

LeaveTurn(t) ==
  /\ Up
  /\ Leave(t)
  /\ UNCHANGED <<queueVars, drainVars, restart>>

-----------------------------------------------------------------------------
(* Background turns take the lock without an entry and can be cancelled.   *)

BackgroundEnter(t) ==
  /\ Up
  /\ t \notin Messages
  /\ Enter(t)
  /\ Admit(t)
  /\ UNCHANGED <<cancelled, shown, listed, drainStage, restart>>

BackgroundAbandon(t) ==
  /\ Up
  /\ t \notin Messages
  /\ Abandon(t)
  /\ UNCHANGED <<queueVars, drainVars, restart>>

-----------------------------------------------------------------------------
(* Cancelling queued messages.                                             *)

\* The Cancel button of one entry: cancel_entry looks it up in the list.
CancelEntry(t) ==
  /\ Up
  /\ t \in Entries(Chat(t)) \ cancelled
  /\ cancelled' = cancelled \cup {t}
  /\ UNCHANGED <<vars, pending, shown, served, listed, drainVars, restart>>

\* Mutant of DrainFrom: only the entries with an indicator are marked.
DrainShownFrom(d, from) ==
  LET list == pending[DrainOf[d]]
      edits == {i \in from..Len(list) : list[i] \in shown \ cancelled}
  IN  /\ cancelled' = IF edits = {} THEN cancelled ELSE cancelled \cup {list[Min(edits)]}
      /\ drainStage' = [drainStage EXCEPT ![d] =
                          IF edits = {} THEN "done" ELSE "editing"]
      /\ drainAt' = [drainAt EXCEPT ![d] = IF edits = {} THEN 0 ELSE Min(edits)]

\* drain_pending goes through the list from an index on.  It marks the entries
\* that are not cancelled and suspends at the first of them whose indicator it
\* has to edit.
DrainFrom(d, from) ==
  LET list == pending[DrainOf[d]]
      edits == {i \in from..Len(list) : list[i] \in shown \ cancelled}
      to == IF edits = {} THEN Len(list) ELSE Min(edits)
  IN  /\ cancelled' = cancelled \cup {list[i] : i \in from..to}
      /\ drainStage' = [drainStage EXCEPT ![d] =
                          IF edits = {} THEN "done" ELSE "editing"]
      /\ drainAt' = [drainAt EXCEPT ![d] = IF edits = {} THEN 0 ELSE to]

\* /stop: the abort handler has run.
DrainBegin(d) ==
  /\ Up
  /\ drainStage[d] = "new"
  /\ DrainFrom(d, 1)
  /\ UNCHANGED <<vars, pending, shown, served, listed, shifted, restart>>

\* The edit returned or failed.  A list that was emptied meanwhile has no next
\* element; entries queued since then are in a list of their own.
DrainResume(d) ==
  /\ Up
  /\ drainStage[d] = "editing"
  /\ IF drainAt[d] = 0
     THEN /\ drainStage' = [drainStage EXCEPT ![d] = "done"]
          /\ UNCHANGED <<cancelled, drainAt>>
     ELSE DrainFrom(d, drainAt[d] + 1)
  /\ UNCHANGED <<vars, pending, shown, served, listed, shifted, restart>>

-----------------------------------------------------------------------------
(* The deploy watcher: _watch_restart_marker and _wait_for_restart_idle.   *)

\* Mutant of HasActiveWork: only the queue is looked at.
HasPending == \E c \in QueueChats : pending[c] # <<>>

HasActiveWork ==
  \/ \E k \in Pooled : IsLocked(locks[k])
  \/ \E c \in QueueChats : pending[c] # <<>>

RestartWanted ==
  /\ restart = "none"
  /\ restart' = "wanted"
  /\ UNCHANGED <<vars, queueVars, drainVars>>

RestartIdle ==
  /\ restart = "wanted"
  /\ ~HasActiveWork
  /\ restart' = "idle"
  /\ UNCHANGED <<vars, queueVars, drainVars>>

\* The deadline passed while there was work.
RestartForced ==
  /\ restart = "wanted"
  /\ HasActiveWork
  /\ restart' = "forced"
  /\ UNCHANGED <<vars, queueVars, drainVars>>

\* The polling stops and the process ends with the exit code of a restart.  Nothing
\* awaits the handlers and the messages that still run or wait: they are lost.
ProcessEnds ==
  /\ restart \in {"idle", "forced"}
  /\ restart' = "over"
  /\ UNCHANGED <<vars, queueVars, drainVars>>

-----------------------------------------------------------------------------

QueueNext ==
  \/ \E t \in Turns :
       \/ ArriveFree(t)
       \/ ArriveBusy(t)
       \/ IndicatorDone(t)
       \/ WakeTurn(t)
       \/ LeaveTurn(t)
       \/ BackgroundEnter(t)
       \/ BackgroundAbandon(t)
       \/ CancelEntry(t)
  \/ \E d \in Drainers : DrainBegin(d) \/ DrainResume(d)
  \/ RestartWanted
  \/ RestartIdle
  \/ RestartForced
  \/ ProcessEnds

QueueSpec == QueueInit /\ [][QueueNext]_qvars

\* Sent or edited indicators return, the loop runs what is ready, the body of a
\* turn ends.  Users and the deploy watcher owe nothing.
QueueFairness ==
  /\ \A t \in Turns :
       WF_qvars(IndicatorDone(t)) /\ WF_qvars(WakeTurn(t)) /\ WF_qvars(LeaveTurn(t))
  /\ \A d \in Drainers : WF_qvars(DrainResume(d))

FairQueueSpec == QueueSpec /\ QueueFairness

-----------------------------------------------------------------------------
(* Properties.                                                             *)

\* A message whose cancellation was accepted never reaches its handler, and a
\* message that reached it cannot be cancelled any more (_run_under_lock
\* removes the entry in the same step in which it reads the flag).
CancelledNeverServed == cancelled \cap served = {}

\* The list of a chat is exactly the messages that were given an entry and do not
\* have their lock yet, deferred or waiting, each once (_run_under_lock: the append
\* and the removal are on either side of two suspensions).
PendingAgrees ==
  \A c \in QueueChats :
    /\ \A i, j \in 1..Len(pending[c]) : pending[c][i] = pending[c][j] => i = j
    /\ Entries(c) = {t \in listed : Chat(t) = c /\ stage[t] \in {"deferred", "waiting"}}

\* drain_pending's "Cancel ALL pending messages": when it returns, every entry of the
\* chat is cancelled, those that were appended while it edited an indicator included,
\* unless an entry at or before the one it was suspended at left the list meanwhile.
\* That is what the list iterator of the loop forgives nobody for: the entry that
\* moved up is skipped.
DrainTakesAll ==
  [][ \A d \in Drainers :
        drainStage'[d] = "done" /\ drainStage[d] # "done" =>
          d \in shifted \/ Entries(DrainOf[d]) \subseteq cancelled' ]_qvars

\* Every message that got past the dedup check ends, and it ends served unless
\* it was cancelled or the process ended for a restart.
EveryMessageSettled ==
  \A t \in Messages :
    stage[t] # "new" ~> \/ stage[t] = "done" /\ (t \in served \/ t \in cancelled)
                        \/ restart = "over"

\* When the watcher takes the bot for idle no handler runs, and no message whose sender
\* was shown a place in the queue is still unsettled (has_active_work).  The deadline
\* that forces the restart asks neither, and a message that queued without an entry on a
\* lock in hand-over is not seen.
RestartSparesRunning ==
  [][ restart' = "idle" /\ restart # "idle" =>
        /\ \A t \in Turns : ~Inside(t)
        /\ \A t \in listed : stage[t] = "done" ]_qvars

=============================================================================
