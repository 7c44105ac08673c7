---------------------------- MODULE SessionStore ----------------------------
(***************************************************************************)
(* The session file (session/manager.py) and those who read and write it:  *)
(* turns (orchestrator/flows.py), /new and /reset, /model.  Every save     *)
(* writes the whole file, from what the same operation has read.  Only     *)
(* update_session, preserve_session_identity and sync_session_target hold  *)
(* the manager's lock meanwhile; resolve_session and the two resets do     *)
(* not.  A turn keeps its own copy of the session from its beginning to    *)
(* its end and merges it into the file then.                               *)
(*                                                                         *)
(* The session lock orders the turns of a session, and /new of Telegram    *)
(* with them; /new of Matrix, /new @topic and /model do not take it.       *)
(***************************************************************************)
EXTENDS Integers, FiniteSets

CONSTANTS
  Keys,       \* sessions
  Providers,  \* CLI providers, each with a conversation of its own
  Default,    \* the provider of the configured model
  Turns,      \* messages
  Resets,     \* /new and /reset commands
  Switches,   \* /model commands
  KeyOf,      \* the session of each of them
  Chosen,     \* the provider a turn (@model) or a /model asks for, or NoProvider
  Queued,     \* the resets that take the session lock
  OfCurrent,  \* the resets of the provider in use (/reset)
  Days,       \* bound: the sets of operations of which one happens
  NoProvider,
  NoOp

Ops == Turns \cup Resets \cup Switches

ASSUME StoreAssumption ==
  /\ Resets \cap Turns = {} /\ Switches \cap (Turns \cup Resets) = {}
  /\ Default \in Providers
  /\ NoProvider \notin Providers
  /\ KeyOf \in [Ops -> Keys]
  /\ Chosen \in [Ops -> Providers \cup {NoProvider}]
  /\ \A o \in Switches : Chosen[o] \in Providers
  /\ Queued \subseteq Resets /\ OfCurrent \subseteq Resets
  /\ Days \subseteq SUBSET Ops
  /\ NoOp \notin Ops

VARIABLES
  file,     \* sessions.json
  mutex,    \* the holder of SessionManager._lock
  session,  \* the holder of the session lock
  pc,       \* how far an operation is
  snap,     \* the file as an operation has read it
  mem,      \* the SessionData of an operation
  retried,  \* turns that were given a fresh session
  forgotten,\* history: conversations a reset or an expiry has dropped
  blamed,   \* history: sessions reset while someone held an older copy
  counted,  \* history: turns stored in a bucket since it was last dropped
  raced     \* history: a save was made from an outdated reading

history == <<forgotten, blamed, counted, raced>>
vars == <<file, mutex, session, pc, snap, mem, retried, history>>

-----------------------------------------------------------------------------
(* SessionData.  A conversation is named by the turn that started it and    *)
(* the provider it was started on.                                          *)

Conversations == [turn : Turns, provider : Providers]
NoConversation == [turn |-> NoOp, provider |-> NoProvider]
Bucket == [id : Conversations \cup {NoConversation}, count : Nat]
NoBucket == [id |-> NoConversation, count |-> 0]

\* An entry without a target stands for a key that is not in the file.
Entry == [target : Providers \cup {NoProvider}, of : [Providers -> Bucket]]
NewEntry(p) == [target |-> p, of |-> [q \in Providers |-> NoBucket]]
Absent == NewEntry(NoProvider)
Files == [Keys -> Entry]

Current(e) == e.of[e.target]

Phases == {"new", "looked", "loaded", "resolved", "syncing", "running", "ended",
           "stopped", "storing", "preserving", "recovering", "clearing", "done"}

TypeInv ==
  /\ file \in Files
  /\ mutex \in Ops \cup {NoOp}
  /\ session \in [Keys -> Ops \cup {NoOp}]
  /\ pc \in [Ops -> Phases]
  /\ snap \in [Ops -> Files]
  /\ mem \in [Ops -> Entry]
  /\ retried \subseteq Turns
  /\ forgotten \subseteq Keys \X Conversations
  /\ blamed \subseteq Keys
  /\ counted \in [Keys -> [Providers -> Nat]]
  /\ raced \in BOOLEAN

Init ==
  /\ file = [k \in Keys |-> Absent]
  /\ mutex = NoOp
  /\ session = [k \in Keys |-> NoOp]
  /\ \E day \in Days : pc = [o \in Ops |-> IF o \in day THEN "new" ELSE "done"]
  /\ snap = [o \in Ops |-> [k \in Keys |-> Absent]]
  /\ mem = [o \in Ops |-> Absent]
  /\ retried = {} /\ forgotten = {} /\ blamed = {}
  /\ counted = [k \in Keys |-> [p \in Providers |-> 0]]
  /\ raced = FALSE

-----------------------------------------------------------------------------
(* Reading and writing.                                                     *)

At(o, phase) == pc' = [pc EXCEPT ![o] = phase]

\* _load, in a thread; what was read is forgotten when the operation goes on.
Load(o) == snap' = [snap EXCEPT ![o] = file]
Unload(o) == snap' = [snap EXCEPT ![o] = [k \in Keys |-> Absent]]
Leave(o) == mem' = [mem EXCEPT ![o] = Absent]

\* Everybody whose save would bring back what session k has now.
HoldsCopy(o, k) ==
  \/ pc[o] \in {"loaded", "syncing", "storing", "preserving", "clearing"}
  \/ o \in Turns /\ KeyOf[o] = k /\ pc[o] \in {"resolved", "running", "ended",
                                               "stopped", "recovering"}

\* _save: the entry of k becomes e, every other entry what it was when read.
Save(o, e) ==
  LET k == KeyOf[o] IN
  /\ file' = [snap[o] EXCEPT ![k] = e]
  /\ raced' = (raced \/ snap[o] # file)

\* History of a save that drops the buckets of P.
Drop(o, P) ==
  LET k == KeyOf[o] IN
  /\ forgotten' = (forgotten \cup {<<k, e.of[p].id>> : p \in P, e \in {file[k], snap[o][k]}})
                    \ {<<k, NoConversation>>}
  /\ blamed' = IF \E u \in Ops \ {o} : HoldsCopy(u, k) THEN blamed \cup {k} ELSE blamed
  /\ counted' = [counted EXCEPT ![k] = [p \in Providers |-> IF p \in P THEN 0 ELSE @[p]]]

Kept == UNCHANGED <<forgotten, blamed, counted>>

-----------------------------------------------------------------------------
(* A turn.                                                                  *)

\* The turn gets its session lock and resolve_session reads the file.
Resolve(t) ==
  /\ t \in Turns
  /\ \/ pc[t] = "new" /\ session[KeyOf[t]] = NoOp
     \/ pc[t] = "recovering" /\ session[KeyOf[t]] = t
  /\ session' = [session EXCEPT ![KeyOf[t]] = t]
  /\ Load(t)
  /\ At(t, "loaded")
  /\ UNCHANGED <<file, mutex, mem, retried, history>>

\* A fresh entry is used, on the provider the message names or else on its own;
\* an expired or missing one is replaced.  Only a change is saved.
Resolved(t) ==
  LET k == KeyOf[t]
      e == snap[t][k]
      wanted == IF Chosen[t] = NoProvider THEN Default ELSE Chosen[t] IN
  /\ t \in Turns /\ pc[t] = "loaded"
  /\ At(t, "resolved")
  /\ \/ /\ e.target # NoProvider
        /\ mem' = [mem EXCEPT ![t] =
                     [e EXCEPT !.target = IF Chosen[t] = NoProvider THEN @ ELSE wanted]]
        /\ IF mem'[t] # e THEN Save(t, mem'[t]) ELSE UNCHANGED <<file, raced>>
        /\ Kept
     \/ /\ mem' = [mem EXCEPT ![t] = NewEntry(wanted)]
        /\ Save(t, mem'[t])
        /\ Drop(t, Providers)
  /\ Unload(t)
  /\ UNCHANGED <<mutex, session, retried>>

\* sync_session_target, under the lock: reads, and saves if the target differs.
Sync(t) ==
  /\ t \in Turns /\ pc[t] = "resolved" /\ mutex = NoOp
  /\ mutex' = t /\ Load(t) /\ At(t, "syncing")
  /\ UNCHANGED <<file, session, mem, retried, history>>

Synced(t) ==
  LET e == snap[t][KeyOf[t]] IN
  /\ t \in Turns /\ pc[t] = "syncing"
  /\ IF e.target \in {NoProvider, mem[t].target}
     THEN UNCHANGED <<file, raced>>
     ELSE Save(t, [e EXCEPT !.target = mem[t].target])
  /\ mutex' = NoOp /\ At(t, "running")
  /\ Unload(t)
  /\ Kept /\ UNCHANGED <<session, mem, retried>>

\* The CLI continues the conversation of the session, or has started one.
Answered(t) ==
  LET p == mem[t].target IN
  /\ t \in Turns /\ pc[t] = "running"
  /\ At(t, "ended")
  /\ mem' = [mem EXCEPT ![t].of[p].id =
               IF @ = NoConversation THEN [turn |-> t, provider |-> p] ELSE @]
  /\ UNCHANGED <<file, mutex, session, snap, retried, history>>

\* The turn is stopped or fails: a first conversation is kept if the CLI has
\* named one, a stopped stream has none.
Interrupted(t) ==
  LET p == mem[t].target IN
  /\ t \in Turns /\ pc[t] = "running"
  /\ At(t, "stopped")
  /\ \/ mem' = [mem EXCEPT ![t].of[p].id =
                  IF @ = NoConversation THEN [turn |-> t, provider |-> p] ELSE @]
     \/ UNCHANGED mem
  /\ UNCHANGED <<file, mutex, session, snap, retried, history>>

\* Mutant of Merged: the copy's session_id, which is that of the provider in use.
MergedInUse(current, copy) ==
  [p \in Providers |->
    [id    |-> IF copy.of[copy.target].id = NoConversation
               THEN current.of[p].id ELSE copy.of[copy.target].id,
     count |-> IF copy.of[p].count > current.of[p].count
               THEN copy.of[p].count ELSE current.of[p].count]]

\* Mutant of Merged: the counters are added.
MergedAdding(current, copy) ==
  [p \in Providers |->
    [id    |-> IF copy.of[p].id = NoConversation THEN current.of[p].id ELSE copy.of[p].id,
     count |-> copy.of[p].count + current.of[p].count]]

\* _merge_provider_sessions: conversations of the copy win, counters never
\* regress, and a bucket the file has lost comes back.
Merged(current, copy) ==
  [p \in Providers |->
    [id    |-> IF copy.of[p].id = NoConversation THEN current.of[p].id ELSE copy.of[p].id,
     count |-> IF copy.of[p].count > current.of[p].count
               THEN copy.of[p].count ELSE current.of[p].count]]

\* update_session and preserve_session_identity take the lock and read.
Store(t) ==
  /\ t \in Turns /\ pc[t] \in {"ended", "stopped"} /\ mutex = NoOp
  /\ mutex' = t /\ Load(t)
  /\ At(t, IF pc[t] = "ended" THEN "storing" ELSE "preserving")
  /\ UNCHANGED <<file, session, mem, retried, history>>

\* They merge, save, and the turn gives its session lock back.
Stored(t) ==
  LET k == KeyOf[t]
      p == mem[t].target
      merged == [target |-> p, of |-> Merged(snap[t][k], mem[t])]
      e == IF pc[t] = "storing" THEN [merged EXCEPT !.of[p].count = @ + 1] ELSE merged IN
  /\ t \in Turns /\ pc[t] \in {"storing", "preserving"}
  /\ Save(t, e)
  /\ Unload(t) /\ Leave(t)
  /\ counted' = IF pc[t] = "storing" THEN [counted EXCEPT ![k][p] = @ + 1] ELSE counted
  /\ mutex' = NoOp
  /\ session' = [session EXCEPT ![k] = NoOp]
  /\ At(t, "done")
  /\ UNCHANGED <<retried, forgotten, blamed>>

\* _recover_session: a killed process or a rejected conversation; once.
Recover(t) ==
  /\ t \in Turns /\ pc[t] = "running" /\ t \notin retried
  /\ retried' = retried \cup {t}
  /\ Load(t) /\ At(t, "clearing")
  /\ UNCHANGED <<file, mutex, session, mem, history>>

-----------------------------------------------------------------------------
(* The retry on a fresh session, /new and /reset.                           *)

\* What a reset clears: the provider in use, or that of the configured model.
\* The retry of a turn clears the latter too, whichever its process ran on.
Target(o) ==
  CASE o \in OfCurrent /\ mem[o].target # NoProvider -> mem[o].target
    [] o \in Turns /\ Chosen[o] # NoProvider -> Chosen[o]
    [] OTHER -> Default

\* The command begins, in the queue of its session or beside it, and looks at
\* the session.
Look(r) ==
  LET k == KeyOf[r] IN
  /\ r \in Resets /\ pc[r] = "new"
  /\ IF r \in Queued
     THEN session[k] = NoOp /\ session' = [session EXCEPT ![k] = r]
     ELSE UNCHANGED session
  /\ mem' = [mem EXCEPT ![r] = file[k]]
  /\ At(r, "looked")
  /\ UNCHANGED <<file, mutex, snap, retried, history>>

ResetRead(r) ==
  /\ r \in Resets /\ pc[r] = "looked"
  /\ Load(r) /\ At(r, "clearing")
  /\ UNCHANGED <<file, mutex, session, mem, retried, history>>

\* Mutant of Cleared: the counters go and the conversation stays.
ClearedCounters(o) ==
  LET k == KeyOf[o]
      p == Target(o)
      e == snap[o][k] IN
  /\ o \in Resets \cup Turns /\ pc[o] = "clearing"
  /\ Save(o, [e EXCEPT !.target = p, !.of[p].count = 0])
  /\ Drop(o, {p})
  /\ At(o, IF o \in Turns THEN "recovering" ELSE "done")
  /\ session' = IF o \in Queued THEN [session EXCEPT ![k] = NoOp] ELSE session
  /\ Unload(o) /\ Leave(o)
  /\ UNCHANGED <<mutex, retried>>

\* reset_provider_session: one bucket goes, its provider becomes the target.
Cleared(o) ==
  LET k == KeyOf[o]
      p == Target(o)
      e == snap[o][k] IN
  /\ o \in Resets \cup Turns /\ pc[o] = "clearing"
  /\ Save(o, [e EXCEPT !.target = p, !.of[p] = NoBucket])
  /\ Drop(o, {p})
  /\ At(o, IF o \in Turns THEN "recovering" ELSE "done")
  /\ session' = IF o \in Queued THEN [session EXCEPT ![k] = NoOp] ELSE session
  /\ Unload(o) /\ Leave(o)
  /\ UNCHANGED <<mutex, retried>>

-----------------------------------------------------------------------------
(* /model.                                                                  *)

\* It looks for a session to switch, kills its processes, and then takes the lock.
SwitchLook(m) ==
  /\ m \in Switches /\ pc[m] = "new"
  /\ At(m, IF file[KeyOf[m]].target = NoProvider THEN "done" ELSE "looked")
  /\ UNCHANGED <<file, mutex, session, snap, mem, retried, history>>

SwitchRead(m) ==
  /\ m \in Switches /\ pc[m] = "looked" /\ mutex = NoOp
  /\ mutex' = m /\ Load(m) /\ At(m, "loaded")
  /\ UNCHANGED <<file, session, mem, retried, history>>

Switched(m) ==
  LET e == snap[m][KeyOf[m]] IN
  /\ m \in Switches /\ pc[m] = "loaded"
  /\ IF e.target \in {NoProvider, Chosen[m]}
     THEN UNCHANGED <<file, raced>>
     ELSE Save(m, [e EXCEPT !.target = Chosen[m]])
  /\ mutex' = NoOp /\ At(m, "done")
  /\ Unload(m)
  /\ Kept /\ UNCHANGED <<session, mem, retried>>

AllDone == (\A o \in Ops : pc[o] = "done") /\ UNCHANGED vars

Next ==
  \/ \E t \in Turns :
       \/ Resolve(t) \/ Resolved(t) \/ Sync(t) \/ Synced(t)
       \/ Answered(t) \/ Interrupted(t) \/ Store(t) \/ Stored(t) \/ Recover(t)
  \/ \E o \in Ops : Cleared(o)
  \/ \E r \in Resets : Look(r) \/ ResetRead(r)
  \/ \E m \in Switches : SwitchLook(m) \/ SwitchRead(m) \/ Switched(m)
  \/ AllDone

Spec == Init /\ [][Next]_vars

-----------------------------------------------------------------------------
(* Properties.                                                              *)

\* A bucket only ever holds a conversation of its own session and provider, so a
\* prompt is never sent into another one, whatever is switched, reset, merged or
\* lost meanwhile.
ConversationsApart ==
  \A k \in Keys, p \in Providers :
    LET id == file[k].of[p].id IN
    id # NoConversation => KeyOf[id.turn] = k /\ id.provider = p

\* A conversation that /new, /reset, an expiry or a retry has dropped comes back
\* only through an operation that held a copy of it at that moment: a turn of the
\* session, or one between its reading and its save of the file.
ForgottenStaysForgotten ==
  \A k \in Keys, p \in Providers :
    <<k, file[k].of[p].id>> \in forgotten => k \in blamed

\* As long as no save was made from an outdated reading, and no reset ran beside
\* a turn of the session, every completed turn is counted once.
CountedOnce ==
  ~raced => \A k \in Keys \ blamed, p \in Providers :
              file[k].of[p].count = counted[k][p]
=============================================================================
