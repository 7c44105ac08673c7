------------------------------ MODULE LockPool ------------------------------
(***************************************************************************)
(* The per-session lock pool (bus/lock_pool.py) and the asyncio locks it   *)
(* hands out, seen from the coroutines that serialise on it: the Telegram  *)
(* ingress, Matrix dispatch, MessageBus envelopes, heartbeats, memory      *)
(* flushes.  Each of them is a "turn": it calls get(key) once, may suspend *)
(* while it still holds the reference, then runs its body under            *)
(* `async with lock`.                                                      *)
(*                                                                         *)
(* A lock object carries the name of the turn whose get() created it, so   *)
(* that an evicted lock and its replacement stay distinct objects.         *)
(***************************************************************************)
EXTENDS Integers, FiniteSets, SequencesExt

CONSTANTS
  Keys,      \* session lock keys, (chat_id, topic_id)
  Turns,     \* coroutines, each of which takes one session lock once
  KeyOf,     \* the key each turn asks for
  MaxLocks,  \* the bound given to the pool
  NoTurn     \* neither a turn nor a lock

ASSUME PoolAssumption ==
  /\ IsFiniteSet(Keys)
  /\ IsFiniteSet(Turns)
  /\ NoTurn \notin Turns
  /\ KeyOf \in [Turns -> Keys]
  /\ MaxLocks \in Nat \ {0}

VARIABLES
  locks,    \* the dict: the lock object pooled for a key, or NoTurn
  stamp,    \* when the entry of a key was inserted (dicts keep that order)
  made,     \* how many lock objects get() has created
  owner,    \* the turn inside a lock object
  waiters,  \* the FIFO of turns suspended in acquire() of a lock object
  ref,      \* the lock object a turn obtained from get()
  stage     \* how far a turn is

poolVars == <<locks, stamp, made>>
objectVars == <<owner, waiters>>
turnVars == <<ref, stage>>
vars == <<locks, stamp, made, owner, waiters, ref, stage>>

Stages == {"new", "deferred", "waiting", "inside", "done"}

TypeOK ==
  /\ locks \in [Keys -> Turns \cup {NoTurn}]
  /\ stamp \in [Keys -> Nat]
  /\ made \in Nat
  /\ owner \in [Turns -> Turns \cup {NoTurn}]
  /\ waiters \in [Turns -> Seq(Turns)]
  /\ ref \in [Turns -> Turns \cup {NoTurn}]
  /\ stage \in [Turns -> Stages]

Init ==
  /\ locks = [k \in Keys |-> NoTurn]
  /\ stamp = [k \in Keys |-> 0]
  /\ made = 0
  /\ owner = [o \in Turns |-> NoTurn]
  /\ waiters = [o \in Turns |-> <<>>]
  /\ ref = [t \in Turns |-> NoTurn]
  /\ stage = [t \in Turns |-> "new"]

-----------------------------------------------------------------------------
(* The pool.                                                               *)

Pooled == {k \in Keys : locks[k] # NoTurn}

IsLocked(o) == owner[o] # NoTurn

\* Mutant of Idle: whether a lock is held is not looked at.
IdleOrHeld == Pooled

\* The keys that _evict_if_needed collects: their lock is not held *now*.  A
\* lock whose holder has just left and whose first waiter has not run yet is
\* among them, and so is a lock that a suspended turn still refers to.
Idle == {k \in Pooled : ~IsLocked(locks[k])}

\* Mutant of EvictCount: half of the idle locks, and none of a single one.
EvictHalf == Cardinality(Idle) \div 2

EvictCount == IF Cardinality(Idle) \div 2 > 1 THEN Cardinality(Idle) \div 2 ELSE 1

\* Mutant of Evicted: room is made one entry too early.
EvictedEarly ==
  IF Cardinality(Pooled) + 1 < MaxLocks
  THEN {}
  ELSE {k \in Idle : Cardinality({j \in Idle : stamp[j] < stamp[k]}) < EvictCount}

\* The EvictCount oldest of them.
Evicted ==
  IF Cardinality(Pooled) < MaxLocks
  THEN {}
  ELSE {k \in Idle : Cardinality({j \in Idle : stamp[j] < stamp[k]}) < EvictCount}

LockFor(t) == IF locks[KeyOf[t]] = NoTurn THEN t ELSE locks[KeyOf[t]]

\* get(key): the pooled lock of the key or, after making room, a new one.
GetLock(t) ==
  /\ ref' = [ref EXCEPT ![t] = LockFor(t)]
  /\ IF locks[KeyOf[t]] # NoTurn
     THEN UNCHANGED poolVars
     ELSE /\ locks' = [k \in Keys |-> IF k = KeyOf[t] THEN t
                                      ELSE IF k \in Evicted THEN NoTurn
                                      ELSE locks[k]]
          /\ stamp' = [k \in Keys |-> IF k = KeyOf[t] THEN made + 1
                                      ELSE IF k \in Evicted THEN 0
                                      ELSE stamp[k]]
          /\ made' = made + 1

-----------------------------------------------------------------------------
(* asyncio.Lock: acquire() takes a free lock without suspending, but queues *)
(* behind the waiters of a lock that is being handed over.                  *)

Acquire(t, o) ==
  IF IsLocked(o) \/ waiters[o] # <<>>
  THEN /\ waiters' = [waiters EXCEPT ![o] = Append(@, t)]
       /\ stage' = [stage EXCEPT ![t] = "waiting"]
       /\ UNCHANGED owner
  ELSE /\ owner' = [owner EXCEPT ![o] = t]
       /\ stage' = [stage EXCEPT ![t] = "inside"]
       /\ UNCHANGED waiters

\* get() and `async with lock` with no await between them.
Enter(t) ==
  /\ stage[t] = "new"
  /\ GetLock(t)
  /\ Acquire(t, LockFor(t))

\* get(), and a suspension because the lock is held (the queue indicator of
\* SequentialMiddleware is sent before the turn queues on the lock).
Defer(t) ==
  /\ stage[t] = "new"
  /\ IsLocked(LockFor(t))
  /\ GetLock(t)
  /\ stage' = [stage EXCEPT ![t] = "deferred"]
  /\ UNCHANGED objectVars

EnterDeferred(t) ==
  /\ stage[t] = "deferred"
  /\ Acquire(t, ref[t])
  /\ UNCHANGED <<poolVars, ref>>

\* The first waiter runs again after a release and takes the lock.
Wake(t) ==
  /\ stage[t] = "waiting"
  /\ ~IsLocked(ref[t])
  /\ waiters[ref[t]] # <<>>
  /\ Head(waiters[ref[t]]) = t
  /\ owner' = [owner EXCEPT ![ref[t]] = t]
  /\ waiters' = [waiters EXCEPT ![ref[t]] = Tail(@)]
  /\ stage' = [stage EXCEPT ![t] = "inside"]
  /\ UNCHANGED <<poolVars, ref>>

Leave(t) ==
  /\ stage[t] = "inside"
  /\ owner' = [owner EXCEPT ![ref[t]] = NoTurn]
  /\ stage' = [stage EXCEPT ![t] = "done"]
  /\ UNCHANGED <<poolVars, waiters, ref>>

\* A turn cancelled while suspended gives up its place in the queue.
Abandon(t) ==
  /\ \/ /\ stage[t] = "deferred"
        /\ UNCHANGED waiters
     \/ /\ stage[t] = "waiting"
        /\ \E i \in 1..Len(waiters[ref[t]]) :
             /\ waiters[ref[t]][i] = t
             /\ waiters' = [waiters EXCEPT ![ref[t]] = RemoveAt(@, i)]
  /\ stage' = [stage EXCEPT ![t] = "done"]
  /\ UNCHANGED <<poolVars, owner, ref>>

Next ==
  \E t \in Turns :
    \/ Enter(t)
    \/ Defer(t)
    \/ EnterDeferred(t)
    \/ Wake(t)
    \/ Leave(t)
    \/ Abandon(t)

Spec == Init /\ [][Next]_vars

-----------------------------------------------------------------------------
(* Properties.                                                             *)

Inside(t) == stage[t] = "inside"

\* Two turns of one session are never inside their lock at the same time:
\* what injection.py ("Caller must hold the per-chat lock to prevent
\* concurrent session access") relies on.
SessionExclusion ==
  \A t, u \in Turns :
    (Inside(t) /\ Inside(u) /\ KeyOf[t] = KeyOf[u]) => t = u

\* One lock object never admits two turns, whatever the pool does with it:
\* the object's owner is exactly the turn that is inside.
ObjectExclusion ==
  \A t \in Turns :
    /\ Inside(t) => owner[ref[t]] = t
    /\ IsLocked(t) => Inside(owner[t]) /\ ref[owner[t]] = t

\* A lock that is held is never dropped from the pool.
HeldLockStays ==
  [][ \A k \in Pooled : IsLocked(locks[k]) => locks'[k] = locks[k] ]_vars

\* Once the pool is at its bound it grows only if every pooled lock is held;
\* otherwise get() makes room first (_evict_if_needed).
GrowsOnlyWhenAllHeld ==
  [][ (Cardinality(Pooled') > Cardinality(Pooled) /\ Cardinality(Pooled) >= MaxLocks)
        => \A k \in Pooled : IsLocked(locks[k]) ]_vars
=============================================================================
