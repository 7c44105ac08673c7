--------------------------- MODULE LockPoolProofs ---------------------------
(***************************************************************************)
(* What the lock pool guarantees for every set of sessions and turns, and  *)
(* with it its two users: the Telegram ingress, for every set of messages  *)
(* and /stop commands, and the message bus, for every set of bots, chats   *)
(* and envelopes.                                                          *)
(***************************************************************************)
EXTENDS SessionQueue, MessageBus, SequenceTheorems, WellFoundedInduction,
        FiniteSetTheorems, TLAPS

(***************************************************************************)
(* The order of the naturals, and the operator with which lists are edited. *)
(***************************************************************************)

\* A set of naturals that is not empty has a least element.
LEMMA NatMin ==
  ASSUME NEW T \in SUBSET Nat, T # {}
  PROVE  Min(T) \in T /\ \A y \in T : Min(T) <= y
<1> DEFINE R == {p \in Nat \X Nat : p[1] < p[2]}
<1>1. R = OpToRel(<, Nat)
  BY DEF OpToRel
<1>2. IsWellFoundedOn(R, Nat)
  BY <1>1, NatLessThanWellFounded
<1> HIDE DEF R
<1>3. PICK x \in T : \A y \in T : <<y, x>> \notin R
  BY <1>2, WFMin
<1>4. ASSUME NEW y \in T PROVE x <= y
  <2>1. x \in Nat /\ y \in Nat
    OBVIOUS
  <2>2. y < x => <<y, x>> \in R
    BY <2>1 DEF R
  <2>3. ~(y < x)
    BY <1>3, <2>2
  <2> QED
    BY <2>1, <2>3
<1> QED
  BY <1>4 DEF Min

\* Removing one position moves what follows it one place forward.
LEMMA RemoveAtProperties ==
  ASSUME NEW S, NEW s \in Seq(S), NEW i \in 1..Len(s)
  PROVE  /\ RemoveAt(s, i) \in Seq(S)
         /\ Len(RemoveAt(s, i)) = Len(s) - 1
         /\ \A j \in 1..(Len(s) - 1) :
              RemoveAt(s, i)[j] = IF j < i THEN s[j] ELSE s[j + 1]
<1> DEFINE a == SubSeq(s, 1, i - 1)
           b == SubSeq(s, i + 1, Len(s))
<1>1. Len(s) \in Nat /\ \A j \in 1..Len(s) : s[j] \in S
  OBVIOUS
<1>2. /\ a \in Seq(S)
      /\ Len(a) = i - 1
      /\ \A j \in 1..(i - 1) : a[j] = s[j]
  BY <1>1, SubSeqProperties
<1>3. /\ b \in Seq(S)
      /\ Len(b) = Len(s) - i
      /\ \A j \in 1..(Len(s) - i) : b[j] = s[i + j]
  BY <1>1, SubSeqProperties
<1>4. RemoveAt(s, i) = a \o b
  BY DEF RemoveAt
<1> HIDE DEF a, b
<1>5. /\ a \o b \in Seq(S)
      /\ Len(a \o b) = Len(a) + Len(b)
      /\ \A j \in 1..(Len(a) + Len(b)) :
           (a \o b)[j] = IF j <= Len(a) THEN a[j] ELSE b[j - Len(a)]
  BY <1>2, <1>3, ConcatProperties
<1>6. Len(a) + Len(b) = Len(s) - 1
  BY <1>1, <1>2, <1>3
<1>7. ASSUME NEW j \in 1..(Len(s) - 1)
      PROVE (a \o b)[j] = IF j < i THEN s[j] ELSE s[j + 1]
  <2>1. CASE j < i
    BY <1>1, <1>2, <1>5, <1>6, <2>1
  <2>2. CASE ~(j < i)
    <3>1. j - (i - 1) \in 1..(Len(s) - i) /\ i + (j - (i - 1)) = j + 1
      BY <1>1, <2>2
    <3>2. (a \o b)[j] = b[j - (i - 1)]
      BY <1>1, <1>2, <1>5, <1>6, <2>2
    <3> QED
      BY <1>3, <2>2, <3>1, <3>2
  <2> QED
    BY <2>1, <2>2
<1> QED
  BY <1>4, <1>5, <1>6, <1>7

\* list.remove on a list that holds everything once: the element goes, the rest
\* stays, and still everything is there once.
LEMMA RemoveFirstProperties ==
  ASSUME NEW S, NEW s \in Seq(S), NEW e,
         \A i, j \in 1..Len(s) : s[i] = s[j] => i = j
  PROVE  LET r == RemoveFirst(s, e)
         IN  /\ r \in Seq(S)
             /\ \A j \in 1..Len(r) : r[j] # e /\ \E i \in 1..Len(s) : r[j] = s[i]
             /\ \A i \in 1..Len(s) : s[i] # e => \E j \in 1..Len(r) : r[j] = s[i]
             /\ \A i, j \in 1..Len(r) : r[i] = r[j] => i = j
             /\ \A n \in 0..Len(s) :
                  (\A i \in 1..n : s[i] # e) =>
                    n <= Len(r) /\ \A i \in 1..n : r[i] = s[i]
<1>1. CASE \E i \in 1..Len(s) : s[i] = e
  <2> DEFINE I == {i \in 1..Len(s) : s[i] = e}
  <2>1. I # {} /\ I \subseteq Nat
    BY <1>1
  <2>2. Min(I) \in I
    BY <2>1, NatMin
  <2>3. SelectInSeq(s, LAMBDA v : v = e) = Min(I)
    BY <2>1 DEF SelectInSeq
  <2>4. PICK m \in 1..Len(s) : s[m] = e /\ RemoveFirst(s, e) = RemoveAt(s, m)
    BY <1>1, <2>2, <2>3 DEF RemoveFirst
  <2> DEFINE r == RemoveAt(s, m)
             from(j) == IF j < m THEN j ELSE j + 1
  <2>5. /\ r \in Seq(S)
        /\ Len(r) = Len(s) - 1
        /\ \A j \in 1..(Len(s) - 1) : r[j] = IF j < m THEN s[j] ELSE s[j + 1]
    BY RemoveAtProperties
  <2>11. RemoveFirst(s, e) = r
    BY <2>4
  <2> HIDE DEF r
  <2>6. ASSUME NEW j \in 1..Len(r)
        PROVE  from(j) \in 1..Len(s) /\ from(j) # m /\ r[j] = s[from(j)]
    <3>1. j \in 1..(Len(s) - 1) /\ j \in 1..Len(s) /\ j + 1 \in 1..Len(s)
      BY <2>5
    <3> QED
      BY <2>5, <3>1
  <2>7. \A i, j \in 1..Len(r) : from(i) = from(j) => i = j
    OBVIOUS
  <2>10. ASSUME NEW i \in 1..Len(s), s[i] # e PROVE \E j \in 1..Len(r) : r[j] = s[i]
    <3>1. CASE i < m
      BY <2>5, <3>1
    <3>2. CASE i > m
      <4>1. i - 1 \in 1..(Len(s) - 1) /\ ~(i - 1 < m) /\ (i - 1) + 1 = i
        BY <3>2
      <4> QED
        BY <2>5, <4>1
    <3> QED
      BY <2>4, <2>10, <3>1, <3>2
  <2>12. ASSUME NEW n \in 0..Len(s), \A i \in 1..n : s[i] # e
         PROVE  n <= Len(r) /\ \A i \in 1..n : r[i] = s[i]
    <3>1. n < m
      BY <2>4, <2>12
    <3> QED
      BY <2>5, <3>1
  <2> HIDE DEF from
  <2>8. \A j \in 1..Len(r) : r[j] # e /\ \E i \in 1..Len(s) : r[j] = s[i]
    BY <2>4, <2>6
  <2>9. \A i, j \in 1..Len(r) : r[i] = r[j] => i = j
    BY <2>6, <2>7
  <2> QED
    BY <2>5, <2>8, <2>9, <2>10, <2>11, <2>12
<1>2. CASE ~ \E i \in 1..Len(s) : s[i] = e
  BY <1>2 DEF RemoveFirst
<1> QED
  BY <1>1, <1>2

-----------------------------------------------------------------------------
(***************************************************************************)
(* The pool and its locks.                                                 *)
(***************************************************************************)

\* get() returns a lock object, and only inserts lock objects.
LEMMA GetLockType ==
  ASSUME TypeOK, NEW t \in Turns, GetLock(t), KeyOf \in [Turns -> Keys]
  PROVE  /\ LockFor(t) \in Turns
         /\ ref' \in [Turns -> Turns \cup {NoTurn}]
         /\ locks' \in [Keys -> Turns \cup {NoTurn}]
         /\ stamp' \in [Keys -> Nat]
         /\ made' \in Nat
<1>1. LockFor(t) \in Turns
  BY DEF TypeOK, LockFor
<1>2. ref' \in [Turns -> Turns \cup {NoTurn}]
  BY <1>1 DEF TypeOK, GetLock
<1>3. CASE locks[KeyOf[t]] # NoTurn
  BY <1>1, <1>2, <1>3 DEF TypeOK, GetLock, poolVars
<1>4. CASE locks[KeyOf[t]] = NoTurn
  <2> DEFINE gone == Evicted
  <2>1. locks' = [k \in Keys |-> IF k = KeyOf[t] THEN t
                                ELSE IF k \in gone THEN NoTurn ELSE locks[k]]
    BY <1>4 DEF GetLock
  <2>2. stamp' = [k \in Keys |-> IF k = KeyOf[t] THEN made + 1
                                ELSE IF k \in gone THEN 0 ELSE stamp[k]]
    BY <1>4 DEF GetLock
  <2>3. made' = made + 1
    BY <1>4 DEF GetLock
  <2> HIDE DEF gone
  <2>4. locks' \in [Keys -> Turns \cup {NoTurn}]
    BY <2>1 DEF TypeOK
  <2>5. stamp' \in [Keys -> Nat]
    BY <2>2 DEF TypeOK
  <2> QED
    BY <1>1, <1>2, <2>3, <2>4, <2>5 DEF TypeOK
<1> QED
  BY <1>3, <1>4

\* Queueing on a lock object, or taking it, keeps the types of its state.
LEMMA AcquireType ==
  ASSUME TypeOK, NEW t \in Turns, NEW o \in Turns, Acquire(t, o)
  PROVE  /\ owner' \in [Turns -> Turns \cup {NoTurn}]
         /\ waiters' \in [Turns -> Seq(Turns)]
         /\ stage' \in [Turns -> Stages]
<1>1. CASE IsLocked(o) \/ waiters[o] # <<>>
  <2>1. Append(waiters[o], t) \in Seq(Turns)
    BY DEF TypeOK
  <2> QED
    BY <1>1, <2>1 DEF TypeOK, Acquire, Stages
<1>2. CASE ~(IsLocked(o) \/ waiters[o] # <<>>)
  BY <1>2 DEF TypeOK, Acquire, Stages
<1> QED
  BY <1>1, <1>2

\* A turn that has called get() and has not finished refers to a lock object.
RefKnown ==
  \A t \in Turns :
    stage[t] \in {"deferred", "waiting", "inside"} => ref[t] \in Turns

TypeInv == TypeOK /\ RefKnown

LEMMA TypeInit ==
  ASSUME PoolAssumption, Init
  PROVE  TypeInv
<1>1. <<>> \in Seq(Turns)
  OBVIOUS
<1> QED
  BY <1>1 DEF PoolAssumption, Init, TypeInv, TypeOK, RefKnown, Stages

LEMMA TypeStep ==
  ASSUME PoolAssumption, TypeInv, [Next]_vars
  PROVE  TypeInv'
<1> USE DEF PoolAssumption, TypeInv
<1>1. ASSUME NEW t \in Turns, Enter(t) PROVE TypeInv'
  <2>1. /\ LockFor(t) \in Turns
        /\ ref' \in [Turns -> Turns \cup {NoTurn}]
        /\ locks' \in [Keys -> Turns \cup {NoTurn}]
        /\ stamp' \in [Keys -> Nat]
        /\ made' \in Nat
    BY <1>1, GetLockType DEF Enter
  <2>2. /\ owner' \in [Turns -> Turns \cup {NoTurn}]
        /\ waiters' \in [Turns -> Seq(Turns)]
        /\ stage' \in [Turns -> Stages]
    BY <1>1, <2>1, AcquireType DEF Enter
  <2>3. ref' = [ref EXCEPT ![t] = LockFor(t)]
    BY <1>1 DEF Enter, GetLock
  <2>4. \A u \in Turns : u # t => stage'[u] = stage[u]
    BY <1>1 DEF Enter, Acquire, TypeOK
  <2>5. RefKnown'
    BY <2>1, <2>3, <2>4 DEF RefKnown, TypeOK
  <2> QED
    BY <2>1, <2>2, <2>5 DEF TypeOK
<1>2. ASSUME NEW t \in Turns, Defer(t) PROVE TypeInv'
  <2>1. /\ LockFor(t) \in Turns
        /\ ref' \in [Turns -> Turns \cup {NoTurn}]
        /\ locks' \in [Keys -> Turns \cup {NoTurn}]
        /\ stamp' \in [Keys -> Nat]
        /\ made' \in Nat
    BY <1>2, GetLockType DEF Defer
  <2>2. ref' = [ref EXCEPT ![t] = LockFor(t)]
    BY <1>2 DEF Defer, GetLock
  <2> QED
    BY <1>2, <2>1, <2>2 DEF Defer, TypeOK, RefKnown, Stages, objectVars
<1>3. ASSUME NEW t \in Turns, EnterDeferred(t) PROVE TypeInv'
  <2>1. ref[t] \in Turns
    BY <1>3 DEF EnterDeferred, RefKnown
  <2>2. /\ owner' \in [Turns -> Turns \cup {NoTurn}]
        /\ waiters' \in [Turns -> Seq(Turns)]
        /\ stage' \in [Turns -> Stages]
    BY <1>3, <2>1, AcquireType DEF EnterDeferred
  <2>3. \A u \in Turns : u # t => stage'[u] = stage[u]
    BY <1>3 DEF EnterDeferred, Acquire, TypeOK
  <2> QED
    BY <1>3, <2>1, <2>2, <2>3 DEF EnterDeferred, TypeOK, RefKnown, poolVars
<1>4. ASSUME NEW t \in Turns, Wake(t) PROVE TypeInv'
  <2>1. ref[t] \in Turns /\ waiters[ref[t]] \in Seq(Turns)
    BY <1>4 DEF Wake, RefKnown, TypeOK
  <2>2. Tail(waiters[ref[t]]) \in Seq(Turns)
    BY <1>4, <2>1 DEF Wake
  <2> QED
    BY <1>4, <2>1, <2>2 DEF Wake, TypeOK, RefKnown, Stages, poolVars
<1>5. ASSUME NEW t \in Turns, Leave(t) PROVE TypeInv'
  BY <1>5 DEF Leave, TypeOK, RefKnown, Stages, poolVars
<1>6. ASSUME NEW t \in Turns, Abandon(t) PROVE TypeInv'
  <2>1. waiters' \in [Turns -> Seq(Turns)]
    <3>1. CASE UNCHANGED waiters
      BY <3>1 DEF TypeOK
    <3>2. CASE stage[t] = "waiting"
      <4>1. ref[t] \in Turns /\ waiters[ref[t]] \in Seq(Turns)
        BY <3>2 DEF RefKnown, TypeOK
      <4>2. \A i \in 1..Len(waiters[ref[t]]) :
              RemoveAt(waiters[ref[t]], i) \in Seq(Turns)
        BY <4>1, RemoveAtProperties
      <4>3. PICK i \in 1..Len(waiters[ref[t]]) :
              waiters' = [waiters EXCEPT ![ref[t]] = RemoveAt(@, i)]
        BY <1>6, <3>2 DEF Abandon
      <4> QED
        BY <4>1, <4>2, <4>3 DEF TypeOK
    <3> QED
      BY <1>6, <3>1, <3>2 DEF Abandon
  <2> QED
    BY <1>6, <2>1 DEF Abandon, TypeOK, RefKnown, Stages, poolVars
<1>7. CASE UNCHANGED vars
  BY <1>7 DEF vars, TypeOK, RefKnown
<1> QED
  BY <1>1, <1>2, <1>3, <1>4, <1>5, <1>6, <1>7 DEF Next

\* The state of the pool, of its locks and of the turns always has its type,
\* whatever the sessions, the turns and the bound (LockPool, asyncio.Lock).
THEOREM TypeCorrect ==
  ASSUME PoolAssumption
  PROVE  Spec => []TypeOK
<1>1. Init => TypeInv
  BY TypeInit
<1>2. TypeInv /\ [Next]_vars => TypeInv'
  BY TypeStep
<1>3. TypeInv => TypeOK
  BY DEF TypeInv
<1> QED
  BY <1>1, <1>2, <1>3, PTL DEF Spec

-----------------------------------------------------------------------------
(* One lock object admits one turn, also when the pool evicts it.            *)

LEMMA AcquireExclusion ==
  ASSUME PoolAssumption, TypeInv, ObjectExclusion,
         NEW t \in Turns, NEW o \in Turns,
         stage[t] \notin {"inside", "waiting"},
         Acquire(t, o), ref' = [ref EXCEPT ![t] = o]
  PROVE  ObjectExclusion'
<1> USE DEF PoolAssumption, TypeInv, TypeOK
<1>1. \A p \in Turns : owner[p] # t
  BY DEF ObjectExclusion, Inside, IsLocked, RefKnown
<1>2. \A u \in Turns : u # t => ref'[u] = ref[u] /\ stage'[u] = stage[u]
  BY DEF Acquire
<1>3. CASE IsLocked(o) \/ waiters[o] # <<>>
  <2>1. owner' = owner /\ stage'[t] = "waiting"
    BY <1>3 DEF Acquire
  <2> QED
    BY <1>1, <1>2, <2>1 DEF ObjectExclusion, Inside, IsLocked
<1>4. CASE ~(IsLocked(o) \/ waiters[o] # <<>>)
  <2>1. /\ owner[o] = NoTurn
        /\ owner' = [owner EXCEPT ![o] = t]
        /\ stage'[t] = "inside"
        /\ ref'[t] = o
    BY <1>4 DEF Acquire, IsLocked
  <2>2. ASSUME NEW u \in Turns, Inside(u)' PROVE owner'[ref'[u]] = u
    <3>1. CASE u = t
      BY <2>1, <3>1
    <3>2. CASE u # t
      <4>1. Inside(u) /\ ref[u] \in Turns /\ owner[ref[u]] = u
        BY <1>2, <2>2, <3>2 DEF Inside, ObjectExclusion, RefKnown
      <4> QED
        BY <1>2, <2>1, <3>2, <4>1
    <3> QED
      BY <3>1, <3>2
  <2>3. ASSUME NEW p \in Turns, IsLocked(p)'
        PROVE  Inside(owner[p])' /\ ref'[owner'[p]] = p
    <3>1. CASE p = o
      BY <2>1, <3>1 DEF Inside
    <3>2. CASE p # o
      BY <1>1, <1>2, <2>1, <2>3, <3>2 DEF Inside, IsLocked, ObjectExclusion
    <3> QED
      BY <3>1, <3>2
  <2> QED
    BY <2>2, <2>3 DEF ObjectExclusion
<1> QED
  BY <1>3, <1>4

LEMMA ObjectStep ==
  ASSUME PoolAssumption, TypeInv, ObjectExclusion, [Next]_vars
  PROVE  ObjectExclusion'
<1> USE DEF PoolAssumption, TypeInv, TypeOK
<1>1. ASSUME NEW t \in Turns, Enter(t) PROVE ObjectExclusion'
  <2>1. LockFor(t) \in Turns
    BY DEF LockFor
  <2> QED
    BY <1>1, <2>1, AcquireExclusion DEF Enter, GetLock
<1>2. ASSUME NEW t \in Turns, Defer(t) PROVE ObjectExclusion'
  BY <1>2 DEF Defer, GetLock, ObjectExclusion, Inside, IsLocked, objectVars
<1>3. ASSUME NEW t \in Turns, EnterDeferred(t) PROVE ObjectExclusion'
  <2>1. ref[t] \in Turns /\ ref' = [ref EXCEPT ![t] = ref[t]]
    BY <1>3 DEF EnterDeferred, RefKnown
  <2> QED
    BY <1>3, <2>1, AcquireExclusion DEF EnterDeferred
<1>4. ASSUME NEW t \in Turns, Wake(t) PROVE ObjectExclusion'
  BY <1>4 DEF Wake, ObjectExclusion, Inside, IsLocked, RefKnown, poolVars
<1>5. ASSUME NEW t \in Turns, Leave(t) PROVE ObjectExclusion'
  BY <1>5 DEF Leave, ObjectExclusion, Inside, IsLocked, RefKnown, poolVars
<1>6. ASSUME NEW t \in Turns, Abandon(t) PROVE ObjectExclusion'
  BY <1>6 DEF Abandon, ObjectExclusion, Inside, IsLocked
<1>7. CASE UNCHANGED vars
  BY <1>7 DEF vars, ObjectExclusion, Inside, IsLocked
<1> QED
  BY <1>1, <1>2, <1>3, <1>4, <1>5, <1>6, <1>7 DEF Next

ObjectInv == TypeInv /\ ObjectExclusion

LEMMA ObjectInvariant ==
  ASSUME PoolAssumption
  PROVE  Spec => []ObjectInv
<1>1. Init => ObjectInv
  <2>1. Init => ObjectExclusion
    BY DEF PoolAssumption, Init, ObjectExclusion, Inside, IsLocked
  <2> QED
    BY <2>1, TypeInit DEF ObjectInv
<1>2. ObjectInv /\ [Next]_vars => ObjectInv'
  BY TypeStep, ObjectStep DEF ObjectInv
<1> QED
  BY <1>1, <1>2, PTL DEF Spec

\* A lock object handed out by the pool never admits two turns, even after the
\* pool has evicted it: its owner is exactly the turn that is inside.
THEOREM LockExcludes ==
  ASSUME PoolAssumption
  PROVE  Spec => []ObjectExclusion
<1>1. ObjectInv => ObjectExclusion
  BY DEF ObjectInv
<1> QED
  BY <1>1, ObjectInvariant, PTL

\* _evict_if_needed collects only locks that are not held, so a held lock stays
\* in the pool through every step.
THEOREM EvictionSparesHeldLocks ==
  Spec => HeldLockStays
<1> DEFINE Stays == \A k \in Pooled : IsLocked(locks[k]) => locks'[k] = locks[k]
<1>1. ASSUME NEW t \in Turns, GetLock(t) PROVE Stays
  <2>1. CASE locks[KeyOf[t]] # NoTurn
    BY <1>1, <2>1 DEF GetLock, poolVars
  <2>2. CASE locks[KeyOf[t]] = NoTurn
    <3>1. \A k \in Keys : k \in Evicted => ~IsLocked(locks[k])
      BY DEF Evicted, Idle
    <3>2. ASSUME NEW k \in Pooled, IsLocked(locks[k])
          PROVE  locks'[k] = locks[k]
      BY <1>1, <2>2, <3>1, <3>2 DEF GetLock, Pooled
    <3> QED
      BY <3>2
  <2> QED
    BY <2>1, <2>2
<1>2. [Next]_vars => Stays
  BY <1>1 DEF Next, Enter, Defer, EnterDeferred, Wake, Leave, Abandon, vars, poolVars
<1> QED
  BY <1>2, PTL DEF Spec, HeldLockStays

-----------------------------------------------------------------------------
(* A pool that has room for every session never evicts, and only then does   *)
(* holding "the lock of the session" exclude the session's other turns.      *)

PoolFits == Cardinality(Keys) <= MaxLocks

\* Every turn that has its lock, or is on its way to it, refers to the object
\* that the pool still holds for the session.
RefersToPooled ==
  \A t \in Turns :
    stage[t] \in {"deferred", "waiting", "inside"} => locks[KeyOf[t]] = ref[t]

SessionInv == ObjectInv /\ RefersToPooled

LEMMA NothingEvicted ==
  ASSUME PoolAssumption, PoolFits,
         NEW t \in Turns, locks[KeyOf[t]] = NoTurn
  PROVE  Evicted = {}
<1>1. IsFiniteSet(Keys \ {KeyOf[t]}) /\
      Cardinality(Keys \ {KeyOf[t]}) = Cardinality(Keys) - 1
  BY FS_RemoveElement DEF PoolAssumption
<1>2. Pooled \subseteq Keys \ {KeyOf[t]}
  BY DEF Pooled
<1>3. Cardinality(Pooled) <= Cardinality(Keys \ {KeyOf[t]})
  BY <1>1, <1>2, FS_Subset
<1>4. Cardinality(Keys) \in Nat /\ Cardinality(Pooled) \in Nat
  BY <1>1, <1>2, FS_Subset, FS_CardinalityType DEF PoolAssumption
<1> QED
  BY <1>1, <1>3, <1>4 DEF PoolAssumption, PoolFits, Evicted

LEMMA SessionStep ==
  ASSUME PoolAssumption, PoolFits, SessionInv, [Next]_vars
  PROVE  RefersToPooled'
<1> USE DEF PoolAssumption, SessionInv, ObjectInv, TypeInv, TypeOK
<1>1. ASSUME NEW t \in Turns, GetLock(t),
             \A u \in Turns : u # t => stage'[u] = stage[u]
      PROVE  RefersToPooled'
  <2>1. ref' = [ref EXCEPT ![t] = LockFor(t)]
    BY <1>1 DEF GetLock
  <2>2. CASE locks[KeyOf[t]] # NoTurn
    BY <1>1, <2>1, <2>2 DEF GetLock, LockFor, RefersToPooled, poolVars
  <2>3. CASE locks[KeyOf[t]] = NoTurn
    <3>1. Evicted = {}
      BY <2>3, NothingEvicted
    <3>2. locks' = [k \in Keys |-> IF k = KeyOf[t] THEN t ELSE locks[k]]
      BY <1>1, <2>3, <3>1 DEF GetLock
    <3>3. \A u \in Turns : u # t /\ stage[u] \in {"deferred", "waiting", "inside"}
                           => KeyOf[u] # KeyOf[t]
      BY <2>3 DEF RefersToPooled, RefKnown
    <3> QED
      BY <1>1, <2>1, <2>3, <3>2, <3>3 DEF LockFor, RefersToPooled
  <2> QED
    BY <2>2, <2>3
<1>2. ASSUME NEW t \in Turns, Enter(t) PROVE RefersToPooled'
  BY <1>1, <1>2 DEF Enter, Acquire
<1>3. ASSUME NEW t \in Turns, Defer(t) PROVE RefersToPooled'
  BY <1>1, <1>3 DEF Defer
<1>4. ASSUME NEW t \in Turns, EnterDeferred(t) PROVE RefersToPooled'
  BY <1>4 DEF EnterDeferred, Acquire, RefersToPooled, poolVars
<1>5. ASSUME NEW t \in Turns, Wake(t) \/ Leave(t) \/ Abandon(t) PROVE RefersToPooled'
  BY <1>5 DEF Wake, Leave, Abandon, RefersToPooled, poolVars
<1>6. CASE UNCHANGED vars
  BY <1>6 DEF vars, RefersToPooled
<1> QED
  BY <1>2, <1>3, <1>4, <1>5, <1>6 DEF Next

\* With room for every session a turn that is inside holds the lock that the pool
\* has for its session.
LEMMA SessionInvariant ==
  ASSUME PoolAssumption, PoolFits
  PROVE  Spec => []SessionInv
<1>1. Init => RefersToPooled
  BY DEF PoolAssumption, Init, RefersToPooled
<1>2. ObjectInv /\ RefersToPooled /\ [Next]_vars => RefersToPooled'
  BY SessionStep DEF SessionInv
<1>3. ObjectInv /\ RefersToPooled => SessionInv
  BY DEF SessionInv
<1> QED
  BY <1>1, <1>2, <1>3, ObjectInvariant, PTL DEF Spec

\* With room for every session, two turns of one session are never inside their
\* lock together (LockPool.get; the bound is the constructor's max_locks).
THEOREM SessionExcludes ==
  ASSUME PoolAssumption, PoolFits
  PROVE  Spec => []SessionExclusion
<1>1. SessionInv => SessionExclusion
  BY DEF SessionInv, ObjectInv, ObjectExclusion, RefersToPooled, SessionExclusion, Inside
<1> QED
  BY <1>1, SessionInvariant, PTL

-----------------------------------------------------------------------------
(* The bound of the pool.                                                    *)

\* At its bound the pool evicts something whenever a lock is idle: the oldest idle
\* lock is among the EvictCount oldest.
LEMMA SomethingEvicted ==
  ASSUME TypeOK, Cardinality(Pooled) >= MaxLocks, Cardinality(Pooled) \in Nat,
         MaxLocks \in Nat, IsFiniteSet(Idle), Idle # {}
  PROVE  \E k \in Idle : k \in Evicted
<1> DEFINE Stamps == {stamp[k] : k \in Idle}
<1>1. Idle \subseteq Keys
  BY DEF Idle, Pooled
<1>2. Stamps \in SUBSET Nat /\ Stamps # {}
  BY <1>1 DEF TypeOK
<1>3. Min(Stamps) \in Stamps /\ \A s \in Stamps : Min(Stamps) <= s
  BY <1>2, NatMin
<1>4. PICK k \in Idle : \A j \in Idle : stamp[k] <= stamp[j]
  BY <1>3
<1>5. {j \in Idle : stamp[j] < stamp[k]} = {}
  BY <1>1, <1>4 DEF TypeOK
<1>6. Cardinality({j \in Idle : stamp[j] < stamp[k]}) = 0
  BY <1>5, FS_EmptySet
<1>7. 0 < EvictCount
  <2>1. Cardinality(Idle) \in Nat
    BY FS_CardinalityType
  <2> QED
    BY <2>1 DEF EvictCount
<1> DEFINE Older(x) == Cardinality({j \in Idle : stamp[j] < stamp[x]})
<1>8. Evicted = {x \in Idle : Older(x) < EvictCount}
  BY DEF Evicted
<1>9. Older(k) = 0
  BY <1>6
<1> HIDE DEF Older
<1> QED
  BY <1>7, <1>8, <1>9

\* The pool outgrows its bound only when every pooled lock is held: otherwise get()
\* drops at least one lock for the one it adds (_evict_if_needed).
THEOREM BoundGivesWayToHeldLocks ==
  ASSUME PoolAssumption
  PROVE  Spec => GrowsOnlyWhenAllHeld
<1> DEFINE Grows == Cardinality(Pooled') > Cardinality(Pooled) /\ Cardinality(Pooled) >= MaxLocks
           AllHeld == \A k \in Pooled : IsLocked(locks[k])
<1>1. IsFiniteSet(Pooled) /\ Cardinality(Pooled) \in Nat /\ MaxLocks \in Nat
  BY FS_Subset, FS_CardinalityType DEF PoolAssumption, Pooled
<1>2. ASSUME TypeOK, NEW t \in Turns, GetLock(t), Grows, ~AllHeld PROVE FALSE
  <2>1. CASE locks[KeyOf[t]] # NoTurn
    <3>1. Pooled' = Pooled
      BY <1>2, <2>1 DEF GetLock, poolVars, Pooled
    <3> QED
      BY <1>1, <1>2, <3>1
  <2>2. CASE locks[KeyOf[t]] = NoTurn
    <3>1. Idle # {} /\ IsFiniteSet(Idle)
      BY <1>1, <1>2, FS_Subset DEF Idle
    <3>2. PICK k \in Idle : k \in Evicted
      BY <1>1, <1>2, <3>1, SomethingEvicted
    <3>3. k \in Pooled
      BY <3>2 DEF Idle
    <3>4. Pooled' \subseteq (Pooled \ {k}) \cup {KeyOf[t]}
      BY <1>2, <2>2, <3>2, <3>3 DEF GetLock, Pooled
    <3>5. /\ IsFiniteSet(Pooled \ {k})
          /\ Cardinality(Pooled \ {k}) = Cardinality(Pooled) - 1
      BY <1>1, <3>3, FS_RemoveElement
    <3>6. /\ IsFiniteSet((Pooled \ {k}) \cup {KeyOf[t]})
          /\ Cardinality((Pooled \ {k}) \cup {KeyOf[t]}) <= Cardinality(Pooled)
      <4>1. \/ Cardinality((Pooled \ {k}) \cup {KeyOf[t]}) = Cardinality(Pooled \ {k})
            \/ Cardinality((Pooled \ {k}) \cup {KeyOf[t]}) = Cardinality(Pooled \ {k}) + 1
        BY <3>5, FS_AddElement
      <4>2. IsFiniteSet((Pooled \ {k}) \cup {KeyOf[t]})
        BY <3>5, FS_AddElement
      <4> QED
        BY <1>1, <3>5, <4>1, <4>2
    <3>7. /\ Cardinality(Pooled') <= Cardinality((Pooled \ {k}) \cup {KeyOf[t]})
          /\ Cardinality(Pooled') \in Nat
          /\ Cardinality((Pooled \ {k}) \cup {KeyOf[t]}) \in Nat
      BY <3>4, <3>6, FS_Subset, FS_CardinalityType
    <3> QED
      BY <1>1, <1>2, <3>6, <3>7
  <2> QED
    BY <2>1, <2>2
<1>3. ASSUME TypeOK, [Next]_vars, Grows PROVE AllHeld
  <2>1. CASE \E t \in Turns : GetLock(t)
    BY <1>2, <1>3, <2>1
  <2>2. CASE ~ \E t \in Turns : GetLock(t)
    <3>1. Pooled' = Pooled
      BY <1>3, <2>2 DEF Next, Enter, Defer, EnterDeferred, Wake, Leave, Abandon, vars,
         poolVars, Pooled
    <3> QED
      BY <1>1, <1>3, <3>1
  <2> QED
    BY <2>1, <2>2
<1>4. ObjectInv => TypeOK
  BY DEF ObjectInv, TypeInv
<1>5. TypeOK /\ [Next]_vars => (Grows => AllHeld)
  BY <1>3
<1> QED
  BY <1>4, <1>5, ObjectInvariant, PTL DEF Spec, GrowsOnlyWhenAllHeld

-----------------------------------------------------------------------------
(* No turn is forgotten in the queue of a lock.                              *)

\* The queue of a lock object holds exactly the turns that wait for it, each once.
OnlyWaiters(o) ==
  \A i \in 1..Len(waiters[o]) : stage[waiters[o][i]] = "waiting" /\ ref[waiters[o][i]] = o
EachOnce(o) == \A i, j \in 1..Len(waiters[o]) : waiters[o][i] = waiters[o][j] => i = j
HasPlace(t) == stage[t] = "waiting" => \E i \in 1..Len(waiters[ref[t]]) : waiters[ref[t]][i] = t
WaitersAgree == \A t \in Turns : OnlyWaiters(t) /\ EachOnce(t) /\ HasPlace(t)

\* A line that a step leaves alone, none of whose turns it moves.
LEMMA LineKept ==
  ASSUME TypeInv, NEW o \in Turns, OnlyWaiters(o), EachOnce(o), waiters'[o] = waiters[o],
         NEW t, t \in Turns => stage[t] # "waiting" \/ ref[t] # o,
         \A u \in Turns \ {t} : stage'[u] = stage[u] /\ ref'[u] = ref[u]
  PROVE  OnlyWaiters(o)' /\ EachOnce(o)'
<1>1. waiters[o] \in Seq(Turns)
  BY DEF TypeInv, TypeOK
<1>2. \A i \in 1..Len(waiters[o]) : waiters[o][i] \in Turns /\ waiters[o][i] # t
  BY <1>1 DEF OnlyWaiters
<1>3. OnlyWaiters(o)'
  BY <1>2 DEF OnlyWaiters
<1> QED
  BY <1>3 DEF EachOnce

\* The guard of Wake.
CanWake(t) ==
  /\ stage[t] = "waiting" /\ ~IsLocked(ref[t])
  /\ waiters[ref[t]] # <<>> /\ Head(waiters[ref[t]]) = t

\* Whoever waits, waits behind a turn that is inside the lock, or behind one that is
\* to be woken next: neither a cancellation nor an eviction leaves a hole in the queue
\* that no release gets past.
NobodyIsForgotten ==
  \A t \in Turns : stage[t] = "waiting" =>
    \E u \in Turns : ref[u] = ref[t] /\ (Inside(u) \/ CanWake(u))

\* A turn joins the line of a lock object, or takes the lock.
LEMMA JoinsLine ==
  ASSUME TypeInv, WaitersAgree, NEW t \in Turns, NEW o \in Turns, stage[t] \in {"new", "deferred"},
         Acquire(t, o), ref' = [ref EXCEPT ![t] = o]
  PROVE  WaitersAgree'
<1> DEFINE w == waiters[o]
           x == Append(w, t)
<1>0. /\ \A p \in Turns : waiters[p] \in Seq(Turns) /\ Len(waiters[p]) \in Nat
      /\ \A u \in Turns : stage[u] = "waiting" => ref[u] \in Turns
  BY DEF TypeInv, TypeOK, RefKnown
<1>1. /\ \A u \in Turns \ {t} : stage'[u] = stage[u] /\ ref'[u] = ref[u]
      /\ ref'[t] = o /\ stage'[t] \in {"waiting", "inside"}
  BY DEF Acquire, TypeInv, TypeOK
<1>2. \A p \in Turns : waiters'[p] = waiters[p] => OnlyWaiters(p)' /\ EachOnce(p)'
  BY <1>1, LineKept DEF WaitersAgree
<1>3. CASE stage'[t] = "inside"
  <2>1. waiters' = waiters
    BY <1>3 DEF Acquire, TypeInv, TypeOK
  <2>2. \A u \in Turns : HasPlace(u)'
    BY <1>1, <1>3, <2>1 DEF WaitersAgree, HasPlace
  <2> QED
    BY <1>2, <2>1, <2>2 DEF WaitersAgree
<1>4. CASE stage'[t] = "waiting"
  <2>1. waiters' = [waiters EXCEPT ![o] = x]
    BY <1>4 DEF Acquire, TypeInv, TypeOK
  <2>2. waiters'[o] = x /\ \A p \in Turns \ {o} : waiters'[p] = waiters[p]
    BY <2>1 DEF TypeInv, TypeOK
  <2>3. Len(x) = Len(w) + 1 /\ x[Len(w) + 1] = t /\ \A i \in 1..Len(w) : x[i] = w[i]
    BY <1>0
  <2>4. \A i \in 1..Len(w) : w[i] \in Turns /\ w[i] # t /\ stage[w[i]] = "waiting" /\ ref[w[i]] = o
    BY <1>0 DEF WaitersAgree, OnlyWaiters
  <2>5. \A i, j \in 1..Len(w) : w[i] = w[j] => i = j
    BY DEF WaitersAgree, EachOnce
  <2>6. Len(w) \in Nat
    BY <1>0
  <2>7. \A u \in Turns : stage[u] = "waiting" => \E i \in 1..Len(waiters[ref[u]]) : waiters[ref[u]][i] = u
    BY DEF WaitersAgree, HasPlace
  <2> HIDE DEF x, w
  <2>8. OnlyWaiters(o)'
    <3> SUFFICES ASSUME NEW i \in 1..Len(x) PROVE stage'[x[i]] = "waiting" /\ ref'[x[i]] = o
      BY <2>2 DEF OnlyWaiters
    <3>1. CASE i = Len(w) + 1
      BY <1>1, <1>4, <2>3, <3>1
    <3>2. CASE i \in 1..Len(w)
      BY <1>1, <2>3, <2>4, <3>2
    <3> QED
      BY <2>3, <2>6, <3>1, <3>2
  <2>9. EachOnce(o)'
    <3> SUFFICES ASSUME NEW i \in 1..Len(x), NEW j \in 1..Len(x), x[i] = x[j] PROVE i = j
      BY <2>2 DEF EachOnce
    <3>1. CASE i \in 1..Len(w) /\ j \in 1..Len(w)
      BY <2>3, <2>5, <3>1
    <3>2. CASE i = Len(w) + 1 /\ j \in 1..Len(w)
      BY <2>3, <2>4, <3>2
    <3>3. CASE j = Len(w) + 1 /\ i \in 1..Len(w)
      BY <2>3, <2>4, <3>3
    <3> QED
      BY <2>3, <2>6, <3>1, <3>2, <3>3
  <2>10. ASSUME NEW u \in Turns PROVE HasPlace(u)'
    <3>1. CASE u = t
      <4>1. Len(w) + 1 \in 1..Len(x)
        BY <2>3, <2>6
      <4> QED
        BY <1>1, <2>2, <2>3, <3>1, <4>1 DEF HasPlace
    <3>2. CASE u # t /\ stage[u] = "waiting"
      <4>1. PICK i \in 1..Len(waiters[ref[u]]) : waiters[ref[u]][i] = u
        BY <2>7, <3>2
      <4>2. ref[u] \in Turns /\ ref'[u] = ref[u]
        BY <1>0, <1>1, <3>2
      <4>3. CASE ref[u] = o
        <5>1. i \in 1..Len(x) /\ x[i] = u
          BY <2>3, <2>6, <4>1, <4>3 DEF w
        <5> QED
          BY <2>2, <4>2, <4>3, <5>1 DEF HasPlace
      <4>4. CASE ref[u] # o
        BY <2>2, <4>1, <4>2, <4>4 DEF HasPlace
      <4> QED
        BY <4>3, <4>4
    <3>3. CASE u # t /\ stage[u] # "waiting"
      BY <1>1, <3>3 DEF HasPlace
    <3> QED
      BY <3>1, <3>2, <3>3
  <2> QED
    BY <1>2, <2>2, <2>8, <2>9, <2>10 DEF WaitersAgree
<1> QED
  BY <1>1, <1>3, <1>4

\* A waiting turn leaves the line, because it is woken or cancelled.
LEMMA LeavesLine ==
  ASSUME TypeInv, WaitersAgree, NEW t \in Turns, stage[t] = "waiting",
         NEW o \in Turns, o = ref[t], NEW k \in 1..Len(waiters[o]), waiters[o][k] = t,
         NEW s \in Seq(Turns), waiters' = [waiters EXCEPT ![o] = s], Len(s) = Len(waiters[o]) - 1,
         \A j \in 1..(Len(waiters[o]) - 1) :
           s[j] = IF j < k THEN waiters[o][j] ELSE waiters[o][j + 1],
         ref' = ref, stage'[t] # "waiting", \A u \in Turns \ {t} : stage'[u] = stage[u]
  PROVE  WaitersAgree'
<1> DEFINE w == waiters[o]
<1>0. w \in Seq(Turns) /\ s \in Seq(Turns)
  BY DEF TypeInv, TypeOK
<1>1. /\ \A i \in 1..Len(w) : w[i] \in Turns /\ stage[w[i]] = "waiting" /\ ref[w[i]] = o
      /\ \A i, j \in 1..Len(w) : w[i] = w[j] => i = j
  <2>1. \A i, j \in 1..Len(w) : w[i] = w[j] => i = j
    BY DEF WaitersAgree, EachOnce
  <2>2. \A i \in 1..Len(w) : stage[w[i]] = "waiting" /\ ref[w[i]] = o
    BY DEF WaitersAgree, OnlyWaiters
  <2> QED
    BY <1>0, <2>1, <2>2
<1>2. waiters'[o] = s /\ \A p \in Turns \ {o} : waiters'[p] = waiters[p]
  BY <1>0 DEF TypeInv, TypeOK
<1>3. k \in 1..Len(w) /\ w[k] = t /\ Len(s) = Len(w) - 1
      /\ \A j \in 1..(Len(w) - 1) : s[j] = IF j < k THEN w[j] ELSE w[j + 1]
  OBVIOUS
<1>4. \A u \in Turns : stage[u] = "waiting" =>
        ref[u] \in Turns /\ \E i \in 1..Len(waiters[ref[u]]) : waiters[ref[u]][i] = u
  BY DEF WaitersAgree, HasPlace, TypeInv, RefKnown
<1> HIDE DEF w
<1>5. /\ \A j \in 1..Len(s) : s[j] # t /\ \E i \in 1..Len(w) : s[j] = w[i]
      /\ \A i \in 1..Len(w) : w[i] # t => \E j \in 1..Len(s) : s[j] = w[i]
      /\ \A i, j \in 1..Len(s) : s[i] = s[j] => i = j
  <2> DEFINE from(j) == IF j < k THEN j ELSE j + 1
  <2>0. Len(w) \in Nat /\ k \in Nat
    BY <1>0, <1>3
  <2>1. \A j \in 1..Len(s) : from(j) \in 1..Len(w) /\ from(j) # k /\ s[j] = w[from(j)]
    BY <2>0, <1>3
  <2>2. \A i, j \in 1..Len(s) : from(i) = from(j) => i = j
    BY <2>0, <1>3
  <2>3. ASSUME NEW i \in 1..Len(w), w[i] # t PROVE \E j \in 1..Len(s) : s[j] = w[i]
    <3>1. CASE i < k
      <4>1. i \in 1..Len(s) /\ s[i] = w[i]
        BY <2>0, <1>3, <3>1
      <4> QED
        BY <4>1
    <3>2. CASE i > k
      <4>1. i - 1 \in 1..Len(s) /\ s[i - 1] = w[(i - 1) + 1] /\ (i - 1) + 1 = i
        BY <2>0, <1>3, <3>2
      <4> QED
        BY <4>1
    <3> QED
      BY <2>0, <1>3, <2>3, <3>1, <3>2
  <2> HIDE DEF from
  <2> QED
    BY <1>1, <1>3, <2>1, <2>2, <2>3
<1>6. \A p \in Turns \ {o} : OnlyWaiters(p)' /\ EachOnce(p)'
  BY <1>2, LineKept DEF WaitersAgree
<1>7. OnlyWaiters(o)'
  <2> SUFFICES ASSUME NEW j \in 1..Len(s) PROVE stage'[s[j]] = "waiting" /\ ref'[s[j]] = o
    BY <1>2 DEF OnlyWaiters
  <2>1. PICK i \in 1..Len(w) : s[j] = w[i]
    BY <1>5
  <2>2. w[i] \in Turns \ {t} /\ stage[w[i]] = "waiting" /\ ref[w[i]] = o
    BY <1>1, <1>5, <2>1
  <2> QED
    BY <2>1, <2>2
<1>8. EachOnce(o)'
  BY <1>2, <1>5 DEF EachOnce
<1>9. ASSUME NEW u \in Turns PROVE HasPlace(u)'
  <2>1. CASE u = t
    BY <2>1 DEF HasPlace
  <2>2. CASE u # t /\ stage[u] = "waiting"
    <3>1. PICK i \in 1..Len(waiters[ref[u]]) : waiters[ref[u]][i] = u
      BY <1>4, <2>2
    <3>2. CASE ref[u] = o
      <4>1. i \in 1..Len(w) /\ w[i] # t
        BY <2>2, <3>1, <3>2 DEF w
      <4>2. PICK j \in 1..Len(s) : s[j] = w[i]
        BY <1>5, <4>1
      <4> QED
        BY <1>2, <3>1, <3>2, <4>2 DEF HasPlace, w
    <3>3. CASE ref[u] # o
      <4>1. waiters'[ref'[u]] = waiters[ref[u]]
        BY <1>2, <1>4, <2>2, <3>3
      <4> QED
        BY <3>1, <4>1 DEF HasPlace
    <3> QED
      BY <3>2, <3>3
  <2>3. CASE u # t /\ stage[u] # "waiting"
    BY <2>3 DEF HasPlace
  <2> QED
    BY <2>1, <2>2, <2>3
<1> QED
  BY <1>6, <1>7, <1>8, <1>9 DEF WaitersAgree

LEMMA WaitersStep ==
  ASSUME PoolAssumption, TypeInv, WaitersAgree, [Next]_vars
  PROVE  WaitersAgree'
<1>0. \A p \in Turns : waiters[p] \in Seq(Turns) /\ Len(waiters[p]) \in Nat
  BY DEF TypeInv, TypeOK
<1>1. ASSUME NEW t \in Turns, Enter(t) PROVE WaitersAgree'
  <2>1. LockFor(t) \in Turns /\ ref' = [ref EXCEPT ![t] = LockFor(t)]
    BY <1>1 DEF Enter, GetLock, LockFor, PoolAssumption, TypeInv, TypeOK
  <2> QED
    BY <1>1, <2>1, JoinsLine DEF Enter
<1>2. ASSUME NEW t \in Turns, Defer(t) PROVE WaitersAgree'
  <2>1. /\ stage[t] = "new" /\ stage' = [stage EXCEPT ![t] = "deferred"] /\ UNCHANGED waiters
        /\ ref' = [ref EXCEPT ![t] = LockFor(t)]
    BY <1>2 DEF Defer, GetLock, objectVars
  <2>2. /\ stage'[t] = "deferred"
        /\ \A u \in Turns \ {t} : stage'[u] = stage[u] /\ ref'[u] = ref[u]
    BY <2>1 DEF TypeInv, TypeOK
  <2>3. \A p \in Turns : OnlyWaiters(p)' /\ EachOnce(p)'
    BY <2>1, <2>2, LineKept DEF WaitersAgree
  <2>4. \A u \in Turns : HasPlace(u)'
    BY <2>1, <2>2 DEF WaitersAgree, HasPlace
  <2> QED
    BY <2>3, <2>4 DEF WaitersAgree
<1>3. ASSUME NEW t \in Turns, EnterDeferred(t) PROVE WaitersAgree'
  <2>1. ref[t] \in Turns /\ ref' = [ref EXCEPT ![t] = ref[t]]
    BY <1>3 DEF EnterDeferred, TypeInv, TypeOK, RefKnown
  <2> QED
    BY <1>3, <2>1, JoinsLine DEF EnterDeferred
<1>4. ASSUME NEW t \in Turns, Wake(t) PROVE WaitersAgree'
  <2>1. PICK o \in Turns : o = ref[t]
    BY <1>4 DEF Wake, TypeInv, RefKnown
  <2> DEFINE w == waiters[o]
  <2>2. w \in Seq(Turns) /\ w # <<>> /\ Head(w) = t
    BY <1>0, <1>4, <2>1 DEF Wake
  <2>3. /\ Tail(w) \in Seq(Turns) /\ Len(Tail(w)) = Len(w) - 1 /\ 1 \in 1..Len(w) /\ w[1] = t
        /\ \A j \in 1..(Len(w) - 1) : Tail(w)[j] = IF j < 1 THEN w[j] ELSE w[j + 1]
    BY <2>2
  <2>4. /\ stage[t] = "waiting" /\ waiters' = [waiters EXCEPT ![o] = Tail(w)] /\ ref' = ref
        /\ stage'[t] # "waiting" /\ \A u \in Turns \ {t} : stage'[u] = stage[u]
    BY <1>4, <2>1 DEF Wake, TypeInv, TypeOK
  <2> QED
    BY <2>1, <2>3, <2>4, LeavesLine
<1>5. ASSUME NEW t \in Turns, Leave(t) PROVE WaitersAgree'
  <2>1. /\ stage[t] = "inside" /\ stage'[t] = "done" /\ UNCHANGED <<waiters, ref>>
        /\ \A u \in Turns \ {t} : stage'[u] = stage[u]
    BY <1>5 DEF Leave, TypeInv, TypeOK
  <2>2. \A p \in Turns : OnlyWaiters(p)' /\ EachOnce(p)'
    BY <2>1, LineKept DEF WaitersAgree
  <2>3. \A u \in Turns : HasPlace(u)'
    BY <2>1 DEF WaitersAgree, HasPlace
  <2> QED
    BY <2>2, <2>3 DEF WaitersAgree
<1>6. ASSUME NEW t \in Turns, Abandon(t) PROVE WaitersAgree'
  <2>1. /\ stage'[t] = "done" /\ ref' = ref
        /\ \A u \in Turns \ {t} : stage'[u] = stage[u]
    BY <1>6 DEF Abandon, TypeInv, TypeOK
  <2>2. CASE stage[t] = "deferred" /\ UNCHANGED waiters
    <3>1. \A p \in Turns : OnlyWaiters(p)' /\ EachOnce(p)'
      BY <2>1, <2>2, LineKept DEF WaitersAgree
    <3>2. \A u \in Turns : HasPlace(u)'
      BY <2>1, <2>2 DEF WaitersAgree, HasPlace
    <3> QED
      BY <3>1, <3>2 DEF WaitersAgree
  <2>3. CASE stage[t] = "waiting"
    <3>1. PICK o \in Turns : o = ref[t]
      BY <2>3 DEF TypeInv, RefKnown
    <3>2. PICK i \in 1..Len(waiters[o]) :
            /\ waiters[o][i] = t
            /\ waiters' = [waiters EXCEPT ![o] = RemoveAt(waiters[o], i)]
      BY <1>6, <2>3, <3>1 DEF Abandon
    <3>3. /\ RemoveAt(waiters[o], i) \in Seq(Turns)
          /\ Len(RemoveAt(waiters[o], i)) = Len(waiters[o]) - 1
          /\ \A j \in 1..(Len(waiters[o]) - 1) :
               RemoveAt(waiters[o], i)[j] = IF j < i THEN waiters[o][j] ELSE waiters[o][j + 1]
      BY <1>0, RemoveAtProperties
    <3> DEFINE r == RemoveAt(waiters[o], i)
    <3>4. /\ r \in Seq(Turns) /\ Len(r) = Len(waiters[o]) - 1
          /\ waiters' = [waiters EXCEPT ![o] = r]
          /\ \A j \in 1..(Len(waiters[o]) - 1) :
               r[j] = IF j < i THEN waiters[o][j] ELSE waiters[o][j + 1]
      BY <3>2, <3>3
    <3> HIDE DEF r
    <3>5. stage'[t] # "waiting" /\ i \in 1..Len(waiters[o]) /\ waiters[o][i] = t
      BY <2>1, <3>2
    <3> QED
      BY <2>1, <2>3, <3>1, <3>4, <3>5, LeavesLine
  <2> QED
    BY <1>6, <2>2, <2>3 DEF Abandon
<1>7. CASE UNCHANGED vars
  BY <1>7 DEF vars, WaitersAgree, OnlyWaiters, EachOnce, HasPlace
<1> QED
  BY <1>1, <1>2, <1>3, <1>4, <1>5, <1>6, <1>7 DEF Next

\* No turn is left behind in the queue of a lock, whatever is cancelled or evicted:
\* the safety that the liveness of the ingress and of the bus rests on.
THEOREM LockForgetsNobody ==
  ASSUME PoolAssumption
  PROVE  Spec => []NobodyIsForgotten
<1>1. Init => WaitersAgree
  <2> SUFFICES ASSUME Init PROVE WaitersAgree
    OBVIOUS
  <2>1. \A o \in Turns : waiters[o] = <<>> /\ Len(waiters[o]) = 0
    BY DEF Init
  <2> QED
    BY <2>1 DEF Init, WaitersAgree, OnlyWaiters, EachOnce, HasPlace
<1>2. ObjectInv /\ WaitersAgree /\ [Next]_vars => WaitersAgree'
  BY WaitersStep DEF ObjectInv
<1>3. ObjectInv /\ WaitersAgree => NobodyIsForgotten
  <2> SUFFICES ASSUME ObjectInv, WaitersAgree, NEW t \in Turns, stage[t] = "waiting"
               PROVE  \E u \in Turns : ref[u] = ref[t] /\ (Inside(u) \/ CanWake(u))
    BY DEF NobodyIsForgotten
  <2> DEFINE o == ref[t]
  <2>1. o \in Turns /\ waiters[o] \in Seq(Turns) /\ owner[o] \in Turns \cup {NoTurn}
    BY DEF ObjectInv, TypeInv, TypeOK, RefKnown
  <2>2. CASE IsLocked(o)
    BY <2>1, <2>2 DEF ObjectInv, ObjectExclusion, IsLocked
  <2>3. CASE ~IsLocked(o)
    <3>1. waiters[o] # <<>>
      BY <2>1 DEF WaitersAgree, HasPlace
    <3>2. 1 \in 1..Len(waiters[o]) /\ Head(waiters[o]) = waiters[o][1] /\ waiters[o][1] \in Turns
      BY <2>1, <3>1
    <3>3. CanWake(waiters[o][1]) /\ ref[waiters[o][1]] = o
      BY <2>1, <2>3, <3>1, <3>2 DEF CanWake, WaitersAgree, OnlyWaiters
    <3> QED
      BY <3>2, <3>3
  <2> QED
    BY <2>2, <2>3
<1> QED
  BY <1>1, <1>2, <1>3, ObjectInvariant, PTL DEF Spec

-----------------------------------------------------------------------------
(* The Telegram ingress: SessionQueue.                                      *)

\* Every step of the queue is a step of the lock pool or leaves it alone: the
\* middleware takes locks only through get() and `async with` (LockPool).
LEMMA QueueStepIsPoolStep ==
  ASSUME QueueNext
  PROVE  [Next]_vars
<1>1. ASSUME NEW t \in Turns,
             \/ ArriveFree(t) \/ ArriveBusy(t) \/ IndicatorDone(t) \/ WakeTurn(t)
             \/ LeaveTurn(t) \/ BackgroundEnter(t) \/ BackgroundAbandon(t)
      PROVE  Next
  BY <1>1 DEF Next, ArriveFree, ArriveBusy, IndicatorDone, WakeTurn, LeaveTurn,
              BackgroundEnter, BackgroundAbandon
<1>2. ASSUME \/ \E t \in Turns : CancelEntry(t)
             \/ \E d \in Drainers : DrainBegin(d) \/ DrainResume(d)
             \/ RestartWanted \/ RestartIdle \/ RestartForced \/ ProcessEnds
      PROVE  UNCHANGED vars
  BY <1>2 DEF CancelEntry, DrainBegin, DrainResume, RestartWanted, RestartIdle,
              RestartForced, ProcessEnds
<1> QED
  BY <1>1, <1>2 DEF QueueNext

\* The ingress uses the lock pool as LockPool specifies it, so what is proved of
\* the pool holds of the pool behind SequentialMiddleware.
THEOREM QueueImplementsPool ==
  QueueSpec => Spec
<1>1. QueueInit => Init
  BY DEF QueueInit
<1>2. [QueueNext]_qvars => [Next]_vars
  BY QueueStepIsPoolStep DEF qvars, vars
<1> QED
  BY <1>1, <1>2, PTL DEF QueueSpec, Spec

-----------------------------------------------------------------------------
(* What the queue is made of.                                                *)

\* A message whose handler was called has its lock, or had it.
ServedSettled == \A t \in served : stage[t] \in {"inside", "done"}

\* A message that was given an entry has called get().
ListedEntered == \A t \in listed : stage[t] # "new"

QueueInv ==
  /\ TypeInv
  /\ QueueTypeOK
  /\ PendingAgrees
  /\ ListedEntered
  /\ ServedSettled
  /\ CancelledNeverServed

LEMMA QueueInitial ==
  ASSUME PoolAssumption, QueueAssumption, QueueInit
  PROVE  QueueInv
<1>1. TypeInv
  BY TypeInit DEF QueueInit
<1>2. \A c \in QueueChats : pending[c] = <<>> /\ Len(pending[c]) = 0
  BY DEF QueueInit
<1>3. QueueTypeOK
  BY <1>1 DEF QueueInit, QueueTypeOK, TypeInv, RestartStages
<1>4. PendingAgrees
  BY <1>2 DEF QueueInit, Init, PendingAgrees, Entries, QueueAssumption
<1>5. ServedSettled /\ ListedEntered /\ CancelledNeverServed
  BY DEF QueueInit, ServedSettled, ListedEntered, CancelledNeverServed
<1> QED
  BY <1>1, <1>3, <1>4, <1>5 DEF QueueInv

LEMMA EntriesAreMessages ==
  ASSUME QueueTypeOK, NEW c \in QueueChats
  PROVE  Entries(c) \subseteq Messages
<1>1. pending[c] \in Seq(Messages)
  BY DEF QueueTypeOK
<1> QED
  BY <1>1 DEF Entries

\* A turn that takes its lock, or queues on it, and gives up its entry.  What the
\* other turns do not notice is all that the lemma asks of the pool's part.
LEMMA AdmitKeeps ==
  ASSUME PoolAssumption, QueueAssumption, QueueInv,
         NEW t \in Turns,
         stage[t] \in {"new", "deferred", "waiting"},
         stage' = [stage EXCEPT ![t] = stage'[t]],
         stage'[t] \in {"waiting", "inside"},
         UNCHANGED <<cancelled, listed, drainStage, restart>>,
         shown' \subseteq Messages,
         Admit(t), TypeInv'
  PROVE  QueueInv'
<1> DEFINE c == Chat(t)
<1>0. /\ c \in QueueChats
      /\ Messages \subseteq Turns
      /\ stage \in [Turns -> Stages]
      /\ pending \in [QueueChats -> Seq(Messages)]
      /\ served \subseteq Turns
      /\ drainAt \in [Drainers -> Nat]
      /\ \A b \in QueueChats : Entries(b) \subseteq Messages
  BY EntriesAreMessages
  DEF Chat, PoolAssumption, QueueAssumption, QueueInv, QueueTypeOK, TypeInv, TypeOK
<1>a. \A u \in Turns : u # t => stage'[u] = stage[u]
  BY <1>0
<1>b. PendingAgrees /\ ServedSettled /\ ListedEntered /\ CancelledNeverServed
  BY DEF QueueInv
<1>c. /\ pending' \in [QueueChats -> Seq(Messages)]
      /\ drainAt' \in [Drainers -> Nat]
      /\ shifted' \subseteq Drainers
      /\ served' \subseteq Turns
      => QueueTypeOK'
  BY DEF QueueInv, QueueTypeOK, TypeInv
<1>d. listed' = listed /\ listed \subseteq Turns /\ shifted \subseteq Drainers
  BY <1>0 DEF QueueInv, QueueTypeOK
<1>e. ListedEntered'
  BY <1>a, <1>b, <1>d DEF ListedEntered
<1>1. CASE stage'[t] # "inside"
  <2>1. UNCHANGED <<pending, served, drainAt, shifted>>
    BY <1>1 DEF Admit
  <2>2. \A b \in QueueChats : Entries(b)' = Entries(b)
    BY <2>1 DEF Entries
  <2>3. PendingAgrees'
    <3>1. \A b \in QueueChats : \A i, j \in 1..Len(pending'[b]) :
            pending'[b][i] = pending'[b][j] => i = j
      BY <1>b, <2>1 DEF PendingAgrees
    <3>2. ASSUME NEW u \in listed
          PROVE  stage'[u] \in {"deferred", "waiting"}
                   <=> stage[u] \in {"deferred", "waiting"}
      <4>1. u = t => stage[u] # "new"
        BY <1>b DEF ListedEntered
      <4> QED
        BY <1>a, <1>d, <1>1, <4>1
    <3>3. \A b \in QueueChats :
            Entries(b)' = {u \in listed' : Chat(u)' = b /\ stage'[u] \in {"deferred", "waiting"}}
      BY <1>b, <1>d, <2>2, <3>2 DEF PendingAgrees, Chat
    <3> QED
      BY <3>1, <3>3 DEF PendingAgrees
  <2>4. ServedSettled' /\ CancelledNeverServed'
    BY <1>0, <1>a, <1>b, <1>1, <2>1 DEF ServedSettled, CancelledNeverServed
  <2> QED
    BY <1>0, <1>c, <1>d, <1>e, <2>1, <2>3, <2>4 DEF QueueInv
<1>2. CASE stage'[t] = "inside"
  <2> DEFINE l == pending[c]
             r == RemoveFirst(l, t)
  <2>1. /\ pending' = [pending EXCEPT ![c] = r]
        /\ served' = IF t \in cancelled THEN served ELSE served \cup {t}
        /\ drainAt' = [d \in Drainers |-> IF DrainOf[d] = c /\ pending'[c] = <<>>
                                          THEN 0 ELSE drainAt[d]]
    BY <1>2 DEF Admit, Unlist
  <2>2. l \in Seq(Messages) /\ \A i, j \in 1..Len(l) : l[i] = l[j] => i = j
    BY <1>0, <1>b DEF PendingAgrees
  <2>3. /\ r \in Seq(Messages)
        /\ \A j \in 1..Len(r) : r[j] # t /\ \E i \in 1..Len(l) : r[j] = l[i]
        /\ \A i \in 1..Len(l) : l[i] # t => \E j \in 1..Len(r) : r[j] = l[i]
        /\ \A i, j \in 1..Len(r) : r[i] = r[j] => i = j
    BY <2>2, RemoveFirstProperties
  <2>4. pending'[c] = r /\ \A b \in QueueChats : b # c => pending'[b] = pending[b]
    BY <1>0, <2>1
  <2>a. Entries(c) = {l[i] : i \in 1..Len(l)}
    BY DEF Entries
  <2> HIDE DEF l, r
  <2>5. Entries(c)' = Entries(c) \ {t}
    <3>1. Entries(c)' = {r[j] : j \in 1..Len(r)}
      BY <2>4 DEF Entries
    <3>2. Entries(c)' \subseteq Entries(c) \ {t}
      BY <2>3, <2>a, <3>1
    <3>3. Entries(c) \ {t} \subseteq Entries(c)'
      <4>1. SUFFICES ASSUME NEW i \in 1..Len(l), l[i] # t
                     PROVE  l[i] \in Entries(c)'
        BY <2>a
      <4>2. PICK j \in 1..Len(r) : r[j] = l[i]
        BY <2>3, <4>1
      <4> QED
        BY <3>1, <4>2
    <3> QED
      BY <3>2, <3>3
  <2>6. \A b \in QueueChats : b # c => Entries(b)' = Entries(b)
    BY <2>4 DEF Entries
  <2>7. \A u \in Turns : u # t => stage'[u] = stage[u]
    BY <1>a
  <2>8. PendingAgrees'
    <3>1. ASSUME NEW b \in QueueChats
          PROVE  \A i, j \in 1..Len(pending'[b]) : pending'[b][i] = pending'[b][j] => i = j
      <4>1. CASE b = c
        BY <2>3, <2>4, <4>1
      <4>2. CASE b # c
        BY <1>b, <2>4, <4>2 DEF PendingAgrees
      <4> QED
        BY <4>1, <4>2
    <3>2. \A b \in QueueChats : t \in Entries(b) => b = c
      BY <1>b DEF PendingAgrees
    <3>3. \A b \in QueueChats : Entries(b)' = Entries(b) \ {t}
      BY <2>5, <2>6, <3>2
    <3>4. ASSUME NEW b \in QueueChats
          PROVE  Entries(b)' = {u \in listed' : Chat(u)' = b /\
                                               stage'[u] \in {"deferred", "waiting"}}
      <4>1. Entries(b) = {u \in listed : Chat(u) = b /\ stage[u] \in {"deferred", "waiting"}}
        BY <1>b DEF PendingAgrees
      <4>2. stage'[t] \notin {"deferred", "waiting"}
        BY <1>2
      <4>3. \A u \in listed : u # t => stage'[u] = stage[u]
        BY <1>d, <2>7
      <4> QED
        BY <1>d, <3>3, <4>1, <4>2, <4>3 DEF Chat
    <3> QED
      BY <3>1, <3>4 DEF PendingAgrees
  <2>9. ServedSettled' /\ CancelledNeverServed'
    BY <1>0, <1>2, <1>b, <2>1, <2>7 DEF ServedSettled, CancelledNeverServed
  <2>10. /\ pending' \in [QueueChats -> Seq(Messages)]
         /\ drainAt' \in [Drainers -> Nat]
         /\ served' \subseteq Turns
    BY <1>0, <2>1, <2>3
  <2>11. shifted' \subseteq Drainers
    BY <1>2, <1>d DEF Admit, Unlist
  <2> QED
    BY <1>c, <1>e, <2>8, <2>9, <2>10, <2>11 DEF QueueInv
<1> QED
  BY <1>1, <1>2

\* What a drain marks was in the queue, so it was not served.
LEMMA DrainKeeps ==
  ASSUME PoolAssumption, QueueAssumption, QueueInv,
         NEW d \in Drainers, NEW from \in Nat \ {0},
         DrainFrom(d, from),
         UNCHANGED <<vars, pending, shown, served, listed, shifted, restart>>
  PROVE  QueueInv'
<1> USE DEF QueueInv, QueueTypeOK
<1> DEFINE list == pending[DrainOf[d]]
           edits == {i \in from..Len(list) : list[i] \in shown \ cancelled}
           to == IF edits = {} THEN Len(list) ELSE Min(edits)
<1>1. /\ cancelled' = cancelled \cup {list[i] : i \in from..to}
      /\ drainStage' = [drainStage EXCEPT ![d] =
                          IF edits = {} THEN "done" ELSE "editing"]
      /\ drainAt' = [drainAt EXCEPT ![d] = IF edits = {} THEN 0 ELSE to]
  BY DEF DrainFrom
<1>2. DrainOf[d] \in QueueChats /\ list \in Seq(Messages) /\ Len(list) \in Nat
  BY DEF QueueAssumption
<1>3. to \in Nat /\ to <= Len(list)
  <2>1. CASE edits = {}
    BY <1>2, <2>1
  <2>2. CASE edits # {}
    <3>1. edits \subseteq Nat
      OBVIOUS
    <3>2. Min(edits) \in edits
      BY <2>2, <3>1, NatMin
    <3> QED
      BY <1>2, <2>2, <3>2
  <2> QED
    BY <2>1, <2>2
<1> HIDE DEF to, edits
<1>4. {list[i] : i \in from..to} \subseteq Entries(DrainOf[d])
  <2>1. \A i \in from..to : i \in 1..Len(list)
    BY <1>2, <1>3
  <2> QED
    BY <2>1 DEF Entries
<1>5. Entries(DrainOf[d]) \subseteq Messages
  BY <1>2 DEF Entries
<1>6. Entries(DrainOf[d]) \cap served = {}
  <2>1. \A t \in Entries(DrainOf[d]) : stage[t] \in {"deferred", "waiting"}
    <3>1. Entries(DrainOf[d]) = {t \in listed : /\ Chat(t) = DrainOf[d]
                                               /\ stage[t] \in {"deferred", "waiting"}}
      BY <1>2 DEF PendingAgrees
    <3> QED
      BY <3>1
  <2> QED
    BY <2>1 DEF ServedSettled
<1>7. CancelledNeverServed'
  BY <1>1, <1>4, <1>6 DEF CancelledNeverServed
<1>8. PendingAgrees' /\ ServedSettled' /\ ListedEntered'
  BY DEF PendingAgrees, ServedSettled, ListedEntered, Entries, Chat, vars
<1>9. TypeInv'
  BY DEF TypeInv, TypeOK, RefKnown, vars
<1> QED
  BY <1>1, <1>3, <1>4, <1>5, <1>7, <1>8, <1>9 DEF TypeInv

LEMMA QueueStep ==
  ASSUME PoolAssumption, QueueAssumption, QueueInv, [QueueNext]_qvars
  PROVE  QueueInv'
<1> USE DEF QueueInv
<1>1. TypeInv'
  <2>1. CASE QueueNext
    BY <2>1, QueueStepIsPoolStep, TypeStep
  <2>2. CASE UNCHANGED qvars
    BY <2>2 DEF qvars, vars, TypeInv, TypeOK, RefKnown
  <2> QED
    BY <2>1, <2>2
<1>2. ASSUME NEW t \in Turns PROVE stage[t] = "new" => t \notin Entries(Chat(t))
  BY DEF PendingAgrees, Chat, PoolAssumption, QueueAssumption
<1>3. ASSUME NEW t \in Turns, Enter(t) \/ EnterDeferred(t) \/ Wake(t)
      PROVE  /\ stage[t] \in {"new", "deferred", "waiting"}
             /\ stage' = [stage EXCEPT ![t] = stage'[t]]
             /\ stage'[t] \in {"waiting", "inside"}
  BY <1>3 DEF Enter, EnterDeferred, Wake, Acquire, TypeInv, TypeOK
<1>4. ASSUME NEW t \in Turns,
             ArriveFree(t) \/ IndicatorDone(t) \/ WakeTurn(t) \/ BackgroundEnter(t)
      PROVE  QueueInv'
  <2>1. shown' \subseteq Messages
    BY <1>4 DEF ArriveFree, IndicatorDone, WakeTurn, BackgroundEnter, QueueTypeOK
  <2>2. Admit(t) /\ UNCHANGED <<cancelled, listed, drainStage, restart>>
    BY <1>4 DEF ArriveFree, IndicatorDone, WakeTurn, BackgroundEnter
  <2>3. Enter(t) \/ EnterDeferred(t) \/ Wake(t)
    BY <1>4 DEF ArriveFree, IndicatorDone, WakeTurn, BackgroundEnter
  <2> QED
    BY <1>1, <1>3, <2>1, <2>2, <2>3, AdmitKeeps
<1>5. ASSUME NEW t \in Turns, ArriveBusy(t) PROVE QueueInv'
  <2> DEFINE c == Chat(t)
  <2>1. c \in QueueChats /\ t \in Messages /\ pending[c] \in Seq(Messages)
    BY <1>5 DEF ArriveBusy, Chat, PoolAssumption, QueueAssumption, QueueTypeOK
  <2>2. /\ pending' = [pending EXCEPT ![c] = Append(@, t)]
        /\ stage[t] = "new"
        /\ stage' = [stage EXCEPT ![t] = "deferred"]
        /\ listed' = listed \cup {t}
        /\ UNCHANGED <<cancelled, shown, served, drainVars, restart>>
    BY <1>5 DEF ArriveBusy, Defer
  <2>3. t \notin Entries(c)
    BY <1>2, <2>2
  <2>4. /\ pending'[c] = Append(pending[c], t)
        /\ pending'[c] \in Seq(Messages)
        /\ \A b \in QueueChats : b # c => pending'[b] = pending[b]
    BY <2>1, <2>2 DEF QueueTypeOK
  <2> HIDE DEF c
  <2>5. /\ Len(pending'[c]) = Len(pending[c]) + 1
        /\ \A i \in 1..Len(pending[c]) : pending'[c][i] = pending[c][i]
        /\ pending'[c][Len(pending[c]) + 1] = t
    BY <2>1, <2>4
  <2>6. Entries(c)' = Entries(c) \cup {t}
    <3>1. Entries(c)' = {pending'[c][i] : i \in 1..(Len(pending[c]) + 1)}
      BY <2>5 DEF Entries
    <3>2. Len(pending[c]) \in Nat
      BY <2>1
    <3>3. \A i \in 1..(Len(pending[c]) + 1) :
            i \in 1..Len(pending[c]) \/ i = Len(pending[c]) + 1
      BY <3>2
    <3>4. 1..Len(pending[c]) \subseteq 1..(Len(pending[c]) + 1) /\
          Len(pending[c]) + 1 \in 1..(Len(pending[c]) + 1)
      BY <3>2
    <3> QED
      BY <2>5, <3>1, <3>3, <3>4 DEF Entries
  <2>7. \A b \in QueueChats : b # c => Entries(b)' = Entries(b)
    BY <2>4 DEF Entries
  <2>8. \A u \in Turns : u # t => stage'[u] = stage[u]
    BY <2>2 DEF TypeInv, TypeOK
  <2>9. stage'[t] = "deferred"
    BY <2>2 DEF TypeInv, TypeOK
  <2>10. PendingAgrees'
    <3>1. ASSUME NEW b \in QueueChats
          PROVE  \A i, j \in 1..Len(pending'[b]) : pending'[b][i] = pending'[b][j] => i = j
      <4>1. CASE b = c
        <5>1. Len(pending[c]) \in Nat
          BY <2>1
        <5>2. \A i \in 1..Len(pending[c]) : pending[c][i] # t
          BY <2>3 DEF Entries
        <5>3. \A i, j \in 1..Len(pending[c]) : pending[c][i] = pending[c][j] => i = j
          BY <2>1 DEF PendingAgrees
        <5>4. SUFFICES ASSUME NEW i \in 1..(Len(pending[c]) + 1),
                              NEW j \in 1..(Len(pending[c]) + 1),
                              pending'[c][i] = pending'[c][j]
                       PROVE  i = j
          BY <2>5, <4>1
        <5>5. CASE i \in 1..Len(pending[c]) /\ j \in 1..Len(pending[c])
          BY <2>5, <5>3, <5>4, <5>5
        <5>6. CASE i \in 1..Len(pending[c]) /\ j = Len(pending[c]) + 1
          BY <2>5, <5>2, <5>4, <5>6
        <5>7. CASE i = Len(pending[c]) + 1 /\ j \in 1..Len(pending[c])
          BY <2>5, <5>2, <5>4, <5>7
        <5> QED
          BY <5>1, <5>5, <5>6, <5>7
      <4>2. CASE b # c
        BY <2>4, <4>2 DEF PendingAgrees
      <4> QED
        BY <4>1, <4>2
    <3>2. listed \subseteq Turns
      BY DEF QueueAssumption, QueueTypeOK
    <3>3. ASSUME NEW b \in QueueChats
          PROVE  Entries(b)' = {u \in listed' : Chat(u)' = b /\
                                               stage'[u] \in {"deferred", "waiting"}}
      <4>1. Entries(b) = {u \in listed : Chat(u) = b /\ stage[u] \in {"deferred", "waiting"}}
        BY DEF PendingAgrees
      <4>2. Chat(t) = c /\ \A u \in listed' : Chat(u)' = Chat(u)
        BY DEF c, Chat
      <4>3. CASE b = c
        BY <2>2, <2>6, <2>8, <2>9, <3>2, <4>1, <4>2, <4>3
      <4>4. CASE b # c
        <5>1. t \notin listed \/ Chat(t) # b
          BY <4>2, <4>4
        <5> QED
          BY <2>2, <2>7, <2>8, <2>9, <3>2, <4>1, <4>2, <4>4, <5>1
      <4> QED
        BY <4>3, <4>4
    <3> QED
      BY <3>1, <3>3 DEF PendingAgrees
  <2>11. QueueTypeOK'
    <3>1. pending' \in [QueueChats -> Seq(Messages)]
      BY <2>1, <2>2, <2>4 DEF QueueTypeOK
    <3> QED
      BY <1>1, <2>1, <2>2, <3>1 DEF QueueTypeOK, TypeInv, drainVars
  <2>12. ServedSettled' /\ ListedEntered' /\ CancelledNeverServed'
    BY <2>2, <2>8, <2>9, QueueAssumption
    DEF ServedSettled, ListedEntered, CancelledNeverServed, QueueTypeOK
  <2> QED
    BY <1>1, <2>10, <2>11, <2>12
<1>6. ASSUME NEW t \in Turns, LeaveTurn(t) \/ BackgroundAbandon(t) PROVE QueueInv'
  <2>1. UNCHANGED <<pending, cancelled, shown, served, listed, drainVars, restart>>
    BY <1>6 DEF LeaveTurn, BackgroundAbandon, queueVars
  <2>2. stage' = [stage EXCEPT ![t] = "done"]
    BY <1>6 DEF LeaveTurn, BackgroundAbandon, Leave, Abandon
  <2>3. stage[t] = "inside" \/ t \notin Messages
    BY <1>6 DEF LeaveTurn, BackgroundAbandon, Leave
  <2>4. t \in listed => stage[t] = "inside"
    BY <2>3 DEF QueueTypeOK
  <2>5. \A c \in QueueChats : Entries(c)' = Entries(c)
    BY <2>1 DEF Entries
  <2>6. \A u \in Turns : u # t => stage'[u] = stage[u]
    BY <2>2 DEF TypeInv, TypeOK
  <2>7. stage'[t] = "done"
    BY <2>2 DEF TypeInv, TypeOK
  <2>8. listed \subseteq Turns
    BY QueueAssumption DEF QueueTypeOK
  <2>9. PendingAgrees'
    <3>1. \A u \in listed : stage'[u] \in {"deferred", "waiting"}
                              <=> stage[u] \in {"deferred", "waiting"}
      BY <2>4, <2>6, <2>7, <2>8
    <3>2. \A c \in QueueChats :
            Entries(c)' = {u \in listed' : Chat(u)' = c /\ stage'[u] \in {"deferred", "waiting"}}
      BY <2>1, <2>5, <3>1 DEF PendingAgrees, Chat
    <3>3. \A c \in QueueChats : \A i, j \in 1..Len(pending'[c]) :
            pending'[c][i] = pending'[c][j] => i = j
      BY <2>1 DEF PendingAgrees
    <3> QED
      BY <3>2, <3>3 DEF PendingAgrees
  <2>10. ServedSettled' /\ ListedEntered' /\ CancelledNeverServed'
    BY <2>1, <2>6, <2>7, <2>8 DEF ServedSettled, ListedEntered, CancelledNeverServed, QueueTypeOK
  <2>11. QueueTypeOK'
    BY <1>1, <2>1 DEF QueueTypeOK, TypeInv, drainVars
  <2> QED
    BY <1>1, <2>9, <2>10, <2>11
<1>7. ASSUME NEW t \in Turns, CancelEntry(t) PROVE QueueInv'
  <2>1. /\ t \in Entries(Chat(t))
        /\ cancelled' = cancelled \cup {t}
        /\ UNCHANGED <<vars, pending, shown, served, listed, drainVars, restart>>
    BY <1>7 DEF CancelEntry
  <2>2. Chat(t) \in QueueChats /\ pending[Chat(t)] \in Seq(Messages)
    BY DEF Chat, PoolAssumption, QueueAssumption, QueueTypeOK
  <2>3. t \in Messages
    BY <2>1, <2>2, EntriesAreMessages
  <2>4. t \notin served
    BY <2>1, <2>2 DEF PendingAgrees, ServedSettled
  <2>5. PendingAgrees' /\ ServedSettled' /\ ListedEntered'
    BY <2>1 DEF vars, PendingAgrees, Entries, Chat, ServedSettled, ListedEntered
  <2>6. QueueTypeOK'
    BY <1>1, <2>1, <2>3 DEF QueueTypeOK, TypeInv, drainVars
  <2>7. CancelledNeverServed'
    BY <2>1, <2>4 DEF CancelledNeverServed
  <2> QED
    BY <1>1, <2>5, <2>6, <2>7
<1>8. ASSUME NEW d \in Drainers, DrainBegin(d) PROVE QueueInv'
  BY <1>8, DrainKeeps DEF DrainBegin
<1>9. ASSUME NEW d \in Drainers, DrainResume(d) PROVE QueueInv'
  <2>1. CASE drainAt[d] = 0
    <3>1. /\ drainStage' \in [Drainers -> {"new", "editing", "done"}]
          /\ UNCHANGED <<cancelled, drainAt, vars, pending, shown, served, listed, shifted,
                         restart>>
      BY <1>9, <2>1 DEF DrainResume, QueueTypeOK
    <3>2. PendingAgrees' /\ ServedSettled' /\ ListedEntered' /\ CancelledNeverServed'
      BY <3>1 DEF vars, PendingAgrees, Entries, Chat, ServedSettled, ListedEntered,
                  CancelledNeverServed
    <3>3. QueueTypeOK'
      BY <1>1, <3>1 DEF QueueTypeOK, TypeInv
    <3> QED
      BY <1>1, <3>2, <3>3
  <2>2. CASE drainAt[d] # 0
    <3>1. drainAt[d] + 1 \in Nat \ {0}
      BY <1>9 DEF DrainResume, QueueTypeOK
    <3> QED
      BY <1>9, <2>2, <3>1, DrainKeeps DEF DrainResume
  <2> QED
    BY <2>1, <2>2
<1>10. CASE \/ RestartWanted \/ RestartIdle \/ RestartForced \/ ProcessEnds
  <2>1. restart' \in RestartStages /\ UNCHANGED <<vars, queueVars, drainVars>>
    BY <1>10 DEF RestartWanted, RestartIdle, RestartForced, ProcessEnds, RestartStages
  <2> QED
    BY <1>1, <2>1 DEF QueueTypeOK, TypeInv, queueVars, drainVars, vars, PendingAgrees,
                      Entries, Chat, ServedSettled, ListedEntered, CancelledNeverServed
<1>11. CASE UNCHANGED qvars
  BY <1>1, <1>11 DEF qvars, QueueTypeOK, TypeInv, queueVars, drainVars, vars,
                     PendingAgrees, Entries, Chat, ServedSettled, ListedEntered,
                     CancelledNeverServed
<1> QED
  BY <1>4, <1>5, <1>6, <1>7, <1>8, <1>9, <1>10, <1>11 DEF QueueNext

LEMMA QueueInvariant ==
  ASSUME PoolAssumption, QueueAssumption
  PROVE  QueueSpec => []QueueInv
<1>1. QueueInit => QueueInv
  BY QueueInitial
<1>2. QueueInv /\ [QueueNext]_qvars => QueueInv'
  BY QueueStep
<1> QED
  BY <1>1, <1>2, PTL DEF QueueSpec

-----------------------------------------------------------------------------

\* The queue, the drains and the watcher always have their types.
THEOREM QueueTypeCorrect ==
  ASSUME PoolAssumption, QueueAssumption
  PROVE  QueueSpec => []QueueTypeOK
<1>1. QueueInv => QueueTypeOK
  BY DEF QueueInv
<1> QED
  BY <1>1, QueueInvariant, PTL

\* However cancellations, drains and hand-overs interleave, a message whose
\* cancellation was accepted is not handled (_run_under_lock).
THEOREM CancelledStaysUnserved ==
  ASSUME PoolAssumption, QueueAssumption
  PROVE  QueueSpec => []CancelledNeverServed
<1>1. QueueInv => CancelledNeverServed
  BY DEF QueueInv
<1> QED
  BY <1>1, QueueInvariant, PTL

\* The pending list of a chat is exactly those of its messages that were given an entry
\* and are deferred or wait for their lock, each listed once (_run_under_lock).
THEOREM PendingIsExact ==
  ASSUME PoolAssumption, QueueAssumption
  PROVE  QueueSpec => []PendingAgrees
<1>1. QueueInv => PendingAgrees
  BY DEF QueueInv
<1> QED
  BY <1>1, QueueInvariant, PTL

\* Two turns of one session never run together behind the ingress if the pool
\* has room for every session.
THEOREM QueueSessionExcludes ==
  ASSUME PoolAssumption, PoolFits
  PROVE  QueueSpec => []SessionExclusion
BY QueueImplementsPool, SessionExcludes, PTL

-----------------------------------------------------------------------------
(* What a drain leaves behind.                                               *)

\* A drain that nothing left the list under has marked everything up to its index.
DrainMarked ==
  \A d \in Drainers \ shifted :
    drainStage[d] = "editing" =>
      /\ drainAt[d] \in 1..Len(pending[DrainOf[d]])
      /\ \A i \in 1..drainAt[d] : pending[DrainOf[d]][i] \in cancelled

\* Going on from the entry behind what is marked, a drain marks what it passes, and all
\* there is when it ends.
LEMMA DrainFromMarks ==
  ASSUME QueueAssumption, QueueTypeOK, NEW d \in Drainers, NEW from \in Nat \ {0},
         DrainFrom(d, from), UNCHANGED pending,
         \A i \in 1..Len(pending[DrainOf[d]]) :
           i < from => pending[DrainOf[d]][i] \in cancelled
  PROVE  /\ drainStage'[d] = "editing" =>
              /\ drainAt'[d] \in 1..Len(pending[DrainOf[d]])
              /\ \A i \in 1..drainAt'[d] : pending[DrainOf[d]][i] \in cancelled'
         /\ drainStage'[d] = "done" => Entries(DrainOf[d]) \subseteq cancelled'
<1> DEFINE list == pending[DrainOf[d]]
           edits == {i \in from..Len(list) : list[i] \in shown \ cancelled}
           to == IF edits = {} THEN Len(list) ELSE Min(edits)
<1>1. /\ cancelled' = cancelled \cup {list[i] : i \in from..to}
      /\ drainStage'[d] = IF edits = {} THEN "done" ELSE "editing"
      /\ drainAt'[d] = IF edits = {} THEN 0 ELSE to
  BY DEF DrainFrom, QueueTypeOK
<1>2. Len(list) \in Nat
  BY DEF QueueAssumption, QueueTypeOK
<1>3. edits # {} => to \in from..Len(list)
  <2>1. edits \subseteq Nat
    OBVIOUS
  <2>2. edits # {} => Min(edits) \in edits
    BY <2>1, NatMin
  <2> QED
    BY <2>2
<1>4. edits = {} => to = Len(list)
  OBVIOUS
<1> HIDE DEF to, edits
<1>5. to <= Len(list) /\ to \in Nat
  BY <1>2, <1>3, <1>4
<1>6. \A i \in 1..Len(list) : i <= to => list[i] \in cancelled'
  <2> SUFFICES ASSUME NEW i \in 1..Len(list), i <= to PROVE list[i] \in cancelled'
    OBVIOUS
  <2>1. i < from \/ i \in from..to
    BY <1>2, <1>5
  <2> QED
    BY <1>1, <2>1
<1>7. CASE edits = {}
  BY <1>1, <1>2, <1>4, <1>6, <1>7 DEF Entries
<1>8. CASE edits # {}
  BY <1>1, <1>2, <1>3, <1>6, <1>8
<1> QED
  BY <1>7, <1>8

\* A list that an entry leaves behind the index of a drain is the same up to the index.
LEMMA UnlistMarked ==
  ASSUME PoolAssumption, QueueAssumption, QueueInv, DrainMarked, NEW t \in Turns,
         Admit(t), UNCHANGED <<cancelled, drainStage>>
  PROVE  DrainMarked'
<1> DEFINE c == Chat(t)
           l == pending[c]
           r == RemoveFirst(l, t)
<1>1. CASE stage'[t] # "inside"
  BY <1>1 DEF Admit, DrainMarked
<1>2. CASE stage'[t] = "inside"
  <2>1. /\ pending' = [pending EXCEPT ![c] = r]
        /\ drainAt' = [d \in Drainers |-> IF DrainOf[d] = c /\ pending'[c] = <<>>
                                          THEN 0 ELSE drainAt[d]]
        /\ shifted' = shifted \cup
             {d \in Drainers : /\ DrainOf[d] = c /\ drainStage[d] = "editing"
                               /\ \E i \in 1..Len(l) : i <= drainAt[d] /\ l[i] = t}
    BY <1>2 DEF Admit, Unlist
  <2>2. c \in QueueChats /\ l \in Seq(Messages) /\ Len(l) \in Nat
    BY DEF Chat, PoolAssumption, QueueAssumption, QueueInv, QueueTypeOK
  <2>3. \A i, j \in 1..Len(l) : l[i] = l[j] => i = j
    BY <2>2 DEF QueueInv, PendingAgrees
  <2>4. /\ r \in Seq(Messages)
        /\ \A n \in 0..Len(l) : (\A i \in 1..n : l[i] # t) =>
             n <= Len(r) /\ \A i \in 1..n : r[i] = l[i]
    BY <2>2, <2>3, RemoveFirstProperties
  <2>5. pending'[c] = r /\ \A b \in QueueChats : b # c => pending'[b] = pending[b]
    BY <2>1, <2>2 DEF QueueInv, QueueTypeOK
  <2> HIDE DEF r, l, c
  <2>6. ASSUME NEW d \in Drainers, d \notin shifted', drainStage'[d] = "editing"
        PROVE  /\ drainAt'[d] \in 1..Len(pending'[DrainOf[d]])
               /\ \A i \in 1..drainAt'[d] : pending'[DrainOf[d]][i] \in cancelled'
    <3>1. /\ drainAt[d] \in 1..Len(pending[DrainOf[d]])
          /\ \A i \in 1..drainAt[d] : pending[DrainOf[d]][i] \in cancelled
          /\ drainStage[d] = "editing" /\ d \notin shifted
      BY <2>1, <2>6 DEF DrainMarked
    <3>2. CASE DrainOf[d] # c
      BY <2>1, <2>5, <3>1, <3>2 DEF QueueAssumption
    <3>3. CASE DrainOf[d] = c
      <4>1. pending[DrainOf[d]] = l /\ drainAt[d] \in 1..Len(l)
        BY <3>1, <3>3 DEF l
      <4>2. \A i \in 1..drainAt[d] : l[i] # t
        BY <2>1, <2>2, <2>6, <3>1, <3>3, <4>1
      <4>3. drainAt[d] \in 0..Len(l)
        BY <4>1
      <4>4. drainAt[d] <= Len(r) /\ \A i \in 1..drainAt[d] : r[i] = l[i]
        BY <2>4, <4>2, <4>3
      <4>5. Len(r) \in Nat /\ r # <<>>
        BY <2>4, <4>1, <4>4
      <4>6. drainAt'[d] = drainAt[d]
        BY <2>1, <2>5, <4>5
      <4> QED
        BY <2>5, <3>1, <3>3, <4>1, <4>4, <4>5, <4>6
    <3> QED
      BY <3>2, <3>3
  <2> QED
    BY <2>6 DEF DrainMarked
<1> QED
  BY <1>1, <1>2

LEMMA DrainMarkedStep ==
  ASSUME PoolAssumption, QueueAssumption, QueueInv, DrainMarked, [QueueNext]_qvars
  PROVE  /\ DrainMarked'
         /\ \A d \in Drainers :
              drainStage'[d] = "done" /\ drainStage[d] # "done" =>
                d \in shifted \/ Entries(DrainOf[d]) \subseteq cancelled'
<1> DEFINE Taken == \A d \in Drainers :
              drainStage'[d] = "done" /\ drainStage[d] # "done" =>
                d \in shifted \/ Entries(DrainOf[d]) \subseteq cancelled'
<1>0. QueueTypeOK
  BY DEF QueueInv
<1>1. ASSUME NEW t \in Turns,
             ArriveFree(t) \/ IndicatorDone(t) \/ WakeTurn(t) \/ BackgroundEnter(t)
      PROVE  DrainMarked' /\ Taken
  <2>1. Admit(t) /\ UNCHANGED <<cancelled, drainStage>>
    BY <1>1 DEF ArriveFree, IndicatorDone, WakeTurn, BackgroundEnter
  <2> QED
    BY <2>1, UnlistMarked
<1>2. ASSUME NEW t \in Turns, ArriveBusy(t) PROVE DrainMarked' /\ Taken
  <2> DEFINE c == Chat(t)
  <2>1. /\ pending' = [pending EXCEPT ![c] = Append(@, t)]
        /\ UNCHANGED <<cancelled, drainStage, drainAt, shifted>>
    BY <1>2 DEF ArriveBusy, drainVars
  <2>2. c \in QueueChats /\ t \in Messages /\ pending[c] \in Seq(Messages)
    BY <1>0, <1>2 DEF ArriveBusy, Chat, PoolAssumption, QueueAssumption, QueueTypeOK
  <2>3. \A b \in QueueChats : b # c => pending'[b] = pending[b]
    BY <1>0, <2>1 DEF QueueTypeOK
  <2>4. /\ Len(pending'[c]) = Len(pending[c]) + 1
        /\ \A i \in 1..Len(pending[c]) : pending'[c][i] = pending[c][i]
    BY <1>0, <2>1, <2>2 DEF QueueTypeOK
  <2> HIDE DEF c
  <2>5. ASSUME NEW b \in QueueChats
        PROVE  /\ Len(pending[b]) \in Nat /\ Len(pending'[b]) \in Nat
               /\ Len(pending[b]) <= Len(pending'[b])
               /\ \A i \in 1..Len(pending[b]) : pending'[b][i] = pending[b][i]
    <3>1. Len(pending[b]) \in Nat
      BY <1>0 DEF QueueTypeOK
    <3> QED
      BY <2>3, <2>4, <3>1
  <2>6. \A d \in Drainers : DrainOf[d] \in QueueChats
    BY QueueAssumption
  <2>7. DrainMarked'
    <3> SUFFICES ASSUME NEW d \in Drainers \ shifted, drainStage[d] = "editing"
                 PROVE  /\ drainAt[d] \in 1..Len(pending'[DrainOf[d]])
                        /\ \A i \in 1..drainAt[d] : pending'[DrainOf[d]][i] \in cancelled
      BY <2>1 DEF DrainMarked
    <3>1. /\ drainAt[d] \in 1..Len(pending[DrainOf[d]])
          /\ \A i \in 1..drainAt[d] : pending[DrainOf[d]][i] \in cancelled
      BY DEF DrainMarked
    <3> QED
      BY <2>5, <2>6, <3>1
  <2> QED
    BY <2>1, <2>7
<1>3. ASSUME NEW d \in Drainers, NEW from \in Nat \ {0}, DrainFrom(d, from),
             UNCHANGED <<pending, shifted>>,
             \/ d \in shifted
             \/ \A i \in 1..Len(pending[DrainOf[d]]) :
                  i < from => pending[DrainOf[d]][i] \in cancelled
      PROVE  DrainMarked' /\ Taken
  <2>1. /\ cancelled \subseteq cancelled'
        /\ \A e \in Drainers \ {d} : drainStage'[e] = drainStage[e] /\ drainAt'[e] = drainAt[e]
    BY <1>0, <1>3 DEF DrainFrom, QueueTypeOK
  <2>2. d \notin shifted =>
          /\ drainStage'[d] = "editing" =>
               /\ drainAt'[d] \in 1..Len(pending[DrainOf[d]])
               /\ \A i \in 1..drainAt'[d] : pending[DrainOf[d]][i] \in cancelled'
          /\ drainStage'[d] = "done" => Entries(DrainOf[d]) \subseteq cancelled'
    BY <1>0, <1>3, DrainFromMarks
  <2>3. Taken
    BY <2>1, <2>2
  <2>4. ASSUME NEW e \in Drainers \ shifted', drainStage'[e] = "editing"
        PROVE  /\ drainAt'[e] \in 1..Len(pending'[DrainOf[e]])
               /\ \A i \in 1..drainAt'[e] : pending'[DrainOf[e]][i] \in cancelled'
    <3>1. CASE e = d
      BY <1>3, <2>2, <2>4, <3>1
    <3>2. CASE e # d
      BY <1>3, <2>1, <2>4, <3>2 DEF DrainMarked
    <3> QED
      BY <3>1, <3>2
  <2> QED
    BY <2>3, <2>4 DEF DrainMarked
<1>4. ASSUME NEW d \in Drainers, DrainBegin(d) PROVE DrainMarked' /\ Taken
  <2>1. \A i \in 1..Len(pending[DrainOf[d]]) : ~(i < 1)
    OBVIOUS
  <2> QED
    BY <1>3, <1>4, <2>1 DEF DrainBegin
<1>5. ASSUME NEW d \in Drainers, DrainResume(d) PROVE DrainMarked' /\ Taken
  <2>1. drainAt[d] \in Nat /\ drainStage[d] = "editing" /\ UNCHANGED <<pending, shifted>>
    BY <1>0, <1>5 DEF DrainResume, QueueTypeOK
  <2>2. d \in shifted \/ drainAt[d] # 0
    BY <2>1 DEF DrainMarked
  <2>3. CASE drainAt[d] = 0
    <3>1. /\ drainStage' = [drainStage EXCEPT ![d] = "done"]
          /\ UNCHANGED <<cancelled, drainAt>>
      BY <1>5, <2>3 DEF DrainResume
    <3>2. \A e \in Drainers \ {d} : drainStage'[e] = drainStage[e]
      BY <1>0, <3>1 DEF QueueTypeOK
    <3> QED
      BY <2>1, <2>2, <2>3, <3>1, <3>2 DEF DrainMarked
  <2>4. CASE drainAt[d] # 0
    <3>1. DrainFrom(d, drainAt[d] + 1) /\ drainAt[d] + 1 \in Nat \ {0}
      BY <1>5, <2>1, <2>4 DEF DrainResume
    <3>2. d \notin shifted => \A i \in 1..Len(pending[DrainOf[d]]) :
            i < drainAt[d] + 1 => pending[DrainOf[d]][i] \in cancelled
      BY <2>1 DEF DrainMarked
    <3> QED
      BY <1>3, <2>1, <3>1, <3>2
  <2> QED
    BY <2>3, <2>4
<1>6. CASE \/ \E t \in Turns : LeaveTurn(t) \/ BackgroundAbandon(t)
           \/ RestartWanted \/ RestartIdle \/ RestartForced \/ ProcessEnds \/ UNCHANGED qvars
  BY <1>6 DEF LeaveTurn, BackgroundAbandon, RestartWanted, RestartIdle, RestartForced,
     ProcessEnds, qvars, queueVars, drainVars, DrainMarked
<1>7. ASSUME NEW t \in Turns, CancelEntry(t) PROVE DrainMarked' /\ Taken
  BY <1>7 DEF CancelEntry, drainVars, DrainMarked
<1> QED
  BY <1>1, <1>2, <1>4, <1>5, <1>6, <1>7 DEF QueueNext

\* A /stop discards every message that waits in its chat, whatever arrives or is
\* cancelled while it edits the indicators, unless an entry before its index leaves the
\* list under it (drain_pending).
THEOREM DrainsTakeAll ==
  ASSUME PoolAssumption, QueueAssumption
  PROVE  QueueSpec => DrainTakesAll
<1>1. QueueInit => DrainMarked
  BY DEF QueueInit, DrainMarked
<1>2. QueueInv /\ DrainMarked /\ [QueueNext]_qvars => DrainMarked'
  BY DrainMarkedStep
<1>3. QueueSpec => []DrainMarked
  BY <1>1, <1>2, QueueInvariant, PTL DEF QueueSpec
<1>4. QueueInv /\ DrainMarked /\ [QueueNext]_qvars =>
        \A d \in Drainers :
          drainStage'[d] = "done" /\ drainStage[d] # "done" =>
            d \in shifted \/ Entries(DrainOf[d]) \subseteq cancelled'
  BY DrainMarkedStep
<1> QED
  BY <1>3, <1>4, QueueInvariant, PTL DEF QueueSpec, DrainTakesAll

-----------------------------------------------------------------------------
(* The deploy watcher, and what becomes of a message.                        *)

\* While the pool has room for every session, the deploy watcher never takes the bot
\* for idle while a handler runs or a message with an entry is unsettled: the lock of
\* the handler is in the pool and held, and the entry is in the list.  The restart that
\* the deadline forces is another matter: it spares nobody.
THEOREM WatcherSparesHandlers ==
  ASSUME PoolAssumption, QueueAssumption, PoolFits
  PROVE  QueueSpec => RestartSparesRunning
<1>1. ASSUME QueueInv, SessionInv, [QueueNext]_qvars, restart' = "idle", restart # "idle"
      PROVE  (\A t \in Turns : ~Inside(t)) /\ \A t \in listed : stage[t] = "done"
  <2>1. RestartIdle
    BY <1>1 DEF QueueNext, ArriveFree, ArriveBusy, IndicatorDone, WakeTurn, LeaveTurn,
       BackgroundEnter, BackgroundAbandon, CancelEntry, DrainBegin, DrainResume,
       RestartWanted, RestartForced, ProcessEnds, qvars
  <2>2. ASSUME NEW t \in Turns, Inside(t) PROVE HasActiveWork
    <3>1. owner[ref[t]] = t /\ locks[KeyOf[t]] = ref[t]
      BY <1>1, <2>2 DEF SessionInv, ObjectInv, ObjectExclusion, RefersToPooled, Inside
    <3>2. ref[t] # NoTurn /\ KeyOf[t] \in Keys
      BY <1>1, <2>2 DEF PoolAssumption, SessionInv, ObjectInv, TypeInv, RefKnown, Inside
    <3>3. t # NoTurn
      BY DEF PoolAssumption
    <3> QED
      BY <3>1, <3>2, <3>3 DEF HasActiveWork, Pooled, IsLocked
  <2>3. \A t \in Turns : ~Inside(t)
    BY <2>1, <2>2 DEF RestartIdle
  <2>4. \A c \in QueueChats : Entries(c) = {}
    BY <2>1 DEF RestartIdle, HasActiveWork, Entries
  <2>5. ASSUME NEW t \in listed PROVE stage[t] = "done"
    <3>1. t \in Turns /\ Chat(t) \in QueueChats
      BY <1>1 DEF QueueInv, QueueTypeOK, QueueAssumption, PoolAssumption, Chat
    <3>2. stage[t] \in Stages \ {"new", "inside"}
      BY <1>1, <2>3, <3>1 DEF QueueInv, ListedEntered, TypeInv, TypeOK, Inside
    <3>3. stage[t] \notin {"deferred", "waiting"}
      BY <1>1, <2>4, <3>1 DEF QueueInv, PendingAgrees
    <3> QED
      BY <3>2, <3>3 DEF Stages
  <2> QED
    BY <2>3, <2>5
<1>2. QueueInv /\ SessionInv /\ [QueueNext]_qvars =>
        (restart' = "idle" /\ restart # "idle" =>
           (\A t \in Turns : ~Inside(t)) /\ \A t \in listed : stage[t] = "done")
  BY <1>1
<1> QED
  BY <1>2, QueueInvariant, QueueImplementsPool, SessionInvariant, PTL DEF QueueSpec, RestartSparesRunning

\* A message that got its lock was handled or had been cancelled: no message falls
\* between the Cancel button and the handler.
SettledOneWay ==
  \A t \in Messages : stage[t] \in {"inside", "done"} => t \in served \cup cancelled

LEMMA SettledStep ==
  ASSUME QueueInv, SettledOneWay, [QueueNext]_qvars
  PROVE  SettledOneWay'
<1>0. Messages \subseteq Messages /\ stage \in [Turns -> Stages]
  BY DEF QueueInv, QueueTypeOK, TypeOK
<1>1. ASSUME NEW t \in Turns,
             \/ ArriveFree(t) \/ IndicatorDone(t) \/ WakeTurn(t) \/ BackgroundEnter(t)
      PROVE  SettledOneWay'
  <2>1. /\ cancelled' = cancelled /\ Admit(t)
        /\ \A u \in Turns \ {t} : stage'[u] = stage[u]
        /\ stage'[t] \in {"waiting", "inside"}
    BY <1>0, <1>1 DEF ArriveFree, IndicatorDone, WakeTurn, BackgroundEnter, Enter, EnterDeferred,
       Wake, Acquire
  <2>2. served \subseteq served' /\ (stage'[t] = "inside" => t \in served' \cup cancelled)
    BY <2>1 DEF Admit
  <2>3. ASSUME NEW u \in Messages, stage'[u] \in {"inside", "done"}
        PROVE  u \in served' \cup cancelled'
    <3>1. CASE u = t
      BY <2>1, <2>2, <2>3, <3>1
    <3>2. CASE u # t
      <4>1. u \in Turns
        BY <2>3, QueueAssumption
      <4> QED
        BY <2>1, <2>2, <2>3, <3>2, <4>1 DEF SettledOneWay
    <3> QED
      BY <3>1, <3>2
  <2> QED
    BY <2>3 DEF SettledOneWay
<1>2. ASSUME NEW t \in Turns, ArriveBusy(t) \/ LeaveTurn(t) \/ BackgroundAbandon(t)
      PROVE  SettledOneWay'
  <2>1. /\ UNCHANGED <<served, cancelled>>
        /\ \A u \in Turns \ {t} : stage'[u] = stage[u]
        /\ stage'[t] = "deferred" \/ t \notin Messages \/ stage[t] = "inside"
    BY <1>0, <1>2 DEF ArriveBusy, LeaveTurn, BackgroundAbandon, Defer, Leave, Abandon, queueVars
  <2>2. ASSUME NEW u \in Messages, stage'[u] \in {"inside", "done"}
        PROVE  u \in served' \cup cancelled'
    <3>1. u \in Turns
      BY <2>2, QueueAssumption
    <3> QED
      BY <2>1, <2>2, <3>1 DEF SettledOneWay
  <2> QED
    BY <2>2 DEF SettledOneWay
<1>3. CASE \/ \E t \in Turns : CancelEntry(t)
           \/ \E d \in Drainers : DrainBegin(d) \/ DrainResume(d)
           \/ RestartWanted \/ RestartIdle \/ RestartForced \/ ProcessEnds \/ UNCHANGED qvars
  <2>1. stage' = stage /\ served' = served /\ cancelled \subseteq cancelled'
    BY <1>3 DEF CancelEntry, DrainBegin, DrainResume, DrainFrom, RestartWanted, RestartIdle,
       RestartForced, ProcessEnds, qvars, queueVars, vars
  <2> QED
    BY <2>1 DEF SettledOneWay
<1> QED
  BY <1>1, <1>2, <1>3 DEF QueueNext

\* The safety half of EveryMessageSettled: a message that waits has a turn in front of
\* it that holds the lock or can take it, and one that got the lock ends served or
\* cancelled, whatever is drained, cancelled or evicted meanwhile.
THEOREM MessagesAreSettled ==
  ASSUME PoolAssumption, QueueAssumption
  PROVE  QueueSpec => [](NobodyIsForgotten /\ SettledOneWay)
<1>1. QueueInit => SettledOneWay
  <2> SUFFICES ASSUME QueueInit, NEW t \in Messages PROVE stage[t] = "new"
    BY DEF SettledOneWay
  <2> QED
    BY QueueAssumption DEF QueueInit, Init
<1>2. QueueInv /\ SettledOneWay /\ [QueueNext]_qvars => SettledOneWay'
  BY SettledStep
<1>3. QueueSpec => []SettledOneWay
  BY <1>1, <1>2, QueueInvariant, PTL DEF QueueSpec
<1> QED
  BY <1>3, QueueImplementsPool, LockForgetsNobody, PTL

-----------------------------------------------------------------------------
(* The message bus: MessageBus.                                             *)

\* Every step of a turn is a step of the lock pool or leaves it alone.
LEMMA BusStepIsPoolStep ==
  ASSUME BusNext
  PROVE  [Next]_vars
<1>1. ASSUME NEW t \in Turns, TakeLock(t) \/ GrantLock(t) \/ EndTurn(t)
      PROVE  Next
  BY <1>1 DEF TakeLock, GrantLock, EndTurn, Next
<1>2. ASSUME NEW t \in Turns, SubmitUnlocked(t) \/ Answer(t)
      PROVE  UNCHANGED vars
  BY <1>2 DEF SubmitUnlocked, Answer
<1>3. ASSUME NEW t \in Turns, Release(t) PROVE [Next]_vars
  BY <1>3 DEF Release, Next
<1>4. ASSUME NEW t \in Turns, DeliverLeg(t) PROVE [Next]_vars
  BY <1>3, <1>4 DEF DeliverLeg
<1>5. ASSUME NEW t \in Turns, Cancel(t) PROVE [Next]_vars
  BY <1>3, <1>5 DEF Cancel, Next
<1> QED
  BY <1>1, <1>2, <1>4, <1>5 DEF BusNext

\* The bus and the bots around it use the session locks as LockPool specifies:
\* what is proved of the pool holds of the turns of every origin.
THEOREM BusImplementsPool ==
  BusSpec => Spec
<1>1. BusInit => Init
  BY DEF BusInit
<1>2. [BusNext]_busVars => [Next]_vars
  BY BusStepIsPoolStep DEF busVars, vars
<1> QED
  BY <1>1, <1>2, PTL DEF BusSpec, Spec

-----------------------------------------------------------------------------
(* The lock and the phase of a turn agree.                                   *)

\* A turn that takes the lock is queued exactly while it waits, and busy exactly
\* while it is inside; the others never have to do with a lock.
PhaseAgrees ==
  \A t \in Turns :
    /\ TakesLock(t) =>
         /\ stage[t] = "new" <=> phase[t] = "new"
         /\ stage[t] = "waiting" <=> phase[t] = "queued"
         /\ stage[t] = "inside" <=> Busy(t)
    /\ ~TakesLock(t) =>
         stage[t] = "new" /\ phase[t] \notin {"queued", "working"}

\* The legs of a route are gone through in order, and each was handed over.
RouteFollowed ==
  \A t \in Turns :
    /\ phase[t] \in {"new", "queued", "working"} => at[t] = 1 /\ handed[t] = {}
    /\ phase[t] = "delivering" =>
         /\ at[t] \in 1..Len(Route(t))
         /\ HasHandler(t) => handed[t] = {Route(t)[i] : i \in 1..(at[t] - 1)}

BusInv ==
  /\ TypeInv
  /\ BusTypeOK
  /\ PhaseAgrees
  /\ RouteFollowed
  /\ FailureIsolated

\* A route is a non-empty sequence of registered transports, no longer than the
\* list of them.
LEMMA RouteType ==
  ASSUME BusAssumption, NEW t \in Turns
  PROVE  /\ Len(Transports) \in Nat /\ Len(Transports) > 0
         /\ Len(Route(t)) \in 1..Len(Transports)
         /\ \A i \in 1..Len(Route(t)) : Route(t)[i] \in Registered
<1>1. Len(Transports) \in Nat /\ Len(Transports) > 0
  BY DEF BusAssumption
<1>2. CASE Broadcast(t)
  BY <1>1, <1>2 DEF Route, Registered
<1>3. CASE ~Broadcast(t) /\ TransportOf[t] \in Registered
  <2>1. Route(t) = <<TransportOf[t]>>
    BY <1>3 DEF Route
  <2>2. Len(Route(t)) = 1 /\ Route(t)[1] = TransportOf[t]
    BY <2>1
  <2> QED
    BY <1>1, <1>3, <2>2
<1>4. CASE ~Broadcast(t) /\ TransportOf[t] \notin Registered
  <2>1. Route(t) = <<Transports[1]>>
    BY <1>4 DEF Route
  <2>2. Len(Route(t)) = 1 /\ Route(t)[1] = Transports[1]
    BY <2>1
  <2>3. Transports[1] \in Registered
    BY <1>1 DEF Registered
  <2> QED
    BY <1>1, <2>2, <2>3
<1> QED
  BY <1>2, <1>3, <1>4

LEMMA BusInitial ==
  ASSUME PoolAssumption, BusAssumption, BusInit
  PROVE  BusInv
<1>1. TypeInv
  BY TypeInit DEF BusInit
<1>2. 1 \in 1..Len(Transports)
  BY DEF BusAssumption
<1>3. BusTypeOK
  BY <1>1, <1>2 DEF BusInit, BusTypeOK, TypeInv, Phases
<1>4. PhaseAgrees
  BY DEF BusInit, Init, PhaseAgrees, Busy
<1>5. RouteFollowed /\ FailureIsolated
  BY DEF BusInit, RouteFollowed, FailureIsolated
<1> QED
  BY <1>1, <1>3, <1>4, <1>5 DEF BusInv

\* A step that moves one turn on from its own phase and stage, and keeps the two
\* in agreement for it, keeps them in agreement for all.
LEMMA PhaseStep ==
  ASSUME BusTypeOK, PhaseAgrees, NEW t \in Turns,
         NEW p \in Phases, phase' = [phase EXCEPT ![t] = p],
         NEW s \in Stages, stage' = [stage EXCEPT ![t] = s],
         TakesLock(t) =>
           /\ s = "new" <=> p = "new"
           /\ s = "waiting" <=> p = "queued"
           /\ s = "inside" <=> \/ p = "working"
                               \/ p = "delivering" /\ OriginOf[t] \in Injected,
         ~TakesLock(t) => s = "new" /\ p \notin {"queued", "working"}
  PROVE  PhaseAgrees'
<1>1. \A u \in Turns : u # t => phase'[u] = phase[u] /\ stage'[u] = stage[u]
  BY DEF BusTypeOK, TypeOK
<1>2. phase'[t] = p /\ stage'[t] = s
  BY DEF BusTypeOK, TypeOK
<1>3. ASSUME NEW u \in Turns, u # t
      PROVE  /\ TakesLock(u) =>
                  /\ stage'[u] = "new" <=> phase'[u] = "new"
                  /\ stage'[u] = "waiting" <=> phase'[u] = "queued"
                  /\ stage'[u] = "inside" <=> Busy(u)'
             /\ ~TakesLock(u) =>
                  stage'[u] = "new" /\ phase'[u] \notin {"queued", "working"}
  BY <1>1, <1>3 DEF PhaseAgrees, Busy
<1> QED
  BY <1>2, <1>3 DEF PhaseAgrees, Busy, TakesLock

\* A step after which a turn has not been delivered anything, or no more than
\* before, keeps to the routes.
LEMMA RouteStep ==
  ASSUME PoolAssumption, BusAssumption, BusTypeOK, RouteFollowed, FailureIsolated,
         NEW t \in Turns, NEW p \in Phases \ {"delivered"},
         phase' = [phase EXCEPT ![t] = p],
         UNCHANGED <<at, handed>>,
         p = "delivering" => phase[t] \in {"new", "working"},
         p \in {"new", "queued", "working"} => phase[t] \in {"new", "queued", "working"}
  PROVE  RouteFollowed' /\ FailureIsolated'
<1>1. \A u \in Turns : u # t => phase'[u] = phase[u]
  BY DEF BusTypeOK
<1>2. phase'[t] = p
  BY DEF BusTypeOK
<1>3. Len(Route(t)) \in Nat /\ 1 \in 1..Len(Route(t))
  BY RouteType
<1>4. {Route(t)[i] : i \in 1..(1 - 1)} = {}
  OBVIOUS
<1>5. RouteFollowed'
  BY <1>1, <1>2, <1>3, <1>4 DEF RouteFollowed
<1>6. FailureIsolated'
  BY <1>1, <1>2 DEF FailureIsolated
<1> QED
  BY <1>5, <1>6

\* Releasing the lock, or having none, leaves the turn inside no more.
LEMMA ReleaseStage ==
  ASSUME TypeOK, NEW t \in Turns, Release(t)
  PROVE  \E s \in Stages :
           /\ stage' = [stage EXCEPT ![t] = s]
           /\ s = IF stage[t] = "inside" THEN "done" ELSE stage[t]
<1>1. CASE Inside(t)
  BY <1>1 DEF Release, Leave, Inside, Stages
<1>2. CASE ~Inside(t)
  <2>1. stage' = stage /\ stage[t] \in Stages /\ stage[t] # "inside"
    BY <1>2 DEF Release, vars, Inside, TypeOK
  <2>2. stage' = [stage EXCEPT ![t] = stage[t]]
    BY <2>1 DEF TypeOK
  <2> QED
    BY <2>1, <2>2
<1> QED
  BY <1>1, <1>2

LEMMA BusStep ==
  ASSUME PoolAssumption, BusAssumption, BusInv, [BusNext]_busVars
  PROVE  BusInv'
<1> USE DEF BusInv
<1>0. TypeInv'
  <2>1. [Next]_vars
    BY BusStepIsPoolStep DEF busVars, vars
  <2> QED
    BY <2>1, TypeStep
<1>t. TypeOK /\ TypeOK'
  BY <1>0 DEF TypeInv
<1>1. ASSUME NEW t \in Turns, TakeLock(t) PROVE BusInv'
  <2>1. PICK p \in {"working", "queued"}, s \in {"inside", "waiting"} :
          /\ phase' = [phase EXCEPT ![t] = p]
          /\ stage' = [stage EXCEPT ![t] = s]
          /\ p = "working" <=> s = "inside"
    BY <1>1, <1>t DEF TakeLock, Enter, Acquire, TypeOK
  <2>2. PhaseAgrees'
    BY <1>1, <2>1, PhaseStep DEF TakeLock, Phases, Stages
  <2>3. RouteFollowed' /\ FailureIsolated'
    BY <1>1, <2>1, RouteStep DEF TakeLock, Phases
  <2>4. BusTypeOK'
    BY <1>1, <1>t, <2>1 DEF TakeLock, BusTypeOK, Phases
  <2> QED
    BY <1>0, <2>2, <2>3, <2>4
<1>2. ASSUME NEW t \in Turns, GrantLock(t) PROVE BusInv'
  <2>1. /\ phase' = [phase EXCEPT ![t] = "working"]
        /\ stage' = [stage EXCEPT ![t] = "inside"]
        /\ TakesLock(t) /\ phase[t] = "queued"
    BY <1>2 DEF GrantLock, Wake, PhaseAgrees
  <2>2. PhaseAgrees'
    BY <2>1, PhaseStep DEF Phases, Stages
  <2>3. RouteFollowed' /\ FailureIsolated'
    BY <1>2, <2>1, RouteStep DEF GrantLock, Phases
  <2>4. BusTypeOK'
    BY <1>2, <1>t, <2>1 DEF GrantLock, BusTypeOK, Phases
  <2> QED
    BY <1>0, <2>2, <2>3, <2>4
<1>3. ASSUME NEW t \in Turns, SubmitUnlocked(t) PROVE BusInv'
  <2>1. /\ phase' = [phase EXCEPT ![t] = "delivering"]
        /\ stage' = [stage EXCEPT ![t] = "new"]
        /\ ~TakesLock(t) /\ phase[t] = "new"
    BY <1>3, <1>t DEF SubmitUnlocked, PhaseAgrees, vars, TypeOK
  <2>2. PhaseAgrees'
    BY <2>1, PhaseStep DEF Phases, Stages
  <2>3. RouteFollowed' /\ FailureIsolated'
    BY <1>3, <2>1, RouteStep DEF SubmitUnlocked, Phases
  <2>4. BusTypeOK'
    BY <1>3, <1>t, <2>1 DEF SubmitUnlocked, BusTypeOK, Phases
  <2> QED
    BY <1>0, <2>2, <2>3, <2>4
<1>4. ASSUME NEW t \in Turns, Answer(t) PROVE BusInv'
  <2>1. /\ phase' = [phase EXCEPT ![t] = "delivering"]
        /\ stage' = [stage EXCEPT ![t] = "inside"]
        /\ TakesLock(t) /\ phase[t] = "working" /\ OriginOf[t] \in Injected
    BY <1>4, <1>t DEF Answer, PhaseAgrees, vars, TypeOK, Busy, TakesLock
  <2>2. PhaseAgrees'
    BY <2>1, PhaseStep DEF Phases, Stages
  <2>3. RouteFollowed' /\ FailureIsolated'
    BY <1>4, <2>1, RouteStep DEF Answer, Phases
  <2>4. BusTypeOK'
    BY <1>4, <1>t, <2>1 DEF Answer, BusTypeOK, Phases
  <2> QED
    BY <1>0, <2>2, <2>3, <2>4
<1>5. ASSUME NEW t \in Turns, EndTurn(t) PROVE BusInv'
  <2>1. PICK p \in {"ended", "delivering"} :
          /\ phase' = [phase EXCEPT ![t] = p]
          /\ stage' = [stage EXCEPT ![t] = "done"]
    BY <1>5 DEF EndTurn, Leave
  <2>2. TakesLock(t) /\ phase[t] = "working" /\ OriginOf[t] \notin Injected
    BY <1>5 DEF EndTurn, TakesLock, OwnTurns, Injected
  <2>3. PhaseAgrees'
    BY <2>1, <2>2, PhaseStep DEF Phases, Stages
  <2>4. RouteFollowed' /\ FailureIsolated'
    BY <1>5, <2>1, <2>2, RouteStep DEF EndTurn, Phases
  <2>5. BusTypeOK'
    BY <1>5, <1>t, <2>1 DEF EndTurn, BusTypeOK, Phases
  <2> QED
    BY <1>0, <2>3, <2>4, <2>5
<1>6. ASSUME NEW t \in Turns, DeliverLeg(t) PROVE BusInv'
  <2> DEFINE leg == IF HasHandler(t) THEN {Route(t)[at[t]]} ELSE {}
  <2>1. /\ phase[t] = "delivering"
        /\ handed' = [handed EXCEPT ![t] = @ \cup leg]
        /\ at[t] \in 1..Len(Route(t))
    BY <1>6 DEF DeliverLeg, RouteFollowed
  <2>2. /\ Len(Route(t)) \in Nat /\ Len(Transports) \in Nat
        /\ Len(Route(t)) <= Len(Transports)
        /\ leg \subseteq Registered
    BY <2>1, RouteType
  <2> HIDE DEF leg
  <2>3. handed' \in [Turns -> SUBSET Registered]
    BY <2>1, <2>2 DEF BusTypeOK
  <2>4. HasHandler(t) => handed'[t] = {Route(t)[i] : i \in 1..at[t]}
    <3>1. SUFFICES ASSUME HasHandler(t)
                   PROVE  handed'[t] = {Route(t)[i] : i \in 1..at[t]}
      OBVIOUS
    <3>2. handed[t] = {Route(t)[i] : i \in 1..(at[t] - 1)}
      BY <2>1, <3>1 DEF RouteFollowed
    <3>3. handed'[t] = handed[t] \cup {Route(t)[at[t]]}
      BY <2>1, <3>1 DEF leg, BusTypeOK
    <3>4. 1..at[t] = (1..(at[t] - 1)) \cup {at[t]}
      BY <2>1, <2>2
    <3>5. \A i \in 1..at[t] : i \in 1..(at[t] - 1) \/ i = at[t]
      BY <3>4
    <3>6. \A i \in 1..(at[t] - 1) : i \in 1..at[t]
      BY <3>4
    <3>7. at[t] \in 1..at[t]
      BY <2>1, <2>2
    <3> QED
      BY <3>2, <3>3, <3>5, <3>6, <3>7
  <2>5. \A u \in Turns : u # t => handed'[u] = handed[u]
    BY <2>1 DEF BusTypeOK
  <2>6. CASE at[t] < Len(Route(t))
    <3>1. at' = [at EXCEPT ![t] = at[t] + 1] /\ UNCHANGED <<vars, phase>>
      BY <1>6, <2>6 DEF DeliverLeg
    <3>2. at[t] + 1 \in 1..Len(Route(t)) /\ at[t] + 1 \in 1..Len(Transports)
      BY <2>1, <2>2, <2>6
    <3>3. BusTypeOK'
      BY <1>t, <2>3, <3>1, <3>2 DEF BusTypeOK
    <3>4. PhaseAgrees'
      BY <3>1 DEF PhaseAgrees, Busy, vars
    <3>5. \A u \in Turns : u # t => at'[u] = at[u]
      BY <3>1 DEF BusTypeOK
    <3>6. at'[t] = at[t] + 1 /\ at'[t] - 1 = at[t]
      BY <2>1, <2>2, <3>1 DEF BusTypeOK
    <3>7. RouteFollowed'
      <4>1. phase'[t] = "delivering" /\ at'[t] \in 1..Len(Route(t))
        BY <2>1, <3>1, <3>2, <3>6
      <4>2. HasHandler(t) => handed'[t] = {Route(t)[i] : i \in 1..(at'[t] - 1)}
        BY <2>4, <3>6
      <4>3. \A u \in Turns : u # t => phase'[u] = phase[u]
        BY <3>1
      <4> QED
        BY <2>5, <3>5, <4>1, <4>2, <4>3 DEF RouteFollowed
    <3>8. FailureIsolated'
      BY <2>1, <2>5, <3>1 DEF FailureIsolated
    <3> QED
      BY <1>0, <3>3, <3>4, <3>7, <3>8
  <2>7. CASE ~(at[t] < Len(Route(t)))
    <3>1. /\ phase' = [phase EXCEPT ![t] = "delivered"]
          /\ Release(t) /\ UNCHANGED at
      BY <1>6, <2>7 DEF DeliverLeg
    <3>2. at[t] = Len(Route(t))
      BY <2>1, <2>2, <2>7
    <3>3. BusTypeOK'
      BY <1>t, <2>3, <3>1 DEF BusTypeOK, Phases
    <3>4. PICK s \in Stages :
            /\ stage' = [stage EXCEPT ![t] = s]
            /\ s = IF stage[t] = "inside" THEN "done" ELSE stage[t]
      BY <1>t, <3>1, ReleaseStage
    <3>5. /\ TakesLock(t) => s \notin {"new", "waiting", "inside"}
          /\ ~TakesLock(t) => s = "new"
      BY <2>1, <3>4 DEF PhaseAgrees, Busy
    <3>6. PhaseAgrees'
      BY <3>1, <3>4, <3>5, PhaseStep DEF Phases
    <3>7. \A u \in Turns : u # t => phase'[u] = phase[u] /\ at'[u] = at[u]
      BY <3>1 DEF BusTypeOK
    <3>8. phase'[t] = "delivered"
      BY <3>1 DEF BusTypeOK
    <3>9. RouteFollowed'
      BY <2>5, <3>7, <3>8 DEF RouteFollowed
    <3>10. FailureIsolated'
      <4>1. HasHandler(t) => handed'[t] = Recipients(t)
        BY <2>4, <3>2 DEF Recipients
      <4> QED
        BY <2>5, <3>7, <4>1 DEF FailureIsolated
    <3> QED
      BY <1>0, <3>3, <3>6, <3>9, <3>10
  <2> QED
    BY <2>6, <2>7
<1>7. ASSUME NEW t \in Turns, Cancel(t) PROVE BusInv'
  <2>1. phase' = [phase EXCEPT ![t] = "cancelled"] /\ UNCHANGED <<at, handed>>
    BY <1>7 DEF Cancel
  <2>2. PICK s \in Stages :
          /\ stage' = [stage EXCEPT ![t] = s]
          /\ TakesLock(t) => s \notin {"new", "waiting", "inside"}
          /\ ~TakesLock(t) => s = "new"
    <3>1. CASE phase[t] = "queued"
      <4>1. Abandon(t) /\ TakesLock(t)
        BY <1>7, <3>1 DEF Cancel, PhaseAgrees
      <4> QED
        BY <4>1 DEF Abandon, Stages
    <3>2. CASE phase[t] \in {"working", "delivering"}
      <4>1. Release(t)
        BY <1>7, <3>2 DEF Cancel
      <4>2. PICK s \in Stages :
              /\ stage' = [stage EXCEPT ![t] = s]
              /\ s = IF stage[t] = "inside" THEN "done" ELSE stage[t]
        BY <1>t, <4>1, ReleaseStage
      <4>3. /\ TakesLock(t) => s \notin {"new", "waiting", "inside"}
            /\ ~TakesLock(t) => s = "new"
        BY <3>2, <4>2 DEF PhaseAgrees
      <4> QED
        BY <4>2, <4>3
    <3> QED
      BY <1>7, <3>1, <3>2 DEF Cancel
  <2>3. PhaseAgrees'
    BY <2>1, <2>2, PhaseStep DEF Phases
  <2>4. RouteFollowed' /\ FailureIsolated'
    BY <2>1, RouteStep DEF Phases
  <2>5. BusTypeOK'
    BY <1>t, <2>1 DEF BusTypeOK, Phases
  <2> QED
    BY <1>0, <2>3, <2>4, <2>5
<1>8. CASE UNCHANGED busVars
  BY <1>0, <1>t, <1>8 DEF busVars, vars, BusTypeOK, PhaseAgrees, Busy, RouteFollowed,
                          FailureIsolated
<1> QED
  BY <1>1, <1>2, <1>3, <1>4, <1>5, <1>6, <1>7, <1>8 DEF BusNext

LEMMA BusInvariant ==
  ASSUME PoolAssumption, BusAssumption
  PROVE  BusSpec => []BusInv
<1>1. BusInit => BusInv
  BY BusInitial
<1>2. BusInv /\ [BusNext]_busVars => BusInv'
  BY BusStep
<1> QED
  BY <1>1, <1>2, PTL DEF BusSpec

-----------------------------------------------------------------------------

\* Phases, legs and recipients always have their types.
THEOREM BusTypeCorrect ==
  ASSUME PoolAssumption, BusAssumption
  PROVE  BusSpec => []BusTypeOK
<1>1. BusInv => BusTypeOK
  BY DEF BusInv
<1> QED
  BY <1>1, BusInvariant, PTL

\* An exception raised by one transport keeps an envelope from no other, for any
\* list of transports (_deliver catches it inside the loop).
THEOREM BusIsolatesFailures ==
  ASSUME PoolAssumption, BusAssumption
  PROVE  BusSpec => []FailureIsolated
<1>1. BusInv => FailureIsolated
  BY DEF BusInv
<1> QED
  BY <1>1, BusInvariant, PTL

\* A busy turn is inside its lock, so what the lock excludes the bus excludes.
LEMMA BusyInside ==
  ASSUME PoolAssumption, BusAssumption, BusInv, SessionExclusion
  PROVE  AnswerBeforeNextTurn
<1>1. ASSUME NEW t \in Turns, Busy(t) PROVE Inside(t)
  BY <1>1 DEF BusInv, PhaseAgrees, Busy, TakesLock, Inside
<1>2. ASSUME NEW t \in Turns, NEW u \in Turns, Busy(t), Busy(u),
             ChatOf[t] = ChatOf[u], t # u
      PROVE  PoolOf(t) # PoolOf(u)
  <2>1. KeyOf[t] # KeyOf[u]
    BY <1>1, <1>2 DEF SessionExclusion
  <2>2. KeyOf[t] = <<PoolOf(t), ChatOf[t]>> /\ KeyOf[u] = <<PoolOf(u), ChatOf[u]>>
    BY DEF BusAssumption
  <2> QED
    BY <1>2, <2>1, <2>2
<1>3. ASSUME NEW t \in Turns, NEW u \in Turns, PoolOf(t) # PoolOf(u)
      PROVE  /\ Len(Transports) > 1
             /\ OwnOfBot(t) \/ OwnOfBot(u)
             /\ OwnOfBot(t) /\ OwnOfBot(u) => TransportOf[t] # TransportOf[u]
  BY <1>3 DEF PoolOf, OwnOfBot
<1> QED
  BY <1>2, <1>3 DEF AnswerBeforeNextTurn

\* If the pools have room for every session, an injected answer is delivered before any
\* other turn works in its chat, except for the messages and wakes of several bots, each
\* of which locks in a pool of its own (MessageBus.submit, TelegramBot.__init__).
THEOREM BusAnswersFirst ==
  ASSUME PoolAssumption, BusAssumption, PoolFits
  PROVE  BusSpec => []AnswerBeforeNextTurn
<1>1. BusInv /\ SessionExclusion => AnswerBeforeNextTurn
  BY BusyInside
<1> QED
  BY <1>1, BusInvariant, BusImplementsPool, SessionExcludes, PTL

\* With one transport there is one pool, and then turns exclude each other in
\* the whole chat, as multi.py:35 says they do for any number of bots.
THEOREM OneBotExcludes ==
  ASSUME PoolAssumption, BusAssumption, PoolFits, Len(Transports) = 1
  PROVE  BusSpec => []OneTurnPerChat
<1>2. AnswerBeforeNextTurn => OneTurnPerChat
  BY DEF AnswerBeforeNextTurn, OneTurnPerChat
<1> QED
  BY <1>2, BusAnswersFirst, PTL
=============================================================================
