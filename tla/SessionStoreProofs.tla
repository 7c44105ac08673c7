------------------------- MODULE SessionStoreProofs -------------------------
(* What the session file guarantees for every set of sessions, providers and *)
(* operations.                                                               *)
EXTENDS SessionStore, TLAPS

\* A turn that carries a SessionData.
Carrying == {"resolved", "syncing", "running", "ended", "stopped", "storing", "preserving"}
\* Whoever is between its reading and its save.
Reading == {"loaded", "syncing", "storing", "preserving", "clearing"}
\* A turn that has not started a conversation.
Unanswered == {"new", "loaded", "resolved", "syncing", "running", "recovering", "clearing"}

\* The conversations of e are of session k, each in the bucket of its provider.
Apart(k, e) ==
  \A p \in Providers :
    e.of[p].id # NoConversation => KeyOf[e.of[p].id.turn] = k /\ e.of[p].id.provider = p

\* None of the conversations of e was started by t, or dropped from k.
Without(t, e) == \A p \in Providers : e.of[p].id.turn # t
Alive(k, e) == \A p \in Providers : <<k, e.of[p].id>> \notin forgotten

\* The counters of e do not exceed what has been counted for k.
Below(k, e) == \A p \in Providers : e.of[p].count <= counted[k][p]

CarriedHasTarget == \A t \in Turns : pc[t] \in Carrying => mem[t].target \in Providers

FileApart == \A k \in Keys : Apart(k, file[k])
ReadApart == \A o \in Ops, k \in Keys : Apart(k, snap[o][k])
CarriedApart == \A o \in Ops : Apart(KeyOf[o], mem[o])

\* Nothing has ever seen a conversation of a turn without an answer.
FileUnseen ==
  \A t \in Turns : pc[t] \in Unanswered => \A k \in Keys : Without(t, file[k])
ReadUnseen ==
  \A t \in Turns : pc[t] \in Unanswered => \A o \in Ops, k \in Keys : Without(t, snap[o][k])
CarriedUnseen ==
  \A t \in Turns : pc[t] \in Unanswered => \A o \in Ops : Without(t, mem[o])
DroppedUnseen ==
  \A t \in Turns : pc[t] \in Unanswered => \A f \in forgotten : f[2].turn # t

\* A session that is not in blamed has no dropped conversation, nor has any copy
\* of it that may still be saved.
FileAlive == \A k \in Keys \ blamed : Alive(k, file[k])
ReadAlive == \A k \in Keys \ blamed, o \in Ops : pc[o] \in Reading => Alive(k, snap[o][k])
CarriedAlive ==
  \A t \in Turns : pc[t] \in Carrying /\ KeyOf[t] \notin blamed => Alive(KeyOf[t], mem[t])

\* The counters of the file are exact, those of the copies are not ahead.
ReadBelow ==
  ~raced => \A k \in Keys \ blamed, o \in Ops : pc[o] \in Reading => Below(k, snap[o][k])
CarriedBelow ==
  ~raced => \A t \in Turns :
    pc[t] \in Carrying /\ KeyOf[t] \notin blamed => Below(KeyOf[t], mem[t])

StoreInv ==
  /\ TypeInv /\ CarriedHasTarget /\ FileApart /\ ReadApart /\ CarriedApart
  /\ FileUnseen /\ ReadUnseen /\ CarriedUnseen /\ DroppedUnseen
  /\ FileAlive /\ ReadAlive /\ CarriedAlive
  /\ CountedOnce /\ ReadBelow /\ CarriedBelow

\* NoConversation is the conversation of no turn.
LEMMA NoConversationIsNone ==
  ASSUME StoreAssumption
  PROVE  /\ NoConversation \notin Conversations
         /\ \A t \in Turns : NoConversation.turn # t
BY DEF StoreAssumption, NoConversation, Conversations, Ops

\* An entry without conversations.
LEMMA FreshEntry ==
  ASSUME StoreAssumption, NEW q \in Providers \cup {NoProvider}
  PROVE  /\ NewEntry(q) \in Entry
         /\ NewEntry(q).target = q
         /\ \A p \in Providers : NewEntry(q).of[p].id = NoConversation
         /\ \A p \in Providers : NewEntry(q).of[p].count = 0
BY DEF NewEntry, Entry, Bucket, NoBucket

\* Absent is such an entry.
LEMMA AbsentIsFresh ==
  ASSUME StoreAssumption
  PROVE  /\ Absent \in Entry
         /\ \A p \in Providers : Absent.of[p].id = NoConversation
         /\ \A p \in Providers : Absent.of[p].count = 0
BY FreshEntry DEF Absent

\* _load: the operation has the file, the others what they had.
LEMMA Loaded ==
  ASSUME TypeInv, NEW o \in Ops, Load(o)
  PROVE  /\ snap' \in [Ops -> Files]
         /\ snap'[o] = file
         /\ \A u \in Ops \ {o} : snap'[u] = snap[u]
BY DEF TypeInv, Load

\* The reading of an operation is forgotten.
LEMMA Unloaded ==
  ASSUME StoreAssumption, TypeInv, NEW o \in Ops, Unload(o)
  PROVE  /\ snap' \in [Ops -> Files]
         /\ \A k \in Keys : snap'[o][k] = Absent
         /\ \A u \in Ops \ {o} : snap'[u] = snap[u]
<1>1. [k \in Keys |-> Absent] \in Files
  BY AbsentIsFresh DEF Files
<1> QED
  BY <1>1 DEF TypeInv, Unload

\* The copy of an operation is forgotten.
LEMMA Left ==
  ASSUME StoreAssumption, TypeInv, NEW o \in Ops, Leave(o)
  PROVE  /\ mem' \in [Ops -> Entry]
         /\ mem'[o] = Absent
         /\ \A u \in Ops \ {o} : mem'[u] = mem[u]
BY AbsentIsFresh DEF TypeInv, Leave

\* A save writes e, and every other entry as it was read.
LEMMA Saved ==
  ASSUME StoreAssumption, TypeInv, NEW o \in Ops, NEW e \in Entry, Save(o, e)
  PROVE  /\ file' \in Files
         /\ file'[KeyOf[o]] = e
         /\ \A k \in Keys \ {KeyOf[o]} : file'[k] = snap[o][k]
         /\ raced' \in BOOLEAN
         /\ ~raced' => ~raced /\ snap[o] = file
<1>1. snap[o] \in [Keys -> Entry] /\ KeyOf[o] \in Keys
  BY DEF TypeInv, StoreAssumption, Files
<1>2. raced' = (raced \/ snap[o] # file)
  BY DEF Save
<1>3. raced' \in BOOLEAN /\ (~raced' => ~raced /\ snap[o] = file)
  BY <1>2 DEF TypeInv
<1>4. file' = [snap[o] EXCEPT ![KeyOf[o]] = e]
  BY DEF Save
<1> QED
  BY <1>1, <1>3, <1>4 DEF Files

\* A save that changes the target only leaves the buckets as they were read.
LEMMA Retargeted ==
  ASSUME StoreAssumption, TypeInv, NEW o \in Ops, NEW q \in Providers,
         Save(o, [snap[o][KeyOf[o]] EXCEPT !.target = q])
  PROVE  /\ file' \in Files
         /\ \A k \in Keys : file'[k].of = snap[o][k].of
         /\ raced' \in BOOLEAN
         /\ ~raced' => ~raced /\ snap[o] = file
<1> DEFINE k == KeyOf[o]
           e == [snap[o][k] EXCEPT !.target = q]
<1>1. snap[o][k] \in Entry
  BY DEF TypeInv, StoreAssumption, Files
<1>2. e \in Entry /\ e.of = snap[o][k].of
  BY <1>1 DEF Entry
<1> HIDE DEF e
<1>3. Save(o, e)
  BY DEF e
<1> QED
  BY <1>2, <1>3, Saved

\* What the answer to t does to its SessionData: nothing, but for a conversation
\* that is put where there was none.
Continued(t) ==
  /\ \A o \in Ops \ {t} : mem'[o] = mem[o]
  /\ mem'[t].target = mem[t].target
  /\ \A p \in Providers :
       /\ mem'[t].of[p].count = mem[t].of[p].count
       /\ \/ mem'[t].of[p].id = mem[t].of[p].id
          \/ mem'[t].of[p].id.turn = t /\ mem'[t].of[p].id.provider = p

\* The assignments of Answered and Interrupted do that.
LEMMA ContinuedBy ==
  ASSUME StoreAssumption, TypeInv, NEW t \in Turns, mem[t].target \in Providers,
         mem' = [mem EXCEPT ![t].of[mem[t].target].id =
                   IF @ = NoConversation THEN [turn |-> t, provider |-> mem[t].target] ELSE @]
  PROVE  mem' \in [Ops -> Entry] /\ Continued(t)
<1> DEFINE q == mem[t].target
           c == [turn |-> t, provider |-> q]
           id == IF mem[t].of[q].id = NoConversation THEN c ELSE mem[t].of[q].id
           b == [mem[t].of[q] EXCEPT !.id = id]
           f == [mem[t].of EXCEPT ![q] = b]
           e == [mem[t] EXCEPT !.of = f]
<1>1. t \in Ops /\ mem[t] \in Entry
  BY DEF TypeInv, Ops
<1>2. mem[t].of \in [Providers -> Bucket] /\ mem[t].of[q] \in Bucket
  BY <1>1 DEF Entry
<1>3. c \in Conversations /\ c.turn = t /\ c.provider = q
  BY DEF Conversations
<1>4. mem' = [mem EXCEPT ![t] = e]
  OBVIOUS
<1>5. /\ id \in Conversations \cup {NoConversation}
      /\ \/ id = mem[t].of[q].id
         \/ id.turn = t /\ id.provider = q
  <2> HIDE DEF c, q
  <2> QED
    BY <1>2, <1>3 DEF Bucket
<1> HIDE DEF id, c
<1>6. /\ b \in Bucket /\ b.count = mem[t].of[q].count /\ b.id = id
  <2> HIDE DEF q
  <2> QED
    BY <1>2, <1>5 DEF Bucket
<1> HIDE DEF b
<1>7. /\ f \in [Providers -> Bucket] /\ f[q] = b
      /\ \A p \in Providers \ {q} : f[p] = mem[t].of[p]
  BY <1>2, <1>6
<1> HIDE DEF f
<1>8. e \in Entry /\ e.of = f /\ e.target = q
  BY <1>1, <1>7 DEF Entry
<1> HIDE DEF e
<1>9. mem \in [Ops -> Entry] /\ e \in Entry /\ t \in Ops
  BY <1>1, <1>8 DEF TypeInv
<1>10. mem' \in [Ops -> Entry] /\ mem'[t] = e /\ \A o \in Ops \ {t} : mem'[o] = mem[o]
  BY <1>4, <1>9
<1> QED
  BY <1>5, <1>7, <1>8, <1>10, <1>6 DEF Continued

\* A merge takes every conversation from one of the two, and the larger counter.
LEMMA MergedIs ==
  ASSUME NEW a \in Entry, NEW b \in Entry
  PROVE  /\ Merged(a, b) \in [Providers -> Bucket]
         /\ \A p \in Providers :
              /\ Merged(a, b)[p].id \in {a.of[p].id, b.of[p].id}
              /\ Merged(a, b)[p].count =
                   IF b.of[p].count > a.of[p].count THEN b.of[p].count ELSE a.of[p].count
<1>1. \A p \in Providers : a.of[p] \in Bucket /\ b.of[p] \in Bucket
  BY DEF Entry
<1>2. ASSUME NEW p \in Providers
      PROVE  /\ Merged(a, b)[p] \in Bucket
             /\ Merged(a, b)[p].id \in {a.of[p].id, b.of[p].id}
             /\ Merged(a, b)[p].count =
                  IF b.of[p].count > a.of[p].count THEN b.of[p].count ELSE a.of[p].count
  BY <1>1 DEF Merged, Bucket
<1>3. Merged(a, b) = [p \in Providers |-> Merged(a, b)[p]]
  BY DEF Merged
<1> QED
  BY <1>2, <1>3

\* Being apart is a matter of the buckets.
LEMMA ApartOf ==
  ASSUME NEW k, NEW a, NEW b, a.of = b.of, Apart(k, a)
  PROVE  Apart(k, b)
BY DEF Apart

\* Whoever forgets its reading leaves those of the others apart.
LEMMA UnloadedApart ==
  ASSUME StoreAssumption, StoreInv, NEW o \in Ops, Unload(o)
  PROVE  ReadApart'
<1> SUFFICES ASSUME NEW u \in Ops, NEW x \in Keys PROVE Apart(x, snap'[u][x])
  BY DEF ReadApart
<1>1. CASE u = o
  <2>1. snap'[u][x] = Absent
    BY <1>1, Unloaded DEF StoreInv
  <2> QED
    BY <2>1, AbsentIsFresh DEF Apart
<1>2. CASE u # o
  <2>1. snap'[u][x] = snap[u][x]
    BY <1>2, Unloaded DEF StoreInv
  <2>2. Apart(x, snap[u][x])
    BY DEF StoreInv, ReadApart
  <2> QED
    BY <2>1, <2>2
<1> QED
  BY <1>1, <1>2

\* It leaves no conversation in them that was not there.
LEMMA UnloadedUnseen ==
  ASSUME StoreAssumption, StoreInv, NEW o \in Ops, Unload(o),
         \A u \in Turns : pc'[u] \in Unanswered => pc[u] \in Unanswered
  PROVE  ReadUnseen'
<1> SUFFICES ASSUME NEW t \in Turns, pc'[t] \in Unanswered, NEW u \in Ops, NEW x \in Keys
             PROVE  Without(t, snap'[u][x])
  BY DEF ReadUnseen
<1>1. CASE u = o
  <2>1. snap'[u][x] = Absent
    BY <1>1, Unloaded DEF StoreInv
  <2> QED
    BY <2>1, AbsentIsFresh, NoConversationIsNone DEF Without
<1>2. CASE u # o
  <2>1. snap'[u][x] = snap[u][x]
    BY <1>2, Unloaded DEF StoreInv
  <2>2. Without(t, snap[u][x])
    BY DEF StoreInv, ReadUnseen
  <2> QED
    BY <2>1, <2>2
<1> QED
  BY <1>1, <1>2

\* A save that leaves the buckets as they were read leaves them apart.
LEMMA RetargetedApart ==
  ASSUME StoreInv, NEW o \in Ops,
         file' = file \/ \A x \in Keys : file'[x].of = snap[o][x].of
  PROVE  FileApart'
<1> SUFFICES ASSUME NEW x \in Keys PROVE Apart(x, file'[x])
  BY DEF FileApart
<1>1. Apart(x, file[x]) /\ Apart(x, snap[o][x])
  BY DEF StoreInv, FileApart, ReadApart
<1>2. file'[x] = file[x] \/ file'[x].of = snap[o][x].of
  OBVIOUS
<1> QED
  BY <1>1, <1>2, ApartOf

\* What a reset or an expiry does to the history.
LEMMA Dropped ==
  ASSUME StoreAssumption, TypeInv, NEW o \in Ops, NEW P \in SUBSET Providers, Drop(o, P)
  PROVE  /\ forgotten' \subseteq Keys \X Conversations
         /\ \A f \in forgotten' :
              \/ f \in forgotten
              \/ \E p \in P : \/ f = <<KeyOf[o], file[KeyOf[o]].of[p].id>>
                              \/ f = <<KeyOf[o], snap[o][KeyOf[o]].of[p].id>>
         /\ blamed' \subseteq Keys /\ blamed \subseteq blamed'
         /\ KeyOf[o] \notin blamed' => \A u \in Ops \ {o} : ~HoldsCopy(u, KeyOf[o])
         /\ counted' \in [Keys -> [Providers -> Nat]]
         /\ \A k \in Keys \ {KeyOf[o]} : counted'[k] = counted[k]
         /\ \A p \in P : counted'[KeyOf[o]][p] = 0
         /\ \A p \in Providers \ P : counted'[KeyOf[o]][p] = counted[KeyOf[o]][p]
<1> DEFINE k == KeyOf[o]
<1>1. k \in Keys /\ file[k] \in Entry /\ snap[o][k] \in Entry
  BY DEF TypeInv, StoreAssumption, Files
<1>2. \A p \in Providers : /\ file[k].of[p].id \in Conversations \cup {NoConversation}
                           /\ snap[o][k].of[p].id \in Conversations \cup {NoConversation}
  BY <1>1 DEF Entry, Bucket
<1>3. /\ \A f \in forgotten' :
           \/ f \in forgotten
           \/ \E p \in P : f = <<k, file[k].of[p].id>> \/ f = <<k, snap[o][k].of[p].id>>
      /\ <<k, NoConversation>> \notin forgotten'
  <2> DEFINE gone == {<<k, e.of[p].id>> : p \in P, e \in {file[k], snap[o][k]}}
  <2>1. forgotten' = (forgotten \cup gone) \ {<<k, NoConversation>>}
    BY DEF Drop
  <2>2. \A f \in gone :
          \E p \in P : f = <<k, file[k].of[p].id>> \/ f = <<k, snap[o][k].of[p].id>>
    OBVIOUS
  <2> HIDE DEF gone, k
  <2> QED
    BY <2>1, <2>2
<1>4. forgotten' \subseteq Keys \X Conversations
  <2> SUFFICES ASSUME NEW f \in forgotten' PROVE f \in Keys \X Conversations
    OBVIOUS
  <2> HIDE DEF k
  <2>1. CASE f \in forgotten
    BY <2>1 DEF TypeInv
  <2>2. ASSUME NEW c \in Conversations \cup {NoConversation}, f = <<k, c>>
        PROVE  f \in Keys \X Conversations
    <3>1. c # NoConversation
      BY <1>3, <2>2
    <3> QED
      BY <1>1, <2>2, <3>1
  <2>3. CASE \E p \in P : f = <<k, file[k].of[p].id>> \/ f = <<k, snap[o][k].of[p].id>>
    <3> PICK p \in P : f = <<k, file[k].of[p].id>> \/ f = <<k, snap[o][k].of[p].id>>
      BY <2>3
    <3>1. p \in Providers
      OBVIOUS
    <3> QED
      BY <1>2, <2>2, <3>1
  <2> QED
    BY <1>3, <2>1, <2>3
<1>5. /\ blamed' \subseteq Keys /\ blamed \subseteq blamed'
      /\ k \notin blamed' => \A u \in Ops \ {o} : ~HoldsCopy(u, k)
  BY <1>1 DEF Drop, TypeInv
<1>6. /\ counted' \in [Keys -> [Providers -> Nat]]
      /\ \A x \in Keys \ {k} : counted'[x] = counted[x]
      /\ \A p \in Providers : counted'[k][p] = IF p \in P THEN 0 ELSE counted[k][p]
  <2> DEFINE c == [p \in Providers |-> IF p \in P THEN 0 ELSE counted[k][p]]
  <2>1. counted \in [Keys -> [Providers -> Nat]] /\ counted[k] \in [Providers -> Nat]
    BY <1>1 DEF TypeInv
  <2>2. c \in [Providers -> Nat]
    BY <2>1
  <2>3. counted' = [counted EXCEPT ![k] = c]
    BY DEF Drop
  <2>4. \A p \in Providers : c[p] = IF p \in P THEN 0 ELSE counted[k][p]
    OBVIOUS
  <2> HIDE DEF c
  <2> QED
    BY <1>1, <2>1, <2>2, <2>3, <2>4
<1> QED
  BY <1>3, <1>4, <1>5, <1>6

\* A reset, an expiry or the retry on a fresh session: the buckets of P go.
LEMMA DropKeeps ==
  ASSUME StoreAssumption, StoreInv, NEW o \in Ops, NEW P \in SUBSET Providers,
         NEW phase \in {"resolved", "recovering", "done"}, NEW e \in Entry,
         pc[o] \in {"loaded", "clearing"},
         \A p \in P : e.of[p].id = NoConversation /\ e.of[p].count = 0,
         \A p \in Providers \ P : e.of[p] = snap[o][KeyOf[o]].of[p],
         Save(o, e), Drop(o, P), Unload(o),
         pc' = [pc EXCEPT ![o] = phase], phase = "resolved" => mem'[o].target \in Providers,
         mem' \in [Ops -> Entry],
         \A p \in Providers : mem'[o].of[p].id = NoConversation /\ mem'[o].of[p].count = 0,
         \A u \in Ops \ {o} : mem'[u] = mem[u],
         session' \in [Keys -> Ops \cup {NoOp}], UNCHANGED <<mutex, retried>>
  PROVE  StoreInv'
<1> DEFINE k == KeyOf[o]
<1>a. /\ k \in Keys /\ pc \in [Ops -> Phases] /\ pc[o] \in Reading
      /\ pc'[o] = phase /\ \A u \in Ops \ {o} : pc'[u] = pc[u]
      /\ phase \notin Reading
  BY DEF StoreInv, TypeInv, StoreAssumption, Reading
<1>b. /\ snap' \in [Ops -> Files]
      /\ \A x \in Keys : snap'[o][x] = Absent
      /\ \A u \in Ops \ {o} : snap'[u] = snap[u]
  BY Unloaded DEF StoreInv
<1>c. /\ file' \in Files /\ file'[k] = e
      /\ \A x \in Keys \ {k} : file'[x] = snap[o][x]
      /\ raced' \in BOOLEAN
      /\ ~raced' => ~raced /\ snap[o] = file
  BY Saved DEF StoreInv
<1>d. /\ forgotten' \subseteq Keys \X Conversations
      /\ \A f \in forgotten' :
           \/ f \in forgotten
           \/ \E p \in P : f = <<k, file[k].of[p].id>> \/ f = <<k, snap[o][k].of[p].id>>
      /\ blamed' \subseteq Keys /\ blamed \subseteq blamed'
      /\ k \notin blamed' => \A u \in Ops \ {o} : ~HoldsCopy(u, k)
      /\ counted' \in [Keys -> [Providers -> Nat]]
      /\ \A x \in Keys \ {k} : counted'[x] = counted[x]
      /\ \A p \in P : counted'[k][p] = 0
      /\ \A p \in Providers \ P : counted'[k][p] = counted[k][p]
  BY Dropped DEF StoreInv
<1>f. \A u \in Turns : pc'[u] \in Unanswered => pc[u] \in Unanswered
  BY <1>a DEF Unanswered, Ops
<1>g. \A x \in Keys \ {k} : \A c : <<x, c>> \in forgotten' => <<x, c>> \in forgotten
  BY <1>d
<1>h. \A u \in Ops, x \in Keys \ blamed' :
        HoldsCopy(u, x) => u = o \/ (x # k /\ x \notin blamed)
  BY <1>d
<1>i. \A u \in Ops \ {o} : pc[u] \in Reading => \A x \in Keys : HoldsCopy(u, x)
  BY DEF HoldsCopy, Reading
<1>j. \A u \in Turns \ {o} : pc[u] \in Carrying => HoldsCopy(u, KeyOf[u])
  BY DEF HoldsCopy, Carrying
<1> HIDE DEF k
<1>1. TypeInv'
  BY <1>a, <1>b, <1>c, <1>d DEF StoreInv, TypeInv, Phases
<1>2. CarriedHasTarget'
  BY <1>a DEF StoreInv, CarriedHasTarget, Carrying, Ops
<1>3. FileApart'
  <2>0. Apart(k, snap[o][k])
    BY <1>a DEF StoreInv, ReadApart
  <2>1. Apart(k, file'[k])
    <3> SUFFICES ASSUME NEW p \in Providers, e.of[p].id # NoConversation
                 PROVE  KeyOf[e.of[p].id.turn] = k /\ e.of[p].id.provider = p
      BY <1>c DEF Apart
    <3>1. p \notin P
      OBVIOUS
    <3>2. e.of[p].id = snap[o][k].of[p].id
      BY <3>1 DEF k
    <3> QED
      BY <2>0, <3>2 DEF Apart
  <2>2. \A x \in Keys \ {k} : Apart(x, file'[x])
    BY <1>c DEF StoreInv, ReadApart
  <2> QED
    BY <2>1, <2>2 DEF FileApart, Apart
<1>4. ReadApart'
  BY UnloadedApart
<1>5. CarriedApart'
  <2>1. Apart(KeyOf[o], mem'[o])
    BY DEF Apart
  <2>2. \A u \in Ops \ {o} : Apart(KeyOf[u], mem'[u])
    BY DEF StoreInv, CarriedApart
  <2> QED
    BY <2>1, <2>2 DEF CarriedApart, Apart
<1>6. FileUnseen'
  <2> SUFFICES ASSUME NEW s \in Turns, pc'[s] \in Unanswered, NEW x \in Keys
               PROVE  Without(s, file'[x])
    BY DEF FileUnseen, Without
  <2>1. Without(s, snap[o][x])
    BY <1>f DEF StoreInv, ReadUnseen
  <2>2. CASE x = k
    BY <1>c, <2>1, <2>2, NoConversationIsNone DEF Without, k
  <2> QED
    BY <1>c, <2>1, <2>2
<1>7. ReadUnseen'
  BY <1>f, UnloadedUnseen
<1>8. CarriedUnseen'
  <2>1. \A s \in Turns : Without(s, mem'[o])
    BY NoConversationIsNone DEF Without
  <2>2. \A s \in Turns : pc'[s] \in Unanswered => \A u \in Ops \ {o} : Without(s, mem'[u])
    BY <1>f DEF StoreInv, CarriedUnseen
  <2> QED
    BY <2>1, <2>2 DEF CarriedUnseen, Without
<1>9. DroppedUnseen'
  <2> SUFFICES ASSUME NEW s \in Turns, pc'[s] \in Unanswered, NEW f \in forgotten'
               PROVE  f[2].turn # s
    BY DEF DroppedUnseen
  <2>1. CASE f \in forgotten
    BY <1>f, <2>1 DEF StoreInv, DroppedUnseen
  <2>2. CASE \E p \in P : f = <<k, file[k].of[p].id>> \/ f = <<k, snap[o][k].of[p].id>>
    <3>1. Without(s, file[k]) /\ Without(s, snap[o][k])
      BY <1>a, <1>f DEF StoreInv, FileUnseen, ReadUnseen
    <3>2. PICK p \in P : f = <<k, file[k].of[p].id>> \/ f = <<k, snap[o][k].of[p].id>>
      BY <2>2
    <3>3. f[2] = file[k].of[p].id \/ f[2] = snap[o][k].of[p].id
      BY <3>2
    <3> QED
      BY <3>1, <3>3 DEF Without
  <2> QED
    BY <1>d, <2>1, <2>2
<1>10. FileAlive'
  <2> SUFFICES ASSUME NEW x \in Keys \ blamed', NEW p \in Providers
               PROVE  <<x, file'[x].of[p].id>> \notin forgotten'
    BY DEF FileAlive, Alive
  <2>1. <<x, snap[o][x].of[p].id>> \notin forgotten
    BY <1>a, <1>d DEF StoreInv, ReadAlive, Alive
  <2>2. CASE x # k
    BY <1>c, <1>g, <2>1, <2>2
  <2>3. CASE x = k /\ p \in P
    <3>1. file'[x].of[p].id = NoConversation
      BY <1>c, <2>3
    <3> QED
      BY <1>d, <3>1, NoConversationIsNone
  <2>4. CASE x = k /\ p \notin P
    <3> DEFINE id == file'[k].of[p].id
    <3>1. id = snap[o][k].of[p].id
      BY <1>c, <2>4 DEF k
    <3> HIDE DEF id
    <3>0. Apart(k, file[k]) /\ Apart(k, snap[o][k])
      BY <1>a DEF StoreInv, FileApart, ReadApart
    <3>2. id # NoConversation => id.provider = p
      BY <3>0, <3>1 DEF Apart
    <3>3. ASSUME NEW q \in P, id # NoConversation
          PROVE  id # file[k].of[q].id /\ id # snap[o][k].of[q].id
      <4>1. q \in Providers /\ q # p
        BY <2>4
      <4>2. file[k].of[q].id # NoConversation => file[k].of[q].id.provider = q
        BY <3>0, <4>1 DEF Apart
      <4>3. snap[o][k].of[q].id # NoConversation => snap[o][k].of[q].id.provider = q
        BY <3>0, <4>1 DEF Apart
      <4> QED
        BY <3>2, <3>3, <4>1, <4>2, <4>3
    <3>4. CASE id = NoConversation
      BY <1>d, <2>4, <3>4, NoConversationIsNone DEF id
    <3>5. CASE id # NoConversation
      <4>1. <<k, id>> \notin forgotten
        BY <2>1, <2>4, <3>1
      <4>2. \A q \in P : /\ <<k, id>> # <<k, file[k].of[q].id>>
                         /\ <<k, id>> # <<k, snap[o][k].of[q].id>>
        BY <3>3, <3>5
      <4>3. <<k, id>> \notin forgotten'
        <5> SUFFICES ASSUME <<k, id>> \in forgotten' PROVE FALSE
          OBVIOUS
        <5>1. \/ <<k, id>> \in forgotten
              \/ \E q \in P : \/ <<k, id>> = <<k, file[k].of[q].id>>
                              \/ <<k, id>> = <<k, snap[o][k].of[q].id>>
          BY <1>d, Zenon
        <5> QED
          BY <4>1, <4>2, <5>1
      <4> QED
        BY <2>4, <4>3 DEF id
    <3> QED
      BY <3>4, <3>5
  <2> QED
    BY <2>2, <2>3, <2>4
<1>11. ReadAlive'
  <2> SUFFICES ASSUME NEW x \in Keys \ blamed', NEW u \in Ops, pc'[u] \in Reading,
                      NEW p \in Providers
               PROVE  <<x, snap'[u][x].of[p].id>> \notin forgotten'
    BY DEF ReadAlive, Alive
  <2>1. u # o /\ pc[u] \in Reading
    BY <1>a
  <2>2. x # k /\ x \notin blamed
    BY <1>h, <1>i, <2>1
  <2>3. <<x, snap[u][x].of[p].id>> \notin forgotten
    BY <2>1, <2>2 DEF StoreInv, ReadAlive, Alive
  <2> QED
    BY <1>b, <1>g, <2>1, <2>2, <2>3
<1>12. CarriedAlive'
  <2> SUFFICES ASSUME NEW u \in Turns, pc'[u] \in Carrying, KeyOf[u] \notin blamed',
                      NEW p \in Providers
               PROVE  <<KeyOf[u], mem'[u].of[p].id>> \notin forgotten'
    BY DEF CarriedAlive, Alive
  <2>1. CASE u = o
    BY <1>d, <2>1, NoConversationIsNone
  <2>2. CASE u # o
    <3>1. u \in Ops /\ pc[u] \in Carrying /\ KeyOf[u] \in Keys
      BY <1>a, <2>2 DEF Ops, StoreAssumption
    <3>2. KeyOf[u] # k /\ KeyOf[u] \notin blamed
      BY <1>h, <1>j, <2>2, <3>1
    <3>3. <<KeyOf[u], mem[u].of[p].id>> \notin forgotten
      BY <3>1, <3>2 DEF StoreInv, CarriedAlive, Alive
    <3> QED
      BY <1>g, <2>2, <3>1, <3>2, <3>3
  <2> QED
    BY <2>1, <2>2
<1>13. CountedOnce'
  <2> SUFFICES ASSUME ~raced', NEW x \in Keys \ blamed', NEW p \in Providers
               PROVE  file'[x].of[p].count = counted'[x][p]
    BY DEF CountedOnce
  <2>1. snap[o][x].of[p].count = counted[x][p]
    BY <1>c, <1>d DEF StoreInv, CountedOnce
  <2>2. CASE x = k
    BY <1>c, <1>d, <2>1, <2>2 DEF k
  <2> QED
    BY <1>c, <1>d, <2>1, <2>2
<1>14. ReadBelow'
  <2> SUFFICES ASSUME ~raced', NEW x \in Keys \ blamed', NEW u \in Ops, pc'[u] \in Reading,
                      NEW p \in Providers
               PROVE  snap'[u][x].of[p].count <= counted'[x][p]
    BY DEF ReadBelow, Below
  <2>1. u # o /\ pc[u] \in Reading
    BY <1>a
  <2>2. x # k /\ x \notin blamed
    BY <1>h, <1>i, <2>1
  <2>3. snap[u][x].of[p].count <= counted[x][p]
    BY <1>c, <2>1, <2>2 DEF StoreInv, ReadBelow, Below
  <2> QED
    BY <1>b, <1>d, <2>1, <2>2, <2>3
<1>15. CarriedBelow'
  <2> SUFFICES ASSUME ~raced', NEW u \in Turns, pc'[u] \in Carrying, KeyOf[u] \notin blamed',
                      NEW p \in Providers
               PROVE  mem'[u].of[p].count <= counted'[KeyOf[u]][p]
    BY DEF CarriedBelow, Below
  <2>0. u \in Ops /\ KeyOf[u] \in Keys /\ counted'[KeyOf[u]][p] \in Nat
    BY <1>d DEF Ops, StoreAssumption
  <2>1. CASE u = o
    BY <2>0, <2>1
  <2>2. CASE u # o
    <3>1. pc[u] \in Carrying
      BY <1>a, <2>0, <2>2
    <3>2. KeyOf[u] # k /\ KeyOf[u] \notin blamed
      BY <1>h, <1>j, <2>0, <2>2, <3>1
    <3>3. mem[u].of[p].count <= counted[KeyOf[u]][p]
      BY <1>c, <3>1, <3>2 DEF StoreInv, CarriedBelow, Below
    <3> QED
      BY <1>d, <2>0, <2>2, <3>2, <3>3
  <2> QED
    BY <2>1, <2>2
<1> QED
  BY <1>1, <1>2, <1>3, <1>4, <1>5, <1>6, <1>7, <1>8, <1>9, <1>10, <1>11, <1>12, <1>13,
     <1>14, <1>15 DEF StoreInv

\* Reading the file and going on with what was read.
LEMMA ReadKeeps ==
  ASSUME StoreAssumption, StoreInv, NEW o \in Ops, NEW phase \in Reading,
         Load(o), pc' = [pc EXCEPT ![o] = phase],
         o \in Turns /\ phase \in Unanswered => pc[o] \in Unanswered,
         o \in Turns /\ phase \in Carrying => pc[o] \in Carrying,
         mutex' \in Ops \cup {NoOp}, session' \in [Keys -> Ops \cup {NoOp}],
         retried' \subseteq Turns, UNCHANGED <<file, mem, history>>
  PROVE  StoreInv'
<1>a. snap' \in [Ops -> Files] /\ snap'[o] = file /\ \A u \in Ops \ {o} : snap'[u] = snap[u]
  BY Loaded DEF StoreInv
<1>b. /\ \A u \in Ops \ {o} : pc'[u] = pc[u]
      /\ \A u \in Turns : pc'[u] \in Unanswered => pc[u] \in Unanswered
      /\ \A u \in Turns : pc'[u] \in Carrying => pc[u] \in Carrying
  BY DEF StoreInv, TypeInv, Ops
<1>1. TypeInv'
  BY <1>a DEF StoreInv, TypeInv, Phases, Reading, history
<1>2. CarriedHasTarget'
  BY <1>b DEF StoreInv, CarriedHasTarget, Ops
<1>3. FileApart'
  BY DEF StoreInv, FileApart, Apart
<1>4. ReadApart'
  BY <1>a DEF StoreInv, FileApart, ReadApart
<1>5. CarriedApart'
  BY DEF StoreInv, CarriedApart, Apart
<1>6. FileUnseen'
  BY <1>b DEF StoreInv, FileUnseen, Without
<1>7. ReadUnseen'
  BY <1>a, <1>b DEF StoreInv, FileUnseen, ReadUnseen
<1>8. CarriedUnseen'
  BY <1>b DEF StoreInv, CarriedUnseen, Without
<1>9. DroppedUnseen'
  BY <1>b DEF StoreInv, DroppedUnseen, history
<1>10. FileAlive'
  BY DEF StoreInv, FileAlive, Alive, history
<1>11. ReadAlive'
  BY <1>a, <1>b DEF StoreInv, FileAlive, ReadAlive, Alive, history
<1>12. CarriedAlive'
  BY <1>b DEF StoreInv, CarriedAlive, Alive, Ops, history
<1>13. CountedOnce'
  BY DEF StoreInv, CountedOnce, history
<1>14. ReadBelow'
  <2> SUFFICES ASSUME ~raced, NEW x \in Keys \ blamed, NEW u \in Ops, pc'[u] \in Reading,
                      NEW q \in Providers
               PROVE  snap'[u][x].of[q].count <= counted[x][q]
    BY DEF ReadBelow, Below, history
  <2>1. CASE u = o
    <3>1. file[x].of[q].count = counted[x][q] /\ counted[x][q] \in Nat
      BY DEF StoreInv, TypeInv, CountedOnce
    <3> QED
      BY <1>a, <2>1, <3>1
  <2>2. CASE u # o
    BY <1>a, <1>b, <2>2 DEF StoreInv, ReadBelow, Below
  <2> QED
    BY <2>1, <2>2
<1>15. CarriedBelow'
  BY <1>b DEF StoreInv, CarriedBelow, Below, Ops, history
<1> QED
  BY <1>1, <1>2, <1>3, <1>4, <1>5, <1>6, <1>7, <1>8, <1>9, <1>10, <1>11, <1>12,
     <1>13, <1>14, <1>15 DEF StoreInv

\* A turn reads the file for its session.
LEMMA ResolveKeeps ==
  ASSUME StoreAssumption, StoreInv, NEW t \in Turns, Resolve(t)
  PROVE  StoreInv'
<1>1. /\ t \in Ops /\ pc[t] \in {"new", "recovering"} /\ Load(t)
      /\ pc' = [pc EXCEPT ![t] = "loaded"]
      /\ UNCHANGED <<file, mem, history>>
  BY DEF StoreAssumption, Ops, Resolve, At
<1>2. /\ mutex' \in Ops \cup {NoOp} /\ session' \in [Keys -> Ops \cup {NoOp}]
      /\ retried' \subseteq Turns
  BY <1>1 DEF StoreInv, TypeInv, Resolve
<1> QED
  BY <1>1, <1>2, ReadKeeps DEF Reading, Unanswered, Carrying

\* A turn has its session, which may have replaced an expired or missing one.
LEMMA ResolvedKeeps ==
  ASSUME StoreAssumption, StoreInv, NEW t \in Turns, Resolved(t)
  PROVE  StoreInv'
<1> DEFINE k == KeyOf[t]
           e == snap[t][k]
           wanted == IF Chosen[t] = NoProvider THEN Default ELSE Chosen[t]
           q == IF Chosen[t] = NoProvider THEN e.target ELSE wanted
<1>a. /\ t \in Ops /\ pc[t] = "loaded" /\ pc' = [pc EXCEPT ![t] = "resolved"]
      /\ UNCHANGED <<mutex, session, retried>> /\ Unload(t)
      /\ k \in Keys /\ e \in Entry /\ wanted \in Providers
  BY DEF StoreAssumption, StoreInv, TypeInv, Files, Ops, Resolved, At
<1>b. /\ snap' \in [Ops -> Files]
      /\ \A x \in Keys : snap'[t][x] = Absent
      /\ \A u \in Ops \ {t} : snap'[u] = snap[u]
  BY <1>a, Unloaded DEF StoreInv
<1>f. \A u \in Turns : pc'[u] \in Unanswered => pc[u] \in Unanswered
  BY <1>a DEF StoreInv, TypeInv, Unanswered, Ops
<1>g. CASE /\ mem' = [mem EXCEPT ![t] = NewEntry(wanted)]
           /\ Save(t, mem'[t]) /\ Drop(t, Providers)
  <2>1. /\ NewEntry(wanted) \in Entry /\ NewEntry(wanted).target = wanted
        /\ \A p \in Providers : /\ NewEntry(wanted).of[p].id = NoConversation
                                /\ NewEntry(wanted).of[p].count = 0
    BY <1>a, FreshEntry
  <2> DEFINE n == NewEntry(wanted)
  <2> HIDE DEF n, wanted
  <2>2. /\ mem' \in [Ops -> Entry] /\ mem'[t] = n
        /\ \A u \in Ops \ {t} : mem'[u] = mem[u]
    BY <1>a, <1>g, <2>1 DEF StoreInv, TypeInv, n
  <2>3. /\ n \in Entry /\ n.target \in Providers
        /\ \A p \in Providers : n.of[p].id = NoConversation /\ n.of[p].count = 0
    BY <1>a, <2>1 DEF n
  <2>4. Save(t, n) /\ Drop(t, Providers)
    BY <1>g, <2>2
  <2>5. session' \in [Keys -> Ops \cup {NoOp}]
    BY <1>a DEF StoreInv, TypeInv
  <2>6. Providers \in SUBSET Providers /\ \A p \in Providers \ Providers : FALSE
    OBVIOUS
  <2> QED
    BY <1>a, <2>2, <2>3, <2>4, <2>5, <2>6, DropKeeps
<1>h. CASE /\ e.target # NoProvider
           /\ mem' = [mem EXCEPT ![t] =
                        [e EXCEPT !.target = IF Chosen[t] = NoProvider THEN @ ELSE wanted]]
           /\ IF mem'[t] # e THEN Save(t, mem'[t]) ELSE UNCHANGED <<file, raced>>
           /\ Kept
  <2>a. q \in Providers
    BY <1>a, <1>h DEF Entry
  <2>b. mem' = [mem EXCEPT ![t] = [e EXCEPT !.target = q]]
    BY <1>h
  <2> HIDE DEF q, e
  <2>c. /\ [e EXCEPT !.target = q] \in Entry
        /\ [e EXCEPT !.target = q].of = e.of
        /\ [e EXCEPT !.target = q].target = q
    BY <1>a, <2>a DEF Entry
  <2>d. /\ mem' \in [Ops -> Entry] /\ mem'[t] = [e EXCEPT !.target = q]
        /\ \A u \in Ops \ {t} : mem'[u] = mem[u]
    BY <1>a, <2>b, <2>c DEF StoreInv, TypeInv
  <2>e. mem'[t].of = snap[t][k].of /\ mem'[t].target \in Providers
    BY <2>a, <2>c, <2>d DEF e
  <2>f. /\ file' \in Files /\ raced' \in BOOLEAN
        /\ ~raced' => ~raced /\ (file' = file \/ snap[t] = file)
        /\ file' = file \/ \A x \in Keys : file'[x].of = snap[t][x].of
        /\ UNCHANGED <<forgotten, blamed, counted>>
    <3>1. CASE Save(t, [snap[t][k] EXCEPT !.target = q])
      BY <1>a, <1>h, <2>a, <3>1, Retargeted DEF StoreInv, Kept
    <3>2. CASE UNCHANGED <<file, raced>>
      BY <1>h, <3>2 DEF StoreInv, TypeInv, Kept
    <3> QED
      BY <1>h, <2>d, <3>1, <3>2 DEF e
  <2>g. pc[t] \in Reading /\ \A x \in Keys : /\ Apart(x, snap[t][x])
                                             /\ \A u \in Turns : pc[u] \in Unanswered =>
                                                  Without(u, snap[t][x])
    BY <1>a DEF StoreInv, ReadApart, ReadUnseen, Reading
  <2>1. TypeInv'
    BY <1>a, <1>b, <2>d, <2>f DEF StoreInv, TypeInv, Phases
  <2>2. CarriedHasTarget'
    BY <1>a, <2>d, <2>e DEF StoreInv, TypeInv, CarriedHasTarget, Carrying, Ops
  <2>3. FileApart'
    BY <1>a, <2>f, RetargetedApart
  <2>4. ReadApart'
    BY <1>a, UnloadedApart
  <2>5. CarriedApart'
    <3>1. Apart(k, snap[t][k])
      BY <1>a, <2>g
    <3>2. Apart(KeyOf[t], mem'[t])
      BY <2>e, <3>1, ApartOf
    <3> QED
      BY <2>d, <3>2 DEF StoreInv, CarriedApart
  <2>6. FileUnseen'
    <3>1. CASE file' = file
      BY <1>a, <1>f, <2>f, <3>1 DEF StoreInv, FileUnseen, Without
    <3>2. CASE \A x \in Keys : file'[x].of = snap[t][x].of
      BY <1>a, <1>f, <2>f, <2>g, <3>2 DEF StoreInv, FileUnseen, Without
    <3> QED
      BY <2>f, <3>1, <3>2
  <2>7. ReadUnseen'
    BY <1>a, <1>f, UnloadedUnseen
  <2>8. CarriedUnseen'
    <3>1. \A u \in Turns : pc[u] \in Unanswered => Without(u, mem'[t])
      BY <1>a, <2>e, <2>g DEF Without
    <3>2. \A u \in Turns, o \in Ops \ {t} : pc[u] \in Unanswered => Without(u, mem'[o])
      BY <2>d DEF StoreInv, CarriedUnseen
    <3> QED
      BY <1>f, <3>1, <3>2 DEF CarriedUnseen, Without
  <2>9. DroppedUnseen'
    BY <1>f, <2>f DEF StoreInv, DroppedUnseen
  <2>10. FileAlive'
    <3>1. CASE file' = file
      BY <1>a, <2>f, <3>1 DEF StoreInv, FileAlive, ReadAlive, Alive
    <3>2. CASE \A x \in Keys : file'[x].of = snap[t][x].of
      BY <1>a, <2>f, <2>g, <3>2 DEF StoreInv, FileAlive, ReadAlive, Alive
    <3> QED
      BY <2>f, <3>1, <3>2
  <2>11. ReadAlive'
    BY <1>a, <1>b, <2>f DEF StoreInv, TypeInv, ReadAlive, Reading, Alive
  <2>12. CarriedAlive'
    <3>1. KeyOf[t] \notin blamed => Alive(KeyOf[t], mem'[t])
      BY <1>a, <2>e, <2>g DEF StoreInv, ReadAlive, Alive
    <3> QED
      BY <1>a, <2>d, <2>f, <3>1 DEF StoreInv, TypeInv, CarriedAlive, Carrying,
         Alive, Ops
  <2>13. CountedOnce'
    <3>1. CASE file' = file
      BY <1>a, <2>f, <3>1 DEF StoreInv, CountedOnce
    <3>2. CASE \A x \in Keys : file'[x].of = snap[t][x].of
      BY <1>a, <2>f, <2>g, <3>2 DEF StoreInv, CountedOnce
    <3> QED
      BY <2>f, <3>1, <3>2
  <2>14. ReadBelow'
    BY <1>a, <1>b, <2>f DEF StoreInv, TypeInv, ReadBelow, Reading, Below
  <2>15. CarriedBelow'
    <3>1. ~raced /\ KeyOf[t] \notin blamed => Below(KeyOf[t], mem'[t])
      BY <1>a, <2>e, <2>g DEF StoreInv, ReadBelow, Below
    <3> QED
      BY <1>a, <2>d, <2>f, <3>1 DEF StoreInv, TypeInv, CarriedBelow, Carrying,
         Below, Ops
  <2> QED
    BY <2>1, <2>2, <2>3, <2>4, <2>5, <2>6, <2>7, <2>8, <2>9, <2>10, <2>11, <2>12,
       <2>13, <2>14, <2>15 DEF StoreInv
<1> QED
  BY <1>g, <1>h DEF Resolved

\* A turn reads the file to compare the target.
LEMMA SyncKeeps ==
  ASSUME StoreAssumption, StoreInv, NEW t \in Turns, Sync(t)
  PROVE  StoreInv'
<1>1. /\ t \in Ops /\ pc[t] = "resolved" /\ Load(t)
      /\ pc' = [pc EXCEPT ![t] = "syncing"]
      /\ UNCHANGED <<file, mem, history>>
  BY DEF StoreAssumption, Ops, Sync, At
<1>2. /\ mutex' \in Ops \cup {NoOp} /\ session' \in [Keys -> Ops \cup {NoOp}]
      /\ retried' \subseteq Turns
  BY <1>1 DEF StoreInv, TypeInv, Sync
<1> QED
  BY <1>1, <1>2, ReadKeeps DEF Reading, Unanswered, Carrying

\* A turn has written the target, if it differed.
LEMMA SyncedKeeps ==
  ASSUME StoreAssumption, StoreInv, NEW t \in Turns, Synced(t)
  PROVE  StoreInv'
<1> DEFINE k == KeyOf[t]
           q == mem[t].target
<1>a. /\ t \in Ops /\ t \in Turns /\ pc[t] = "syncing" /\ k \in Keys /\ q \in Providers
      /\ pc' = [pc EXCEPT ![t] = "running"] /\ mutex' = NoOp
      /\ UNCHANGED <<session, mem, retried, forgotten, blamed, counted>>
      /\ Unload(t)
  BY DEF StoreAssumption, StoreInv, CarriedHasTarget, Carrying, Reading, Ops, Synced, At, Kept
<1>b. /\ snap' \in [Ops -> Files]
      /\ \A x \in Keys : snap'[t][x] = Absent
      /\ \A u \in Ops \ {t} : snap'[u] = snap[u]
  BY <1>a, Unloaded DEF StoreInv, Synced
<1>c. \/ file' = file /\ raced' = raced
      \/ \A x \in Keys : file'[x].of = snap[t][x].of
  BY <1>a, Retargeted DEF StoreInv, Synced
<1>d. file' \in Files /\ raced' \in BOOLEAN
  BY <1>a, Retargeted DEF StoreInv, TypeInv, Synced
<1>e. ~raced' => ~raced /\ (file' = file \/ snap[t] = file)
  BY <1>a, Retargeted DEF StoreInv, Synced
<1>f. \A u \in Turns : pc'[u] \in Unanswered => pc[u] \in Unanswered
  BY <1>a DEF StoreInv, TypeInv, Unanswered, Ops
<1> HIDE DEF k, q
<1>1. TypeInv'
  BY <1>a, <1>b, <1>d DEF StoreInv, TypeInv, Phases
<1>2. CarriedHasTarget'
  BY <1>a, <1>e DEF StoreAssumption, StoreInv, TypeInv, CarriedHasTarget, Carrying,
     Ops
<1>3. FileApart'
  BY <1>a, <1>c, RetargetedApart
<1>4. ReadApart'
  BY <1>a, UnloadedApart
<1>5. CarriedApart'
  BY <1>a DEF StoreInv, CarriedApart
<1>6. FileUnseen'
  <2>1. CASE file' = file
    BY <1>a, <1>f, <2>1 DEF StoreInv, FileUnseen, ReadUnseen, Without
  <2>2. CASE \A x \in Keys : file'[x].of = snap[t][x].of
    BY <1>a, <1>f, <2>2 DEF StoreInv, FileUnseen, ReadUnseen, Without
  <2> QED
    BY <1>c, <2>1, <2>2
<1>7. ReadUnseen'
  BY <1>a, <1>f, UnloadedUnseen
<1>8. CarriedUnseen'
  BY <1>a, <1>f DEF StoreInv, CarriedUnseen
<1>9. DroppedUnseen'
  BY <1>a, <1>f DEF StoreInv, DroppedUnseen
<1>10. FileAlive'
  <2>1. CASE file' = file
    BY <1>a, <2>1 DEF StoreInv, FileAlive, ReadAlive, Reading, Alive
  <2>2. CASE \A x \in Keys : file'[x].of = snap[t][x].of
    BY <1>a, <2>2 DEF StoreInv, FileAlive, ReadAlive, Reading, Alive
  <2> QED
    BY <1>c, <2>1, <2>2
<1>11. ReadAlive'
  BY <1>a, <1>b, <1>e DEF StoreAssumption, StoreInv, TypeInv, ReadAlive, FileAlive,
     Alive, Reading, Ops
<1>12. CarriedAlive'
  BY <1>a, <1>e DEF StoreAssumption, StoreInv, TypeInv, CarriedAlive, FileAlive,
     ReadAlive, DroppedUnseen, Alive, Carrying, Reading, Unanswered, Without, Ops
<1>13. CountedOnce'
  BY <1>a, <1>e, <1>c DEF StoreAssumption, StoreInv, TypeInv, CountedOnce,
     CarriedBelow, ReadBelow, Below, Carrying, Reading, Ops
<1>14. ReadBelow'
  BY <1>a, <1>b, <1>e DEF StoreAssumption, StoreInv, TypeInv, ReadBelow,
     CountedOnce, Below, Reading, Ops
<1>15. CarriedBelow'
  BY <1>a, <1>e DEF StoreAssumption, StoreInv, TypeInv, CarriedBelow, CountedOnce,
     ReadBelow, Below, Carrying, Reading, Ops
<1> QED
  BY <1>1, <1>2, <1>3, <1>4, <1>5, <1>6, <1>7, <1>8, <1>9, <1>10, <1>11, <1>12,
     <1>13, <1>14, <1>15 DEF StoreInv

\* A turn is answered: its copy holds a conversation.
LEMMA AnsweredKeeps ==
  ASSUME StoreAssumption, StoreInv, NEW t \in Turns, Answered(t)
  PROVE  StoreInv'
<1>a. /\ t \in Ops /\ pc[t] = "running" /\ mem[t].target \in Providers
      /\ pc' = [pc EXCEPT ![t] = "ended"]
      /\ UNCHANGED <<file, mutex, session, snap, retried, history>>
  BY DEF StoreInv, CarriedHasTarget, Carrying, Ops, Answered, At
<1>b. mem' \in [Ops -> Entry] /\ Continued(t)
  BY <1>a, ContinuedBy DEF StoreInv, Answered
<1>1. TypeInv'
  BY <1>a, <1>b DEF StoreInv, TypeInv, Phases, history
<1>2. CarriedHasTarget'
  BY <1>a, <1>b DEF StoreAssumption, StoreInv, TypeInv, CarriedHasTarget, Carrying,
     Ops, Continued, history
<1>3. FileApart'
  BY <1>a DEF StoreInv, FileApart
<1>4. ReadApart'
  BY <1>a DEF StoreInv, ReadApart
<1>5. CarriedApart'
  <2>1. \A o \in Ops \ {t} : mem'[o] = mem[o]
    BY <1>b DEF Continued
  <2>2. Apart(KeyOf[t], mem[t])'
    BY <1>a, <1>b DEF StoreInv, CarriedApart, Apart, Continued
  <2> QED
    BY <1>a, <2>1, <2>2 DEF StoreInv, CarriedApart, Apart
<1>6. FileUnseen'
  BY <1>a DEF StoreAssumption, StoreInv, TypeInv, FileUnseen, ReadUnseen,
     CarriedUnseen, Unanswered, Without, Ops, Continued, history
<1>7. ReadUnseen'
  BY <1>a DEF StoreAssumption, StoreInv, TypeInv, ReadUnseen, FileUnseen,
     Unanswered, Without, Ops, Continued, history
<1>8. CarriedUnseen'
  <2>1. \A u \in Turns : pc'[u] \in Unanswered => u # t /\ pc[u] \in Unanswered
    BY <1>a DEF StoreInv, TypeInv, Unanswered, Ops
  <2>2. \A o \in Ops \ {t} : mem'[o] = mem[o]
    BY <1>b DEF Continued
  <2>3. \A u \in Turns \ {t} : Without(u, mem[t]) => Without(u, mem'[t])
    BY <1>b DEF Continued, Without
  <2> QED
    BY <1>a, <2>1, <2>2, <2>3 DEF StoreInv, CarriedUnseen
<1>9. DroppedUnseen'
  BY <1>a DEF StoreAssumption, StoreInv, TypeInv, DroppedUnseen, FileUnseen,
     ReadUnseen, Unanswered, Without, Ops, Continued, history
<1>10. FileAlive'
  BY <1>a DEF StoreAssumption, StoreInv, TypeInv, FileAlive, ReadAlive,
     CarriedAlive, FileApart, ReadApart, CarriedApart, Alive, Reading, Carrying,
     Apart, Ops, Continued, history
<1>11. ReadAlive'
  BY <1>a DEF StoreAssumption, StoreInv, TypeInv, ReadAlive, FileAlive, Alive,
     Reading, Ops, Continued, history
<1>12. CarriedAlive'
  <2>1. \A o \in Ops \ {t} : mem'[o] = mem[o]
    BY <1>b DEF Continued
  <2>2. KeyOf[t] \notin blamed => Alive(KeyOf[t], mem[t])'
    BY <1>a, <1>b DEF StoreInv, CarriedAlive, DroppedUnseen, Carrying, Unanswered,
       Alive, history, Continued
  <2> QED
    BY <1>a, <2>1, <2>2 DEF StoreInv, TypeInv, CarriedAlive, Carrying, Alive,
       history, Ops
<1>13. CountedOnce'
  BY <1>a DEF StoreAssumption, StoreInv, TypeInv, CountedOnce, CarriedBelow,
     ReadBelow, Below, Carrying, Reading, Ops, Continued, history
<1>14. ReadBelow'
  BY <1>a DEF StoreAssumption, StoreInv, TypeInv, ReadBelow, CountedOnce, Below,
     Reading, Ops, Continued, history
<1>15. CarriedBelow'
  <2>1. \A o \in Ops \ {t} : mem'[o] = mem[o]
    BY <1>b DEF Continued
  <2>2. ~raced /\ KeyOf[t] \notin blamed => Below(KeyOf[t], mem[t])'
    BY <1>a, <1>b DEF StoreInv, CarriedBelow, Carrying, Below, history, Continued
  <2> QED
    BY <1>a, <2>1, <2>2 DEF StoreInv, TypeInv, CarriedBelow, Carrying, Below,
       history, Ops
<1> QED
  BY <1>1, <1>2, <1>3, <1>4, <1>5, <1>6, <1>7, <1>8, <1>9, <1>10, <1>11, <1>12,
     <1>13, <1>14, <1>15 DEF StoreInv

\* A turn is stopped or fails.
LEMMA InterruptedKeeps ==
  ASSUME StoreAssumption, StoreInv, NEW t \in Turns, Interrupted(t)
  PROVE  StoreInv'
<1>a. /\ t \in Ops /\ pc[t] = "running" /\ mem[t].target \in Providers
      /\ pc' = [pc EXCEPT ![t] = "stopped"]
      /\ UNCHANGED <<file, mutex, session, snap, retried, history>>
  BY DEF StoreInv, CarriedHasTarget, Carrying, Ops, Interrupted, At
<1>b. mem' \in [Ops -> Entry] /\ (Continued(t) \/ mem' = mem)
  BY <1>a, ContinuedBy DEF StoreInv, TypeInv, Interrupted
<1>1. TypeInv'
  BY <1>a, <1>b DEF StoreInv, TypeInv, Phases, history
<1>2. CarriedHasTarget'
  BY <1>a, <1>b DEF StoreAssumption, StoreInv, TypeInv, CarriedHasTarget, Carrying,
     Ops, Continued, history
<1>3. FileApart'
  BY <1>a DEF StoreInv, FileApart
<1>4. ReadApart'
  BY <1>a DEF StoreInv, ReadApart
<1>5. CarriedApart'
  <2>1. \A o \in Ops \ {t} : mem'[o] = mem[o]
    BY <1>b DEF Continued
  <2>2. Apart(KeyOf[t], mem[t])
    BY <1>a DEF StoreInv, CarriedApart
  <2>3. Continued(t) => Apart(KeyOf[t], mem[t])'
    BY <1>a, <2>2 DEF Apart, Continued
  <2>4. mem' = mem => Apart(KeyOf[t], mem[t])'
    BY <2>2 DEF Apart
  <2>5. Apart(KeyOf[t], mem[t])'
    BY <1>b, <2>3, <2>4
  <2> QED
    BY <1>a, <2>1, <2>5 DEF StoreInv, CarriedApart, Apart
<1>6. FileUnseen'
  BY <1>a DEF StoreAssumption, StoreInv, TypeInv, FileUnseen, ReadUnseen,
     CarriedUnseen, Unanswered, Without, Ops, Continued, history
<1>7. ReadUnseen'
  BY <1>a DEF StoreAssumption, StoreInv, TypeInv, ReadUnseen, FileUnseen,
     Unanswered, Without, Ops, Continued, history
<1>8. CarriedUnseen'
  <2>1. \A u \in Turns : pc'[u] \in Unanswered => u # t /\ pc[u] \in Unanswered
    BY <1>a DEF StoreInv, TypeInv, Unanswered, Ops
  <2>2. \A o \in Ops \ {t} : mem'[o] = mem[o]
    BY <1>b DEF Continued
  <2>3. \A u \in Turns \ {t} : Without(u, mem[t]) => Without(u, mem'[t])
    BY <1>b DEF Continued, Without
  <2> QED
    BY <1>a, <2>1, <2>2, <2>3 DEF StoreInv, CarriedUnseen
<1>9. DroppedUnseen'
  BY <1>a DEF StoreAssumption, StoreInv, TypeInv, DroppedUnseen, FileUnseen,
     ReadUnseen, Unanswered, Without, Ops, Continued, history
<1>10. FileAlive'
  BY <1>a DEF StoreAssumption, StoreInv, TypeInv, FileAlive, ReadAlive,
     CarriedAlive, FileApart, ReadApart, CarriedApart, Alive, Reading, Carrying,
     Apart, Ops, Continued, history
<1>11. ReadAlive'
  BY <1>a DEF StoreAssumption, StoreInv, TypeInv, ReadAlive, FileAlive, Alive,
     Reading, Ops, Continued, history
<1>12. CarriedAlive'
  <2>1. \A o \in Ops \ {t} : mem'[o] = mem[o]
    BY <1>b DEF Continued
  <2>2. KeyOf[t] \notin blamed => Alive(KeyOf[t], mem[t])'
    BY <1>a, <1>b DEF StoreInv, CarriedAlive, DroppedUnseen, Carrying, Unanswered,
       Alive, history, Continued
  <2> QED
    BY <1>a, <2>1, <2>2 DEF StoreInv, TypeInv, CarriedAlive, Carrying, Alive,
       history, Ops
<1>13. CountedOnce'
  BY <1>a DEF StoreAssumption, StoreInv, TypeInv, CountedOnce, CarriedBelow,
     ReadBelow, Below, Carrying, Reading, Ops, Continued, history
<1>14. ReadBelow'
  BY <1>a DEF StoreAssumption, StoreInv, TypeInv, ReadBelow, CountedOnce, Below,
     Reading, Ops, Continued, history
<1>15. CarriedBelow'
  <2>1. \A o \in Ops \ {t} : mem'[o] = mem[o]
    BY <1>b DEF Continued
  <2>2. ~raced /\ KeyOf[t] \notin blamed => Below(KeyOf[t], mem[t])'
    BY <1>a, <1>b DEF StoreInv, CarriedBelow, Carrying, Below, history, Continued
  <2> QED
    BY <1>a, <2>1, <2>2 DEF StoreInv, TypeInv, CarriedBelow, Carrying, Below,
       history, Ops
<1> QED
  BY <1>1, <1>2, <1>3, <1>4, <1>5, <1>6, <1>7, <1>8, <1>9, <1>10, <1>11, <1>12,
     <1>13, <1>14, <1>15 DEF StoreInv

\* A turn reads the file to merge its copy into it.
LEMMA StoreKeeps ==
  ASSUME StoreAssumption, StoreInv, NEW t \in Turns, Store(t)
  PROVE  StoreInv'
<1>1. /\ t \in Ops /\ pc[t] \in {"ended", "stopped"} /\ Load(t)
      /\ pc' = [pc EXCEPT ![t] = IF pc[t] = "ended" THEN "storing" ELSE "preserving"]
      /\ UNCHANGED <<file, mem, history>>
  BY DEF StoreAssumption, Ops, Store, At
<1>2. /\ mutex' \in Ops \cup {NoOp} /\ session' \in [Keys -> Ops \cup {NoOp}]
      /\ retried' \subseteq Turns
  BY <1>1 DEF StoreInv, TypeInv, Store
<1> QED
  BY <1>1, <1>2, ReadKeeps DEF Reading, Unanswered, Carrying

\* A turn has merged its copy into the file.
LEMMA StoredKeeps ==
  ASSUME StoreAssumption, StoreInv, NEW t \in Turns, Stored(t)
  PROVE  StoreInv'
<1> DEFINE k == KeyOf[t]
           p == mem[t].target
           a == snap[t][k]
           b == mem[t]
           m == Merged(a, b)
           merged == [target |-> p, of |-> m]
           e == IF pc[t] = "storing" THEN [merged EXCEPT !.of[p].count = @ + 1] ELSE merged
           One(q) == IF pc[t] = "storing" /\ q = p THEN 1 ELSE 0
           Larger(q) == IF b.of[q].count > a.of[q].count THEN b.of[q].count ELSE a.of[q].count
<1>a. /\ t \in Ops /\ pc[t] \in {"storing", "preserving"} /\ k \in Keys
      /\ p \in Providers /\ a \in Entry /\ b \in Entry
  BY DEF StoreAssumption, StoreInv, TypeInv, CarriedHasTarget, Carrying, Files, Ops, Stored
<1>b. /\ Save(t, e) /\ Unload(t) /\ Leave(t)
      /\ counted' = IF pc[t] = "storing" THEN [counted EXCEPT ![k][p] = @ + 1] ELSE counted
      /\ mutex' = NoOp /\ session' = [session EXCEPT ![k] = NoOp]
      /\ pc' = [pc EXCEPT ![t] = "done"]
      /\ UNCHANGED <<retried, forgotten, blamed>>
  BY DEF Stored, At
<1>c. /\ m \in [Providers -> Bucket]
      /\ \A q \in Providers : m[q].id \in {a.of[q].id, b.of[q].id} /\ m[q].count = Larger(q)
  BY <1>a, MergedIs
<1> HIDE DEF m, a, b, p
<1>d. /\ e \in Entry
      /\ \A q \in Providers : /\ e.of[q].id \in {a.of[q].id, b.of[q].id}
                              /\ e.of[q].count = Larger(q) + One(q)
  <2> DEFINE f == [m EXCEPT ![p] = [m[p] EXCEPT !.count = @ + 1]]
  <2>1. \A q \in Providers : m[q] \in Bucket /\ m[q].count \in Nat
    BY <1>c DEF Bucket
  <2>2. CASE pc[t] = "storing"
    <3>1. e = [target |-> p, of |-> f]
      BY <2>2
    <3>2. /\ [m[p] EXCEPT !.count = @ + 1] \in Bucket
          /\ [m[p] EXCEPT !.count = @ + 1].id = m[p].id
          /\ [m[p] EXCEPT !.count = @ + 1].count = m[p].count + 1
      BY <1>a, <2>1 DEF Bucket
    <3>3. /\ f \in [Providers -> Bucket]
          /\ f[p].id = m[p].id /\ f[p].count = m[p].count + 1
          /\ \A q \in Providers \ {p} : f[q] = m[q]
      BY <1>a, <1>c, <3>2
    <3> HIDE DEF f, e
    <3>4. e \in Entry /\ e.of = f
      BY <1>a, <3>1, <3>3 DEF Entry
    <3>5. \A q \in Providers : f[q].id = m[q].id /\ f[q].count = m[q].count + One(q)
      BY <2>1, <2>2, <3>3
    <3> QED
      BY <1>c, <3>4, <3>5
  <2>3. CASE pc[t] # "storing"
    <3>1. e = merged
      BY <2>3
    <3> HIDE DEF e
    <3>2. e \in Entry /\ e.of = m
      BY <1>a, <1>c, <3>1 DEF Entry
    <3>3. \A q \in Providers : One(q) = 0
      BY <2>3
    <3> QED
      BY <1>c, <2>1, <3>2, <3>3
  <2> QED
    BY <2>2, <2>3
<1> HIDE DEF e
<1>e. /\ file' \in Files /\ file'[k] = e
      /\ \A x \in Keys \ {k} : file'[x] = snap[t][x]
      /\ raced' \in BOOLEAN
      /\ ~raced' => ~raced /\ snap[t] = file
  BY <1>a, <1>b, <1>d, Saved DEF StoreInv
<1>g. /\ snap' \in [Ops -> Files]
      /\ \A x \in Keys : snap'[t][x] = Absent
      /\ \A u \in Ops \ {t} : snap'[u] = snap[u]
  BY <1>a, <1>b, Unloaded DEF StoreInv
<1>h. mem' \in [Ops -> Entry] /\ mem'[t] = Absent /\ \A u \in Ops \ {t} : mem'[u] = mem[u]
  BY <1>a, <1>b, Left DEF StoreInv
<1>i. /\ counted \in [Keys -> [Providers -> Nat]]
      /\ counted' \in [Keys -> [Providers -> Nat]]
      /\ \A x \in Keys \ {k} : counted'[x] = counted[x]
      /\ \A q \in Providers : counted'[k][q] = counted[k][q] + One(q)
  <2>1. counted \in [Keys -> [Providers -> Nat]] /\ counted[k] \in [Providers -> Nat]
    BY <1>a DEF StoreInv, TypeInv
  <2>2. CASE pc[t] = "storing"
    BY <1>a, <1>b, <2>1, <2>2
  <2>3. CASE pc[t] # "storing"
    BY <1>b, <2>1, <2>3
  <2> QED
    BY <2>2, <2>3
<1>j. /\ \A u \in Ops \ {t} : pc'[u] = pc[u]
      /\ pc'[t] = "done" /\ pc' \in [Ops -> Phases]
      /\ \A u \in Turns : pc'[u] \in Unanswered => u # t /\ pc[u] \in Unanswered
  BY <1>a, <1>b DEF StoreInv, TypeInv, Phases, Unanswered, Ops
<1>k. k = KeyOf[t] /\ a = snap[t][k] /\ b = mem[t] /\ pc[t] \in Reading /\ pc[t] \in Carrying
  BY <1>a DEF a, b, Reading, Carrying
<1> HIDE DEF k
<1>1. TypeInv'
  BY <1>a, <1>b, <1>e, <1>g, <1>h, <1>i, <1>j DEF StoreInv, TypeInv
<1>2. CarriedHasTarget'
  BY <1>h, <1>j DEF StoreInv, CarriedHasTarget, Carrying, Ops
<1>3. FileApart'
  <2>1. Apart(k, a) /\ Apart(k, b)
    BY <1>a, <1>k DEF StoreInv, ReadApart, CarriedApart
  <2>2. Apart(k, file'[k])
    BY <1>d, <1>e, <2>1 DEF Apart
  <2>3. \A x \in Keys \ {k} : Apart(x, file'[x])
    BY <1>a, <1>e DEF StoreInv, ReadApart
  <2> QED
    BY <2>2, <2>3 DEF FileApart
<1>4. ReadApart'
  BY <1>a, <1>b, UnloadedApart
<1>5. CarriedApart'
  <2>1. Apart(KeyOf[t], mem'[t])
    BY <1>h, AbsentIsFresh DEF Apart
  <2> QED
    BY <1>h, <2>1 DEF StoreInv, CarriedApart
<1>6. FileUnseen'
  <2> SUFFICES ASSUME NEW s \in Turns, pc'[s] \in Unanswered, NEW x \in Keys
               PROVE  Without(s, file'[x])
    BY DEF FileUnseen, Without
  <2>1. Without(s, snap[t][x]) /\ Without(s, b)
    BY <1>a, <1>j, <1>k DEF StoreInv, ReadUnseen, CarriedUnseen
  <2>2. CASE x = k
    BY <1>d, <1>e, <1>k, <2>1, <2>2 DEF Without
  <2> QED
    BY <1>e, <2>1, <2>2
<1>7. ReadUnseen'
  BY <1>a, <1>b, <1>j, UnloadedUnseen
<1>8. CarriedUnseen'
  <2>1. \A s \in Turns : Without(s, mem'[t])
    BY <1>h, AbsentIsFresh, NoConversationIsNone DEF Without
  <2> QED
    BY <1>h, <1>j, <2>1 DEF StoreInv, CarriedUnseen
<1>9. DroppedUnseen'
  BY <1>b, <1>j DEF StoreInv, DroppedUnseen
<1>10. FileAlive'
  <2> SUFFICES ASSUME NEW x \in Keys \ blamed, NEW q \in Providers
               PROVE  <<x, file'[x].of[q].id>> \notin forgotten
    BY <1>b DEF FileAlive, Alive
  <2>1. <<x, snap[t][x].of[q].id>> \notin forgotten
    BY <1>a, <1>k DEF StoreInv, ReadAlive, Alive
  <2>2. CASE x = k
    <3>1. <<k, b.of[q].id>> \notin forgotten
      BY <1>k, <2>2 DEF StoreInv, CarriedAlive, Alive
    <3> QED
      BY <1>d, <1>e, <1>k, <2>1, <2>2, <3>1
  <2> QED
    BY <1>e, <2>1, <2>2
<1>11. ReadAlive'
  <2>1. \A u \in Ops : pc'[u] \in Reading => u # t /\ pc[u] \in Reading
    BY <1>j DEF Reading
  <2> QED
    BY <1>b, <1>g, <2>1 DEF StoreInv, ReadAlive, Alive
<1>12. CarriedAlive'
  <2>1. \A u \in Turns : pc'[u] \in Carrying => u \in Ops \ {t} /\ pc[u] \in Carrying
    BY <1>j DEF Carrying, Ops
  <2> QED
    BY <1>b, <1>h, <2>1 DEF StoreInv, CarriedAlive, Alive
<1>13. CountedOnce'
  <2> SUFFICES ASSUME ~raced', NEW x \in Keys \ blamed, NEW q \in Providers
               PROVE  file'[x].of[q].count = counted'[x][q]
    BY <1>b DEF CountedOnce
  <2>1. snap[t][x].of[q].count = counted[x][q] /\ counted[x][q] \in Nat
    BY <1>e, <1>i DEF StoreInv, CountedOnce
  <2>2. CASE x = k
    <3>1. b.of[q].count <= counted[k][q]
      BY <1>e, <1>k, <2>2 DEF StoreInv, CarriedBelow, Below
    <3>2. b.of[q].count \in Nat
      BY <1>a DEF Entry, Bucket
    <3>3. Larger(q) = counted[k][q]
      BY <1>k, <2>1, <2>2, <3>1, <3>2
    <3> HIDE DEF Larger, One
    <3> QED
      BY <1>d, <1>e, <1>i, <2>2, <3>3
  <2> QED
    BY <1>e, <1>i, <2>1, <2>2
<1>14. ReadBelow'
  <2>1. \A x \in Keys, q \in Providers :
          counted[x][q] \in Nat /\ counted'[x][q] \in Nat /\ counted[x][q] <= counted'[x][q]
    <3> SUFFICES ASSUME NEW x \in Keys, NEW q \in Providers
                 PROVE  /\ counted[x][q] \in Nat /\ counted'[x][q] \in Nat
                        /\ counted[x][q] <= counted'[x][q]
      OBVIOUS
    <3>1. counted[x][q] \in Nat /\ counted'[x][q] \in Nat
      BY <1>i
    <3>2. CASE x = k
      BY <1>i, <3>1, <3>2
    <3> QED
      BY <1>i, <3>1, <3>2
  <2> SUFFICES ASSUME ~raced', NEW x \in Keys \ blamed, NEW u \in Ops, pc'[u] \in Reading,
                      NEW q \in Providers
               PROVE  snap'[u][x].of[q].count <= counted'[x][q]
    BY <1>b DEF ReadBelow, Below
  <2>2. u # t /\ pc[u] \in Reading
    BY <1>j DEF Reading
  <2>3. snap[u][x].of[q].count <= counted[x][q]
    BY <1>e, <2>2 DEF StoreInv, ReadBelow, Below
  <2>4. snap[u][x].of[q].count \in Nat
    BY DEF StoreInv, TypeInv, Files, Entry, Bucket
  <2> QED
    BY <1>g, <2>1, <2>2, <2>3, <2>4
<1>15. CarriedBelow'
  <2>1. \A x \in Keys, q \in Providers :
          counted[x][q] \in Nat /\ counted'[x][q] \in Nat /\ counted[x][q] <= counted'[x][q]
    <3> SUFFICES ASSUME NEW x \in Keys, NEW q \in Providers
                 PROVE  /\ counted[x][q] \in Nat /\ counted'[x][q] \in Nat
                        /\ counted[x][q] <= counted'[x][q]
      OBVIOUS
    <3>1. counted[x][q] \in Nat /\ counted'[x][q] \in Nat
      BY <1>i
    <3>2. CASE x = k
      BY <1>i, <3>1, <3>2
    <3> QED
      BY <1>i, <3>1, <3>2
  <2> SUFFICES ASSUME ~raced', NEW u \in Turns, pc'[u] \in Carrying, KeyOf[u] \notin blamed,
                      NEW q \in Providers
               PROVE  mem'[u].of[q].count <= counted'[KeyOf[u]][q]
    BY <1>b DEF CarriedBelow, Below
  <2>2. u \in Ops \ {t} /\ pc[u] \in Carrying /\ KeyOf[u] \in Keys
    BY <1>j DEF Carrying, Ops, StoreAssumption
  <2>3. mem[u].of[q].count <= counted[KeyOf[u]][q]
    BY <1>e, <2>2 DEF StoreInv, CarriedBelow, Below
  <2>4. mem[u].of[q].count \in Nat
    BY <2>2 DEF StoreInv, TypeInv, Entry, Bucket
  <2> QED
    BY <1>h, <2>1, <2>2, <2>3, <2>4
<1> QED
  BY <1>1, <1>2, <1>3, <1>4, <1>5, <1>6, <1>7, <1>8, <1>9, <1>10, <1>11, <1>12,
     <1>13, <1>14, <1>15 DEF StoreInv

\* A turn reads the file to reset its session.
LEMMA RecoverKeeps ==
  ASSUME StoreAssumption, StoreInv, NEW t \in Turns, Recover(t)
  PROVE  StoreInv'
<1>1. /\ t \in Ops /\ pc[t] = "running" /\ Load(t)
      /\ pc' = [pc EXCEPT ![t] = "clearing"]
      /\ UNCHANGED <<file, mem, history>>
  BY DEF StoreAssumption, Ops, Recover, At
<1>2. /\ mutex' \in Ops \cup {NoOp} /\ session' \in [Keys -> Ops \cup {NoOp}]
      /\ retried' \subseteq Turns
  BY <1>1 DEF StoreInv, TypeInv, Recover
<1> QED
  BY <1>1, <1>2, ReadKeeps DEF Reading, Unanswered, Carrying

\* A reset, or the retry of a turn, drops one bucket.
LEMMA ClearedKeeps ==
  ASSUME StoreAssumption, StoreInv, NEW o \in Ops, Cleared(o)
  PROVE  StoreInv'
<1> DEFINE k == KeyOf[o]
           p == Target(o)
           f == [snap[o][k].of EXCEPT ![p] = NoBucket]
           e == [snap[o][k] EXCEPT !.target = p, !.of[p] = NoBucket]
           phase == IF o \in Turns THEN "recovering" ELSE "done"
<1>1. p \in Providers /\ k \in Keys /\ snap[o][k] \in Entry
  BY DEF StoreAssumption, StoreInv, TypeInv, Files, Entry, Target
<1>2. NoBucket \in Bucket /\ NoBucket.id = NoConversation /\ NoBucket.count = 0
  BY DEF NoBucket, Bucket
<1>3. e = [snap[o][k] EXCEPT !.target = p, !.of = f]
  OBVIOUS
<1>4. /\ f \in [Providers -> Bucket] /\ f[p] = NoBucket
      /\ \A q \in Providers \ {p} : f[q] = snap[o][k].of[q]
  BY <1>1, <1>2 DEF Entry
<1>5. Save(o, e) /\ Drop(o, {p}) /\ Unload(o) /\ Leave(o)
  BY DEF Cleared
<1>6. /\ pc[o] = "clearing" /\ pc' = [pc EXCEPT ![o] = phase]
      /\ UNCHANGED <<mutex, retried>>
      /\ session' = IF o \in Queued THEN [session EXCEPT ![k] = NoOp] ELSE session
  BY DEF Cleared, At
<1> HIDE DEF f, e, p
<1>7. /\ e \in Entry
      /\ \A q \in {p} : e.of[q].id = NoConversation /\ e.of[q].count = 0
      /\ \A q \in Providers \ {p} : e.of[q] = snap[o][k].of[q]
  BY <1>1, <1>2, <1>3, <1>4 DEF Entry
<1>8. /\ mem' \in [Ops -> Entry]
      /\ \A q \in Providers : mem'[o].of[q].id = NoConversation /\ mem'[o].of[q].count = 0
      /\ \A u \in Ops \ {o} : mem'[u] = mem[u]
  BY <1>5, Left, AbsentIsFresh DEF StoreInv
<1>9. session' \in [Keys -> Ops \cup {NoOp}]
  BY <1>6 DEF StoreInv, TypeInv
<1>10. phase \in {"resolved", "recovering", "done"} /\ phase # "resolved"
  OBVIOUS
<1> HIDE DEF phase
<1>11. {p} \in SUBSET Providers
  BY <1>1
<1> QED
  BY <1>5, <1>6, <1>7, <1>8, <1>9, <1>10, <1>11, DropKeeps

\* A reset looks at its session.
LEMMA LookKeeps ==
  ASSUME StoreAssumption, StoreInv, NEW r \in Resets, Look(r)
  PROVE  StoreInv'
<1>a. /\ r \in Ops /\ r \notin Turns /\ pc[r] = "new" /\ KeyOf[r] \in Keys
      /\ pc' = [pc EXCEPT ![r] = "looked"]
      /\ UNCHANGED <<file, mutex, snap, retried, forgotten, blamed, counted, raced>>
  BY DEF StoreAssumption, Ops, Look, At, history
<1>b. session' \in [Keys -> Ops \cup {NoOp}]
  BY <1>a DEF StoreInv, TypeInv, Look
<1>c. mem' \in [Ops -> Entry] /\ mem'[r] = file[KeyOf[r]] /\ \A o \in Ops \ {r} : mem'[o] = mem[o]
  BY <1>a DEF StoreInv, TypeInv, Files, Look
<1>1. TypeInv'
  BY <1>a, <1>b, <1>c DEF StoreInv, TypeInv, Phases
<1>2. CarriedHasTarget'
  BY <1>a, <1>c DEF StoreInv, TypeInv, CarriedHasTarget, Carrying, Ops
<1>3. FileApart'
  BY <1>a DEF StoreInv, FileApart
<1>4. ReadApart'
  BY <1>a DEF StoreInv, ReadApart
<1>5. CarriedApart'
  <2>1. Apart(KeyOf[r], mem'[r])
    BY <1>a, <1>c DEF StoreInv, FileApart
  <2> QED
    BY <1>c, <2>1 DEF StoreInv, CarriedApart
<1>6. FileUnseen'
  BY <1>a, <1>c DEF StoreAssumption, StoreInv, TypeInv, FileUnseen, ReadUnseen,
     CarriedUnseen, Unanswered, Without, Ops
<1>7. ReadUnseen'
  BY <1>a, <1>c DEF StoreAssumption, StoreInv, TypeInv, ReadUnseen, FileUnseen,
     Unanswered, Without, Ops
<1>8. CarriedUnseen'
  <2>1. \A u \in Turns : pc'[u] \in Unanswered => pc[u] \in Unanswered
    BY <1>a DEF StoreInv, TypeInv, Ops, Unanswered
  <2>2. \A u \in Turns : pc[u] \in Unanswered => Without(u, mem'[r])
    BY <1>a, <1>c DEF StoreInv, FileUnseen
  <2> QED
    BY <1>c, <2>1, <2>2 DEF StoreInv, CarriedUnseen
<1>9. DroppedUnseen'
  BY <1>a, <1>c DEF StoreAssumption, StoreInv, TypeInv, DroppedUnseen, FileUnseen,
     ReadUnseen, Unanswered, Without, Ops
<1>10. FileAlive'
  BY <1>a, <1>c DEF StoreAssumption, StoreInv, TypeInv, FileAlive, ReadAlive,
     CarriedAlive, FileApart, ReadApart, CarriedApart, Alive, Reading, Carrying,
     Apart, Ops
<1>11. ReadAlive'
  BY <1>a, <1>c DEF StoreAssumption, StoreInv, TypeInv, ReadAlive, FileAlive, Alive,
     Reading, Ops
<1>12. CarriedAlive'
  BY <1>a, <1>c DEF StoreAssumption, StoreInv, TypeInv, CarriedAlive, FileAlive,
     ReadAlive, DroppedUnseen, Alive, Carrying, Reading, Unanswered, Without, Ops
<1>13. CountedOnce'
  BY <1>a, <1>c DEF StoreAssumption, StoreInv, TypeInv, CountedOnce, CarriedBelow,
     ReadBelow, Below, Carrying, Reading, Ops
<1>14. ReadBelow'
  BY <1>a, <1>c DEF StoreAssumption, StoreInv, TypeInv, ReadBelow, CountedOnce,
     Below, Reading, Ops
<1>15. CarriedBelow'
  BY <1>a, <1>c DEF StoreAssumption, StoreInv, TypeInv, CarriedBelow, CountedOnce,
     ReadBelow, Below, Carrying, Reading, Ops
<1> QED
  BY <1>1, <1>2, <1>3, <1>4, <1>5, <1>6, <1>7, <1>8, <1>9, <1>10, <1>11, <1>12,
     <1>13, <1>14, <1>15 DEF StoreInv

\* A reset reads the file.
LEMMA ResetReadKeeps ==
  ASSUME StoreAssumption, StoreInv, NEW r \in Resets, ResetRead(r)
  PROVE  StoreInv'
<1>1. /\ r \in Ops /\ r \notin Turns /\ Load(r)
      /\ pc' = [pc EXCEPT ![r] = "clearing"]
      /\ UNCHANGED <<file, mem, history>>
  BY DEF StoreAssumption, Ops, ResetRead, At
<1>2. /\ mutex' \in Ops \cup {NoOp} /\ session' \in [Keys -> Ops \cup {NoOp}]
      /\ retried' \subseteq Turns
  BY <1>1 DEF StoreInv, TypeInv, ResetRead
<1> QED
  BY <1>1, <1>2, ReadKeeps DEF Reading, Unanswered, Carrying

\* /model looks whether there is a session.
LEMMA SwitchLookKeeps ==
  ASSUME StoreAssumption, StoreInv, NEW m \in Switches, SwitchLook(m)
  PROVE  StoreInv'
<1>a. /\ m \in Ops /\ m \notin Turns
      /\ pc' \in [Ops -> Phases]
      /\ UNCHANGED <<file, mutex, session, snap, mem, retried, forgotten, blamed, counted, raced>>
  BY DEF StoreAssumption, StoreInv, TypeInv, Phases, Ops, SwitchLook, At, history
<1>b. /\ \A u \in Turns : pc'[u] = pc[u]
      /\ \A u \in Ops : pc'[u] \in Reading => pc[u] \in Reading
  BY DEF StoreAssumption, StoreInv, TypeInv, Ops, Reading, SwitchLook, At
<1>1. TypeInv'
  BY <1>a DEF StoreInv, TypeInv, Phases, Reading
<1>2. CarriedHasTarget'
  BY <1>a, <1>b DEF StoreInv, CarriedHasTarget, Ops
<1>3. FileApart'
  BY <1>a DEF StoreInv, FileApart, Apart
<1>4. ReadApart'
  BY <1>a DEF StoreInv, FileApart, ReadApart
<1>5. CarriedApart'
  BY <1>a DEF StoreInv, CarriedApart, Apart
<1>6. FileUnseen'
  BY <1>a, <1>b DEF StoreInv, FileUnseen, Without
<1>7. ReadUnseen'
  BY <1>a, <1>b DEF StoreInv, FileUnseen, ReadUnseen
<1>8. CarriedUnseen'
  BY <1>a, <1>b DEF StoreInv, CarriedUnseen, Without
<1>9. DroppedUnseen'
  BY <1>a, <1>b DEF StoreInv, DroppedUnseen
<1>10. FileAlive'
  BY <1>a DEF StoreInv, FileAlive, Alive
<1>11. ReadAlive'
  BY <1>a, <1>b DEF StoreInv, FileAlive, ReadAlive, Alive
<1>12. CarriedAlive'
  BY <1>a, <1>b DEF StoreInv, CarriedAlive, Alive, Ops
<1>13. CountedOnce'
  BY <1>a DEF StoreInv, CountedOnce
<1>14. ReadBelow'
  BY <1>a, <1>b DEF StoreInv, TypeInv, CountedOnce, ReadBelow, Below
<1>15. CarriedBelow'
  BY <1>a, <1>b DEF StoreInv, CarriedBelow, Below, Ops
<1> QED
  BY <1>1, <1>2, <1>3, <1>4, <1>5, <1>6, <1>7, <1>8, <1>9, <1>10, <1>11, <1>12,
     <1>13, <1>14, <1>15 DEF StoreInv

\* /model reads the file.
LEMMA SwitchReadKeeps ==
  ASSUME StoreAssumption, StoreInv, NEW m \in Switches, SwitchRead(m)
  PROVE  StoreInv'
<1>1. /\ m \in Ops /\ m \notin Turns /\ Load(m)
      /\ pc' = [pc EXCEPT ![m] = "loaded"]
      /\ UNCHANGED <<file, mem, history>>
  BY DEF StoreAssumption, Ops, SwitchRead, At
<1>2. /\ mutex' \in Ops \cup {NoOp} /\ session' \in [Keys -> Ops \cup {NoOp}]
      /\ retried' \subseteq Turns
  BY <1>1 DEF StoreInv, TypeInv, SwitchRead
<1> QED
  BY <1>1, <1>2, ReadKeeps DEF Reading, Unanswered, Carrying

\* /model has written the new target, if it differed.
LEMMA SwitchedKeeps ==
  ASSUME StoreAssumption, StoreInv, NEW m \in Switches, Switched(m)
  PROVE  StoreInv'
<1> DEFINE k == KeyOf[m]
           q == Chosen[m]
<1>a. /\ m \in Ops /\ m \notin Turns /\ pc[m] = "loaded" /\ k \in Keys /\ q \in Providers
      /\ pc' = [pc EXCEPT ![m] = "done"] /\ mutex' = NoOp
      /\ UNCHANGED <<session, mem, retried, forgotten, blamed, counted>>
      /\ Unload(m)
  BY DEF StoreAssumption, StoreInv, CarriedHasTarget, Carrying, Reading, Ops, Switched, At, Kept
<1>b. /\ snap' \in [Ops -> Files]
      /\ \A x \in Keys : snap'[m][x] = Absent
      /\ \A u \in Ops \ {m} : snap'[u] = snap[u]
  BY <1>a, Unloaded DEF StoreInv, Switched
<1>c. \/ file' = file /\ raced' = raced
      \/ \A x \in Keys : file'[x].of = snap[m][x].of
  BY <1>a, Retargeted DEF StoreInv, Switched
<1>d. file' \in Files /\ raced' \in BOOLEAN
  BY <1>a, Retargeted DEF StoreInv, TypeInv, Switched
<1>e. ~raced' => ~raced /\ (file' = file \/ snap[m] = file)
  BY <1>a, Retargeted DEF StoreInv, Switched
<1>f. \A u \in Turns : pc'[u] \in Unanswered => pc[u] \in Unanswered
  BY <1>a DEF StoreInv, TypeInv, Unanswered, Ops
<1> HIDE DEF k, q
<1>1. TypeInv'
  BY <1>a, <1>b, <1>d DEF StoreInv, TypeInv, Phases
<1>2. CarriedHasTarget'
  BY <1>a, <1>e DEF StoreAssumption, StoreInv, TypeInv, CarriedHasTarget, Carrying,
     Ops
<1>3. FileApart'
  BY <1>a, <1>c, RetargetedApart
<1>4. ReadApart'
  BY <1>a, UnloadedApart
<1>5. CarriedApart'
  BY <1>a DEF StoreInv, CarriedApart
<1>6. FileUnseen'
  <2>1. CASE file' = file
    BY <1>a, <1>f, <2>1 DEF StoreInv, FileUnseen, ReadUnseen, Without
  <2>2. CASE \A x \in Keys : file'[x].of = snap[m][x].of
    BY <1>a, <1>f, <2>2 DEF StoreInv, FileUnseen, ReadUnseen, Without
  <2> QED
    BY <1>c, <2>1, <2>2
<1>7. ReadUnseen'
  BY <1>a, <1>f, UnloadedUnseen
<1>8. CarriedUnseen'
  BY <1>a, <1>f DEF StoreInv, CarriedUnseen
<1>9. DroppedUnseen'
  BY <1>a, <1>f DEF StoreInv, DroppedUnseen
<1>10. FileAlive'
  <2>1. CASE file' = file
    BY <1>a, <2>1 DEF StoreInv, FileAlive, ReadAlive, Reading, Alive
  <2>2. CASE \A x \in Keys : file'[x].of = snap[m][x].of
    BY <1>a, <2>2 DEF StoreInv, FileAlive, ReadAlive, Reading, Alive
  <2> QED
    BY <1>c, <2>1, <2>2
<1>11. ReadAlive'
  BY <1>a, <1>b, <1>e DEF StoreAssumption, StoreInv, TypeInv, ReadAlive, FileAlive,
     Alive, Reading, Ops
<1>12. CarriedAlive'
  BY <1>a, <1>e DEF StoreAssumption, StoreInv, TypeInv, CarriedAlive, FileAlive,
     ReadAlive, DroppedUnseen, Alive, Carrying, Reading, Unanswered, Without, Ops
<1>13. CountedOnce'
  BY <1>a, <1>e, <1>c DEF StoreAssumption, StoreInv, TypeInv, CountedOnce,
     CarriedBelow, ReadBelow, Below, Carrying, Reading, Ops
<1>14. ReadBelow'
  BY <1>a, <1>b, <1>e DEF StoreAssumption, StoreInv, TypeInv, ReadBelow,
     CountedOnce, Below, Reading, Ops
<1>15. CarriedBelow'
  BY <1>a, <1>e DEF StoreAssumption, StoreInv, TypeInv, CarriedBelow, CountedOnce,
     ReadBelow, Below, Carrying, Reading, Ops
<1> QED
  BY <1>1, <1>2, <1>3, <1>4, <1>5, <1>6, <1>7, <1>8, <1>9, <1>10, <1>11, <1>12,
     <1>13, <1>14, <1>15 DEF StoreInv

\* The initial states satisfy the invariant.
LEMMA StoreInit ==
  ASSUME StoreAssumption, Init
  PROVE  StoreInv
<1>1. TypeInv
  BY AbsentIsFresh DEF StoreAssumption, Init, TypeInv, Files, Phases
<1>2. CarriedHasTarget
  BY DEF Init, CarriedHasTarget, Carrying, Ops
<1>3. FileApart /\ ReadApart /\ CarriedApart
  BY AbsentIsFresh DEF StoreAssumption, Init, FileApart, ReadApart, CarriedApart, Apart
<1>4. FileUnseen /\ ReadUnseen /\ CarriedUnseen /\ DroppedUnseen
  BY AbsentIsFresh, NoConversationIsNone
     DEF Init, FileUnseen, ReadUnseen, CarriedUnseen, DroppedUnseen, Without
<1>5. FileAlive /\ ReadAlive /\ CarriedAlive
  BY DEF Init, FileAlive, ReadAlive, CarriedAlive, Alive
<1>6. CountedOnce /\ ReadBelow /\ CarriedBelow
  BY AbsentIsFresh
     DEF Init, CountedOnce, ReadBelow, Reading, CarriedBelow, Carrying, Below, Ops
<1> QED
  BY <1>1, <1>2, <1>3, <1>4, <1>5, <1>6 DEF StoreInv

\* Every step keeps it.
LEMMA StoreStep ==
  ASSUME StoreAssumption, StoreInv, [Next]_vars
  PROVE  StoreInv'
<1>1. CASE UNCHANGED vars
  <2>1. TypeInv' /\ CarriedHasTarget'
    BY <1>1 DEF StoreInv, TypeInv, CarriedHasTarget, vars, history
  <2>2. FileApart' /\ ReadApart' /\ CarriedApart'
    BY <1>1 DEF StoreInv, FileApart, ReadApart, CarriedApart, vars
  <2>3. FileUnseen' /\ ReadUnseen' /\ CarriedUnseen' /\ DroppedUnseen'
    BY <1>1 DEF StoreInv, FileUnseen, ReadUnseen, CarriedUnseen, DroppedUnseen, vars, history
  <2>4. FileAlive' /\ ReadAlive' /\ CarriedAlive'
    BY <1>1 DEF StoreInv, FileAlive, ReadAlive, CarriedAlive, Alive, vars, history
  <2>5. CountedOnce' /\ ReadBelow' /\ CarriedBelow'
    BY <1>1 DEF StoreInv, CountedOnce, ReadBelow, CarriedBelow, Below, vars, history
  <2> QED
    BY <2>1, <2>2, <2>3, <2>4, <2>5 DEF StoreInv
<1>2. ASSUME NEW t \in Turns,
             \/ Resolve(t) \/ Resolved(t) \/ Sync(t) \/ Synced(t)
             \/ Answered(t) \/ Interrupted(t) \/ Store(t) \/ Stored(t) \/ Recover(t)
      PROVE  StoreInv'
  BY <1>2, ResolveKeeps, ResolvedKeeps, SyncKeeps, SyncedKeeps, AnsweredKeeps,
     InterruptedKeeps, StoreKeeps, StoredKeeps, RecoverKeeps
<1>3. ASSUME NEW o \in Ops, Cleared(o)
      PROVE  StoreInv'
  BY <1>3, ClearedKeeps
<1>4. ASSUME NEW r \in Resets, Look(r) \/ ResetRead(r)
      PROVE  StoreInv'
  BY <1>4, LookKeeps, ResetReadKeeps
<1>5. ASSUME NEW m \in Switches, SwitchLook(m) \/ SwitchRead(m) \/ Switched(m)
      PROVE  StoreInv'
  BY <1>5, SwitchLookKeeps, SwitchReadKeeps, SwitchedKeeps
<1>6. CASE AllDone
  BY <1>1, <1>6 DEF AllDone
<1> QED
  BY <1>1, <1>2, <1>3, <1>4, <1>5, <1>6 DEF Next

\* The inductive invariant of the file, the readings and the copies holds always.
THEOREM StoreAlways == Spec => []StoreInv
<1>1. Init => StoreInv
  BY StoreAssumption, StoreInit
<1>2. StoreInv /\ [Next]_vars => StoreInv'
  BY StoreAssumption, StoreStep
<1> QED
  BY <1>1, <1>2, PTL DEF Spec

-----------------------------------------------------------------------------

\* The file, the readings and the copies keep their types.
THEOREM StoreTypeCorrect == Spec => []TypeInv
<1>1. StoreInv => TypeInv
  BY DEF StoreInv
<1> QED
  BY <1>1, StoreAlways, PTL

\* No conversation ever gets into the bucket of another session or provider.
THEOREM ConversationsStayApart == Spec => []ConversationsApart
<1>1. StoreInv => ConversationsApart
  BY DEF StoreInv, FileApart, Apart, ConversationsApart
<1> QED
  BY <1>1, StoreAlways, PTL

\* A dropped conversation comes back only through a copy held when it was dropped.
THEOREM ForgottenForGood == Spec => []ForgottenStaysForgotten
<1>1. StoreInv => ForgottenStaysForgotten
  BY DEF StoreInv, FileAlive, Alive, ForgottenStaysForgotten
<1> QED
  BY <1>1, StoreAlways, PTL

\* Without saves from outdated readings every completed turn is counted once.
THEOREM CountedExactlyOnce == Spec => []CountedOnce
<1>1. StoreInv => CountedOnce
  BY DEF StoreInv
<1> QED
  BY <1>1, StoreAlways, PTL
=============================================================================
