---------------------------- MODULE OutboxProofs ----------------------------
(* What the outbox guarantees for any number of replies, drains, files per   *)
(* drain, retries and restarts.                                              *)
EXTENDS Outbox, WellFoundedInduction, TLAPS

\* A non-empty set of replies has a first one.
LEMMA FirstOfItems ==
  ASSUME OutboxAssumption, NEW S \in SUBSET Items, S # {}
  PROVE  Min(S) \in S
<1>1. S \subseteq Nat
  BY DEF OutboxAssumption
<1>2. PICK x \in S : \A y \in S : ~ (<<y, x>> \in OpToRel(<, Nat))
  BY <1>1, NatLessThanWellFounded, WFMin
<1>3. \A y \in S : ~ (y < x)
  BY <1>1, <1>2 DEF OpToRel
<1>4. \A y \in S : x <= y
  BY <1>1, <1>3
<1> QED
  BY <1>4 DEF Min

\* A drain that has no item to send is at none.
AtWhileSending ==
  \A d \in Drains : /\ pc[d] = "sending" => at[d] \in Items
                    /\ pc[d] # "sending" => at[d] = NoItem

TypeInv == TypeOK /\ AtWhileSending

\* Taking up the next item either begins to send one whose file exists, from its
\* first part, or ends the drain.
LEMMA StartNextEffect ==
  ASSUME OutboxAssumption, TypeInv,
         NEW d \in Drains, NEW rest \in SUBSET Items, NEW elapsed \in 0..MaxAge,
         tries' \in [Items -> 0..MaxBackoff],
         StartNext(d, rest, elapsed)
  PROVE  /\ todo' \in [Drains -> SUBSET Items]
         /\ age' \in [Drains -> 0..MaxAge]
         /\ copied' \in [Drains -> 0..MaxBackoff]
         /\ part' = [part EXCEPT ![d] = 0]
         /\ \/ \E i \in Items \cap queued' :
                 /\ pc' = [pc EXCEPT ![d] = "sending"]
                 /\ at' = [at EXCEPT ![d] = i]
                 /\ overlapped' = IF \E e \in Drains \ {d} : at[e] = i
                                  THEN overlapped \cup {i} ELSE overlapped
            \/ \E s \in {"starting", "done"} :
                 /\ pc' = [pc EXCEPT ![d] = s]
                 /\ at' = [at EXCEPT ![d] = NoItem]
                 /\ overlapped' = overlapped
<1> DEFINE ready == Ready(rest, elapsed)
<1>1. ready \in SUBSET Items /\ ready \subseteq queued'
  BY DEF Ready
<1>2. MaxAge \in Nat /\ MaxBackoff \in Nat \ {0}
  BY DEF OutboxAssumption
<1>3. CASE ready = {}
  BY <1>2, <1>3 DEF StartNext, TypeInv, TypeOK
<1>4. CASE ready # {}
  <2> DEFINE next == Min(ready)
  <2>1. next \in Items /\ next \in queued'
    BY <1>1, <1>4, FirstOfItems
  <2>2. NextAttempt(tries'[next]) \in 0..MaxBackoff
    <3>1. tries'[next] \in 0..MaxBackoff
      BY <2>1
    <3> QED
      BY <1>2, <3>1 DEF NextAttempt, AtMost
  <2>3. /\ pc' = [pc EXCEPT ![d] = "sending"]
        /\ at' = [at EXCEPT ![d] = next]
        /\ todo' = [todo EXCEPT ![d] = {i \in rest : i > next}]
        /\ copied' = [copied EXCEPT ![d] = NextAttempt(tries'[next])]
        /\ part' = [part EXCEPT ![d] = 0]
        /\ age' = [age EXCEPT ![d] = elapsed]
        /\ overlapped' = IF \E e \in Drains \ {d} : at[e] = next
                         THEN overlapped \cup {next} ELSE overlapped
    BY <1>4 DEF StartNext
  <2>4. {i \in rest : i > next} \in SUBSET Items
    OBVIOUS
  <2> HIDE DEF next
  <2> QED
    BY <1>2, <2>1, <2>2, <2>3, <2>4 DEF TypeInv, TypeOK
<1> QED
  BY <1>3, <1>4

-----------------------------------------------------------------------------
(* Types.                                                                    *)

\* The part of the types that taking up an item changes.
LEMMA StartNextType ==
  ASSUME OutboxAssumption, TypeInv,
         NEW d \in Drains, NEW rest \in SUBSET Items, NEW elapsed \in 0..MaxAge,
         tries' \in [Items -> 0..MaxBackoff],
         StartNext(d, rest, elapsed)
  PROVE  /\ pc' \in [Drains -> {"new", "starting", "listed", "sending", "done"}]
         /\ at' \in [Drains -> Items \cup {NoItem}]
         /\ todo' \in [Drains -> SUBSET Items]
         /\ age' \in [Drains -> 0..MaxAge]
         /\ copied' \in [Drains -> 0..MaxBackoff]
         /\ part' \in [Drains -> Nat]
         /\ overlapped' \subseteq Items
         /\ AtWhileSending'
<1>1. /\ todo' \in [Drains -> SUBSET Items]
      /\ age' \in [Drains -> 0..MaxAge]
      /\ copied' \in [Drains -> 0..MaxBackoff]
      /\ part' = [part EXCEPT ![d] = 0]
  BY StartNextEffect
<1>2. part' \in [Drains -> Nat]
  BY <1>1 DEF TypeInv, TypeOK
<1>3. \/ \E i \in Items \cap queued' :
              /\ pc' = [pc EXCEPT ![d] = "sending"]
              /\ at' = [at EXCEPT ![d] = i]
              /\ overlapped' = IF \E e \in Drains \ {d} : at[e] = i
                               THEN overlapped \cup {i} ELSE overlapped
      \/ \E s \in {"starting", "done"} :
              /\ pc' = [pc EXCEPT ![d] = s]
              /\ at' = [at EXCEPT ![d] = NoItem]
              /\ overlapped' = overlapped
  BY StartNextEffect
<1>4. /\ pc' \in [Drains -> {"new", "starting", "listed", "sending", "done"}]
      /\ at' \in [Drains -> Items \cup {NoItem}]
      /\ overlapped' \subseteq Items
  BY <1>3 DEF TypeInv, TypeOK
<1>5. AtWhileSending'
  BY <1>3 DEF TypeInv, TypeOK, AtWhileSending
<1> QED
  BY <1>1, <1>2, <1>4, <1>5

\* Finishing a part, whether or not it was the last, keeps the types.
LEMMA PartDoneType ==
  ASSUME OutboxAssumption, TypeInv, NEW d \in Drains, pc[d] = "sending", PartDone(d)
  PROVE  /\ fileVars' = fileVars \/ queued' = queued \ {at[d]}
         /\ queued' \subseteq Items
         /\ tries' \in [Items -> 0..MaxBackoff]
         /\ due' \in [Items -> -MaxAge..MaxBackoff]
         /\ pc' \in [Drains -> {"new", "starting", "listed", "sending", "done"}]
         /\ at' \in [Drains -> Items \cup {NoItem}]
         /\ todo' \in [Drains -> SUBSET Items]
         /\ age' \in [Drains -> 0..MaxAge]
         /\ copied' \in [Drains -> 0..MaxBackoff]
         /\ part' \in [Drains -> Nat]
         /\ known' \subseteq Items
         /\ overlapped' \subseteq Items
         /\ AtWhileSending'
<1>9. MaxAge \in Nat /\ MaxBackoff \in Nat \ {0}
  BY DEF OutboxAssumption
<1>0. at[d] \in Items
  BY DEF TypeInv, AtWhileSending
<1>1. CASE AtEnd(d)
  <2>1. Complete(d)
    BY <1>1 DEF PartDone
  <2>2. queued' = queued \ {at[d]} /\ queued' \subseteq Items
    BY <2>1 DEF Complete, TypeInv, TypeOK
  <2>3. tries' \in [Items -> 0..MaxBackoff]
    <3>1. tries' = [tries EXCEPT ![at[d]] = 0]
      BY <2>1 DEF Complete
    <3> QED
      BY <1>0, <1>9, <3>1 DEF TypeInv, TypeOK
  <2>4. due' \in [Items -> -MaxAge..MaxBackoff]
    <3>1. due' = [due EXCEPT ![at[d]] = 0]
      BY <2>1 DEF Complete
    <3> QED
      BY <1>0, <1>9, <3>1 DEF TypeInv, TypeOK
  <2>5. known' \subseteq Items
    BY <1>0, <2>1 DEF Complete, TypeInv, TypeOK
  <2>6. StartNext(d, todo[d], age[d]) /\ todo[d] \in SUBSET Items /\ age[d] \in 0..MaxAge
    BY <2>1 DEF Complete, TypeInv, TypeOK
  <2> QED
    BY <2>2, <2>3, <2>4, <2>5, <2>6, StartNextType
<1>2. CASE ~AtEnd(d)
  <2>1. /\ part' = [part EXCEPT ![d] = part[d] + 1]
        /\ UNCHANGED <<fileVars, pc, at, todo, age, copied, known, overlapped>>
    BY <1>2 DEF PartDone
  <2>2. part' \in [Drains -> Nat]
    BY <2>1 DEF TypeInv, TypeOK
  <2>3. AtWhileSending'
    BY <2>1 DEF TypeInv, AtWhileSending
  <2> QED
    BY <2>1, <2>2, <2>3 DEF TypeInv, TypeOK, fileVars
<1> QED
  BY <1>1, <1>2

\* The outbox starts with the files of an earlier process, and no drain at any.
LEMMA InitTypes == ASSUME OutboxAssumption, Init PROVE TypeInv
<1> MaxAge \in Nat /\ MaxBackoff \in Nat \ {0} /\ MaxRestarts \in Nat
  BY DEF OutboxAssumption
<1> QED
  BY DEF OutboxAssumption, Init, TypeInv, TypeOK, AtWhileSending

\* What drains are sending are parts of items.
LEMMA ArrivedType ==
  ASSUME TypeInv, NEW ds \in SUBSET {d \in Drains : pc[d] = "sending"}
  PROVE  /\ Repeats(ds) \subseteq Items
         /\ {<<at[d], part[d] + 1>> : d \in ds} \subseteq Items \X Nat
<1>1. \A d \in ds : at[d] \in Items /\ part[d] + 1 \in Nat
  BY DEF TypeInv, TypeOK, AtWhileSending
<1> QED
  BY <1>1 DEF Repeats

\* Every step keeps the types.
LEMMA TypeStep == ASSUME OutboxAssumption, TypeInv, [Next]_vars PROVE TypeInv'
<1> MaxAge \in Nat /\ MaxBackoff \in Nat \ {0} /\ MaxRestarts \in Nat
  BY DEF OutboxAssumption
<1>1. ASSUME NEW i \in Items, Enqueue(i) PROVE TypeInv'
  BY <1>1 DEF Enqueue, TypeInv, TypeOK, AtWhileSending, Drains, historyVars
<1>2. ASSUME NEW d \in Drains, List(d) PROVE TypeInv'
  <2>1. Listed \in SUBSET Items
    BY DEF Listed, TypeInv, TypeOK
  <2> QED
    BY <1>2, <2>1 DEF List, TypeInv, TypeOK, AtWhileSending, fileVars, historyVars
<1>3. ASSUME NEW d \in Drains, Begin(d) PROVE TypeInv'
  <2>1. /\ StartNext(d, todo[d], age[d]) /\ todo[d] \in SUBSET Items /\ age[d] \in 0..MaxAge
        /\ tries' = tries /\ queued' = queued /\ due' = due
        /\ UNCHANGED <<accepted, known, repeated, restarts>>
    BY <1>3 DEF Begin, TypeInv, TypeOK, fileVars
  <2>2. tries' \in [Items -> 0..MaxBackoff]
    BY <2>1 DEF TypeInv, TypeOK
  <2> QED
    BY <2>1, <2>2, StartNextType DEF TypeInv, TypeOK
<1>4. ASSUME NEW d \in Drains, AcceptPart(d) PROVE TypeInv'
  <2>1. at[d] \in Items /\ part[d] + 1 \in Nat
    BY <1>4 DEF AcceptPart, TypeInv, TypeOK, AtWhileSending
  <2>2. accepted' \subseteq Items \X Nat /\ restarts' = restarts
    BY <1>4, <2>1 DEF AcceptPart, TypeInv, TypeOK
  <2>3. repeated' \subseteq Items
    BY <1>4, ArrivedType DEF AcceptPart, TypeInv, TypeOK
  <2> QED
    BY <1>4, <2>2, <2>3, PartDoneType DEF AcceptPart, TypeInv, TypeOK
<1>5. ASSUME NEW d \in Drains, SkipFile(d) PROVE TypeInv'
  BY <1>5, PartDoneType DEF SkipFile, TypeInv, TypeOK
<1>6. ASSUME NEW d \in Drains, FailPart(d) PROVE TypeInv'
  <2>1. at[d] \in Items /\ part[d] + 1 \in Nat /\ copied[d] \in 0..MaxBackoff
        /\ age[d] \in 0..MaxAge /\ todo[d] \in SUBSET Items
    BY <1>6 DEF FailPart, TypeInv, TypeOK, AtWhileSending
  <2>2. accepted' \subseteq Items \X Nat /\ restarts' = restarts /\ known' = known
    BY <1>6, <2>1 DEF FailPart, TypeInv, TypeOK
  <2>3. queued' \subseteq Items
    BY <1>6, <2>1 DEF FailPart, TypeInv, TypeOK
  <2>4. tries' \in [Items -> 0..MaxBackoff]
    BY <1>6, <2>1 DEF FailPart, TypeInv, TypeOK
  <2>5. due' \in [Items -> -MaxAge..MaxBackoff]
    BY <1>6, <2>1 DEF FailPart, TypeInv, TypeOK
  <2>6. StartNext(d, todo[d], age[d])
    BY <1>6 DEF FailPart
  <2>7. repeated' \subseteq Items
    <3>1. Repeats({d}) \subseteq Items
      BY <1>6, ArrivedType DEF FailPart
    <3>2. repeated' = repeated \/ repeated' = repeated \cup Repeats({d})
      BY <1>6 DEF FailPart
    <3> QED
      BY <3>1, <3>2 DEF TypeInv, TypeOK
  <2> QED
    BY <2>1, <2>2, <2>3, <2>4, <2>5, <2>6, <2>7, StartNextType DEF TypeInv, TypeOK
<1>7. CASE Tick
  <2>1. due' \in [Items -> -MaxAge..MaxBackoff]
    BY <1>7 DEF Tick, TypeInv, TypeOK
  <2>2. age' \in [Drains -> 0..MaxAge]
    BY <1>7 DEF Tick, Busy, TypeInv, TypeOK
  <2> QED
    BY <1>7, <2>1, <2>2 DEF Tick, TypeInv, TypeOK, AtWhileSending, drainVars, historyVars
<1>8. CASE Restart
  <2>1. PICK arrived \in SUBSET {d \in Drains : pc[d] = "sending"} :
          /\ accepted' = accepted \cup {<<at[d], part[d] + 1>> : d \in arrived}
          /\ repeated' = repeated \cup Repeats(arrived)
    BY <1>8 DEF Restart
  <2>2. accepted' \subseteq Items \X Nat /\ repeated' \subseteq Items
    BY <2>1, ArrivedType DEF TypeInv, TypeOK
  <2>3. /\ restarts' = restarts + 1 /\ restarts < MaxRestarts
        /\ \A d \in Drains : pc'[d] # "sending"
        /\ pc' \in [Drains -> {"new", "starting", "listed", "sending", "done"}]
        /\ at' = [d \in Drains |-> NoItem]
        /\ todo' = [d \in Drains |-> {}]
        /\ age' = [d \in Drains |-> 0]
        /\ copied' = [d \in Drains |-> 0]
        /\ part' = [d \in Drains |-> 0]
        /\ UNCHANGED <<fileVars, known, overlapped>>
    BY <1>8 DEF Restart
  <2> QED
    BY <2>2, <2>3 DEF TypeInv, TypeOK, AtWhileSending, fileVars
<1>9. CASE UNCHANGED vars
  BY <1>9 DEF vars, fileVars, drainVars, historyVars, TypeInv, TypeOK, AtWhileSending
<1> QED
  BY <1>1, <1>2, <1>3, <1>4, <1>5, <1>6, <1>7, <1>8, <1>9 DEF Next

\* The types always hold, and only a sending drain is at an item.
LEMMA TypeInvariant == ASSUME OutboxAssumption PROVE Spec => []TypeInv
  BY InitTypes, TypeStep, PTL DEF Spec

\* The types of the files, of the drains and of what was sent (drain_once).
THEOREM OutboxTypeCorrect == ASSUME OutboxAssumption PROVE Spec => []TypeOK
<1>1. TypeInv => TypeOK
  BY DEF TypeInv
<1> QED
  BY <1>1, TypeInvariant, PTL

-----------------------------------------------------------------------------
(* No reply leaves the disk before its text was accepted.                    *)

\* The text chunks that a drain has behind it were accepted, and it has at least
\* one part before it.
ChunksSent ==
  \A d \in Drains :
    pc[d] = "sending" =>
      /\ part[d] < LastPart(at[d])
      /\ \A n \in 1..ChunksOf[at[d]] : n <= part[d] => <<at[d], n>> \in accepted

LostInv == TypeInv /\ ChunksSent /\ NothingLost

\* The next item starts from its first part.
LEMMA StartNextSends ==
  ASSUME OutboxAssumption, TypeInv, ChunksSent,
         NEW d \in Drains, NEW rest \in SUBSET Items, NEW elapsed \in 0..MaxAge,
         tries' \in [Items -> 0..MaxBackoff],
         accepted \subseteq accepted',
         pc[d] # "new",
         StartNext(d, rest, elapsed)
  PROVE  ChunksSent' /\ \A e \in Drains : pc'[e] = "new" <=> pc[e] = "new"
<1>1. /\ part' = [part EXCEPT ![d] = 0]
      /\ \/ \E i \in Items : /\ pc' = [pc EXCEPT ![d] = "sending"]
                             /\ at' = [at EXCEPT ![d] = i]
         \/ \E s \in {"starting", "done"} : /\ pc' = [pc EXCEPT ![d] = s]
                                            /\ at' = [at EXCEPT ![d] = NoItem]
  BY StartNextEffect
<1>2. \A e \in Drains : pc'[e] = "new" <=> pc[e] = "new"
  BY <1>1 DEF TypeInv, TypeOK
<1>3. \A i \in Items : LastPart(i) \in Nat /\ 0 < LastPart(i)
  BY DEF OutboxAssumption, LastPart
<1>4. ASSUME NEW e \in Drains, pc'[e] = "sending"
      PROVE  /\ part'[e] < LastPart(at'[e])
             /\ \A n \in 1..ChunksOf[at'[e]] : n <= part'[e] => <<at'[e], n>> \in accepted'
  <2>1. CASE e = d
    <3>1. part'[e] = 0 /\ at'[e] \in Items
      BY <1>1, <1>4, <2>1 DEF TypeInv, TypeOK
    <3>2. part'[e] < LastPart(at'[e])
      BY <1>3, <3>1
    <3>3. \A n \in 1..ChunksOf[at'[e]] : ~(n <= 0)
      BY <3>1 DEF OutboxAssumption
    <3>4. \A n \in 1..ChunksOf[at'[e]] : ~(n <= part'[e])
      BY <3>1, <3>3
    <3> QED
      BY <3>2, <3>4
  <2>2. CASE e # d
    <3>1. part'[e] = part[e] /\ at'[e] = at[e] /\ pc[e] = "sending"
      BY <1>1, <1>4, <2>2 DEF TypeInv, TypeOK
    <3> QED
      BY <3>1 DEF ChunksSent
  <2> QED
    BY <2>1, <2>2
<1>5. ChunksSent'
  BY <1>4 DEF ChunksSent, LastPart
<1> QED
  BY <1>2, <1>5

\* A part of the text goes by only if it was accepted, and the file goes after
\* the text: then a drain that is through has sent all of it.
LEMMA PartDoneSends ==
  ASSUME OutboxAssumption, LostInv,
         NEW d \in Drains, pc[d] = "sending",
         accepted \subseteq accepted',
         \/ <<at[d], part[d] + 1>> \in accepted'
         \/ part[d] = ChunksOf[at[d]],
         PartDone(d)
  PROVE  ChunksSent' /\ NothingLost'
<1> DEFINE i == at[d]
<1>1. i \in Items /\ part[d] \in Nat /\ ChunksOf[i] \in Nat
  BY DEF LostInv, TypeInv, TypeOK, AtWhileSending, OutboxAssumption
<1>2. /\ part[d] < LastPart(i)
      /\ \A n \in 1..ChunksOf[i] : n <= part[d] => <<i, n>> \in accepted
  BY DEF LostInv, ChunksSent
<1>3. \A n \in 1..ChunksOf[i] : n <= part[d] + 1 => <<i, n>> \in accepted'
  <2> SUFFICES ASSUME NEW n \in 1..ChunksOf[i], n <= part[d] + 1
               PROVE  <<i, n>> \in accepted'
    OBVIOUS
  <2>1. CASE n <= part[d]
    BY <1>2, <2>1
  <2>2. CASE n = part[d] + 1
    BY <1>1, <2>2
  <2> QED
    BY <1>1, <2>1, <2>2
<1>4. CASE part[d] + 1 = LastPart(i)
  <2>1. Complete(d)
    BY <1>4 DEF PartDone, AtEnd
  <2>2. /\ queued' = queued \ {i}
        /\ StartNext(d, todo[d], age[d])
        /\ todo[d] \in SUBSET Items /\ age[d] \in 0..MaxAge
    BY <2>1 DEF Complete, LostInv, TypeInv, TypeOK
  <2>3. tries' \in [Items -> 0..MaxBackoff]
    BY PartDoneType DEF LostInv
  <2>4. ChunksSent' /\ \A e \in Drains : pc'[e] = "new" <=> pc[e] = "new"
    BY <2>2, <2>3, StartNextSends DEF LostInv
  <2>5. TextOf(i) \subseteq accepted'
    <3>1. ChunksOf[i] <= part[d] + 1
      BY <1>1, <1>4 DEF LastPart
    <3> QED
      BY <1>1, <1>3, <3>1 DEF TextOf
  <2>6. NothingLost'
    BY <2>2, <2>4, <2>5 DEF LostInv, NothingLost, TextOf, Drains
  <2> QED
    BY <2>4, <2>6
<1>5. CASE part[d] + 1 # LastPart(i)
  <2>1. /\ part' = [part EXCEPT ![d] = part[d] + 1]
        /\ UNCHANGED <<queued, pc, at>>
    BY <1>5 DEF PartDone, AtEnd, fileVars
  <2>2. part[d] + 1 < LastPart(i)
    BY <1>1, <1>2, <1>5 DEF LastPart
  <2>3. ChunksSent'
    BY <1>3, <2>1, <2>2 DEF LostInv, TypeInv, TypeOK, ChunksSent, LastPart
  <2>4. NothingLost'
    BY <2>1 DEF LostInv, NothingLost, TextOf
  <2> QED
    BY <2>3, <2>4
<1> QED
  BY <1>4, <1>5

\* What the files, the drains and the sends are made of is all that matters.
LEMMA UnchangedSends ==
  ASSUME LostInv, UNCHANGED <<queued, pc, at, part, accepted>>
  PROVE  ChunksSent' /\ NothingLost'
<1>1. ChunksSent'
  BY DEF LostInv, ChunksSent, LastPart
<1>2. NothingLost'
  BY DEF LostInv, NothingLost, TextOf
<1> QED
  BY <1>1, <1>2

\* Every step keeps the texts that were accepted, and the files of the others.
LEMMA LostStep == ASSUME OutboxAssumption, LostInv, [Next]_vars PROVE LostInv'
<1>0. TypeInv'
  BY TypeStep DEF LostInv
<1> USE DEF LostInv
<1>1. ASSUME NEW i \in Items, Enqueue(i) PROVE ChunksSent' /\ NothingLost'
  BY <1>1 DEF Enqueue, TypeInv, TypeOK, ChunksSent, LastPart, NothingLost, TextOf, Drains
<1>2. ASSUME NEW d \in Drains, List(d) PROVE ChunksSent' /\ NothingLost'
  BY <1>2 DEF List, TypeInv, TypeOK, ChunksSent, LastPart, NothingLost, TextOf, Drains, fileVars
<1>3. ASSUME NEW d \in Drains, Begin(d) PROVE ChunksSent' /\ NothingLost'
  <2>1. /\ StartNext(d, todo[d], age[d]) /\ todo[d] \in SUBSET Items /\ age[d] \in 0..MaxAge
        /\ tries' = tries /\ queued' = queued /\ accepted' = accepted /\ pc[d] = "listed"
    BY <1>3 DEF Begin, TypeInv, TypeOK, fileVars
  <2>2. tries' \in [Items -> 0..MaxBackoff]
    BY <2>1 DEF TypeInv, TypeOK
  <2>3. ChunksSent' /\ \A e \in Drains : pc'[e] = "new" <=> pc[e] = "new"
    BY <2>1, <2>2, StartNextSends
  <2> QED
    BY <2>1, <2>3 DEF NothingLost, TextOf, Drains
<1>4. ASSUME NEW d \in Drains, AcceptPart(d) PROVE ChunksSent' /\ NothingLost'
  BY <1>4, PartDoneSends DEF AcceptPart
<1>5. ASSUME NEW d \in Drains, SkipFile(d) PROVE ChunksSent' /\ NothingLost'
  BY <1>5, PartDoneSends DEF SkipFile
<1>6. ASSUME NEW d \in Drains, FailPart(d) PROVE ChunksSent' /\ NothingLost'
  <2>1. /\ StartNext(d, todo[d], age[d]) /\ todo[d] \in SUBSET Items /\ age[d] \in 0..MaxAge
        /\ queued' = queued \cup {at[d]} /\ pc[d] = "sending"
        /\ accepted \subseteq accepted'
    BY <1>6 DEF FailPart, TypeInv, TypeOK
  <2>2. tries' \in [Items -> 0..MaxBackoff]
    BY <1>0 DEF TypeInv, TypeOK
  <2>3. ChunksSent' /\ \A e \in Drains : pc'[e] = "new" <=> pc[e] = "new"
    BY <2>1, <2>2, StartNextSends
  <2> QED
    BY <2>1, <2>3 DEF NothingLost, TextOf, Drains
<1>7. CASE Tick
  <2>1. UNCHANGED <<queued, pc, at, part, accepted>>
    BY <1>7 DEF Tick, drainVars
  <2> QED
    BY <1>0, <2>1, UnchangedSends
<1>8. CASE Restart
  <2>1. \A d \in Drains : pc'[d] # "sending"
    BY <1>8 DEF Restart, Drains
  <2>2. \A i \in Items : pc'[i] = "new" <=> pc[i] = "new"
    BY <1>8 DEF Restart, Drains, Loop, OutboxAssumption
  <2> QED
    <3>1. ChunksSent'
      BY <2>1 DEF ChunksSent
    <3>2. NothingLost'
      <4>1. queued' = queued /\ accepted \subseteq accepted'
        BY <1>8 DEF Restart, fileVars
      <4> QED
        BY <2>2, <4>1 DEF NothingLost, TextOf
    <3> QED
      BY <1>0, <3>1, <3>2
<1>9. CASE UNCHANGED vars
  <2>1. UNCHANGED <<queued, pc, at, part, accepted>>
    BY <1>9 DEF vars, fileVars, drainVars
  <2> QED
    BY <1>0, <2>1, UnchangedSends
<1> QED
  BY <1>0, <1>1, <1>2, <1>3, <1>4, <1>5, <1>6, <1>7, <1>8, <1>9 DEF Next

\* A file is deleted only when Telegram has accepted the whole text of its reply,
\* whatever the other drains and the restarts do (drain_once, send_rich).
THEOREM OutboxLosesNothing == ASSUME OutboxAssumption PROVE Spec => []NothingLost
<1>1. Init => LostInv
  <2> SUFFICES ASSUME Init PROVE LostInv
    OBVIOUS
  <2>1. ChunksSent
    BY DEF Init, ChunksSent
  <2>2. NothingLost
    BY DEF Init, NothingLost, OutboxAssumption, Drains, Loop
  <2> QED
    BY <2>1, <2>2, InitTypes DEF LostInv
<1>2. LostInv /\ [Next]_vars => LostInv'
  BY LostStep
<1>3. LostInv => NothingLost
  BY DEF LostInv
<1> QED
  BY <1>1, <1>2, <1>3, PTL DEF Spec

-----------------------------------------------------------------------------
(* What is known to be sent is sent again only if two drains were sending it. *)

\* Unless drains overlapped on a reply, one at most is at it, and a reply known to
\* be sent has no file and no drain at it.
SentOnce ==
  \A i \in Items \ overlapped :
    /\ \A d, e \in Drains : at[d] = i /\ at[e] = i => d = e
    /\ i \in known => i \notin queued /\ \A d \in Drains : at[d] # i

\* Nothing happens to a reply before it is queued.
NewUntouched ==
  \A i \in Items : pc[i] = "new" => /\ i \notin queued
                                    /\ i \notin known
                                    /\ \A d \in Drains : at[d] # i

OnceInv == TypeInv /\ SentOnce /\ NewUntouched /\ KnownOnlyOnce

\* A drain is at a reply that is known to be sent only if drains overlapped on it.
LEMMA RepeatsOverlapped ==
  ASSUME OutboxAssumption, OnceInv, NEW ds \in SUBSET {d \in Drains : pc[d] = "sending"}
  PROVE  Repeats(ds) \subseteq overlapped
<1> SUFFICES ASSUME NEW d \in ds, at[d] \in known
             PROVE  at[d] \in overlapped
  BY DEF Repeats
<1>1. at[d] \in Items
  BY DEF OnceInv, TypeInv, AtWhileSending
<1> QED
  BY <1>1 DEF OnceInv, SentOnce

\* A drain takes up only replies whose file exists.
LEMMA StartNextOnce ==
  ASSUME OutboxAssumption, TypeInv, SentOnce, NewUntouched,
         NEW d \in Drains, NEW rest \in SUBSET Items, NEW elapsed \in 0..MaxAge,
         tries' \in [Items -> 0..MaxBackoff],
         \A i \in Items \ overlapped :
           i \in known' => i \notin queued' /\ \A e \in Drains \ {d} : at[e] # i,
         \A i \in Items : pc[i] = "new" => i \notin queued' /\ i \notin known',
         pc[d] # "new",
         StartNext(d, rest, elapsed)
  PROVE  SentOnce' /\ NewUntouched' /\ overlapped \subseteq overlapped'
<1>1. CASE \E i \in Items \cap queued' :
             /\ pc' = [pc EXCEPT ![d] = "sending"]
             /\ at' = [at EXCEPT ![d] = i]
             /\ overlapped' = IF \E e \in Drains \ {d} : at[e] = i
                              THEN overlapped \cup {i} ELSE overlapped
  <2>1. PICK i \in Items \cap queued' :
             /\ pc' = [pc EXCEPT ![d] = "sending"]
             /\ at' = [at EXCEPT ![d] = i]
             /\ overlapped' = IF \E e \in Drains \ {d} : at[e] = i
                              THEN overlapped \cup {i} ELSE overlapped
    BY <1>1
  <2>2. at'[d] = i /\ \A e \in Drains \ {d} : at'[e] = at[e]
    BY <2>1 DEF TypeInv, TypeOK
  <2>3. overlapped \subseteq overlapped'
    BY <2>1
  <2>4. \A j \in Items \ overlapped', e, f \in Drains : at'[e] = j /\ at'[f] = j => e = f
    <3> SUFFICES ASSUME NEW j \in Items \ overlapped', NEW e \in Drains, NEW f \in Drains,
                        at'[e] = j, at'[f] = j, e # f
                 PROVE  FALSE
      OBVIOUS
    <3>1. CASE j = i
      <4>1. \E g \in Drains \ {d} : at[g] = i
        BY <2>2, <3>1
      <4> QED
        BY <2>1, <3>1, <4>1
    <3>2. CASE j # i
      <4>1. at[e] = j /\ at[f] = j
        BY <2>2, <3>2
      <4> QED
        BY <2>3, <4>1 DEF SentOnce
    <3> QED
      BY <3>1, <3>2
  <2>5. \A j \in Items \ overlapped' :
          j \in known' => j \notin queued' /\ \A e \in Drains : at'[e] # j
    BY <2>2, <2>3
  <2>6. NewUntouched'
    BY <2>1, <2>2 DEF NewUntouched, TypeInv, TypeOK, Drains
  <2> QED
    BY <2>3, <2>4, <2>5, <2>6 DEF SentOnce
<1>2. CASE \E s \in {"starting", "done"} :
             /\ pc' = [pc EXCEPT ![d] = s]
             /\ at' = [at EXCEPT ![d] = NoItem]
             /\ overlapped' = overlapped
  <2>1. /\ at'[d] = NoItem /\ \A e \in Drains \ {d} : at'[e] = at[e]
        /\ overlapped' = overlapped
    BY <1>2 DEF TypeInv, TypeOK
  <2>2. NoItem \notin Items
    BY DEF OutboxAssumption, NoItem
  <2>3. SentOnce'
    BY <2>1, <2>2 DEF SentOnce
  <2>4. NewUntouched'
    BY <1>2, <2>1, <2>2 DEF NewUntouched, TypeInv, TypeOK, Drains
  <2> QED
    BY <2>1, <2>3, <2>4
<1> QED
  BY <1>1, <1>2, StartNextEffect

\* A reply that a drain has sent, alone, is gone.
LEMMA PartDoneOnce ==
  ASSUME OutboxAssumption, OnceInv, NEW d \in Drains, pc[d] = "sending", PartDone(d)
  PROVE  SentOnce' /\ NewUntouched' /\ overlapped \subseteq overlapped'
<1>0. at[d] \in Items /\ pc[d] # "new"
  BY DEF OnceInv, TypeInv, AtWhileSending
<1>1. CASE AtEnd(d)
  <2>1. Complete(d)
    BY <1>1 DEF PartDone
  <2>2. /\ queued' = queued \ {at[d]}
        /\ known' = known \cup {at[d]}
        /\ StartNext(d, todo[d], age[d])
        /\ todo[d] \in SUBSET Items /\ age[d] \in 0..MaxAge
    BY <2>1 DEF Complete, OnceInv, TypeInv, TypeOK
  <2>3. tries' \in [Items -> 0..MaxBackoff]
    BY PartDoneType DEF OnceInv
  <2>4. \A i \in Items \ overlapped :
          i \in known' => i \notin queued' /\ \A e \in Drains \ {d} : at[e] # i
    <3> SUFFICES ASSUME NEW i \in Items \ overlapped, i \in known'
                 PROVE  i \notin queued' /\ \A e \in Drains \ {d} : at[e] # i
      OBVIOUS
    <3>1. CASE i = at[d]
      BY <2>2, <3>1 DEF OnceInv, SentOnce
    <3>2. CASE i # at[d]
      BY <2>2, <3>2 DEF OnceInv, SentOnce
    <3> QED
      BY <3>1, <3>2
  <2>5. \A i \in Items : pc[i] = "new" => i \notin queued' /\ i \notin known'
    <3> SUFFICES ASSUME NEW i \in Items, pc[i] = "new"
                 PROVE  i \notin queued' /\ i \notin known'
      OBVIOUS
    <3>1. i # at[d] /\ i \notin queued /\ i \notin known
      BY DEF OnceInv, NewUntouched
    <3> QED
      BY <2>2, <3>1 DEF OnceInv, TypeInv, TypeOK
  <2> QED
    BY <1>0, <2>2, <2>3, <2>4, <2>5, StartNextOnce DEF OnceInv
<1>2. CASE ~AtEnd(d)
  <2>1. UNCHANGED <<queued, pc, at, known, overlapped>>
    BY <1>2 DEF PartDone, fileVars
  <2> QED
    BY <2>1 DEF OnceInv, SentOnce, NewUntouched
<1> QED
  BY <1>1, <1>2

\* Every step keeps it: a failing drain that writes its file back is the only one
\* at it, or drains had overlapped.
LEMMA OnceStep == ASSUME OutboxAssumption, OnceInv, [Next]_vars PROVE OnceInv'
<1>0. TypeInv'
  BY TypeStep DEF OnceInv
<1> USE DEF OnceInv
<1> DEFINE Kept == SentOnce' /\ NewUntouched' /\ KnownOnlyOnce'
<1>1. ASSUME NEW i \in Items, Enqueue(i) PROVE Kept
  <2>1. /\ queued' = queued \cup {i} /\ pc[i] = "new"
        /\ pc' = [pc EXCEPT ![i] = "starting"]
        /\ UNCHANGED <<at, historyVars>>
    BY <1>1 DEF Enqueue
  <2>2. SentOnce'
    BY <2>1 DEF SentOnce, NewUntouched, TypeInv, TypeOK, historyVars
  <2>3. NewUntouched'
    BY <2>1 DEF NewUntouched, TypeInv, TypeOK, Drains, historyVars
  <2> QED
    BY <2>1, <2>2, <2>3 DEF KnownOnlyOnce, historyVars
<1>2. ASSUME NEW d \in Drains, List(d) PROVE Kept
  <2>1. /\ pc[d] = "starting" /\ pc' = [pc EXCEPT ![d] = "listed"]
        /\ UNCHANGED <<queued, at, historyVars>>
    BY <1>2 DEF List, fileVars
  <2>2. SentOnce'
    BY <2>1 DEF SentOnce, historyVars
  <2>3. NewUntouched'
    BY <2>1 DEF NewUntouched, TypeInv, TypeOK, Drains, historyVars
  <2> QED
    BY <2>1, <2>2, <2>3 DEF KnownOnlyOnce, historyVars
<1>3. ASSUME NEW d \in Drains, Begin(d) PROVE Kept
  <2>1. /\ StartNext(d, todo[d], age[d]) /\ todo[d] \in SUBSET Items /\ age[d] \in 0..MaxAge
        /\ tries' = tries /\ queued' = queued /\ known' = known /\ repeated' = repeated /\ pc[d] = "listed"
    BY <1>3 DEF Begin, TypeInv, TypeOK, fileVars
  <2>2. tries' \in [Items -> 0..MaxBackoff]
    BY <2>1 DEF TypeInv, TypeOK
  <2>3. \A i \in Items \ overlapped :
          i \in known' => i \notin queued' /\ \A e \in Drains \ {d} : at[e] # i
    BY <2>1 DEF SentOnce
  <2>4. \A i \in Items : pc[i] = "new" => i \notin queued' /\ i \notin known'
    BY <2>1 DEF NewUntouched
  <2>5. SentOnce' /\ NewUntouched' /\ overlapped \subseteq overlapped'
    BY <2>1, <2>2, <2>3, <2>4, StartNextOnce
  <2> QED
    BY <2>1, <2>5 DEF KnownOnlyOnce
<1>4. ASSUME NEW d \in Drains, AcceptPart(d) PROVE Kept
  <2>1. SentOnce' /\ NewUntouched' /\ overlapped \subseteq overlapped'
    BY <1>4, PartDoneOnce DEF AcceptPart
  <2>2. repeated' = repeated \cup Repeats({d}) /\ Repeats({d}) \subseteq overlapped
    BY <1>4, RepeatsOverlapped DEF AcceptPart
  <2> QED
    BY <2>1, <2>2 DEF KnownOnlyOnce
<1>5. ASSUME NEW d \in Drains, SkipFile(d) PROVE Kept
  BY <1>5, PartDoneOnce DEF SkipFile, KnownOnlyOnce
<1>6. ASSUME NEW d \in Drains, FailPart(d) PROVE Kept
  <2>1. /\ StartNext(d, todo[d], age[d]) /\ todo[d] \in SUBSET Items /\ age[d] \in 0..MaxAge
        /\ queued' = queued \cup {at[d]} /\ known' = known /\ pc[d] = "sending"
    BY <1>6 DEF FailPart, TypeInv, TypeOK
  <2>2. tries' \in [Items -> 0..MaxBackoff]
    BY <1>0 DEF TypeInv, TypeOK
  <2>3. \A i \in Items \ overlapped :
          i \in known' => i \notin queued' /\ \A e \in Drains \ {d} : at[e] # i
    BY <2>1 DEF SentOnce
  <2>4. \A i \in Items : pc[i] = "new" => i \notin queued' /\ i \notin known'
    BY <2>1 DEF NewUntouched
  <2>5. SentOnce' /\ NewUntouched' /\ overlapped \subseteq overlapped'
    BY <2>1, <2>2, <2>3, <2>4, StartNextOnce
  <2>6. repeated' \subseteq repeated \cup Repeats({d}) /\ Repeats({d}) \subseteq overlapped
    BY <1>6, RepeatsOverlapped DEF FailPart
  <2> QED
    BY <2>5, <2>6 DEF KnownOnlyOnce
<1>7. CASE Tick
  <2>1. UNCHANGED <<queued, pc, at, historyVars>>
    BY <1>7 DEF Tick, drainVars
  <2> QED
    BY <1>0, <2>1 DEF SentOnce, NewUntouched, KnownOnlyOnce, historyVars
<1>8. CASE Restart
  <2>1. /\ \A d \in Drains : at'[d] = NoItem
        /\ \A i \in Items : pc'[i] = "new" <=> pc[i] = "new"
        /\ UNCHANGED <<queued, known, overlapped>>
    BY <1>8 DEF Restart, fileVars, Drains, Loop, OutboxAssumption
  <2>2. NoItem \notin Items
    BY DEF OutboxAssumption, NoItem
  <2>3. SentOnce'
    BY <2>1, <2>2 DEF SentOnce
  <2>4. NewUntouched'
    BY <2>1, <2>2 DEF NewUntouched
  <2>5. KnownOnlyOnce'
    <3>1. PICK arrived \in SUBSET {d \in Drains : pc[d] = "sending" /\ at[d] \notin Poison} :
            repeated' = repeated \cup Repeats(arrived)
      BY <1>8 DEF Restart
    <3>2. Repeats(arrived) \subseteq overlapped
      BY RepeatsOverlapped
    <3> QED
      BY <2>1, <3>1, <3>2 DEF KnownOnlyOnce
  <2> QED
    BY <1>0, <2>3, <2>4, <2>5
<1>9. CASE UNCHANGED vars
  <2>1. UNCHANGED <<queued, pc, at, historyVars>>
    BY <1>9 DEF vars, fileVars, drainVars
  <2> QED
    BY <1>0, <2>1 DEF SentOnce, NewUntouched, KnownOnlyOnce, historyVars
<1> QED
  BY <1>0, <1>1, <1>2, <1>3, <1>4, <1>5, <1>6, <1>7, <1>8, <1>9 DEF Next

\* Once a drain was told that a reply was sent, Telegram does not get it to the end
\* again, not from an older list nor after a restart, unless two drains were sending
\* it at the same time (drain_once reads the file again before it sends).
THEOREM OutboxSendsOnce == ASSUME OutboxAssumption PROVE Spec => []KnownOnlyOnce
<1>1. Init => OnceInv
  <2> SUFFICES ASSUME Init PROVE OnceInv
    OBVIOUS
  <2>1. NoItem \notin Items
    BY DEF OutboxAssumption, NoItem
  <2>2. SentOnce
    BY <2>1 DEF Init, SentOnce
  <2>3. NewUntouched
    BY <2>1 DEF Init, NewUntouched, Drains, OutboxAssumption
  <2>4. KnownOnlyOnce
    BY DEF Init, KnownOnlyOnce
  <2> QED
    BY <2>2, <2>3, <2>4, InitTypes DEF OnceInv
<1>2. OnceInv /\ [Next]_vars => OnceInv'
  BY OnceStep
<1>3. OnceInv => KnownOnlyOnce
  BY DEF OnceInv
<1> QED
  BY <1>1, <1>2, <1>3, PTL DEF Spec

=============================================================================
