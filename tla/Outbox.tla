------------------------------- MODULE Outbox -------------------------------
(***************************************************************************)
(* The durable outbox of the Telegram transport                            *)
(* (messenger/telegram/outbox.py): final replies are written to files,     *)
(* every turn that writes one drains the directory itself, a loop drains   *)
(* it every 30 seconds, and the drains run concurrently on the same files. *)
(*                                                                         *)
(* The name of a file begins with the time of its creation, and drains     *)
(* take the files in the order of their names: an item is the number of    *)
(* its file in that order.  Time is counted in retry delays (30 seconds)   *)
(* and relative to now: `due` is how far next_retry_at is ahead, `age` how *)
(* long ago a drain read the clock, so that both stay small.               *)
(***************************************************************************)
EXTENDS Integers, FiniteSets, FiniteSetsExt

CONSTANTS
  Items,        \* the replies, each queued by the turn that produced it
  ChunksOf,     \* how many messages the text of a reply is split into
  WithFile,     \* replies that also name a file to upload
  Poison,       \* replies that Telegram rejects whenever they are sent
  Leftover,     \* replies that an earlier process left in the directory
  Limit,        \* how many files a drain takes
  MaxBackoff,   \* the longest retry delay (300 seconds)
  MaxAge,       \* bound on how long a drain takes
  MaxRestarts   \* bound on crashes and restarts of the process

Loop == 0    \* drain_loop; the drain of a turn is named for its item
NoItem == 0

ASSUME OutboxAssumption ==
  /\ Items \subseteq Nat \ {0}
  /\ IsFiniteSet(Items)
  /\ ChunksOf \in [Items -> Nat]
  /\ WithFile \subseteq Items
  /\ \A i \in Items \ WithFile : ChunksOf[i] > 0
  /\ Poison \subseteq Items
  /\ Leftover \subseteq Items
  /\ Limit \in Nat \ {0}
  /\ MaxBackoff \in Nat \ {0}
  /\ MaxAge \in Nat \ {0}
  /\ MaxRestarts \in Nat

Drains == Items \cup {Loop}

VARIABLES
  queued,      \* the items whose file exists
  tries,       \* attempts in the file of an item, up to MaxBackoff
  due,         \* next_retry_at in the file of an item
  pc,          \* how far a drain is
  at,          \* the item a drain is sending
  todo,        \* the files after it in the list that the drain took
  age,         \* the time since the drain read the clock
  copied,      \* attempts in the dict it has of the item
  part,        \* how many parts of the item it has sent
  accepted,    \* the parts that Telegram has accepted, <<item, number>>
  known,       \* items that a drain has sent to the end, and been told so
  repeated,    \* items that Telegram got to the end when that was known (history)
  overlapped,  \* items that two drains were sending at the same time
  restarts

fileVars == <<queued, tries, due>>
drainVars == <<pc, at, todo, copied, part>>
historyVars == <<known, repeated, overlapped>>
vars == <<fileVars, drainVars, age, accepted, historyVars, restarts>>

\* The text goes first, in chunks; the file, if there is one, is the last part.
LastPart(i) == IF i \in WithFile THEN ChunksOf[i] + 1 ELSE ChunksOf[i]

TextOf(i) == {<<i, n>> : n \in 1..ChunksOf[i]}

TypeOK ==
  /\ queued \subseteq Items
  /\ tries \in [Items -> 0..MaxBackoff]
  /\ due \in [Items -> -MaxAge..MaxBackoff]
  /\ pc \in [Drains -> {"new", "starting", "listed", "sending", "done"}]
  /\ at \in [Drains -> Items \cup {NoItem}]
  /\ todo \in [Drains -> SUBSET Items]
  /\ age \in [Drains -> 0..MaxAge]
  /\ copied \in [Drains -> 0..MaxBackoff]
  /\ part \in [Drains -> Nat]
  /\ accepted \subseteq Items \X Nat
  /\ known \subseteq Items
  /\ repeated \subseteq Items
  /\ overlapped \subseteq Items
  /\ restarts \in 0..MaxRestarts

Init ==
  /\ queued = Leftover
  /\ tries = [i \in Items |-> 0]
  /\ due = [i \in Items |-> 0]
  /\ pc = [d \in Drains |-> IF d = Loop THEN "starting"
                            ELSE IF d \in Leftover THEN "done" ELSE "new"]
  /\ at = [d \in Drains |-> NoItem]
  /\ todo = [d \in Drains |-> {}]
  /\ age = [d \in Drains |-> 0]
  /\ copied = [d \in Drains |-> 0]
  /\ part = [d \in Drains |-> 0]
  /\ accepted = {}
  /\ known = {}
  /\ repeated = {}
  /\ overlapped = {}
  /\ restarts = 0

-----------------------------------------------------------------------------
(* A drain.                                                                *)

AtMost(n, bound) == IF n < bound THEN n ELSE bound

\* Each failed attempt adds a retry delay to the wait, up to the longest.
NextAttempt(n) == AtMost(n + 1, MaxBackoff)

\* Mutant of Listed: one file fewer.
ListedOneFewer == {i \in queued : Cardinality({j \in queued : j < i}) < Limit - 1}

\* The files that drain_once goes through: the first ones, due or not.
Listed == {i \in queued : Cardinality({j \in queued : j < i}) < Limit}

\* Mutant of Ready: what was listed is sent, without reading the file again.
ReadyAsListed(rest, elapsed) == {i \in rest : due'[i] <= -elapsed}

\* The files left that exist when they are read, and are due by the clock that
\* the drain read when it began.
Ready(rest, elapsed) == {i \in rest : i \in queued' /\ due'[i] <= -elapsed}

\* Without an await after the previous item: the drain reads on until it finds
\* an item to send, or ends.
StartNext(d, rest, elapsed) ==
  IF Ready(rest, elapsed) = {}
  THEN /\ pc' = [pc EXCEPT ![d] = IF d = Loop THEN "starting" ELSE "done"]
       /\ at' = [at EXCEPT ![d] = NoItem]
       /\ todo' = [todo EXCEPT ![d] = {}]
       /\ copied' = [copied EXCEPT ![d] = 0]
       /\ part' = [part EXCEPT ![d] = 0]
       /\ age' = [age EXCEPT ![d] = 0]
       /\ UNCHANGED overlapped
  ELSE LET next == Min(Ready(rest, elapsed)) IN
       /\ pc' = [pc EXCEPT ![d] = "sending"]
       /\ at' = [at EXCEPT ![d] = next]
       /\ todo' = [todo EXCEPT ![d] = {i \in rest : i > next}]
       /\ copied' = [copied EXCEPT ![d] = NextAttempt(tries'[next])]
       /\ part' = [part EXCEPT ![d] = 0]
       /\ age' = [age EXCEPT ![d] = elapsed]
       /\ overlapped' = IF \E e \in Drains \ {d} : at[e] = next
                        THEN overlapped \cup {next}
                        ELSE overlapped

\* enqueue_text, and the drain of the same turn is about to list the directory.
Enqueue(i) ==
  /\ pc[i] = "new"
  /\ queued' = queued \cup {i}
  /\ pc' = [pc EXCEPT ![i] = "starting"]
  /\ UNCHANGED <<tries, due, at, todo, age, copied, part, accepted, historyVars, restarts>>

\* The clock is read and the directory listed, in a thread.
List(d) ==
  /\ pc[d] = "starting"
  /\ pc' = [pc EXCEPT ![d] = "listed"]
  /\ todo' = [todo EXCEPT ![d] = Listed]
  /\ UNCHANGED <<fileVars, at, age, copied, part, accepted, historyVars, restarts>>

\* The list is there: the first item is taken up.
Begin(d) ==
  /\ pc[d] = "listed"
  /\ UNCHANGED <<fileVars, accepted, known, repeated, restarts>>
  /\ StartNext(d, todo[d], age[d])

AtEnd(d) == part[d] + 1 = LastPart(at[d])

\* The items known to be sent that Telegram gets again with the parts of these drains.
Repeats(ds) == {at[d] : d \in {e \in ds : AtEnd(e) /\ at[e] \in known}}

\* The whole item was sent: its file is unlinked, if it is still there.
Complete(d) ==
  LET i == at[d] IN
  /\ queued' = queued \ {i}
  /\ tries' = [tries EXCEPT ![i] = 0]
  /\ due' = [due EXCEPT ![i] = 0]
  /\ known' = known \cup {i}
  /\ StartNext(d, todo[d], age[d])

PartDone(d) ==
  IF AtEnd(d)
  THEN Complete(d)
  ELSE /\ part' = [part EXCEPT ![d] = @ + 1]
       /\ UNCHANGED <<fileVars, pc, at, todo, age, copied, known, overlapped>>

AcceptPart(d) ==
  /\ pc[d] = "sending"
  /\ at[d] \notin Poison
  /\ accepted' = accepted \cup {<<at[d], part[d] + 1>>}
  /\ repeated' = repeated \cup Repeats({d})
  /\ PartDone(d)
  /\ UNCHANGED restarts

\* Mutant of SkipFile: a network error in a text chunk is swallowed as well.
SkipAnyPart(d) ==
  /\ pc[d] = "sending"
  /\ PartDone(d)
  /\ UNCHANGED <<accepted, repeated, restarts>>

\* send_file swallows a network error, and reports other failures in a message.
SkipFile(d) ==
  /\ pc[d] = "sending"
  /\ part[d] = ChunksOf[at[d]]
  /\ PartDone(d)
  /\ UNCHANGED <<accepted, repeated, restarts>>

\* send_rich raised, with or without Telegram having accepted the part: the
\* connection may die before the answer (README.md:116-119).  The dict goes back to the file, whether or not the file is still there.
FailPart(d) ==
  LET i == at[d] IN
  /\ pc[d] = "sending"
  /\ \/ UNCHANGED <<accepted, repeated>>
     \/ /\ i \notin Poison
        /\ accepted' = accepted \cup {<<i, part[d] + 1>>}
        /\ repeated' = repeated \cup Repeats({d})
  /\ queued' = queued \cup {i}
  /\ tries' = [tries EXCEPT ![i] = copied[d]]
  /\ due' = [due EXCEPT ![i] = copied[d] - age[d]]
  /\ StartNext(d, todo[d], age[d])
  /\ UNCHANGED <<known, restarts>>

-----------------------------------------------------------------------------

Busy == {"listed", "sending"}

Tick ==
  /\ \A d \in Drains : pc[d] \in Busy => age[d] < MaxAge
  /\ due' = [i \in Items |-> IF i \in queued /\ due[i] > -MaxAge THEN due[i] - 1 ELSE due[i]]
  /\ age' = [d \in Drains |-> IF pc[d] \in Busy THEN age[d] + 1 ELSE age[d]]
  /\ UNCHANGED <<queued, tries, drainVars, accepted, historyVars, restarts>>

\* The process dies, or is restarted and cancels its drains: the files remain, also
\* those of which Telegram got what was under way (the last part of some perhaps,
\* accepted but not unlinked).
Restart ==
  /\ restarts < MaxRestarts
  /\ restarts' = restarts + 1
  /\ \E arrived \in SUBSET {d \in Drains : pc[d] = "sending" /\ at[d] \notin Poison} :
       /\ accepted' = accepted \cup {<<at[d], part[d] + 1>> : d \in arrived}
       /\ repeated' = repeated \cup Repeats(arrived)
  /\ pc' = [d \in Drains |-> IF d = Loop THEN "starting"
                             ELSE IF pc[d] = "new" THEN "new" ELSE "done"]
  /\ at' = [d \in Drains |-> NoItem]
  /\ todo' = [d \in Drains |-> {}]
  /\ age' = [d \in Drains |-> 0]
  /\ copied' = [d \in Drains |-> 0]
  /\ part' = [d \in Drains |-> 0]
  /\ UNCHANGED <<fileVars, known, overlapped>>

Next ==
  \/ \E i \in Items : Enqueue(i)
  \/ \E d \in Drains : List(d) \/ Begin(d) \/ AcceptPart(d) \/ SkipFile(d) \/ FailPart(d)
  \/ Tick
  \/ Restart

Spec == Init /\ [][Next]_vars

\* A send returns or raises (the HTTP client has a timeout), the loop goes on,
\* time passes.  Outages are temporary: a part that the loop tries to send again
\* and again is accepted in the end, unless Telegram rejects it for good.
Fairness ==
  /\ \A d \in Drains :
       /\ WF_vars(List(d) \/ Begin(d))
       /\ WF_vars(AcceptPart(d) \/ SkipFile(d) \/ FailPart(d))
  /\ \A i \in Items \ Poison : \A n \in 1..LastPart(i) :
       SF_vars(at[Loop] = i /\ part[Loop] + 1 = n /\ AcceptPart(Loop))
  /\ WF_vars(Tick)

FairSpec == Spec /\ Fairness

-----------------------------------------------------------------------------
(* Properties.                                                             *)

\* A reply leaves the disk only when Telegram has accepted its text, all of it:
\* "deleted only after a successful send" (README.md:105), whichever drain
\* deletes it and whatever other drains and restarts do.
NothingLost ==
  \A i \in Items : pc[i] # "new" /\ i \notin queued => TextOf(i) \subseteq accepted

\* Once a drain was told that Telegram has the last part of a reply, Telegram does
\* not get the reply to the end again, from a list taken before, from a file written
\* back or after a restart, unless two drains were sending it at the same time.  (A
\* reply for which the answer was lost, or the process died before the unlink, is
\* sent again by design, README.md:116-119: nobody was told.)
KnownOnlyOnce == repeated \subseteq overlapped

\* Every reply that Telegram takes is delivered in the end, through outages,
\* restarts and replies that Telegram never takes.
EveryReplyDelivered ==
  \A i \in Items \ Poison : pc[i] # "new" ~> TextOf(i) \subseteq accepted

=============================================================================
