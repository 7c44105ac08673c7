------------------------ MODULE NamedSessionsProofs ------------------------
(* What the named sessions guarantee for every set of names and of jobs, and *)
(* any number of crashes.                                                    *)
EXTENDS NamedSessions, FiniteSetTheorems, TLAPS

Busy == {"checked", "task", "delivering", "foreground"}
AtWork == {"task", "delivering", "foreground"}

\* A job that has passed the check of a session refers to one.
BusyNamed == \A j \in Jobs : at[j] \in Busy => name[j] \in Names

\* Two jobs are let into a session only if that session is in overlap.
OneInside ==
  \A i, j \in Jobs :
    at[i] \in Busy /\ at[j] \in Busy /\ name[i] = name[j] /\ name[i] \notin overlap => i = j

\* No job survives the process.
NobodyWhenDown == up = "down" => \A j \in Jobs : at[j] \notin Busy

\* While resumptions are submitted, nobody else is at work, least of all on a
\* session that is still to be resumed.
OnlyResumptions ==
  up = "starting" =>
    /\ overlap = {}
    /\ \A j \in Jobs : at[j] \in Busy => name[j] \notin pending

\* A session that says it is running is, unless its status is stuck.
RunningIsWorkedOn ==
  up # "down" => \A n \in Names : status[n] = "running" /\ n \notin stuck =>
    \E j \in Jobs : name[j] = n /\ at[j] \in AtWork

\* Nobody works on an idle session that is not in overlap.
IdleIsFree ==
  \A n \in Names \ overlap : status[n] = "idle" =>
    \A j \in Jobs : name[j] = n => at[j] \notin AtWork

\* A session that ended quietly is ended and nobody is inside.
QuietIsOver ==
  \A n \in quiet : status[n] = "ended" /\ \A j \in Jobs : name[j] = n => at[j] \notin Busy

\* What is not in unsaved is in the file.
FileIsTrue ==
  \A n \in Names \ unsaved :
    file[n].status = IF status[n] = "ended" THEN "absent" ELSE status[n]

\* What the crash has left behind.
CrashRecorded ==
  up = "down" =>
    /\ leftover = unsaved \cup stuck
    /\ \A n \in Names : status[n] = "running" /\ n \notin stuck =>
         \E j \in Jobs : name[j] = n /\ at[j] = "lost"

SessionsInv ==
  /\ TypeInv /\ BusyNamed /\ OneInside /\ NobodyWhenDown /\ OnlyResumptions
  /\ RunningIsWorkedOn /\ IdleIsFree /\ QuietIsOver /\ FileIsTrue
  /\ CrashRecorded /\ ResumedWasRunning

\* The bot starts with no named session.
LEMMA SessionsInit ==
  ASSUME NamedAssumption, Init
  PROVE  SessionsInv
BY DEF NamedAssumption, Init, SessionsInv, TypeInv, BusyNamed, OneInside, NobodyWhenDown,
       OnlyResumptions, RunningIsWorkedOn, IdleIsFree, QuietIsOver, FileIsTrue,
       CrashRecorded, ResumedWasRunning, Busy, AtWork, Phases, Statuses

\* _persist writes every session that has not ended, with its status.
LEMMA WrittenIs ==
  \A now \in [Names -> Statuses] :
    /\ Written(now) \in [Names -> [status : Statuses \ {"ended"}, known : BOOLEAN]]
    /\ \A n \in Names :
         Written(now)[n].status = IF now[n] = "ended" THEN "absent" ELSE now[n]
BY DEF Written, Statuses

\* After _persist the file says of every session what the memory says of it.
LEMMA PersistIsTrue ==
  ASSUME status' \in [Names -> Statuses], Persist
  PROVE  /\ file' \in [Names -> [status : Statuses \ {"ended"}, known : BOOLEAN]]
         /\ unsaved' = {}
         /\ FileIsTrue'
BY WrittenIs DEF Persist, FileIsTrue

\* A /session command: a new session and the task that works for it.
LEMMA CreateKeeps ==
  ASSUME NamedAssumption, SessionsInv, NEW j \in Jobs, Create(j)
  PROVE  SessionsInv'
<1> DEFINE Full == /\ Move(j, "done")
                   /\ UNCHANGED <<memory, name, overlap, stuck, quiet, unsaved>>
           Fresh(n) == /\ SetStatus(n, "running") /\ known' = known \ {n} /\ Persist
                       /\ name' = [name EXCEPT ![j] = n]
                       /\ overlap' = IF Inside(n) = {} THEN overlap \ {n}
                                                       ELSE overlap \cup {n}
                       /\ quiet' = quiet \ {n}
                       /\ Submit(j, n)
<1>1. /\ up = "up" /\ at[j] = "new"
      /\ UNCHANGED <<control, host, leftover>>
      /\ Full \/ \E n \in Names \ Active : Fresh(n)
  BY DEF Create
<1>2. CASE Full
  <2>1. TypeInv'
    BY NamedAssumption, <1>1, <1>2 DEF SessionsInv, TypeInv, Phases, Statuses,
       BusyNamed, Busy, Move, memory, control, host
  <2>2. BusyNamed'
    BY <1>1, <1>2 DEF SessionsInv, TypeInv, BusyNamed, Busy, Move, memory, control,
       host
  <2>3. OneInside'
    BY <1>1, <1>2 DEF SessionsInv, TypeInv, OneInside, NobodyWhenDown,
       OnlyResumptions, Busy, Move, memory, control, host
  <2>4. NobodyWhenDown'
    BY <1>1, <1>2 DEF SessionsInv, TypeInv, NobodyWhenDown, Busy, Move, memory,
       control, host
  <2>5. OnlyResumptions'
    BY <1>1, <1>2 DEF SessionsInv, TypeInv, OnlyResumptions, NobodyWhenDown, Busy,
       Move, memory, control, host
  <2>6. RunningIsWorkedOn'
    BY <1>1, <1>2 DEF SessionsInv, TypeInv, RunningIsWorkedOn, AtWork, Move, memory,
       control, host
  <2>7. IdleIsFree'
    BY <1>1, <1>2 DEF SessionsInv, TypeInv, IdleIsFree, OneInside, NobodyWhenDown,
       OnlyResumptions, AtWork, Busy, Move, memory, control, host
  <2>8. QuietIsOver'
    BY <1>1, <1>2 DEF SessionsInv, TypeInv, QuietIsOver, Busy, Move, memory,
       control, host
  <2>9. FileIsTrue'
    BY <1>2 DEF SessionsInv, FileIsTrue, memory
  <2>10. CrashRecorded'
    BY <1>1, <1>2 DEF SessionsInv, TypeInv, CrashRecorded, RunningIsWorkedOn,
       AtWork, Move, memory, control, host
  <2>11. ResumedWasRunning'
    BY <1>1, <1>2 DEF SessionsInv, TypeInv, Phases, Statuses, ResumedWasRunning,
       FileIsTrue, CrashRecorded, AtWork, Move, memory, control, host
  <2> QED
    BY <2>1, <2>2, <2>3, <2>4, <2>5, <2>6, <2>7, <2>8, <2>9, <2>10, <2>11 DEF
       SessionsInv
<1>3. CASE \E n \in Names \ Active : Fresh(n)
  <2> PICK n \in Names \ Active : Fresh(n)
    BY <1>3
  <2>0. /\ n \in Names /\ status[n] \in {"absent", "ended"}
        /\ status' = [status EXCEPT ![n] = "running"]
        /\ name' = [name EXCEPT ![j] = n]
        /\ known' = known \ {n}
        /\ file' = Written(status') /\ unsaved' = {}
        /\ overlap' = IF Inside(n) = {} THEN overlap \ {n} ELSE overlap \cup {n}
        /\ quiet' = quiet \ {n}
        /\ \/ at' = [at EXCEPT ![j] = "done"] /\ stuck' = stuck \cup {n}
           \/ at' = [at EXCEPT ![j] = "task"] /\ stuck' = stuck \ {n}
    BY DEF SessionsInv, TypeInv, Statuses, Active, SetStatus, Persist, Submit, Move
  <2> HIDE DEF Fresh
  <2>1. TypeInv'
    <3>1. status' \in [Names -> Statuses]
      BY <2>0 DEF SessionsInv, TypeInv, Statuses
    <3>2. file' \in [Names -> [status : Statuses \ {"ended"}, known : BOOLEAN]]
      BY <2>0, <3>1, PersistIsTrue DEF Persist
    <3>3. at' \in [Jobs -> Phases] /\ name' \in [Jobs -> Names \cup {NoName}]
      BY <2>0 DEF SessionsInv, TypeInv, Phases
    <3>4. /\ known' \subseteq Names /\ overlap' \subseteq Names /\ stuck' \subseteq Names
          /\ quiet' \subseteq Names /\ unsaved' \subseteq Names
      BY <2>0 DEF SessionsInv, TypeInv
    <3> QED
      BY <1>1, <3>1, <3>2, <3>3, <3>4 DEF SessionsInv, TypeInv, control, host
  <2>2. BusyNamed'
    BY <1>1, <2>0 DEF SessionsInv, TypeInv, BusyNamed, Busy, Inside, Working,
       control, host
  <2>3. OneInside'
    BY <1>1, <2>0 DEF SessionsInv, TypeInv, OneInside, NobodyWhenDown,
       OnlyResumptions, Busy, Inside, Working, control, host
  <2>4. NobodyWhenDown'
    BY <1>1, <2>0 DEF SessionsInv, TypeInv, NobodyWhenDown, Busy, Inside, Working,
       control, host
  <2>5. OnlyResumptions'
    BY <1>1, <2>0 DEF SessionsInv, TypeInv, OnlyResumptions, NobodyWhenDown, Busy,
       Inside, Working, control, host
  <2>6. RunningIsWorkedOn'
    BY <1>1, <2>0 DEF SessionsInv, TypeInv, RunningIsWorkedOn, AtWork, Inside,
       Working, control, host
  <2>7. IdleIsFree'
    BY <1>1, <2>0 DEF SessionsInv, TypeInv, IdleIsFree, OneInside, NobodyWhenDown,
       OnlyResumptions, AtWork, Busy, Inside, Working, control, host
  <2>8. QuietIsOver'
    BY <1>1, <2>0 DEF SessionsInv, TypeInv, QuietIsOver, Busy, Inside, Working,
       control, host
  <2>9. FileIsTrue'
    <3>1. status' \in [Names -> Statuses]
      BY <2>0 DEF SessionsInv, TypeInv, Statuses
    <3> QED
      BY <2>0, <3>1, PersistIsTrue DEF Persist
  <2>10. CrashRecorded'
    BY <1>1, <2>0 DEF SessionsInv, TypeInv, CrashRecorded, RunningIsWorkedOn,
       AtWork, Inside, Working, control, host
  <2>11. ResumedWasRunning'
    BY <1>1, <2>0 DEF SessionsInv, TypeInv, Phases, Statuses, ResumedWasRunning,
       FileIsTrue, CrashRecorded, AtWork, Inside, Working, control, host
  <2> QED
    BY <2>1, <2>2, <2>3, <2>4, <2>5, <2>6, <2>7, <2>8, <2>9, <2>10, <2>11 DEF
       SessionsInv
<1> QED
  BY <1>1, <1>2, <1>3

\* A follow-up is let into an idle session or sent away.
LEMMA CheckKeeps ==
  ASSUME NamedAssumption, SessionsInv, NEW j \in Jobs, Check(j)
  PROVE  SessionsInv'
<1>1. TypeInv'
  BY NamedAssumption DEF SessionsInv, TypeInv, Phases, Statuses, BusyNamed, Busy,
     Check, Move, Inside, Working, memory, control, host
<1>2. BusyNamed'
  BY DEF SessionsInv, TypeInv, BusyNamed, Busy, Check, Move, Inside, Working,
     memory, control, host
<1>3. OneInside'
  BY DEF SessionsInv, TypeInv, OneInside, NobodyWhenDown, OnlyResumptions, Busy,
     Check, Move, Inside, Working, memory, control, host
<1>4. NobodyWhenDown'
  BY DEF SessionsInv, TypeInv, NobodyWhenDown, Busy, Check, Move, Inside, Working,
     memory, control, host
<1>5. OnlyResumptions'
  BY DEF SessionsInv, TypeInv, OnlyResumptions, NobodyWhenDown, Busy, Check, Move,
     Inside, Working, memory, control, host
<1>6. RunningIsWorkedOn'
  BY DEF SessionsInv, TypeInv, RunningIsWorkedOn, AtWork, Check, Move, Inside,
     Working, memory, control, host
<1>7. IdleIsFree'
  BY DEF SessionsInv, TypeInv, IdleIsFree, OneInside, NobodyWhenDown,
     OnlyResumptions, AtWork, Busy, Check, Move, Inside, Working, memory, control,
     host
<1>8. QuietIsOver'
  BY DEF SessionsInv, TypeInv, QuietIsOver, Busy, Check, Move, Inside, Working,
     memory, control, host
<1>9. FileIsTrue'
  BY DEF SessionsInv, TypeInv, Phases, Statuses, FileIsTrue, BusyNamed, Busy, Check,
     Move, Inside, Working, memory, control, host
<1>10. CrashRecorded'
  BY DEF SessionsInv, TypeInv, CrashRecorded, RunningIsWorkedOn, AtWork, Check,
     Move, Inside, Working, memory, control, host
<1>11. ResumedWasRunning'
  BY DEF SessionsInv, TypeInv, Phases, Statuses, ResumedWasRunning, FileIsTrue,
     CrashRecorded, AtWork, Check, Move, Inside, Working, memory, control, host
<1> QED
  BY <1>1, <1>2, <1>3, <1>4, <1>5, <1>6, <1>7, <1>8, <1>9, <1>10, <1>11 DEF
     SessionsInv

\* The policy has refused every model to a follow-up.
LEMMA DeniedKeeps ==
  ASSUME NamedAssumption, SessionsInv, NEW j \in Jobs, Denied(j)
  PROVE  SessionsInv'
<1>1. TypeInv'
  BY NamedAssumption DEF SessionsInv, TypeInv, Phases, Statuses, BusyNamed, Busy,
     Denied, Move, memory, control, host, history
<1>2. BusyNamed'
  BY DEF SessionsInv, TypeInv, BusyNamed, Busy, Denied, Move, memory, control, host,
     history
<1>3. OneInside'
  BY DEF SessionsInv, TypeInv, OneInside, NobodyWhenDown, OnlyResumptions, Busy,
     Denied, Move, memory, control, host, history
<1>4. NobodyWhenDown'
  BY DEF SessionsInv, TypeInv, NobodyWhenDown, Busy, Denied, Move, memory, control,
     host, history
<1>5. OnlyResumptions'
  BY DEF SessionsInv, TypeInv, OnlyResumptions, NobodyWhenDown, Busy, Denied, Move,
     memory, control, host, history
<1>6. RunningIsWorkedOn'
  BY DEF SessionsInv, TypeInv, RunningIsWorkedOn, AtWork, Denied, Move, memory,
     control, host, history
<1>7. IdleIsFree'
  BY DEF SessionsInv, TypeInv, IdleIsFree, OneInside, NobodyWhenDown,
     OnlyResumptions, AtWork, Busy, Denied, Move, memory, control, host, history
<1>8. QuietIsOver'
  BY DEF SessionsInv, TypeInv, QuietIsOver, Busy, Denied, Move, memory, control,
     host, history
<1>9. FileIsTrue'
  BY DEF SessionsInv, TypeInv, Phases, Statuses, FileIsTrue, BusyNamed, Busy,
     Denied, Move, memory, control, host, history
<1>10. CrashRecorded'
  BY DEF SessionsInv, TypeInv, CrashRecorded, RunningIsWorkedOn, AtWork, Denied,
     Move, memory, control, host, history
<1>11. ResumedWasRunning'
  BY DEF SessionsInv, TypeInv, Phases, Statuses, ResumedWasRunning, FileIsTrue,
     CrashRecorded, AtWork, Denied, Move, memory, control, host, history
<1> QED
  BY <1>1, <1>2, <1>3, <1>4, <1>5, <1>6, <1>7, <1>8, <1>9, <1>10, <1>11 DEF
     SessionsInv

\* A follow-up that was let in marks the session as running.
LEMMA MarkKeeps ==
  ASSUME NamedAssumption, SessionsInv, NEW j \in Jobs, Mark(j)
  PROVE  SessionsInv'
<1> DEFINE n == name[j]
<1>1. /\ up = "up" /\ at[j] = "checked" /\ n \in Names
      /\ UNCHANGED <<known, name, control, host, overlap, quiet, leftover>>
      /\ status' \in [Names -> Statuses]
  BY DEF SessionsInv, TypeInv, BusyNamed, Busy, Statuses, Mark, SetStatus
<1>2. ASSUME status' = [status EXCEPT ![n] = "running"], Persist,
             \/ at' = [at EXCEPT ![j] = "done"] /\ stuck' = stuck \cup {n}
             \/ at' = [at EXCEPT ![j] = "task"] /\ stuck' = stuck \ {n}
             \/ at' = [at EXCEPT ![j] = "foreground"] /\ stuck' = stuck \ {n}
      PROVE  SessionsInv'
  <2>1. TypeInv'
    <3>1. at' \in [Jobs -> Phases] /\ stuck' \subseteq Names
      BY <1>1, <1>2 DEF SessionsInv, TypeInv, Phases
    <3> QED
      BY <1>1, <1>2, <3>1, PersistIsTrue DEF SessionsInv, TypeInv, control, host
  <2>2. BusyNamed'
    BY <1>1, <1>2 DEF SessionsInv, TypeInv, BusyNamed, Busy, Persist, control, host
  <2>3. OneInside'
    BY <1>1, <1>2 DEF SessionsInv, TypeInv, OneInside, NobodyWhenDown,
       OnlyResumptions, Busy, Persist, control, host
  <2>4. NobodyWhenDown'
    BY <1>1, <1>2 DEF SessionsInv, TypeInv, NobodyWhenDown, Busy, Persist, control,
       host
  <2>5. OnlyResumptions'
    BY <1>1, <1>2 DEF SessionsInv, TypeInv, OnlyResumptions, NobodyWhenDown, Busy,
       Persist, control, host
  <2>6. RunningIsWorkedOn'
    BY <1>1, <1>2 DEF SessionsInv, TypeInv, RunningIsWorkedOn, AtWork, Persist,
       control, host
  <2>7. IdleIsFree'
    BY <1>1, <1>2 DEF SessionsInv, TypeInv, IdleIsFree, OneInside, NobodyWhenDown,
       OnlyResumptions, AtWork, Busy, Persist, control, host
  <2>8. QuietIsOver'
    BY <1>1, <1>2 DEF SessionsInv, TypeInv, QuietIsOver, Busy, Persist, control,
       host
  <2>9. FileIsTrue'
    BY <1>1, <1>2, PersistIsTrue
  <2>10. CrashRecorded'
    BY <1>1, <1>2 DEF SessionsInv, TypeInv, CrashRecorded, RunningIsWorkedOn,
       AtWork, Persist, control, host
  <2>11. ResumedWasRunning'
    BY <1>1, <1>2 DEF SessionsInv, TypeInv, Phases, Statuses, ResumedWasRunning,
       FileIsTrue, CrashRecorded, AtWork, Persist, control, host
  <2> QED
    BY <2>1, <2>2, <2>3, <2>4, <2>5, <2>6, <2>7, <2>8, <2>9, <2>10, <2>11 DEF
       SessionsInv
<1>3. ASSUME status' = [status EXCEPT ![n] = "idle"], at' = [at EXCEPT ![j] = "done"],
             file' = Written([status EXCEPT ![n] = "running"]), unsaved' = {n},
             UNCHANGED stuck
      PROVE  SessionsInv'
  <2>0. [status EXCEPT ![n] = "running"] \in [Names -> Statuses]
    BY <1>1 DEF SessionsInv, TypeInv, Statuses
  <2>1. TypeInv'
    <3>1. at' \in [Jobs -> Phases]
      BY <1>3 DEF SessionsInv, TypeInv, Phases
    <3>2. file' \in [Names -> [status : Statuses \ {"ended"}, known : BOOLEAN]]
      BY <1>3, <2>0, WrittenIs
    <3> QED
      BY <1>1, <1>3, <3>1, <3>2 DEF SessionsInv, TypeInv, control, host
  <2>2. BusyNamed'
    BY <1>1, <1>3 DEF SessionsInv, TypeInv, BusyNamed, Busy, control, host
  <2>3. OneInside'
    BY <1>1, <1>3 DEF SessionsInv, TypeInv, OneInside, NobodyWhenDown,
       OnlyResumptions, Busy, control, host
  <2>4. NobodyWhenDown'
    BY <1>1, <1>3 DEF SessionsInv, TypeInv, NobodyWhenDown, Busy, control, host
  <2>5. OnlyResumptions'
    BY <1>1, <1>3 DEF SessionsInv, TypeInv, OnlyResumptions, NobodyWhenDown, Busy,
       control, host
  <2>6. RunningIsWorkedOn'
    BY <1>1, <1>3 DEF SessionsInv, TypeInv, RunningIsWorkedOn, AtWork, control, host
  <2>7. IdleIsFree'
    BY <1>1, <1>3 DEF SessionsInv, TypeInv, IdleIsFree, OneInside, NobodyWhenDown,
       OnlyResumptions, AtWork, Busy, control, host
  <2>8. QuietIsOver'
    BY <1>1, <1>3 DEF SessionsInv, TypeInv, QuietIsOver, Busy, control, host
  <2>9. FileIsTrue'
    BY <1>1, <1>3, <2>0, WrittenIs DEF SessionsInv, TypeInv, Phases, Statuses,
       FileIsTrue, BusyNamed, Busy, control, host
  <2>10. CrashRecorded'
    BY <1>1, <1>3 DEF SessionsInv, TypeInv, CrashRecorded, RunningIsWorkedOn,
       AtWork, control, host
  <2>11. ResumedWasRunning'
    BY <1>1, <1>3 DEF SessionsInv, TypeInv, Phases, Statuses, ResumedWasRunning,
       FileIsTrue, CrashRecorded, AtWork, control, host
  <2> QED
    BY <2>1, <2>2, <2>3, <2>4, <2>5, <2>6, <2>7, <2>8, <2>9, <2>10, <2>11 DEF
       SessionsInv
<1> QED
  BY <1>2, <1>3 DEF Mark, SetStatus, Submit, Move

\* The CLI of a follow-up in the foreground is back.
LEMMA AnsweredKeeps ==
  ASSUME NamedAssumption, SessionsInv, NEW j \in Jobs, Answered(j)
  PROVE  SessionsInv'
<1>1. TypeInv'
  BY NamedAssumption, WrittenIs DEF SessionsInv, TypeInv, Phases, Statuses,
     BusyNamed, Busy, Answered, Move, SetStatus, Persist, InMemory, memory, control,
     host
<1>2. BusyNamed'
  BY DEF SessionsInv, TypeInv, BusyNamed, Busy, Answered, Move, SetStatus, Persist,
     InMemory, memory, control, host
<1>3. OneInside'
  BY DEF SessionsInv, TypeInv, OneInside, NobodyWhenDown, OnlyResumptions, Busy,
     Answered, Move, SetStatus, Persist, InMemory, memory, control, host
<1>4. NobodyWhenDown'
  BY DEF SessionsInv, TypeInv, NobodyWhenDown, Busy, Answered, Move, SetStatus,
     Persist, InMemory, memory, control, host
<1>5. OnlyResumptions'
  BY DEF SessionsInv, TypeInv, OnlyResumptions, NobodyWhenDown, Busy, Answered,
     Move, SetStatus, Persist, InMemory, memory, control, host
<1>6. RunningIsWorkedOn'
  BY DEF SessionsInv, TypeInv, RunningIsWorkedOn, AtWork, Answered, Move, SetStatus,
     Persist, InMemory, memory, control, host
<1>7. IdleIsFree'
  BY DEF SessionsInv, TypeInv, IdleIsFree, OneInside, NobodyWhenDown,
     OnlyResumptions, AtWork, Busy, Answered, Move, SetStatus, Persist, InMemory,
     memory, control, host
<1>8. QuietIsOver'
  BY DEF SessionsInv, TypeInv, QuietIsOver, Busy, Answered, Move, SetStatus,
     Persist, InMemory, memory, control, host
<1>9. FileIsTrue'
  BY WrittenIs DEF SessionsInv, TypeInv, Phases, Statuses, FileIsTrue, BusyNamed,
     Busy, Answered, Move, SetStatus, Persist, InMemory, memory, control, host
<1>10. CrashRecorded'
  BY DEF SessionsInv, TypeInv, CrashRecorded, RunningIsWorkedOn, AtWork, Answered,
     Move, SetStatus, Persist, InMemory, memory, control, host
<1>11. ResumedWasRunning'
  BY DEF SessionsInv, TypeInv, Phases, Statuses, ResumedWasRunning, FileIsTrue,
     CrashRecorded, AtWork, Answered, Move, SetStatus, Persist, Written, InMemory,
     memory, control, host
<1> QED
  BY <1>1, <1>2, <1>3, <1>4, <1>5, <1>6, <1>7, <1>8, <1>9, <1>10, <1>11 DEF
     SessionsInv

\* The CLI of a task is back, or the task was cancelled.
LEMMA ReturnKeeps ==
  ASSUME NamedAssumption, SessionsInv, NEW j \in Jobs, Return(j)
  PROVE  SessionsInv'
<1>1. TypeInv'
  BY NamedAssumption DEF SessionsInv, TypeInv, Phases, Statuses, BusyNamed, Busy,
     Return, Move, memory, control, host, history
<1>2. BusyNamed'
  BY DEF SessionsInv, TypeInv, BusyNamed, Busy, Return, Move, memory, control, host,
     history
<1>3. OneInside'
  BY DEF SessionsInv, TypeInv, OneInside, NobodyWhenDown, OnlyResumptions, Busy,
     Return, Move, memory, control, host, history
<1>4. NobodyWhenDown'
  BY DEF SessionsInv, TypeInv, NobodyWhenDown, Busy, Return, Move, memory, control,
     host, history
<1>5. OnlyResumptions'
  BY DEF SessionsInv, TypeInv, OnlyResumptions, NobodyWhenDown, Busy, Return, Move,
     memory, control, host, history
<1>6. RunningIsWorkedOn'
  BY DEF SessionsInv, TypeInv, RunningIsWorkedOn, AtWork, Return, Move, memory,
     control, host, history
<1>7. IdleIsFree'
  BY DEF SessionsInv, TypeInv, IdleIsFree, OneInside, NobodyWhenDown,
     OnlyResumptions, AtWork, Busy, Return, Move, memory, control, host, history
<1>8. QuietIsOver'
  BY DEF SessionsInv, TypeInv, QuietIsOver, Busy, Return, Move, memory, control,
     host, history
<1>9. FileIsTrue'
  BY DEF SessionsInv, TypeInv, Phases, Statuses, FileIsTrue, BusyNamed, Busy,
     Return, Move, memory, control, host, history
<1>10. CrashRecorded'
  BY DEF SessionsInv, TypeInv, CrashRecorded, RunningIsWorkedOn, AtWork, Return,
     Move, memory, control, host, history
<1>11. ResumedWasRunning'
  BY DEF SessionsInv, TypeInv, Phases, Statuses, ResumedWasRunning, FileIsTrue,
     CrashRecorded, AtWork, Return, Move, memory, control, host, history
<1> QED
  BY <1>1, <1>2, <1>3, <1>4, <1>5, <1>6, <1>7, <1>8, <1>9, <1>10, <1>11 DEF
     SessionsInv

\* A task delivers its result and marks its session as idle.
LEMMA DeliverKeeps ==
  ASSUME NamedAssumption, SessionsInv, NEW j \in Jobs, Deliver(j)
  PROVE  SessionsInv'
<1>1. TypeInv'
  BY NamedAssumption, WrittenIs DEF SessionsInv, TypeInv, Phases, Statuses,
     BusyNamed, Busy, Deliver, Move, SetStatus, Persist, control, host
<1>2. BusyNamed'
  BY DEF SessionsInv, TypeInv, BusyNamed, Busy, Deliver, Move, SetStatus, Persist,
     control, host
<1>3. OneInside'
  BY DEF SessionsInv, TypeInv, OneInside, NobodyWhenDown, OnlyResumptions, Busy,
     Deliver, Move, SetStatus, Persist, control, host
<1>4. NobodyWhenDown'
  BY DEF SessionsInv, TypeInv, NobodyWhenDown, Busy, Deliver, Move, SetStatus,
     Persist, control, host
<1>5. OnlyResumptions'
  BY DEF SessionsInv, TypeInv, OnlyResumptions, NobodyWhenDown, Busy, Deliver, Move,
     SetStatus, Persist, control, host
<1>6. RunningIsWorkedOn'
  BY DEF SessionsInv, TypeInv, RunningIsWorkedOn, AtWork, Deliver, Move, SetStatus,
     Persist, control, host
<1>7. IdleIsFree'
  BY DEF SessionsInv, TypeInv, IdleIsFree, OneInside, NobodyWhenDown,
     OnlyResumptions, AtWork, Busy, Deliver, Move, SetStatus, Persist, control, host
<1>8. QuietIsOver'
  BY DEF SessionsInv, TypeInv, QuietIsOver, Busy, Deliver, Move, SetStatus, Persist,
     control, host
<1>9. FileIsTrue'
  BY WrittenIs DEF SessionsInv, TypeInv, Phases, Statuses, FileIsTrue, BusyNamed,
     Busy, Deliver, Move, SetStatus, Persist, control, host
<1>10. CrashRecorded'
  BY DEF SessionsInv, TypeInv, CrashRecorded, RunningIsWorkedOn, AtWork, Deliver,
     Move, SetStatus, Persist, control, host
<1>11. ResumedWasRunning'
  BY DEF SessionsInv, TypeInv, Phases, Statuses, ResumedWasRunning, FileIsTrue,
     CrashRecorded, AtWork, Deliver, Move, SetStatus, Persist, Written, control,
     host
<1> QED
  BY <1>1, <1>2, <1>3, <1>4, <1>5, <1>6, <1>7, <1>8, <1>9, <1>10, <1>11 DEF
     SessionsInv

\* The restart submits a resumption.
LEMMA ResumeKeeps ==
  ASSUME NamedAssumption, SessionsInv, NEW j \in Jobs, Resume(j)
  PROVE  SessionsInv'
<1>a. /\ status' \in [Names -> Statuses]
      /\ Persist \/ UNCHANGED <<status, file, unsaved>>
      /\ UNCHANGED <<control, known, up, crashes, overlap, quiet, leftover>>
  BY DEF SessionsInv, TypeInv, Statuses, Resume, SetStatus
<1>1. TypeInv'
  <2>1. at' \in [Jobs -> Phases] /\ name' \in [Jobs -> Names \cup {NoName}]
    BY DEF SessionsInv, TypeInv, Phases, Resume, Move, Submit
  <2>2. pending' \subseteq Names /\ stuck' \subseteq Names
    BY DEF SessionsInv, TypeInv, Resume, Submit
  <2>3. /\ file' \in [Names -> [status : Statuses \ {"ended"}, known : BOOLEAN]]
        /\ unsaved' \subseteq Names
    BY <1>a, PersistIsTrue DEF SessionsInv, TypeInv
  <2> QED
    BY <1>a, <2>1, <2>2, <2>3 DEF SessionsInv, TypeInv, control
<1>2. BusyNamed'
  BY DEF SessionsInv, TypeInv, BusyNamed, Busy, Resume, Move, SetStatus, Persist,
     Submit, Tasks, control
<1>3. OneInside'
  BY DEF SessionsInv, TypeInv, OneInside, NobodyWhenDown, OnlyResumptions, Busy,
     Resume, Move, SetStatus, Persist, Submit, Tasks, control
<1>4. NobodyWhenDown'
  BY DEF SessionsInv, TypeInv, NobodyWhenDown, Busy, Resume, Move, SetStatus,
     Persist, Submit, Tasks, control
<1>5. OnlyResumptions'
  BY DEF SessionsInv, TypeInv, OnlyResumptions, NobodyWhenDown, Busy, Resume, Move,
     SetStatus, Persist, Submit, Tasks, control
<1>6. RunningIsWorkedOn'
  BY DEF SessionsInv, TypeInv, RunningIsWorkedOn, AtWork, Resume, Move, SetStatus,
     Persist, Submit, Tasks, control
<1>7. IdleIsFree'
  BY DEF SessionsInv, TypeInv, IdleIsFree, OneInside, NobodyWhenDown,
     OnlyResumptions, AtWork, Busy, Resume, Move, SetStatus, Persist, Submit, Tasks,
     control
<1>8. QuietIsOver'
  BY DEF SessionsInv, TypeInv, QuietIsOver, Busy, Resume, Move, SetStatus, Persist,
     Submit, Tasks, control
<1>9. FileIsTrue'
  BY <1>a, PersistIsTrue DEF SessionsInv, FileIsTrue
<1>10. CrashRecorded'
  BY DEF SessionsInv, TypeInv, CrashRecorded, RunningIsWorkedOn, AtWork, Resume,
     Move, SetStatus, Persist, Submit, Tasks, control
<1>11. ResumedWasRunning'
  BY DEF SessionsInv, TypeInv, Phases, Statuses, ResumedWasRunning, FileIsTrue,
     CrashRecorded, AtWork, Resume, Move, SetStatus, Persist, Written, Submit,
     Tasks, control
<1> QED
  BY <1>1, <1>2, <1>3, <1>4, <1>5, <1>6, <1>7, <1>8, <1>9, <1>10, <1>11 DEF
     SessionsInv

\* The user presses the button that ends a session.
LEMMA EndButtonKeeps ==
  ASSUME NamedAssumption, SessionsInv, NEW n \in Names, EndButton(n)
  PROVE  SessionsInv'
<1>1. TypeInv'
  BY NamedAssumption DEF SessionsInv, TypeInv, Phases, Statuses, BusyNamed, Busy,
     EndButton, Order, memory, host, history
<1>2. BusyNamed'
  BY DEF SessionsInv, TypeInv, BusyNamed, Busy, EndButton, Order, memory, host,
     history
<1>3. OneInside'
  BY DEF SessionsInv, TypeInv, OneInside, NobodyWhenDown, OnlyResumptions, Busy,
     EndButton, Order, memory, host, history
<1>4. NobodyWhenDown'
  BY DEF SessionsInv, TypeInv, NobodyWhenDown, Busy, EndButton, Order, memory, host,
     history
<1>5. OnlyResumptions'
  BY DEF SessionsInv, TypeInv, OnlyResumptions, NobodyWhenDown, Busy, EndButton,
     Order, memory, host, history
<1>6. RunningIsWorkedOn'
  BY DEF SessionsInv, TypeInv, RunningIsWorkedOn, AtWork, EndButton, Order, memory,
     host, history
<1>7. IdleIsFree'
  BY DEF SessionsInv, TypeInv, IdleIsFree, OneInside, NobodyWhenDown,
     OnlyResumptions, AtWork, Busy, EndButton, Order, memory, host, history
<1>8. QuietIsOver'
  BY DEF SessionsInv, TypeInv, QuietIsOver, Busy, EndButton, Order, memory, host,
     history
<1>9. FileIsTrue'
  BY DEF SessionsInv, TypeInv, Phases, Statuses, FileIsTrue, BusyNamed, Busy,
     EndButton, Order, memory, host, history
<1>10. CrashRecorded'
  BY DEF SessionsInv, TypeInv, CrashRecorded, RunningIsWorkedOn, AtWork, EndButton,
     Order, memory, host, history
<1>11. ResumedWasRunning'
  BY DEF SessionsInv, TypeInv, Phases, Statuses, ResumedWasRunning, FileIsTrue,
     CrashRecorded, AtWork, EndButton, Order, memory, host, history
<1> QED
  BY <1>1, <1>2, <1>3, <1>4, <1>5, <1>6, <1>7, <1>8, <1>9, <1>10, <1>11 DEF
     SessionsInv

\* The session the button names ends.
LEMMA EndSessionKeeps ==
  ASSUME NamedAssumption, SessionsInv, NEW n \in Names, EndSession(n)
  PROVE  SessionsInv'
<1>1. TypeInv'
  BY NamedAssumption, WrittenIs DEF SessionsInv, TypeInv, Phases, Statuses,
     BusyNamed, Busy, EndSession, SetStatus, Persist, Ended, Inside, Working, host
<1>2. BusyNamed'
  BY DEF SessionsInv, TypeInv, BusyNamed, Busy, EndSession, SetStatus, Persist,
     Ended, Inside, Working, host
<1>3. OneInside'
  BY DEF SessionsInv, TypeInv, OneInside, NobodyWhenDown, OnlyResumptions, Busy,
     EndSession, SetStatus, Persist, Ended, Inside, Working, host
<1>4. NobodyWhenDown'
  BY DEF SessionsInv, TypeInv, NobodyWhenDown, Busy, EndSession, SetStatus, Persist,
     Ended, Inside, Working, host
<1>5. OnlyResumptions'
  BY DEF SessionsInv, TypeInv, OnlyResumptions, NobodyWhenDown, Busy, EndSession,
     SetStatus, Persist, Ended, Inside, Working, host
<1>6. RunningIsWorkedOn'
  BY DEF SessionsInv, TypeInv, RunningIsWorkedOn, AtWork, EndSession, SetStatus,
     Persist, Ended, Inside, Working, host
<1>7. IdleIsFree'
  BY DEF SessionsInv, TypeInv, IdleIsFree, OneInside, NobodyWhenDown,
     OnlyResumptions, AtWork, Busy, EndSession, SetStatus, Persist, Ended, Inside,
     Working, host
<1>8. QuietIsOver'
  BY DEF SessionsInv, TypeInv, QuietIsOver, Busy, EndSession, SetStatus, Persist,
     Ended, Inside, Working, host
<1>9. FileIsTrue'
  BY WrittenIs DEF SessionsInv, TypeInv, Phases, Statuses, FileIsTrue, BusyNamed,
     Busy, EndSession, SetStatus, Persist, Ended, Inside, Working, host
<1>10. CrashRecorded'
  BY DEF SessionsInv, TypeInv, CrashRecorded, RunningIsWorkedOn, AtWork, EndSession,
     SetStatus, Persist, Ended, Inside, Working, host
<1>11. ResumedWasRunning'
  BY DEF SessionsInv, TypeInv, Phases, Statuses, ResumedWasRunning, FileIsTrue,
     CrashRecorded, AtWork, EndSession, SetStatus, Persist, Written, Ended, Inside,
     Working, host
<1> QED
  BY <1>1, <1>2, <1>3, <1>4, <1>5, <1>6, <1>7, <1>8, <1>9, <1>10, <1>11 DEF
     SessionsInv

\* All sessions of the chat end.
LEMMA EndAllKeeps ==
  ASSUME NamedAssumption, SessionsInv, EndAll
  PROVE  SessionsInv'
<1>1. TypeInv'
  BY NamedAssumption, WrittenIs DEF SessionsInv, TypeInv, Phases, Statuses,
     BusyNamed, Busy, EndAll, EndAllOf, Persist, Ended, Inside, Working, Order,
     Active, host
<1>2. BusyNamed'
  BY DEF SessionsInv, TypeInv, BusyNamed, Busy, EndAll, EndAllOf, Persist, Ended,
     Inside, Working, Order, Active, host
<1>3. OneInside'
  BY DEF SessionsInv, TypeInv, OneInside, NobodyWhenDown, OnlyResumptions, Busy,
     EndAll, EndAllOf, Persist, Ended, Inside, Working, Order, Active, host
<1>4. NobodyWhenDown'
  BY DEF SessionsInv, TypeInv, NobodyWhenDown, Busy, EndAll, EndAllOf, Persist,
     Ended, Inside, Working, Order, Active, host
<1>5. OnlyResumptions'
  BY DEF SessionsInv, TypeInv, OnlyResumptions, NobodyWhenDown, Busy, EndAll,
     EndAllOf, Persist, Ended, Inside, Working, Order, Active, host
<1>6. RunningIsWorkedOn'
  BY DEF SessionsInv, TypeInv, RunningIsWorkedOn, AtWork, EndAll, EndAllOf, Persist,
     Ended, Inside, Working, Order, Active, host
<1>7. IdleIsFree'
  BY DEF SessionsInv, TypeInv, IdleIsFree, OneInside, NobodyWhenDown,
     OnlyResumptions, AtWork, Busy, EndAll, EndAllOf, Persist, Ended, Inside,
     Working, Order, Active, host
<1>8. QuietIsOver'
  BY DEF SessionsInv, TypeInv, QuietIsOver, Busy, EndAll, EndAllOf, Persist, Ended,
     Inside, Working, Order, Active, host
<1>9. FileIsTrue'
  BY WrittenIs DEF SessionsInv, TypeInv, Phases, Statuses, FileIsTrue, BusyNamed,
     Busy, EndAll, EndAllOf, Persist, Ended, Inside, Working, Order, Active, host
<1>10. CrashRecorded'
  BY DEF SessionsInv, TypeInv, CrashRecorded, RunningIsWorkedOn, AtWork, EndAll,
     EndAllOf, Persist, Ended, Inside, Working, Order, Active, host
<1>11. ResumedWasRunning'
  BY DEF SessionsInv, TypeInv, Phases, Statuses, ResumedWasRunning, FileIsTrue,
     CrashRecorded, AtWork, EndAll, EndAllOf, Persist, Written, Ended, Inside,
     Working, Order, Active, host
<1> QED
  BY <1>1, <1>2, <1>3, <1>4, <1>5, <1>6, <1>7, <1>8, <1>9, <1>10, <1>11 DEF
     SessionsInv

\* The user stops everything.
LEMMA StopKeeps ==
  ASSUME NamedAssumption, SessionsInv, Stop
  PROVE  SessionsInv'
<1>1. TypeInv'
  BY NamedAssumption DEF SessionsInv, TypeInv, Phases, Statuses, BusyNamed, Busy,
     Stop, Order, memory, host, history
<1>2. BusyNamed'
  BY DEF SessionsInv, TypeInv, BusyNamed, Busy, Stop, Order, memory, host, history
<1>3. OneInside'
  BY DEF SessionsInv, TypeInv, OneInside, NobodyWhenDown, OnlyResumptions, Busy,
     Stop, Order, memory, host, history
<1>4. NobodyWhenDown'
  BY DEF SessionsInv, TypeInv, NobodyWhenDown, Busy, Stop, Order, memory, host,
     history
<1>5. OnlyResumptions'
  BY DEF SessionsInv, TypeInv, OnlyResumptions, NobodyWhenDown, Busy, Stop, Order,
     memory, host, history
<1>6. RunningIsWorkedOn'
  BY DEF SessionsInv, TypeInv, RunningIsWorkedOn, AtWork, Stop, Order, memory, host,
     history
<1>7. IdleIsFree'
  BY DEF SessionsInv, TypeInv, IdleIsFree, OneInside, NobodyWhenDown,
     OnlyResumptions, AtWork, Busy, Stop, Order, memory, host, history
<1>8. QuietIsOver'
  BY DEF SessionsInv, TypeInv, QuietIsOver, Busy, Stop, Order, memory, host, history
<1>9. FileIsTrue'
  BY DEF SessionsInv, TypeInv, Phases, Statuses, FileIsTrue, BusyNamed, Busy, Stop,
     Order, memory, host, history
<1>10. CrashRecorded'
  BY DEF SessionsInv, TypeInv, CrashRecorded, RunningIsWorkedOn, AtWork, Stop,
     Order, memory, host, history
<1>11. ResumedWasRunning'
  BY DEF SessionsInv, TypeInv, Phases, Statuses, ResumedWasRunning, FileIsTrue,
     CrashRecorded, AtWork, Stop, Order, memory, host, history
<1> QED
  BY <1>1, <1>2, <1>3, <1>4, <1>5, <1>6, <1>7, <1>8, <1>9, <1>10, <1>11 DEF
     SessionsInv

\* The stop has killed the processes and cancels the tasks.
LEMMA CancelKeeps ==
  ASSUME NamedAssumption, SessionsInv, Cancel
  PROVE  SessionsInv'
<1>1. TypeInv'
  BY NamedAssumption DEF SessionsInv, TypeInv, Phases, Statuses, BusyNamed, Busy,
     Cancel, Tasks, memory, host, history
<1>2. BusyNamed'
  BY DEF SessionsInv, TypeInv, BusyNamed, Busy, Cancel, Tasks, memory, host, history
<1>3. OneInside'
  BY DEF SessionsInv, TypeInv, OneInside, NobodyWhenDown, OnlyResumptions, Busy,
     Cancel, Tasks, memory, host, history
<1>4. NobodyWhenDown'
  BY DEF SessionsInv, TypeInv, NobodyWhenDown, Busy, Cancel, Tasks, memory, host,
     history
<1>5. OnlyResumptions'
  BY DEF SessionsInv, TypeInv, OnlyResumptions, NobodyWhenDown, Busy, Cancel, Tasks,
     memory, host, history
<1>6. RunningIsWorkedOn'
  BY DEF SessionsInv, TypeInv, RunningIsWorkedOn, AtWork, Cancel, Tasks, memory,
     host, history
<1>7. IdleIsFree'
  BY DEF SessionsInv, TypeInv, IdleIsFree, OneInside, NobodyWhenDown,
     OnlyResumptions, AtWork, Busy, Cancel, Tasks, memory, host, history
<1>8. QuietIsOver'
  BY DEF SessionsInv, TypeInv, QuietIsOver, Busy, Cancel, Tasks, memory, host,
     history
<1>9. FileIsTrue'
  BY DEF SessionsInv, TypeInv, Phases, Statuses, FileIsTrue, BusyNamed, Busy,
     Cancel, Tasks, memory, host, history
<1>10. CrashRecorded'
  BY DEF SessionsInv, TypeInv, CrashRecorded, RunningIsWorkedOn, AtWork, Cancel,
     Tasks, memory, host, history
<1>11. ResumedWasRunning'
  BY DEF SessionsInv, TypeInv, Phases, Statuses, ResumedWasRunning, FileIsTrue,
     CrashRecorded, AtWork, Cancel, Tasks, memory, host, history
<1> QED
  BY <1>1, <1>2, <1>3, <1>4, <1>5, <1>6, <1>7, <1>8, <1>9, <1>10, <1>11 DEF
     SessionsInv

\* The cancelled tasks are over and the stop ends every session.
LEMMA StopEndsKeeps ==
  ASSUME NamedAssumption, SessionsInv, StopEnds
  PROVE  SessionsInv'
<1>1. TypeInv'
  BY NamedAssumption, WrittenIs DEF SessionsInv, TypeInv, Phases, Statuses,
     BusyNamed, Busy, StopEnds, EndAllOf, Persist, Active, Inside, Working, host
<1>2. BusyNamed'
  BY DEF SessionsInv, TypeInv, BusyNamed, Busy, StopEnds, EndAllOf, Persist, Active,
     Inside, Working, host
<1>3. OneInside'
  BY DEF SessionsInv, TypeInv, OneInside, NobodyWhenDown, OnlyResumptions, Busy,
     StopEnds, EndAllOf, Persist, Active, Inside, Working, host
<1>4. NobodyWhenDown'
  BY DEF SessionsInv, TypeInv, NobodyWhenDown, Busy, StopEnds, EndAllOf, Persist,
     Active, Inside, Working, host
<1>5. OnlyResumptions'
  BY DEF SessionsInv, TypeInv, OnlyResumptions, NobodyWhenDown, Busy, StopEnds,
     EndAllOf, Persist, Active, Inside, Working, host
<1>6. RunningIsWorkedOn'
  BY DEF SessionsInv, TypeInv, RunningIsWorkedOn, AtWork, StopEnds, EndAllOf,
     Persist, Active, Inside, Working, host
<1>7. IdleIsFree'
  BY DEF SessionsInv, TypeInv, IdleIsFree, OneInside, NobodyWhenDown,
     OnlyResumptions, AtWork, Busy, StopEnds, EndAllOf, Persist, Active, Inside,
     Working, host
<1>8. QuietIsOver'
  BY DEF SessionsInv, TypeInv, QuietIsOver, Busy, StopEnds, EndAllOf, Persist,
     Active, Inside, Working, host
<1>9. FileIsTrue'
  BY WrittenIs DEF SessionsInv, TypeInv, Phases, Statuses, FileIsTrue, BusyNamed,
     Busy, StopEnds, EndAllOf, Persist, Active, Inside, Working, host
<1>10. CrashRecorded'
  BY DEF SessionsInv, TypeInv, CrashRecorded, RunningIsWorkedOn, AtWork, StopEnds,
     EndAllOf, Persist, Active, Inside, Working, host
<1>11. ResumedWasRunning'
  BY DEF SessionsInv, TypeInv, Phases, Statuses, ResumedWasRunning, FileIsTrue,
     CrashRecorded, AtWork, StopEnds, EndAllOf, Persist, Written, Active, Inside,
     Working, host
<1> QED
  BY <1>1, <1>2, <1>3, <1>4, <1>5, <1>6, <1>7, <1>8, <1>9, <1>10, <1>11 DEF
     SessionsInv

\* The process dies.
LEMMA CrashKeeps ==
  ASSUME NamedAssumption, SessionsInv, Crash
  PROVE  SessionsInv'
<1>1. TypeInv'
  BY NamedAssumption DEF SessionsInv, TypeInv, Phases, Statuses, BusyNamed, Busy,
     Crash, memory
<1>2. BusyNamed'
  BY DEF SessionsInv, TypeInv, BusyNamed, Busy, Crash, memory
<1>3. OneInside'
  BY DEF SessionsInv, TypeInv, OneInside, NobodyWhenDown, OnlyResumptions, Busy,
     Crash, memory
<1>4. NobodyWhenDown'
  BY DEF SessionsInv, TypeInv, NobodyWhenDown, Busy, Crash, memory
<1>5. OnlyResumptions'
  BY DEF SessionsInv, TypeInv, OnlyResumptions, NobodyWhenDown, Busy, Crash, memory
<1>6. RunningIsWorkedOn'
  BY DEF SessionsInv, TypeInv, RunningIsWorkedOn, AtWork, Crash, memory
<1>7. IdleIsFree'
  BY DEF SessionsInv, TypeInv, IdleIsFree, OneInside, NobodyWhenDown,
     OnlyResumptions, AtWork, Busy, Crash, memory
<1>8. QuietIsOver'
  BY DEF SessionsInv, TypeInv, QuietIsOver, Busy, Crash, memory
<1>9. FileIsTrue'
  BY DEF SessionsInv, TypeInv, Phases, Statuses, FileIsTrue, BusyNamed, Busy, Crash,
     memory
<1>10. CrashRecorded'
  BY DEF SessionsInv, TypeInv, CrashRecorded, RunningIsWorkedOn, AtWork, Crash,
     memory
<1>11. ResumedWasRunning'
  BY DEF SessionsInv, TypeInv, Phases, Statuses, ResumedWasRunning, FileIsTrue,
     CrashRecorded, AtWork, Crash, memory
<1> QED
  BY <1>1, <1>2, <1>3, <1>4, <1>5, <1>6, <1>7, <1>8, <1>9, <1>10, <1>11 DEF
     SessionsInv

\* The process is started again and reads the file.
LEMMA LoadKeeps ==
  ASSUME NamedAssumption, SessionsInv, Load
  PROVE  SessionsInv'
<1>1. TypeInv'
  BY NamedAssumption DEF SessionsInv, TypeInv, Phases, Statuses, BusyNamed, Busy,
     Load, control
<1>2. BusyNamed'
  BY DEF SessionsInv, TypeInv, BusyNamed, Busy, Load, control
<1>3. OneInside'
  BY DEF SessionsInv, TypeInv, OneInside, NobodyWhenDown, OnlyResumptions, Busy,
     Load, control
<1>4. NobodyWhenDown'
  BY DEF SessionsInv, TypeInv, NobodyWhenDown, Busy, Load, control
<1>5. OnlyResumptions'
  BY DEF SessionsInv, TypeInv, OnlyResumptions, NobodyWhenDown, Busy, Load, control
<1>6. RunningIsWorkedOn'
  BY DEF SessionsInv, TypeInv, RunningIsWorkedOn, AtWork, Load, control
<1>7. IdleIsFree'
  BY DEF SessionsInv, TypeInv, IdleIsFree, OneInside, NobodyWhenDown,
     OnlyResumptions, AtWork, Busy, Load, control
<1>8. QuietIsOver'
  BY DEF SessionsInv, TypeInv, QuietIsOver, Busy, Load, control
<1>9. FileIsTrue'
  BY DEF SessionsInv, TypeInv, Phases, Statuses, FileIsTrue, BusyNamed, Busy, Load,
     control
<1>10. CrashRecorded'
  BY DEF SessionsInv, TypeInv, CrashRecorded, RunningIsWorkedOn, AtWork, Load,
     control
<1>11. ResumedWasRunning'
  BY DEF SessionsInv, TypeInv, Phases, Statuses, ResumedWasRunning, FileIsTrue,
     CrashRecorded, AtWork, Load, control
<1> QED
  BY <1>1, <1>2, <1>3, <1>4, <1>5, <1>6, <1>7, <1>8, <1>9, <1>10, <1>11 DEF
     SessionsInv

\* The restart is over.
LEMMA OpenKeeps ==
  ASSUME NamedAssumption, SessionsInv, Open
  PROVE  SessionsInv'
<1>1. TypeInv'
  BY NamedAssumption DEF SessionsInv, TypeInv, Phases, Statuses, BusyNamed, Busy,
     Open, memory, control, history
<1>2. BusyNamed'
  BY DEF SessionsInv, TypeInv, BusyNamed, Busy, Open, memory, control, history
<1>3. OneInside'
  BY DEF SessionsInv, TypeInv, OneInside, NobodyWhenDown, OnlyResumptions, Busy,
     Open, memory, control, history
<1>4. NobodyWhenDown'
  BY DEF SessionsInv, TypeInv, NobodyWhenDown, Busy, Open, memory, control, history
<1>5. OnlyResumptions'
  BY DEF SessionsInv, TypeInv, OnlyResumptions, NobodyWhenDown, Busy, Open, memory,
     control, history
<1>6. RunningIsWorkedOn'
  BY DEF SessionsInv, TypeInv, RunningIsWorkedOn, AtWork, Open, memory, control,
     history
<1>7. IdleIsFree'
  BY DEF SessionsInv, TypeInv, IdleIsFree, OneInside, NobodyWhenDown,
     OnlyResumptions, AtWork, Busy, Open, memory, control, history
<1>8. QuietIsOver'
  BY DEF SessionsInv, TypeInv, QuietIsOver, Busy, Open, memory, control, history
<1>9. FileIsTrue'
  BY DEF SessionsInv, TypeInv, Phases, Statuses, FileIsTrue, BusyNamed, Busy, Open,
     memory, control, history
<1>10. CrashRecorded'
  BY DEF SessionsInv, TypeInv, CrashRecorded, RunningIsWorkedOn, AtWork, Open,
     memory, control, history
<1>11. ResumedWasRunning'
  BY DEF SessionsInv, TypeInv, Phases, Statuses, ResumedWasRunning, FileIsTrue,
     CrashRecorded, AtWork, Open, memory, control, history
<1> QED
  BY <1>1, <1>2, <1>3, <1>4, <1>5, <1>6, <1>7, <1>8, <1>9, <1>10, <1>11 DEF
     SessionsInv

\* Nothing is left to do.
LEMMA IdleKeeps ==
  ASSUME NamedAssumption, SessionsInv, Idle
  PROVE  SessionsInv'
<1>1. TypeInv'
  BY NamedAssumption DEF SessionsInv, TypeInv, Phases, Statuses, BusyNamed, Busy,
     Idle, vars, memory, control, host, history
<1>2. BusyNamed'
  BY DEF SessionsInv, TypeInv, BusyNamed, Busy, Idle, vars, memory, control, host,
     history
<1>3. OneInside'
  BY DEF SessionsInv, TypeInv, OneInside, NobodyWhenDown, OnlyResumptions, Busy,
     Idle, vars, memory, control, host, history
<1>4. NobodyWhenDown'
  BY DEF SessionsInv, TypeInv, NobodyWhenDown, Busy, Idle, vars, memory, control,
     host, history
<1>5. OnlyResumptions'
  BY DEF SessionsInv, TypeInv, OnlyResumptions, NobodyWhenDown, Busy, Idle, vars,
     memory, control, host, history
<1>6. RunningIsWorkedOn'
  BY DEF SessionsInv, TypeInv, RunningIsWorkedOn, AtWork, Idle, vars, memory,
     control, host, history
<1>7. IdleIsFree'
  BY DEF SessionsInv, TypeInv, IdleIsFree, OneInside, NobodyWhenDown,
     OnlyResumptions, AtWork, Busy, Idle, vars, memory, control, host, history
<1>8. QuietIsOver'
  BY DEF SessionsInv, TypeInv, QuietIsOver, Busy, Idle, vars, memory, control, host,
     history
<1>9. FileIsTrue'
  BY DEF SessionsInv, TypeInv, Phases, Statuses, FileIsTrue, BusyNamed, Busy, Idle,
     vars, memory, control, host, history
<1>10. CrashRecorded'
  BY DEF SessionsInv, TypeInv, CrashRecorded, RunningIsWorkedOn, AtWork, Idle, vars,
     memory, control, host, history
<1>11. ResumedWasRunning'
  BY DEF SessionsInv, TypeInv, Phases, Statuses, ResumedWasRunning, FileIsTrue,
     CrashRecorded, AtWork, Idle, vars, memory, control, host, history
<1> QED
  BY <1>1, <1>2, <1>3, <1>4, <1>5, <1>6, <1>7, <1>8, <1>9, <1>10, <1>11 DEF
     SessionsInv

\* Every step, and every stutter, keeps the invariant.
LEMMA SessionsStep ==
  ASSUME NamedAssumption, SessionsInv, [Next]_vars
  PROVE  SessionsInv'
<1>1. CASE UNCHANGED vars
  BY <1>1 DEF SessionsInv, TypeInv, BusyNamed, OneInside, NobodyWhenDown, OnlyResumptions,
     RunningIsWorkedOn, IdleIsFree, QuietIsOver, FileIsTrue, CrashRecorded,
     ResumedWasRunning, vars, memory, control, host, history
<1>2. ASSUME NEW j \in Jobs,
             Create(j) \/ Check(j) \/ Denied(j) \/ Mark(j) \/ Answered(j)
               \/ Return(j) \/ Deliver(j) \/ Resume(j)
      PROVE  SessionsInv'
  BY <1>2, CreateKeeps, CheckKeeps, DeniedKeeps, MarkKeeps, AnsweredKeeps, ReturnKeeps,
     DeliverKeeps, ResumeKeeps
<1>3. ASSUME NEW n \in Names, EndButton(n) \/ EndSession(n)
      PROVE  SessionsInv'
  BY <1>3, EndButtonKeeps, EndSessionKeeps
<1>4. ASSUME EndAll \/ Stop \/ Cancel \/ StopEnds \/ Crash \/ Load \/ Open \/ Idle
      PROVE  SessionsInv'
  BY <1>4, EndAllKeeps, StopKeeps, CancelKeeps, StopEndsKeeps, CrashKeeps, LoadKeeps,
     OpenKeeps, IdleKeeps
<1> QED
  BY <1>1, <1>2, <1>3, <1>4 DEF Next

\* The inductive invariant of the registry, the jobs and the file holds always.
THEOREM SessionsAlways == Spec => []SessionsInv
<1>1. Init => SessionsInv
  BY NamedAssumption, SessionsInit
<1>2. SessionsInv /\ [Next]_vars => SessionsInv'
  BY NamedAssumption, SessionsStep
<1> QED
  BY <1>1, <1>2, PTL DEF Spec

-----------------------------------------------------------------------------

\* The state of the registry, the jobs and the restart keeps its types.
THEOREM TypeCorrect == Spec => []TypeInv
<1>1. SessionsInv => TypeInv
  BY DEF SessionsInv
<1> QED
  BY <1>1, SessionsAlways, PTL

\* Two jobs run the CLI for one session only if both were let into it before
\* either had marked it as running.
THEOREM OneWorkerAlways == Spec => []OneWorker
<1>1. SessionsInv => OneWorker
  <2> SUFFICES ASSUME SessionsInv, NEW n \in Names \ overlap
               PROVE  Cardinality(Working(n)) <= 1
    BY DEF OneWorker
  <2>1. CASE Working(n) = {}
    BY <2>1, FS_EmptySet
  <2>2. CASE Working(n) # {}
    <3> DEFINE W == Working(n)
    <3>0. PICK j : j \in W
      BY <2>2
    <3>1. \A i \in W : i = j
      BY <3>0 DEF SessionsInv, OneInside, Working, Busy
    <3>2. W \in SUBSET {j}
      BY <3>1
    <3>3. IsFiniteSet({j}) /\ Cardinality({j}) = 1
      BY FS_Singleton
    <3> QED
      BY <3>2, <3>3, FS_Subset
  <2> QED
    BY <2>1, <2>2
<1> QED
  BY <1>1, SessionsAlways, PTL

\* While the bot is up, "is still processing" is said of a session exactly while a
\* job is at work on it, with the exceptions StatusIsTrue names.
THEOREM StatusIsTrueAlways == Spec => []StatusIsTrue
<1>1. SessionsInv => StatusIsTrue
  BY DEF SessionsInv, RunningIsWorkedOn, IdleIsFree, StatusIsTrue, Working, AtWork
<1> QED
  BY <1>1, SessionsAlways, PTL

\* A session that was ended while nobody was at work on it stays ended.
THEOREM EndedStaysEndedAlways == Spec => []EndedStaysEnded
<1>1. SessionsInv => EndedStaysEnded
  BY DEF SessionsInv, QuietIsOver, EndedStaysEnded
<1> QED
  BY <1>1, SessionsAlways, PTL

\* After every crash only sessions are resumed that were running, or of which the
\* file said something untrue.
THEOREM ResumedWasRunningAlways == Spec => []ResumedWasRunning
<1>1. SessionsInv => ResumedWasRunning
  BY DEF SessionsInv
<1> QED
  BY <1>1, SessionsAlways, PTL
=============================================================================
