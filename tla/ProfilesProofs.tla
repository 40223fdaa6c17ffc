--------------------------- MODULE ProfilesProofs ---------------------------
(***************************************************************************)
(* Proofs about Profiles, for every set of actors, profiles and tasks, any *)
(* number of overlapping goroutines and any number of faults.              *)
(***************************************************************************)
EXTENDS Profiles, FiniteSetTheorems, SequenceTheorems, TLAPS

USE DEF disk, Tasks

(* What the updates of a task control return.                              *)
LEMMA MarkType ==
    ASSUME NEW c \in TaskControl, NEW p \in Profile, NEW g \in Age
    PROVE  /\ [c EXCEPT !.running[p] = g] \in TaskControl
           /\ [c EXCEPT !.running[p] = g].success = c.success
           /\ [c EXCEPT !.running[p] = g].running
                 = [c.running EXCEPT ![p] = g]
  BY DEF TaskControl

LEMMA RememberedType ==
    ASSUME NEW c \in TaskControl, NEW t \in Task
    PROVE  /\ Remembered(c, t) \in TaskControl
           /\ Remembered(c, t).success = c.success \cup {t}
           /\ Remembered(c, t).running = c.running
  BY DEF TaskControl, Remembered

LEMMA OlderMarksType ==
    ASSUME NEW c \in TaskControl
    PROVE  /\ OlderMarks(c) \in TaskControl
           /\ OlderMarks(c).success = c.success
           /\ \A p \in Profile : c.running[p] = "none"
                                    <=> OlderMarks(c).running[p] = "none"
  BY DEF TaskControl, OlderMarks, Older, Age

LEMMA NewTaskControlType ==
    /\ NewTaskControl \in TaskControl
    /\ NewTaskControl.success = {}
    /\ \A p \in Profile : NewTaskControl.running[p] = "none"
  BY DEF NewTaskControl, TaskControl, Age

LEMMA SeqParts ==
    ASSUME NEW s \in Seq(Profile), s # <<>>
    PROVE  /\ Head(s) \in Profile
           /\ Len(s) \in Nat \ {0}
           /\ Tail(s) \in Seq(Profile)
           /\ Len(s) > 1 => Tail(s) # <<>>
  <1>1. Len(s) \in Nat \ {0}
    BY EmptySeq
  <1>2. Head(s) \in Profile
    BY HeadTailProperties
  <1>3. Tail(s) \in Seq(Profile)
    BY HeadTailProperties
  <1>4. Len(Tail(s)) = Len(s) - 1
    BY HeadTailProperties
  <1>5. Len(<<>>) = 0
    BY EmptySeq
  <1>6. Tail(s) = <<>> => Len(Tail(s)) = 0
    BY <1>5, Zenon
  <1>7. Len(s) > 1 => Tail(s) # <<>>
    BY <1>1, <1>4, <1>6
  <1>8. QED
    BY <1>1, <1>2, <1>3, <1>7

(* The current profile of an active goroutine, and its tasks.              *)
LEMMA CurType ==
    ASSUME TypeOK, NEW a \in Actor, pc[a] # "idle"
    PROVE  /\ Cur(a) \in Profile
           /\ Len(todo[a]) \in Nat \ {0}
           /\ Tail(todo[a]) \in Seq(Profile)
           /\ Len(todo[a]) > 1 => Tail(todo[a]) # <<>>
           /\ Tasks(Cur(a)) \in Seq(Task)
           /\ NetBird[Cur(a)] \in Seq(Task)
           /\ Running(a) => CurTask(a) \in Task
           /\ AtNetBird(a) => NetBirdTask(a) \in Task
  <1>1. todo[a] \in Seq(Profile) /\ todo[a] # <<>>
    BY DEF TypeOK
  <1>2. Cur(a) \in Profile /\ Len(todo[a]) \in Nat \ {0}
    BY <1>1, SeqParts DEF Cur
  <1>3. Tail(todo[a]) \in Seq(Profile)
        /\ (Len(todo[a]) > 1 => Tail(todo[a]) # <<>>)
    BY <1>1, SeqParts
  <1>4. Tasks(Cur(a)) \in Seq(Task) /\ NetBird[Cur(a)] \in Seq(Task)
    BY <1>2, ConstantsAssumption DEF TypeOK
  <1>5. idx[a] \in Nat \ {0}
    BY DEF TypeOK
  <1>6. Running(a) => CurTask(a) \in Task
    BY <1>4, <1>5 DEF Running, CurTask
  <1>7. AtNetBird(a) => NetBirdTask(a) \in Task
    BY <1>4, <1>5 DEF AtNetBird, NetBirdTask
  <1>8. QED
    BY <1>2, <1>3, <1>4, <1>6, <1>7

-----------------------------------------------------------------------------
(* What dies with the process leaves a well-typed state.                   *)
LEMMA ProcessDiesType ==
    ASSUME TypeOK, ProcessDies
    PROVE  /\ pc' \in [Actor -> Steps]
           /\ \A a \in Actor : pc'[a] = "idle"
           /\ todo' \in [Actor -> Seq(Profile)]
           /\ tc' \in [Actor -> TaskControl]
           /\ \A a \in Actor : tc'[a] = NewTaskControl
           /\ idx' \in [Actor -> Nat \ {0}]
           /\ \A a \in Actor : idx'[a] = 1
           /\ report' \in [Actor -> [success : BOOLEAN, error : BOOLEAN]]
           /\ untold' \in [Actor -> BOOLEAN]
           /\ faulted' \subseteq Profile
  <1>1. \A a \in Actor : pc[a] = "run" => Cur(a) \in Profile
    BY CurType
  <1>2. QED
    BY <1>1, NewTaskControlType, EmptySeq
    DEF ProcessDies, TypeOK, Steps, NewReport

(* The two ways a fault is counted.                                        *)
LEMMA FaultType ==
    ASSUME TypeOK, Fault \/ UNCHANGED faults
    PROVE  faults' \in 0 .. MaxFaults
  BY ConstantsAssumption DEF Fault, TypeOK

(* A write of tasks.json is made, leaves it alone, or empties it.          *)
LEMMA SaveCases ==
    ASSUME NEW c, Save(c)
    PROVE  /\ platform' = platform
           /\ \/ file' = c /\ torn' = FALSE /\ ever' = ever \cup c.success
              \/ file' = file /\ torn' = torn /\ ever' = ever
              \/ file' = NewTaskControl /\ torn' = TRUE /\ ever' = ever
  BY DEF Save, WriteOK, WriteFails, Torn

(* Made or failed, it keeps the file and its bounds.                       *)
LEMMA SaveType ==
    ASSUME TypeOK, NEW c \in TaskControl, Save(c)
    PROVE  /\ file' \in TaskControl
           /\ torn' \in BOOLEAN
           /\ platform' \in Platforms
           /\ ever' \subseteq Task
           /\ faults' \in 0 .. MaxFaults
  <1>1. /\ file \in TaskControl /\ torn \in BOOLEAN
        /\ platform \in Platforms /\ ever \subseteq Task
    BY DEF TypeOK
  <1>2. c.success \subseteq Task
    BY DEF TaskControl
  <1>3. faults' \in 0 .. MaxFaults
    BY FaultType DEF Save, WriteOK, WriteFails
  <1>4. QED
    BY <1>1, <1>2, <1>3, SaveCases, NewTaskControlType

Reports == [Actor -> [success : BOOLEAN, error : BOOLEAN]]

LEMMA ReportType ==
    ASSUME TypeOK, NEW a \in Actor
    PROVE  /\ [report EXCEPT ![a].success = FALSE] \in Reports
           /\ [report EXCEPT ![a].error = FALSE] \in Reports
           /\ [report EXCEPT ![a] = NewReport] \in Reports
           /\ [report EXCEPT ![a] = ErrorReport(a)] \in Reports
           /\ report \in Reports
  <1>1. report \in Reports
    BY DEF TypeOK, Reports
  <1>2. report[a] \in [success : BOOLEAN, error : BOOLEAN]
    BY <1>1 DEF Reports
  <1>3. /\ [report[a] EXCEPT !.success = FALSE]
              \in [success : BOOLEAN, error : BOOLEAN]
        /\ [report[a] EXCEPT !.error = FALSE]
              \in [success : BOOLEAN, error : BOOLEAN]
    BY <1>2
  <1>4. /\ NewReport \in [success : BOOLEAN, error : BOOLEAN]
        /\ ErrorReport(a) \in [success : BOOLEAN, error : BOOLEAN]
    BY DEF NewReport, ErrorReport
  <1>5. QED
    BY <1>1, <1>3, <1>4 DEF Reports

LEMMA SetTaskType ==
    ASSUME TypeOK, NEW a \in Actor, NEW t \in Task, SetTaskAsSuccessfull(a, t)
    PROVE  /\ file' \in TaskControl
           /\ torn' \in BOOLEAN
           /\ platform' = platform
           /\ ever' \subseteq Task
           /\ faults' \in 0 .. MaxFaults
           /\ tc' \in [Actor -> TaskControl]
           /\ tc'[a].success = tc[a].success \cup {t}
           /\ tc'[a].running = tc[a].running
           /\ \A b \in Actor \ {a} : tc'[b] = tc[b]
           /\ \/ file' = file /\ torn' = torn /\ ever' = ever
              \/ /\ file' = Remembered(tc[a], t) /\ torn' = FALSE
                 /\ ever' = ever \cup tc[a].success \cup {t}
              \/ file' = NewTaskControl /\ torn' = TRUE /\ ever' = ever
  <1>1. tc \in [Actor -> TaskControl]
    BY DEF TypeOK
  <1>2. CASE t \in tc[a].success
    BY <1>1, <1>2, FaultType DEF SetTaskAsSuccessfull, TypeOK
  <1>3. CASE t \notin tc[a].success
    <2>1. /\ Save(Remembered(tc[a], t))
          /\ tc' = [tc EXCEPT ![a] = Remembered(@, t)]
      BY <1>3 DEF SetTaskAsSuccessfull
    <2>2. /\ Remembered(tc[a], t) \in TaskControl
          /\ Remembered(tc[a], t).success = tc[a].success \cup {t}
          /\ Remembered(tc[a], t).running = tc[a].running
      BY <1>1, RememberedType
    <2>3. QED
      BY <1>1, <2>1, <2>2, SaveType, SaveCases
  <1>4. QED
    BY <1>2, <1>3

-----------------------------------------------------------------------------
(* Type correctness, one lemma for each group of steps.                    *)
LEMMA TypeInit == Init => TypeOK
  <1> SUFFICES ASSUME Init PROVE TypeOK
    OBVIOUS
  <1>1. /\ file \in TaskControl /\ torn \in BOOLEAN
        /\ tc \in [Actor -> TaskControl]
    <2>1. NewTaskControl \in TaskControl
      BY NewTaskControlType
    <2>2. QED
      BY <2>1 DEF Init
  <1>8. /\ pc \in [Actor -> Steps]
        /\ idx \in [Actor -> Nat \ {0}]
    BY DEF Init, Steps
  <1>2. todo \in [Actor -> Seq(Profile)]
    BY EmptySeq DEF Init
  <1>3. report \in [Actor -> [success : BOOLEAN, error : BOOLEAN]]
    BY DEF Init, NewReport
  <1>4. /\ untold \in [Actor -> BOOLEAN] /\ platform \in Platforms
        /\ done \subseteq Task /\ ever \subseteq Task /\ faulted \subseteq Profile
    BY DEF Init
  <1>5. faults \in 0 .. MaxFaults
    BY ConstantsAssumption DEF Init
  <1>6. \A a \in Actor : pc[a] = "idle" /\ idx[a] = 1
    BY DEF Init
  <1>7. QED
    BY <1>1, <1>2, <1>3, <1>4, <1>5, <1>6, <1>8 DEF TypeOK

LEMMA TypeStart ==
    ASSUME TypeOK, NEW a \in Actor, Begin(a) \/ RequestFails(a)
    PROVE  TypeOK'
  <1>1. CASE Begin(a)
    <2>1. PICK s \in Response[a] : todo' = [todo EXCEPT ![a] = s]
      BY <1>1 DEF Begin
    <2>2. s \in Seq(Profile) /\ s # <<>>
      BY ConstantsAssumption
    <2>3. QED
      BY <1>1, <2>1, <2>2 DEF Begin, TypeOK, Steps, Cur
  <1>2. CASE RequestFails(a)
    <2>1. faults' \in 0 .. MaxFaults
      BY <1>2, FaultType DEF RequestFails
    <2>2. CASE ProcessDies
      BY <1>2, <2>1, <2>2, ProcessDiesType DEF RequestFails, TypeOK
    <2>3. CASE UNCHANGED <<pc, todo, tc, idx, report, untold, faulted>>
      BY <1>2, <2>1, <2>3 DEF RequestFails, TypeOK, Cur
    <2>4. QED
      BY <1>2, <2>2, <2>3 DEF RequestFails
  <1>3. QED
    BY <1>1, <1>2

LEMMA TypeCrash == TypeOK /\ Crash => TypeOK'
  <1> SUFFICES ASSUME TypeOK, Crash PROVE TypeOK'
    OBVIOUS
  <1>1. faults' \in 0 .. MaxFaults
    BY FaultType DEF Crash
  <1>2. torn' \in BOOLEAN /\ file' \in TaskControl
    BY NewTaskControlType DEF Crash, Torn, TypeOK
  <1>3. QED
    BY <1>1, <1>2, ProcessDiesType DEF Crash, TypeOK

LEMMA TypeRead ==
    ASSUME TypeOK, NEW a \in Actor,
           \/ FolderFails(a) \/ Read(a) \/ ReadFails(a)
           \/ ApplyErrors(a) \/ Skip(a)
    PROVE  TypeOK'
  <1>1. CASE Read(a)
    BY <1>1 DEF Read, TypeOK, Steps, Cur
  <1>2. CASE FolderFails(a) \/ ReadFails(a)
    <2>1. faults' \in 0 .. MaxFaults /\ UNCHANGED <<disk, done>>
      BY <1>2, FaultType DEF FolderFails, ReadFails
    <2>2. CASE ProcessDies
      BY <2>1, <2>2, ProcessDiesType DEF TypeOK
    <2>3. CASE Return(a)
      BY <1>2, <2>1, <2>3, EmptySeq
      DEF FolderFails, ReadFails, Return, TypeOK, Steps, Cur
    <2>4. QED
      BY <1>2, <2>2, <2>3 DEF FolderFails, ReadFails
  <1>3. CASE ApplyErrors(a) \/ Skip(a)
    <2>1. Len(NetBird[Cur(a)]) \in Nat
      BY <1>3, CurType, LenProperties DEF ApplyErrors, Skip
    <2>2. CASE ApplyErrors(a)
      <3>1. faults' \in 0 .. MaxFaults
        BY <2>2, FaultType DEF ApplyErrors
      <3>2. report' \in Reports
        BY <2>2, ReportType DEF ApplyErrors
      <3>3. QED
        BY <2>1, <2>2, <3>1, <3>2
        DEF ApplyErrors, AfterApply, TypeOK, Reports, Steps, Cur
    <2>3. CASE Skip(a)
      BY <2>1, <2>3 DEF Skip, AfterApply, Unclaimed, TypeOK, Steps, Cur
    <2>4. QED
      BY <1>3, <2>2, <2>3
  <1>4. QED
    BY <1>1, <1>2, <1>3


LEMMA TypeClaim ==
    ASSUME TypeOK, NEW a \in Actor, Claim(a) \/ ClaimFails(a)
    PROVE  TypeOK'
  <1>1. pc[a] = "claim" /\ Cur(a) \in Profile
    BY CurType DEF Claim, ClaimFails
  <1>2. Claimed(a) \in TaskControl
    BY <1>1, MarkType DEF Claimed, Age, TypeOK
  <1>3. /\ Len(Tasks(Cur(a))) \in Nat
        /\ Len(NetBird[Cur(a)]) \in Nat
    BY <1>1, CurType, LenProperties
  <1>4. Save(Claimed(a))
    BY DEF Claim, ClaimFails, Save
  <1>5. /\ file' \in TaskControl /\ torn' \in BOOLEAN
        /\ platform' = platform /\ ever' \subseteq Task
        /\ faults' \in 0 .. MaxFaults
    BY <1>2, <1>4, SaveType, SaveCases
  <1>6. report' \in Reports
    BY ReportType DEF Claim, ClaimFails
  <1>7. CASE Claim(a)
    BY <1>1, <1>2, <1>3, <1>5, <1>7 DEF Claim, TypeOK, Steps, Cur
  <1>8. CASE ClaimFails(a)
    BY <1>1, <1>2, <1>3, <1>5, <1>6, <1>8
    DEF ClaimFails, AfterApply, TypeOK, Reports, Steps, Cur
  <1>9. QED
    BY <1>7, <1>8

LEMMA TypeTask ==
    ASSUME TypeOK, NEW a \in Actor,
           \/ TaskSkipped(a) \/ TaskSucceeds(a)
           \/ TaskFails(a) \/ TaskErrors(a) \/ PlaybookFailsUntold(a)
    PROVE  TypeOK'
  <1>1. /\ Running(a) /\ pc[a] = "run" /\ CurTask(a) \in Task
        /\ idx[a] <= Len(Tasks(Cur(a)))
    BY CurType DEF TaskSkipped, TaskSucceeds, TaskFails, TaskErrors,
                   PlaybookFailsUntold, Running
  <1>2. Len(Tasks(Cur(a))) \in Nat
    BY <1>1, CurType, LenProperties
  <1>3. CASE TaskSkipped(a)
    BY <1>1, <1>2, <1>3 DEF TaskSkipped, Next1, TypeOK, Steps, Cur
  <1>4. CASE TaskSucceeds(a)
    <2>1. CASE CurResource(a).remembers
      <3>1. /\ file' \in TaskControl /\ torn' \in BOOLEAN
            /\ platform' = platform /\ ever' \subseteq Task
            /\ faults' \in 0 .. MaxFaults
            /\ tc' \in [Actor -> TaskControl]
        BY <1>1, <1>2, <1>4, <2>1, SetTaskType DEF TaskSucceeds
      <3>2. /\ done' \subseteq Task
            /\ idx' = [idx EXCEPT ![a] = @ + 1]
            /\ UNCHANGED <<pc, todo, report, untold, faulted>>
        BY <1>1, <1>2, <1>4, <2>1 DEF TaskSucceeds, Next1, TypeOK
      <3>3. QED
        BY SMTT(40), <1>1, <1>2, <3>1, <3>2 DEF TypeOK, Steps, Cur
    <2>2. CASE ~CurResource(a).remembers
      BY <1>1, <1>2, <1>4, <2>2 DEF TaskSucceeds, Next1, TypeOK, Steps, Cur
    <2>3. QED
      BY <2>1, <2>2
  <1>5. CASE TaskFails(a)
    <2>1. report' \in Reports
      BY <1>5, ReportType DEF TaskFails
    <2>2. QED
      BY SMTT(40), <1>1, <1>2, <1>5, <2>1
      DEF TaskFails, Next1, TypeOK, Reports, Steps, Cur
  <1>6. CASE TaskErrors(a)
    BY <1>1, <1>2, <1>6 DEF TaskErrors, ErrorReport, TypeOK, Steps, Cur
  <1>7. CASE PlaybookFailsUntold(a)
    BY <1>1, <1>2, <1>7 DEF PlaybookFailsUntold, Next1, TypeOK, Steps, Cur
  <1>8. QED
    BY <1>3, <1>4, <1>5, <1>6, <1>7

LEMMA TypeRelease ==
    ASSUME TypeOK, NEW a \in Actor, Release(a) \/ ReleaseFails(a)
    PROVE  TypeOK'
  <1>1. pc[a] = "run" /\ Cur(a) \in Profile
    BY CurType DEF Release, ReleaseFails, Finished
  <1>2. Released(a) \in TaskControl
    BY <1>1, MarkType DEF Released, Age, TypeOK
  <1>3. Len(NetBird[Cur(a)]) \in Nat
    BY <1>1, CurType, LenProperties
  <1>4. Save(Released(a))
    BY DEF Release, ReleaseFails, Save
  <1>5. /\ file' \in TaskControl /\ torn' \in BOOLEAN
        /\ platform' = platform /\ ever' \subseteq Task
        /\ faults' \in 0 .. MaxFaults
    BY <1>2, <1>4, SaveType, SaveCases
  <1>6. /\ tc' \in [Actor -> TaskControl]
        /\ faulted' \subseteq Profile
        /\ EndApply(a)
        /\ UNCHANGED <<todo, report, untold, done>>
    BY <1>1, <1>2 DEF Release, ReleaseFails, TypeOK
  <1>7. QED
    BY <1>1, <1>3, <1>5, <1>6 DEF EndApply, AfterApply, TypeOK, Steps, Cur

LEMMA TypeNetBird ==
    ASSUME TypeOK, NEW a \in Actor,
           NetBirdSkipped(a) \/ NetBirdSucceeds(a) \/ NetBirdFails(a)
    PROVE  TypeOK'
  <1>1. /\ AtNetBird(a) /\ pc[a] = "netbird" /\ NetBirdTask(a) \in Task
        /\ idx[a] <= Len(NetBird[Cur(a)])
    BY CurType DEF NetBirdSkipped, NetBirdSucceeds, NetBirdFails, AtNetBird
  <1>2. Len(NetBird[Cur(a)]) \in Nat
    BY <1>1, CurType, LenProperties
  <1>3. CASE NetBirdSkipped(a)
    BY <1>1, <1>2, <1>3 DEF NetBirdSkipped, Next1, TypeOK, Steps, Cur
  <1>4. CASE NetBirdSucceeds(a)
    <2>1. /\ file' \in TaskControl /\ torn' \in BOOLEAN
          /\ platform' = platform /\ ever' \subseteq Task
          /\ faults' \in 0 .. MaxFaults
          /\ tc' \in [Actor -> TaskControl]
      BY <1>1, <1>4, SetTaskType DEF NetBirdSucceeds
    <2>2. /\ done' \subseteq Task
          /\ idx' = [idx EXCEPT ![a] = @ + 1]
          /\ UNCHANGED <<pc, todo, report, untold, faulted>>
      BY <1>1, <1>4 DEF NetBirdSucceeds, Next1, TypeOK
    <2>3. QED
      BY SMTT(40), <1>1, <1>2, <2>1, <2>2 DEF TypeOK, Steps, Cur
  <1>5. CASE NetBirdFails(a)
    <2>1. report' \in Reports
      BY <1>5, ReportType DEF NetBirdFails
    <2>2. QED
      BY <1>1, <1>2, <1>5, <2>1
      DEF NetBirdFails, Next1, TypeOK, Reports, Steps, Cur
  <1>6. QED
    BY <1>3, <1>4, <1>5

LEMMA TypeReport ==
    ASSUME TypeOK, NEW a \in Actor, NetBirdDone(a) \/ SendProfileReport(a)
    PROVE  TypeOK'
  <1>1. CASE NetBirdDone(a)
    <2>1. report' \in Reports
      BY <1>1, ReportType DEF NetBirdDone
    <2>2. untold' \in [Actor -> BOOLEAN]
      <3>1. report[a].error \in BOOLEAN /\ untold \in [Actor -> BOOLEAN]
        BY DEF TypeOK
      <3>2. untold' \in {untold, [untold EXCEPT ![a] = @ \/ report[a].error]}
        BY <1>1 DEF NetBirdDone
      <3>3. [untold EXCEPT ![a] = @ \/ report[a].error]
               \in [Actor -> BOOLEAN]
        BY <3>1, Zenon
      <3>4. QED
        BY <3>1, <3>2, <3>3
    <2>3. /\ pc' = [pc EXCEPT ![a] = "report"] /\ idx' = [idx EXCEPT ![a] = 1]
          /\ UNCHANGED <<disk, todo, tc, done, faulted, faults>>
          /\ todo[a] # <<>>
      BY <1>1 DEF NetBirdDone, TypeOK
    <2>4. QED
      BY <2>1, <2>2, <2>3 DEF TypeOK, Reports, Steps, Cur
  <1>2. CASE SendProfileReport(a)
    <2>1. /\ Tail(todo[a]) \in Seq(Profile)
          /\ Len(todo[a]) > 1 => Tail(todo[a]) # <<>>
      BY <1>2, CurType DEF SendProfileReport
    <2>2. NewTaskControl \in TaskControl
      BY NewTaskControlType
    <2>3. report' \in Reports
      BY <1>2, ReportType DEF SendProfileReport
    <2>4. tc' \in [Actor -> TaskControl]
      BY ZenonT(40), <1>2, <2>2 DEF SendProfileReport, TypeOK
    <2>5. /\ pc' \in [Actor -> Steps]
          /\ pc'[a] \in {"idle", "claim", "read"}
          /\ pc'[a] # "idle" => Len(todo[a]) > 1
          /\ \A b \in Actor \ {a} : pc'[b] = pc[b]
      BY <1>2 DEF SendProfileReport, TypeOK, Steps
    <2>6. /\ todo' \in [Actor -> Seq(Profile)]
          /\ todo'[a] = Tail(todo[a])
          /\ \A b \in Actor \ {a} : todo'[b] = todo[b]
      BY <1>2, <2>1 DEF SendProfileReport, TypeOK
    <2>7. idx[a] = 1
      BY <1>2 DEF SendProfileReport, TypeOK
    <2>8. /\ untold' \in [Actor -> BOOLEAN]
          /\ UNCHANGED <<disk, idx, done, faulted, faults>>
      BY <1>2 DEF SendProfileReport, TypeOK
    <2>9. QED
      BY <2>1, <2>3, <2>4, <2>5, <2>6, <2>7, <2>8
      DEF TypeOK, Reports, Cur
  <1>3. QED
    BY <1>1, <1>2

LEMMA TypeDay == TypeOK /\ DayPasses => TypeOK'
  BY OlderMarksType DEF DayPasses, TypeOK, Cur

LEMMA TypeStep == TypeOK /\ [Next]_vars => TypeOK'
  <1>1. CASE UNCHANGED vars
    BY <1>1 DEF vars, TypeOK, Cur
  <1>2. ASSUME TypeOK, NEW a \in Actor,
               Begin(a) \/ RequestFails(a) \/ Progress(a)
        PROVE  TypeOK'
    BY <1>2, TypeStart, TypeRead, TypeClaim, TypeTask, TypeRelease,
       TypeNetBird, TypeReport DEF Progress
  <1>3. CASE Crash
    BY <1>3, TypeCrash
  <1>4. QED
    BY <1>1, <1>2, <1>3, TypeDay DEF Next

(* Type correctness, for every value of the constants.                     *)
THEOREM TypeCorrect == Spec => []TypeOK
  BY TypeInit, TypeStep, PTL DEF Spec

-----------------------------------------------------------------------------
(* No task is remembered that was not done.  The invariant is inductive    *)
(* because it covers the snapshots too: each write comes from one of them. *)
LEMMA RememberedDone ==
    ASSUME NeverMarkedUnexecuted, done \subseteq done',
           file'.success \subseteq done',
           NEW a \in Actor, tc'[a].success \subseteq done',
           \A b \in Actor \ {a} : tc'[b] = tc[b]
    PROVE  NeverMarkedUnexecuted'
  BY DEF NeverMarkedUnexecuted

LEMMA RememberedSnapshot ==
    ASSUME TypeOK, NeverMarkedUnexecuted, NEW a \in Actor,
           NEW c \in TaskControl, c.success = tc[a].success,
           Save(c), tc' = [tc EXCEPT ![a] = c], UNCHANGED done
    PROVE  NeverMarkedUnexecuted'
  <1>1. file' \in {file, c} \/ file'.success = {}
    BY SaveCases, NewTaskControlType
  <1>2. tc'[a] = c /\ \A b \in Actor \ {a} : tc'[b] = tc[b]
    BY DEF TypeOK
  <1>3. QED
    BY <1>1, <1>2, RememberedDone DEF NeverMarkedUnexecuted

LEMMA RememberedDies ==
    ASSUME TypeOK, NeverMarkedUnexecuted, ProcessDies,
           file' = file \/ file' = NewTaskControl, UNCHANGED done
    PROVE  NeverMarkedUnexecuted'
  BY ProcessDiesType, NewTaskControlType DEF NeverMarkedUnexecuted

LEMMA RememberedTask ==
    ASSUME TypeOK, NeverMarkedUnexecuted, NEW a \in Actor, NEW t \in Task,
           SetTaskAsSuccessfull(a, t), done' = done \cup {t}
    PROVE  NeverMarkedUnexecuted'
  <1>1. Remembered(tc[a], t).success = tc[a].success \cup {t}
    BY RememberedType DEF TypeOK
  <1>2. /\ file' \in {file, Remembered(tc[a], t)} \/ file'.success = {}
        /\ tc'[a].success = tc[a].success \cup {t}
        /\ \A b \in Actor \ {a} : tc'[b] = tc[b]
    BY SetTaskType, NewTaskControlType
  <1>3. QED
    BY <1>1, <1>2, RememberedDone DEF NeverMarkedUnexecuted

LEMMA RememberedProgress ==
    ASSUME TypeOK, NeverMarkedUnexecuted, NEW a \in Actor, Progress(a)
    PROVE  NeverMarkedUnexecuted'
  <1>1. CASE Read(a)
    BY <1>1, RememberedDone DEF Read, NeverMarkedUnexecuted, TypeOK
  <1>2. CASE FolderFails(a) \/ ReadFails(a)
    <2>1. CASE ProcessDies
      BY <1>2, <2>1, RememberedDies DEF FolderFails, ReadFails
    <2>2. CASE Return(a)
      BY <1>2, <2>2 DEF FolderFails, ReadFails, Return, NeverMarkedUnexecuted
    <2>3. QED
      BY <1>2, <2>1, <2>2 DEF FolderFails, ReadFails
  <1>3. CASE Claim(a) \/ ClaimFails(a)
    <2>1. Cur(a) \in Profile
      BY <1>3, CurType DEF Claim, ClaimFails
    <2>2. Claimed(a) \in TaskControl /\ Claimed(a).success = tc[a].success
      BY <2>1, MarkType DEF Claimed, Age, TypeOK
    <2>3. Save(Claimed(a)) /\ tc' = [tc EXCEPT ![a] = Claimed(a)]
          /\ UNCHANGED done
      BY <1>3 DEF Claim, ClaimFails, Save
    <2>4. QED
      BY <2>2, <2>3, RememberedSnapshot
  <1>4. CASE TaskSucceeds(a)
    <2>1. CurTask(a) \in Task
      BY <1>4, CurType DEF TaskSucceeds, Running
    <2>2. CASE CurResource(a).remembers
      BY <1>4, <2>1, <2>2, RememberedTask DEF TaskSucceeds
    <2>3. CASE ~CurResource(a).remembers
      BY <1>4, <2>3 DEF TaskSucceeds, NeverMarkedUnexecuted
    <2>4. QED
      BY <2>2, <2>3
  <1>5. CASE Release(a) \/ ReleaseFails(a)
    <2>1. Cur(a) \in Profile
      BY <1>5, CurType DEF Release, ReleaseFails, Finished
    <2>2. Released(a) \in TaskControl /\ Released(a).success = tc[a].success
      BY <2>1, MarkType DEF Released, Age, TypeOK
    <2>3. Save(Released(a)) /\ tc' = [tc EXCEPT ![a] = Released(a)]
          /\ UNCHANGED done
      BY <1>5 DEF Release, ReleaseFails, Save
    <2>4. QED
      BY <2>2, <2>3, RememberedSnapshot
  <1>6. CASE NetBirdSucceeds(a)
    <2>1. NetBirdTask(a) \in Task
      BY <1>6, CurType DEF NetBirdSucceeds, AtNetBird
    <2>2. QED
      BY <1>6, <2>1, RememberedTask DEF NetBirdSucceeds
  <1>7. CASE SendProfileReport(a)
    <2>1. /\ tc'[a].success \subseteq done
          /\ \A b \in Actor \ {a} : tc'[b] = tc[b]
      BY <1>7, NewTaskControlType
      DEF SendProfileReport, TypeOK, NeverMarkedUnexecuted
    <2>2. UNCHANGED <<file, done>>
      BY <1>7 DEF SendProfileReport
    <2>3. QED
      BY <2>1, <2>2, RememberedDone DEF NeverMarkedUnexecuted
  <1>8. CASE \/ ApplyErrors(a) \/ Skip(a) \/ TaskSkipped(a) \/ TaskFails(a)
             \/ TaskErrors(a) \/ PlaybookFailsUntold(a)
             \/ NetBirdSkipped(a) \/ NetBirdFails(a) \/ NetBirdDone(a)
    <2>1. UNCHANGED <<file, tc>> /\ done \subseteq done'
      BY <1>8 DEF ApplyErrors, Skip, TaskSkipped, TaskFails, TaskErrors,
                  PlaybookFailsUntold, NetBirdSkipped, NetBirdFails, NetBirdDone
    <2>2. QED
      BY <2>1 DEF NeverMarkedUnexecuted
  <1>9. QED
    BY <1>1, <1>2, <1>3, <1>4, <1>5, <1>6, <1>7, <1>8 DEF Progress

LEMMA RememberedStep ==
    TypeOK /\ NeverMarkedUnexecuted /\ [Next]_vars => NeverMarkedUnexecuted'
  <1> SUFFICES ASSUME TypeOK, NeverMarkedUnexecuted, [Next]_vars
               PROVE  NeverMarkedUnexecuted'
    OBVIOUS
  <1>1. CASE UNCHANGED vars
    BY <1>1 DEF vars, NeverMarkedUnexecuted
  <1>2. ASSUME NEW a \in Actor, Begin(a)
        PROVE  NeverMarkedUnexecuted'
    BY <1>2 DEF Begin, NeverMarkedUnexecuted
  <1>3. ASSUME NEW a \in Actor, RequestFails(a)
        PROVE  NeverMarkedUnexecuted'
    <2>1. CASE ProcessDies
      BY <1>3, <2>1, RememberedDies DEF RequestFails
    <2>2. CASE UNCHANGED <<pc, todo, tc, idx, report, untold, faulted>>
      BY <1>3, <2>2 DEF RequestFails, NeverMarkedUnexecuted
    <2>3. QED
      BY <1>3, <2>1, <2>2 DEF RequestFails
  <1>4. CASE Crash
    BY <1>4, RememberedDies DEF Crash, Torn
  <1>5. CASE DayPasses
    <2>1. /\ file'.success = file.success
          /\ \A a \in Actor : tc'[a].success = tc[a].success
      BY <1>5, OlderMarksType DEF DayPasses, TypeOK
    <2>2. QED
      BY <1>5, <2>1 DEF DayPasses, NeverMarkedUnexecuted
  <1>6. QED
    BY <1>1, <1>2, <1>3, <1>4, <1>5, RememberedProgress DEF Next

(* Whatever overlaps, crashes or fails to be written, no task is ever      *)
(* remembered in tasks.json without having succeeded.                      *)
THEOREM NeverMarkedCorrect == Spec => []NeverMarkedUnexecuted
  <1>1. Init => NeverMarkedUnexecuted
    BY NewTaskControlType DEF Init, NeverMarkedUnexecuted
  <1>2. QED
    BY <1>1, TypeCorrect, RememberedStep, PTL DEF Spec

-----------------------------------------------------------------------------
(* What a report of success promises.                                      *)
Clean(a) == report[a].success /\ ~report[a].error /\ ~untold[a]

DoneBefore(s, n) == \A i \in DOMAIN s : i < n => s[i] \in done

AllDone(s) == \A i \in DOMAIN s : s[i] \in done

(* As long as nothing speaks against it, what comes before the index of a  *)
(* goroutine is done.                                                      *)
Honest(a) ==
    /\ pc[a] = "run" /\ Clean(a) => DoneBefore(Tasks(Cur(a)), idx[a])
    /\ pc[a] \in {"netbird", "report"} /\ Clean(a) => AllDone(Tasks(Cur(a)))
    /\ pc[a] = "netbird" /\ report[a].success =>
          DoneBefore(NetBird[Cur(a)], idx[a])
    /\ pc[a] = "report" /\ report[a].success /\ Kind[a] # "runTask" =>
          AllDone(NetBird[Cur(a)])

HonestReports == \A a \in Actor : Honest(a)

(* What a step of a leaves of another goroutine's report.                  *)
LEMMA OthersHonest ==
    ASSUME HonestReports, NEW a \in Actor, Honest(a)',
           done \subseteq done', UNCHANGED platform,
           \A b \in Actor \ {a} :
              /\ untold'[b] = untold[b] /\ pc'[b] = pc[b] /\ idx'[b] = idx[b]
              /\ todo'[b] = todo[b] /\ report'[b] = report[b]
    PROVE  HonestReports'
  <1>1. SUFFICES ASSUME NEW b \in Actor \ {a} PROVE Honest(b)'
    BY DEF HonestReports
  <1>2. /\ untold'[b] = untold[b] /\ pc'[b] = pc[b] /\ idx'[b] = idx[b]
        /\ Cur(b)' = Cur(b) /\ report'[b] = report[b]
    BY DEF Cur
  <1>3. \A s, n : DoneBefore(s, n) => \A i \in DOMAIN s : i < n => s[i] \in done'
    BY DEF DoneBefore
  <1>4. \A s : AllDone(s) => \A i \in DOMAIN s : s[i] \in done'
    BY DEF AllDone
  <1>5. QED
    BY <1>2, <1>3, <1>4 DEF HonestReports, Honest, Clean, DoneBefore, AllDone

(* The same for a step after which a runs no profile.                      *)
LEMMA RestHonest ==
    ASSUME TypeOK, HonestReports, NEW a \in Actor,
           pc'[a] \in {"idle", "read", "claim"},
           done \subseteq done', UNCHANGED platform,
           \A b \in Actor \ {a} :
              /\ untold'[b] = untold[b] /\ pc'[b] = pc[b] /\ idx'[b] = idx[b]
              /\ todo'[b] = todo[b] /\ report'[b] = report[b]
    PROVE  HonestReports'
  BY OthersHonest DEF Honest

LEMMA DiesHonest == TypeOK /\ ProcessDies => HonestReports'
  BY DEF ProcessDies, HonestReports, Honest

(* The claim, made or refused.                                             *)
LEMMA ClaimHonest ==
    ASSUME TypeOK, HonestReports, NEW a \in Actor,
           ApplyErrors(a) \/ Skip(a) \/ Claim(a) \/ ClaimFails(a)
    PROVE  HonestReports'
  <1>1. /\ pc[a] = "claim" /\ idx[a] = 1 /\ UNCHANGED <<platform, todo, idx, done>>
        /\ Tasks(Cur(a)) \in Seq(Task) /\ NetBird[Cur(a)] \in Seq(Task)
    BY CurType DEF ApplyErrors, Skip, Claim, ClaimFails, WriteOK, WriteFails, TypeOK
  <1>2. \A b \in Actor \ {a} :
           untold'[b] = untold[b] /\ pc'[b] = pc[b] /\ report'[b] = report[b]
    BY DEF ApplyErrors, Skip, Claim, ClaimFails, TypeOK
  <1>3. DoneBefore(Tasks(Cur(a)), idx[a])' /\ DoneBefore(NetBird[Cur(a)], idx[a])'
    BY <1>1 DEF DoneBefore, Cur
  <1>4. CASE Claim(a)
    BY <1>1, <1>2, <1>3, <1>4, OthersHonest DEF Claim, Honest, TypeOK
  <1>5. CASE ~Claim(a)
    <2>1. pc'[a] = AfterApply(a)
      BY <1>5 DEF ApplyErrors, Skip, ClaimFails, TypeOK
    <2>2. Clean(a)' => Tasks(Cur(a))' = <<>>
      <3>1. CASE ApplyErrors(a) \/ ClaimFails(a)
        BY <3>1 DEF ApplyErrors, ClaimFails, ErrorReport, Clean, TypeOK
      <3>2. CASE Skip(a)
        BY <1>1, <3>2 DEF Skip, Unclaimed, Clean, Cur, TypeOK
      <3>3. QED
        BY <1>5, <3>1, <3>2
    <2>3. Clean(a)' => AllDone(Tasks(Cur(a)))'
      BY <1>1, <2>2 DEF AllDone
    <2>4. Honest(a)'
      BY <1>3, <2>1, <2>3 DEF Honest, AfterApply
    <2>5. QED
      BY <1>1, <1>2, <2>4, OthersHonest
  <1>6. QED
    BY <1>4, <1>5

(* One task of the claimed profile.                                        *)
LEMMA TaskHonest ==
    ASSUME TypeOK, HonestReports, NeverMarkedUnexecuted, NEW a \in Actor,
           \/ TaskSkipped(a) \/ TaskSucceeds(a) \/ TaskFails(a)
           \/ PlaybookFailsUntold(a) \/ TaskErrors(a)
    PROVE  HonestReports'
  <1>1. /\ Running(a) /\ pc[a] = "run" /\ UNCHANGED <<platform, pc, todo>>
        /\ Tasks(Cur(a)) \in Seq(Task) /\ CurTask(a) \in Task
        /\ idx[a] \in Nat
    BY CurType, SetTaskType
    DEF TaskSkipped, TaskSucceeds, TaskFails, PlaybookFailsUntold, TaskErrors,
        Running, TypeOK
  <1>2. /\ done \subseteq done'
        /\ \A b \in Actor \ {a} : /\ untold'[b] = untold[b]
                                   /\ report'[b] = report[b] /\ idx'[b] = idx[b]
    BY DEF TaskSkipped, TaskSucceeds, TaskFails, PlaybookFailsUntold,
           TaskErrors, Next1, TypeOK
  <1>3. Clean(a)' => DoneBefore(Tasks(Cur(a)), idx[a])'
    <2>1. CASE TaskSkipped(a) \/ TaskSucceeds(a)
      <3>1. /\ UNCHANGED <<report, untold>> /\ idx'[a] = idx[a] + 1
            /\ Tasks(Cur(a))[idx[a]] \in done'
        BY <2>1
        DEF TaskSkipped, TaskSucceeds, Skips, Next1, CurTask, TypeOK,
            NeverMarkedUnexecuted
      <3>2. Clean(a)' => DoneBefore(Tasks(Cur(a)), idx[a])
        BY <1>1, <3>1 DEF HonestReports, Honest, Clean
      <3>3. ASSUME NEW i \in DOMAIN Tasks(Cur(a)), i < idx[a] + 1,
                   DoneBefore(Tasks(Cur(a)), idx[a])
            PROVE  Tasks(Cur(a))[i] \in done'
        <4>1. i \in Nat
          BY <1>1
        <4>2. i < idx[a] \/ i = idx[a]
          BY <1>1, <3>3, <4>1
        <4>3. QED
          BY <1>2, <3>1, <3>3, <4>2 DEF DoneBefore
      <3>4. Tasks(Cur(a))' = Tasks(Cur(a))
        BY <1>1 DEF Cur
      <3>5. QED
        BY <3>1, <3>2, <3>3, <3>4 DEF DoneBefore
    <2>2. CASE TaskFails(a) \/ PlaybookFailsUntold(a) \/ TaskErrors(a)
      BY <2>2 DEF TaskFails, PlaybookFailsUntold, TaskErrors, ErrorReport,
                  Clean, TypeOK
    <2>3. QED
      BY <2>1, <2>2
  <1>4. Honest(a)'
    BY <1>1, <1>3 DEF Honest
  <1>5. QED
    BY <1>1, <1>2, <1>4, OthersHonest

(* The release, the NetBird tasks and their end.                           *)
LEMMA EndHonest ==
    ASSUME TypeOK, HonestReports, NEW a \in Actor, Release(a) \/ ReleaseFails(a)
    PROVE  HonestReports'
  <1>1. /\ pc[a] = "run" /\ idx[a] > Len(Tasks(Cur(a)))
        /\ idx'[a] = 1 /\ pc'[a] = AfterApply(a)
        /\ UNCHANGED <<platform, todo, report, untold, done>>
        /\ Tasks(Cur(a)) \in Seq(Task) /\ NetBird[Cur(a)] \in Seq(Task)
    BY CurType
    DEF Release, ReleaseFails, Finished, EndApply, WriteOK, WriteFails, TypeOK
  <1>2. \A b \in Actor \ {a} : pc'[b] = pc[b] /\ idx'[b] = idx[b]
    BY DEF Release, ReleaseFails, EndApply, TypeOK
  <1>3. Clean(a)' => AllDone(Tasks(Cur(a)))'
    <2>1. Clean(a)' => DoneBefore(Tasks(Cur(a)), idx[a])
      BY <1>1 DEF HonestReports, Honest, Clean
    <2>2. \A i \in DOMAIN Tasks(Cur(a)) : i < idx[a]
      BY <1>1 DEF TypeOK
    <2>3. /\ Tasks(Cur(a))' = Tasks(Cur(a)) /\ done' = done
      BY <1>1 DEF Cur
    <2>4. QED
      BY <2>1, <2>2, <2>3 DEF DoneBefore, AllDone
  <1>4. DoneBefore(NetBird[Cur(a)], idx[a])'
    BY <1>1 DEF DoneBefore, Cur
  <1>5. Honest(a)'
    BY <1>1, <1>3, <1>4 DEF Honest, AfterApply
  <1>6. QED
    BY <1>1, <1>2, <1>5, OthersHonest

LEMMA NetBirdHonest ==
    ASSUME TypeOK, HonestReports, NeverMarkedUnexecuted, NEW a \in Actor,
           NetBirdSkipped(a) \/ NetBirdSucceeds(a) \/ NetBirdFails(a)
    PROVE  HonestReports'
  <1>1. /\ AtNetBird(a) /\ pc[a] = "netbird"
        /\ UNCHANGED <<platform, pc, todo, untold>>
        /\ NetBird[Cur(a)] \in Seq(Task) /\ NetBirdTask(a) \in Task
        /\ idx[a] \in Nat /\ idx'[a] = idx[a] + 1
    BY CurType, SetTaskType
    DEF NetBirdSkipped, NetBirdSucceeds, NetBirdFails, AtNetBird, Next1, TypeOK
  <1>2. /\ done \subseteq done'
        /\ \A b \in Actor \ {a} : report'[b] = report[b] /\ idx'[b] = idx[b]
    BY DEF NetBirdSkipped, NetBirdSucceeds, NetBirdFails, Next1, TypeOK
  <1>3. Clean(a)' => AllDone(Tasks(Cur(a)))'
    <2>1. Clean(a)' => Clean(a)
      BY DEF NetBirdSkipped, NetBirdSucceeds, NetBirdFails, Clean, TypeOK
    <2>2. QED
      BY <1>1, <1>2, <2>1 DEF HonestReports, Honest, AllDone, Cur
  <1>4. report'[a].success => DoneBefore(NetBird[Cur(a)], idx[a])'
    <2>1. CASE NetBirdSkipped(a) \/ NetBirdSucceeds(a)
      <3>1. NetBird[Cur(a)][idx[a]] \in done' /\ UNCHANGED report
        BY <2>1
        DEF NetBirdSkipped, NetBirdSucceeds, NetBirdTask, NeverMarkedUnexecuted
      <3>2. report'[a].success => DoneBefore(NetBird[Cur(a)], idx[a])
        BY <1>1, <3>1 DEF HonestReports, Honest
      <3>3. ASSUME NEW i \in DOMAIN NetBird[Cur(a)], i < idx[a] + 1,
                   DoneBefore(NetBird[Cur(a)], idx[a])
            PROVE  NetBird[Cur(a)][i] \in done'
        <4>1. i \in Nat
          BY <1>1
        <4>2. i < idx[a] \/ i = idx[a]
          BY <1>1, <3>3, <4>1
        <4>3. QED
          BY <1>2, <3>1, <3>3, <4>2 DEF DoneBefore
      <3>4. NetBird[Cur(a)]' = NetBird[Cur(a)]
        BY <1>1 DEF Cur
      <3>5. QED
        BY <1>1, <3>2, <3>3, <3>4 DEF DoneBefore
    <2>2. CASE NetBirdFails(a)
      BY <2>2 DEF NetBirdFails, TypeOK
    <2>3. QED
      BY <2>1, <2>2
  <1>5. Honest(a)'
    BY <1>1, <1>3, <1>4 DEF Honest
  <1>6. QED
    BY <1>1, <1>2, <1>5, OthersHonest

LEMMA NetBirdDoneHonest ==
    ASSUME TypeOK, HonestReports, NEW a \in Actor, NetBirdDone(a)
    PROVE  HonestReports'
  <1>1. /\ pc[a] = "netbird" /\ idx[a] > Len(NetBird[Cur(a)])
        /\ pc'[a] = "report" /\ UNCHANGED <<platform, todo, done>>
        /\ NetBird[Cur(a)] \in Seq(Task)
    BY CurType DEF NetBirdDone, TypeOK
  <1>2. \A b \in Actor \ {a} : /\ pc'[b] = pc[b] /\ idx'[b] = idx[b]
                               /\ report'[b] = report[b] /\ untold'[b] = untold[b]
    BY DEF NetBirdDone, TypeOK
  <1>3. /\ Clean(a)' => Clean(a)
        /\ report'[a].success => report[a].success
    <2>1. CASE NetBird[Cur(a)] = <<>>
      BY <2>1 DEF NetBirdDone, Clean
    <2>2. CASE NetBird[Cur(a)] # <<>>
      <3>1. /\ report'[a].success = report[a].success
            /\ untold'[a] = (untold[a] \/ report[a].error)
        BY <2>2 DEF NetBirdDone, TypeOK
      <3>2. QED
        BY <3>1 DEF Clean
    <2>3. QED
      BY <2>1, <2>2
  <1>4. Honest(a)'
    <2>1. Clean(a)' => AllDone(Tasks(Cur(a)))
      BY <1>1, <1>3 DEF HonestReports, Honest
    <2>2. report'[a].success => AllDone(NetBird[Cur(a)])
      <3>1. \A i \in DOMAIN NetBird[Cur(a)] : i < idx[a]
        BY <1>1 DEF TypeOK
      <3>2. QED
        BY <1>1, <1>3, <3>1 DEF HonestReports, Honest, DoneBefore, AllDone
    <2>3. UNCHANGED <<Tasks(Cur(a)), NetBird[Cur(a)], done>>
      BY <1>1 DEF Cur
    <2>4. QED
      BY <1>1, <2>1, <2>2, <2>3 DEF Honest, AllDone
  <1>5. QED
    BY <1>1, <1>2, <1>4, OthersHonest

LEMMA HonestProgress ==
    ASSUME TypeOK, HonestReports, NeverMarkedUnexecuted, NEW a \in Actor,
           Progress(a)
    PROVE  HonestReports'
  <1>1. CASE Read(a)
    BY <1>1, RestHonest DEF Read, TypeOK
  <1>2. CASE FolderFails(a) \/ ReadFails(a)
    <2>1. CASE Return(a)
      BY <1>2, <2>1, RestHonest DEF FolderFails, ReadFails, Return, TypeOK
    <2>2. QED
      BY <1>2, <2>1, DiesHonest DEF FolderFails, ReadFails
  <1>3. CASE SendProfileReport(a)
    <2>1. pc'[a] \in {"idle", "read", "claim"}
      BY <1>3 DEF SendProfileReport, TypeOK
    <2>2. QED
      BY <1>3, <2>1, RestHonest DEF SendProfileReport, TypeOK
  <1>4. QED
    BY <1>1, <1>2, <1>3, ClaimHonest, TaskHonest, EndHonest, NetBirdHonest,
       NetBirdDoneHonest DEF Progress

LEMMA HonestStep ==
    TypeOK /\ HonestReports /\ NeverMarkedUnexecuted /\ [Next]_vars
       => HonestReports'
  <1> SUFFICES ASSUME TypeOK, HonestReports, NeverMarkedUnexecuted, [Next]_vars
               PROVE  HonestReports'
    OBVIOUS
  <1>1. CASE UNCHANGED vars \/ DayPasses
    BY <1>1 DEF vars, DayPasses, HonestReports, Honest, Clean, DoneBefore,
                AllDone, Cur
  <1>2. ASSUME NEW a \in Actor, Begin(a) PROVE HonestReports'
    BY <1>2, RestHonest DEF Begin, TypeOK
  <1>3. ASSUME NEW a \in Actor, RequestFails(a) PROVE HonestReports'
    BY <1>3, DiesHonest
    DEF RequestFails, HonestReports, Honest, Clean, DoneBefore, AllDone, Cur
  <1>4. CASE Crash
    BY <1>4, DiesHonest DEF Crash
  <1>5. QED
    BY <1>1, <1>2, <1>3, <1>4, HonestProgress DEF Next

(* Whatever overlaps, crashes or fails, a report of success is only sent   *)
(* of a profile whose tasks were done, but for the three cases that        *)
(* SuccessMeansDone names.                                                 *)
THEOREM SuccessMeansDoneCorrect == Spec => []SuccessMeansDone
  <1>1. Init => HonestReports
    BY DEF Init, HonestReports, Honest
  <1>2. HonestReports => SuccessMeansDone
    BY DEF HonestReports, Honest, Clean, AllDone, SuccessMeansDone
  <1>3. QED
    BY TypeCorrect, NeverMarkedCorrect, <1>1, HonestStep, <1>2, PTL DEF Spec
=============================================================================
