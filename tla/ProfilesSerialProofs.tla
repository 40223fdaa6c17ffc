------------------------ MODULE ProfilesSerialProofs ------------------------
(***************************************************************************)
(* What tasks.json guarantees as long as the goroutines that apply         *)
(* profiles do not overlap (MaxOverlap = 1), for every platform, every     *)
(* number of profiles and tasks, and any number of crashes and failed or   *)
(* torn writes.  ProfilesDoubleRun shows why the hypothesis is needed.     *)
(***************************************************************************)
EXTENDS ProfilesProofs

USE DEF disk, Tasks

OneAtATime ==
    \A a, b \in Actor : pc[a] # "idle" /\ pc[b] # "idle" => a = b

(* The actor has read tasks.json and still holds what it read.             *)
Holding(a) == pc[a] \notin {"idle", "read"}

(* What the file ever remembered, the snapshot that will replace it does.  *)
SnapshotKeepsSuccess ==
    \A a \in Actor : Holding(a) => ever \subseteq tc[a].success

(* A mark is the running actor's, or a fault explains it.                  *)
Explained(p) == Applying(p) \/ p \in faulted

MarksExplained ==
    \A p \in Profile :
        /\ file.running[p] # "none" => Explained(p)
        /\ \A a \in Actor :
              Holding(a) /\ tc[a].running[p] # "none" => Explained(p)

SerialInv ==
    /\ TypeOK /\ OneAtATime
    /\ NothingForgotten /\ SnapshotKeepsSuccess /\ MarksExplained

LEMMA SerialInit == Init => SerialInv
  <1> SUFFICES ASSUME Init PROVE SerialInv
    OBVIOUS
  <1>1. TypeOK
    BY TypeInit
  <1>2. \A a \in Actor : pc[a] = "idle"
    BY DEF Init
  <1>3. \A p \in Profile : file.running[p] = "none"
    BY NewTaskControlType DEF Init
  <1>4. NothingForgotten
    BY DEF Init, NothingForgotten
  <1>5. QED
    BY <1>1, <1>2, <1>3, <1>4
    DEF SerialInv, OneAtATime, SnapshotKeepsSuccess, MarksExplained, Holding

(* A step of the only active actor: the others are idle and stay so.       *)
LEMMA OthersIdle ==
    ASSUME OneAtATime, NEW a \in Actor, pc[a] # "idle", pc' \in [Actor -> Steps],
           \A b \in Actor \ {a} : pc'[b] = pc[b]
    PROVE  /\ OneAtATime'
           /\ \A b \in Actor \ {a} : pc[b] = "idle" /\ pc'[b] = "idle"
  BY DEF OneAtATime

(* The obligations of such a step, in terms of that actor alone.           *)
LEMMA SerialByActor ==
    ASSUME SerialInv, TypeOK', NEW a \in Actor, pc[a] # "idle",
           \A b \in Actor \ {a} : pc'[b] = pc[b],
           NothingForgotten', Holding(a)' => ever' \subseteq tc'[a].success,
           \A p \in Profile :
              /\ file'.running[p] # "none" => Explained(p)'
              /\ Holding(a)' /\ tc'[a].running[p] # "none" => Explained(p)'
    PROVE  SerialInv'
  <1>1. /\ OneAtATime'
        /\ \A b \in Actor \ {a} : pc[b] = "idle" /\ pc'[b] = "idle"
    BY OthersIdle DEF SerialInv, TypeOK
  <1>2. \A b \in Actor : Holding(b)' => b = a
    BY <1>1 DEF Holding
  <1>3. SnapshotKeepsSuccess'
    BY <1>2 DEF SnapshotKeepsSuccess
  <1>4. MarksExplained'
    BY <1>2 DEF MarksExplained
  <1>5. QED
    BY <1>1, <1>3, <1>4 DEF SerialInv

(* With one actor active, the profiles being applied are at most its own.  *)
LEMMA OnlyOneApplying ==
    ASSUME OneAtATime, NEW a \in Actor, pc[a] # "idle", NEW p
    PROVE  Applying(p) <=> pc[a] = "run" /\ Cur(a) = p
  BY DEF OneAtATime, Applying

(* The process dies: what was being applied is now explained by the fault. *)
LEMMA SerialDies ==
    ASSUME SerialInv, TypeOK', ProcessDies, UNCHANGED ever,
           \/ UNCHANGED <<file, torn>>
           \/ file' = NewTaskControl /\ torn' = TRUE
    PROVE  SerialInv'
  <1>1. \A a \in Actor : pc'[a] = "idle"
    BY ProcessDiesType DEF SerialInv
  <1>2. OneAtATime' /\ SnapshotKeepsSuccess'
    BY <1>1 DEF OneAtATime, SnapshotKeepsSuccess, Holding
  <1>3. \A p \in Profile : Explained(p) => p \in faulted'
    BY DEF ProcessDies, Explained, Applying
  <1>4. MarksExplained'
    BY <1>1, <1>3, NewTaskControlType
    DEF SerialInv, MarksExplained, Holding, Explained
  <1>5. NothingForgotten'
    BY DEF SerialInv, NothingForgotten
  <1>6. QED
    BY <1>2, <1>4, <1>5 DEF SerialInv

LEMMA SerialBegin ==
    ASSUME SerialInv, TypeOK', MaxOverlap = 1, NEW a \in Actor, Begin(a)
    PROVE  SerialInv'
  <1>1. Active = {}
    <2>1. IsFiniteSet(Active)
      BY ConstantsAssumption, FS_Subset DEF Active
    <2>2. Cardinality(Active) \in Nat
      BY <2>1, FS_CardinalityType
    <2>3. Cardinality(Active) = 0
      BY <2>2 DEF Begin
    <2>4. QED
      BY <2>1, <2>3, FS_EmptySet
  <1>2. \A b \in Actor : pc[b] = "idle"
    BY <1>1 DEF Active
  <1>3. /\ pc'[a] = "read"
        /\ \A b \in Actor \ {a} : pc'[b] = "idle"
        /\ UNCHANGED <<file, torn, ever, faulted>>
    BY <1>2 DEF Begin, SerialInv, TypeOK
  <1>4. OneAtATime' /\ SnapshotKeepsSuccess'
    BY <1>3 DEF OneAtATime, SnapshotKeepsSuccess, Holding
  <1>5. \A p \in Profile : ~Applying(p)
    BY <1>2 DEF Applying
  <1>6. MarksExplained'
    BY <1>3, <1>5 DEF SerialInv, MarksExplained, Explained, Holding
  <1>7. NothingForgotten'
    BY <1>3 DEF SerialInv, NothingForgotten
  <1>8. QED
    BY <1>4, <1>6, <1>7 DEF SerialInv

LEMMA SerialRead ==
    ASSUME SerialInv, TypeOK', NEW a \in Actor,
           Read(a) \/ FolderFails(a) \/ ReadFails(a)
    PROVE  SerialInv'
  <1>1. pc[a] = "read" /\ UNCHANGED disk /\ NothingForgotten'
    BY DEF Read, FolderFails, ReadFails, SerialInv, NothingForgotten
  <1>2. \A p \in Profile : ~Applying(p)
    BY <1>1, OnlyOneApplying DEF SerialInv
  <1>3. CASE Read(a)
    <2>1. /\ tc'[a] = file /\ faulted' = faulted
          /\ ever \subseteq file.success
          /\ \A b \in Actor \ {a} : pc'[b] = pc[b]
      BY <1>3 DEF Read, SerialInv, NothingForgotten, TypeOK
    <2>2. \A p \in Profile : file.running[p] # "none" => p \in faulted
      BY <1>2 DEF SerialInv, MarksExplained, Explained
    <2>3. QED
      BY <1>1, <2>1, <2>2, SerialByActor DEF Explained
  <1>4. CASE FolderFails(a) \/ ReadFails(a)
    <2>1. CASE ProcessDies
      BY <1>1, <1>4, <2>1, SerialDies
    <2>2. CASE Return(a)
      <3>1. /\ pc'[a] = "idle" /\ faulted' = faulted
            /\ \A b \in Actor \ {a} : pc'[b] = pc[b]
        BY <1>4, <2>2 DEF Return, SerialInv, TypeOK
      <3>2. \A p \in Profile : file.running[p] # "none" => p \in faulted
        BY <1>2 DEF SerialInv, MarksExplained, Explained
      <3>3. QED
        BY <1>1, <3>1, <3>2, SerialByActor DEF Explained, Holding
    <2>3. QED
      BY <1>4, <2>1, <2>2 DEF FolderFails, ReadFails
  <1>5. QED
    BY <1>3, <1>4

(* Steps that leave the control, the claims and the faults as they are.    *)
LEMMA SerialQuiet ==
    ASSUME SerialInv, TypeOK', NEW a \in Actor, Holding(a),
           \A b \in Actor \ {a} : pc'[b] = pc[b],
           UNCHANGED <<disk, todo, faulted>>,
           tc'[a] = tc[a],
           pc[a] = "run" <=> pc'[a] = "run"
    PROVE  SerialInv'
  <1>1. pc[a] # "idle"
    BY DEF Holding
  <1>2. \A p \in Profile : Explained(p) => Explained(p)'
    BY <1>1, OnlyOneApplying
    DEF SerialInv, Explained, Applying, Cur
  <1>3. /\ ever \subseteq tc[a].success /\ NothingForgotten'
        /\ \A p \in Profile :
              /\ file.running[p] # "none" => Explained(p)
              /\ tc[a].running[p] # "none" => Explained(p)
    BY DEF SerialInv, NothingForgotten, SnapshotKeepsSuccess, MarksExplained
  <1>4. QED
    BY <1>1, <1>2, <1>3, SerialByActor

(* A task remembered on the way.                                           *)
LEMMA SerialRemember ==
    ASSUME SerialInv, TypeOK', NEW a \in Actor, Holding(a), NEW t \in Task,
           SetTaskAsSuccessfull(a, t), UNCHANGED <<pc, todo, faulted>>
    PROVE  SerialInv'
  <1>1. TypeOK /\ pc[a] # "idle"
    BY DEF SerialInv, Holding
  <1>2. /\ Remembered(tc[a], t).success = tc[a].success \cup {t}
        /\ Remembered(tc[a], t).running = tc[a].running
    BY <1>1, RememberedType DEF TypeOK
  <1>3. /\ tc'[a].success = tc[a].success \cup {t}
        /\ tc'[a].running = tc[a].running
        /\ \/ file' = file /\ torn' = torn /\ ever' = ever
           \/ /\ file' = Remembered(tc[a], t)
              /\ ever' = ever \cup tc[a].success \cup {t}
           \/ file' = NewTaskControl /\ torn' = TRUE /\ ever' = ever
    BY <1>1, SetTaskType
  <1>4. /\ ever \subseteq tc[a].success /\ NothingForgotten
        /\ \A p \in Profile :
              /\ file.running[p] # "none" => Explained(p)
              /\ tc[a].running[p] # "none" => Explained(p)
    BY DEF SerialInv, SnapshotKeepsSuccess, MarksExplained
  <1>5. \A p \in Profile : Explained(p) => Explained(p)'
    BY DEF Explained, Applying, Cur
  <1>6. NothingForgotten' /\ ever' \subseteq tc'[a].success
    BY <1>2, <1>3, <1>4 DEF NothingForgotten
  <1>7. \A p \in Profile : file'.running[p] # "none" => Explained(p)'
    BY <1>2, <1>3, <1>4, <1>5, NewTaskControlType
  <1>8. \A p \in Profile : tc'[a].running[p] # "none" => Explained(p)'
    BY <1>3, <1>4, <1>5
  <1>9. QED
    BY <1>1, <1>6, <1>7, <1>8, SerialByActor

(* The write of a snapshot that keeps what it remembers.                   *)
LEMMA SerialSave ==
    ASSUME SerialInv, NEW a \in Actor, Holding(a), NEW c \in TaskControl,
           c.success = tc[a].success, Save(c)
    PROVE  /\ NothingForgotten'
           /\ ever' \subseteq c.success
           /\ file' \in {file, c, NewTaskControl}
  <1>1. ever \subseteq tc[a].success /\ NothingForgotten
    BY DEF SerialInv, SnapshotKeepsSuccess
  <1>2. QED
    BY <1>1, SaveCases DEF NothingForgotten

LEMMA SerialClaim ==
    ASSUME SerialInv, TypeOK', NEW a \in Actor, Claim(a) \/ ClaimFails(a)
    PROVE  SerialInv'
  <1>1. /\ pc[a] = "claim" /\ Holding(a) /\ TypeOK /\ OneAtATime
        /\ Cur(a) \in Profile
    BY CurType DEF Claim, ClaimFails, Holding, SerialInv
  <1>2. /\ Claimed(a) \in TaskControl
        /\ Claimed(a).success = tc[a].success
        /\ Claimed(a).running = [tc[a].running EXCEPT ![Cur(a)] = "fresh"]
    BY <1>1, MarkType DEF Claimed, Age, TypeOK
  <1>3. \A p \in Profile :
              /\ file.running[p] # "none" => p \in faulted
              /\ tc[a].running[p] # "none" => p \in faulted
    BY <1>1, OnlyOneApplying DEF SerialInv, MarksExplained, Explained
  <1>4. tc[a].running \in [Profile -> Age]
    BY <1>1 DEF TypeOK, TaskControl
  <1>5. \A p \in Profile \ {Cur(a)} :
           Claimed(a).running[p] # "none" => p \in faulted
    BY <1>2, <1>3, <1>4
  <1>6. /\ tc'[a] = Claimed(a) /\ Cur(a)' = Cur(a)
        /\ \A b \in Actor \ {a} : pc'[b] = pc[b]
    BY <1>1 DEF Claim, ClaimFails, TypeOK, Cur
  <1>7. /\ file' \in {file, Claimed(a), NewTaskControl}
        /\ NothingForgotten' /\ ever' \subseteq tc'[a].success
    BY <1>1, <1>2, <1>6, SerialSave DEF Claim, ClaimFails, Save
  <1>8. /\ faulted \subseteq faulted'
        /\ Explained(Cur(a))'
    <2>1. CASE Claim(a)
      BY <1>1, <1>6, <2>1 DEF Claim, Explained, Applying, TypeOK
    <2>2. CASE ClaimFails(a)
      <3>1. faulted' = faulted \cup {Cur(a)}
        BY <2>2 DEF ClaimFails
      <3>2. QED
        BY <1>6, <3>1 DEF Explained
    <2>3. QED
      BY <2>1, <2>2
  <1>9. \A p \in Profile :
           /\ file'.running[p] # "none" => Explained(p)'
           /\ tc'[a].running[p] # "none" => Explained(p)'
    <2>1. \A p \in faulted : Explained(p)'
      BY <1>8 DEF Explained
    <2>2. Cur(a)' = Cur(a)
      BY <1>6
    <2>3. TAKE p \in Profile
    <2>4. CASE p = Cur(a)
      BY <1>8, <2>2, <2>4 DEF Explained, Applying
    <2>5. CASE p # Cur(a)
      BY <1>3, <1>5, <1>6, <1>7, <2>1, <2>5, NewTaskControlType
    <2>6. QED
      BY <2>4, <2>5
  <1>10. QED
    BY <1>1, <1>6, <1>7, <1>9, SerialByActor

LEMMA SerialRelease ==
    ASSUME SerialInv, TypeOK', NEW a \in Actor, Release(a) \/ ReleaseFails(a)
    PROVE  SerialInv'
  <1>1. /\ pc[a] = "run" /\ Holding(a) /\ TypeOK /\ OneAtATime
        /\ Cur(a) \in Profile
    BY CurType DEF Release, ReleaseFails, Finished, Holding, SerialInv
  <1>2. /\ Released(a) \in TaskControl
        /\ Released(a).success = tc[a].success
        /\ Released(a).running = [tc[a].running EXCEPT ![Cur(a)] = "none"]
    BY <1>1, MarkType DEF Released, Age, TypeOK
  <1>3. \A p \in Profile \ {Cur(a)} :
              /\ file.running[p] # "none" => p \in faulted
              /\ tc[a].running[p] # "none" => p \in faulted
    BY <1>1, OnlyOneApplying DEF SerialInv, MarksExplained, Explained
  <1>4. tc[a].running \in [Profile -> Age]
    BY <1>1 DEF TypeOK, TaskControl
  <1>5. \A p \in Profile :
           Released(a).running[p] # "none" => p # Cur(a) /\ p \in faulted
    BY <1>2, <1>3, <1>4
  <1>6. /\ tc'[a] = Released(a)
        /\ \A b \in Actor \ {a} : pc'[b] = pc[b]
    BY <1>1 DEF Release, ReleaseFails, EndApply, TypeOK
  <1>7. /\ file' \in {file, Released(a), NewTaskControl}
        /\ NothingForgotten' /\ ever' \subseteq tc'[a].success
    BY <1>1, <1>2, <1>6, SerialSave DEF Release, ReleaseFails, Save
  <1>8. CASE Release(a)
    <2>1. file' = Released(a) /\ faulted' = faulted \ {Cur(a)}
      BY <1>8 DEF Release, WriteOK
    <2>2. QED
      BY <1>1, <1>5, <1>6, <1>7, <2>1, SerialByActor DEF Explained
  <1>9. CASE ReleaseFails(a)
    <2>1. faulted' = faulted \cup {Cur(a)}
      BY <1>9 DEF ReleaseFails
    <2>2. \A p \in Profile : file'.running[p] # "none" => p \in faulted'
      BY <1>3, <1>5, <1>7, <2>1, NewTaskControlType
    <2>3. QED
      BY <1>1, <1>5, <1>6, <1>7, <2>1, <2>2, SerialByActor DEF Explained
  <1>10. QED
    BY <1>8, <1>9

LEMMA SerialReport ==
    ASSUME SerialInv, TypeOK', NEW a \in Actor, SendProfileReport(a)
    PROVE  SerialInv'
  <1>1. /\ pc[a] = "report" /\ Holding(a) /\ TypeOK /\ OneAtATime
        /\ UNCHANGED <<file, torn, ever, faulted>> /\ NothingForgotten'
        /\ \A b \in Actor \ {a} : pc'[b] = pc[b]
    BY DEF SendProfileReport, Holding, SerialInv, NothingForgotten, TypeOK
  <1>2. /\ ever \subseteq tc[a].success
        /\ \A p \in Profile :
              /\ file.running[p] # "none" => p \in faulted
              /\ tc[a].running[p] # "none" => p \in faulted
    BY <1>1, OnlyOneApplying
    DEF SerialInv, SnapshotKeepsSuccess, MarksExplained, Explained
  <1>3. Holding(a)' => tc'[a] = tc[a]
    BY <1>1 DEF SendProfileReport, Holding, TypeOK
  <1>4. QED
    BY <1>1, <1>2, <1>3, SerialByActor DEF Explained

LEMMA SerialProgress ==
    ASSUME SerialInv, TypeOK', NEW a \in Actor, Progress(a)
    PROVE  SerialInv'
  <1>1. CASE TaskSucceeds(a)
    <2>1. Holding(a) /\ CurTask(a) \in Task
      BY <1>1, CurType DEF TaskSucceeds, Running, Holding, SerialInv
    <2>2. CASE CurResource(a).remembers
      BY <1>1, <2>1, <2>2, SerialRemember DEF TaskSucceeds
    <2>3. CASE ~CurResource(a).remembers
      BY <1>1, <2>1, <2>3, SerialQuiet DEF TaskSucceeds
    <2>4. QED
      BY <2>2, <2>3
  <1>2. CASE NetBirdSucceeds(a)
    <2>1. Holding(a) /\ NetBirdTask(a) \in Task
      BY <1>2, CurType DEF NetBirdSucceeds, AtNetBird, Holding, SerialInv
    <2>2. QED
      BY <1>2, <2>1, SerialRemember DEF NetBirdSucceeds
  <1>3. CASE ApplyErrors(a) \/ Skip(a) \/ NetBirdDone(a)
    <2>1. /\ Holding(a) /\ UNCHANGED <<disk, todo, faulted, tc>>
          /\ pc[a] # "run" /\ pc'[a] # "run"
          /\ \A b \in Actor \ {a} : pc'[b] = pc[b]
      BY <1>3
      DEF ApplyErrors, Skip, NetBirdDone, AfterApply, Holding, SerialInv, TypeOK
    <2>2. QED
      BY <2>1, SerialQuiet
  <1>4. CASE \/ TaskSkipped(a) \/ TaskFails(a) \/ TaskErrors(a)
             \/ PlaybookFailsUntold(a) \/ NetBirdSkipped(a) \/ NetBirdFails(a)
    <2>1. Holding(a) /\ UNCHANGED <<disk, pc, todo, faulted, tc>>
      BY <1>4 DEF TaskSkipped, TaskFails, TaskErrors, PlaybookFailsUntold,
                  NetBirdSkipped, NetBirdFails, Running, AtNetBird, Holding
    <2>2. QED
      BY <2>1, SerialQuiet
  <1>5. QED
    BY <1>1, <1>2, <1>3, <1>4, SerialRead, SerialClaim, SerialRelease,
       SerialReport DEF Progress

LEMMA SerialDay ==
    ASSUME SerialInv, TypeOK', DayPasses
    PROVE  SerialInv'
  <1>1. /\ file'.success = file.success
        /\ \A p \in Profile : file'.running[p] # "none"
                                => file.running[p] # "none"
        /\ \A a \in Actor :
              /\ tc'[a].success = tc[a].success
              /\ \A p \in Profile : tc'[a].running[p] # "none"
                                      => tc[a].running[p] # "none"
    BY OlderMarksType DEF DayPasses, SerialInv, TypeOK
  <1>2. UNCHANGED <<pc, todo, faulted, torn, ever>>
    BY DEF DayPasses
  <1>3. QED
    BY <1>1, <1>2
    DEF SerialInv, OneAtATime, NothingForgotten, SnapshotKeepsSuccess,
        MarksExplained, Explained, Applying, Holding, Cur

LEMMA SerialStep ==
    ASSUME MaxOverlap = 1, SerialInv, [Next]_vars
    PROVE  SerialInv'
  <1>1. TypeOK'
    BY TypeStep DEF SerialInv
  <1>2. CASE UNCHANGED vars
    BY <1>1, <1>2
    DEF vars, SerialInv, OneAtATime, NothingForgotten, SnapshotKeepsSuccess,
        MarksExplained, Explained, Applying, Holding, Cur
  <1>3. ASSUME NEW a \in Actor, RequestFails(a)
        PROVE  SerialInv'
    <2>1. CASE ProcessDies
      BY <1>1, <1>3, <2>1, SerialDies DEF RequestFails
    <2>2. CASE UNCHANGED <<pc, todo, tc, idx, report, untold, faulted>>
      BY <1>1, <1>3, <2>2
      DEF RequestFails, SerialInv, OneAtATime, NothingForgotten,
          SnapshotKeepsSuccess, MarksExplained, Explained, Applying, Holding, Cur
    <2>3. QED
      BY <1>3, <2>1, <2>2 DEF RequestFails
  <1>4. CASE Crash
    BY <1>1, <1>4, SerialDies DEF Crash, Torn
  <1>5. QED
    BY <1>1, <1>2, <1>3, <1>4, SerialBegin, SerialProgress, SerialDay DEF Next

(* The invariant of serial use: whatever the file has ever remembered, the *)
(* snapshot about to replace it does, and every mark is accounted for.     *)
THEOREM SerialInvariant == MaxOverlap = 1 => (Spec => []SerialInv)
  <1>1. SUFFICES ASSUME MaxOverlap = 1 PROVE Spec => []SerialInv
    OBVIOUS
  <1>2. SerialInv /\ [Next]_vars => SerialInv'
    BY <1>1, SerialStep
  <1>3. QED
    BY <1>2, SerialInit, PTL DEF Spec

-----------------------------------------------------------------------------
(* The three properties of serial use.                                     *)

(* A mark with nobody applying its profile was left by a fault.            *)
THEOREM SerialMarks ==
    MaxOverlap = 1 => (Spec => []MarkOutlivesRunOnlyAfterFault)
  <1>1. SerialInv => MarkOutlivesRunOnlyAfterFault
    BY DEF SerialInv, MarksExplained, Explained, MarkOutlivesRunOnlyAfterFault
  <1>2. QED
    BY <1>1, SerialInvariant, PTL

(* A task ever remembered is not run again by the periodic job, nor such a *)
(* NetBird task by anybody.                                                *)
THEOREM SerialNoRerun ==
    MaxOverlap = 1 => (Spec => []NoRerunOfRemembered)
  <1>1. SerialInv => NoRerunOfRemembered
    <2>1. SUFFICES ASSUME SerialInv, NEW a \in Actor
                   PROVE  /\ Running(a) /\ ~Skips(a) /\ Kind[a] = "job"
                                /\ CurResource(a).skips
                             => CurTask(a) \notin ever
                          /\ AtNetBird(a) /\ NetBirdTask(a) \in ever
                             => NetBirdTask(a) \in tc[a].success
      BY DEF NoRerunOfRemembered
    <2>2. Running(a) \/ AtNetBird(a) => ever \subseteq tc[a].success
      BY <2>1 DEF SerialInv, SnapshotKeepsSuccess, Holding, Running, AtNetBird
    <2>3. QED
      BY <2>2 DEF Skips, Forced
  <1>2. QED
    BY <1>1, SerialInvariant, PTL

(* As long as tasks.json parses, it remembers what it ever remembered.     *)
THEOREM SerialNothingForgotten ==
    MaxOverlap = 1 => (Spec => []NothingForgotten)
  <1>1. SerialInv => NothingForgotten
    BY DEF SerialInv
  <1>2. QED
    BY <1>1, SerialInvariant, PTL
=============================================================================
