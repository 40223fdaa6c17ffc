------------------------------ MODULE Profiles ------------------------------
(***************************************************************************)
(* Configuration profiles: how the agent applies them and how tasks.json   *)
(* (the task control file) serialises and remembers their application.     *)
(*                                                                         *)
(* Three kinds of goroutine apply profiles: the periodic gocron job, the   *)
(* handler of agent.runprofile and the handler of a single-task request.   *)
(* Each reads tasks.json into memory, claims a profile in it               *)
(* (ApplyConfiguration), runs the resources of the profile, releases the   *)
(* claim, runs the NetBird tasks and reports.  The file is always written  *)
(* whole, from the writer's own snapshot, and no lock protects it.         *)
(*                                                                         *)
(* One step is one file access or one external command.  A mark's time is  *)
(* abstracted to its age: "fresh" (24 hours or less) or "stale".           *)
(***************************************************************************)
EXTENDS Naturals, Sequences, FiniteSets

CONSTANTS
    Platforms,   \* "windows" and "unix" (Linux and macOS share their logic)
    Profile,     \* profile identifiers
    Task,        \* task identifiers
    Resources,   \* [Platforms -> [Profile -> Seq(Task)]], run under the claim
    NetBird,     \* [Profile -> Seq(Task)], the NetBird tasks run after it
    Resource,    \* [Task -> ResourceKinds], the kind of each such task
    Actor,       \* the goroutines that may apply profiles
    Kind,        \* [Actor -> Kinds]
    Response,    \* [Actor -> SUBSET Seq(Profile)], what the worker may answer
    MaxOverlap,  \* bound: actors active at the same time
    MaxFaults,   \* bound: crashes, failed requests, failed or torn writes
    TornWrites   \* whether a crash may fall between truncation and write

Kinds == {"job", "runProfile", "runTask"}

ResourceKinds == {"package", "latestPackage", "registry", "localUser",
                  "localGroup", "msi", "script", "everyScript", "playbook"}

(* What the function of a resource does with tasks.json: whether it skips  *)
(* a remembered task (unless it is forced), and whether it remembers one   *)
(* whose command did not complain.  A package that uses the latest version *)
(* is never remembered, nor is the Executed map that should pace it        *)
(* written; a script is skipped only if it is to run once.                 *)
PackageManagementTask(latest) == [skips |-> TRUE, remembers |-> ~latest]

RegistryTask == [skips |-> TRUE, remembers |-> TRUE]

LocalUserTask == [skips |-> TRUE, remembers |-> TRUE]

LocalGroupTask == [skips |-> TRUE, remembers |-> TRUE]

MSIPackageTask == [skips |-> TRUE, remembers |-> TRUE]

PowershellTask(once) == [skips |-> once, remembers |-> TRUE]

(* The playbook of a profile runs as a whole, each time.                   *)
Playbook == [skips |-> FALSE, remembers |-> FALSE]

RunTasks(kind) ==
    CASE kind = "package" -> PackageManagementTask(FALSE)
      [] kind = "latestPackage" -> PackageManagementTask(TRUE)
      [] kind = "registry" -> RegistryTask
      [] kind = "localUser" -> LocalUserTask
      [] kind = "localGroup" -> LocalGroupTask
      [] kind = "msi" -> MSIPackageTask
      [] kind = "script" -> PowershellTask(TRUE)
      [] kind = "everyScript" -> PowershellTask(FALSE)
      [] kind = "playbook" -> Playbook

Age == {"none", "fresh", "stale"}

NoDuplicates(s) == \A i, j \in DOMAIN s : s[i] = s[j] => i = j

ASSUME ConstantsAssumption ==
    /\ Platforms \subseteq {"windows", "unix"}
    /\ Resources \in [Platforms -> [Profile -> Seq(Task)]]
    /\ NetBird \in [Profile -> Seq(Task)]
    /\ Resource \in [Task -> ResourceKinds]
    /\ IsFiniteSet(Actor)
    /\ Kind \in [Actor -> Kinds]
    /\ \A a \in Actor : \A s \in Response[a] :
          /\ s \in Seq(Profile) /\ s # <<>> /\ NoDuplicates(s)
          \* the task handler gets one profile, and refuses an empty one
          /\ Kind[a] = "runTask" =>
                Len(s) = 1 /\ \A x \in Platforms : Resources[x][s[1]] # <<>>
    /\ MaxOverlap \in Nat /\ MaxFaults \in Nat
    /\ TornWrites \in BOOLEAN

VARIABLES
    platform, \* what the agent was built for
    file,     \* tasks.json
    torn,     \* tasks.json no longer holds valid JSON
    pc,       \* what each actor does next
    todo,     \* the profiles of the actor's answer, the current one first
    tc,       \* the actor's snapshot of tasks.json (taskControl)
    idx,      \* the next task of the current profile
    report,   \* the ProfileReport being built for the current profile
    untold,   \* history: a task of the current profile was not done, and
              \* its report does not say so
    done,     \* history: the tasks that succeeded at least once
    ever,     \* history: the tasks that tasks.json has ever remembered
    faulted,  \* history: profiles whose claim or release met a fault
    faults    \* bound: the faults so far

vars == <<platform, file, torn, pc, todo, tc, idx, report, untold, done, ever,
          faulted, faults>>

(* What a step that does not write tasks.json leaves alone.                *)
disk == <<platform, file, torn, ever>>

TaskControl == [success : SUBSET Task, running : [Profile -> Age]]

NewTaskControl == [success |-> {}, running |-> [p \in Profile |-> "none"]]

Steps == {"idle", "read", "claim", "run", "netbird", "report"}

NewReport == [success |-> TRUE, error |-> FALSE]

Cur(a) == Head(todo[a])

(* The resources of a profile, as the worker sends them to this platform.  *)
Tasks(p) == Resources[platform][p]

Forced(a) == Kind[a] # "job"

Active == {a \in Actor : pc[a] # "idle"}

-----------------------------------------------------------------------------
(* Writing tasks.json.                                                     *)

(* os.WriteFile of the whole in-memory control.                            *)
WriteOK(new) ==
    /\ file' = new
    /\ torn' = FALSE
    /\ ever' = ever \cup new.success
    /\ UNCHANGED <<platform, faults>>

Fault == faults < MaxFaults /\ faults' = faults + 1

(* A write cut short: the file was truncated, and no longer parses.        *)
Torn == TornWrites /\ torn' = TRUE /\ file' = NewTaskControl

(* The write fails, before or after the truncation.                        *)
WriteFails ==
    /\ Fault
    /\ Torn \/ UNCHANGED <<file, torn>>
    /\ UNCHANGED <<platform, ever>>

Save(new) == WriteOK(new) \/ WriteFails

Remembered(c, t) == [c EXCEPT !.success = @ \cup {t}]

(* A variant that updates the file and forgets the caller's snapshot.      *)
RememberOnDiskOnly(a, t) ==
    IF t \in tc[a].success
      THEN UNCHANGED <<disk, tc, faults>>
      ELSE Save(Remembered(tc[a], t)) /\ UNCHANGED tc

(* A task already remembered writes nothing; a failed write is only        *)
(* logged, and the snapshot keeps the task.                                *)
SetTaskAsSuccessfull(a, t) ==
    IF t \in tc[a].success
      THEN UNCHANGED <<disk, tc, faults>>
      ELSE /\ Save(Remembered(tc[a], t))
           /\ tc' = [tc EXCEPT ![a] = Remembered(@, t)]

-----------------------------------------------------------------------------
Init ==
    /\ platform \in Platforms
    /\ file = NewTaskControl
    /\ torn = FALSE
    /\ pc = [a \in Actor |-> "idle"]
    /\ todo = [a \in Actor |-> <<>>]
    /\ tc = [a \in Actor |-> NewTaskControl]
    /\ idx = [a \in Actor |-> 1]
    /\ report = [a \in Actor |-> NewReport]
    /\ untold = [a \in Actor |-> FALSE]
    /\ done = {}
    /\ ever = {}
    /\ faulted = {}
    /\ faults = 0

(* The process ends: every goroutine and every snapshot is gone, what ran  *)
(* under a claim leaves its mark behind.  The service manager restarts it. *)
ProcessDies ==
    /\ faulted' = faulted \cup {Cur(a) : a \in {b \in Actor : pc[b] = "run"}}
    /\ pc' = [a \in Actor |-> "idle"]
    /\ todo' = [a \in Actor |-> <<>>]
    /\ tc' = [a \in Actor |-> NewTaskControl]
    /\ idx' = [a \in Actor |-> 1]
    /\ report' = [a \in Actor |-> NewReport]
    /\ untold' = [a \in Actor |-> FALSE]

(* A crash, possibly in the middle of a write of an active actor.          *)
Crash ==
    /\ Fault
    /\ (Torn /\ Active # {}) \/ UNCHANGED <<file, torn>>
    /\ ProcessDies
    /\ UNCHANGED <<platform, ever, done>>

(* The job fires, or a message of one of the two subscriptions arrives,    *)
(* and the worker answers with the profiles to apply.                      *)
Begin(a) ==
    /\ pc[a] = "idle"
    /\ Cardinality(Active) < MaxOverlap
    /\ \E s \in Response[a] : todo' = [todo EXCEPT ![a] = s]
    /\ pc' = [pc EXCEPT ![a] = "read"]
    /\ UNCHANGED <<disk, tc, idx, report, untold, done, faulted, faults>>

(* The worker does not answer: the restart flag is set in the ini file and *)
(* the nil message is processed all the same, which panics; only a failure *)
(* to set the flag returns.  The callback of agent.runprofile takes the    *)
(* process with it; whether gocron recovers the panic of its job depends   *)
(* on its release, so both are steps.                                      *)
RequestFails(a) ==
    /\ pc[a] = "idle"
    /\ Kind[a] # "runTask"
    /\ Fault
    /\ \/ ProcessDies
       \/ UNCHANGED <<pc, todo, tc, idx, report, untold, faulted>>
    /\ UNCHANGED <<disk, done>>

(* A variant that starts from an empty control instead of the file.        *)
ReadCreatesAnew(a) ==
    /\ pc[a] = "read"
    /\ ~torn
    /\ tc' = [tc EXCEPT ![a] = NewTaskControl]
    /\ pc' = [pc EXCEPT ![a] = "claim"]
    /\ UNCHANGED <<disk, todo, idx, report, untold, done, faulted, faults>>

(* A variant that takes a file that does not parse for an empty one.       *)
ReadTornAsEmpty(a) ==
    /\ pc[a] = "read"
    /\ tc' = [tc EXCEPT ![a] = file]
    /\ pc' = [pc EXCEPT ![a] = "claim"]
    /\ UNCHANGED <<disk, todo, idx, report, untold, done, faulted, faults>>

(* ReadTaskControlFile: once for the whole answer on unix, before each     *)
(* profile on Windows.                                                     *)
Read(a) ==
    /\ pc[a] = "read"
    /\ ~torn
    /\ tc' = [tc EXCEPT ![a] = file]
    /\ pc' = [pc EXCEPT ![a] = "claim"]
    /\ UNCHANGED <<disk, todo, idx, report, untold, done, faulted, faults>>

Return(a) ==
    /\ pc' = [pc EXCEPT ![a] = "idle"]
    /\ todo' = [todo EXCEPT ![a] = <<>>]
    /\ UNCHANGED <<tc, idx, report, untold, faulted>>

(* The folder of tasks.json cannot be had: the answer is dropped.          *)
FolderFails(a) ==
    /\ pc[a] = "read"
    /\ Fault
    /\ Return(a)
    /\ UNCHANGED <<disk, done>>

(* The file does not parse since a write was cut short, or cannot be read, *)
(* or another actor has truncated it and not written it yet.  The answer   *)
(* is dropped, except that the unix task handler goes on with a nil        *)
(* control and panics.                                                     *)
ReadFails(a) ==
    /\ pc[a] = "read"
    /\ (torn /\ UNCHANGED faults) \/ Fault
    /\ IF Kind[a] = "runTask" /\ platform = "unix"
         THEN ProcessDies
         ELSE Return(a)
    /\ UNCHANGED <<disk, done>>

-----------------------------------------------------------------------------
(* ApplyConfiguration: the claim.                                          *)

(* The step after the claimed part: the NetBird tasks of the profile, which *)
(* the single-task handler does not run.                                   *)
AfterApply(a) == IF Kind[a] = "runTask" THEN "report" ELSE "netbird"

(* An error of ApplyConfiguration drops its task reports, so a profile's   *)
(* report keeps its initial Success; the task handler never sets it.       *)
ErrorReport(a) == [success |-> Kind[a] # "runTask", error |-> TRUE]

(* On unix a profile without a playbook is not claimed.                    *)
Unclaimed(a) == platform = "unix" /\ Tasks(Cur(a)) = <<>>

Claimed(a) == [tc[a] EXCEPT !.running[Cur(a)] = "fresh"]

(* A variant without the 24-hour override.                                 *)
NoStaleClaim(a) == tc[a].running[Cur(a)] = "none"

Claimable(a) == tc[a].running[Cur(a)] # "fresh"

(* An error before the claim (the profile does not parse, or its folder    *)
(* cannot be had).                                                         *)
ApplyErrors(a) ==
    /\ pc[a] = "claim"
    /\ ~Unclaimed(a)
    /\ Fault
    /\ report' = [report EXCEPT ![a] = ErrorReport(a)]
    /\ pc' = [pc EXCEPT ![a] = AfterApply(a)]
    /\ UNCHANGED <<disk, todo, tc, idx, untold, done, faulted>>

(* Not claimed, or marked as running within 24 hours: no task, no error.   *)
Skip(a) ==
    /\ pc[a] = "claim"
    /\ Unclaimed(a) \/ ~Claimable(a)
    /\ untold' = [untold EXCEPT ![a] = ~Unclaimed(a)]
    /\ pc' = [pc EXCEPT ![a] = AfterApply(a)]
    /\ UNCHANGED <<disk, todo, tc, idx, report, done, faulted, faults>>

Claim(a) ==
    /\ pc[a] = "claim"
    /\ ~Unclaimed(a) /\ Claimable(a)
    /\ WriteOK(Claimed(a))
    /\ tc' = [tc EXCEPT ![a] = Claimed(a)]
    /\ pc' = [pc EXCEPT ![a] = "run"]
    /\ UNCHANGED <<todo, idx, report, untold, done, faulted>>

(* The claim could not be saved: the mark stays in the snapshot, and the   *)
(* release is not yet registered.                                          *)
ClaimFails(a) ==
    /\ pc[a] = "claim"
    /\ ~Unclaimed(a) /\ Claimable(a)
    /\ WriteFails
    /\ tc' = [tc EXCEPT ![a] = Claimed(a)]
    /\ report' = [report EXCEPT ![a] = ErrorReport(a)]
    /\ faulted' = faulted \cup {Cur(a)}
    /\ pc' = [pc EXCEPT ![a] = AfterApply(a)]
    /\ UNCHANGED <<todo, idx, untold, done>>

-----------------------------------------------------------------------------
(* Running the resources of the claimed profile, one command a step.       *)

Running(a) == pc[a] = "run" /\ idx[a] <= Len(Tasks(Cur(a)))

Next1(a) == idx' = [idx EXCEPT ![a] = @ + 1]

CurTask(a) == Tasks(Cur(a))[idx[a]]

CurResource(a) == RunTasks(Resource[CurTask(a)])

Skips(a) ==
    /\ CurResource(a).skips
    /\ CurTask(a) \in tc[a].success
    /\ ~Forced(a)

TaskSkipped(a) ==
    /\ Running(a) /\ Skips(a)
    /\ Next1(a)
    /\ UNCHANGED <<disk, pc, todo, tc, report, untold, done, faulted, faults>>

TaskSucceeds(a) ==
    /\ Running(a) /\ ~Skips(a)
    /\ done' = done \cup {CurTask(a)}
    /\ IF CurResource(a).remembers
         THEN SetTaskAsSuccessfull(a, CurTask(a))
         ELSE UNCHANGED <<disk, tc, faults>>
    /\ Next1(a)
    /\ UNCHANGED <<pc, todo, report, untold, faulted>>

(* A variant that remembers the task whatever it answered.                 *)
FailingTaskRemembered(a) ==
    /\ Running(a) /\ ~Skips(a)
    /\ SetTaskAsSuccessfull(a, CurTask(a))
    /\ report' = [report EXCEPT ![a].success = FALSE]
    /\ Next1(a)
    /\ UNCHANGED <<pc, todo, untold, done, faulted>>

(* The command ran and complained (stderr, or a failed Ansible task).      *)
TaskFails(a) ==
    /\ Running(a) /\ ~Skips(a)
    /\ report' = [report EXCEPT ![a].success = FALSE]
    /\ Next1(a)
    /\ UNCHANGED <<disk, pc, todo, tc, untold, done, faulted, faults>>

(* The playbook failed, and its output parses but has no failed task: the  *)
(* error of its execution is not looked at.                                *)
PlaybookFailsUntold(a) ==
    /\ Running(a) /\ Resource[CurTask(a)] = "playbook"
    /\ untold' = [untold EXCEPT ![a] = TRUE]
    /\ Next1(a)
    /\ UNCHANGED <<disk, pc, todo, tc, report, done, faulted, faults>>

(* The task returns an error: the rest of the profile is abandoned.  A     *)
(* package may have been installed before its deployment report failed.    *)
TaskErrors(a) ==
    /\ Running(a) /\ ~Skips(a)
    /\ done' \in {done, done \cup {CurTask(a)}}
    /\ report' = [report EXCEPT ![a] = ErrorReport(a)]
    /\ idx' = [idx EXCEPT ![a] = Len(Tasks(Cur(a))) + 1]
    /\ UNCHANGED <<disk, pc, todo, tc, untold, faulted, faults>>

-----------------------------------------------------------------------------
(* The deferred release of the claim, then NetBird and the report.         *)

Released(a) == [tc[a] EXCEPT !.running[Cur(a)] = "none"]

Finished(a) == pc[a] = "run" /\ idx[a] > Len(Tasks(Cur(a)))

(* A variant that keeps the index of the last resource.                    *)
EndApplyKeepsIndex(a) ==
    /\ pc' = [pc EXCEPT ![a] = AfterApply(a)]
    /\ UNCHANGED idx

EndApply(a) ==
    /\ pc' = [pc EXCEPT ![a] = AfterApply(a)]
    /\ idx' = [idx EXCEPT ![a] = 1]

(* A variant whose release is not deferred: an error leaves without it.    *)
ReleaseUnlessFailed(a) ==
    /\ Finished(a)
    /\ IF report[a].error THEN UNCHANGED <<disk, faults, tc>>
       ELSE /\ WriteOK(Released(a))
            /\ tc' = [tc EXCEPT ![a] = Released(a)]
    /\ EndApply(a)
    /\ faulted' = faulted \ {Cur(a)}
    /\ UNCHANGED <<todo, report, untold, done>>

Release(a) ==
    /\ Finished(a)
    /\ WriteOK(Released(a))
    /\ tc' = [tc EXCEPT ![a] = Released(a)]
    /\ EndApply(a)
    /\ faulted' = faulted \ {Cur(a)}
    /\ UNCHANGED <<todo, report, untold, done>>

ReleaseFails(a) ==
    /\ Finished(a)
    /\ WriteFails
    /\ tc' = [tc EXCEPT ![a] = Released(a)]
    /\ EndApply(a)
    /\ faulted' = faulted \cup {Cur(a)}
    /\ UNCHANGED <<todo, report, untold, done>>

NetBirdTask(a) == NetBird[Cur(a)][idx[a]]

AtNetBird(a) == pc[a] = "netbird" /\ idx[a] <= Len(NetBird[Cur(a)])

(* ApplyNetBirdConfiguration skips a remembered task whatever the trigger. *)
NetBirdSkipped(a) ==
    /\ AtNetBird(a) /\ NetBirdTask(a) \in tc[a].success
    /\ Next1(a)
    /\ UNCHANGED <<disk, pc, todo, tc, report, untold, done, faulted, faults>>

NetBirdSucceeds(a) ==
    /\ AtNetBird(a) /\ NetBirdTask(a) \notin tc[a].success
    /\ done' = done \cup {NetBirdTask(a)}
    /\ SetTaskAsSuccessfull(a, NetBirdTask(a))
    /\ Next1(a)
    /\ UNCHANGED <<pc, todo, report, untold, faulted>>

NetBirdFails(a) ==
    /\ AtNetBird(a) /\ NetBirdTask(a) \notin tc[a].success
    /\ report' = [report EXCEPT ![a].success = FALSE]
    /\ Next1(a)
    /\ UNCHANGED <<disk, pc, todo, tc, untold, done, faulted, faults>>

(* A variant that drops the error of every profile.                        *)
NetBirdDoneForAll(a) ==
    /\ pc[a] = "netbird" /\ idx[a] > Len(NetBird[Cur(a)])
    /\ report' = [report EXCEPT ![a].error = FALSE]
    /\ idx' = [idx EXCEPT ![a] = 1]
    /\ pc' = [pc EXCEPT ![a] = "report"]
    /\ UNCHANGED <<disk, todo, tc, untold, done, faulted, faults>>

(* Where a profile has NetBird tasks, profileReport.Error is assigned from *)
(* errData, which never received the error of ApplyConfiguration.          *)
NetBirdDone(a) ==
    /\ pc[a] = "netbird" /\ idx[a] > Len(NetBird[Cur(a)])
    /\ IF NetBird[Cur(a)] = <<>>
         THEN UNCHANGED <<report, untold>>
         ELSE /\ report' = [report EXCEPT ![a].error = FALSE]
              /\ untold' = [untold EXCEPT ![a] = @ \/ report[a].error]
    /\ idx' = [idx EXCEPT ![a] = 1]
    /\ pc' = [pc EXCEPT ![a] = "report"]
    /\ UNCHANGED <<disk, todo, tc, done, faulted, faults>>

(* SendProfileReport (a failure is only logged), then the next profile.    *)
SendProfileReport(a) ==
    /\ pc[a] = "report"
    /\ todo' = [todo EXCEPT ![a] = Tail(@)]
    /\ IF Len(todo[a]) > 1 /\ platform = "unix"
         THEN /\ pc' = [pc EXCEPT ![a] = "claim"]
              /\ UNCHANGED tc
         ELSE /\ pc' = [pc EXCEPT ![a] =
                            IF Len(todo[a]) > 1 THEN "read" ELSE "idle"]
              /\ tc' = [tc EXCEPT ![a] = NewTaskControl]
    /\ report' = [report EXCEPT ![a] = NewReport]
    /\ untold' = [untold EXCEPT ![a] = FALSE]
    /\ UNCHANGED <<disk, idx, done, faulted, faults>>

(* More than 24 hours pass: every mark becomes stale.                      *)
Older(age) == IF age = "fresh" THEN "stale" ELSE age

OlderMarks(c) == [c EXCEPT !.running = [p \in Profile |-> Older(@[p])]]

DayPasses ==
    /\ file' = OlderMarks(file)
    /\ tc' = [a \in Actor |-> OlderMarks(tc[a])]
    /\ UNCHANGED <<platform, torn, pc, todo, idx, report, untold, done, ever,
                   faulted, faults>>

-----------------------------------------------------------------------------
Progress(a) ==
    \/ FolderFails(a) \/ Read(a) \/ ReadFails(a)
    \/ ApplyErrors(a) \/ Skip(a) \/ Claim(a) \/ ClaimFails(a)
    \/ TaskSkipped(a) \/ TaskSucceeds(a) \/ TaskFails(a) \/ TaskErrors(a)
    \/ PlaybookFailsUntold(a)
    \/ Release(a) \/ ReleaseFails(a)
    \/ NetBirdSkipped(a) \/ NetBirdSucceeds(a) \/ NetBirdFails(a)
    \/ NetBirdDone(a) \/ SendProfileReport(a)

Next ==
    \/ \E a \in Actor : Begin(a) \/ RequestFails(a) \/ Progress(a)
    \/ Crash \/ DayPasses

Spec == Init /\ [][Next]_vars

(* The gocron scheduler keeps firing the job, a started goroutine keeps    *)
(* running (every command it waits for ends) and time passes.  Messages    *)
(* from the console are under no obligation.                               *)
Fairness ==
    /\ \A a \in Actor : WF_vars(Progress(a))
    /\ \A a \in Actor : Kind[a] = "job" => WF_vars(Begin(a))
    /\ WF_vars(DayPasses)

FairSpec == Spec /\ Fairness

-----------------------------------------------------------------------------
(* Every variable stays in its type: the steps keep the list of profiles   *)
(* and the index of the running task within the profile being applied.     *)
TypeOK ==
    /\ platform \in Platforms
    /\ file \in TaskControl
    /\ torn \in BOOLEAN
    /\ pc \in [Actor -> Steps]
    /\ todo \in [Actor -> Seq(Profile)]
    /\ \A a \in Actor : pc[a] # "idle" => todo[a] # <<>>
    /\ tc \in [Actor -> TaskControl]
    /\ idx \in [Actor -> Nat \ {0}]
    /\ \A a \in Actor :
          /\ pc[a] = "run" => idx[a] <= Len(Tasks(Cur(a))) + 1
          /\ pc[a] = "netbird" => idx[a] <= Len(NetBird[Cur(a)]) + 1
          /\ pc[a] \notin {"run", "netbird"} => idx[a] = 1
    /\ report \in [Actor -> [success : BOOLEAN, error : BOOLEAN]]
    /\ untold \in [Actor -> BOOLEAN]
    /\ done \subseteq Task
    /\ ever \subseteq Task
    /\ faulted \subseteq Profile
    /\ faults \in 0 .. MaxFaults

(* A task that tasks.json, or the snapshot any goroutine will write back,  *)
(* remembers as successful did succeed: whatever overlaps, crashes or      *)
(* failed writes, no task is skipped for ever without having been done.    *)
NeverMarkedUnexecuted ==
    /\ file.success \subseteq done
    /\ \A a \in Actor : tc[a].success \subseteq done

Applying(p) == \E a \in Actor : pc[a] = "run" /\ Cur(a) = p

(* Every profile keeps being applied: a mark left by a crash, or written   *)
(* back from an old snapshot, blocks it for a day at most ("Clear stalled  *)
(* profile for more than 24 hours").                                       *)
EveryProfileRecurs ==
    \A p \in Profile : []<>(Applying(p))

(* While the goroutines do not overlap, a mark in tasks.json with nobody   *)
(* applying the profile was left by a fault that hit that profile.         *)
MarkOutlivesRunOnlyAfterFault ==
    \A p \in Profile :
        file.running[p] # "none" => Applying(p) \/ p \in faulted

(* While the goroutines do not overlap, tasks.json loses what it remembers *)
(* only by a write cut short, and never in silence: as long as it parses,  *)
(* it remembers every task that it has ever remembered.                    *)
NothingForgotten == ~torn => ever \subseteq file.success

(* While the goroutines do not overlap, the periodic job never runs again  *)
(* a once-only task that tasks.json has ever remembered, and nobody runs   *)
(* again such a NetBird task: no fault makes an installation run twice.    *)
NoRerunOfRemembered ==
    \A a \in Actor :
        /\ Running(a) /\ ~Skips(a) /\ Kind[a] = "job" /\ CurResource(a).skips
           => CurTask(a) \notin ever
        /\ AtNetBird(a) /\ NetBirdTask(a) \in ever
           => NetBirdTask(a) \in tc[a].success

(* Two goroutines never apply one profile at the same time, unless one of  *)
(* them claimed it more than 24 hours ago ("previous profile is marked as  *)
(* running, not relaunching").                                             *)
NoDoubleRun ==
    \A a, b \in Actor :
        (/\ pc[a] = "run" /\ pc[b] = "run" /\ Cur(a) = Cur(b)
         /\ tc[a].running[Cur(a)] = "fresh" /\ tc[b].running[Cur(b)] = "fresh")
            => a = b

(* What a report of success promises ("Report if application was          *)
(* successful or not"): the tasks of the profile were all done, in this    *)
(* run or an earlier one.  The code keeps it for the NetBird tasks, and    *)
(* for the others unless the profile was skipped as already running, its   *)
(* playbook failed without naming a failed task, or its error was          *)
(* overwritten after the NetBird tasks (untold).                           *)
SuccessMeansDone ==
    \A a \in Actor :
        pc[a] = "report" /\ report[a].success /\ ~report[a].error =>
            /\ Kind[a] # "runTask" =>
                  \A i \in DOMAIN NetBird[Cur(a)] : NetBird[Cur(a)][i] \in done
            /\ ~untold[a] =>
                  \A i \in DOMAIN Tasks(Cur(a)) : Tasks(Cur(a))[i] \in done
=============================================================================
