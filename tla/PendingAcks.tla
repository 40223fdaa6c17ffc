---------------------------- MODULE PendingAcks ----------------------------
(***************************************************************************)
(* Results of package deployments and pending_acks.json.                   *)
(*                                                                         *)
(* Three message handlers (install, update, uninstall) run a package       *)
(* manager, report the result to the worker and, when the worker does not  *)
(* acknowledge it, append it to pending_acks.json.  A job reads that file  *)
(* every five minutes, sends every result again and rewrites the file with *)
(* the ones still unacknowledged.  Each handler is a goroutine of its own, *)
(* runs of the job may overlap, and nothing locks the file: saving it      *)
(* truncates it (os.Create) and then writes it.  An error of the file only *)
(* makes a line of the log.                                                *)
(*                                                                         *)
(* A result is abstracted to the deployment it is about.                   *)
(***************************************************************************)
EXTENDS Naturals, Sequences, FiniteSets, SequencesExt

CONSTANTS
    Deployment,  \* the deployments the console asks for
    Operation,   \* [Deployment -> Operations]
    Platform,    \* the platform, for its package manager
    JobRun,      \* the runs of the job that may be in progress
    MaxOverlap,  \* bound: goroutines active at the same time
    MaxFaults,   \* bound: requests that fail
    MaxDiskErrors, \* bound: operations on the file that fail
    MaxCrashes   \* bound: crashes of the agent

Operations == {"install", "update", "uninstall"}

(* One goroutine for each subscription, named for its operation.           *)
Handler == Operations

Goroutine == Handler \cup JobRun

ASSUME ConstantsAssumption ==
    /\ Operation \in [Deployment -> Operations]
    /\ Platform \in {"linux", "windows", "darwin"}
    /\ JobRun \cap Handler = {}
    /\ IsFiniteSet(JobRun)
    /\ MaxOverlap \in Nat /\ MaxFaults \in Nat
    /\ MaxDiskErrors \in Nat /\ MaxCrashes \in Nat

VARIABLES
    file,     \* the results in pending_acks.json; empty right after os.Create
    corrupt,  \* pending_acks.json is not valid JSON
    outcome,  \* what became of each deployment
    refused,  \* history: the results whose own report was not acknowledged
    acked,    \* the results that the worker acknowledged to the agent
    unsaved,  \* history: the results that an error of the file dropped
    stale,    \* history: the acknowledged results that one left in the file
    pc,       \* what each goroutine does next
    actions,  \* its in-memory list of results
    i, j,     \* the loop counters of a run of the job, from 1
    faults,   \* bound: the failed requests so far
    errors,   \* bound: the failed operations on the file so far
    crashes   \* bound: the crashes so far

damage == <<unsaved, stale, errors>>

vars == <<file, corrupt, outcome, refused, acked, pc, actions, i, j, faults,
          crashes, damage>>

Finished == {"succeeded", "failed"}

Outcomes == {"requested", "running"} \cup Finished

Steps == {"idle", "send", "read", "drain", "create", "write"}

Active == {g \in Goroutine : pc[g] # "idle"}

(* Results that the code saves when they are not acknowledged: the failure *)
(* of an update or of an uninstallation is only logged.                    *)
Kept(d) == outcome[d] = "succeeded" \/ Operation[d] = "install"

(* What became of a package manager's command: it did what was asked, it   *)
(* ended with an error, or it could not be run.                            *)
Ends == {"done", "error", "not run"}

(* The remote of flathub is added first; an error of either command fails  *)
(* the deployment.                                                         *)
Flatpak(end) == IF end = "done" THEN "succeeded" ELSE "failed"

(* brew runs for the user who is logged in, and does not without one.      *)
Brew(end) == IF end = "done" THEN "succeeded" ELSE "failed"

(* An exit code of winget is written to the log and returned as a success; *)
(* also the one for "no updates", for which the handler has a branch.      *)
Winget(end) == IF end = "not run" THEN "failed" ELSE "succeeded"

PackageManager(end) ==
    CASE Platform = "linux" -> Flatpak(end)
      [] Platform = "darwin" -> Brew(end)
      [] Platform = "windows" -> Winget(end)

Goto(g, step) == pc' = [pc EXCEPT ![g] = step]

Finish(g) == Goto(g, "idle") /\ actions' = [actions EXCEPT ![g] = <<>>]

(* Results that nothing holds any longer once g gives them up.             *)
Forsaken(g) == ToSet(actions[g]) \ (ToSet(file') \cup acked)

(* An operation on the file fails, with whatever it has done to the file,  *)
(* and g gives up what it was to save.                                     *)
GivesUp(g) ==
    /\ errors < MaxDiskErrors
    /\ errors' = errors + 1
    /\ unsaved' = unsaved \cup Forsaken(g)
    /\ Finish(g)
    /\ UNCHANGED <<outcome, refused, acked, i, j, faults, crashes>>

-----------------------------------------------------------------------------
Init ==
    /\ file = <<>> /\ corrupt = FALSE
    /\ outcome = [d \in Deployment |-> "requested"]
    /\ refused = {} /\ acked = {} /\ unsaved = {} /\ stale = {}
    /\ pc = [g \in Goroutine |-> "idle"]
    /\ actions = [g \in Goroutine |-> <<>>]
    /\ i = [g \in JobRun |-> 1]
    /\ j = [g \in JobRun |-> 1]
    /\ faults = 0 /\ errors = 0 /\ crashes = 0

(* A goroutine may start if the bound on overlaps allows it.               *)
MayStart(g) == pc[g] = "idle" /\ Cardinality(Active) < MaxOverlap

-----------------------------------------------------------------------------
(* The handlers of agent.installpackage, updatepackage, uninstallpackage.  *)

(* The handler runs the package manager.                                   *)
Deploy(h) ==
    /\ MayStart(h)
    /\ \E d \in Deployment :
          /\ outcome[d] = "requested" /\ Operation[d] = h
          /\ outcome' = [outcome EXCEPT ![d] = "running"]
          /\ actions' = [actions EXCEPT ![h] = <<d>>]
    /\ Goto(h, "send")
    /\ UNCHANGED <<file, corrupt, refused, acked, i, j, faults, crashes,
                   damage>>

Result(h) == Head(actions[h])

(* The package manager ends.                                               *)
DeployEnds(h) ==
    /\ pc[h] = "send" /\ outcome[Result(h)] = "running"
    /\ \E end \in Ends :
          outcome' = [outcome EXCEPT ![Result(h)] = PackageManager(end)]
    /\ UNCHANGED <<file, corrupt, refused, acked, pc, actions, i, j, faults,
                   crashes, damage>>

Sending(h) == pc[h] = "send" /\ outcome[Result(h)] \in Finished

(* A variant: the result is saved whatever the worker answered.            *)
ResultAckedIsSaved(h) ==
    /\ Sending(h)
    /\ acked' = acked \cup {Result(h)}
    /\ Goto(h, "read")
    /\ UNCHANGED <<file, corrupt, outcome, refused, actions, i, j, faults,
                   crashes, damage>>

ResultAcked(h) ==
    /\ Sending(h)
    /\ acked' = acked \cup {Result(h)}
    /\ Finish(h)
    /\ UNCHANGED <<file, corrupt, outcome, refused, i, j, faults, crashes,
                   damage>>

(* A variant that only logs a result that was not acknowledged.            *)
ResultNotAckedIsLogged(h) ==
    /\ Sending(h)
    /\ faults < MaxFaults
    /\ faults' = faults + 1
    /\ refused' = refused \cup {Result(h)}
    /\ Finish(h)
    /\ UNCHANGED <<file, corrupt, outcome, acked, i, j, crashes, damage>>

(* No answer, or an answer that carries an error.                          *)
ResultNotAcked(h) ==
    /\ Sending(h)
    /\ faults < MaxFaults
    /\ faults' = faults + 1
    /\ refused' = refused \cup {Result(h)}
    /\ IF Kept(Result(h))
         THEN Goto(h, "read") /\ UNCHANGED actions
         ELSE Finish(h)
    /\ UNCHANGED <<file, corrupt, outcome, acked, i, j, crashes, damage>>

(* SaveDeploymentNotACK reads the list.                                    *)
ReadToAppend(h) ==
    /\ pc[h] = "read" /\ ~corrupt
    /\ actions' = [actions EXCEPT ![h] = file \o <<Result(h)>>]
    /\ Goto(h, "create")
    /\ UNCHANGED <<file, corrupt, outcome, refused, acked, i, j, faults,
                   crashes, damage>>

(* The list does not parse: the result is dropped.                         *)
AppendsToNone(h) ==
    /\ pc[h] = "read" /\ corrupt
    /\ UNCHANGED <<file, corrupt, outcome, refused, acked, i, j, faults,
                   crashes,
                   stale, errors>>
    /\ unsaved' = unsaved \cup Forsaken(h)
    /\ Finish(h)

(* The file cannot be opened or read: the result is dropped as well.       *)
AppendFails(h) ==
    /\ pc[h] = "read"
    /\ UNCHANGED <<file, corrupt, stale>>
    /\ GivesUp(h)

-----------------------------------------------------------------------------
(* PendingACKTask.                                                         *)

(* A run of the job reads the list.                                        *)
ReadDeploymentNotACK(r) ==
    /\ MayStart(r)
    /\ ~corrupt
    /\ actions' = [actions EXCEPT ![r] = file]
    /\ i' = [i EXCEPT ![r] = 1]
    /\ j' = [j EXCEPT ![r] = 1]
    /\ Goto(r, "drain")
    /\ UNCHANGED <<file, corrupt, outcome, refused, acked, faults, crashes,
                   damage>>

(* The file cannot be read, and this run ends; or it does not parse, and   *)
(* so will every later run.                                                *)
ReadFails(r) == MayStart(r) /\ UNCHANGED vars

Draining(r) == pc[r] = "drain" /\ i[r] <= Len(actions[r])

(* A variant that leaves an acknowledged result in the list.               *)
ResendAckedStays(r) ==
    /\ Draining(r)
    /\ acked' = acked \cup {actions[r][i[r]]}
    /\ i' = [i EXCEPT ![r] = @ + 1]
    /\ UNCHANGED <<file, corrupt, outcome, refused, pc, actions, j, faults,
                   crashes, damage>>

(* Acknowledged: slices.Delete removes the entry at j, while i, the index  *)
(* of the entry that was sent, advances over a list that has shrunk.       *)
ResendAcked(r) ==
    /\ Draining(r)
    /\ acked' = acked \cup {actions[r][i[r]]}
    /\ actions' = [actions EXCEPT ![r] = RemoveAt(@, j[r])]
    /\ i' = [i EXCEPT ![r] = @ + 1]
    /\ UNCHANGED <<file, corrupt, outcome, refused, pc, j, faults, crashes,
                   damage>>

(* A variant that leaves a refused result where j deletes next.            *)
ResendNotAckedKeepsIndex(r) ==
    /\ Draining(r)
    /\ faults < MaxFaults
    /\ faults' = faults + 1
    /\ i' = [i EXCEPT ![r] = @ + 1]
    /\ UNCHANGED <<file, corrupt, outcome, refused, acked, pc, actions, j,
                   crashes, damage>>

(* A variant that advances only the entry to delete.                       *)
ResendNotAckedSkips(r) ==
    /\ Draining(r)
    /\ faults < MaxFaults
    /\ faults' = faults + 1
    /\ j' = [j EXCEPT ![r] = @ + 1]
    /\ UNCHANGED <<file, corrupt, outcome, refused, acked, pc, actions, i,
                   crashes, damage>>

ResendNotAcked(r) ==
    /\ Draining(r)
    /\ faults < MaxFaults
    /\ faults' = faults + 1
    /\ j' = [j EXCEPT ![r] = @ + 1]
    /\ i' = [i EXCEPT ![r] = @ + 1]
    /\ UNCHANGED <<file, corrupt, outcome, refused, acked, pc, actions,
                   crashes, damage>>

(* The run always saves what is left, even if nothing was acknowledged.    *)
DrainEnds(r) ==
    /\ pc[r] = "drain" /\ i[r] > Len(actions[r])
    /\ Goto(r, "create")
    /\ UNCHANGED <<file, corrupt, outcome, refused, acked, actions, i, j,
                   faults, crashes, damage>>

-----------------------------------------------------------------------------
(* SaveDeploymentsNotACK.                                                  *)

(* os.Create truncates the file.                                           *)
Create(g) ==
    /\ pc[g] = "create"
    /\ file' = <<>> /\ corrupt' = FALSE
    /\ Goto(g, "write")
    /\ UNCHANGED <<outcome, refused, acked, actions, i, j, faults, crashes,
                   damage>>

(* os.Create fails, and the file stays as it was: with what was delivered  *)
(* since it was read.                                                      *)
CreateFails(g) ==
    /\ pc[g] = "create"
    /\ stale' = stale \cup (ToSet(file) \cap acked)
    /\ UNCHANGED <<file, corrupt>>
    /\ GivesUp(g)

(* Another goroutine wrote the file after this one truncated it.           *)
Overwrites(g) == corrupt \/ file \notin {<<>>, actions[g]}

(* The list is written from the start of the file.  Over a longer text,    *)
(* the tail of that text stays and the file no longer parses.              *)
Write(g) ==
    /\ pc[g] = "write"
    /\ \/ /\ Overwrites(g) => actions[g] # <<>>
          /\ file' = actions[g] /\ corrupt' = FALSE
       \/ /\ Overwrites(g)
          /\ file' = <<>> /\ corrupt' = TRUE
    /\ Finish(g)
    /\ UNCHANGED <<outcome, refused, acked, i, j, faults, crashes, damage>>

(* Nothing, or a part of the text, is written: the file is left empty, or  *)
(* as another goroutine has it, or does not parse.                         *)
WriteFails(g) ==
    /\ pc[g] = "write"
    /\ \/ UNCHANGED <<file, corrupt>>
       \/ file' = <<>> /\ corrupt' = TRUE
    /\ UNCHANGED stale
    /\ GivesUp(g)

(* The agent stops at any point and is started again.                      *)
Crash ==
    /\ crashes < MaxCrashes
    /\ crashes' = crashes + 1
    /\ pc' = [g \in Goroutine |-> "idle"]
    /\ actions' = [g \in Goroutine |-> <<>>]
    /\ UNCHANGED <<file, corrupt, outcome, refused, acked, i, j, faults,
                   damage>>
-----------------------------------------------------------------------------
Save(g) == Create(g) \/ CreateFails(g) \/ Write(g) \/ WriteFails(g)

Handle(h) ==
    \/ DeployEnds(h) \/ ResultAcked(h) \/ ResultNotAcked(h)
    \/ ReadToAppend(h) \/ AppendsToNone(h) \/ AppendFails(h) \/ Save(h)

Drain(r) ==
    \/ ReadDeploymentNotACK(r) \/ ReadFails(r)
    \/ ResendAcked(r) \/ ResendNotAcked(r) \/ DrainEnds(r)
    \/ Save(r)

Next ==
    \/ \E h \in Handler : Deploy(h) \/ Handle(h)
    \/ \E r \in JobRun : Drain(r)
    \/ Crash

Spec == Init /\ [][Next]_vars

(* A started handler ends, and gocron keeps starting the job: the package  *)
(* manager ends, a request gets an answer or times out, and a file that    *)
(* parses can be read at last.  The console need not ask for anything.     *)
Fairness ==
    /\ \A h \in Handler : WF_vars(Handle(h))
    /\ \A r \in JobRun : WF_vars(Drain(r))

FairSpec == Spec /\ Fairness

-----------------------------------------------------------------------------
(* Every variable stays in its type; the loop never deletes beyond the end *)
(* of the list, where slices.Delete panics.                                *)
TypeOK ==
    /\ file \in Seq(Deployment) /\ corrupt \in BOOLEAN
    /\ corrupt => file = <<>>
    /\ outcome \in [Deployment -> Outcomes]
    /\ refused \subseteq Deployment /\ acked \subseteq Deployment
    /\ unsaved \subseteq Deployment /\ stale \subseteq Deployment
    /\ pc \in [Goroutine -> Steps]
    /\ actions \in [Goroutine -> Seq(Deployment)]
    /\ \A h \in Handler : pc[h] # "idle" => actions[h] # <<>>
    /\ i \in [JobRun -> Nat \ {0}] /\ j \in [JobRun -> Nat \ {0}]
    /\ \A r \in JobRun : pc[r] = "drain" => j[r] <= i[r]
    /\ faults \in 0 .. MaxFaults /\ errors \in 0 .. MaxDiskErrors
    /\ crashes \in 0 .. MaxCrashes

(* Whatever overlaps or crashes, what is sent again is the result of a     *)
(* deployment that ended, that the code keeps, and whose own report was    *)
(* not acknowledged: nothing is invented, reported early or sent again     *)
(* after its first acknowledgement.                                        *)
Resendable(d) == outcome[d] \in Finished /\ Kept(d) /\ d \in refused

OnlyRefusedResent ==
    /\ \A d \in ToSet(file) : Resendable(d)
    /\ \A r \in JobRun : \A d \in ToSet(actions[r]) : Resendable(d)

(* The file or a goroutine holds the result.                               *)
Held(d) ==
    \/ d \in ToSet(file)
    \/ \E g \in Goroutine : d \in ToSet(actions[g])

(* No result is lost but by an error of the file: it is acknowledged, or   *)
(* in the file, or held by the goroutine that will save it ("Send deploy   *)
(* result if succesful").                                                  *)
NoResultLost ==
    \A d \in Deployment :
        outcome[d] \in Finished /\ Kept(d) =>
            d \in acked \cup unsaved \/ Held(d)

(* Between two uses of the file it holds no acknowledged result, so that   *)
(* nothing is reported twice, but for those that os.Create left in it.     *)
AckedLeavesFile == Active = {} => ToSet(file) \cap acked \subseteq stale

(* Once requests get answers again, every result is acknowledged, unless   *)
(* an error of the file dropped it.                                        *)
EventuallyAcked ==
    \A d \in Deployment :
        (outcome[d] \in Finished /\ Kept(d)) ~> (d \in acked \cup unsaved)

(* The status of each deployment, for the abstract specification: a result *)
(* that was refused waits while something holds it.                        *)
status == [d \in Deployment |->
    IF d \in acked THEN "delivered"
    ELSE IF d \notin refused THEN outcome[d]
    ELSE IF Held(d) THEN "waiting" ELSE "dropped"]

Insistent == {d \in Deployment : Operation[d] = "install"}

Promise == INSTANCE Delivery

(* While goroutines do not overlap and no list is long enough for the loop *)
(* to go wrong, the handlers, the file and the job deliver every result as *)
(* a console would have it, at last, and lose none on the way but by an    *)
(* error of the file.                                                      *)
DeliversEveryResult == Promise!Spec
=============================================================================
