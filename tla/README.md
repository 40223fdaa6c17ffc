# OpenUEM agent: specifications and proofs

TLA+ models of the OpenUEM agent (`src/internal`, Go), the TLC configurations
that check them and the theorems that TLAPS proves about them.  The agent runs
as a service on Windows, Linux and macOS: it reports the inventory of its
machine, applies configuration profiles, installs packages and offers remote
assistance, all on messages of a NATS server or on timers of its own.

## 1. Inventory

One process holds one `Agent` value.  Every NATS subscription has a goroutine
that runs its callback for one message at a time; the JetStream consumer has
one for all its subjects; each run of a `gocron` job is a goroutine, and runs of
one job may overlap.  They share `a.Config`, the job handles, `openuem.ini`,
`tasks.json` and `pending_acks.json`, **none of them under a lock**.

| Component | State | Operations | What is hard | What makes it correct |
|---|---|---|---|---|
| Configuration profiles (`agent_*.go`, `dsc/dsc.go`) | `tasks.json`: tasks that succeeded, profiles that run and since when; a snapshot of it in each goroutine | the profiles job, `agent.runprofile`, the request to run one task; claim, run, release, report | snapshots written back whole, overlapping goroutines, crash under a claim, torn write | only executed tasks are remembered, none is forgotten or run again, no profile is blocked for ever, a reported success is one |
| Deployments (`agent.go` 398-542, `deploy/`) | `pending_acks.json`; the in-memory list of a run of the job | install, update, uninstall; the five-minute job that resends | unanswered requests, a file that cannot be read or saved, overlapping saves, a list that shrinks under its loop | no result is lost but by an error of the file, none is invented, every other one is delivered at last |
| Report scheduling and configuration (`agent.go`, `config.go`, `Start`) | `a.Config`, `openuem.ini`, `a.ReportJob` | start, connect job, report job, enable, disable, report, certificate, `agent.newconfig`, `agent.settings` | load-then-save of a shared file, nil job handles, redelivery, files that cannot be read, restart | the last command sticks, an enabled agent reports, a disabled one does not, the restart flag is not lost |
| RustDesk (`agent/rustdesk`) | `RustDesk.toml`, `RustDesk2.toml`, a backup of each | `agent.rustdesk.start`, `agent.rustdesk.stop` | a second start, start and stop at once, a copy cut half-way, another user, a crash before the roll back | the user's own settings come back |
| Remote desktop (`commands/remote-desktop`) | `a.RemoteDesktop`, server, TLS proxy and PIN of each session | `agent.startvnc`, `agent.stopvnc` | a second start, a stop during a start, a stop that fails, a crash, a port that is taken, copies of a pair that changes | a stop ends what was started; a session that is announced works |
| Agent certificates (`AgentCertificateHandler`) | `server.key` and `server.cer`, `a.ServerCertPath`, `a.ServerKeyPath` | the `certificate` command, read at each start of the remote desktop | two files saved one after the other, redelivery of an older certificate | key and certificate belong together and are the last |
| SFTP server (`commands/sftp`) | a cache of OCSP answers with a time to live | admit a login | logins that overlap a revocation, a responder that fails or does not know | a revoked certificate is accepted for less than an hour, a good one refused for less than an hour |
| NetBird (`commands/netbird`) | none | install, register, up, down, switch, refresh | | its profile tasks are steps of `Profiles` |
| Inventory report, printers, power management, user sessions, service glue, logger | none across calls | one operating system call each | | |

The hazards of this code, with their lines and the properties that watch
them, are listed in `PROJECT.json`.

## 2. Plan

Done, in this order:

1. `Profiles`: the agent's main work and its most delicate file.
2. `PendingAcks`: the other file, with the retry protocol, and the abstract
   specification `Delivery` that it implements.
3. `ReportSchedule`: start, enablement, scheduling and the shared configuration.
4. `RustDesk` and `LentSettings`, what a console may expect of it.
5. `ServerCertificate`, and `RemoteDesktop`, which is composed with it.
6. `SftpLogin`.
7. Proofs about each of them (section 10).

Left, in the order of what it would add:

1. The composition of `Profiles` and `ReportSchedule`: they share only the death of the
   process, which each module has as an action of its own.
2. The NetBird request handlers, if they ever keep state.

`RemoteDesktop` EXTENDS `ServerCertificate` and interleaves its steps, since a
start reads the files that the certificate handler writes.  The other
components share nothing but the process and the restart flag, so each module
is one component and `ReportSchedule` has every writer of the flag.

## 3. `Profiles`

**Correspondence.**  `platform` is what the agent was built for.  `file` is `tasks.json`
(`TaskControl` of `dsc.go`: the set of successful tasks and the running marks,
whose time stamp is abstracted to `fresh` or older than the 24 hours of the
override, `stale`); `torn` says that a write was cut short: `os.WriteFile`
truncates first, so the file has then lost all it held, and does not parse.
`tc[a]` is the snapshot that the goroutine `a` read and passes by pointer to every
function; `todo`, `idx` and `report` are the answer being processed, the index in
the profile and the profile report.  `Begin` is the job or the message with its
answer; `Read` is `ReadTaskControlFile` (once for the whole answer on Linux and
macOS, before each profile on Windows), `FolderFails` and `ReadFails` its errors;
`Claim`, `Skip`, `ApplyErrors`, `ClaimFails` are the head of `ApplyConfiguration`;
`TaskSkipped`, `TaskSucceeds`, `TaskFails`, `TaskErrors` are the tasks of `RunTasks`
or the playbook, and the table `RunTasks` says for each kind of resource whether
it skips a remembered task and whether it remembers one; `PlaybookFailsUntold` is a
playbook that fails with JSON that names no failed task; `Release` is the deferred
removal of the mark; the NetBird tasks and `SendProfileReport` end the profile.
`done`, `ever`, `untold` and `faulted` are history variables: what succeeded, what
the file ever remembered, what the report being built does not tell, and which
profiles met a fault.

A request for profiles that gets no answer ends in a nil message and a panic
(`agent_linux.go:460`).  In the callback of `agent.runprofile` that is the end of the
process.  Whether `gocron` recovers the panic of its job depends on its release,
and its source is not in this repository: both outcomes are steps
(`RequestFails`).

**Runs.**

- `ProfilesWindows`: job and `agent.runprofile` overlapping, one fault.
  `NeverMarkedUnexecuted` and, under fairness, `EveryProfileRecurs`: a mark left
  by a crash is overridden after a day, so every profile keeps being applied.
  Torn writes are off: after one, no profile is applied any more.
- `ProfilesSerial`: every platform, three kinds of goroutine one after the other,
  two faults, torn writes included.  As long as `tasks.json` parses it remembers
  every task it ever did (`NothingForgotten`); what it ever remembered is not run
  again by the job, with a package, a script that runs each time, a package kept
  up to date, playbooks and NetBird tasks (`NoRerunOfRemembered`); a mark without a
  run comes from a fault (`MarkOutlivesRunOnlyAfterFault`).  `SuccessMeansDone`: what is
  reported as a success, without an error, was done.  It names the three ways in
  which the code says so all the same: the profile was skipped as running, its
  playbook failed without naming a failed task (`agent_linux.go:717`), or it has
  NetBird tasks, with which the error of `ApplyConfiguration` is overwritten before the
  report is sent (`agent_linux.go:562`).
- `ProfilesDoubleRun` (violation): two goroutines claim one profile from
  snapshots that both predate the claim, and apply it at the same time.

**Abstractions.**  A task is one external command.  The identity of a resource
(`r.ID`) and the `ID` setting of a PowerShell script are taken to be equal:
`PowershellTask` looks up the second (`agent_windows.go:1548`) and stores the first
(1569).  The `ScriptsRun` list and the `executed` map, which is never written,
are left out; so are a profile that cannot be marshalled (`agent_linux.go:527`, no
report at all) and an `os.Stat` that fails on an existing file, upon which
`ReadTaskControlFile` makes it anew.  The agent starts without a `tasks.json`.

## 4. `PendingAcks`

**Correspondence.**  `file` is the list in `pending_acks.json`, `corrupt` that it
does not parse; `actions[g]` is a goroutine's list, `i` and `j` are the two indices of
`PendingACKTask`, counted from 1.  `Deploy` and `DeployEnds` are the package
manager, whose ends count as a failure or not by `Flatpak`, `Brew` and `Winget`;
`ResultAcked` and `ResultNotAcked` are `SendDeployResult`; `ReadToAppend`, `Create` and
`Write` are `SaveDeploymentNotACK`, with the window between `os.Create` and the
write.  `ResendAcked` removes entry `j` while `i` advances over the shortened list,
as the code does.

Every caller only logs an error of the file, so the goroutine gives up what it
was to save: `AppendFails` (the file cannot be opened or read), `AppendsToNone` (it
does not parse), `CreateFails` and `WriteFails` (with the file empty or partly
written).  `unsaved` are the results that were lost so, `stale` the acknowledged
ones that a failed `os.Create` left in the file.  `ReadFails` is a run of the job
that cannot read it, and changes nothing.

**Runs.**

- `PendingSerial`: two deployments with `winget`, one goroutine at a time, four failed
  requests, two errors of the file.  `NoResultLost`: a result that the code keeps is
  delivered, in the file, or on its way there, unless it is `unsaved`;
  `AckedLeavesFile`: the file keeps no delivered result, unless it is `stale`; under
  fairness, `EventuallyAcked`.  Only what a goroutine held when the file failed it
  is ever excused.  `DeliversEveryResult` is the refinement of `Delivery`: a deployment
  runs once, and its result is delivered at once, waits and is delivered at last,
  is taken by the disk while it waits (`Lose`), or, for the failure of an update or
  an uninstallation, is dropped.
  With at most two entries the loop is right: the entry it deletes and the one
  it skips do not differ yet.  Section 10 proves this for any number of
  deployments, as long as the file never holds a third result, and that with two
  deployments it never does.
- `PendingOverlap`: three deployments, two runs of the job, overlaps, an error of the file
  and a crash.
  `TypeOK` includes that `slices.Delete` stays within the list (it would panic),
  `OnlyRefusedResent` that nothing is sent again without reason.  What overlapping
  saves or a crash drop from the file is no property: the code promises nothing
  about it.
- `PendingDrainLoses` (violation): three entries, all acknowledged: the second is
  dropped without having been sent, and the third is sent twice.

**Left out.**  The inventory report that follows a deployment; the text of the
result; the marshalling of the list, which cannot fail for these values.  Noted while reading: a failed uninstallation is reported with
`Failed = false` (`agent.go:510`), and `UpdatePackage` returns no error for an exit
code of winget (`winget.go:136`), so "no updates found" is never recognised.

## 5. `ReportSchedule`

**Correspondence.**  `config` is `a.Config` (enabled, and whether
`ExecuteTaskEveryXMinutes` is the five minutes of a retry or the default
frequency, taken to be another value); `ini` is the file, with
`RestartRequired`; `cfg[a]` is the `ini.File` a goroutine has loaded, set and not
yet saved; `pc` names the next step of each goroutine; `handle` is `a.ReportJob`
(nil, a scheduled job, a removed job) and `orphan` says that some scheduled job is
not the one it names.  `Load`/`Save` are `WriteConfig`,
`SetRestartRequiredFlag`/`SaveFlag` the flag; `Remove`/`Add` are
`RescheduleReportRunTask`, and `Add` alone is `startReportJob`; `Boot`, `Connect`,
`ConnectFails` and `Reconnect` are `Start` and `startNATSConnectJob`; `Deliver`,
`Read`, `RemoveForDisable`, `SetEnabled`, `SaveEnabled` and `Ack` are the four
JetStream handlers.  `LoadFails`, `ReadFails` and `SetFails` are a file that cannot
be read, with what each caller does about it.  `platform` matters for
`agent.newconfig`: Windows raises the flag first and only if `SFTPDisabled` changes,
Linux and macOS at the end.  `ProfilesRequestFails` and `ProfilesPanic` are what the
profiles job and `agent.runprofile` do with the flag: they raise it and then go on
with a nil message, which ends the process or, in a job that `gocron` recovers, the
job's run; both are steps, as in `Profiles`.  A call on a nil job in a handler is
`ProcessDies`.  `StartGivesUp` is a `Start` that cannot make the directory of the SFTP
cache (`agent_linux.go:70`): it returns, and the agent neither connects nor reports
until it is started again.
`wanted` and `excuse` are history variables.

**Runs.**

- `ScheduleSerial`: all messages on every platform, one goroutine started at a
  time, three faults.  `EnabledPersisted` (no crash, redelivery or other save
  undoes the last command), `EnabledReports`, `DisabledStaysQuiet`,
  `RestartFlagKept`.
- `ScheduleOverlap`: the commands over two runs of the job, up to three
  goroutines, no fault: `EnabledReports` still holds, since whoever removes the job
  of an enabled agent adds one after it, and `UndoneOnlyByStaleSave`: a command is
  only undone by a goroutine that saves what it had loaded before.
- `ScheduleDisableLoops` (violation, liveness): a disabling that comes before the
  report job exists panics, comes again and panics again.

**What the excuses say of the code.**  The properties name their exceptions, each a
value of `excuse`, and a run with that exception removed finds each of them:

- *stale save*: the report job loads the file, a disabling is saved and
  acknowledged, the job saves what it loaded: the agent is enabled again, and the job
  reschedules itself.  `agent.settings` and the restart flag save in the same way and
  add no job: the file then says enabled, the next enabling finds it so and does
  nothing, and the agent reports no more until it restarts.
- *unsaved*: a command whose `WriteConfig` fails is acknowledged with the new value
  in memory, where a later save of anything brings it into force.
- *nil report*: a first report that is nil leaves the agent without any job.
- *late connection*, *new configuration*: the connect job and `agent.newconfig`
  schedule reports of a disabled agent.  The watchdog, the configuration message
  and the next enabling do not remove them.

**Left out.**  A setting with an invalid port is dropped by `agent.settings` before
it saves: no step here.  The other keys of the file are data.  The saving of
the ini file is one write: its truncation window is not modelled.  The report
that `AgentCertificateHandler` runs "to inform that the certificate is ready"
(`agent_linux.go:388`) is built and never sent; that nothing comes of it is modelled
as it is.

## 6. `RustDesk` and `LentSettings`

**Correspondence.**  `file` and `bak` say whose settings `RustDesk.toml` (the permanent
password), `RustDesk2.toml` (the options) and their `.bak` files hold: nobody's, the
user's, the tenant's (`lent`), or a file that is being written (`torn`).  `start` and
`stop` are the next steps of the two handlers, which have goroutines of their
own; `copy` is a `CopyFile` in progress.  The four values of `platform` are the four
ways of the code: Linux and Linux with Flatpak (the files of whoever is logged in
now, `loggedIn`), macOS (options backed up each time), Windows (a command sets the
password).  `StartFails` and `StopFails` are the error returns of every step, `Crash`
includes the panic for a nil `cfg.User`.

**Runs.**  `RustDeskSettings`: every platform, requests that overlap, fail and
crash at every step, without any bound but the state itself.

- `LostOnlyForCause`: the user's settings are only lost by a copy that is cut, by a
  start and a stop at once, by a second start on macOS or after a change of user
  with Flatpak.  A second start elsewhere, a start after a failed one or
  after a crash never costs them.
- `LendsAndGivesBack`: the handlers implement `LentSettings`: a start that answers
  has lent, a stop that answers has given back everything, and in between nothing
  is taken away, but of files that are excused.

**Abstractions.**  The RustDesk process has no state: what it writes into the files
itself is not in this code.  Noted while reading: with nobody logged on,
`KillRustDeskProcess` on Windows (`rustdesk_windows.go:174`) runs the arguments of
`--get-id` and not `taskkill`, and a password command on Linux that does not answer
"Done!" (`rustdesk_linux.go:355`) returns a nil error.

## 7. `ServerCertificate` and `RemoteDesktop`

**Correspondence.**  Certificates are numbered as issued; `keyFile` and `certFile`
hold a number, nothing, or a torn file.  `Deliver`, `SavePrivateKey`,
`SaveCertificate`, `Ack` and `SaveFails` are `AgentCertificateHandler` under JetStream
redelivery.  A session is one service object: `handle` is `a.RemoteDesktop`,
`target` the object a stop works on, `server[s]` and `proxy[s]` the two goroutines of a
session, `pin` the session whose PIN opens the server, `rdpCert` and `rdpKey` the copies of the
pair that GNOME is given.  `StartReceived`, `Configure` (for GNOME
`ConfigureCertificate`, then `ConfigureKey`, `vnc_linux.go:204-248`), `SavePIN`, `Spawn` are `StartRemoteDesktopSubscribe` and `Start`; `StopReceived`,
`CloseProxy`, `RemovePIN`, `StopService`, `Forget` are
`StopRemoteDesktopSubscribe` and `Stop`.  The backends are the VNC servers of Windows,
those elsewhere, and GNOME's RDP without a proxy.

**Runs.**  `RemoteDesktopSessions`: two sessions, two certificates, two faults, every
backend, handlers that overlap.

- `StrayOnlyForCause`: what a stop can no longer reach was left by an overlap, a
  second start, a failed stop or a crash.
- `SessionWorks`: a session with nothing against it has server, PIN and proxy or,
  with GNOME, copies of a key and a certificate that belong together.  The fixed
  port is only taken by a session that was left behind, and a pair that does not
  match only follows a failed save or a second certificate.
- `PairMatches`, `PairIsCurrent`: once every message is acknowledged, key and
  certificate belong together unless a save failed, and are the last ones
  unless a message was handled without being acknowledged.

**Abstractions.**  `StopService` ends every running server, as killing it by name
does; a server does not exit by itself; a proxy that is closed before it
serves never serves.

## 8. `SftpLogin`

**Correspondence.**  `cache` and `age` are Badger's one entry and the ticks since it
was stored; `pc[c]` is the step of each connection (`isCertValidFromCache`,
`isCertValid`).  `CheckFails` is every error of the responder or of reading or
writing the cache,
`AnsweredUnknown` a false answer without an error.  `Restart` removes the cache, as
`Start` does.

**Runs.**  `SftpLogins`: three logins at once, an entry that lives three ticks.
`AcceptedOnlyWhileFresh` and `RefusedOnlyAfterTrouble` are about the moment a login
ends, whatever answers the others stored before it.

**Assumptions.**  From the responder's answer to the end of a login less than a
tick passes (`Tick` waits for it: the HTTP client has no timeout, `sftp.go:172`, and
an answer stored later than that is outside the model), and Badger drops an entry on time.  With a
database that could not be opened (`agent_linux.go:80`) the server would call `View` on
a nil database: not modelled.

## 9. Bounds and fairness

`MaxOverlap` bounds the goroutines active at once, `MaxFaults`, `MaxDiskErrors` and
`MaxCrashes` the faults, `MaxMessages`, `MaxSessions` and `MaxCertificates` what the console sends;
`Deployment`, `Profile`, `Task`, `Actor`, `Enabler`, `JobRun` and `Login` are small sets.
Two profiles with a shared task, two snapshots and one fault are what every
known interaction of `tasks.json` needs; three entries are the shortest list the
drain loop gets wrong; two runs of the report job and two enablings are needed
for two reschedulings to interleave; two sessions for one to be replaced, two
certificates for an older one to come again, two faults for a save that fails
before a crash.  Three logins with a life of three ticks let an old answer
overwrite a newer one and a third login read it; the logins are
interchangeable, and so are the two runs of the job of `PendingOverlap`, hence the
symmetries.  `MaxOverlap = 1` describes an agent whose
messages and timers happen not to meet: those runs say what the code gets
right in sequence, and the overlapping runs and the violations say what is left.

Fairness is weak, and only of what the code or its environment keeps doing: a
goroutine goes on, a request gets an answer or times out, `gocron` fires again, the
days pass, the server delivers again what it was not told is done, the service
manager restarts the agent.  Nothing is assumed of the console or of users.

Deadlock is checked except where the system may stop: when the bounded
messages, sessions or certificates are used up and, in `ReportSchedule`, a
disabled agent has nothing to do.

## 10. Proofs

| Module | Theorem | Says |
|---|---|---|
| `ProfilesProofs` | `TypeCorrect` | type correctness, the index stays in the profile |
| | `NeverMarkedCorrect` | file and snapshots remember only tasks that succeeded, whatever overlaps or fails |
| | `SuccessMeansDoneCorrect` | a reported success was done, but for the three ways of section 3, whatever overlaps or fails |
| `ProfilesSerialProofs` | `SerialMarks`, `SerialNoRerun`, `SerialNothingForgotten` | three properties of the serial run, if `MaxOverlap = 1` |
| `PendingAcksProofs` | `TypeCorrect` | type correctness, and the loop never deletes beyond its list |
| | `OnlyRefusedCorrect` | only refused results of ended deployments are sent again |
| | `NoResultLostCorrect`, `AckedLeavesFileCorrect` | two properties of the serial run, if `Serial` and `[]Short` |
| | `TwoAreShort` | `Serial` runs of two deployments are `Short` |
| | `DeliversSafely` | in `Serial`, `Short` runs `PendingAcks` starts and steps as `Delivery` does |
| `ReportScheduleProofs` | `TypeCorrect` | type correctness |
| | `UndoneByStaleSave` | only a stale save undoes a command, whatever overlaps, fails or dies |
| | `SerialEnabledPersisted`, `SerialRestartFlagKept` | two properties of the serial run, if `MaxOverlap = 1` |
| `ReportJobProofs` | `EnabledReportsUnlessStale` | an enabled agent at rest reports unless a save was stale, whatever overlaps, fails or dies |
| | `CommandsReport` | if `CommandsOnly`, it reports after a stale save too, whatever overlaps |
| | `SerialEnabledReports`, `SerialDisabledStaysQuiet` | two properties of the serial run, if `MaxOverlap = 1` |
| `RustDeskProofs` | `TypeCorrect`, `LostForCause` | type correctness; settings are only lost for a cause |
| | `LendingImplements` | `RustDesk` implements `LentSettings` |
| `RemoteDesktopProofs` | `TypeCorrect`, `StrayForCause`, `SessionsWorkAtRest`, `PairOfFiles`, `PairLast` | every property of its run |
| `SftpLoginProofs` | `TypeCorrect`, `AcceptedFresh`, `RefusedAfterTrouble` | every property of its run |

They hold for every value of the constants that satisfies the assumption of
the module: any number of profiles, tasks, goroutines, deployments, messages,
sessions, certificates, logins and faults, and any life of a cache entry.

The hypotheses that some of them have:

- `MaxOverlap = 1`: one goroutine at a time, with any faults, crashes and
  redeliveries.  With more, `ProfilesDoubleRun` and `UndoneOnlyByStaleSave` say what
  goes wrong.
- `Serial` is `MaxOverlap = 1 /\ MaxCrashes = 0`: two goroutines that save a result
  at once overwrite each other's, and a crash between `os.Create` and the write
  leaves an empty file.
- `[]Short`: `pending_acks.json` never holds more than two results.  It is a
  condition on the behaviour and not on a constant, since how long the file gets
  depends on how many requests fail in a row.  It cannot be dropped
  (`PendingDrainLoses`), and `TwoAreShort` shows that it is met by the runs
  that TLC checks.
- `EnabledReportsUnlessStale` needs its exception: after a stale save by
  `agent.settings`, or of the restart flag, nobody adds the job (section 5).
- `CommandsOnly`: the messages are the consumer's and nothing fails.  This is what
  `ScheduleOverlap` checks; no exception is needed, since there only a start or a run
  of the job saves what is stale, and both then add a job.

The inductive invariants:

- `NeverMarkedUnexecuted` is inductive together with `TypeOK`.  The serial
  properties need `OneAtATime` (one goroutine is active), `SnapshotKeepsSuccess`
  (its snapshot holds every task the file ever held) and `MarksExplained` (a mark is of
  the running profile or of one hit by a fault): `SerialInv`.
- `SuccessMeansDone` needs `HonestReports`: at each step of a profile, the tasks
  before the index were done, or the report, or `untold`, says that they were not.
- `OnlyRefusedResent` needs `ResendInv` (the handler that saves has a refused
  result, what any goroutine holds can be sent again) and `HoldsOne`.
- `NoResultLost` and `AckedLeavesFile` need all that the others rely on while one
  goroutine works, `SerialInv`: the file holds each result once and, when nobody is at work, only
  undelivered or `stale` ones (`FilePending`); a handler's result is in
  no other place (`Reports`); a goroutine that drains has what the file has left,
  and its two indices and the length of its list satisfy `i + Len <= 2 + j`
  (`Updates`), so that the entry it deletes is the one it has sent.  This is where
  two entries suffice and three do not.  `RefinesStep` then maps a report, a refusal,
  a save and the deletion to the steps of `Delivery`, an error of the file to `Lose`,
  and the rest to stutters.
- `UndoneOnlyByStaleSave` needs `Handled` (which steps the consumer takes for which
  command), `Connecting` (nothing runs before the connection) and `Settled`: while
  nothing is excused the file holds what was wanted, and so does the memory,
  but before it is read and while the consumer is about to save.  In sequence,
  `Alone` (one writer; an enabling goes on while it is acknowledged) and `Fresh`
  (what will be saved is the file but for the keys it means to change) rule
  stale saves out: `SerialInv`.
- `EnabledReports` is an invariant about who will add the next job.
  `Reporting`: while the memory is enabled, the job is there, or excused, or some
  goroutine is `OnItsWay` to add it (or to disable the agent), or the agent is not
  connected and never will be (`GivenUp`).  `Disabling`: only the
  handler of a disabling removes the job and adds none.  For `CommandsReport` the
  file counts as well as the memory: `GoesOn`, with the steps that are left to each
  goroutine without faults (`CommandSteps`).
- `DisabledStaysQuiet` needs `JobInv`, unless the agent connected late or got a new
  configuration: no job is orphaned, a named job belongs to an enabled agent
  (`JobEnabled`), and each goroutine finds what it `Relies` on: a start and an
  enabling find no job to replace, a report finds the agent enabled, a save
  carries the enablement that the memory has.
- `RustDesk`: `LendingInv` says where the user's settings are at every step of both
  handlers, unless there is a cause; the refinement maps each step to a step of
  `LentSettings` or a stutter.
- `RemoteDesktop`: `CertInv` for the files (`Handling`, `Repaired`, `InOrder`, and
  `FirstPair`: the first certificate comes with its key) and `SessionInv`
  (`Accounted`, `ToCome`, `Stopping`, `Working`, `PortTaken`, `OneCertificate`): what is
  running is accounted for by the handle, by a handler or by a cause, and with one
  certificate and no failed save no pair fails a session.
- `SftpLogin`: `CacheInv` bounds the age of the answer behind each entry and each
  login by the time since the revocation, or since the trouble.

Only model-checked are the liveness properties, since fairness and `ENABLED` are
beyond the prover: `EveryProfileRecurs`, `EventuallyAcked` and the fairness of
`Delivery`, which `DeliversEveryResult` has beyond `DeliversSafely`.  Every
invariant and every action property that a passing run checks is stated by a
theorem.  Violations are, of course, only for TLC.

## 11. Not modelled

The NetBird request handlers, printers, power management, session lookup and the
inventory itself run one operating system command each and keep no state.  The
service wrappers and the logger are glue.  Of the modelled components, what
is left out is listed in their sections.
