---------------------------- MODULE ReportSchedule ----------------------------
(***************************************************************************)
(* When the agent reports: its start, the scheduled report job, the        *)
(* messages that enable and disable it or change its settings, and the two *)
(* fields of openuem.ini they share: Enabled and RestartRequired.          *)
(*                                                                         *)
(* Every handler, job and spawned goroutine runs concurrently and shares   *)
(* a.Config and a.ReportJob without a lock.  Saving the configuration      *)
(* loads the ini file, sets its keys and saves it whole: two steps here.   *)
(* gocron is external: it keeps a job until RemoveJob is given its id, and *)
(* a run in progress is not stopped by that.                               *)
(***************************************************************************)
EXTENDS Naturals, FiniteSets

CONSTANTS
    Platforms,   \* the platforms of the instance
    Message,     \* the kinds of message the console sends
    Enabler,     \* the goroutines that EnableAgentHandler may have started
    JobRun,      \* the runs of the report job that may be in progress
    MaxOverlap,  \* bound: goroutines active at the same time
    MaxMessages, \* bound: messages sent
    MaxFaults    \* bound: crashes, failed requests, reports, loads, late acks

(* The messages of the JetStream consumer, which are redelivered until     *)
(* they are acknowledged, and those of plain subscriptions.                *)
Command == {"enable", "disable", "report", "certificate"}

(* "main" starts the agent and connects; "js" is the consumer's callback,  *)
(* called for one message at a time; each subscription has a goroutine.    *)
(* "profiles" stands for the profiles job and agent.runprofile.            *)
Actor ==
    {"main", "js", "newconfig", "settings", "profiles"} \cup Enabler \cup JobRun

\* "unix": Linux and macOS.
AllPlatforms == {"unix", "windows"}

ASSUME ConstantsAssumption ==
    /\ Platforms \subseteq AllPlatforms
    /\ Message \subseteq Command \cup {"newconfig", "settings", "runprofile"}
    /\ Enabler \cap JobRun = {}
    /\ {"main", "js", "newconfig", "settings", "profiles"}
          \cap (Enabler \cup JobRun) = {}
    /\ IsFiniteSet(Enabler) /\ IsFiniteSet(JobRun)
    /\ MaxOverlap \in Nat /\ MaxMessages \in Nat /\ MaxFaults \in Nat

VARIABLES
    platform,  \* never changes
    config,    \* a.Config: whether enabled, and the frequency of reports
    ini,       \* openuem.ini: the same, and RestartRequired
    cfg,       \* what each goroutine loaded from the file and will save
    pc,        \* what each goroutine does next
    handle,    \* a.ReportJob: nil, a scheduled job, or a removed one
    orphan,    \* a report job is scheduled that a.ReportJob does not name
    profiles,  \* the profiles job exists (a.WingetConfigureJob is not nil)
    connected, \* the agent has subscribed to its subjects
    command,   \* the message the consumer is handling
    unacked,   \* the messages that the server will deliver again
    wanted,    \* history: what the last command that was saved or done asked for
    excuse,    \* history: what explains a job, or none, against Enabled
    messages,  \* bound: the messages sent so far
    faults     \* bound: the faults so far

vars == <<platform, config, ini, cfg, pc, handle, orphan, profiles, connected, command,
          unacked, wanted, excuse, messages, faults>>

(* ExecuteTaskEveryXMinutes: five minutes after a failure or at the start, *)
(* and otherwise DefaultFrequency, taken to be another value.              *)
Frequency == {"retry", "default"}

Config == [enabled : BOOLEAN, freq : Frequency]

Ini == [enabled : BOOLEAN, freq : Frequency, restart : BOOLEAN]

Steps == {"boot", "connect", "reconnect", "idle", "read", "set", "report",
          "raise", "send", "remote", "remoteSave", "load", "save", "remove",
          "add", "ansible", "reschedule", "flag", "panic", "ack", "giveUp"}

(* "nil report": a report that should have started the job was nil; "late   *)
(* connection", "new configuration", "in progress": the job was scheduled  *)
(* while the agent was disabled; "stale save": a save of what was loaded   *)
(* before Enabled changed; "unsaved": a command changed a.Config.Enabled   *)
(* and could not save it.                                                  *)
Excuses == {"nil report", "late connection", "new configuration",
            "in progress", "stale save", "unsaved"}

Unread == [enabled |-> FALSE, freq |-> "retry"]

Blank == [enabled |-> FALSE, freq |-> "retry", restart |-> FALSE]

Active == {a \in Actor : pc[a] \notin {"idle", "reconnect"}}

MayStart(a) == connected /\ pc[a] = "idle" /\ Cardinality(Active) < MaxOverlap

Goto(a, step) == pc' = [pc EXCEPT ![a] = step]

Fault == faults < MaxFaults /\ faults' = faults + 1

-----------------------------------------------------------------------------
Init ==
    /\ platform \in Platforms
    /\ config = Unread
    /\ ini \in [enabled : BOOLEAN, freq : {"retry"}, restart : {FALSE}]
    /\ cfg = [a \in Actor |-> Blank]
    /\ pc = [a \in Actor |-> IF a = "main" THEN "boot" ELSE "idle"]
    /\ handle = "nil" /\ orphan = FALSE /\ profiles = FALSE
    /\ connected = FALSE
    /\ command = "none" /\ unacked = {}
    /\ wanted = ini.enabled
    /\ excuse = {}
    /\ messages = 0 /\ faults = 0

(* The process ends, by a crash or a panic, and the service manager starts *)
(* it again.  A message that was not acknowledged comes back.              *)
ProcessDies ==
    /\ config' = Unread
    /\ cfg' = [a \in Actor |-> Blank]
    /\ pc' = [a \in Actor |-> IF a = "main" THEN "boot" ELSE "idle"]
    /\ handle' = "nil" /\ orphan' = FALSE /\ profiles' = FALSE
    /\ connected' = FALSE
    /\ command' = "none"
    /\ unacked' = unacked \cup ({command} \cap Command)
    /\ excuse' = excuse \cap {"stale save", "unsaved"}
    /\ UNCHANGED <<platform, ini, wanted, messages>>

Crash == Fault /\ ProcessDies

-----------------------------------------------------------------------------
(* The configuration.                                                      *)

(* ReadConfig: from the file to memory.                                    *)
ReadConfig == config' = [enabled |-> ini.enabled, freq |-> ini.freq]

(* A variant that builds the file anew and forgets what it does not know.  *)
LoadedAnew(c) == [enabled |-> c.enabled, freq |-> c.freq, restart |-> FALSE]

(* WriteConfig, first half: the file is loaded and its keys are set.       *)
Loaded(c) == [ini EXCEPT !.enabled = c.enabled, !.freq = c.freq]

Load(a) ==
    /\ pc[a] = "load"
    /\ cfg' = [cfg EXCEPT ![a] = Loaded(config)]
    /\ Goto(a, "save")
    /\ UNCHANGED <<platform, config, ini, handle, orphan, profiles, connected,
                   command, unacked, wanted, excuse, messages, faults>>

SaveTo(a) == ini' = cfg[a] /\ cfg' = [cfg EXCEPT ![a] = Blank]

AfterSave(a) ==
    CASE a = "main" -> "add"
      [] a \in JobRun -> "remove"
      [] a = "newconfig" /\ platform = "windows" -> "idle"
      [] OTHER -> "flag"

(* openuem.ini cannot be read: agent.settings and the flag give up, where  *)
(* the others end the process.                                             *)
LoadFails(a) ==
    /\ pc[a] = "flag" \/ (pc[a] = "load" /\ a = "settings")
    /\ Fault
    /\ Goto(a, "idle")
    /\ UNCHANGED <<platform, config, ini, cfg, handle, orphan, profiles,
                   connected, command, unacked, wanted, excuse, messages>>

(* What is saved may be older than the last enabling or disabling.         *)
MayBeStale(a) ==
    excuse' = IF cfg[a].enabled # ini.enabled
                THEN excuse \cup {"stale save"} ELSE excuse

(* WriteConfig, second half, and what each caller does next.               *)
Save(a) ==
    /\ pc[a] = "save" /\ a # "js"
    /\ SaveTo(a) /\ MayBeStale(a)
    /\ Goto(a, AfterSave(a))
    /\ UNCHANGED <<platform, config, handle, orphan, profiles, connected,
                   command, unacked, wanted, messages, faults>>

(* SetRestartRequiredFlag, and the same in RunReport: load, then save.     *)
LoadFlag(a) == cfg' = [cfg EXCEPT ![a] = [ini EXCEPT !.restart = TRUE]]

SetRestartRequiredFlag(a) ==
    /\ pc[a] = "flag"
    /\ LoadFlag(a)
    /\ Goto(a, "raise")
    /\ UNCHANGED <<platform, config, ini, handle, orphan, profiles, connected,
                   command, unacked, wanted, excuse, messages, faults>>

(* The report after a new certificate: the message is acknowledged by      *)
(* then, and the report is built but not sent.                             *)
CertificateReport(a) == a = "js" /\ command = "none"

(* A nil report: the job that a start or an enabling would have created is *)
(* not created.                                                            *)
AfterReport(a) ==
    Goto(a, IF a = "js" /\ ~CertificateReport(a) THEN "ack" ELSE "idle")

(* The flag was raised: Windows raises it before it applies a new          *)
(* configuration, and a request for profiles goes on with a nil message.   *)
AfterFlag(a) ==
    IF a = "newconfig" /\ platform = "windows" THEN Goto(a, "reschedule")
    ELSE IF a = "profiles" THEN Goto(a, "panic") ELSE AfterReport(a)

NilReport(a) ==
    excuse \cup {e \in {"nil report"} : a = "main" \/ a \in Enabler}

SaveFlag(a) ==
    /\ pc[a] = "raise"
    /\ SaveTo(a) /\ MayBeStale(a)
    /\ AfterFlag(a)
    /\ UNCHANGED <<platform, config, handle, orphan, profiles, connected,
                   command, unacked, wanted, messages, faults>>

-----------------------------------------------------------------------------
(* The report job.                                                         *)

(* A variant that does not store the new job in a.ReportJob.               *)
StartUnnamedJob == orphan' = TRUE /\ UNCHANGED handle

(* startReportJob: a job already named by a.ReportJob is not removed.      *)
StartReportJob ==
    /\ orphan' = (orphan \/ handle = "scheduled")
    /\ handle' = "scheduled"

AddedBy(a) == IF a = "newconfig" THEN "new configuration" ELSE "in progress"

(* TaskScheduler.RemoveJob(a.ReportJob.ID()), which panics on a nil job.   *)
RemoveReportJob(a, next) ==
    IF handle = "nil"
      THEN ProcessDies
      ELSE /\ handle' = "removed"
           /\ Goto(a, next)
           /\ UNCHANGED <<platform, config, ini, cfg, orphan, profiles,
                          connected, command, unacked, wanted, excuse,
                          messages>>

(* startReportJob at the end of a start, of a run, of an enabling, or in   *)
(* the middle of a change of configuration.  A start goes on with the      *)
(* profiles job.                                                           *)
Add(a) ==
    /\ pc[a] = "add"
    /\ StartReportJob
    /\ excuse' = (excuse \ {"nil report"})
                    \cup (IF config.enabled THEN {} ELSE {AddedBy(a)})
    /\ profiles' = (profiles \/ a = "main")
    /\ Goto(a, IF a = "newconfig" THEN "ansible" ELSE "idle")
    /\ UNCHANGED <<platform, config, ini, cfg, connected, command, unacked,
                   wanted, messages, faults>>

(* A variant that reschedules without removing the job there is.           *)
RemoveNothing(a) ==
    /\ pc[a] = "remove" /\ a # "js"
    /\ Goto(a, "add")
    /\ UNCHANGED <<platform, config, ini, cfg, handle, orphan, profiles,
                   connected, command, unacked, wanted, excuse, messages,
                   faults>>

(* RescheduleReportRunTask, first half.                                    *)
Remove(a) ==
    /\ pc[a] = "remove" /\ a # "js"
    /\ RemoveReportJob(a, "add")
    /\ UNCHANGED faults

(* gocron starts a run of a scheduled job: ReportTask.                     *)
ReportTask(r) ==
    /\ MayStart(r)
    /\ handle = "scheduled" \/ orphan
    /\ Goto(r, "report")
    /\ UNCHANGED <<platform, config, ini, cfg, handle, orphan, profiles,
                   connected, command, unacked, wanted, excuse, messages,
                   faults>>

-----------------------------------------------------------------------------
(* RunReport and SendReport.                                               *)

ReportBuilt(a) ==
    /\ pc[a] = "report"
    /\ Goto(a, IF CertificateReport(a) THEN "idle" ELSE "send")
    /\ UNCHANGED <<platform, config, ini, cfg, handle, orphan, profiles,
                   connected, command, unacked, wanted, excuse, messages,
                   faults>>

ReportError(a) ==
    /\ pc[a] = "report"
    /\ Fault
    /\ AfterReport(a) /\ excuse' = NilReport(a)
    /\ UNCHANGED <<platform, config, ini, cfg, handle, orphan, profiles,
                   connected, command, unacked, wanted, messages>>

(* No IP address: the restart flag is raised for the watchdog.             *)
NoAddress(a) ==
    /\ pc[a] = "report"
    /\ Fault
    /\ LoadFlag(a)
    /\ Goto(a, "raise") /\ excuse' = NilReport(a)
    /\ UNCHANGED <<platform, config, ini, handle, orphan, profiles, connected,
                   command, unacked, wanted, messages>>

(* A variant that takes the frequency of an answer that is not Ok.         *)
SetFrequencyUnset(f) ==
    config' = [config EXCEPT !.freq = IF f = "retry" THEN f ELSE "unset"]

SetFrequency(f) == config' = [config EXCEPT !.freq = f]

(* The start and the job then ask for the remote configuration; the answer *)
(* to agent.report is just acknowledged.                                   *)
Sent(a) ==
    /\ pc[a] = "send"
    /\ CASE a = "js" -> Goto(a, "ack") /\ UNCHANGED config
         [] a \in Enabler -> Goto(a, "add") /\ SetFrequency("default")
         [] OTHER -> Goto(a, "remote") /\ UNCHANGED config
    /\ UNCHANGED <<platform, ini, cfg, handle, orphan, profiles, connected,
                   command, unacked, wanted, excuse, messages, faults>>

(* A variant in which an enabling gives up when its report is not sent.    *)
NotSentGivesUp(a) ==
    /\ pc[a] = "send"
    /\ Fault
    /\ SetFrequency("retry")
    /\ Goto(a, CASE a = "js" -> "ack" [] a \in Enabler -> "idle" [] OTHER -> "load")
    /\ UNCHANGED <<platform, ini, cfg, handle, orphan, profiles, connected,
                   command, unacked, wanted, excuse, messages>>

NotSent(a) ==
    /\ pc[a] = "send"
    /\ Fault
    /\ CASE a = "js" -> Goto(a, "ack") /\ UNCHANGED config
         [] a \in Enabler -> Goto(a, "add") /\ SetFrequency("retry")
         [] OTHER -> Goto(a, "load") /\ SetFrequency("retry")
    /\ UNCHANGED <<platform, ini, cfg, handle, orphan, profiles, connected,
                   command, unacked, wanted, excuse, messages>>

(* GetRemoteConfig: an answer is saved at once.                            *)
GetRemoteConfig(a) ==
    /\ pc[a] = "remote"
    /\ cfg' = [cfg EXCEPT ![a] = Loaded(config)]
    /\ Goto(a, "remoteSave")
    /\ UNCHANGED <<platform, config, ini, handle, orphan, profiles, connected,
                   command, unacked, wanted, excuse, messages, faults>>

NoRemoteConfig(a) ==
    /\ pc[a] = "remote"
    /\ SetFrequency("default")
    /\ Goto(a, "load")
    /\ UNCHANGED <<platform, ini, cfg, handle, orphan, profiles, connected,
                   command, unacked, wanted, excuse, messages, faults>>

SaveRemoteConfig(a) ==
    /\ pc[a] = "remoteSave"
    /\ SaveTo(a) /\ MayBeStale(a)
    /\ SetFrequency("default")
    /\ Goto(a, "load")
    /\ UNCHANGED <<platform, handle, orphan, profiles, connected, command,
                   unacked, wanted, messages, faults>>

-----------------------------------------------------------------------------
(* Start.                                                                  *)

(* New reads the configuration; Start resets the frequency and the flag,   *)
(* before anything else runs.                                              *)
Boot ==
    /\ pc["main"] = "boot"
    /\ config' = [enabled |-> ini.enabled, freq |-> "retry"]
    /\ ini' = [ini EXCEPT !.freq = "retry", !.restart = FALSE]
    /\ Goto("main", "connect")
    /\ UNCHANGED <<platform, cfg, handle, orphan, profiles, connected, command,
                   unacked, wanted, excuse, messages, faults>>

(* The directory of the SFTP server's cache cannot be made anew: Start     *)
(* returns, and the agent does nothing until it is started again.          *)
StartGivesUp ==
    /\ pc["main"] = "connect"
    /\ Fault
    /\ Goto("main", "idle")
    /\ UNCHANGED <<platform, config, ini, cfg, handle, orphan, profiles,
                   connected, command, unacked, wanted, excuse, messages>>

(* Connected: subscribe; an enabled agent reports, a disabled one goes on  *)
(* with the other jobs.                                                    *)
Connect ==
    /\ pc["main"] = "connect"
    /\ connected' = TRUE
    /\ Goto("main", IF config.enabled THEN "report" ELSE "idle")
    /\ profiles' = ~config.enabled
    /\ UNCHANGED <<platform, config, ini, cfg, handle, orphan, command,
                   unacked, wanted, excuse, messages, faults>>

ConnectFails ==
    /\ pc["main"] = "connect"
    /\ Fault
    /\ Goto("main", "reconnect")
    /\ UNCHANGED <<platform, config, ini, cfg, handle, orphan, profiles,
                   connected, command, unacked, wanted, excuse, messages>>

(* The NATS connect job starts the report job whether enabled or not.      *)
Reconnect ==
    /\ pc["main"] = "reconnect"
    /\ connected' = TRUE
    /\ Goto("main", "add")
    /\ excuse' = excuse \cup (IF config.enabled THEN {} ELSE {"late connection"})
    /\ UNCHANGED <<platform, config, ini, cfg, handle, orphan, profiles,
                   command, unacked, wanted, messages, faults>>

-----------------------------------------------------------------------------
(* The JetStream consumer.                                                 *)

Send(m) == m \in Message /\ messages < MaxMessages /\ messages' = messages + 1

(* A new message, or one that was not acknowledged.                        *)
Deliver(m) ==
    /\ MayStart("js")
    /\ \/ Send(m) /\ UNCHANGED unacked
       \/ /\ m \in unacked /\ unacked' = unacked \ {m}
          /\ UNCHANGED messages
    /\ command' = m
    /\ Goto("js", "read")
    /\ UNCHANGED <<platform, config, ini, cfg, handle, orphan, profiles,
                   connected, wanted, excuse, faults>>

(* Each handler reads the configuration first, and decides by it, but for  *)
(* AgentCertificateHandler (its files are those of ServerCertificate).     *)
Read ==
    /\ pc["js"] = "read"
    /\ IF command = "certificate" THEN UNCHANGED config ELSE ReadConfig
    /\ Goto("js", CASE command = "report" -> "report"
                    [] command = "enable" /\ ~ini.enabled -> "set"
                    [] command = "disable" /\ ini.enabled -> "remove"
                    [] OTHER -> "ack")
    /\ UNCHANGED <<platform, ini, cfg, handle, orphan, profiles, connected,
                   command, unacked, wanted, excuse, messages, faults>>

(* The handler gives up, and acknowledges the message all the same;        *)
(* RunReportHandler does not look whether it could read.                   *)
ReadFails ==
    /\ pc["js"] = "read"
    /\ Fault
    /\ Goto("js", IF command = "report" THEN "report" ELSE "giveUp")
    /\ UNCHANGED <<platform, config, ini, cfg, handle, orphan, profiles,
                   connected, command, unacked, wanted, excuse, messages>>

(* DisableAgentHandler removes the job first.                              *)
RemoveForDisable ==
    /\ pc["js"] = "remove"
    /\ RemoveReportJob("js", "set")
    /\ UNCHANGED faults

(* A variant that writes the property before it sets it.                   *)
SetEnabledLate ==
    /\ pc["js"] = "set"
    /\ config' = [config EXCEPT !.enabled = (command = "enable")]
    /\ cfg' = [cfg EXCEPT !["js"] = Loaded(config)]
    /\ Goto("js", "save")
    /\ UNCHANGED <<platform, ini, handle, orphan, profiles, connected, command,
                   unacked, wanted, excuse, messages, faults>>

(* Then, as EnableAgentHandler, it sets the property and writes it.        *)
SetEnabled ==
    /\ pc["js"] = "set"
    /\ LET set == [config EXCEPT !.enabled = (command = "enable")] IN
          /\ config' = set
          /\ cfg' = [cfg EXCEPT !["js"] = Loaded(set)]
    /\ Goto("js", "save")
    /\ UNCHANGED <<platform, ini, handle, orphan, profiles, connected, command,
                   unacked, wanted, excuse, messages, faults>>

(* WriteConfig cannot read the file: the property stays set in memory.     *)
SetFails ==
    /\ pc["js"] = "set"
    /\ Fault
    /\ config' = [config EXCEPT !.enabled = (command = "enable")]
    /\ excuse' = excuse \cup {"unsaved"}
    /\ Goto("js", "giveUp")
    /\ UNCHANGED <<platform, ini, cfg, handle, orphan, profiles, connected,
                   command, unacked, wanted, messages>>

SaveEnabled ==
    /\ pc["js"] = "save"
    /\ SaveTo("js") /\ excuse' = excuse \ {"stale save", "unsaved"}
    /\ wanted' = (command = "enable")
    /\ IF command = "enable"
         THEN \E e \in Enabler :
                 /\ pc[e] = "idle"
                 /\ pc' = [pc EXCEPT !["js"] = "ack", ![e] = "report"]
         ELSE Goto("js", "ack")
    /\ UNCHANGED <<platform, config, handle, orphan, profiles, connected,
                   command, unacked, messages, faults>>

(* The acknowledgement may come too late: the message is delivered again.  *)
(* AgentCertificateHandler then builds a report.                           *)
Ack ==
    /\ pc["js"] \in {"ack", "giveUp"}
    /\ wanted' = IF pc["js"] = "ack" /\ command \in {"enable", "disable"}
                   THEN command = "enable" ELSE wanted
    /\ \/ UNCHANGED <<platform, unacked, faults>>
       \/ Fault /\ unacked' = unacked \cup {command}
    /\ command' = "none"
    /\ Goto("js", IF pc["js"] = "ack" /\ command = "certificate"
                    THEN "report" ELSE "idle")
    /\ UNCHANGED <<platform, config, ini, cfg, handle, orphan, profiles,
                   connected, excuse, messages>>

-----------------------------------------------------------------------------
(* agent.newconfig and agent.settings.                                     *)

(* Windows raises the flag first, if SFTPDisabled changes.                 *)
NewConfig ==
    /\ MayStart("newconfig")
    /\ Send("newconfig")
    /\ \/ Goto("newconfig", "reschedule")
       \/ platform = "windows" /\ Goto("newconfig", "flag")
    /\ UNCHANGED <<platform, config, ini, cfg, handle, orphan, profiles,
                   connected, command, unacked, wanted, excuse, faults>>

Reschedule ==
    /\ pc["newconfig"] = "reschedule"
    /\ IF config.freq # "retry"
         THEN SetFrequency("default") /\ Goto("newconfig", "remove")
         ELSE UNCHANGED config /\ Goto("newconfig", "ansible")
    /\ UNCHANGED <<platform, ini, cfg, handle, orphan, profiles, connected,
                   command, unacked, wanted, excuse, messages, faults>>

(* A new frequency reschedules the profiles job: a nil job panics.         *)
RescheduleAnsible ==
    /\ pc["newconfig"] = "ansible"
    /\ \/ /\ Goto("newconfig", "load")
          /\ UNCHANGED <<platform, config, ini, cfg, handle, orphan, profiles,
                         connected, command, unacked, wanted, excuse,
                         messages>>
       \/ ~profiles /\ ProcessDies
    /\ UNCHANGED faults

AgentSettings ==
    /\ MayStart("settings")
    /\ Send("settings")
    /\ Goto("settings", "load")
    /\ UNCHANGED <<platform, config, ini, cfg, handle, orphan, profiles,
                   connected, command, unacked, wanted, excuse, faults>>

(* The profiles job, or agent.runprofile, gets no answer to its request:   *)
(* it raises the flag, and panics on the nil message.                      *)
ProfilesRequestFails ==
    /\ MayStart("profiles")
    /\ \/ profiles /\ UNCHANGED messages
       \/ Send("runprofile")
    /\ Fault
    /\ Goto("profiles", "flag")
    /\ UNCHANGED <<platform, config, ini, cfg, handle, orphan, profiles,
                   connected, command, unacked, wanted, excuse>>

(* The callback takes the process with it.  Whether gocron recovers the    *)
(* panic of its job depends on its release: both are steps.                *)
ProfilesPanic ==
    /\ pc["profiles"] = "panic"
    /\ \/ ProcessDies
       \/ /\ profiles /\ Goto("profiles", "idle")
          /\ UNCHANGED <<platform, config, ini, cfg, handle, orphan, profiles,
                         connected, command, unacked, wanted, excuse, messages>>
    /\ UNCHANGED faults

-----------------------------------------------------------------------------
Step(a) ==
    \/ Load(a) \/ Save(a) \/ SetRestartRequiredFlag(a) \/ SaveFlag(a)
    \/ LoadFails(a)
    \/ Add(a) \/ Remove(a)
    \/ ReportBuilt(a) \/ ReportError(a) \/ NoAddress(a) \/ Sent(a) \/ NotSent(a)
    \/ GetRemoteConfig(a) \/ NoRemoteConfig(a) \/ SaveRemoteConfig(a)

Start == Boot \/ StartGivesUp \/ Connect \/ ConnectFails \/ Reconnect

Consume ==
    \/ Read \/ ReadFails \/ RemoveForDisable
    \/ SetEnabled \/ SetFails \/ SaveEnabled \/ Ack

Next ==
    \/ \E a \in Actor : Step(a)
    \/ Start \/ Consume
    \/ \E m \in Command : Deliver(m)
    \/ \E r \in JobRun : ReportTask(r)
    \/ NewConfig \/ Reschedule \/ RescheduleAnsible \/ AgentSettings
    \/ ProfilesRequestFails \/ ProfilesPanic
    \/ Crash

Spec == Init /\ [][Next]_vars

(* Started goroutines go on, and the server delivers again what it has not *)
(* been told is done.                                                      *)
Fairness ==
    /\ \A a \in Actor : WF_vars(Step(a))
    /\ WF_vars(Start) /\ WF_vars(Consume) /\ WF_vars(Reschedule)
    /\ WF_vars(RescheduleAnsible) /\ WF_vars(ProfilesPanic)
    /\ \A m \in Command : WF_vars(m \in unacked /\ Deliver(m))

FairSpec == Spec /\ Fairness

-----------------------------------------------------------------------------
(* Properties.                                                             *)

(* The values of every variable: each field of the configuration, step of  *)
(* a goroutine and state of a.ReportJob is one the code can produce.       *)
TypeOK ==
    /\ platform \in Platforms
    /\ config \in Config /\ ini \in Ini
    /\ cfg \in [Actor -> Ini] /\ pc \in [Actor -> Steps]
    /\ handle \in {"nil", "scheduled", "removed"}
    /\ orphan \in BOOLEAN /\ profiles \in BOOLEAN /\ connected \in BOOLEAN
    /\ command \in Command \cup {"none"} /\ unacked \subseteq Command
    /\ wanted \in BOOLEAN /\ excuse \subseteq Excuses
    /\ messages \in 0..MaxMessages /\ faults \in 0..MaxFaults

(* No goroutine of the agent is at work, and no command is outstanding.    *)
Quiet == connected /\ Active = {} /\ unacked = {}

(* Once EnableAgentHandler or DisableAgentHandler has acknowledged, and    *)
(* the rest has come to an end, the file and the memory hold what the last *)
(* command asked for: no other save, crash or redelivery has undone it.  A *)
(* command that cannot read the file is dropped; one that cannot save what *)
(* it set is acknowledged all the same, and excused until one can save.    *)
EnabledPersisted ==
    Quiet /\ "unsaved" \notin excuse =>
        ini.enabled = wanted /\ config.enabled = wanted

(* An enabled agent at rest has a report job that a.ReportJob names, so    *)
(* that it goes on reporting and can be disabled, unless the report that   *)
(* should have started the job was nil (SendReport failing is no excuse),  *)
(* or a command could not save what it set.                                *)
EnabledReports ==
    connected /\ Active = {} /\ config.enabled =>
        handle = "scheduled" \/ {"nil report", "unsaved"} \cap excuse # {}

(* RestartRequired, raised for the watchdog by NewConfig, AgentSettings,   *)
(* RunReport and requests for profiles, is lowered by a start of the agent *)
(* and by nothing else.                                                    *)
RestartFlagKept == [][ini.restart /\ ~ini'.restart => pc["main"] = "boot"]_vars

(* README.md: "An agent can be disabled if we don't want to receive new    *)
(* reports".  While goroutines do not overlap, a disabled agent at rest    *)
(* has a report job only if it connected late while disabled, or a new     *)
(* configuration rescheduled the job that DisableAgentHandler had removed, *)
(* or an enabling that could not be saved left Enabled set in memory.      *)
DisabledStaysQuiet ==
    Quiet /\ ~wanted /\ (handle = "scheduled" \/ orphan) =>
        excuse \cap {"late connection", "new configuration", "unsaved"} # {}

(* Whatever overlaps, an acknowledged enabling or disabling is only undone *)
(* by a goroutine that saves what it had loaded before.                    *)
UndoneOnlyByStaleSave == EnabledPersisted \/ "stale save" \in excuse

(* A disabling that the server keeps delivering is eventually written to   *)
(* the file by DisableAgentHandler, which logs that the agent is disabled. *)
DisableTakesEffect == "disable" \in unacked ~> ~ini.enabled

=============================================================================
