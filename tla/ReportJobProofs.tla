--------------------------- MODULE ReportJobProofs ---------------------------
(***************************************************************************)
(* Proofs about the report job of ReportSchedule: an enabled agent at rest *)
(* has one, whatever overlaps, unless a save was stale; a stale save does  *)
(* no harm to an agent that gets commands only and meets no fault; and a   *)
(* disabled agent has none while its goroutines do not overlap, but for    *)
(* the excuses those properties name.                                      *)
(***************************************************************************)
EXTENDS ReportScheduleProofs

-----------------------------------------------------------------------------
(* What a goroutine's own step leaves alone.                               *)

LEMMA OneMoves ==
    ASSUME TypeInv, NEW a \in Actor, Step(a), ~ProcessDies
    PROVE  /\ Writer(a) /\ command' = command
           /\ \A b \in Actor \ {a} : pc'[b] = pc[b]
  <1> USE DEF TypeInv, TypeOK, Goto, Writer
  <1>1. CASE Load(a) \/ Save(a) \/ SetRestartRequiredFlag(a) \/ LoadFails(a)
    BY <1>1 DEF Load, Save, SetRestartRequiredFlag, LoadFails
  <1>2. CASE SaveFlag(a)
    BY <1>2 DEF SaveFlag, AfterFlag, AfterReport
  <1>3. CASE Add(a) \/ Remove(a)
    BY <1>3 DEF Add, Remove, RemoveReportJob
  <1>4. CASE ReportBuilt(a) \/ ReportError(a) \/ NoAddress(a)
    BY <1>4 DEF ReportBuilt, ReportError, NoAddress, AfterReport
  <1>5. CASE Sent(a)
    BY <1>5 DEF Sent
  <1>6. CASE NotSent(a)
    BY <1>6 DEF NotSent
  <1>7. CASE GetRemoteConfig(a) \/ NoRemoteConfig(a) \/ SaveRemoteConfig(a)
    BY <1>7 DEF GetRemoteConfig, NoRemoteConfig, SaveRemoteConfig
  <1> QED BY <1>1, <1>2, <1>3, <1>4, <1>5, <1>6, <1>7 DEF Step

LEMMA StepEnabled ==
    ASSUME TypeInv, NEW a \in Actor, Step(a), ~ProcessDies
    PROVE  config'.enabled = config.enabled
  <1>1. \A f \in Frequency : SetFrequency(f) => config'.enabled = config.enabled
    BY SameEnabled DEF TypeInv
  <1>2. "retry" \in Frequency /\ "default" \in Frequency
    BY DEF Frequency
  <1>3. CASE Sent(a) \/ NotSent(a) \/ NoRemoteConfig(a) \/ SaveRemoteConfig(a)
    BY <1>1, <1>2, <1>3 DEF Sent, NotSent, NoRemoteConfig, SaveRemoteConfig
  <1>4. CASE ~(Sent(a) \/ NotSent(a) \/ NoRemoteConfig(a)
                 \/ SaveRemoteConfig(a))
    BY <1>4 DEF Step, Load, Save, SetRestartRequiredFlag, SaveFlag, LoadFails,
       Add, Remove, RemoveReportJob, ReportBuilt, ReportError, NoAddress,
       GetRemoteConfig
  <1> QED BY <1>3, <1>4

-----------------------------------------------------------------------------
(* An enabled agent reports, whatever overlaps.                            *)

(* On its way to start the report job, or to disable the agent.            *)
OnItsWay(a) ==
    \/ a = "main" /\ pc[a] \in {"connect", "reconnect", "report", "send",
                                "remote", "remoteSave", "load", "save"}
    \/ a \in Enabler /\ pc[a] \in {"report", "send"}
    \/ pc[a] = "add"
    \/ a = "js" /\ pc[a] = "set" /\ command = "disable"
    \/ a = "js" /\ pc[a] = "save" /\ command = "enable"

Excused == excuse \cap {"nil report", "unsaved", "stale save"} # {}

Reporting ==
    config.enabled =>
        handle = "scheduled" \/ Excused \/ \E a \in Actor : OnItsWay(a)

(* Start returned before it connected: nothing runs until the next start.  *)
GivenUp == ~connected /\ pc["main"] = "idle"

(* Only a disabling removes the job for good.                              *)
Disabling == pc["js"] = "remove" => command = "disable"

(* A step of one goroutine that leaves the job and Enabled alone.          *)
LEMMA ReportingByActor ==
    ASSUME Reporting, NEW a \in Actor,
           config'.enabled => config.enabled,
           handle = "scheduled" => handle' = "scheduled",
           Excused => Excused', OnItsWay(a) => Excused' \/ OnItsWay(a)',
           \A b \in Actor \ {a} : pc'[b] = pc[b],
           command' = command \/ a = "js"
    PROVE  Reporting'
  <1>1. \A b \in Actor \ {a} : OnItsWay(b) => OnItsWay(b)'
    BY DEF OnItsWay
  <1>2. (\E b \in Actor : OnItsWay(b)) =>
            Excused' \/ \E b \in Actor : OnItsWay(b)'
    BY <1>1
  <1> QED BY <1>2 DEF Reporting

LEMMA DiesReporting == ProcessDies => Reporting' /\ Disabling'
  <1> SUFFICES ASSUME ProcessDies PROVE Reporting' /\ Disabling'
    OBVIOUS
  <1>1. ~config'.enabled
    <2>1. config' = Unread
      BY DEF ProcessDies
    <2> QED BY <2>1 DEF Unread
  <1>2. pc'["js"] = "idle"
    BY Named DEF ProcessDies
  <1> QED BY <1>1, <1>2 DEF Reporting, Disabling

LEMMA ReportingByStep ==
    ASSUME TypeInv, Reporting, NEW a \in Actor, Step(a)
    PROVE  Reporting'
  <1> SUFFICES ASSUME ~ProcessDies PROVE Reporting'
    BY DiesReporting
  <1>1. /\ command' = command /\ config'.enabled = config.enabled
        /\ \A b \in Actor \ {a} : pc'[b] = pc[b]
    BY OneMoves, StepEnabled
  <1>2. pc["js"] \in JsSteps /\ pc \in [Actor -> Steps]
    BY DEF TypeInv, Handled, TypeOK
  <1> USE DEF Goto, OnItsWay, Excused
  <1>3. CASE Load(a)
    <2>1. UNCHANGED <<handle, excuse>> /\ pc[a] = "load" /\ pc'[a] = "save"
      BY <1>2, <1>3 DEF Load
    <2> QED BY <1>1, <2>1, <1>2, Named, ReportingByActor DEF JsSteps
  <1>4. CASE Save(a)
    <2>1. handle' = handle /\ pc[a] = "save" /\ a # "js"
          /\ (a = "main" => pc'[a] = "add") /\ excuse \subseteq excuse'
      BY <1>2, <1>4, Named DEF Save, AfterSave, MayBeStale
    <2> QED BY <1>1, <2>1, <1>2, Named, ReportingByActor
  <1>5. CASE SetRestartRequiredFlag(a) \/ LoadFails(a)
    <2>1. UNCHANGED <<handle, excuse>>
          /\ (pc[a] = "flag" \/ (pc[a] = "load" /\ a = "settings"))
      BY <1>5 DEF SetRestartRequiredFlag, LoadFails
    <2> QED BY <1>1, <2>1, Named, ReportingByActor
  <1>6. CASE SaveFlag(a)
    <2>1. handle' = handle /\ pc[a] = "raise" /\ excuse \subseteq excuse'
      BY <1>6 DEF SaveFlag, MayBeStale
    <2> QED BY <1>1, <2>1, Named, ReportingByActor
  <1>7. CASE Add(a)
    BY <1>7 DEF Add, StartReportJob, Reporting
  <1>8. CASE Remove(a)
    <2>1. pc'[a] = "add"
      BY <1>2, <1>8 DEF Remove, RemoveReportJob
    <2> QED BY <2>1 DEF Reporting
  <1>9. CASE ReportBuilt(a)
    <2>1. UNCHANGED <<handle, excuse>> /\ pc[a] = "report"
          /\ (a # "js" => pc'[a] = "send")
      BY <1>2, <1>9 DEF ReportBuilt, CertificateReport
    <2> QED BY <1>1, <2>1, Named, ReportingByActor
  <1>10. CASE ReportError(a) \/ NoAddress(a)
    <2>1. handle' = handle /\ pc[a] = "report" /\ excuse' = NilReport(a)
      BY <1>10 DEF ReportError, NoAddress
    <2>2. Excused => Excused'
      BY <2>1 DEF NilReport
    <2>3. OnItsWay(a) => Excused'
      BY <2>1 DEF NilReport
    <2> QED BY <1>1, <2>1, <2>2, <2>3, ReportingByActor
  <1>11. CASE Sent(a) \/ NotSent(a)
    <2>1. UNCHANGED <<handle, excuse>> /\ pc[a] = "send"
          /\ (a \in Enabler => pc'[a] = "add")
          /\ (a = "main" => pc'[a] \in {"remote", "load"})
      BY <1>2, <1>11, Named DEF Sent, NotSent
    <2> QED BY <1>1, <2>1, Named, ReportingByActor
  <1>12. CASE GetRemoteConfig(a) \/ NoRemoteConfig(a)
    <2>1. UNCHANGED <<handle, excuse>> /\ pc[a] = "remote"
          /\ pc'[a] \in {"remoteSave", "load"}
      BY <1>2, <1>12 DEF GetRemoteConfig, NoRemoteConfig
    <2> QED BY <1>1, <2>1, Named, ReportingByActor
  <1>13. CASE SaveRemoteConfig(a)
    <2>1. handle' = handle /\ pc[a] = "remoteSave" /\ pc'[a] = "load"
          /\ excuse \subseteq excuse'
      BY <1>2, <1>13 DEF SaveRemoteConfig, MayBeStale
    <2> QED BY <1>1, <2>1, Named, ReportingByActor
  <1> QED BY <1>3, <1>4, <1>5, <1>6, <1>7, <1>8, <1>9, <1>10, <1>11, <1>12,
        <1>13 DEF Step

LEMMA ReportingStart ==
    ASSUME TypeInv, Reporting, Start, ~StartGivesUp
    PROVE  Reporting'
  <1> USE Named DEF TypeInv, TypeOK, Goto, OnItsWay
  <1>1. CASE Boot
    <2>1. pc'["main"] = "connect"
      BY <1>1 DEF Boot
    <2> QED BY <2>1 DEF Reporting
  <1>2. CASE Connect
    <2>1. config.enabled => pc'["main"] = "report"
      BY <1>2 DEF Connect
    <2> QED BY <1>2, <2>1 DEF Connect, Reporting
  <1>3. CASE ConnectFails
    <2>1. pc'["main"] = "reconnect"
      BY <1>3 DEF ConnectFails
    <2> QED BY <2>1 DEF Reporting
  <1>4. CASE Reconnect
    <2>1. pc'["main"] = "add"
      BY <1>4 DEF Reconnect
    <2> QED BY <2>1 DEF Reporting
  <1> QED BY <1>1, <1>2, <1>3, <1>4 DEF Start

LEMMA ReportingConsume ==
    ASSUME TypeInv, Settled, Disabling, Reporting, Consume
    PROVE  Reporting'
  <1> SUFFICES ASSUME ~ProcessDies PROVE Reporting'
    BY DiesReporting
  <1>1. pc \in [Actor -> Steps] /\ config \in Config /\ ini \in Ini
        /\ "js" \in Actor /\ "js" # "main" /\ "js" \notin Enabler
    BY Named DEF TypeInv, TypeOK
  <1>2. CASE Read
    <2>1. UNCHANGED <<handle, excuse, command>> /\ pc["js"] = "read"
          /\ \A b \in Actor \ {"js"} : pc'[b] = pc[b]
      BY <1>1, <1>2 DEF Read, Goto
    <2>2. config'.enabled \in {config.enabled, ini.enabled}
      BY <1>1, <1>2, Fields DEF Read, ReadConfig
    <2>3. pc["main"] # "boot"
      BY <2>1, <1>1, Named DEF TypeInv, Connecting
    <2>4. Clean => config.enabled = ini.enabled
      BY <2>1, <2>3 DEF Settled
    <2>5. Excused <=> Excused'
      BY <2>1 DEF Excused
    <2>6. CASE Clean
      BY <1>1, <2>1, <2>2, <2>4, <2>5, <2>6, ReportingByActor DEF OnItsWay
    <2>7. CASE ~Clean
      BY <2>5, <2>7 DEF Clean, Excused, Reporting
    <2> QED BY <2>6, <2>7
  <1>3. CASE ReadFails \/ Ack
    <2>1. UNCHANGED <<handle, excuse, config>>
          /\ pc["js"] \in {"read", "ack", "giveUp"}
          /\ \A b \in Actor \ {"js"} : pc'[b] = pc[b]
      BY <1>1, <1>3 DEF ReadFails, Ack, Goto
    <2> QED BY <1>1, <2>1, ReportingByActor DEF OnItsWay, Excused
  <1>4. CASE RemoveForDisable
    <2>1. pc'["js"] = "set" /\ command' = "disable"
      BY <1>1, <1>4 DEF RemoveForDisable, RemoveReportJob, Goto, Disabling
    <2> QED BY <1>1, <2>1 DEF Reporting, OnItsWay
  <1>5. CASE SetEnabled
    <2>1. config'.enabled = (command = "enable") /\ command' = command
          /\ pc'["js"] = "save"
      BY <1>1, <1>5, Fields DEF SetEnabled, Goto
    <2> QED BY <1>1, <2>1 DEF Reporting, OnItsWay
  <1>6. CASE SetFails
    <2>1. Excused'
      BY <1>6 DEF SetFails, Excused
    <2> QED BY <2>1 DEF Reporting
  <1>7. CASE SaveEnabled
    <2>1. config'.enabled = (command = "enable")
      BY <1>7 DEF SaveEnabled, Settled
    <2>2. CASE command = "enable"
      <3>1. PICK e \in Enabler :
               pc' = [pc EXCEPT !["js"] = "ack", ![e] = "report"]
        BY <1>7, <2>2 DEF SaveEnabled
      <3>2. e \in Actor /\ pc'[e] = "report"
        BY <1>1, <3>1, Named
      <3> QED BY <3>1, <3>2 DEF Reporting, OnItsWay
    <2> QED BY <2>1, <2>2 DEF Reporting
  <1> QED BY <1>2, <1>3, <1>4, <1>5, <1>6, <1>7 DEF Consume

LEMMA ReportingOther ==
    ASSUME TypeInv, Reporting,
           \/ \E m \in Command : Deliver(m)
           \/ \E r \in JobRun : ReportTask(r)
           \/ NewConfig \/ Reschedule \/ RescheduleAnsible \/ AgentSettings
           \/ ProfilesRequestFails
    PROVE  Reporting'
  <1> SUFFICES ASSUME ~ProcessDies PROVE Reporting'
    BY DiesReporting
  <1>1. pc \in [Actor -> Steps] /\ config \in Config
    BY DEF TypeInv, TypeOK
  <1> USE Named DEF Goto, OnItsWay, Excused
  <1>2. ASSUME NEW m \in Command, Deliver(m) PROVE Reporting'
    <2>1. UNCHANGED <<handle, excuse, config>> /\ pc["js"] = "idle"
          /\ \A b \in Actor \ {"js"} : pc'[b] = pc[b]
      BY <1>1, <1>2 DEF Deliver, MayStart
    <2> QED BY <2>1, ReportingByActor
  <1>3. ASSUME NEW r \in JobRun, ReportTask(r) PROVE Reporting'
    <2>1. UNCHANGED <<handle, excuse, config, command>> /\ pc[r] = "idle"
          /\ \A b \in Actor \ {r} : pc'[b] = pc[b]
      BY <1>1, <1>3 DEF ReportTask, MayStart
    <2> QED BY <2>1, ReportingByActor
  <1>4. CASE NewConfig
    <2>1. UNCHANGED <<handle, excuse, config, command>>
          /\ pc["newconfig"] = "idle"
          /\ \A b \in Actor \ {"newconfig"} : pc'[b] = pc[b]
      BY <1>1, <1>4 DEF NewConfig, MayStart
    <2> QED BY <2>1, ReportingByActor
  <1>5. CASE Reschedule
    <2>1. UNCHANGED <<handle, excuse, command>> /\ pc["newconfig"] = "reschedule"
          /\ \A b \in Actor \ {"newconfig"} : pc'[b] = pc[b]
      BY <1>1, <1>5 DEF Reschedule
    <2>2. config'.enabled = config.enabled
      BY <1>5, SameEnabled DEF Reschedule, TypeInv, Frequency
    <2> QED BY <2>1, <2>2, ReportingByActor
  <1>6. CASE RescheduleAnsible
    <2>1. UNCHANGED <<handle, excuse, config, command>>
          /\ pc["newconfig"] = "ansible"
          /\ \A b \in Actor \ {"newconfig"} : pc'[b] = pc[b]
      BY <1>1, <1>6 DEF RescheduleAnsible
    <2> QED BY <2>1, ReportingByActor
  <1>7. CASE AgentSettings
    <2>1. UNCHANGED <<handle, excuse, config, command>>
          /\ pc["settings"] = "idle"
          /\ \A b \in Actor \ {"settings"} : pc'[b] = pc[b]
      BY <1>1, <1>7 DEF AgentSettings, MayStart
    <2> QED BY <2>1, ReportingByActor
  <1>8. CASE ProfilesRequestFails
    <2>1. UNCHANGED <<handle, excuse, config, command>>
          /\ pc["profiles"] = "idle"
          /\ \A b \in Actor \ {"profiles"} : pc'[b] = pc[b]
      BY <1>1, <1>8 DEF ProfilesRequestFails, MayStart
    <2> QED BY <2>1, ReportingByActor
  <1> QED BY <1>2, <1>3, <1>4, <1>5, <1>6, <1>7, <1>8

(* An agent whose start gave up does nothing but crash.                    *)
LEMMA GivenUpStays ==
    ASSUME TypeInv, GivenUp, [Next]_vars
    PROVE  UNCHANGED vars \/ ProcessDies
  <1>1. ~connected /\ \A a \in Actor : pc[a] = "idle"
    BY DEF TypeInv, Connecting, GivenUp
  <1>2. \A a \in Actor : ~Step(a)
    BY <1>1 DEF Step, Load, Save, SetRestartRequiredFlag, SaveFlag, LoadFails,
       Add, Remove, ReportBuilt, ReportError, NoAddress, Sent, NotSent,
       GetRemoteConfig, NoRemoteConfig, SaveRemoteConfig
  <1>3. ~Start
    BY <1>1, Named DEF Start, Boot, StartGivesUp, Connect, ConnectFails,
       Reconnect
  <1>4. ~Consume
    BY <1>1, Named DEF Consume, Read, ReadFails, RemoveForDisable, SetEnabled,
       SetFails, SaveEnabled, Ack
  <1>5. /\ ~\E m \in Command : Deliver(m)
        /\ ~\E r \in JobRun : ReportTask(r)
        /\ ~NewConfig /\ ~AgentSettings /\ ~ProfilesRequestFails
    BY <1>1 DEF Deliver, ReportTask, NewConfig, AgentSettings,
       ProfilesRequestFails, MayStart
  <1>6. ~Reschedule /\ ~RescheduleAnsible /\ ~ProfilesPanic
    BY <1>1, Named DEF Reschedule, RescheduleAnsible, ProfilesPanic
  <1> QED BY <1>2, <1>3, <1>4, <1>5, <1>6 DEF Next, Crash

LEMMA ReportingStep ==
    ASSUME TypeInv, Settled, Disabling, Reporting \/ GivenUp, [Next]_vars
    PROVE  Reporting' \/ GivenUp'
  <1>1. CASE GivenUp
    BY <1>1, GivenUpStays, DiesReporting DEF vars, GivenUp
  <1>2. CASE Reporting /\ UNCHANGED vars
    BY <1>2 DEF vars, Reporting, OnItsWay, Excused
  <1>3. CASE Crash
    BY <1>3, DiesReporting DEF Crash
  <1>4. CASE Reporting /\ ProfilesPanic /\ ~ProcessDies
    <2>1. UNCHANGED <<handle, excuse, config, command>>
          /\ pc["profiles"] = "panic"
          /\ \A b \in Actor \ {"profiles"} : pc'[b] = pc[b]
      BY <1>4 DEF ProfilesPanic, Goto, TypeInv, TypeOK
    <2> QED BY <1>4, <2>1, Named, ReportingByActor DEF OnItsWay, Excused
  <1>5. CASE StartGivesUp
    BY <1>5, Named DEF StartGivesUp, Goto, GivenUp, TypeInv, TypeOK, Connecting
  <1>6. CASE ProcessDies
    BY <1>6, DiesReporting
  <1> QED BY <1>1, <1>2, <1>3, <1>4, <1>5, <1>6, ReportingByStep,
        ReportingStart, ReportingConsume, ReportingOther DEF Next

LEMMA DisablingStep == TypeInv /\ Disabling /\ [Next]_vars => Disabling'
  <1> SUFFICES ASSUME TypeInv, Disabling, [Next]_vars, ~ProcessDies
      PROVE  Disabling'
    BY DiesReporting
  <1>1. pc \in [Actor -> Steps] /\ "js" \in Actor /\ pc["js"] \in JsSteps
    BY Named DEF TypeInv, TypeOK, Handled
  <1>2. CASE UNCHANGED vars
    BY <1>2 DEF vars, Disabling
  <1>3. ASSUME NEW a \in Actor, Step(a) PROVE Disabling'
    <2>1. command' = command /\ \A b \in Actor \ {a} : pc'[b] = pc[b]
      BY <1>3, OneMoves
    <2>2. CASE a # "js"
      BY <1>1, <2>1, <2>2 DEF Disabling
    <2>3. CASE a = "js"
      <3>1. pc'["js"] # "remove"
        BY <1>1, <1>3, <2>3, Named DEF Step, Goto, JsSteps, Load, Save,
           SetRestartRequiredFlag, SaveFlag, AfterFlag, AfterReport, LoadFails,
           Add, Remove, ReportBuilt, ReportError, NoAddress, Sent, NotSent,
           GetRemoteConfig, NoRemoteConfig, SaveRemoteConfig
      <3> QED BY <3>1 DEF Disabling
    <2> QED BY <2>2, <2>3
  <1>4. CASE Start
    <2>1. pc'["js"] = pc["js"] /\ command' = command
      BY <1>1, <1>4, Named DEF Start, Boot, Connect, ConnectFails, StartGivesUp, Reconnect,
         Goto
    <2> QED BY <2>1 DEF Disabling
  <1>5. CASE Read
    BY <1>1, <1>5 DEF Read, Goto, Disabling
  <1>6. CASE Consume /\ ~Read
    <2>1. pc'["js"] # "remove"
      <3>1. CASE SaveEnabled
        BY <1>1, <3>1, Named DEF SaveEnabled, Goto
      <3>2. CASE ~SaveEnabled
        BY <1>1, <1>6, <3>2 DEF Consume, ReadFails, RemoveForDisable,
           RemoveReportJob, SetEnabled, SetFails, Ack, Goto
      <3> QED BY <3>1, <3>2
    <2> QED BY <2>1 DEF Disabling
  <1>7. ASSUME NEW m \in Command, Deliver(m) PROVE Disabling'
    BY <1>1, <1>7 DEF Deliver, Goto, Disabling
  <1>8. ASSUME NEW r \in JobRun, ReportTask(r) PROVE Disabling'
    BY <1>1, <1>8, Named DEF ReportTask, Goto, Disabling
  <1>9. CASE \/ NewConfig \/ Reschedule \/ RescheduleAnsible \/ AgentSettings
             \/ ProfilesRequestFails
    <2>1. pc'["js"] = pc["js"] /\ command' = command
      BY <1>1, <1>9, Named DEF NewConfig, Reschedule, RescheduleAnsible,
         AgentSettings, ProfilesRequestFails, Goto
    <2> QED BY <2>1 DEF Disabling
  <1>10. CASE ProfilesPanic
    <2>1. pc'["js"] = pc["js"] /\ command' = command
      BY <1>1, <1>10, Named DEF ProfilesPanic, Goto
    <2> QED BY <2>1 DEF Disabling
  <1>11. ~Crash
    BY DEF Crash
  <1> QED BY <1>11, <1>2, <1>3, <1>4, <1>5, <1>6, <1>7, <1>8, <1>9, <1>10 DEF Next

ReportingInv ==
    TypeInv /\ Settled /\ Disabling /\ (Reporting \/ GivenUp)

LEMMA ReportingCorrect == Spec => []ReportingInv
  <1>1. Init => Disabling /\ Reporting
    BY Named DEF Init, Disabling, Reporting, Unread
  <1>2. Init => ReportingInv
    BY <1>1, TypeInit, SettledInit DEF ReportingInv
  <1>3. ReportingInv /\ [Next]_vars => ReportingInv'
    BY TypeOKStep, HandledStep, ConnectingStep, SettledStep, DisablingStep,
       ReportingStep
    DEF ReportingInv, TypeInv
  <1> QED BY <1>2, <1>3, PTL DEF Spec

LEMMA AtRest ==
    ASSUME ReportingInv, connected, Active = {}, config.enabled
    PROVE  handle = "scheduled" \/ Excused
  <1>1. \A a \in Actor : pc[a] \in {"idle", "reconnect"}
    BY DEF Active
  <1>2. pc["main"] = "idle"
    BY <1>1, Named DEF ReportingInv, TypeInv, Connecting
  <1>3. \A a \in Actor : ~OnItsWay(a)
    BY <1>1, <1>2 DEF OnItsWay
  <1> QED BY <1>3 DEF ReportingInv, Reporting, GivenUp

(* Whatever overlaps, crashes or fails, an enabled agent at rest has a     *)
(* report job that a.ReportJob names, unless the report that should have   *)
(* started it was nil, or a command could not save what it set, or another *)
(* goroutine has saved what it loaded before a command.                    *)
THEOREM EnabledReportsUnlessStale ==
    Spec => [](EnabledReports \/ "stale save" \in excuse)
  <1>1. ReportingInv => EnabledReports \/ "stale save" \in excuse
    BY AtRest DEF EnabledReports, Excused
  <1> QED BY ReportingCorrect, <1>1, PTL

(* If goroutines do not overlap, no save is stale that is not excused.     *)
THEOREM SerialEnabledReports == MaxOverlap = 1 /\ Spec => []EnabledReports
  <1>1. ReportingInv /\ SerialInv => EnabledReports
    BY AtRest DEF EnabledReports, Excused, SerialInv, Fresh, NothingStale
  <1> QED BY ReportingCorrect, Serial, <1>1, PTL

-----------------------------------------------------------------------------
(* Without a fault, the commands and the runs of the report job may        *)
(* overlap as they like: whoever saves an enablement goes on to add a job. *)

CommandsOnly == MaxFaults = 0 /\ Message \subseteq Command

(* The steps that are left.                                                *)
JobSteps == {"idle", "report", "send", "remote", "remoteSave", "load", "save",
             "add"}

CommandStep(a) ==
    /\ a = "main" => pc[a] \in JobSteps \cup {"boot", "connect"}
    /\ a = "js" => pc[a] \in {"idle", "read", "report", "send", "remove",
                              "set", "save", "ack"}
    /\ a \in Enabler => pc[a] \in {"idle", "report", "send", "add"}
    /\ a \in JobRun => pc[a] \in JobSteps \cup {"remove"}
    /\ a \in {"newconfig", "settings", "profiles"} => pc[a] = "idle"

CommandSteps == \A a \in Actor : CommandStep(a)

(* What Boot has read is still what the file says.                         *)
ConnectsAsRead == pc["main"] = "connect" => config.enabled = ini.enabled

(* A start, an enabling or a run of the job adds a job before it ends, and *)
(* a command that changes Enabled ends with an enabling or a disabled file.*)
WillReport(a) == pc[a] # "idle" /\ (a = "js" => pc[a] \in {"set", "save"})

GoesOn ==
    config.enabled \/ ini.enabled =>
        handle = "scheduled" \/ \E a \in Actor : WillReport(a)

CommandsInv ==
    TypeInv /\ Settled /\ CommandSteps /\ ConnectsAsRead /\ GoesOn

(* No fault, nothing from those who need one, and no other request.        *)
LEMMA Unfaulted ==
    ASSUME CommandsOnly, TypeInv, CommandSteps
    PROVE  /\ ~Fault
           /\ \A a \in Actor : ~LoadFails(a) /\ ~ReportError(a) /\ ~NoAddress(a)
                 /\ ~NotSent(a) /\ ~SetRestartRequiredFlag(a) /\ ~SaveFlag(a)
           /\ ~ConnectFails /\ ~StartGivesUp /\ ~Reconnect /\ ~ReadFails /\ ~SetFails
           /\ ~NewConfig /\ ~Reschedule /\ ~RescheduleAnsible /\ ~AgentSettings
           /\ ~ProfilesRequestFails /\ ~ProfilesPanic /\ ~Crash
  <1>1. ~Fault
    BY DEF Fault, CommandsOnly, TypeInv, TypeOK
  <1>2. \A a \in Actor : pc[a] \notin {"flag", "raise"}
    BY ConstantsAssumption DEF CommandSteps, CommandStep, JobSteps, Actor
  <1>3. \A a \in Actor : ~SetRestartRequiredFlag(a) /\ ~SaveFlag(a)
    BY <1>2 DEF SetRestartRequiredFlag, SaveFlag
  <1>4. \A a \in Actor : ~LoadFails(a) /\ ~ReportError(a) /\ ~NoAddress(a)
                            /\ ~NotSent(a)
    BY <1>1 DEF LoadFails, ReportError, NoAddress, NotSent
  <1>5. ~ConnectFails /\ ~StartGivesUp /\ ~ReadFails /\ ~SetFails /\ ~ProfilesRequestFails
        /\ ~Crash
    BY <1>1 DEF ConnectFails, StartGivesUp, ReadFails, SetFails, ProfilesRequestFails, Crash
  <1>6. pc["main"] # "reconnect" /\ pc["newconfig"] = "idle"
        /\ pc["profiles"] = "idle"
    BY Named DEF CommandSteps, CommandStep, JobSteps
  <1>7. ~Reconnect /\ ~Reschedule /\ ~RescheduleAnsible /\ ~ProfilesPanic
    BY <1>6 DEF Reconnect, Reschedule, RescheduleAnsible, ProfilesPanic
  <1>8. "newconfig" \notin Message /\ "settings" \notin Message
    BY DEF CommandsOnly, Command
  <1>9. ~NewConfig /\ ~AgentSettings
    BY <1>8 DEF NewConfig, AgentSettings, Send
  <1> QED BY <1>1, <1>3, <1>4, <1>5, <1>7, <1>9

(* What the goroutine that moves does: it goes on, or has added the job.   *)
LEMMA CommandByStep ==
    ASSUME CommandsOnly, TypeInv, CommandSteps, NEW a \in Actor, Step(a),
           ~ProcessDies
    PROVE  /\ CommandStep(a)'
           /\ a # "js" => pc'[a] # "idle" \/ handle' = "scheduled"
           /\ a = "js" => pc[a] \in {"report", "send"}
                             /\ UNCHANGED <<ini, handle>>
  <1>1. CommandStep(a) /\ pc \in [Actor -> Steps]
        /\ (a = "js" => command \in {"report", "none"} \/ pc[a] \notin {"report", "send"})
    BY DEF CommandSteps, TypeInv, TypeOK, Handled
  <1> USE Named DEF CommandStep, JobSteps, Goto
  <1>2. CASE Load(a)
    BY <1>1, <1>2 DEF Load
  <1>3. CASE Save(a)
    BY <1>1, <1>3 DEF Save, AfterSave
  <1>4. CASE Add(a)
    BY <1>1, <1>4 DEF Add, StartReportJob
  <1>5. CASE Remove(a)
    BY <1>1, <1>5 DEF Remove, RemoveReportJob
  <1>6. CASE ReportBuilt(a)
    BY <1>1, <1>6 DEF ReportBuilt, CertificateReport
  <1>7. CASE Sent(a)
    BY <1>1, <1>7 DEF Sent
  <1>8. CASE GetRemoteConfig(a) \/ NoRemoteConfig(a) \/ SaveRemoteConfig(a)
    BY <1>1, <1>8 DEF GetRemoteConfig, NoRemoteConfig, SaveRemoteConfig
  <1> QED BY <1>2, <1>3, <1>4, <1>5, <1>6, <1>7, <1>8, Unfaulted DEF Step

LEMMA DiesCommands ==
    ProcessDies => CommandSteps' /\ ConnectsAsRead' /\ GoesOn'
  <1> SUFFICES ASSUME ProcessDies
               PROVE  CommandSteps' /\ ConnectsAsRead' /\ GoesOn'
    OBVIOUS
  <1>1. pc' = [a \in Actor |-> IF a = "main" THEN "boot" ELSE "idle"]
    BY DEF ProcessDies
  <1>2. pc'["main"] = "boot"
    BY <1>1, Named
  <1>3. CommandSteps'
    BY <1>1, Named DEF CommandSteps, CommandStep, JobSteps
  <1>4. WillReport("main")'
    BY <1>2 DEF WillReport
  <1> QED BY <1>2, <1>3, <1>4, Named DEF ConnectsAsRead, GoesOn

LEMMA CommandsStep ==
    CommandsOnly /\ CommandsInv /\ [Next]_vars =>
        CommandSteps' /\ ConnectsAsRead' /\ GoesOn'
  <1> SUFFICES ASSUME CommandsOnly, CommandsInv, [Next]_vars, ~ProcessDies
               PROVE  CommandSteps' /\ ConnectsAsRead' /\ GoesOn'
    BY DiesCommands
  <1>1. pc \in [Actor -> Steps] /\ TypeInv /\ CommandSteps /\ GoesOn
    BY DEF CommandsInv, TypeInv, TypeOK
  <1>2. CASE UNCHANGED vars
    BY <1>2 DEF vars, CommandsInv, CommandSteps, CommandStep, ConnectsAsRead,
       GoesOn, WillReport
  <1>3. ASSUME NEW a \in Actor, Step(a)
        PROVE  CommandSteps' /\ ConnectsAsRead' /\ GoesOn'
    <2>1. /\ \A b \in Actor \ {a} : pc'[b] = pc[b]
          /\ config'.enabled = config.enabled
      BY <1>1, <1>3, OneMoves, StepEnabled
    <2>2. CommandSteps'
      BY <1>1, <1>3, <2>1, CommandByStep DEF CommandSteps, CommandStep
    <2>3. ConnectsAsRead'
      <3>1. pc["main"] = "connect" => a = "main"
        BY <1>1, <1>3, OneMoves DEF TypeInv, Connecting, Writer
      <3>2. pc["main"] = "connect" => ~Step("main")
        BY DEF Step, Load, Save, SetRestartRequiredFlag, SaveFlag, LoadFails,
           Add, Remove, ReportBuilt, ReportError, NoAddress, Sent, NotSent,
           GetRemoteConfig, NoRemoteConfig, SaveRemoteConfig
      <3>3. pc["main"] # "connect"
        BY <3>1, <3>2, <1>3
      <3>4. pc'["main"] # "connect"
        BY <1>1, <1>3, <2>1, <3>3, Named DEF Step, Goto, Load, Save,
           AfterSave, SetRestartRequiredFlag, SaveFlag, AfterFlag, AfterReport,
           LoadFails, Add, Remove, RemoveReportJob, ReportBuilt, ReportError,
           NoAddress, Sent, NotSent, GetRemoteConfig, NoRemoteConfig,
           SaveRemoteConfig
      <3> QED BY <3>4 DEF ConnectsAsRead
    <2>4. GoesOn'
      <3>1. CASE a = "js"
        BY <1>1, <1>3, <2>1, <3>1, CommandByStep DEF GoesOn, WillReport
      <3>2. CASE a # "js"
        BY <1>1, <1>3, <3>2, CommandByStep DEF GoesOn, WillReport
      <3> QED BY <3>1, <3>2
    <2> QED BY <2>2, <2>3, <2>4
  <1>4. CASE Boot \/ Connect
    <2>1. \A b \in Actor \ {"main"} : pc'[b] = pc[b]
      BY <1>1, <1>4, Named DEF Boot, Connect, Goto
    <2>2. CASE Boot
      <3>1. pc'["main"] = "connect" /\ config'.enabled = ini'.enabled
        BY <1>1, <2>2, Named DEF Boot, Goto, TypeInv, TypeOK, Ini
      <3> QED BY <1>1, <2>1, <3>1, Named DEF CommandSteps, CommandStep,
            ConnectsAsRead, GoesOn, WillReport
    <2>3. CASE Connect
      <3>1. UNCHANGED <<config, ini>> /\ config.enabled = ini.enabled
            /\ pc'["main"] = IF config.enabled THEN "report" ELSE "idle"
        BY <1>1, <2>3, Named DEF Connect, Goto, CommandsInv, ConnectsAsRead
      <3> QED BY <1>1, <2>1, <3>1, Named DEF CommandSteps, CommandStep,
            JobSteps, ConnectsAsRead, GoesOn, WillReport
    <2> QED BY <1>4, <2>2, <2>3
  <1>5. CASE Consume
    <2>1. pc["main"] # "connect" /\ pc["js"] # "idle"
      <3>1. pc["js"] # "idle"
        BY <1>5, <1>1, Unfaulted DEF Consume, Read, RemoveForDisable, SetEnabled,
           SaveEnabled, Ack
      <3> QED BY <1>1, <3>1, Named DEF TypeInv, Connecting
    <2>2. CASE Read \/ RemoveForDisable \/ SetEnabled \/ Ack
      <3>1. \A b \in Actor \ {"js"} : pc'[b] = pc[b]
        BY <1>1, <2>2 DEF Read, RemoveForDisable, RemoveReportJob, SetEnabled,
           Ack, Goto
      <3>2. CommandStep("js")'
        BY <1>1, <2>2, Named DEF Read, RemoveForDisable, RemoveReportJob,
           SetEnabled, Ack, Goto, CommandStep, CommandSteps
      <3>3. CommandSteps'
        BY <1>1, <3>1, <3>2 DEF CommandSteps, CommandStep
      <3>4. ConnectsAsRead'
        BY <2>1, <3>1, Named DEF ConnectsAsRead
      <3>5. CASE Read \/ Ack
        <4>1. /\ ini' = ini /\ handle' = handle
              /\ config'.enabled \in {config.enabled, ini.enabled}
          BY <1>1, <3>5 DEF Read, ReadConfig, Ack
        <4>2. ~WillReport("js")
          BY <3>5 DEF Read, Ack, WillReport
        <4> QED BY <1>1, <3>1, <3>3, <3>4, <4>1, <4>2 DEF GoesOn, WillReport,
              TypeInv, TypeOK, Config, Ini
      <3>6. CASE RemoveForDisable \/ SetEnabled
        <4>1. WillReport("js")'
          BY <1>1, <3>6, Named DEF RemoveForDisable, RemoveReportJob, SetEnabled,
             Goto, WillReport
        <4> QED BY <3>3, <3>4, <4>1, Named DEF GoesOn
      <3> QED BY <2>2, <3>5, <3>6
    <2>3. CASE SaveEnabled /\ command = "enable"
      <3>1. PICK e \in Enabler :
               pc' = [pc EXCEPT !["js"] = "ack", ![e] = "report"]
        BY <2>3 DEF SaveEnabled
      <3>2. e \in Actor /\ e \notin JobRun
            /\ e \notin {"main", "js", "newconfig", "settings", "profiles"}
        BY Named
      <3>3. pc'[e] = "report" /\ pc'["js"] = "ack"
            /\ \A b \in Actor \ {e, "js"} : pc'[b] = pc[b]
        BY <1>1, <3>1, <3>2, Named
      <3>4. CommandSteps'
        BY <1>1, <3>2, <3>3, Named DEF CommandSteps, CommandStep
      <3>5. WillReport(e)' /\ pc'["main"] # "connect"
        BY <2>1, <3>2, <3>3, Named DEF WillReport
      <3> QED BY <3>2, <3>4, <3>5 DEF ConnectsAsRead, GoesOn
    <2>4. CASE SaveEnabled /\ command # "enable"
      <3>1. pc' = [pc EXCEPT !["js"] = "ack"] /\ config' = config
            /\ pc["js"] = "save" /\ ini' = cfg["js"]
        BY <2>4 DEF SaveEnabled, Goto, SaveTo
      <3>2. ~config'.enabled /\ ~ini'.enabled
        BY <2>4, <3>1 DEF CommandsInv, Settled
      <3>3. CommandSteps' /\ pc'["main"] # "connect"
        BY <1>1, <2>1, <3>1, Named DEF CommandSteps, CommandStep
      <3> QED BY <3>2, <3>3 DEF ConnectsAsRead, GoesOn
    <2> QED BY <1>1, <1>5, <2>2, <2>3, <2>4, Unfaulted DEF Consume
  <1>6. ASSUME NEW m \in Command, Deliver(m)
        PROVE  CommandSteps' /\ ConnectsAsRead' /\ GoesOn'
    <2>1. /\ UNCHANGED <<config, ini, handle>> /\ connected
          /\ pc["js"] = "idle" /\ pc'["js"] = "read"
          /\ \A b \in Actor \ {"js"} : pc'[b] = pc[b]
      BY <1>1, <1>6, Named DEF Deliver, MayStart, Goto
    <2>2. CommandSteps'
      BY <1>1, <2>1, Named DEF CommandSteps, CommandStep
    <2>3. pc'["main"] # "connect"
      BY <1>1, <2>1, Named DEF TypeInv, Connecting
    <2> QED BY <1>1, <2>1, <2>2, <2>3 DEF ConnectsAsRead, GoesOn, WillReport
  <1>7. ASSUME NEW r \in JobRun, ReportTask(r)
        PROVE  CommandSteps' /\ ConnectsAsRead' /\ GoesOn'
    <2>1. connected /\ pc' = [pc EXCEPT ![r] = "report"]
      BY <1>7 DEF ReportTask, MayStart, Goto
    <2>2. CommandSteps'
      BY <1>1, <2>1, Named DEF CommandSteps, CommandStep, JobSteps
    <2>3. pc'["main"] # "connect" /\ WillReport(r)'
      BY <1>1, <2>1, Named DEF TypeInv, Connecting, WillReport
    <2> QED BY <2>2, <2>3, Named DEF ConnectsAsRead, GoesOn
  <1> QED BY <1>1, <1>2, <1>3, <1>4, <1>5, <1>6, <1>7, Unfaulted DEF Next, Start

(* Without a fault, with commands and runs of the report job that overlap  *)
(* as they like, an enabled agent at rest has its report job, even after a *)
(* stale save.  (An agent.settings that saves an enabling back is not one  *)
(* of them: it adds no job.)                                               *)
THEOREM CommandsReport == CommandsOnly /\ Spec => []EnabledReports
  <1> SUFFICES ASSUME CommandsOnly PROVE Spec => []EnabledReports
    OBVIOUS
  <1>1. Init => CommandsInv
    <2>1. Init => CommandSteps /\ ConnectsAsRead
      BY Named DEF Init, CommandSteps, CommandStep, JobSteps,
         ConnectsAsRead
    <2>2. Init => WillReport("main") /\ "main" \in Actor
      BY Named DEF Init, WillReport
    <2> QED BY <2>1, <2>2, TypeInit, SettledInit DEF CommandsInv, GoesOn
  <1>2. CommandsInv /\ [Next]_vars => CommandsInv'
    BY TypeOKStep, HandledStep, ConnectingStep, SettledStep, CommandsStep
    DEF CommandsInv, TypeInv
  <1>3. CommandsInv => EnabledReports
    <2> SUFFICES ASSUME CommandsInv, connected, Active = {}, config.enabled
                 PROVE  handle = "scheduled"
      BY DEF EnabledReports
    <2>1. \A a \in Actor : pc[a] \in {"idle", "reconnect"}
      BY DEF Active
    <2>2. \A a \in Actor : pc[a] # "reconnect"
      BY <2>1, ConstantsAssumption
      DEF CommandsInv, CommandSteps, CommandStep, JobSteps, Actor
    <2> QED BY <2>1, <2>2 DEF CommandsInv, GoesOn, WillReport
  <1> QED BY <1>1, <1>2, <1>3, PTL DEF Spec

-----------------------------------------------------------------------------
(* A disabled agent is quiet, while goroutines do not overlap.             *)

Late == excuse \cap {"late connection", "new configuration"} # {}

(* A job that a.ReportJob names belongs to an agent that is enabled in     *)
(* memory, and in the file unless a new configuration is about to save it. *)
JobEnabled ==
    handle = "scheduled" =>
        /\ config.enabled
        /\ ini.enabled \/ pc["newconfig"] \in {"ansible", "load", "save"}

(* What each goroutine that is at work relies on.                          *)
MainWaits(a) ==
    a = "main" =>
        /\ pc[a] # "idle" => handle # "scheduled"
        /\ pc[a] \notin {"idle", "boot"} => config.enabled = ini.enabled
        /\ pc[a] \notin {"idle", "boot", "connect", "reconnect"} =>
              config.enabled

ReportsEnabled(a) ==
    pc[a] \notin {"idle", "reconnect"} =>
        /\ a \in JobRun => config.enabled /\ ini.enabled
        /\ a \in Enabler =>
              config.enabled /\ ini.enabled /\ handle # "scheduled"

NothingToReplace(a) ==
    /\ a = "js" /\ pc[a] \in {"set", "save"} => handle # "scheduled"
    /\ pc[a] = "add" => handle # "scheduled"

SavesEnabled(a) ==
    /\ a # "js" /\ pc[a] \in {"save", "remoteSave"} =>
          cfg[a].enabled = config.enabled
    /\ pc[a] = "raise" => cfg[a].enabled = ini.enabled

NoScheduler(a) ==
    a \in {"settings", "profiles"} => pc[a] \notin {"remove", "add"}

Relies(a) ==
    /\ MainWaits(a) /\ ReportsEnabled(a) /\ NothingToReplace(a)
    /\ SavesEnabled(a) /\ NoScheduler(a)

JobInv == ~Late => ~orphan /\ JobEnabled /\ \A a \in Actor : Relies(a)

(* No other goroutine is at work: the consumer may be acknowledging.       *)
OthersQuiet(a) ==
    \A b \in Actor \ {a} : ~Writer(b) /\ (b = "main" => pc[b] = "idle")

(* Such a goroutine relies on nothing.                                     *)
LEMMA JobByOne ==
    ASSUME NEW a \in Actor, OthersQuiet(a)',
           ~Late' => ~orphan' /\ JobEnabled' /\ Relies(a)'
    PROVE  JobInv'
  <1>1. ASSUME NEW b \in Actor \ {a} PROVE Relies(b)'
    <2>1. \/ pc'[b] = "idle" \/ (b = "js" /\ pc'[b] = "ack")
          \/ b # "main" /\ pc'[b] = "reconnect"
      BY DEF OthersQuiet, Writer
    <2>2. MainWaits(b)'
      BY <2>1, Named DEF MainWaits
    <2>3. ReportsEnabled(b)'
      BY <2>1, Named DEF ReportsEnabled
    <2>4. NothingToReplace(b)' /\ SavesEnabled(b)' /\ NoScheduler(b)'
      BY <2>1 DEF NothingToReplace, SavesEnabled, NoScheduler
    <2> QED BY <2>2, <2>3, <2>4 DEF Relies
  <1> QED BY <1>1 DEF JobInv

LEMMA JobByActor ==
    ASSUME NEW a \in Actor, OthersQuiet(a),
           \A b \in Actor \ {a} : pc'[b] = pc[b],
           ~Late' => ~orphan' /\ JobEnabled' /\ Relies(a)'
    PROVE  JobInv'
  <1>1. OthersQuiet(a)'
    BY DEF OthersQuiet, Writer
  <1> QED BY <1>1, JobByOne

LEMMA QuietWhileWriting ==
    ASSUME TypeInv, Alone, NEW a \in Actor, Writer(a)
    PROVE  OthersQuiet(a)
  <1>1. \A b \in Actor \ {a} : ~Writer(b)
    BY DEF Alone
  <1>2. a # "main" => pc["main"] \in {"idle", "reconnect"}
    BY <1>1, Named DEF Writer
  <1>3. a # "main" => pc["main"] # "reconnect"
    BY DEF TypeInv, Connecting, Writer
  <1> QED BY <1>1, <1>2, <1>3 DEF OthersQuiet

LEMMA QuietAtStart ==
    ASSUME MaxOverlap = 1, TypeInv, NEW a \in Actor, MayStart(a)
    PROVE  OthersQuiet(a)
  <1>1. \A b \in Actor : pc[b] \in {"idle", "reconnect"}
    BY NoneActive
  <1>2. pc["main"] # "reconnect"
    BY DEF TypeInv, Connecting, MayStart
  <1> QED BY <1>1, <1>2, Named DEF OthersQuiet, Writer

LEMMA DiesJob == ProcessDies => JobInv'
  <1> SUFFICES ASSUME ProcessDies PROVE JobInv'
    OBVIOUS
  <1>1. handle' # "scheduled" /\ ~orphan'
    BY DEF ProcessDies
  <1>2. \A a \in Actor : pc'[a] = (IF a = "main" THEN "boot" ELSE "idle")
    BY DEF ProcessDies
  <1>3. JobEnabled'
    BY <1>1 DEF JobEnabled
  <1>4. ASSUME NEW a \in Actor PROVE Relies(a)'
    BY <1>1, <1>2, Named DEF Relies, MainWaits, ReportsEnabled,
       NothingToReplace, SavesEnabled, NoScheduler
  <1> QED BY <1>1, <1>3, <1>4 DEF JobInv

(* A step that leaves the job, the file and Enabled alone, and from which  *)
(* its goroutine goes on to nothing that relies on more.                   *)
LEMMA JobUnconcerned ==
    ASSUME JobInv, NEW a \in Actor, OthersQuiet(a),
           \A b \in Actor \ {a} : pc'[b] = pc[b],
           UNCHANGED <<handle, orphan>>,
           config'.enabled = config.enabled, ini'.enabled = ini.enabled,
           Late => Late', ~Late' => Relies(a)',
           a = "newconfig" /\ pc[a] \in {"ansible", "load", "save"} =>
              pc'[a] \in {"ansible", "load", "save"}
    PROVE  JobInv'
  <1>1. pc'["newconfig"] = pc["newconfig"] \/ a = "newconfig"
    BY Named
  <1>2. ~Late' => ~orphan' /\ JobEnabled'
    BY <1>1 DEF JobInv, JobEnabled
  <1> QED BY <1>2, JobByActor

LEMMA JobByReport ==
    ASSUME TypeInv, Alone, JobInv, NEW a \in Actor, ~ProcessDies,
           \/ ReportBuilt(a) \/ ReportError(a) \/ NoAddress(a)
           \/ Sent(a) \/ NotSent(a)
           \/ GetRemoteConfig(a) \/ NoRemoteConfig(a)
           \/ SetRestartRequiredFlag(a) \/ Load(a)
    PROVE  JobInv'
  <1>1. Step(a)
    BY DEF Step
  <1>2. /\ config'.enabled = config.enabled /\ OthersQuiet(a)
        /\ \A b \in Actor \ {a} : pc'[b] = pc[b]
    BY <1>1, OneMoves, StepEnabled, QuietWhileWriting
  <1>3. UNCHANGED <<handle, orphan, ini>> /\ excuse \subseteq excuse'
    BY DEF ReportBuilt, ReportError, NoAddress, Sent, NotSent, NilReport,
       GetRemoteConfig, NoRemoteConfig, SetRestartRequiredFlag, Load
  <1>4. Late => Late'
    BY <1>3 DEF Late
  <1>5. pc \in [Actor -> Steps] /\ cfg \in [Actor -> Ini] /\ pc["js"] \in JsSteps
    BY DEF TypeInv, TypeOK, Handled
  <1>6. pc[a] \in {"report", "send", "remote", "flag", "load"}
    BY DEF ReportBuilt, ReportError, NoAddress, Sent, NotSent,
       GetRemoteConfig, NoRemoteConfig, SetRestartRequiredFlag, Load
  <1>7. pc'[a] = "raise" => cfg'[a].enabled = ini'.enabled
    <2>1. [ini EXCEPT !.restart = TRUE].enabled = ini.enabled
      BY Fields DEF TypeInv, TypeOK
    <2>2. CASE NoAddress(a) \/ SetRestartRequiredFlag(a)
      <3>1. cfg'[a] = [ini EXCEPT !.restart = TRUE] /\ ini' = ini
        BY <1>5, <2>2 DEF NoAddress, SetRestartRequiredFlag, LoadFlag
      <3> QED BY <2>1, <3>1
    <2>3. CASE ~(NoAddress(a) \/ SetRestartRequiredFlag(a))
      BY <1>5, <2>3 DEF ReportBuilt, ReportError, AfterReport, Sent, NotSent,
         GetRemoteConfig, NoRemoteConfig, Load, Goto
    <2> QED BY <2>2, <2>3
  <1>8. pc'[a] \in {"save", "remoteSave"} =>
            cfg'[a].enabled = config'.enabled
    <2>1. Loaded(config).enabled = config.enabled
      BY Fields DEF TypeInv, TypeOK, Loaded
    <2>2. CASE GetRemoteConfig(a) \/ Load(a)
      <3>1. cfg'[a] = Loaded(config) /\ config' = config
        BY <1>5, <2>2 DEF GetRemoteConfig, Load
      <3> QED BY <2>1, <3>1
    <2>3. CASE ~(GetRemoteConfig(a) \/ Load(a))
      BY <1>5, <2>3 DEF ReportBuilt, ReportError, AfterReport, NoAddress,
         Sent, NotSent, NoRemoteConfig, SetRestartRequiredFlag, Goto
    <2> QED BY <2>2, <2>3
  <1>9. pc'[a] \in {"idle", "ack", "send", "raise", "add", "remote", "load",
                    "remoteSave", "save"}
        /\ (pc'[a] = "add" => a \in Enabler)
    BY <1>5 DEF ReportBuilt, ReportError, AfterReport, NoAddress, Sent, NotSent,
       GetRemoteConfig, NoRemoteConfig, SetRestartRequiredFlag, Load, Goto
  <1>10. a = "js" => pc'[a] # "save"
    BY <1>5, <1>6, Named DEF JsSteps, ReportBuilt, ReportError, AfterReport,
       NoAddress, Sent, NotSent, GetRemoteConfig, NoRemoteConfig,
       SetRestartRequiredFlag, Load, Goto
  <1>11. a = "newconfig" /\ pc[a] \in {"ansible", "load", "save"} =>
            pc'[a] \in {"ansible", "load", "save"}
    BY <1>5, Named DEF ReportBuilt, ReportError, NoAddress, Sent, NotSent,
       GetRemoteConfig, NoRemoteConfig, SetRestartRequiredFlag, Load, Goto
  <1>12. ASSUME ~Late' PROVE Relies(a)'
    <2>1. Relies(a)
      BY <1>4, <1>12 DEF JobInv
    <2>2. MainWaits(a)'
      BY <1>2, <1>3, <1>6, <2>1 DEF Relies, MainWaits
    <2>3. ReportsEnabled(a)'
      BY <1>2, <1>3, <1>6, <2>1 DEF Relies, ReportsEnabled
    <2>4. NothingToReplace(a)'
      BY <1>3, <1>6, <1>9, <1>10, <2>1, Named DEF Relies, ReportsEnabled,
         NothingToReplace
    <2>5. SavesEnabled(a)' /\ NoScheduler(a)'
      BY <1>7, <1>8, <1>9, Named DEF SavesEnabled, NoScheduler
    <2> QED BY <2>2, <2>3, <2>4, <2>5 DEF Relies
  <1> QED BY <1>2, <1>3, <1>4, <1>11, <1>12, JobUnconcerned

LEMMA JobBySave ==
    ASSUME TypeInv, Alone, JobInv, NEW a \in Actor,
           Save(a) \/ SaveRemoteConfig(a)
    PROVE  JobInv'
  <1>1. Step(a) /\ Writer(a) /\ (ProcessDies => JobInv')
    BY DiesJob DEF Step, Writer, Save, SaveRemoteConfig
  <1>2. CASE ~ProcessDies
    <2>1. /\ config'.enabled = config.enabled /\ OthersQuiet(a)
          /\ \A b \in Actor \ {a} : pc'[b] = pc[b]
      BY <1>1, <1>2, OneMoves, StepEnabled, QuietWhileWriting
    <2>2. UNCHANGED <<handle, orphan>> /\ excuse \subseteq excuse'
          /\ ini' = cfg[a]
      BY DEF Save, SaveRemoteConfig, MayBeStale, SaveTo
    <2>3. Late => Late'
      BY <2>2 DEF Late
    <2>4. pc'[a] \in {"load", "idle", "flag", "remove", "add"}
          /\ (pc'[a] = "remove" => a \in JobRun)
          /\ (pc'[a] = "add" => a = "main")
          /\ pc[a] \in {"save", "remoteSave"} /\ (pc[a] = "save" => a # "js")
      BY DEF Save, SaveRemoteConfig, AfterSave, Goto, TypeInv, TypeOK
    <2>5. ASSUME ~Late' PROVE ~orphan' /\ JobEnabled' /\ Relies(a)'
      <3>1. ~orphan /\ JobEnabled /\ Relies(a)
        BY <2>3, <2>5 DEF JobInv
      <3>2. a # "js"
        BY <2>4 DEF TypeInv, Handled, JsSteps
      <3>3. ini'.enabled = config'.enabled
        BY <2>1, <2>2, <2>4, <3>1, <3>2 DEF Relies, SavesEnabled
      <3>4. JobEnabled'
        BY <2>1, <2>2, <3>1, <3>3 DEF JobEnabled
      <3>5. MainWaits(a)' /\ ReportsEnabled(a)'
        BY <2>1, <2>2, <2>4, <3>1, <3>3 DEF Relies, MainWaits, ReportsEnabled
      <3>6. NothingToReplace(a)' /\ SavesEnabled(a)' /\ NoScheduler(a)'
        BY <2>2, <2>4, <3>1, Named DEF Relies, MainWaits, NothingToReplace,
           SavesEnabled, NoScheduler
      <3> QED BY <2>2, <3>1, <3>4, <3>5, <3>6 DEF Relies
    <2> QED BY <2>1, <2>5, JobByActor
  <1> QED BY <1>1, <1>2

LEMMA JobByFlag ==
    ASSUME TypeInv, Alone, JobInv, NEW a \in Actor, ~ProcessDies,
           SaveFlag(a) \/ LoadFails(a)
    PROVE  JobInv'
  <1>1. Step(a)
    BY DEF Step
  <1>2. /\ config'.enabled = config.enabled /\ OthersQuiet(a)
        /\ \A b \in Actor \ {a} : pc'[b] = pc[b]
    BY <1>1, OneMoves, StepEnabled, QuietWhileWriting
  <1>3. UNCHANGED <<handle, orphan>> /\ excuse \subseteq excuse'
    BY DEF SaveFlag, LoadFails, MayBeStale
  <1>4. Late => Late'
    BY <1>3 DEF Late
  <1>5. pc'[a] \in {"idle", "ack", "reschedule", "panic"}
        /\ (a = "main" => pc'[a] = "idle")
        /\ pc[a] \in {"raise", "flag", "load"}
        /\ (pc[a] = "load" => a = "settings")
    BY Named
    DEF SaveFlag, LoadFails, AfterFlag, AfterReport, Goto, TypeInv, TypeOK
  <1>6. ASSUME ~Late PROVE ini'.enabled = ini.enabled
    <2>1. Relies(a)
      BY <1>6 DEF JobInv
    <2> QED BY <2>1 DEF SaveFlag, LoadFails, SaveTo, Relies, SavesEnabled
  <1>7. ASSUME ~Late' PROVE Relies(a)'
    <2>1. Relies(a)
      BY <1>4, <1>7 DEF JobInv
    <2>2. ReportsEnabled(a)'
      BY <1>2, <1>3, <1>4, <1>5, <1>6, <1>7, <2>1 DEF Relies, ReportsEnabled
    <2>3. MainWaits(a)' /\ NothingToReplace(a)' /\ SavesEnabled(a)'
          /\ NoScheduler(a)'
      BY <1>5 DEF MainWaits, NothingToReplace, SavesEnabled, NoScheduler
    <2> QED BY <2>2, <2>3 DEF Relies
  <1>8. CASE Late
    BY <1>4, <1>8 DEF JobInv
  <1>9. CASE ~Late
    BY <1>2, <1>3, <1>4, <1>5, <1>6, <1>7, <1>9, Named, JobUnconcerned
  <1> QED BY <1>8, <1>9

LEMMA JobByAdd ==
    ASSUME TypeInv, Alone, JobInv, NEW a \in Actor, ~ProcessDies,
           Add(a) \/ Remove(a)
    PROVE  JobInv'
  <1>1. Step(a)
    BY DEF Step
  <1>2. /\ OthersQuiet(a) /\ \A b \in Actor \ {a} : pc'[b] = pc[b]
    BY <1>1, OneMoves, QuietWhileWriting
  <1>3. UNCHANGED <<config, ini>>
    BY DEF Add, Remove, RemoveReportJob
  <1>4. CASE Add(a)
    <2>1. pc[a] = "add" /\ handle' = "scheduled"
          /\ orphan' = (orphan \/ handle = "scheduled")
          /\ pc'[a] = IF a = "newconfig" THEN "ansible" ELSE "idle"
      BY <1>4 DEF Add, StartReportJob, Goto, TypeInv, TypeOK
    <2>2. Late => Late'
      BY <1>4 DEF Add, Late
    <2>3. a = "newconfig" /\ ~config.enabled => Late'
      BY <1>4 DEF Add, AddedBy, Late
    <2>4. ASSUME ~Late' PROVE ~orphan' /\ JobEnabled' /\ Relies(a)'
      <3>1. ~orphan /\ Relies(a)
        BY <2>2, <2>4 DEF JobInv
      <3>2. ~orphan'
        BY <2>1, <3>1 DEF Relies, NothingToReplace
      <3>3. a \in {"main", "newconfig"} \cup Enabler \cup JobRun
        BY <2>1, <3>1 DEF Relies, NoScheduler, TypeInv, Handled, JsSteps, Actor
      <3>4. config.enabled /\ (a = "newconfig" \/ ini.enabled)
        BY <2>1, <2>3, <2>4, <3>1, <3>3, Named
        DEF Relies, MainWaits, ReportsEnabled
      <3>5. JobEnabled'
        BY <1>3, <2>1, <3>4 DEF JobEnabled
      <3>6. Relies(a)'
        BY <2>1, Named DEF Relies, MainWaits, ReportsEnabled,
           NothingToReplace, SavesEnabled, NoScheduler
      <3> QED BY <3>2, <3>5, <3>6
    <2> QED BY <1>2, <2>4, JobByActor
  <1>5. CASE Remove(a)
    <2>1. pc[a] = "remove" /\ handle' = "removed" /\ pc'[a] = "add"
          /\ UNCHANGED <<orphan, excuse>>
      BY <1>5 DEF Remove, RemoveReportJob, Goto, TypeInv, TypeOK
    <2>2. ASSUME ~Late' PROVE ~orphan' /\ JobEnabled' /\ Relies(a)'
      <3>1. ~orphan /\ Relies(a)
        BY <2>1, <2>2 DEF JobInv, Late
      <3> QED BY <1>3, <2>1, <3>1 DEF JobEnabled, Relies, MainWaits,
            ReportsEnabled, NothingToReplace, SavesEnabled, NoScheduler
    <2> QED BY <1>2, <2>2, JobByActor
  <1> QED BY <1>4, <1>5

LEMMA JobByStart ==
    ASSUME TypeInv, Alone, JobInv, Start
    PROVE  JobInv'
  <1>1. "main" \in Actor /\ pc["main"] \in {"boot", "connect", "reconnect"}
    BY Named DEF Start, Boot, Connect, ConnectFails, StartGivesUp, Reconnect
  <1>2. \A b \in Actor \ {"main"} : pc'[b] = pc[b] /\ pc[b] = "idle"
    BY <1>1 DEF Start, Boot, Connect, ConnectFails, StartGivesUp, Reconnect,
       Goto, TypeInv, TypeOK, Connecting
  <1>3. OthersQuiet("main")
    BY <1>2 DEF OthersQuiet, Writer
  <1>4. UNCHANGED <<handle, orphan>> /\ excuse \subseteq excuse'
    BY DEF Start, Boot, Connect, ConnectFails, StartGivesUp, Reconnect
  <1>5. ini'.enabled = ini.enabled
        /\ config'.enabled = (IF pc["main"] = "boot" THEN ini.enabled
                                ELSE config.enabled)
    <2>1. CASE Boot
      BY <2>1, Fields DEF Boot, TypeInv, TypeOK
    <2>2. CASE Connect \/ ConnectFails \/ StartGivesUp \/ Reconnect
      BY <2>2 DEF Connect, ConnectFails, StartGivesUp, Reconnect
    <2> QED BY <2>1, <2>2 DEF Start
  <1>6. /\ pc'["main"] \in {"connect", "report", "idle", "reconnect", "add"}
        /\ pc'["main"] = "report" => config.enabled /\ pc["main"] = "connect"
        /\ pc'["main"] = "add" =>
              /\ pc["main"] = "reconnect"
              /\ config.enabled \/ "late connection" \in excuse'
    BY <1>1 DEF Start, Boot, Connect, ConnectFails, StartGivesUp, Reconnect,
       Goto, TypeInv, TypeOK
  <1>7. ASSUME ~Late' PROVE ~orphan' /\ JobEnabled' /\ Relies("main")'
    <2>1. ~orphan /\ Relies("main")
      BY <1>1, <1>4, <1>7 DEF JobInv, Late
    <2>2. handle # "scheduled"
      BY <1>1, <2>1 DEF Relies, MainWaits
    <2>3. MainWaits("main")'
      BY <1>1, <1>4, <1>5, <1>6, <1>7, <2>1, <2>2 DEF Relies, MainWaits, Late
    <2>4. Relies("main")'
      BY <1>4, <1>6, <2>2, <2>3, Named DEF Relies, ReportsEnabled,
         NothingToReplace, SavesEnabled, NoScheduler
    <2> QED BY <1>4, <2>1, <2>2, <2>4 DEF JobEnabled
  <1> QED BY <1>1, <1>2, <1>3, <1>7, JobByActor

LEMMA JobByConsumer ==
    ASSUME TypeInv, Settled, Alone, JobInv, ~ProcessDies, Consume
    PROVE  JobInv'
  <1>1. "js" \in Actor /\ pc \in [Actor -> Steps]
    BY Named DEF TypeInv, TypeOK
  <1>2. CASE Read
    <2>1. Writer("js") /\ UNCHANGED <<handle, orphan, ini, excuse>>
      BY <1>2 DEF Read, Writer
    <2>2. OthersQuiet("js")
      BY <1>1, <2>1, QuietWhileWriting
    <2>3. /\ \A b \in Actor \ {"js"} : pc'[b] = pc[b]
          /\ pc'["js"] \in {"report", "set", "remove", "ack"}
          /\ pc'["js"] = "set" => ~ini.enabled
      BY <1>1, <1>2 DEF Read, Goto
    <2>4. config'.enabled \in {config.enabled, ini.enabled}
      BY <1>2, Fields DEF Read, ReadConfig, TypeInv, TypeOK
    <2>5. ASSUME ~Late' PROVE ~orphan' /\ JobEnabled' /\ Relies("js")'
      <3>1. ~orphan /\ JobEnabled
        BY <2>1, <2>5 DEF JobInv, Late
      <3>2. pc["newconfig"] \in {"idle", "reconnect"}
        BY <2>2, Named DEF OthersQuiet, Writer
      <3>3. handle = "scheduled" => config.enabled /\ ini.enabled
        BY <3>1, <3>2 DEF JobEnabled
      <3>4. Relies("js")'
        BY <2>1, <2>3, <3>3, Named DEF Relies, MainWaits, ReportsEnabled,
           NothingToReplace, SavesEnabled, NoScheduler
      <3> QED BY <2>1, <2>4, <3>1, <3>3, <3>4 DEF JobEnabled
    <2> QED BY <1>1, <2>2, <2>3, <2>5, JobByActor
  <1>3. CASE RemoveForDisable \/ SetEnabled \/ SetFails
    <2>1. Writer("js") /\ UNCHANGED <<orphan, ini>> /\ excuse \subseteq excuse'
      BY <1>3 DEF RemoveForDisable, RemoveReportJob, SetEnabled, SetFails,
         Writer
    <2>2. OthersQuiet("js")
      BY <1>1, <2>1, QuietWhileWriting
    <2>3. /\ \A b \in Actor \ {"js"} : pc'[b] = pc[b]
          /\ pc'["js"] \in {"set", "save", "giveUp"}
          /\ \/ handle' = "removed"
             \/ pc["js"] = "set" /\ handle' = handle
      BY <1>1, <1>3 DEF RemoveForDisable, RemoveReportJob, SetEnabled,
         SetFails, Goto
    <2>4. ASSUME ~Late' PROVE ~orphan' /\ JobEnabled' /\ Relies("js")'
      <3>1. ~orphan /\ Relies("js")
        BY <1>1, <2>1, <2>4 DEF JobInv, Late
      <3>2. handle' # "scheduled"
        BY <2>3, <3>1 DEF Relies, NothingToReplace
      <3>3. Relies("js")'
        BY <2>3, <3>2, Named DEF Relies, MainWaits, ReportsEnabled,
           NothingToReplace, SavesEnabled, NoScheduler
      <3> QED BY <2>1, <3>1, <3>2, <3>3 DEF JobEnabled
    <2> QED BY <1>1, <2>2, <2>3, <2>4, JobByActor
  <1>4. CASE ReadFails
    <2>1. /\ Writer("js") /\ UNCHANGED <<handle, orphan, ini, config, excuse>>
          /\ \A b \in Actor \ {"js"} : pc'[b] = pc[b]
          /\ pc'["js"] \in {"report", "giveUp"}
      BY <1>1, <1>4 DEF ReadFails, Writer, Goto
    <2>2. OthersQuiet("js")
      BY <1>1, <2>1, QuietWhileWriting
    <2>3. Relies("js")'
      BY <2>1, Named DEF Relies, MainWaits, ReportsEnabled, NothingToReplace,
         SavesEnabled, NoScheduler
    <2>4. Late => Late'
      BY <2>1 DEF Late
    <2> QED BY <1>1, <2>1, <2>2, <2>3, <2>4, JobUnconcerned
  <1>5. CASE SaveEnabled
    <2>1. /\ UNCHANGED <<handle, orphan, config>> /\ pc["js"] = "save"
          /\ ini' = cfg["js"] /\ excuse' = excuse \ {"stale save", "unsaved"}
      BY <1>5 DEF SaveEnabled, SaveTo
    <2>2. OthersQuiet("js")
      BY <1>1, <2>1, QuietWhileWriting DEF Writer
    <2>3. Late <=> Late'
      BY <2>1 DEF Late
    <2>4. config'.enabled = (command = "enable")
          /\ ini'.enabled = (command = "enable")
      BY <2>1 DEF Settled
    <2>5. ASSUME ~Late' PROVE ~orphan' /\ JobEnabled' /\ handle' # "scheduled"
      <3>1. ~orphan /\ Relies("js")
        BY <1>1, <2>3, <2>5 DEF JobInv
      <3> QED BY <2>1, <3>1 DEF Relies, NothingToReplace, JobEnabled
    <2>6. CASE command = "enable"
      <3>1. PICK e \in Enabler :
               pc' = [pc EXCEPT !["js"] = "ack", ![e] = "report"]
        BY <1>5, <2>6 DEF SaveEnabled
      <3>2. e \in Actor /\ e # "js" /\ e # "main" /\ e \notin JobRun
            /\ pc'[e] = "report" /\ pc'["js"] = "ack"
            /\ \A b \in Actor \ {e, "js"} : pc'[b] = pc[b]
        BY <1>1, <3>1, Named
      <3>3. OthersQuiet(e)'
        BY <2>2, <3>2, Named DEF OthersQuiet, Writer
      <3>4. ~Late' => Relies(e)'
        BY <2>4, <2>5, <2>6, <3>2 DEF Relies, MainWaits, ReportsEnabled,
           NothingToReplace, SavesEnabled, NoScheduler
      <3> QED BY <2>5, <3>2, <3>3, <3>4, JobByOne
    <2>7. CASE command # "enable"
      <3>1. pc'["js"] = "ack" /\ \A b \in Actor \ {"js"} : pc'[b] = pc[b]
        BY <1>1, <1>5, <2>7 DEF SaveEnabled, Goto
      <3>2. Relies("js")'
        BY <3>1, Named DEF Relies, MainWaits, ReportsEnabled,
           NothingToReplace, SavesEnabled, NoScheduler
      <3> QED BY <1>1, <2>2, <2>5, <3>1, <3>2, JobByActor
    <2> QED BY <2>6, <2>7
  <1>6. CASE Ack
    <2>1. /\ UNCHANGED <<config, ini, cfg, handle, orphan, excuse>>
          /\ \A b \in Actor \ {"js"} : pc'[b] = pc[b]
          /\ pc'["js"] \in {"report", "idle"}
      BY <1>1, <1>6 DEF Ack, Goto
    <2>2. Relies("js")'
      BY <2>1, Named DEF Relies, MainWaits, ReportsEnabled, NothingToReplace,
         SavesEnabled, NoScheduler
    <2>3. \A b \in Actor \ {"js"} : Relies(b) => Relies(b)'
      BY <2>1 DEF Relies, MainWaits, ReportsEnabled, NothingToReplace,
         SavesEnabled, NoScheduler
    <2>4. JobEnabled => JobEnabled'
      BY <2>1, Named DEF JobEnabled
    <2> QED BY <2>1, <2>2, <2>3, <2>4 DEF JobInv, Late
  <1> QED BY <1>2, <1>3, <1>4, <1>5, <1>6 DEF Consume

(* A goroutine starts when no other is active.                             *)
LEMMA JobByNew ==
    ASSUME MaxOverlap = 1, TypeInv, JobInv,
           \/ \E m \in Command : Deliver(m)
           \/ \E r \in JobRun : ReportTask(r)
           \/ NewConfig \/ AgentSettings \/ ProfilesRequestFails
    PROVE  JobInv'
  <1>1. pc \in [Actor -> Steps]
    BY DEF TypeInv, TypeOK
  <1>2. UNCHANGED <<config, ini, handle, orphan, excuse>> /\ (Late <=> Late')
    BY DEF Deliver, ReportTask, NewConfig, AgentSettings, ProfilesRequestFails,
       Late
  <1>3. ASSUME NEW a \in Actor, MayStart(a), ~Late' => Relies(a)',
               \A b \in Actor \ {a} : pc'[b] = pc[b]
        PROVE  JobInv'
    <2>1. OthersQuiet(a) /\ pc[a] = "idle"
      BY <1>3, QuietAtStart DEF MayStart
    <2> QED BY <1>2, <1>3, <2>1, JobUnconcerned
  <1> USE Named DEF Goto
  <1>4. ASSUME NEW a \in Actor,
               pc'[a] \in {"read", "flag", "reschedule", "load"},
               a \notin {"main"} \cup Enabler \cup JobRun
        PROVE  Relies(a)'
    BY <1>4 DEF Relies, MainWaits, ReportsEnabled, NothingToReplace,
       SavesEnabled, NoScheduler
  <1>5. ASSUME NEW m \in Command, Deliver(m) PROVE JobInv'
    BY <1>1, <1>3, <1>4, <1>5 DEF Deliver
  <1>6. ASSUME NEW r \in JobRun, ReportTask(r) PROVE JobInv'
    <2>1. r \in Actor /\ MayStart(r) /\ pc'[r] = "report"
          /\ \A b \in Actor \ {r} : pc'[b] = pc[b]
      BY <1>1, <1>6 DEF ReportTask
    <2>2. ASSUME ~Late' PROVE Relies(r)'
      <3>1. handle = "scheduled" /\ JobEnabled
        BY <1>2, <1>6, <2>2 DEF ReportTask, JobInv
      <3>2. pc["newconfig"] \in {"idle", "reconnect"}
        BY <2>1, NoneActive
      <3>3. config.enabled /\ ini.enabled
        BY <3>1, <3>2 DEF JobEnabled
      <3> QED BY <1>2, <2>1, <3>3 DEF Relies, MainWaits, ReportsEnabled,
            NothingToReplace, SavesEnabled, NoScheduler
    <2> QED BY <1>3, <2>1, <2>2
  <1>7. CASE NewConfig
    BY <1>1, <1>3, <1>4, <1>7 DEF NewConfig
  <1>8. CASE AgentSettings
    BY <1>1, <1>3, <1>4, <1>8 DEF AgentSettings
  <1>9. CASE ProfilesRequestFails
    BY <1>1, <1>3, <1>4, <1>9 DEF ProfilesRequestFails
  <1> QED BY <1>5, <1>6, <1>7, <1>8, <1>9

LEMMA JobByConfiguration ==
    ASSUME TypeInv, Alone, JobInv, ~ProcessDies,
           Reschedule \/ RescheduleAnsible
    PROVE  JobInv'
  <1>1. "newconfig" \in Actor /\ Writer("newconfig")
        /\ pc["newconfig"] \in {"reschedule", "ansible"}
        /\ pc'["newconfig"] \in {"remove", "ansible", "load"}
        /\ (pc["newconfig"] = "ansible" => pc'["newconfig"] = "load")
        /\ \A b \in Actor \ {"newconfig"} : pc'[b] = pc[b]
    BY Named DEF Reschedule, RescheduleAnsible, Writer, Goto, TypeInv, TypeOK
  <1>2. OthersQuiet("newconfig")
    BY <1>1, QuietWhileWriting
  <1>3. config'.enabled = config.enabled
    BY SameEnabled DEF Reschedule, RescheduleAnsible, TypeInv, Frequency
  <1>4. UNCHANGED <<handle, orphan, ini>> /\ (Late <=> Late')
    BY DEF Reschedule, RescheduleAnsible, Late
  <1>5. Relies("newconfig")'
    BY <1>1, Named DEF Relies, MainWaits, ReportsEnabled, NothingToReplace,
       SavesEnabled, NoScheduler
  <1> QED BY <1>1, <1>2, <1>3, <1>4, <1>5, JobUnconcerned

LEMMA JobStep == MaxOverlap = 1 /\ SerialInv /\ JobInv /\ [Next]_vars => JobInv'
  <1> SUFFICES ASSUME MaxOverlap = 1, SerialInv, JobInv, [Next]_vars,
                      ~ProcessDies
      PROVE  JobInv'
    BY DiesJob
  <1> USE DEF SerialInv
  <1>1. CASE UNCHANGED vars
    BY <1>1 DEF vars, JobInv, Late, JobEnabled, Relies, MainWaits,
       ReportsEnabled, NothingToReplace, SavesEnabled, NoScheduler
  <1>2. ASSUME NEW a \in Actor, Step(a) PROVE JobInv'
    BY <1>2, JobByReport, JobBySave, JobByFlag, JobByAdd DEF Step
  <1>3. CASE ProfilesPanic
    <2>1. "profiles" \in Actor /\ Writer("profiles")
          /\ pc["profiles"] = "panic" /\ pc'["profiles"] = "idle"
          /\ \A b \in Actor \ {"profiles"} : pc'[b] = pc[b]
      BY <1>3, Named DEF ProfilesPanic, Writer, Goto, TypeInv, TypeOK
    <2>2. OthersQuiet("profiles")
      BY <2>1, QuietWhileWriting
    <2>3. UNCHANGED <<handle, orphan, config, ini>> /\ (Late <=> Late')
      BY <1>3 DEF ProfilesPanic, Late
    <2>4. Relies("profiles")'
      BY <2>1, Named DEF Relies, MainWaits, ReportsEnabled, NothingToReplace,
         SavesEnabled, NoScheduler
    <2> QED BY <2>1, <2>2, <2>3, <2>4, Named, JobUnconcerned
  <1>4. ~Crash
    BY DEF Crash
  <1> QED BY <1>1, <1>2, <1>3, <1>4, JobByStart, JobByConsumer, JobByNew,
        JobByConfiguration DEF Next

LEMMA JobInit == Init => JobInv
  <1> SUFFICES ASSUME Init PROVE JobInv
    OBVIOUS
  <1>1. handle # "scheduled" /\ ~orphan
        /\ \A a \in Actor : pc[a] = IF a = "main" THEN "boot" ELSE "idle"
    BY DEF Init
  <1>2. \A a \in Actor : Relies(a)
    BY <1>1, Named DEF Relies, MainWaits, ReportsEnabled, NothingToReplace,
       SavesEnabled, NoScheduler
  <1> QED BY <1>1, <1>2 DEF JobInv, JobEnabled

(* If goroutines do not overlap, a disabled agent at rest has no report    *)
(* job, whatever crashed, failed or came twice, unless it connected late,  *)
(* took a new configuration or could not save an enabling.                 *)
THEOREM SerialDisabledStaysQuiet ==
    MaxOverlap = 1 /\ Spec => []DisabledStaysQuiet
  <1> SUFFICES ASSUME MaxOverlap = 1 PROVE Spec => []DisabledStaysQuiet
    OBVIOUS
  <1>1. JobInv /\ EnabledPersisted => DisabledStaysQuiet
    BY Named DEF JobInv, JobEnabled, Late, EnabledPersisted,
       DisabledStaysQuiet, Quiet
  <1>2. SerialInv /\ JobInv /\ [Next]_vars => JobInv'
    BY JobStep
  <1>3. Spec => []SerialInv /\ []EnabledPersisted
    BY Serial, SerialEnabledPersisted, PTL
  <1> QED BY JobInit, <1>1, <1>2, <1>3, PTL DEF Spec

=============================================================================
