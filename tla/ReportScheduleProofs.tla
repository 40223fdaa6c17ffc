------------------------ MODULE ReportScheduleProofs ------------------------
(***************************************************************************)
(* Proofs about ReportSchedule, on every set of platforms and messages,    *)
(* for any number of report jobs, enablings, messages and faults.  The     *)
(* last two theorems are about an agent whose goroutines do not overlap    *)
(* (MaxOverlap = 1); the first two are about any overlap.                  *)
(***************************************************************************)
EXTENDS ReportSchedule, TLAPS, FiniteSetTheorems

-----------------------------------------------------------------------------
(* Types.                                                                  *)

JsSteps == {"idle", "read", "set", "save", "remove", "report", "raise", "send",
            "ack", "giveUp"}

(* What the consumer does, and for which command: the report that follows  *)
(* a certificate is made without one.                                      *)
Handled ==
    /\ pc["js"] \in JsSteps
    /\ command = "none" => pc["js"] \in {"idle", "report", "raise"}
    /\ pc["js"] \in {"report", "raise", "send"} => command \in {"report", "none"}

(* Nothing else runs before the agent is connected.                        *)
Connecting ==
    /\ pc["main"] \in {"boot", "connect", "reconnect"} => ~connected
    /\ ~connected => \A a \in Actor \ {"main"} : pc[a] = "idle"

TypeInv == TypeOK /\ Handled /\ Connecting

(* The goroutines with a name of their own are told apart from the others. *)
LEMMA Named ==
    /\ {"main", "js", "newconfig", "settings", "profiles"} \subseteq Actor
    /\ Enabler \subseteq Actor /\ JobRun \subseteq Actor
    /\ {"main", "js", "newconfig", "settings", "profiles"}
          \cap (Enabler \cup JobRun) = {}
    /\ Enabler \cap JobRun = {}
    /\ MaxMessages \in Nat /\ MaxFaults \in Nat
    /\ 0 \in 0 .. MaxMessages /\ 0 \in 0 .. MaxFaults
  BY ConstantsAssumption DEF ConstantsAssumption, Actor

(* What the code stores in the configuration, and in the file.             *)
LEMMA Records ==
    ASSUME NEW c \in Config, NEW i \in Ini
    PROVE  /\ \A f \in Frequency : [c EXCEPT !.freq = f] \in Config
           /\ \A b \in BOOLEAN : [c EXCEPT !.enabled = b] \in Config
           /\ [enabled |-> i.enabled, freq |-> i.freq] \in Config
           /\ [enabled |-> i.enabled, freq |-> "retry"] \in Config
           /\ [i EXCEPT !.enabled = c.enabled, !.freq = c.freq] \in Ini
           /\ [i EXCEPT !.restart = TRUE] \in Ini
           /\ [i EXCEPT !.freq = "retry", !.restart = FALSE] \in Ini
           /\ i.enabled \in BOOLEAN
           /\ c.freq \in Frequency
           /\ Unread \in Config /\ Blank \in Ini
  BY DEF Config, Ini, Frequency, Unread, Blank

LEMMA FaultType == TypeOK /\ Fault => faults' \in 0 .. MaxFaults
  BY Named DEF TypeOK, Fault

LEMMA SendType ==
    ASSUME TypeOK, NEW m, Send(m)
    PROVE  messages' \in 0 .. MaxMessages
  BY Named DEF TypeOK, Send

LEMMA DiesType ==
    TypeOK /\ ProcessDies /\ faults' \in 0 .. MaxFaults => TypeOK'
  <1> SUFFICES ASSUME TypeOK, ProcessDies, faults' \in 0 .. MaxFaults
      PROVE  TypeOK'
    OBVIOUS
  <1>1. cfg' \in [Actor -> Ini] /\ config' \in Config
    BY Records DEF TypeOK, ProcessDies
  <1>2. pc' \in [Actor -> Steps]
    BY DEF ProcessDies, Steps
  <1>3. unacked' \subseteq Command /\ excuse' \subseteq Excuses
    BY DEF TypeOK, ProcessDies
  <1> QED BY <1>1, <1>2, <1>3 DEF TypeOK, ProcessDies

LEMMA TypeInit == Init => TypeInv
  <1> SUFFICES ASSUME Init PROVE TypeInv
    OBVIOUS
  <1>1. TypeOK
    BY Named DEF Init, TypeOK, Unread, Blank, Config, Ini, Frequency, Steps,
       Excuses
  <1>2. Handled /\ Connecting
    BY Named DEF Init, Handled, Connecting, JsSteps
  <1> QED BY <1>1, <1>2 DEF TypeInv

(* The invariant, step by step.                                            *)
LEMMA TypeOKStep == TypeOK /\ Handled /\ [Next]_vars => TypeOK'
  <1> SUFFICES ASSUME TypeOK /\ Handled, [Next]_vars PROVE TypeOK'
    OBVIOUS
  <1>1. ASSUME NEW a \in Actor, Load(a) PROVE TypeOK'
    BY <1>1, Records DEF Load, Goto, Loaded, TypeOK, Steps
  <1>2. ASSUME NEW a \in Actor, Save(a) PROVE TypeOK'
    BY <1>2, Records DEF Save, Goto, SaveTo, MayBeStale, AfterSave, TypeOK,
       Steps, Excuses
  <1>3. ASSUME NEW a \in Actor, SetRestartRequiredFlag(a) PROVE TypeOK'
    BY <1>3, Records DEF SetRestartRequiredFlag, Goto, LoadFlag, TypeOK, Steps
  <1>4. ASSUME NEW a \in Actor, SaveFlag(a) PROVE TypeOK'
    BY <1>4, Records DEF SaveFlag, Goto, SaveTo, MayBeStale, AfterFlag,
       AfterReport, CertificateReport, TypeOK, Steps, Excuses
  <1>5. ASSUME NEW a \in Actor, LoadFails(a) PROVE TypeOK'
    BY <1>5, FaultType DEF LoadFails, Goto, TypeOK, Steps
  <1>6. ASSUME NEW a \in Actor, Add(a) PROVE TypeOK'
    BY <1>6 DEF Add, Goto, StartReportJob, AddedBy, TypeOK, Steps, Excuses
  <1>7. ASSUME NEW a \in Actor, Remove(a) PROVE TypeOK'
    BY <1>7, DiesType, FaultType DEF Remove, RemoveReportJob, TypeOK, Goto,
       Steps
  <1>8. ASSUME NEW a \in Actor, ReportBuilt(a) PROVE TypeOK'
    BY <1>8 DEF ReportBuilt, Goto, CertificateReport, TypeOK, Steps
  <1>9. ASSUME NEW a \in Actor, ReportError(a) PROVE TypeOK'
    BY <1>9, FaultType DEF ReportError, Goto, AfterReport,
       CertificateReport, NilReport, TypeOK, Steps, Excuses
  <1>10. ASSUME NEW a \in Actor, NoAddress(a) PROVE TypeOK'
    BY <1>10, Records, FaultType DEF NoAddress, Goto, LoadFlag, NilReport,
       TypeOK, Steps, Excuses
  <1>11. ASSUME NEW a \in Actor, Sent(a) PROVE TypeOK'
    <2>1. pc' \in [Actor -> Steps] /\ config' \in Config
      BY <1>11, Records DEF Sent, SetFrequency, Goto, Steps, TypeOK, Frequency
    <2> QED BY <1>11, <2>1, FaultType DEF Sent, TypeOK
  <1>12. ASSUME NEW a \in Actor, NotSent(a) PROVE TypeOK'
    <2>1. pc' \in [Actor -> Steps] /\ config' \in Config
      BY <1>12, Records DEF NotSent, SetFrequency, Goto, Steps, TypeOK,
         Frequency
    <2> QED BY <1>12, <2>1, FaultType DEF NotSent, TypeOK
  <1>13. ASSUME NEW a \in Actor, GetRemoteConfig(a) PROVE TypeOK'
    BY <1>13, Records DEF GetRemoteConfig, Goto, Loaded, TypeOK, Steps
  <1>14. ASSUME NEW a \in Actor, NoRemoteConfig(a) PROVE TypeOK'
    BY <1>14, Records DEF NoRemoteConfig, Goto, SetFrequency, TypeOK, Steps,
       Frequency
  <1>15. ASSUME NEW a \in Actor, SaveRemoteConfig(a) PROVE TypeOK'
    BY <1>15, Records DEF SaveRemoteConfig, Goto, SaveTo, MayBeStale,
       SetFrequency, TypeOK, Steps, Excuses, Frequency
  <1>16. ASSUME NEW m \in Command, Deliver(m) PROVE TypeOK'
    BY <1>16, Named, SendType DEF Deliver, Goto, MayStart, TypeOK, Steps
  <1>17. ASSUME NEW r \in JobRun, ReportTask(r) PROVE TypeOK'
    BY <1>17, Named DEF ReportTask, Goto, MayStart, TypeOK, Steps
  <1>18. CASE Boot
    BY <1>18, Named, Records DEF Boot, Goto, TypeOK, Steps
  <1>19. CASE Connect
    BY <1>19, Named DEF Connect, Goto, TypeOK, Steps
  <1>20. CASE ConnectFails \/ StartGivesUp
    BY <1>20, Named, FaultType DEF ConnectFails, StartGivesUp, Goto, TypeOK, Steps
  <1>21. CASE Reconnect
    BY <1>21, Named DEF Reconnect, Goto, TypeOK, Steps, Excuses
  <1>22. CASE Read
    BY <1>22, Named, Records DEF Read, Goto, ReadConfig, TypeOK, Steps
  <1>23. CASE ReadFails
    BY <1>23, Named, FaultType DEF ReadFails, Goto, TypeOK, Steps
  <1>24. CASE RemoveForDisable
    BY <1>24, DiesType, FaultType DEF RemoveForDisable, RemoveReportJob,
       TypeOK, Goto, Steps
  <1>25. CASE SetEnabled
    BY <1>25, Named, Records DEF SetEnabled, Goto, Loaded, TypeOK, Steps
  <1>26. CASE SetFails
    BY <1>26, Named, Records, FaultType DEF SetFails, Goto, TypeOK, Steps,
       Excuses
  <1>27. CASE SaveEnabled
    BY <1>27, Named, Records DEF SaveEnabled, Goto, SaveTo, TypeOK, Steps,
       Excuses
  <1>28. CASE Ack
    BY <1>28, Named, FaultType DEF Ack, Goto, TypeOK, Steps, Handled
  <1>29. CASE NewConfig
    BY <1>29, Named, SendType DEF NewConfig, Goto, MayStart, TypeOK, Steps
  <1>30. CASE Reschedule
    BY ZenonT(40), <1>30, Named, Records
    DEF Reschedule, Goto, SetFrequency, TypeOK,
       Steps, Frequency
  <1>31. CASE RescheduleAnsible
    BY <1>31, DiesType, FaultType DEF RescheduleAnsible, TypeOK, Goto, Steps
  <1>32. CASE AgentSettings
    BY <1>32, Named, SendType DEF AgentSettings, Goto, MayStart, TypeOK, Steps
  <1>33. CASE ProfilesRequestFails
    BY <1>33, Named, FaultType, SendType DEF ProfilesRequestFails, Goto,
       MayStart, TypeOK, Steps
  <1>34. CASE ProfilesPanic
    BY <1>34, DiesType DEF ProfilesPanic, Goto, TypeOK, Steps
  <1>35. CASE Crash
    BY <1>35, DiesType, FaultType DEF Crash
  <1>36. CASE UNCHANGED vars
    BY <1>36, Named, Records, FaultType, SendType DEF vars, TypeOK, Steps,
       Excuses, Handled, JsSteps, Frequency
  <1> QED BY <1>1, <1>2, <1>3, <1>4, <1>5, <1>6, <1>7, <1>8, <1>9, <1>10,
        <1>11, <1>12, <1>13, <1>14, <1>15, <1>16, <1>17, <1>18, <1>19, <1>20,
        <1>21, <1>22, <1>23, <1>24, <1>25, <1>26, <1>27, <1>28, <1>29, <1>30,
        <1>31, <1>32, <1>33, <1>34, <1>35, <1>36 DEF Next, Step, Start, Consume

LEMMA HandledStep == TypeOK /\ Handled /\ [Next]_vars => Handled'
  <1> SUFFICES ASSUME TypeOK /\ Handled, [Next]_vars PROVE Handled'
    OBVIOUS
  <1>1. ASSUME NEW a \in Actor, Load(a) PROVE Handled'
    BY <1>1, Named DEF Load, Goto, Loaded, TypeOK, Handled, JsSteps
  <1>2. ASSUME NEW a \in Actor, Save(a) PROVE Handled'
    BY <1>2, Named DEF Save, Goto, SaveTo, MayBeStale, AfterSave, TypeOK,
       Handled, JsSteps
  <1>3. ASSUME NEW a \in Actor, SetRestartRequiredFlag(a) PROVE Handled'
    BY <1>3, Named DEF SetRestartRequiredFlag, Goto, LoadFlag, TypeOK,
       Handled, JsSteps
  <1>4. ASSUME NEW a \in Actor, SaveFlag(a) PROVE Handled'
    BY <1>4, Named DEF SaveFlag, Goto, SaveTo, MayBeStale, AfterFlag,
       AfterReport, CertificateReport, TypeOK, Handled, JsSteps
  <1>5. ASSUME NEW a \in Actor, LoadFails(a) PROVE Handled'
    BY <1>5, Named DEF LoadFails, Goto, Fault, TypeOK, Handled, JsSteps
  <1>6. ASSUME NEW a \in Actor, Add(a) PROVE Handled'
    BY <1>6, Named DEF Add, Goto, StartReportJob, AddedBy, TypeOK, Handled,
       JsSteps
  <1>7. ASSUME NEW a \in Actor, Remove(a) PROVE Handled'
    BY <1>7, Named DEF Remove, Goto, RemoveReportJob, ProcessDies, TypeOK,
       Handled, JsSteps
  <1>8. ASSUME NEW a \in Actor, ReportBuilt(a) PROVE Handled'
    BY <1>8, Named DEF ReportBuilt, Goto, CertificateReport, TypeOK,
       Handled, JsSteps
  <1>9. ASSUME NEW a \in Actor, ReportError(a) PROVE Handled'
    BY <1>9, Named DEF ReportError, Goto, AfterReport, CertificateReport,
       NilReport, Fault, TypeOK, Handled, JsSteps
  <1>10. ASSUME NEW a \in Actor, NoAddress(a) PROVE Handled'
    BY <1>10, Named DEF NoAddress, Goto, LoadFlag, NilReport, Fault, TypeOK,
       Handled, JsSteps
  <1>11. ASSUME NEW a \in Actor, Sent(a) PROVE Handled'
    BY <1>11, Named DEF Sent, Goto, SetFrequency, TypeOK, Handled, JsSteps
  <1>12. ASSUME NEW a \in Actor, NotSent(a) PROVE Handled'
    BY <1>12, Named DEF NotSent, Goto, SetFrequency, Fault, TypeOK, Handled,
       JsSteps
  <1>13. ASSUME NEW a \in Actor, GetRemoteConfig(a) PROVE Handled'
    BY <1>13, Named DEF GetRemoteConfig, Goto, Loaded, TypeOK, Handled, JsSteps
  <1>14. ASSUME NEW a \in Actor, NoRemoteConfig(a) PROVE Handled'
    BY <1>14, Named DEF NoRemoteConfig, Goto, SetFrequency, TypeOK, Handled,
       JsSteps
  <1>15. ASSUME NEW a \in Actor, SaveRemoteConfig(a) PROVE Handled'
    BY <1>15, Named DEF SaveRemoteConfig, Goto, SaveTo, MayBeStale,
       SetFrequency, TypeOK, Handled, JsSteps
  <1>16. ASSUME NEW m \in Command, Deliver(m) PROVE Handled'
    BY <1>16, Named DEF Deliver, Command, Goto, MayStart, Send, TypeOK,
       Handled, JsSteps
  <1>17. ASSUME NEW r \in JobRun, ReportTask(r) PROVE Handled'
    BY <1>17, Named DEF ReportTask, Goto, MayStart, TypeOK, Handled, JsSteps
  <1>18. CASE Boot
    BY <1>18, Named DEF Boot, Goto, TypeOK, Handled, JsSteps
  <1>19. CASE Connect
    BY <1>19, Named DEF Connect, Goto, TypeOK, Handled, JsSteps
  <1>20. CASE ConnectFails \/ StartGivesUp
    BY <1>20, Named DEF ConnectFails, StartGivesUp, Goto, Fault, TypeOK, Handled, JsSteps
  <1>21. CASE Reconnect
    BY <1>21, Named DEF Reconnect, Goto, TypeOK, Handled, JsSteps
  <1>22. CASE Read
    BY <1>22, Named DEF Read, Goto, ReadConfig, TypeOK, Handled, JsSteps
  <1>23. CASE ReadFails
    BY <1>23, Named DEF ReadFails, Goto, Fault, TypeOK, Handled, JsSteps
  <1>24. CASE RemoveForDisable
    BY <1>24, Named DEF RemoveForDisable, Goto, RemoveReportJob,
       ProcessDies, TypeOK, Handled, JsSteps
  <1>25. CASE SetEnabled
    BY <1>25, Named DEF SetEnabled, Goto, Loaded, TypeOK, Handled, JsSteps
  <1>26. CASE SetFails
    BY <1>26, Named DEF SetFails, Goto, Fault, TypeOK, Handled, JsSteps
  <1>27. CASE SaveEnabled
    BY <1>27, Named DEF SaveEnabled, Goto, SaveTo, TypeOK, Handled, JsSteps
  <1>28. CASE Ack
    BY <1>28, Named DEF Ack, Goto, Fault, TypeOK, Handled, JsSteps
  <1>29. CASE NewConfig
    BY <1>29, Named DEF NewConfig, Goto, MayStart, Send, TypeOK, Handled,
       JsSteps
  <1>30. CASE Reschedule
    BY <1>30, Named DEF Reschedule, Goto, SetFrequency, TypeOK, Handled,
       JsSteps
  <1>31. CASE RescheduleAnsible
    BY <1>31, Named DEF RescheduleAnsible, Goto, ProcessDies, TypeOK,
       Handled, JsSteps
  <1>32. CASE AgentSettings
    BY <1>32, Named DEF AgentSettings, Goto, MayStart, Send, TypeOK,
       Handled, JsSteps
  <1>33. CASE ProfilesRequestFails
    BY <1>33, Named DEF ProfilesRequestFails, Goto, MayStart, Send, Fault,
       TypeOK, Handled, JsSteps
  <1>34. CASE ProfilesPanic
    BY <1>34, Named DEF ProfilesPanic, Goto, ProcessDies, TypeOK, Handled,
       JsSteps
  <1>35. CASE Crash
    BY <1>35, Named DEF Crash, Goto, Fault, ProcessDies, TypeOK, Handled,
       JsSteps
  <1>36. CASE UNCHANGED vars
    BY <1>36, Named DEF vars, TypeOK, Handled, JsSteps
  <1> QED BY <1>1, <1>2, <1>3, <1>4, <1>5, <1>6, <1>7, <1>8, <1>9, <1>10,
        <1>11, <1>12, <1>13, <1>14, <1>15, <1>16, <1>17, <1>18, <1>19, <1>20,
        <1>21, <1>22, <1>23, <1>24, <1>25, <1>26, <1>27, <1>28, <1>29, <1>30,
        <1>31, <1>32, <1>33, <1>34, <1>35, <1>36 DEF Next, Step, Start, Consume

LEMMA ConnectingStep == TypeOK /\ Connecting /\ [Next]_vars => Connecting'
  <1> SUFFICES ASSUME TypeOK /\ Connecting, [Next]_vars PROVE Connecting'
    OBVIOUS
  <1>1. ASSUME NEW a \in Actor, Load(a) PROVE Connecting'
    BY <1>1, Named DEF Load, Goto, Loaded, TypeOK, Connecting
  <1>2. ASSUME NEW a \in Actor, Save(a) PROVE Connecting'
    BY <1>2, Named DEF Save, Goto, SaveTo, MayBeStale, AfterSave, TypeOK,
       Connecting
  <1>3. ASSUME NEW a \in Actor, SetRestartRequiredFlag(a) PROVE Connecting'
    BY <1>3, Named DEF SetRestartRequiredFlag, Goto, LoadFlag, TypeOK,
       Connecting
  <1>4. ASSUME NEW a \in Actor, SaveFlag(a) PROVE Connecting'
    BY <1>4, Named DEF SaveFlag, Goto, SaveTo, MayBeStale, AfterFlag,
       AfterReport, CertificateReport, TypeOK, Connecting
  <1>5. ASSUME NEW a \in Actor, LoadFails(a) PROVE Connecting'
    BY <1>5, Named DEF LoadFails, Goto, Fault, TypeOK, Connecting
  <1>6. ASSUME NEW a \in Actor, Add(a) PROVE Connecting'
    BY <1>6, Named DEF Add, Goto, StartReportJob, AddedBy, TypeOK, Connecting
  <1>7. ASSUME NEW a \in Actor, Remove(a) PROVE Connecting'
    BY <1>7, Named DEF Remove, Goto, RemoveReportJob, ProcessDies, TypeOK,
       Connecting
  <1>8. ASSUME NEW a \in Actor, ReportBuilt(a) PROVE Connecting'
    BY <1>8, Named DEF ReportBuilt, Goto, CertificateReport, TypeOK, Connecting
  <1>9. ASSUME NEW a \in Actor, ReportError(a) PROVE Connecting'
    BY <1>9, Named DEF ReportError, Goto, AfterReport, CertificateReport,
       NilReport, Fault, TypeOK, Connecting
  <1>10. ASSUME NEW a \in Actor, NoAddress(a) PROVE Connecting'
    BY <1>10, Named DEF NoAddress, Goto, LoadFlag, NilReport, Fault, TypeOK,
       Connecting
  <1>11. ASSUME NEW a \in Actor, Sent(a) PROVE Connecting'
    BY <1>11, Named DEF Sent, Goto, SetFrequency, TypeOK, Connecting
  <1>12. ASSUME NEW a \in Actor, NotSent(a) PROVE Connecting'
    BY <1>12, Named DEF NotSent, Goto, SetFrequency, Fault, TypeOK, Connecting
  <1>13. ASSUME NEW a \in Actor, GetRemoteConfig(a) PROVE Connecting'
    BY <1>13, Named DEF GetRemoteConfig, Goto, Loaded, TypeOK, Connecting
  <1>14. ASSUME NEW a \in Actor, NoRemoteConfig(a) PROVE Connecting'
    BY <1>14, Named DEF NoRemoteConfig, Goto, SetFrequency, TypeOK, Connecting
  <1>15. ASSUME NEW a \in Actor, SaveRemoteConfig(a) PROVE Connecting'
    BY <1>15, Named DEF SaveRemoteConfig, Goto, SaveTo, MayBeStale,
       SetFrequency, TypeOK, Connecting
  <1>16. ASSUME NEW m \in Command, Deliver(m) PROVE Connecting'
    BY <1>16, Named DEF Deliver, Goto, MayStart, Send, TypeOK, Connecting
  <1>17. ASSUME NEW r \in JobRun, ReportTask(r) PROVE Connecting'
    BY <1>17, Named DEF ReportTask, Goto, MayStart, TypeOK, Connecting
  <1>18. CASE Boot
    BY <1>18, Named DEF Boot, Goto, TypeOK, Connecting
  <1>19. CASE Connect
    BY <1>19, Named DEF Connect, Goto, TypeOK, Connecting
  <1>20. CASE ConnectFails \/ StartGivesUp
    BY <1>20, Named DEF ConnectFails, StartGivesUp, Goto, Fault, TypeOK, Connecting
  <1>21. CASE Reconnect
    BY <1>21, Named DEF Reconnect, Goto, TypeOK, Connecting
  <1>22. CASE Read
    BY <1>22, Named DEF Read, Goto, ReadConfig, TypeOK, Connecting
  <1>23. CASE ReadFails
    BY <1>23, Named DEF ReadFails, Goto, Fault, TypeOK, Connecting
  <1>24. CASE RemoveForDisable
    BY <1>24, Named DEF RemoveForDisable, Goto, RemoveReportJob,
       ProcessDies, TypeOK, Connecting
  <1>25. CASE SetEnabled
    BY <1>25, Named DEF SetEnabled, Goto, Loaded, TypeOK, Connecting
  <1>26. CASE SetFails
    BY <1>26, Named DEF SetFails, Goto, Fault, TypeOK, Connecting
  <1>27. CASE SaveEnabled
    BY <1>27, Named DEF SaveEnabled, Goto, SaveTo, TypeOK, Connecting
  <1>28. CASE Ack
    BY <1>28, Named DEF Ack, Goto, Fault, TypeOK, Connecting
  <1>29. CASE NewConfig
    BY <1>29, Named DEF NewConfig, Goto, MayStart, Send, TypeOK, Connecting
  <1>30. CASE Reschedule
    BY <1>30, Named DEF Reschedule, Goto, SetFrequency, TypeOK, Connecting
  <1>31. CASE RescheduleAnsible
    BY <1>31, Named DEF RescheduleAnsible, Goto, ProcessDies, TypeOK,
       Connecting
  <1>32. CASE AgentSettings
    BY <1>32, Named DEF AgentSettings, Goto, MayStart, Send, TypeOK, Connecting
  <1>33. CASE ProfilesRequestFails
    BY <1>33, Named DEF ProfilesRequestFails, Goto, MayStart, Send, Fault,
       TypeOK, Connecting
  <1>34. CASE ProfilesPanic
    BY <1>34, Named DEF ProfilesPanic, Goto, ProcessDies, TypeOK, Connecting
  <1>35. CASE Crash
    BY <1>35, Named DEF Crash, Goto, Fault, ProcessDies, TypeOK, Connecting
  <1>36. CASE UNCHANGED vars
    BY <1>36, Named DEF vars, TypeOK, Connecting
  <1> QED BY <1>1, <1>2, <1>3, <1>4, <1>5, <1>6, <1>7, <1>8, <1>9, <1>10,
        <1>11, <1>12, <1>13, <1>14, <1>15, <1>16, <1>17, <1>18, <1>19, <1>20,
        <1>21, <1>22, <1>23, <1>24, <1>25, <1>26, <1>27, <1>28, <1>29, <1>30,
        <1>31, <1>32, <1>33, <1>34, <1>35, <1>36 DEF Next, Step, Start, Consume

(* Every variable keeps its type, whatever overlaps, crashes or fails: the *)
(* consumer is never at a step that none of its commands leads to.         *)
THEOREM TypeCorrect == Spec => []TypeOK
  <1>1. TypeInv /\ [Next]_vars => TypeInv'
    BY TypeOKStep, HandledStep, ConnectingStep DEF TypeInv
  <1>2. TypeInv => TypeOK
    BY DEF TypeInv
  <1> QED BY TypeInit, <1>1, <1>2, PTL DEF Spec

-----------------------------------------------------------------------------
(* Enabled, whatever overlaps.                                             *)

(* While nothing is excused, file and memory hold what the last command    *)
(* asked for, but for the memory of an agent that has not read the file    *)
(* yet, or whose consumer is about to save.                                *)
Clean == excuse \cap {"stale save", "unsaved"} = {}

Settled ==
    /\ pc["js"] = "save" =>
          /\ cfg["js"].enabled = (command = "enable")
          /\ config.enabled = (command = "enable")
    /\ Clean =>
          /\ ini.enabled = wanted
          /\ pc["main"] # "boot" /\ pc["js"] # "save" => config.enabled = wanted
          /\ pc["js"] = "ack" =>
                /\ command = "enable" => wanted
                /\ command = "disable" => ~wanted

(* What a change of one field leaves of the others.                        *)
LEMMA Fields ==
    ASSUME NEW c \in Config, NEW i \in Ini
    PROVE  /\ \A f : [c EXCEPT !.freq = f].enabled = c.enabled
           /\ \A b : [c EXCEPT !.enabled = b].enabled = b
           /\ [enabled |-> i.enabled, freq |-> i.freq].enabled = i.enabled
           /\ LET l == [i EXCEPT !.enabled = c.enabled, !.freq = c.freq] IN
                 l.enabled = c.enabled /\ l.restart = i.restart
           /\ LET r == [i EXCEPT !.restart = TRUE] IN
                 r.enabled = i.enabled /\ r.restart
           /\ [i EXCEPT !.freq = "retry", !.restart = FALSE].enabled = i.enabled
  BY DEF Config, Ini

LEMMA SameEnabled ==
    ASSUME TypeOK, NEW f \in Frequency, SetFrequency(f)
    PROVE  config'.enabled = config.enabled
  BY Fields DEF TypeOK, SetFrequency

LEMMA DiesSettled == Settled /\ ProcessDies => Settled'
  BY Named DEF Settled, Clean, ProcessDies

(* A step that leaves Enabled and the commands alone.                      *)
LEMMA Unconcerned ==
    ASSUME Settled, config'.enabled = config.enabled,
           UNCHANGED <<wanted, command>>,
           Clean' => Clean /\ ini'.enabled = ini.enabled,
           (pc'["main"] = "boot") <=> (pc["main"] = "boot"),
           (pc'["js"] = "save") <=> (pc["js"] = "save"),
           pc["js"] = "save" => cfg'["js"] = cfg["js"],
           pc'["js"] = "ack" => pc["js"] = "ack" \/ command = "report"
    PROVE  Settled'
  BY DEF Settled, Clean

LEMMA SettledInit == Init => Settled
  BY Named DEF Init, Settled, Clean

LEMMA SettledStep == TypeInv /\ Settled /\ [Next]_vars => Settled'
  <1> SUFFICES ASSUME TypeInv /\ Settled, [Next]_vars PROVE Settled'
    OBVIOUS
  <1>1. ASSUME NEW a \in Actor, Load(a) PROVE Settled'
    BY <1>1, Named DEF Load, Goto, TypeInv, TypeOK, Handled, JsSteps,
       Settled, Clean
  <1>2. ASSUME NEW a \in Actor, Save(a) PROVE Settled'
    BY <1>2, Named DEF Save, Goto, SaveTo, MayBeStale, AfterSave, TypeInv,
       TypeOK, Settled, Clean
  <1>3. ASSUME NEW a \in Actor, SetRestartRequiredFlag(a) PROVE Settled'
    BY <1>3, Named DEF SetRestartRequiredFlag, Goto, LoadFlag, TypeInv,
       TypeOK, Settled, Clean
  <1>4. ASSUME NEW a \in Actor, SaveFlag(a) PROVE Settled'
    <2>1. /\ config'.enabled = config.enabled /\ UNCHANGED <<wanted, command>>
          /\ Clean' => Clean /\ ini'.enabled = ini.enabled
      BY <1>4 DEF SaveFlag, SaveTo, MayBeStale, Clean
    <2>2. /\ (pc'["main"] = "boot") <=> (pc["main"] = "boot")
          /\ (pc'["js"] = "save") <=> (pc["js"] = "save")
          /\ pc["js"] = "save" => cfg'["js"] = cfg["js"]
      BY <1>4, Named DEF SaveFlag, TypeInv, TypeOK, Goto, SaveTo, AfterFlag,
         AfterReport, CertificateReport
    <2>3. pc'["js"] = "ack" => pc["js"] = "ack" \/ command = "report"
      BY <1>4, Named DEF SaveFlag, TypeInv, TypeOK, Goto, Handled,
         AfterFlag, AfterReport, CertificateReport
    <2> QED BY <2>1, <2>2, <2>3, Unconcerned
  <1>5. ASSUME NEW a \in Actor, LoadFails(a) PROVE Settled'
    BY <1>5, Named DEF LoadFails, Goto, Fault, TypeInv, TypeOK, Settled, Clean
  <1>6. ASSUME NEW a \in Actor, Add(a) PROVE Settled'
    BY <1>6, Named DEF Add, Goto, StartReportJob, AddedBy, TypeInv, TypeOK,
       Settled, Clean
  <1>7. ASSUME NEW a \in Actor, Remove(a) PROVE Settled'
    <2>1. CASE ProcessDies
      BY <2>1, DiesSettled
    <2>2. CASE ~ProcessDies
      BY <1>7, <2>2, Named, Unconcerned
      DEF Remove, RemoveReportJob, Goto, Clean, TypeInv, TypeOK
    <2> QED BY <2>1, <2>2
  <1>8. ASSUME NEW a \in Actor, ReportBuilt(a) PROVE Settled'
    BY <1>8, Named DEF ReportBuilt, Goto, CertificateReport, TypeInv,
       TypeOK, Settled, Clean
  <1>9. ASSUME NEW a \in Actor, ReportError(a) PROVE Settled'
    BY <1>9, Named DEF ReportError, Goto, AfterReport, CertificateReport,
       NilReport, TypeInv, TypeOK, Handled, Settled, Clean
  <1>10. ASSUME NEW a \in Actor, NoAddress(a) PROVE Settled'
    BY <1>10, Named DEF NoAddress, Goto, LoadFlag, NilReport, Fault,
       TypeInv, TypeOK, Settled, Clean
  <1>11. ASSUME NEW a \in Actor, Sent(a) PROVE Settled'
    <2>1. /\ config'.enabled = config.enabled /\ UNCHANGED <<wanted, command>>
          /\ Clean' => Clean /\ ini'.enabled = ini.enabled
      BY <1>11, SameEnabled DEF Sent, Clean, Frequency, TypeInv
    <2>2. /\ (pc'["main"] = "boot") <=> (pc["main"] = "boot")
          /\ (pc'["js"] = "save") <=> (pc["js"] = "save")
          /\ pc["js"] = "save" => cfg'["js"] = cfg["js"]
      BY <1>11, Named DEF Sent, TypeInv, TypeOK, Goto
    <2>3. pc'["js"] = "ack" => pc["js"] = "ack" \/ command = "report"
      BY <1>11, Named DEF Sent, TypeInv, TypeOK, Goto, Handled
    <2> QED BY <2>1, <2>2, <2>3, Unconcerned
  <1>12. ASSUME NEW a \in Actor, NotSent(a) PROVE Settled'
    <2>1. /\ config'.enabled = config.enabled /\ UNCHANGED <<wanted, command>>
          /\ Clean' => Clean /\ ini'.enabled = ini.enabled
      BY <1>12, SameEnabled DEF NotSent, Clean, Frequency, TypeInv
    <2>2. /\ (pc'["main"] = "boot") <=> (pc["main"] = "boot")
          /\ (pc'["js"] = "save") <=> (pc["js"] = "save")
          /\ pc["js"] = "save" => cfg'["js"] = cfg["js"]
      BY <1>12, Named DEF NotSent, TypeInv, TypeOK, Goto
    <2>3. pc'["js"] = "ack" => pc["js"] = "ack" \/ command = "report"
      BY <1>12, Named DEF NotSent, TypeInv, TypeOK, Goto, Handled
    <2> QED BY <2>1, <2>2, <2>3, Unconcerned
  <1>13. ASSUME NEW a \in Actor, GetRemoteConfig(a) PROVE Settled'
    BY <1>13, Named DEF GetRemoteConfig, Goto, Loaded, TypeInv, TypeOK,
       Settled, Clean
  <1>14. ASSUME NEW a \in Actor, NoRemoteConfig(a) PROVE Settled'
    <2>1. /\ config'.enabled = config.enabled /\ UNCHANGED <<wanted, command>>
          /\ Clean' => Clean /\ ini'.enabled = ini.enabled
      BY <1>14, SameEnabled DEF NoRemoteConfig, Clean, Frequency, TypeInv
    <2>2. /\ (pc'["main"] = "boot") <=> (pc["main"] = "boot")
          /\ (pc'["js"] = "save") <=> (pc["js"] = "save")
          /\ pc["js"] = "save" => cfg'["js"] = cfg["js"]
      BY <1>14, Named DEF NoRemoteConfig, TypeInv, TypeOK, Goto
    <2>3. pc'["js"] = "ack" => pc["js"] = "ack" \/ command = "report"
      BY <1>14, Named DEF NoRemoteConfig, TypeInv, TypeOK, Goto, Handled
    <2> QED BY <2>1, <2>2, <2>3, Unconcerned
  <1>15. ASSUME NEW a \in Actor, SaveRemoteConfig(a) PROVE Settled'
    <2>1. /\ config'.enabled = config.enabled /\ UNCHANGED <<wanted, command>>
          /\ Clean' => Clean /\ ini'.enabled = ini.enabled
      BY <1>15, SameEnabled DEF SaveRemoteConfig, SaveTo, MayBeStale, Clean,
         Frequency, TypeInv
    <2>2. /\ (pc'["main"] = "boot") <=> (pc["main"] = "boot")
          /\ (pc'["js"] = "save") <=> (pc["js"] = "save")
          /\ pc["js"] = "save" => cfg'["js"] = cfg["js"]
      BY <1>15, Named DEF SaveRemoteConfig, TypeInv, TypeOK, Goto, SaveTo
    <2>3. pc'["js"] = "ack" => pc["js"] = "ack" \/ command = "report"
      BY <1>15, Named DEF SaveRemoteConfig, TypeInv, TypeOK, Goto
    <2> QED BY <2>1, <2>2, <2>3, Unconcerned
  <1>16. ASSUME NEW m \in Command, Deliver(m) PROVE Settled'
    BY <1>16, Named DEF Deliver, Goto, MayStart, Send, TypeInv, TypeOK,
       Settled, Clean
  <1>17. ASSUME NEW r \in JobRun, ReportTask(r) PROVE Settled'
    BY <1>17, Named DEF ReportTask, Goto, MayStart, TypeInv, TypeOK,
       Settled, Clean
  <1>18. CASE Boot
    BY <1>18, Named, Fields DEF Boot, Goto, TypeInv, TypeOK, Connecting,
       Settled, Clean
  <1>19. CASE Connect
    BY <1>19, Named DEF Connect, Goto, TypeInv, TypeOK, Settled, Clean
  <1>20. CASE ConnectFails \/ StartGivesUp
    <2>1. CASE ConnectFails
      BY <2>1, Named, Unconcerned
      DEF ConnectFails, Goto, Clean, TypeInv, TypeOK
    <2>2. CASE StartGivesUp
      BY <2>2, Named, Unconcerned
      DEF StartGivesUp, Goto, Clean, TypeInv, TypeOK
    <2> QED BY <1>20, <2>1, <2>2
  <1>21. CASE Reconnect
    BY <1>21, Named DEF Reconnect, Goto, TypeInv, TypeOK, Settled, Clean
  <1>22. CASE Read
    <2>1. pc["main"] # "boot" /\ pc["js"] = "read"
      BY <1>22, Named DEF Read, TypeInv, Connecting
    <2>2. config' = config \/ config'.enabled = ini.enabled
      BY <1>22, Fields DEF Read, ReadConfig, TypeInv, TypeOK
    <2>3. pc'["js"] = "ack" =>
             /\ command = "enable" => ini.enabled
             /\ command = "disable" => ~ini.enabled
      BY <1>22, Named DEF Read, Goto, TypeInv, TypeOK
    <2>4. pc'["js"] # "save" /\ UNCHANGED <<ini, wanted, excuse, command>>
      BY <1>22, Named DEF Read, Goto, TypeInv, TypeOK
    <2> QED BY <2>1, <2>2, <2>3, <2>4 DEF Settled, Clean
  <1>23. CASE ReadFails
    BY <1>23, Named DEF ReadFails, Goto, Fault, TypeInv, TypeOK, Settled, Clean
  <1>24. CASE RemoveForDisable
    <2>1. CASE ProcessDies
      BY <2>1, DiesSettled
    <2>2. CASE ~ProcessDies
      BY <1>24, <2>2, Named, Unconcerned
      DEF RemoveForDisable, RemoveReportJob, Goto, Clean, TypeInv, TypeOK
    <2> QED BY <2>1, <2>2
  <1>25. CASE SetEnabled
    <2>1. /\ config'.enabled = (command = "enable")
          /\ cfg'["js"].enabled = (command = "enable")
      <3> DEFINE set == [config EXCEPT !.enabled = (command = "enable")]
      <3>1. set \in Config /\ set.enabled = (command = "enable")
        BY Fields DEF TypeInv, TypeOK, Config
      <3>2. Loaded(set).enabled = set.enabled
        BY <3>1, Fields DEF Loaded, TypeInv, TypeOK
      <3> QED BY <1>25, <3>1, <3>2, Named DEF SetEnabled, TypeInv, TypeOK
    <2>2. /\ pc'["js"] = "save" /\ pc["js"] # "save"
          /\ UNCHANGED <<ini, wanted, excuse, command>>
      BY <1>25, Named DEF SetEnabled, Goto, TypeInv, TypeOK
    <2> QED BY <2>1, <2>2 DEF Settled, Clean
  <1>26. CASE SetFails
    BY <1>26, Named DEF SetFails, Goto, Fault, TypeInv, TypeOK, Settled, Clean
  <1>27. CASE SaveEnabled
    <2>1. ini' = cfg["js"] /\ UNCHANGED <<config, command>>
      BY <1>27 DEF SaveEnabled, SaveTo
    <2>2. pc["js"] = "save" /\ pc'["js"] = "ack"
      BY <1>27, Named DEF SaveEnabled, Goto, TypeInv, TypeOK
    <2>3. wanted' = (command = "enable")
      BY <1>27 DEF SaveEnabled
    <2> QED BY <2>1, <2>2, <2>3 DEF Settled
  <1>28. CASE Ack
    BY <1>28, Named DEF Ack, Goto, Fault, TypeInv, TypeOK, Settled, Clean
  <1>29. CASE NewConfig
    BY <1>29, Named DEF NewConfig, Goto, MayStart, Send, TypeInv, TypeOK,
       Settled, Clean
  <1>30. CASE Reschedule
    <2>1. /\ config'.enabled = config.enabled /\ UNCHANGED <<wanted, command>>
          /\ Clean' => Clean /\ ini'.enabled = ini.enabled
      BY <1>30, SameEnabled DEF Reschedule, Clean, Frequency, TypeInv
    <2>2. /\ (pc'["main"] = "boot") <=> (pc["main"] = "boot")
          /\ (pc'["js"] = "save") <=> (pc["js"] = "save")
          /\ pc["js"] = "save" => cfg'["js"] = cfg["js"]
      BY <1>30, Named DEF Reschedule, TypeInv, TypeOK, Goto
    <2>3. pc'["js"] = "ack" => pc["js"] = "ack" \/ command = "report"
      BY <1>30, Named DEF Reschedule, TypeInv, TypeOK, Goto, Handled
    <2> QED BY <2>1, <2>2, <2>3, Unconcerned
  <1>31. CASE RescheduleAnsible
    <2>1. CASE ProcessDies
      BY <2>1, DiesSettled
    <2>2. CASE ~ProcessDies
      BY <1>31, <2>2, Named, Unconcerned
      DEF RescheduleAnsible, RemoveReportJob, Goto, Clean, TypeInv, TypeOK
    <2> QED BY <2>1, <2>2
  <1>32. CASE AgentSettings
    BY <1>32, Named DEF AgentSettings, Goto, MayStart, Send, TypeInv,
       TypeOK, Settled, Clean
  <1>33. CASE ProfilesRequestFails
    BY <1>33, Named DEF ProfilesRequestFails, Goto, MayStart, Send, Fault,
       TypeInv, TypeOK, Settled, Clean
  <1>34. CASE ProfilesPanic
    <2>1. CASE ProcessDies
      BY <2>1, Named DEF ProcessDies, TypeInv, TypeOK, Settled, Clean
    <2>2. CASE ~ProcessDies
      BY <1>34, <2>2, Named, Unconcerned
      DEF ProfilesPanic, Goto, Clean, TypeInv, TypeOK
    <2> QED BY <2>1, <2>2
  <1>35. CASE Crash
    BY <1>35, Named DEF Crash, Goto, Fault, ProcessDies, TypeInv, TypeOK,
       Settled, Clean
  <1>36. CASE UNCHANGED vars
    BY <1>36, Named DEF vars, TypeInv, TypeOK, Settled, Clean
  <1> QED BY <1>1, <1>2, <1>3, <1>4, <1>5, <1>6, <1>7, <1>8, <1>9, <1>10,
        <1>11, <1>12, <1>13, <1>14, <1>15, <1>16, <1>17, <1>18, <1>19, <1>20,
        <1>21, <1>22, <1>23, <1>24, <1>25, <1>26, <1>27, <1>28, <1>29, <1>30,
        <1>31, <1>32, <1>33, <1>34, <1>35, <1>36 DEF Next, Step, Start, Consume

(* An acknowledged enabling or disabling is only undone by a goroutine that *)
(* saves what it had loaded before, whatever overlaps, crashes or fails.   *)
THEOREM UndoneByStaleSave == Spec => []UndoneOnlyByStaleSave
  <1>1. Init => TypeInv /\ Settled
    BY TypeInit, SettledInit
  <1>2. TypeInv /\ [Next]_vars => TypeInv'
    BY TypeOKStep, HandledStep, ConnectingStep DEF TypeInv
  <1>3. TypeInv /\ Settled /\ [Next]_vars => Settled'
    BY SettledStep
  <1>4. TypeInv /\ Settled => UndoneOnlyByStaleSave
    BY Named DEF TypeInv, TypeOK, Settled, Clean, UndoneOnlyByStaleSave,
       EnabledPersisted, Quiet, Active
  <1> QED BY <1>1, <1>2, <1>3, <1>4, PTL DEF Spec

-----------------------------------------------------------------------------
(* One goroutine at a time.                                                *)

(* A goroutine that has more to do than to acknowledge a message.  Only an *)
(* enabling goes on, in a goroutine of its own, while it is acknowledged.  *)
Writer(a) ==
    pc[a] \notin {"idle", "reconnect"} /\ ~(a = "js" /\ pc[a] = "ack")

Alone ==
    /\ \A a, b \in Actor : Writer(a) /\ Writer(b) => a = b
    /\ pc["js"] = "ack" /\ command # "enable" => \A a \in Actor : ~Writer(a)

LEMMA AloneInit == Init => Alone
  BY Named DEF Init, Alone, Writer

LEMMA DiesAlone == ProcessDies => Alone'
  BY Named DEF ProcessDies, Alone, Writer

(* A new goroutine starts when no other is active.                         *)
LEMMA NoneActive ==
    ASSUME MaxOverlap = 1, NEW a, MayStart(a)
    PROVE  \A b \in Actor : pc[b] \in {"idle", "reconnect"}
  <1>1. IsFiniteSet({"main", "js", "newconfig", "settings", "profiles"})
    <2>1. IsFiniteSet({"main"}) /\ IsFiniteSet({"js"}) /\ IsFiniteSet({"settings"})
          /\ IsFiniteSet({"newconfig"}) /\ IsFiniteSet({"profiles"})
      BY FS_Singleton
    <2>2. IsFiniteSet({"main"} \cup {"js"})
      BY <2>1, FS_Union
    <2>3. IsFiniteSet({"settings"} \cup {"newconfig"})
      BY <2>1, FS_Union
    <2>4. IsFiniteSet(({"settings"} \cup {"newconfig"}) \cup {"profiles"})
      BY <2>1, <2>3, FS_Union
    <2>5. IsFiniteSet(({"main"} \cup {"js"})
                \cup (({"settings"} \cup {"newconfig"}) \cup {"profiles"}))
      BY <2>2, <2>4, FS_Union
    <2>6. {"main", "js", "newconfig", "settings", "profiles"}
            = ({"main"} \cup {"js"})
                \cup (({"settings"} \cup {"newconfig"}) \cup {"profiles"})
      OBVIOUS
    <2> QED BY <2>5, <2>6
  <1>2. IsFiniteSet(Actor)
    BY <1>1, FS_Union, ConstantsAssumption DEF ConstantsAssumption, Actor
  <1>3. IsFiniteSet(Active)
    BY <1>2, FS_Subset DEF Active
  <1>4. Cardinality(Active) \in Nat /\ Cardinality(Active) < 1
    BY <1>3, FS_CardinalityType DEF MayStart
  <1>5. Cardinality(Active) = 0
    BY <1>4
  <1> QED BY <1>3, <1>5, FS_EmptySet DEF Active

LEMMA AloneByActor ==
    ASSUME Alone, NEW a \in Actor, Writer(a), command' = command,
           \A b \in Actor \ {a} : pc'[b] = pc[b]
    PROVE  Alone'
  BY Named DEF Alone, Writer

LEMMA AloneStart ==
    ASSUME \A b \in Actor : pc[b] \in {"idle", "reconnect"},
           NEW a \in Actor, pc'["js"] # "ack",
           \A b \in Actor \ {a} : pc'[b] = pc[b]
    PROVE  Alone'
  BY DEF Alone, Writer

LEMMA AloneStep == MaxOverlap = 1 /\ TypeInv /\ Alone /\ [Next]_vars => Alone'
  <1> SUFFICES ASSUME MaxOverlap = 1 /\ TypeInv /\ Alone, [Next]_vars
       PROVE  Alone'
    OBVIOUS
  <1>1. ASSUME NEW a \in Actor, Load(a) PROVE Alone'
    <2>1. Writer(a)
      BY <1>1 DEF Load, Writer
    <2>2. command' = command /\ \A b \in Actor \ {a} : pc'[b] = pc[b]
      BY <1>1 DEF Load, Goto, TypeInv, TypeOK
    <2> QED BY <2>1, <2>2, AloneByActor, Named
  <1>2. ASSUME NEW a \in Actor, Save(a) PROVE Alone'
    <2>1. Writer(a)
      BY <1>2 DEF Save, Writer
    <2>2. command' = command /\ \A b \in Actor \ {a} : pc'[b] = pc[b]
      BY <1>2 DEF Save, Goto, TypeInv, TypeOK
    <2> QED BY <2>1, <2>2, AloneByActor, Named
  <1>3. ASSUME NEW a \in Actor, SetRestartRequiredFlag(a) PROVE Alone'
    <2>1. Writer(a)
      BY <1>3 DEF SetRestartRequiredFlag, Writer
    <2>2. command' = command /\ \A b \in Actor \ {a} : pc'[b] = pc[b]
      BY <1>3 DEF SetRestartRequiredFlag, Goto, TypeInv, TypeOK
    <2> QED BY <2>1, <2>2, AloneByActor, Named
  <1>4. ASSUME NEW a \in Actor, SaveFlag(a) PROVE Alone'
    <2>1. Writer(a)
      BY <1>4 DEF SaveFlag, Writer
    <2>2. command' = command /\ \A b \in Actor \ {a} : pc'[b] = pc[b]
      BY <1>4 DEF SaveFlag, Goto, TypeInv, TypeOK, AfterFlag, AfterReport
    <2> QED BY <2>1, <2>2, AloneByActor, Named
  <1>5. ASSUME NEW a \in Actor, LoadFails(a) PROVE Alone'
    <2>1. Writer(a)
      BY <1>5 DEF LoadFails, Writer
    <2>2. command' = command /\ \A b \in Actor \ {a} : pc'[b] = pc[b]
      BY <1>5 DEF LoadFails, Goto, TypeInv, TypeOK
    <2> QED BY <2>1, <2>2, AloneByActor, Named
  <1>6. ASSUME NEW a \in Actor, Add(a) PROVE Alone'
    <2>1. Writer(a)
      BY <1>6 DEF Add, Writer
    <2>2. command' = command /\ \A b \in Actor \ {a} : pc'[b] = pc[b]
      BY <1>6 DEF Add, Goto, TypeInv, TypeOK
    <2> QED BY <2>1, <2>2, AloneByActor, Named
  <1>7. ASSUME NEW a \in Actor, Remove(a) PROVE Alone'
    <2>1. CASE ProcessDies
      BY <2>1, DiesAlone
    <2>2. CASE ~ProcessDies
      <3>1. Writer(a)
        BY <1>7 DEF Remove, Writer
      <3>2. command' = command /\ \A b \in Actor \ {a} : pc'[b] = pc[b]
        BY <1>7, <2>2 DEF Remove, RemoveReportJob, Goto, TypeInv, TypeOK
      <3> QED BY <3>1, <3>2, AloneByActor, Named
    <2> QED BY <2>1, <2>2
  <1>8. ASSUME NEW a \in Actor, ReportBuilt(a) PROVE Alone'
    <2>1. Writer(a)
      BY <1>8 DEF ReportBuilt, Writer
    <2>2. command' = command /\ \A b \in Actor \ {a} : pc'[b] = pc[b]
      BY <1>8 DEF ReportBuilt, Goto, TypeInv, TypeOK
    <2> QED BY <2>1, <2>2, AloneByActor, Named
  <1>9. ASSUME NEW a \in Actor, ReportError(a) PROVE Alone'
    <2>1. Writer(a)
      BY <1>9 DEF ReportError, Writer
    <2>2. command' = command /\ \A b \in Actor \ {a} : pc'[b] = pc[b]
      BY <1>9 DEF ReportError, Goto, TypeInv, TypeOK, AfterReport
    <2> QED BY <2>1, <2>2, AloneByActor, Named
  <1>10. ASSUME NEW a \in Actor, NoAddress(a) PROVE Alone'
    <2>1. Writer(a)
      BY <1>10 DEF NoAddress, Writer
    <2>2. command' = command /\ \A b \in Actor \ {a} : pc'[b] = pc[b]
      BY <1>10 DEF NoAddress, Goto, TypeInv, TypeOK
    <2> QED BY <2>1, <2>2, AloneByActor, Named
  <1>11. ASSUME NEW a \in Actor, Sent(a) PROVE Alone'
    <2>1. Writer(a)
      BY <1>11 DEF Sent, Writer
    <2>2. command' = command /\ \A b \in Actor \ {a} : pc'[b] = pc[b]
      BY <1>11 DEF Sent, Goto, TypeInv, TypeOK
    <2> QED BY <2>1, <2>2, AloneByActor, Named
  <1>12. ASSUME NEW a \in Actor, NotSent(a) PROVE Alone'
    <2>1. Writer(a)
      BY <1>12 DEF NotSent, Writer
    <2>2. command' = command /\ \A b \in Actor \ {a} : pc'[b] = pc[b]
      BY <1>12 DEF NotSent, Goto, TypeInv, TypeOK
    <2> QED BY <2>1, <2>2, AloneByActor, Named
  <1>13. ASSUME NEW a \in Actor, GetRemoteConfig(a) PROVE Alone'
    <2>1. Writer(a)
      BY <1>13 DEF GetRemoteConfig, Writer
    <2>2. command' = command /\ \A b \in Actor \ {a} : pc'[b] = pc[b]
      BY <1>13 DEF GetRemoteConfig, Goto, TypeInv, TypeOK
    <2> QED BY <2>1, <2>2, AloneByActor, Named
  <1>14. ASSUME NEW a \in Actor, NoRemoteConfig(a) PROVE Alone'
    <2>1. Writer(a)
      BY <1>14 DEF NoRemoteConfig, Writer
    <2>2. command' = command /\ \A b \in Actor \ {a} : pc'[b] = pc[b]
      BY <1>14 DEF NoRemoteConfig, Goto, TypeInv, TypeOK
    <2> QED BY <2>1, <2>2, AloneByActor, Named
  <1>15. ASSUME NEW a \in Actor, SaveRemoteConfig(a) PROVE Alone'
    <2>1. Writer(a)
      BY <1>15 DEF SaveRemoteConfig, Writer
    <2>2. command' = command /\ \A b \in Actor \ {a} : pc'[b] = pc[b]
      BY <1>15 DEF SaveRemoteConfig, Goto, TypeInv, TypeOK
    <2> QED BY <2>1, <2>2, AloneByActor, Named
  <1>16. ASSUME NEW m \in Command, Deliver(m) PROVE Alone'
    <2>1. \A b \in Actor : pc[b] \in {"idle", "reconnect"}
      BY <1>16, NoneActive DEF Deliver
    <2>2. /\ \A b \in Actor \ {"js"} : pc'[b] = pc[b]
          /\ pc'["js"] # "ack"
      BY <1>16, <2>1, Named DEF Deliver, Goto, TypeInv, TypeOK
    <2> QED BY <2>1, <2>2, AloneStart, Named
  <1>17. ASSUME NEW r \in JobRun, ReportTask(r) PROVE Alone'
    <2>1. \A b \in Actor : pc[b] \in {"idle", "reconnect"}
      BY <1>17, NoneActive DEF ReportTask
    <2>2. /\ \A b \in Actor \ {r} : pc'[b] = pc[b]
          /\ pc'["js"] # "ack"
      BY <1>17, <2>1, Named DEF ReportTask, Goto, TypeInv, TypeOK
    <2> QED BY <2>1, <2>2, AloneStart, Named
  <1>18. CASE Boot
    <2>1. Writer("main")
      BY <1>18 DEF Boot, Writer
    <2>2. command' = command /\ \A b \in Actor \ {"main"} : pc'[b] = pc[b]
      BY <1>18 DEF Boot, Goto, TypeInv, TypeOK
    <2> QED BY <2>1, <2>2, AloneByActor, Named
  <1>19. CASE Connect
    <2>1. Writer("main")
      BY <1>19 DEF Connect, Writer
    <2>2. command' = command /\ \A b \in Actor \ {"main"} : pc'[b] = pc[b]
      BY <1>19 DEF Connect, Goto, TypeInv, TypeOK
    <2> QED BY <2>1, <2>2, AloneByActor, Named
  <1>20. CASE ConnectFails \/ StartGivesUp
    <2>1. Writer("main")
      BY <1>20 DEF ConnectFails, StartGivesUp, Writer
    <2>2. command' = command /\ \A b \in Actor \ {"main"} : pc'[b] = pc[b]
      BY <1>20 DEF ConnectFails, StartGivesUp, Goto, TypeInv, TypeOK
    <2> QED BY <2>1, <2>2, AloneByActor, Named
  <1>21. CASE Reconnect
    <2>1. \A b \in Actor : pc[b] \in {"idle", "reconnect"}
      BY <1>21 DEF Reconnect, TypeInv, Connecting
    <2>2. /\ \A b \in Actor \ {"main"} : pc'[b] = pc[b]
          /\ pc'["js"] # "ack"
      BY <1>21, <2>1, Named DEF Reconnect, Goto, TypeInv, TypeOK
    <2> QED BY <2>1, <2>2, AloneStart, Named
  <1>22. CASE Read
    <2>1. Writer("js")
      BY <1>22 DEF Read, Writer
    <2>2. command' = command /\ \A b \in Actor \ {"js"} : pc'[b] = pc[b]
      BY <1>22 DEF Read, Goto, TypeInv, TypeOK
    <2> QED BY <2>1, <2>2, AloneByActor, Named
  <1>23. CASE ReadFails
    <2>1. Writer("js")
      BY <1>23 DEF ReadFails, Writer
    <2>2. command' = command /\ \A b \in Actor \ {"js"} : pc'[b] = pc[b]
      BY <1>23 DEF ReadFails, Goto, TypeInv, TypeOK
    <2> QED BY <2>1, <2>2, AloneByActor, Named
  <1>24. CASE RemoveForDisable
    <2>1. CASE ProcessDies
      BY <2>1, DiesAlone
    <2>2. CASE ~ProcessDies
      <3>1. Writer("js")
        BY <1>24 DEF RemoveForDisable, Writer
      <3>2. command' = command /\ \A b \in Actor \ {"js"} : pc'[b] = pc[b]
        BY <1>24, <2>2 DEF RemoveForDisable, RemoveReportJob, Goto, TypeInv,
           TypeOK
      <3> QED BY <3>1, <3>2, AloneByActor, Named
    <2> QED BY <2>1, <2>2
  <1>25. CASE SetEnabled
    <2>1. Writer("js")
      BY <1>25 DEF SetEnabled, Writer
    <2>2. command' = command /\ \A b \in Actor \ {"js"} : pc'[b] = pc[b]
      BY <1>25 DEF SetEnabled, Goto, TypeInv, TypeOK
    <2> QED BY <2>1, <2>2, AloneByActor, Named
  <1>26. CASE SetFails
    <2>1. Writer("js")
      BY <1>26 DEF SetFails, Writer
    <2>2. command' = command /\ \A b \in Actor \ {"js"} : pc'[b] = pc[b]
      BY <1>26 DEF SetFails, Goto, TypeInv, TypeOK
    <2> QED BY <2>1, <2>2, AloneByActor, Named
  <1>27. CASE SaveEnabled
    <2>1. pc["js"] = "save" /\ command' = command
      BY <1>27 DEF SaveEnabled
    <2>2. \A b \in Actor \ {"js"} : ~Writer(b)
      BY <2>1, Named DEF Alone, Writer
    <2>3. CASE command = "enable"
      <3>1. PICK e \in Enabler : pc' = [pc EXCEPT !["js"] = "ack", ![e] = "report"]
        BY <1>27, <2>3 DEF SaveEnabled
      <3>2. \A b \in Actor : Writer(b)' => b = e
        BY <2>2, <3>1, Named DEF Writer, TypeInv, TypeOK
      <3> QED BY <2>1, <2>3, <3>2 DEF Alone
    <2>4. CASE command # "enable"
      <3>1. \A b \in Actor : ~Writer(b)'
        BY <1>27, <2>2, <2>4, Named DEF SaveEnabled, Goto, Writer, TypeInv,
           TypeOK
      <3> QED BY <3>1 DEF Alone
    <2> QED BY <2>3, <2>4
  <1>28. CASE Ack
    <2>1. \A b \in Actor \ {"js"} : pc'[b] = pc[b]
      BY <1>28 DEF Ack, Goto, TypeInv, TypeOK
    <2>2. pc'["js"] = "idle" \/ (pc'["js"] = "report" /\ pc["js"] = "ack"
                                   /\ command = "certificate")
      BY <1>28, Named DEF Ack, Goto, TypeInv, TypeOK
    <2> QED BY <2>1, <2>2, Named DEF Alone, Writer
  <1>29. CASE NewConfig
    <2>1. \A b \in Actor : pc[b] \in {"idle", "reconnect"}
      BY <1>29, NoneActive DEF NewConfig
    <2>2. /\ \A b \in Actor \ {"newconfig"} : pc'[b] = pc[b]
          /\ pc'["js"] # "ack"
      BY <1>29, <2>1, Named DEF NewConfig, Goto, TypeInv, TypeOK
    <2> QED BY <2>1, <2>2, AloneStart, Named
  <1>30. CASE Reschedule
    <2>1. Writer("newconfig")
      BY <1>30 DEF Reschedule, Writer
    <2>2. command' = command /\ \A b \in Actor \ {"newconfig"} : pc'[b] = pc[b]
      BY <1>30 DEF Reschedule, Goto, TypeInv, TypeOK
    <2> QED BY <2>1, <2>2, AloneByActor, Named
  <1>31. CASE RescheduleAnsible
    <2>1. CASE ProcessDies
      BY <2>1, DiesAlone
    <2>2. CASE ~ProcessDies
      <3>1. Writer("newconfig")
        BY <1>31 DEF RescheduleAnsible, Writer
      <3>2. command' = command /\ \A b \in Actor \ {"newconfig"} : pc'[b] = pc[b]
        BY <1>31, <2>2 DEF RescheduleAnsible, RemoveReportJob, Goto,
           TypeInv, TypeOK
      <3> QED BY <3>1, <3>2, AloneByActor, Named
    <2> QED BY <2>1, <2>2
  <1>32. CASE AgentSettings
    <2>1. \A b \in Actor : pc[b] \in {"idle", "reconnect"}
      BY <1>32, NoneActive DEF AgentSettings
    <2>2. /\ \A b \in Actor \ {"settings"} : pc'[b] = pc[b]
          /\ pc'["js"] # "ack"
      BY <1>32, <2>1, Named DEF AgentSettings, Goto, TypeInv, TypeOK
    <2> QED BY <2>1, <2>2, AloneStart, Named
  <1>33. CASE ProfilesRequestFails
    <2>1. \A b \in Actor : pc[b] \in {"idle", "reconnect"}
      BY <1>33, NoneActive DEF ProfilesRequestFails
    <2>2. /\ \A b \in Actor \ {"profiles"} : pc'[b] = pc[b]
          /\ pc'["js"] # "ack"
      BY <1>33, <2>1, Named DEF ProfilesRequestFails, Goto, TypeInv, TypeOK
    <2> QED BY <2>1, <2>2, AloneStart, Named
  <1>34. CASE ProfilesPanic
    <2>1. CASE ProcessDies
      BY <2>1, DiesAlone
    <2>2. CASE ~ProcessDies
      <3>1. Writer("profiles")
        BY <1>34 DEF ProfilesPanic, Writer
      <3>2. command' = command /\ \A b \in Actor \ {"profiles"} : pc'[b] = pc[b]
        BY <1>34, <2>2 DEF ProfilesPanic, Goto, TypeInv, TypeOK
      <3> QED BY <3>1, <3>2, AloneByActor, Named
    <2> QED BY <2>1, <2>2
  <1>35. CASE Crash
    BY <1>35, DiesAlone DEF Crash
  <1>36. CASE UNCHANGED vars
    BY <1>36, Named, AloneByActor DEF vars, TypeInv, TypeOK, Alone, Writer
  <1> QED BY <1>1, <1>2, <1>3, <1>4, <1>5, <1>6, <1>7, <1>8, <1>9, <1>10,
        <1>11, <1>12, <1>13, <1>14, <1>15, <1>16, <1>17, <1>18, <1>19, <1>20,
        <1>21, <1>22, <1>23, <1>24, <1>25, <1>26, <1>27, <1>28, <1>29, <1>30,
        <1>31, <1>32, <1>33, <1>34, <1>35, <1>36 DEF Next, Step, Start, Consume

-----------------------------------------------------------------------------
(* Saves that do not meet.                                                 *)

Saving == {"save", "remoteSave", "raise"}

(* What a goroutine has loaded and will save differs from the file by what *)
(* it means to change.                                                     *)
FreshOf(a) ==
    /\ pc[a] \in {"save", "remoteSave"} => cfg[a].restart = ini.restart
    /\ pc[a] = "raise" => cfg[a].restart
    /\ "unsaved" \notin excuse /\ pc[a] \in Saving
          /\ ~(a = "js" /\ pc[a] = "save") => cfg[a].enabled = ini.enabled

NothingStale == "unsaved" \notin excuse => "stale save" \notin excuse

Fresh == (\A a \in Actor : FreshOf(a)) /\ NothingStale

SerialInv == TypeInv /\ Settled /\ Alone /\ Fresh

LEMMA FreshInit == Init => Fresh
  BY DEF Init, Fresh, FreshOf, NothingStale, Saving

(* A goroutine that will save is a writer: only the one that moves counts. *)
LEMMA FreshByActor ==
    ASSUME Alone, NEW a \in Actor, Writer(a),
           \A b \in Actor \ {a} : pc'[b] = pc[b],
           NothingStale', FreshOf(a)'
    PROVE  Fresh'
  <1>1. \A b \in Actor \ {a} : pc'[b] \notin Saving
    BY DEF Alone, Writer, Saving
  <1>2. \A b \in Actor \ {a} : FreshOf(b)'
    BY <1>1 DEF FreshOf, Saving
  <1> QED BY <1>2 DEF Fresh

(* A step after which nobody is about to save.                             *)
LEMMA FreshUnlessSaving ==
    ASSUME NothingStale', \A b \in Actor : pc'[b] \notin Saving
    PROVE  Fresh'
  BY DEF Fresh, FreshOf, Saving

LEMMA DiesFresh == Fresh /\ ProcessDies => Fresh'
  <1> SUFFICES ASSUME Fresh, ProcessDies PROVE Fresh'
    OBVIOUS
  <1>1. NothingStale' /\ \A b \in Actor : pc'[b] \notin Saving
    BY DEF Fresh, NothingStale, ProcessDies, Saving
  <1> QED BY <1>1, FreshUnlessSaving

LEMMA FreshStep == MaxOverlap = 1 /\ SerialInv /\ [Next]_vars => Fresh'
  <1> SUFFICES ASSUME MaxOverlap = 1 /\ SerialInv, [Next]_vars PROVE Fresh'
    OBVIOUS
  <1>1. ASSUME NEW a \in Actor, Load(a) PROVE Fresh'
    <2>1. /\ Writer(a) /\ a \in Actor
          /\ \A b \in Actor \ {a} : pc'[b] = pc[b]
      BY <1>1, Named DEF Load, Writer, Goto, SerialInv, TypeInv, TypeOK
    <2>2. cfg'[a] = Loaded(config) /\ pc'[a] \in {"save", "remoteSave"}
      BY <1>1 DEF Load, Goto, SerialInv, TypeInv, TypeOK
    <2>3. /\ Loaded(config).enabled = config.enabled
          /\ Loaded(config).restart = ini.restart
      BY Fields DEF Loaded, SerialInv, TypeInv, TypeOK
    <2>4. pc["main"] # "boot" /\ pc["js"] # "save"
      BY <1>1, Named DEF Load, SerialInv, Alone, Writer
    <2>5. "unsaved" \notin excuse => config.enabled = ini.enabled
      BY <2>4 DEF SerialInv, Settled, Clean, Fresh, NothingStale
    <2>6. FreshOf(a)' /\ NothingStale'
      BY <1>1, <2>2, <2>3, <2>5 DEF Load, FreshOf, SerialInv, Fresh,
         NothingStale
    <2> QED BY <2>1, <2>6, FreshByActor DEF SerialInv
  <1>2. ASSUME NEW a \in Actor, Save(a) PROVE Fresh'
    <2>1. /\ Writer(a) /\ a \in Actor
          /\ \A b \in Actor \ {a} : pc'[b] = pc[b]
      BY <1>2, Named DEF Save, Writer, Goto, SerialInv, TypeInv, TypeOK,
         AfterSave
    <2>2. "unsaved" \notin excuse => cfg[a].enabled = ini.enabled
      BY <1>2 DEF Save, SerialInv, Fresh, FreshOf, Saving
    <2>3. NothingStale'
      BY <1>2, <2>2 DEF Save, MayBeStale, SerialInv, Fresh, NothingStale
    <2>4. pc'[a] \notin Saving
      BY <1>2 DEF Save, Goto, Saving, SerialInv, TypeInv, TypeOK, AfterSave
    <2>5. FreshOf(a)'
      BY <2>4 DEF FreshOf, Saving
    <2> QED BY <2>1, <2>3, <2>5, FreshByActor DEF SerialInv
  <1>3. ASSUME NEW a \in Actor, SetRestartRequiredFlag(a) PROVE Fresh'
    <2>1. /\ Writer(a) /\ a \in Actor
          /\ \A b \in Actor \ {a} : pc'[b] = pc[b]
      BY <1>3, Named DEF SetRestartRequiredFlag, Writer, Goto, SerialInv,
         TypeInv, TypeOK
    <2>2. cfg'[a] = [ini EXCEPT !.restart = TRUE] /\ pc'[a] = "raise"
      BY <1>3 DEF SetRestartRequiredFlag, LoadFlag, Goto, SerialInv,
         TypeInv, TypeOK
    <2>3. cfg'[a].enabled = ini.enabled /\ cfg'[a].restart
      BY <2>2, Fields DEF SerialInv, TypeInv, TypeOK
    <2>4. FreshOf(a)' /\ NothingStale'
      BY <1>3, <2>2, <2>3 DEF SetRestartRequiredFlag, NilReport, FreshOf,
         SerialInv, Fresh, NothingStale
    <2> QED BY <2>1, <2>4, FreshByActor DEF SerialInv
  <1>4. ASSUME NEW a \in Actor, SaveFlag(a) PROVE Fresh'
    <2>1. /\ Writer(a) /\ a \in Actor
          /\ \A b \in Actor \ {a} : pc'[b] = pc[b]
      BY <1>4, Named DEF SaveFlag, Writer, Goto, SerialInv, TypeInv, TypeOK,
         AfterFlag, AfterReport
    <2>2. "unsaved" \notin excuse => cfg[a].enabled = ini.enabled
      BY <1>4 DEF SaveFlag, SerialInv, Fresh, FreshOf, Saving
    <2>3. NothingStale'
      BY <1>4, <2>2 DEF SaveFlag, MayBeStale, SerialInv, Fresh, NothingStale
    <2>4. pc'[a] \notin Saving
      BY <1>4 DEF SaveFlag, Goto, Saving, SerialInv, TypeInv, TypeOK,
         AfterFlag, AfterReport
    <2>5. FreshOf(a)'
      BY <2>4 DEF FreshOf, Saving
    <2> QED BY <2>1, <2>3, <2>5, FreshByActor DEF SerialInv
  <1>5. ASSUME NEW a \in Actor, LoadFails(a) PROVE Fresh'
    <2>1. /\ Writer(a) /\ a \in Actor
          /\ \A b \in Actor \ {a} : pc'[b] = pc[b]
      BY <1>5, Named DEF LoadFails, Writer, Goto, SerialInv, TypeInv, TypeOK
    <2>2. pc'[a] \notin Saving /\ NothingStale'
      BY <1>5, Named DEF LoadFails, Goto, Saving, SerialInv, Fresh,
         NothingStale, TypeInv,
         TypeOK
    <2>3. FreshOf(a)'
      BY <2>2 DEF FreshOf, Saving
    <2> QED BY <2>1, <2>2, <2>3, FreshByActor DEF SerialInv
  <1>6. ASSUME NEW a \in Actor, Add(a) PROVE Fresh'
    <2>1. /\ Writer(a) /\ a \in Actor
          /\ \A b \in Actor \ {a} : pc'[b] = pc[b]
      BY <1>6, Named DEF Add, Writer, Goto, SerialInv, TypeInv, TypeOK
    <2>2. pc'[a] \notin Saving /\ NothingStale'
      BY <1>6, Named DEF Add, Goto, Saving, SerialInv, Fresh, NothingStale,
         TypeInv,
         TypeOK, AddedBy
    <2>3. FreshOf(a)'
      BY <2>2 DEF FreshOf, Saving
    <2> QED BY <2>1, <2>2, <2>3, FreshByActor DEF SerialInv
  <1>7. ASSUME NEW a \in Actor, Remove(a) PROVE Fresh'
    <2>1. CASE ProcessDies
      BY <2>1, DiesFresh DEF SerialInv
    <2>2. CASE ~ProcessDies
      <3>1. Writer(a) /\ a \in Actor
        BY <1>7, Named DEF Remove, Writer
      <3>2. /\ \A b \in Actor \ {a} : pc'[b] = pc[b]
            /\ pc'[a] \notin Saving /\ NothingStale'
        BY <1>7, <2>2, Named DEF Remove, RemoveReportJob, Goto, Saving,
           SerialInv,
           Fresh, NothingStale, TypeInv, TypeOK
      <3>3. FreshOf(a)'
        BY <3>2 DEF FreshOf, Saving
      <3> QED BY <3>1, <3>2, <3>3, FreshByActor DEF SerialInv
    <2> QED BY <2>1, <2>2
  <1>8. ASSUME NEW a \in Actor, ReportBuilt(a) PROVE Fresh'
    <2>1. /\ Writer(a) /\ a \in Actor
          /\ \A b \in Actor \ {a} : pc'[b] = pc[b]
      BY <1>8, Named DEF ReportBuilt, Writer, Goto, SerialInv, TypeInv, TypeOK
    <2>2. pc'[a] \notin Saving /\ NothingStale'
      BY <1>8, Named DEF ReportBuilt, Goto, Saving, SerialInv, Fresh,
         NothingStale, TypeInv,
         TypeOK
    <2>3. FreshOf(a)'
      BY <2>2 DEF FreshOf, Saving
    <2> QED BY <2>1, <2>2, <2>3, FreshByActor DEF SerialInv
  <1>9. ASSUME NEW a \in Actor, ReportError(a) PROVE Fresh'
    <2>1. /\ Writer(a) /\ a \in Actor
          /\ \A b \in Actor \ {a} : pc'[b] = pc[b]
      BY <1>9, Named DEF ReportError, Writer, Goto, SerialInv, TypeInv,
         TypeOK, AfterReport
    <2>2. pc'[a] \notin Saving /\ NothingStale'
      BY <1>9, Named DEF ReportError, Goto, Saving, SerialInv, Fresh,
         NothingStale, TypeInv,
         TypeOK, AfterReport, NilReport
    <2>3. FreshOf(a)'
      BY <2>2 DEF FreshOf, Saving
    <2> QED BY <2>1, <2>2, <2>3, FreshByActor DEF SerialInv
  <1>10. ASSUME NEW a \in Actor, NoAddress(a) PROVE Fresh'
    <2>1. /\ Writer(a) /\ a \in Actor
          /\ \A b \in Actor \ {a} : pc'[b] = pc[b]
      BY <1>10, Named DEF NoAddress, Writer, Goto, SerialInv, TypeInv, TypeOK
    <2>2. cfg'[a] = [ini EXCEPT !.restart = TRUE] /\ pc'[a] = "raise"
      BY <1>10 DEF NoAddress, LoadFlag, Goto, SerialInv, TypeInv, TypeOK
    <2>3. cfg'[a].enabled = ini.enabled /\ cfg'[a].restart
      BY <2>2, Fields DEF SerialInv, TypeInv, TypeOK
    <2>4. FreshOf(a)' /\ NothingStale'
      BY <1>10, <2>2, <2>3 DEF NoAddress, NilReport, FreshOf, SerialInv,
         Fresh, NothingStale
    <2> QED BY <2>1, <2>4, FreshByActor DEF SerialInv
  <1>11. ASSUME NEW a \in Actor, Sent(a) PROVE Fresh'
    <2>1. /\ Writer(a) /\ a \in Actor
          /\ \A b \in Actor \ {a} : pc'[b] = pc[b]
      BY <1>11, Named DEF Sent, Writer, Goto, SerialInv, TypeInv, TypeOK
    <2>2. pc'[a] \notin Saving /\ NothingStale'
      BY <1>11, Named DEF Sent, Goto, Saving, SerialInv, Fresh,
         NothingStale, TypeInv,
         TypeOK
    <2>3. FreshOf(a)'
      BY <2>2 DEF FreshOf, Saving
    <2> QED BY <2>1, <2>2, <2>3, FreshByActor DEF SerialInv
  <1>12. ASSUME NEW a \in Actor, NotSent(a) PROVE Fresh'
    <2>1. /\ Writer(a) /\ a \in Actor
          /\ \A b \in Actor \ {a} : pc'[b] = pc[b]
      BY <1>12, Named DEF NotSent, Writer, Goto, SerialInv, TypeInv, TypeOK
    <2>2. pc'[a] \notin Saving /\ NothingStale'
      BY <1>12, Named DEF NotSent, Goto, Saving, SerialInv, Fresh,
         NothingStale, TypeInv,
         TypeOK
    <2>3. FreshOf(a)'
      BY <2>2 DEF FreshOf, Saving
    <2> QED BY <2>1, <2>2, <2>3, FreshByActor DEF SerialInv
  <1>13. ASSUME NEW a \in Actor, GetRemoteConfig(a) PROVE Fresh'
    <2>1. /\ Writer(a) /\ a \in Actor
          /\ \A b \in Actor \ {a} : pc'[b] = pc[b]
      BY <1>13, Named DEF GetRemoteConfig, Writer, Goto, SerialInv, TypeInv,
         TypeOK
    <2>2. cfg'[a] = Loaded(config) /\ pc'[a] \in {"save", "remoteSave"}
      BY <1>13 DEF GetRemoteConfig, Goto, SerialInv, TypeInv, TypeOK
    <2>3. /\ Loaded(config).enabled = config.enabled
          /\ Loaded(config).restart = ini.restart
      BY Fields DEF Loaded, SerialInv, TypeInv, TypeOK
    <2>4. pc["main"] # "boot" /\ pc["js"] # "save"
      BY <1>13, Named DEF GetRemoteConfig, SerialInv, Alone, Writer
    <2>5. "unsaved" \notin excuse => config.enabled = ini.enabled
      BY <2>4 DEF SerialInv, Settled, Clean, Fresh, NothingStale
    <2>6. FreshOf(a)' /\ NothingStale'
      BY <1>13, <2>2, <2>3, <2>5 DEF GetRemoteConfig, FreshOf, SerialInv,
         Fresh, NothingStale
    <2> QED BY <2>1, <2>6, FreshByActor DEF SerialInv
  <1>14. ASSUME NEW a \in Actor, NoRemoteConfig(a) PROVE Fresh'
    <2>1. /\ Writer(a) /\ a \in Actor
          /\ \A b \in Actor \ {a} : pc'[b] = pc[b]
      BY <1>14, Named DEF NoRemoteConfig, Writer, Goto, SerialInv, TypeInv,
         TypeOK
    <2>2. pc'[a] \notin Saving /\ NothingStale'
      BY <1>14, Named DEF NoRemoteConfig, Goto, Saving, SerialInv, Fresh,
         NothingStale, TypeInv,
         TypeOK
    <2>3. FreshOf(a)'
      BY <2>2 DEF FreshOf, Saving
    <2> QED BY <2>1, <2>2, <2>3, FreshByActor DEF SerialInv
  <1>15. ASSUME NEW a \in Actor, SaveRemoteConfig(a) PROVE Fresh'
    <2>1. /\ Writer(a) /\ a \in Actor
          /\ \A b \in Actor \ {a} : pc'[b] = pc[b]
      BY <1>15, Named DEF SaveRemoteConfig, Writer, Goto, SerialInv,
         TypeInv, TypeOK
    <2>2. "unsaved" \notin excuse => cfg[a].enabled = ini.enabled
      BY <1>15 DEF SaveRemoteConfig, SerialInv, Fresh, FreshOf, Saving
    <2>3. NothingStale'
      BY <1>15, <2>2 DEF SaveRemoteConfig, MayBeStale, SerialInv, Fresh,
         NothingStale
    <2>4. pc'[a] \notin Saving
      BY <1>15 DEF SaveRemoteConfig, Goto, Saving, SerialInv, TypeInv, TypeOK
    <2>5. FreshOf(a)'
      BY <2>4 DEF FreshOf, Saving
    <2> QED BY <2>1, <2>3, <2>5, FreshByActor DEF SerialInv
  <1>16. ASSUME NEW m \in Command, Deliver(m) PROVE Fresh'
    <2>1. \A b \in Actor : pc[b] \in {"idle", "reconnect"}
      BY <1>16, NoneActive DEF Deliver
    <2>2. NothingStale' /\ \A b \in Actor : pc'[b] \notin Saving
      BY <1>16, <2>1, Named DEF Deliver, Goto, Saving, SerialInv, Fresh,
         NothingStale,
         TypeInv, TypeOK
    <2> QED BY <2>2, FreshUnlessSaving
  <1>17. ASSUME NEW r \in JobRun, ReportTask(r) PROVE Fresh'
    <2>1. \A b \in Actor : pc[b] \in {"idle", "reconnect"}
      BY <1>17, NoneActive DEF ReportTask
    <2>2. NothingStale' /\ \A b \in Actor : pc'[b] \notin Saving
      BY <1>17, <2>1, Named DEF ReportTask, Goto, Saving, SerialInv, Fresh,
         NothingStale,
         TypeInv, TypeOK
    <2> QED BY <2>2, FreshUnlessSaving
  <1>18. CASE Boot
    <2>1. /\ Writer("main") /\ "main" \in Actor
          /\ \A b \in Actor \ {"main"} : pc'[b] = pc[b]
      BY <1>18, Named DEF Boot, Writer, Goto, SerialInv, TypeInv, TypeOK
    <2>2. pc'["main"] \notin Saving /\ NothingStale'
      BY <1>18, Named DEF Boot, Goto, Saving, SerialInv, Fresh,
         NothingStale, TypeInv,
         TypeOK
    <2>3. FreshOf("main")'
      BY <2>2 DEF FreshOf, Saving
    <2> QED BY <2>1, <2>2, <2>3, FreshByActor DEF SerialInv
  <1>19. CASE Connect
    <2>1. /\ Writer("main") /\ "main" \in Actor
          /\ \A b \in Actor \ {"main"} : pc'[b] = pc[b]
      BY <1>19, Named DEF Connect, Writer, Goto, SerialInv, TypeInv, TypeOK
    <2>2. pc'["main"] \notin Saving /\ NothingStale'
      BY <1>19, Named DEF Connect, Goto, Saving, SerialInv, Fresh,
         NothingStale, TypeInv,
         TypeOK
    <2>3. FreshOf("main")'
      BY <2>2 DEF FreshOf, Saving
    <2> QED BY <2>1, <2>2, <2>3, FreshByActor DEF SerialInv
  <1>20. CASE ConnectFails \/ StartGivesUp
    <2>1. /\ Writer("main") /\ "main" \in Actor
          /\ \A b \in Actor \ {"main"} : pc'[b] = pc[b]
      BY <1>20, Named DEF ConnectFails, StartGivesUp, Writer, Goto, SerialInv, TypeInv,
         TypeOK
    <2>2. pc'["main"] \notin Saving /\ NothingStale'
      BY <1>20, Named DEF ConnectFails, StartGivesUp, Goto, Saving, SerialInv, Fresh,
         NothingStale, TypeInv,
         TypeOK
    <2>3. FreshOf("main")'
      BY <2>2 DEF FreshOf, Saving
    <2> QED BY <2>1, <2>2, <2>3, FreshByActor DEF SerialInv
  <1>21. CASE Reconnect
    <2>1. \A b \in Actor : pc[b] \in {"idle", "reconnect"}
      BY <1>21 DEF Reconnect, SerialInv, TypeInv, Connecting
    <2>2. NothingStale' /\ \A b \in Actor : pc'[b] \notin Saving
      BY <1>21, <2>1, Named DEF Reconnect, Goto, Saving, SerialInv, Fresh,
         NothingStale,
         TypeInv, TypeOK
    <2> QED BY <2>2, FreshUnlessSaving
  <1>22. CASE Read
    <2>1. /\ Writer("js") /\ "js" \in Actor
          /\ \A b \in Actor \ {"js"} : pc'[b] = pc[b]
      BY <1>22, Named DEF Read, Writer, Goto, SerialInv, TypeInv, TypeOK
    <2>2. pc'["js"] \notin Saving /\ NothingStale'
      BY <1>22, Named DEF Read, Goto, Saving, SerialInv, Fresh,
         NothingStale, TypeInv,
         TypeOK
    <2>3. FreshOf("js")'
      BY <2>2 DEF FreshOf, Saving
    <2> QED BY <2>1, <2>2, <2>3, FreshByActor DEF SerialInv
  <1>23. CASE ReadFails
    <2>1. /\ Writer("js") /\ "js" \in Actor
          /\ \A b \in Actor \ {"js"} : pc'[b] = pc[b]
      BY <1>23, Named DEF ReadFails, Writer, Goto, SerialInv, TypeInv, TypeOK
    <2>2. pc'["js"] \notin Saving /\ NothingStale'
      BY <1>23, Named DEF ReadFails, Goto, Saving, SerialInv, Fresh,
         NothingStale, TypeInv,
         TypeOK
    <2>3. FreshOf("js")'
      BY <2>2 DEF FreshOf, Saving
    <2> QED BY <2>1, <2>2, <2>3, FreshByActor DEF SerialInv
  <1>24. CASE RemoveForDisable
    <2>1. CASE ProcessDies
      BY <2>1, DiesFresh DEF SerialInv
    <2>2. CASE ~ProcessDies
      <3>1. Writer("js") /\ "js" \in Actor
        BY <1>24, Named DEF RemoveForDisable, Writer
      <3>2. /\ \A b \in Actor \ {"js"} : pc'[b] = pc[b]
            /\ pc'["js"] \notin Saving /\ NothingStale'
        BY <1>24, <2>2, Named DEF RemoveForDisable, RemoveReportJob, Goto,
           Saving, SerialInv,
           Fresh, NothingStale, TypeInv, TypeOK
      <3>3. FreshOf("js")'
        BY <3>2 DEF FreshOf, Saving
      <3> QED BY <3>1, <3>2, <3>3, FreshByActor DEF SerialInv
    <2> QED BY <2>1, <2>2
  <1>25. CASE SetEnabled
    <2>1. /\ Writer("js") /\ "js" \in Actor
          /\ \A b \in Actor \ {"js"} : pc'[b] = pc[b]
      BY <1>25, Named DEF SetEnabled, Writer, Goto, SerialInv, TypeInv, TypeOK
    <2>2. cfg'["js"].restart = ini.restart
      <3> DEFINE set == [config EXCEPT !.enabled = (command = "enable")]
      <3>1. set \in Config
        BY DEF SerialInv, TypeInv, TypeOK, Config
      <3>2. Loaded(set).restart = ini.restart
        BY <3>1, Fields DEF Loaded, SerialInv, TypeInv, TypeOK
      <3> QED BY <1>25, <3>2, Named DEF SetEnabled, SerialInv, TypeInv, TypeOK
    <2>3. pc'["js"] = "save" /\ UNCHANGED <<ini, excuse>>
      BY <1>25, Named DEF SetEnabled, Goto, SerialInv, TypeInv, TypeOK
    <2>4. FreshOf("js")' /\ NothingStale'
      BY <2>2, <2>3 DEF FreshOf, SerialInv, Fresh, NothingStale
    <2> QED BY <2>1, <2>4, FreshByActor DEF SerialInv
  <1>26. CASE SetFails
    <2>1. /\ Writer("js") /\ "js" \in Actor
          /\ \A b \in Actor \ {"js"} : pc'[b] = pc[b]
      BY <1>26, Named DEF SetFails, Writer, Goto, SerialInv, TypeInv, TypeOK
    <2>2. pc'["js"] \notin Saving /\ NothingStale'
      BY <1>26, Named DEF SetFails, Goto, Saving, SerialInv, Fresh,
         NothingStale, TypeInv,
         TypeOK
    <2>3. FreshOf("js")'
      BY <2>2 DEF FreshOf, Saving
    <2> QED BY <2>1, <2>2, <2>3, FreshByActor DEF SerialInv
  <1>27. CASE SaveEnabled
    <2>1. \A b \in Actor \ {"js"} : pc[b] \notin Saving
      BY <1>27, Named DEF SaveEnabled, SerialInv, Alone, Writer, Saving
    <2>2. NothingStale' /\ \A b \in Actor : pc'[b] \notin Saving
      BY <1>27, <2>1, Named DEF SaveEnabled, Goto, Saving, NothingStale,
         SerialInv,
         TypeInv, TypeOK
    <2> QED BY <2>2, FreshUnlessSaving
  <1>28. CASE Ack
    <2>1. pc'["js"] \in {"idle", "report"} /\ \A b \in Actor \ {"js"} : pc'[b] = pc[b]
      BY <1>28, Named DEF Ack, Goto, SerialInv, TypeInv, TypeOK
    <2>2. UNCHANGED <<ini, cfg, excuse>>
      BY <1>28 DEF Ack
    <2> QED BY <2>1, <2>2 DEF SerialInv, Fresh, FreshOf, NothingStale, Saving
  <1>29. CASE NewConfig
    <2>1. \A b \in Actor : pc[b] \in {"idle", "reconnect"}
      BY <1>29, NoneActive DEF NewConfig
    <2>2. NothingStale' /\ \A b \in Actor : pc'[b] \notin Saving
      BY <1>29, <2>1, Named DEF NewConfig, Goto, Saving, SerialInv, Fresh,
         NothingStale,
         TypeInv, TypeOK
    <2> QED BY <2>2, FreshUnlessSaving
  <1>30. CASE Reschedule
    <2>1. /\ Writer("newconfig") /\ "newconfig" \in Actor
          /\ \A b \in Actor \ {"newconfig"} : pc'[b] = pc[b]
      BY <1>30, Named DEF Reschedule, Writer, Goto, SerialInv, TypeInv, TypeOK
    <2>2. pc'["newconfig"] \notin Saving /\ NothingStale'
      BY <1>30, Named DEF Reschedule, Goto, Saving, SerialInv, Fresh,
         NothingStale, TypeInv,
         TypeOK
    <2>3. FreshOf("newconfig")'
      BY <2>2 DEF FreshOf, Saving
    <2> QED BY <2>1, <2>2, <2>3, FreshByActor DEF SerialInv
  <1>31. CASE RescheduleAnsible
    <2>1. CASE ProcessDies
      BY <2>1, DiesFresh DEF SerialInv
    <2>2. CASE ~ProcessDies
      <3>1. Writer("newconfig") /\ "newconfig" \in Actor
        BY <1>31, Named DEF RescheduleAnsible, Writer
      <3>2. /\ \A b \in Actor \ {"newconfig"} : pc'[b] = pc[b]
            /\ pc'["newconfig"] \notin Saving /\ NothingStale'
        BY <1>31, <2>2, Named DEF RescheduleAnsible, RemoveReportJob, Goto,
           Saving, SerialInv,
           Fresh, NothingStale, TypeInv, TypeOK
      <3>3. FreshOf("newconfig")'
        BY <3>2 DEF FreshOf, Saving
      <3> QED BY <3>1, <3>2, <3>3, FreshByActor DEF SerialInv
    <2> QED BY <2>1, <2>2
  <1>32. CASE AgentSettings
    <2>1. \A b \in Actor : pc[b] \in {"idle", "reconnect"}
      BY <1>32, NoneActive DEF AgentSettings
    <2>2. NothingStale' /\ \A b \in Actor : pc'[b] \notin Saving
      BY <1>32, <2>1, Named DEF AgentSettings, Goto, Saving, SerialInv,
         Fresh, NothingStale,
         TypeInv, TypeOK
    <2> QED BY <2>2, FreshUnlessSaving
  <1>33. CASE ProfilesRequestFails
    <2>1. \A b \in Actor : pc[b] \in {"idle", "reconnect"}
      BY <1>33, NoneActive DEF ProfilesRequestFails
    <2>2. NothingStale' /\ \A b \in Actor : pc'[b] \notin Saving
      BY <1>33, <2>1, Named DEF ProfilesRequestFails, Goto, Saving,
         SerialInv, Fresh, NothingStale,
         TypeInv, TypeOK
    <2> QED BY <2>2, FreshUnlessSaving
  <1>34. CASE ProfilesPanic
    <2>1. CASE ProcessDies
      BY <2>1, DiesFresh DEF SerialInv
    <2>2. CASE ~ProcessDies
      <3>1. /\ Writer("profiles") /\ "profiles" \in Actor
            /\ \A b \in Actor \ {"profiles"} : pc'[b] = pc[b]
        BY <1>34, <2>2, Named
        DEF ProfilesPanic, Writer, Goto, SerialInv, TypeInv, TypeOK
      <3>2. pc'["profiles"] \notin Saving /\ NothingStale'
        BY <1>34, <2>2, Named
        DEF ProfilesPanic, Goto, Saving, SerialInv, Fresh, NothingStale,
            TypeInv, TypeOK
      <3>3. FreshOf("profiles")'
        BY <3>2 DEF FreshOf, Saving
      <3> QED BY <3>1, <3>2, <3>3, FreshByActor DEF SerialInv
    <2> QED BY <2>1, <2>2
  <1>35. CASE Crash
    BY <1>35, DiesFresh DEF Crash, SerialInv
  <1>36. CASE UNCHANGED vars
    BY <1>36 DEF vars, SerialInv, Fresh, FreshOf, NothingStale
  <1> QED BY <1>1, <1>2, <1>3, <1>4, <1>5, <1>6, <1>7, <1>8, <1>9, <1>10,
        <1>11, <1>12, <1>13, <1>14, <1>15, <1>16, <1>17, <1>18, <1>19, <1>20,
        <1>21, <1>22, <1>23, <1>24, <1>25, <1>26, <1>27, <1>28, <1>29, <1>30,
        <1>31, <1>32, <1>33, <1>34, <1>35, <1>36 DEF Next, Step, Start, Consume

LEMMA Serial == MaxOverlap = 1 /\ Spec => []SerialInv
  <1> SUFFICES ASSUME MaxOverlap = 1 PROVE Spec => []SerialInv
    OBVIOUS
  <1>1. Init => SerialInv
    BY TypeInit, SettledInit, AloneInit, FreshInit DEF SerialInv
  <1>2. SerialInv /\ [Next]_vars => SerialInv'
    BY TypeOKStep, HandledStep, ConnectingStep, SettledStep, AloneStep,
       FreshStep
    DEF SerialInv, TypeInv
  <1> QED BY <1>1, <1>2, PTL DEF Spec

(* If goroutines do not overlap, the last command is what the file and the *)
(* memory of an agent at rest hold, whatever crashed, failed or came twice.*)
THEOREM SerialEnabledPersisted == MaxOverlap = 1 /\ Spec => []EnabledPersisted
  <1>1. SerialInv => EnabledPersisted
    BY Named DEF SerialInv, TypeInv, TypeOK, Settled, Clean, Fresh,
       NothingStale,
       EnabledPersisted, Quiet, Active
  <1> QED BY Serial, <1>1, PTL

(* The steps that write the file.                                          *)
LEMMA OnlySaves ==
    [Next]_vars =>
        \/ UNCHANGED ini \/ Boot \/ SaveEnabled
        \/ \E a \in Actor : Save(a) \/ SaveFlag(a) \/ SaveRemoteConfig(a)
  <1> SUFFICES ASSUME Next
      PROVE  \/ UNCHANGED ini \/ Boot \/ SaveEnabled
             \/ \E a \in Actor : Save(a) \/ SaveFlag(a) \/ SaveRemoteConfig(a)
    BY DEF vars
  <1>1. ProcessDies => UNCHANGED ini
    BY DEF ProcessDies
  <1>2. ASSUME NEW a \in Actor, Step(a)
        PROVE  UNCHANGED ini \/ Save(a) \/ SaveFlag(a) \/ SaveRemoteConfig(a)
    BY <1>1, <1>2 DEF Step, Load, LoadFails, SetRestartRequiredFlag, Add,
       Remove,
       RemoveReportJob, ReportBuilt, ReportError, NoAddress, Sent, NotSent,
       GetRemoteConfig, NoRemoteConfig
  <1>3. CASE Start
    BY <1>3 DEF Start, Connect, ConnectFails, StartGivesUp, Reconnect
  <1>4. CASE Consume
    BY <1>1, <1>4 DEF Consume, Read, ReadFails, RemoveForDisable,
       RemoveReportJob,
       SetEnabled, SetFails, Ack
  <1>5. CASE (\E m \in Command : Deliver(m)) \/ (\E r \in JobRun : ReportTask(r))
    BY <1>5 DEF Deliver, ReportTask
  <1>6. CASE \/ NewConfig \/ Reschedule \/ RescheduleAnsible \/ AgentSettings
             \/ ProfilesRequestFails \/ ProfilesPanic \/ Crash
    BY <1>1, <1>6 DEF NewConfig, Reschedule, RescheduleAnsible, AgentSettings,
       ProfilesRequestFails, ProfilesPanic, Crash
  <1> QED BY <1>2, <1>3, <1>4, <1>5, <1>6 DEF Next

(* If goroutines do not overlap, RestartRequired is lowered by a start of  *)
(* the agent and by nothing else.                                          *)
THEOREM SerialRestartFlagKept == MaxOverlap = 1 /\ Spec => RestartFlagKept
  <1>1. ASSUME SerialInv, [Next]_vars, ini.restart, ~ini'.restart
        PROVE  pc["main"] = "boot"
    <2>1. CASE Boot
      BY <2>1 DEF Boot
    <2>2. CASE SaveEnabled
      BY <1>1, <2>2, Named DEF SaveEnabled, SaveTo, SerialInv, Fresh, FreshOf
    <2>3. ASSUME NEW a \in Actor, Save(a) \/ SaveFlag(a) \/ SaveRemoteConfig(a)
          PROVE  FALSE
      BY <1>1, <2>3 DEF Save, SaveFlag, SaveRemoteConfig, SaveTo, SerialInv,
         Fresh,
         FreshOf
    <2> QED BY <1>1, <2>1, <2>2, <2>3, OnlySaves
  <1> QED BY Serial, <1>1, PTL DEF Spec, RestartFlagKept


=============================================================================
