------------------------ MODULE RemoteDesktopProofs ------------------------
(***************************************************************************)
(* Proofs about RemoteDesktop and ServerCertificate, for any number of     *)
(* sessions, certificates and faults, and any set of remote desktop        *)
(* servers.                                                                *)
(***************************************************************************)
EXTENDS RemoteDesktop, TLAPS

-----------------------------------------------------------------------------
(* The certificate.                                                        *)

(* What a step of the remote desktop may be for the certificate.           *)
CertStep ==
    \/ CertNext
    \/ CertCrash /\ Fault
    \/ Fault /\ UNCHANGED <<issued, delivered, unacked, installing, keySaved,
                            keyFile, certFile, failedSave, again>>
    \/ UNCHANGED certVars

(* The message that is handled is not acknowledged yet.                    *)
Handling ==
    /\ installing # NoFile => installing \in unacked /\ installing <= delivered
    /\ keySaved => installing # NoFile /\ keyFile = installing

(* Two files that differ are the work of a message that will come again.   *)
Repaired == ~failedSave /\ keyFile # certFile => unacked # {}

(* Without faults the messages are handled once, in the order of the       *)
(* stream.                                                                 *)
InOrder ==
    ~failedSave /\ ~again =>
        /\ installing = NoFile =>
              unacked = delivered + 1 .. issued /\ certFile = delivered
        /\ installing # NoFile =>
              /\ installing = delivered
              /\ unacked = delivered .. issued

(* The first certificate is only there together with its key.              *)
FirstPair ==
    ~failedSave /\ issued <= 1 =>
        certFile \in 0 .. issued /\ (certFile # NoFile => keyFile = certFile)

CertInv == CertTypeOK /\ Handling /\ Repaired /\ InOrder /\ FirstPair

(* The contents of a file are numbers.                                     *)
LEMMA Contents ==
    /\ MaxCertificates \in Nat /\ MaxFaults \in Nat
    /\ 0 \in 0 .. MaxCertificates /\ 0 \in 0 .. MaxFaults
    /\ 0 \in 0 .. Torn /\ Torn \in 0 .. Torn /\ Certificate \subseteq 0 .. Torn
  BY BoundsAssumption DEF BoundsAssumption, Torn, Certificate

LEMMA CertInitInv == CertInit => CertInv
  <1> SUFFICES ASSUME CertInit PROVE CertInv
    OBVIOUS
  <1>1. CertTypeOK
    <2>1. delivered \in 0 .. issued /\ unacked \subseteq 1 .. issued
      BY DEF CertInit
    <2> QED BY <2>1, Contents DEF CertInit, CertTypeOK, NoFile
  <1>2. Handling /\ Repaired
    BY DEF CertInit, Handling, Repaired
  <1>3. InOrder /\ FirstPair
    BY DEF CertInit, InOrder, FirstPair, NoFile
  <1> QED BY <1>1, <1>2, <1>3 DEF CertInv

LEMMA CertStepType ==
    ASSUME CertTypeOK, Handling, CertStep
    PROVE  CertTypeOK'
  <1> USE Contents DEF CertTypeOK, NoFile
  <1>1. CASE Issue
    BY <1>1 DEF Issue
  <1>2. CASE Deliver
    <2>1. installing' \in Certificate /\ delivered' \in 0 .. issued
      BY <1>2 DEF Deliver, Certificate
    <2> QED BY <1>2, <2>1 DEF Deliver
  <1>3. CASE SavePrivateKey
    BY <1>3 DEF SavePrivateKey
  <1>4. CASE SaveCertificate
    <2>1. again' \in BOOLEAN /\ unacked' \subseteq unacked
      BY <1>4 DEF SaveCertificate, Ack
    <2>2. faults' \in 0 .. MaxFaults
      BY <1>4 DEF SaveCertificate, Ack, Fault
    <2> QED BY <1>4, <2>1, <2>2 DEF SaveCertificate, HandlerEnds
  <1>5. CASE SaveFails
    <2>1. faults' \in 0 .. MaxFaults
      BY <1>5 DEF SaveFails, Fault
    <2>2. keyFile' \in 0 .. Torn /\ certFile' \in 0 .. Torn
      BY <1>5 DEF SaveFails
    <2> QED BY <1>5, <2>1, <2>2 DEF SaveFails, HandlerEnds
  <1>6. CASE CertCrash /\ Fault
    <2>1. faults' \in 0 .. MaxFaults
      BY <1>6 DEF Fault
    <2>2. again' \in BOOLEAN
      BY <1>6 DEF CertCrash
    <2> QED BY <1>6, <2>1, <2>2 DEF CertCrash, HandlerEnds
  <1>7. CASE Fault /\ UNCHANGED <<issued, delivered, unacked, installing,
                         keySaved, keyFile, certFile, failedSave, again>>
    BY <1>7 DEF Fault
  <1>8. CASE UNCHANGED certVars
    BY <1>8 DEF certVars
  <1> QED BY <1>1, <1>2, <1>3, <1>4, <1>5, <1>6, <1>7, <1>8 DEF CertStep,
             CertNext

LEMMA CertStepHandling ==
    ASSUME CertTypeOK, Handling, CertStep
    PROVE  Handling'
  <1> USE BoundsAssumption
      DEF BoundsAssumption, CertTypeOK, Handling, Certificate, NoFile, Torn
  <1>1. CASE Issue
    BY <1>1 DEF Issue
  <1>2. CASE Deliver
    BY <1>2 DEF Deliver
  <1>3. CASE SavePrivateKey
    BY <1>3 DEF SavePrivateKey
  <1>4. CASE SaveCertificate
    BY <1>4 DEF SaveCertificate, HandlerEnds
  <1>5. CASE SaveFails
    BY <1>5 DEF SaveFails, HandlerEnds
  <1>6. CASE CertCrash /\ Fault
    BY <1>6 DEF CertCrash, HandlerEnds
  <1>7. CASE Fault /\ UNCHANGED <<issued, delivered, unacked, installing,
                         keySaved, keyFile, certFile, failedSave, again>>
    BY <1>7
  <1>8. CASE UNCHANGED certVars
    BY <1>8 DEF certVars
  <1> QED BY <1>1, <1>2, <1>3, <1>4, <1>5, <1>6, <1>7, <1>8 DEF CertStep,
             CertNext

LEMMA CertStepRepaired ==
    ASSUME CertTypeOK, Handling, Repaired, CertStep
    PROVE  Repaired'
  <1> USE DEF CertTypeOK, Handling, Repaired, NoFile
  <1>1. CASE Issue
    BY <1>1 DEF Issue
  <1>2. CASE Deliver
    BY <1>2 DEF Deliver
  <1>3. CASE SavePrivateKey
    BY <1>3 DEF SavePrivateKey
  <1>4. CASE SaveCertificate
    BY <1>4 DEF SaveCertificate
  <1>5. CASE SaveFails
    BY <1>5 DEF SaveFails
  <1>6. CASE CertCrash /\ Fault
    BY <1>6 DEF CertCrash
  <1>7. CASE Fault /\ UNCHANGED <<issued, delivered, unacked, installing,
                         keySaved, keyFile, certFile, failedSave, again>>
    BY <1>7
  <1>8. CASE UNCHANGED certVars
    BY <1>8 DEF certVars
  <1> QED BY <1>1, <1>2, <1>3, <1>4, <1>5, <1>6, <1>7, <1>8 DEF CertStep,
             CertNext

LEMMA CertStepInOrder ==
    ASSUME CertTypeOK, Handling, InOrder, CertStep
    PROVE  InOrder'
  <1> USE BoundsAssumption
      DEF BoundsAssumption, CertTypeOK, Handling, InOrder, Certificate, NoFile
  <1>1. CASE Issue
    BY <1>1 DEF Issue
  <1>2. CASE Deliver
    BY <1>2 DEF Deliver
  <1>3. CASE SavePrivateKey
    BY <1>3 DEF SavePrivateKey
  <1>4. CASE SaveCertificate
    <2> SUFFICES ASSUME ~failedSave, ~again, ~again'
                 PROVE  unacked' = delivered + 1 .. issued /\ certFile' = delivered
      BY <1>4 DEF SaveCertificate, HandlerEnds, Ack
    <2>1. unacked' = unacked \ {installing}
      BY <1>4 DEF SaveCertificate, Ack
    <2> QED BY <1>4, <2>1 DEF SaveCertificate
  <1>5. CASE SaveFails
    BY <1>5 DEF SaveFails
  <1>6. CASE CertCrash /\ Fault
    BY <1>6 DEF CertCrash, HandlerEnds
  <1>7. CASE Fault /\ UNCHANGED <<issued, delivered, unacked, installing,
                         keySaved, keyFile, certFile, failedSave, again>>
    BY <1>7
  <1>8. CASE UNCHANGED certVars
    BY <1>8 DEF certVars
  <1> QED BY <1>1, <1>2, <1>3, <1>4, <1>5, <1>6, <1>7, <1>8 DEF CertStep,
             CertNext

LEMMA CertStepFirstPair ==
    ASSUME CertTypeOK, Handling, FirstPair, CertStep
    PROVE  FirstPair'
  <1> USE BoundsAssumption
      DEF BoundsAssumption, CertTypeOK, Handling, FirstPair, Certificate, NoFile
  <1>1. CASE Issue
    BY <1>1 DEF Issue
  <1>2. CASE Deliver
    BY <1>2 DEF Deliver
  <1>3. CASE SavePrivateKey
    BY <1>3 DEF SavePrivateKey
  <1>4. CASE SaveCertificate
    BY <1>4 DEF SaveCertificate
  <1>5. CASE SaveFails
    BY <1>5 DEF SaveFails
  <1>6. CASE CertCrash /\ Fault
    BY <1>6 DEF CertCrash
  <1>7. CASE Fault /\ UNCHANGED <<issued, delivered, unacked, installing,
                         keySaved, keyFile, certFile, failedSave, again>>
    BY <1>7
  <1>8. CASE UNCHANGED certVars
    BY <1>8 DEF certVars
  <1> QED BY <1>1, <1>2, <1>3, <1>4, <1>5, <1>6, <1>7, <1>8 DEF CertStep,
             CertNext

(* While no save failed and one certificate at most was issued, the one    *)
(* that is there stays.                                                    *)
LEMMA FirstStays ==
    ASSUME CertInv, CertStep, ~failedSave', issued' <= 1
    PROVE  ~failedSave /\ issued <= 1 /\ (certFile = 1 => certFile' = 1)
  <1> USE BoundsAssumption
      DEF BoundsAssumption, CertInv, CertTypeOK, Handling, FirstPair,
          Certificate, NoFile
  <1>1. CASE Issue
    BY <1>1 DEF Issue
  <1>2. CASE Deliver
    BY <1>2 DEF Deliver
  <1>3. CASE SavePrivateKey
    BY <1>3 DEF SavePrivateKey
  <1>4. CASE SaveCertificate
    BY <1>4 DEF SaveCertificate
  <1>5. CASE SaveFails
    BY <1>5 DEF SaveFails
  <1>6. CASE CertCrash /\ Fault
    BY <1>6 DEF CertCrash
  <1>7. CASE Fault /\ UNCHANGED <<issued, delivered, unacked, installing,
                         keySaved, keyFile, certFile, failedSave, again>>
    BY <1>7
  <1>8. CASE UNCHANGED certVars
    BY <1>8 DEF certVars
  <1> QED BY <1>1, <1>2, <1>3, <1>4, <1>5, <1>6, <1>7, <1>8 DEF CertStep,
             CertNext

(* The two modules composed: what the remote desktop does to the           *)
(* certificate is nothing, a fault or a crash.                             *)
LEMMA EveryStepIsCertStep == [Next]_vars => CertStep
  <1>1. ASSUME Start \/ Stop PROVE CertStep
    BY <1>1 DEF Start, Stop, StartRefused, StartReceived, Configure,
       ConfigureCertificate, ConfigureKey, DirectoryGone, SavePIN, Spawn,
       StartFails, ServerStarts, ServerFails, ProxyStarts, StopReceived,
       CloseProxy, RemovePIN, StopService, StopFails, Forget, CertStep
  <1>2. ASSUME Crash PROVE CertStep
    BY <1>2 DEF Crash, CertStep
  <1>3. ASSUME CertNext PROVE CertStep
    BY <1>3 DEF CertStep
  <1>4. ASSUME UNCHANGED vars PROVE CertStep
    BY <1>4 DEF vars, CertStep
  <1> QED BY <1>1, <1>2, <1>3, <1>4 DEF Next

(* The inductive invariant of the certificate holds of the composition.    *)
THEOREM CertificateCorrect == Spec => []CertInv
  <1>1. Init => CertInv
    BY CertInitInv DEF Init
  <1>2. CertInv /\ [Next]_vars => CertInv'
    BY EveryStepIsCertStep, CertStepType, CertStepHandling, CertStepRepaired,
       CertStepInOrder, CertStepFirstPair DEF CertInv
  <1> QED BY <1>1, <1>2, PTL DEF Spec

(* server.key and server.cer belong together once all messages are         *)
(* acknowledged, unless a save failed.                                     *)
THEOREM PairOfFiles == Spec => []PairMatches
  <1>1. CertInv => PairMatches
    BY DEF CertInv, Repaired, PairMatches
  <1> QED BY <1>1, CertificateCorrect, PTL

(* And they are the last certificate that was issued, unless a message was *)
(* handled twice.                                                          *)
THEOREM PairLast == Spec => []PairIsCurrent
  <1>1. CertInv => PairIsCurrent
    <2> SUFFICES ASSUME CertInv, unacked = {}, installing = NoFile,
                        ~failedSave, ~again
                 PROVE  certFile = issued
      BY DEF PairIsCurrent
    <2>1. delivered + 1 .. issued = {} /\ certFile = delivered
      BY DEF CertInv, InOrder
    <2>2. delivered \in 0 .. issued /\ issued \in Nat
      BY BoundsAssumption DEF BoundsAssumption, CertInv, CertTypeOK
    <2>3. delivered >= issued
      BY <2>1, <2>2
    <2> QED BY <2>1, <2>2, <2>3
  <1> QED BY <1>1, CertificateCorrect, PTL
-----------------------------------------------------------------------------
(* The sessions.                                                           *)

(* The part of TypeOK that is not about the certificate.                   *)
SessionTypeOK ==
    /\ backend \in Backends /\ certPath \in BOOLEAN /\ keyPath \in BOOLEAN
    /\ made \in 0 .. MaxSessions
    /\ handle \in {NoSession, made} /\ target \in 0 .. made
    /\ start \in StartSteps /\ stop \in StopSteps
    /\ server \in [Session -> {"none", "spawned", "running", "ended"}]
    /\ proxy \in [Session -> {"none", "spawned", "serving", "ended"}]
    /\ pin \in 0 .. made /\ rdpCert \in 0 .. Torn /\ rdpKey \in 0 .. Torn
    /\ cause \in [Session -> SUBSET (StrayCauses \cup StartCauses)]
    /\ start # "idle" => made # 0
    /\ start = "configureKey" => ~UsesProxy
    /\ stop # "idle" => target # NoSession /\ handle # NoSession

(* A session that may be left behind, and one that is there in some way.   *)
Left(causes) == causes \cap StrayCauses # {}

There(s) ==
    \/ server[s] \in {"spawned", "running"}
    \/ proxy[s] \in {"spawned", "serving"}
    \/ pin = s
    \/ start # "idle" /\ made = s

(* A session that is there, and that a.RemoteDesktop does not lead to, has *)
(* its cause.                                                              *)
Accounted == \A s \in Session : There(s) => s = handle \/ Left(cause[s])

(* Nothing has happened to the sessions still to come, and a server        *)
(* without a proxy has none.                                               *)
ToCome ==
    /\ \A s \in Session : s > made =>
          server[s] = "none" /\ proxy[s] = "none" /\ cause[s] = {}
    /\ ~UsesProxy => \A s \in Session : proxy[s] = "none"

(* What the stop handler has done so far for the object it will forget,    *)
(* if no start ran into it.                                                *)
Stopping ==
    stop # "idle" /\ ~Left(cause[handle]) =>
        /\ target = handle
        /\ start = "idle"
        /\ server[handle] # "spawned" /\ proxy[handle] # "spawned"
        /\ stop # "proxy" => proxy[handle] # "serving"
        /\ stop \in {"service", "forget"} => pin # handle
        /\ stop = "forget" => server[handle] # "running"

(* How far the session of a.RemoteDesktop has come, if nothing went wrong. *)
Working ==
    handle # NoSession /\ stop = "idle" /\ cause[handle] = {} =>
        /\ start # "idle" => server[handle] = "none" /\ proxy[handle] = "none"
        /\ start = "spawn" => pin = handle
        /\ start \notin {"configure", "configureKey"} /\ ~UsesProxy =>
              Readable(rdpCert) /\ rdpKey = rdpCert
        /\ start = "idle" =>
              /\ pin = handle
              /\ server[handle] \in {"spawned", "running"}
              /\ UsesProxy => proxy[handle] \in {"spawned", "serving"}

(* A port is only taken if some session was left behind.                   *)
PortTaken ==
    \A s \in Session : "port taken" \in cause[s] =>
       \E t \in Session : Left(cause[t])

(* As long as the first certificate is the only one, a start that found it *)
(* finds it again.                                                         *)
OneCertificate ==
    ~failedSave /\ issued <= 1 =>
        /\ certPath => certFile = 1
        /\ start # "idle" => certPath
        /\ \A s \in Session : proxy[s] = "spawned" => certPath
        /\ start = "configureKey" => rdpCert \in {NoFile, certFile}
        /\ \A s \in Session : "certificate" \notin cause[s]

SessionInv ==
    /\ SessionTypeOK /\ Accounted /\ ToCome /\ Stopping /\ Working
    /\ PortTaken /\ OneCertificate

(* What Blame does to the causes: they only become more.                   *)
LEMMA Blamed ==
    ASSUME SessionTypeOK, NEW S, NEW c, Blame(S, c)
    PROVE  \A s \in Session :
              /\ s \in S => cause'[s] = cause[s] \cup {c}
              /\ s \notin S => cause'[s] = cause[s]
  BY DEF Blame, SessionTypeOK

LEMMA BlamedType ==
    ASSUME SessionTypeOK, NEW S, NEW c, c \in StrayCauses \/ c \in StartCauses,
           Blame(S, c)
    PROVE  cause' \in [Session -> SUBSET (StrayCauses \cup StartCauses)]
  BY DEF Blame, SessionTypeOK

(* Every step either leaves the causes alone or blames something.          *)
LEMMA CausesGrow ==
    ASSUME SessionTypeOK, [Next]_vars
    PROVE  /\ cause' \in [Session -> SUBSET (StrayCauses \cup StartCauses)]
           /\ \A s \in Session :
                 cause[s] \subseteq cause'[s] /\ (Left(cause[s]) => Left(cause'[s]))
  <1> DEFINE Grow ==
               /\ cause' \in [Session -> SUBSET (StrayCauses \cup StartCauses)]
               /\ \A s \in Session :
                     cause[s] \subseteq cause'[s] /\ (Left(cause[s]) =>
                        Left(cause'[s]))
  <1>1. UNCHANGED cause => Grow
    BY DEF SessionTypeOK, Left
  <1>2. ASSUME NEW S, NEW c \in StrayCauses \cup StartCauses, Blame(S, c)
        PROVE  Grow
    <2>1. c \in StrayCauses \/ c \in StartCauses
      BY <1>2
    <2>2. cause' \in [Session -> SUBSET (StrayCauses \cup StartCauses)]
      BY <1>2, <2>1, BlamedType
    <2>3. \A s \in Session : cause[s] \subseteq cause'[s]
      BY <1>2, Blamed
    <2> QED BY <2>2, <2>3 DEF Left
  <1> HIDE DEF Grow
  <1> SUFFICES Grow
    BY DEF Grow
  <1>3. {"overlap", "second start", "failed stop", "crash", "failed start",
         "certificate", "port taken"} = StrayCauses \cup StartCauses
    BY DEF StrayCauses, StartCauses
  <1>4. CASE StartReceived
    BY <1>1, <1>2, <1>3, <1>4 DEF StartReceived
  <1>5. CASE StartFails
    BY <1>2, <1>3, <1>5 DEF StartFails
  <1>6. ASSUME NEW s \in Session, ServerFails(s) \/ ProxyStarts(s)
        PROVE  Grow
    BY <1>1, <1>2, <1>3, <1>6 DEF ServerFails, ProxyStarts
  <1>7. CASE StopReceived
    BY <1>1, <1>2, <1>3, <1>7 DEF StopReceived
  <1>8. CASE StopFails
    BY <1>2, <1>3, <1>8 DEF StopFails
  <1>9. CASE Crash
    BY <1>2, <1>3, <1>9 DEF Crash
  <1>10. CASE StartRefused \/ Configure \/ ConfigureCertificate \/ SavePIN
              \/ Spawn \/ CloseProxy \/ RemovePIN \/ StopService \/ Forget
              \/ \E s \in Session : ServerStarts(s)
    BY <1>1, <1>10 DEF StartRefused, Configure, ConfigureCertificate, SavePIN,
       Spawn, CloseProxy, RemovePIN, StopService, Forget, ServerStarts
  <1>11. CASE UNCHANGED rdVars
    BY <1>1, <1>11 DEF rdVars
  <1>12. CASE ConfigureKey
    BY <1>1, <1>2, <1>3, <1>12 DEF ConfigureKey
  <1>13. CASE DirectoryGone
    BY <1>2, <1>3, <1>13 DEF DirectoryGone
  <1> QED BY <1>4, <1>5, <1>6, <1>7, <1>8, <1>9, <1>10, <1>11, <1>12, <1>13
          DEF Next, Start, Stop, vars

(* Types are kept.                                                         *)
LEMMA SessionTypes ==
    ASSUME CertTypeOK, SessionTypeOK, [Next]_vars
    PROVE  SessionTypeOK'
  <1> /\ cause' \in [Session -> SUBSET (StrayCauses \cup StartCauses)]
      /\ made \in Nat /\ 0 \in 0 .. made /\ made \in 0 .. made
      /\ certFile \in 0 .. Torn /\ keyFile \in 0 .. Torn
      /\ 0 \in 0 .. Torn /\ Torn \in 0 .. Torn
    BY CausesGrow, Contents, BackendsAssumption
    DEF SessionTypeOK, CertTypeOK, BackendsAssumption
  <1> USE BackendsAssumption
      DEF BackendsAssumption, SessionTypeOK, StartSteps, StopSteps, NoSession,
          NoFile, UsesProxy
  <1>1. CASE StartRefused
    BY <1>1 DEF StartRefused, GetServerCertificate, copies
  <1>2. CASE StartReceived
    <2>1. /\ made' \in 0 .. MaxSessions /\ handle' = made' /\ made' # 0
          /\ target \in 0 .. made' /\ pin \in 0 .. made'
      <3>1. made' = made + 1 /\ made < MaxSessions /\ handle' = made'
        BY <1>2 DEF StartReceived
      <3> QED BY <3>1
    <2> QED BY <1>2, <2>1 DEF StartReceived, GetServerCertificate, copies
  <1>3. CASE Configure \/ ConfigureCertificate
    BY <1>3 DEF Configure, ConfigureCertificate, copies
  <1>4. CASE SavePIN
    BY <1>4 DEF SavePIN, copies
  <1>5. CASE Spawn
    BY <1>5 DEF Spawn, copies
  <1>6. CASE StartFails
    BY <1>6 DEF StartFails, CopyFails
  <1>7. ASSUME NEW s \in Session, ServerStarts(s) PROVE SessionTypeOK'
    BY <1>7 DEF ServerStarts, copies
  <1>8. ASSUME NEW s \in Session, ServerFails(s) PROVE SessionTypeOK'
    BY <1>8 DEF ServerFails, copies
  <1>9. ASSUME NEW s \in Session, ProxyStarts(s) PROVE SessionTypeOK'
    BY <1>9 DEF ProxyStarts, Serving, copies
  <1>10. CASE StopReceived
    BY <1>10 DEF StopReceived, Spawned, copies
  <1>11. CASE CloseProxy
    BY <1>11 DEF CloseProxy, copies
  <1>12. CASE RemovePIN
    BY <1>12 DEF RemovePIN
  <1>13. CASE StopService
    BY <1>13 DEF StopService, copies
  <1>14. CASE StopFails
    BY <1>14 DEF StopFails, copies
  <1>15. CASE Forget
    BY <1>15 DEF Forget, copies
  <1>16. CASE Crash
    BY <1>16 DEF Crash, copies
  <1>17. CASE UNCHANGED rdVars
    BY <1>17 DEF rdVars, copies
  <1>18. CASE ConfigureKey
    BY <1>18 DEF ConfigureKey, copies
  <1>19. CASE DirectoryGone
    BY <1>19 DEF DirectoryGone, copies
  <1> QED BY <1>1, <1>2, <1>3, <1>4, <1>5, <1>6, <1>7, <1>8, <1>9, <1>10,
             <1>11, <1>12, <1>13, <1>14, <1>15, <1>16, <1>17, <1>18, <1>19
          DEF Next, Start, Stop, vars

LEMMA Sessions ==
    ASSUME SessionTypeOK
    PROVE  /\ Session = 1 .. MaxSessions /\ MaxSessions \in Nat /\ made \in Nat
           /\ start # "idle" => made \in Session
           /\ handle # NoSession => handle \in Session /\ handle = made
           /\ target # NoSession => target \in Session /\ target <= made
           /\ stop # "idle" => target # NoSession /\ handle # NoSession
           /\ StartReceived => made' = made + 1 /\ made' \in Session
           /\ \A s \in Session :
                 /\ s # NoSession /\ (s > made \/ s <= made)
                 /\ s > made => s # made /\ s # handle /\ s # target
                 /\ s > made + 1 => s > made
                 /\ s = made + 1 => s > made
  <1> USE BackendsAssumption
      DEF BackendsAssumption, SessionTypeOK, Session, NoSession
  <1>1. made \in Nat /\ made <= MaxSessions /\ (handle # NoSession =>
           handle = made)
    OBVIOUS
  <1>2. start # "idle" => made \in Session
    OBVIOUS
  <1>3. StartReceived => made' = made + 1 /\ made < MaxSessions
    BY DEF StartReceived
  <1>4. \A s \in Session :
           /\ s # NoSession /\ (s > made \/ s <= made)
           /\ s > made => s # made /\ s # handle /\ s # target
           /\ s > made + 1 => s > made
           /\ s = made + 1 => s > made
    OBVIOUS
  <1> QED BY <1>1, <1>2, <1>3, <1>4

(* What each blaming step does to the causes.                              *)
LEMMA FailureBlames ==
    ASSUME SessionTypeOK, NEW f \in Session, NEW c \in StartCauses, Blame({f}, c)
    PROVE  /\ \A s \in Session : s # f => cause'[s] = cause[s]
           /\ \A s \in Session : Left(cause'[s]) <=> Left(cause[s])
           /\ cause'[f] # {}
           /\ c # "port taken" => \A s \in Session :
                 "port taken" \in cause'[s] => "port taken" \in cause[s]
  <1>1. c \notin StrayCauses
    BY DEF StartCauses, StrayCauses
  <1>2. \A s \in Session : cause'[s] = cause[s] \/ cause'[s] = cause[s] \cup {c}
    BY Blamed
  <1>3. \A s \in Session : Left(cause'[s]) <=> Left(cause[s])
    BY <1>1, <1>2 DEF Left
  <1>4. cause'[f] = cause[f] \cup {c} /\ \A s \in Session : s # f =>
           cause'[s] = cause[s]
    BY Blamed
  <1> QED BY <1>2, <1>3, <1>4

LEMMA StopBlames ==
    ASSUME SessionTypeOK, NEW S, NEW c \in StrayCauses, Blame(S, c)
    PROVE  /\ \A s \in Session : s \notin S => cause'[s] = cause[s]
           /\ \A s \in Session : s \in S => Left(cause'[s]) /\ cause'[s] # {}
           /\ \A s \in Session : "port taken" \in cause'[s] =>
                 "port taken" \in cause[s]
  <1>1. c # "port taken"
    BY DEF StrayCauses
  <1>2. \A s \in Session : s \notin S => cause'[s] = cause[s]
    BY Blamed
  <1>3. \A s \in Session : s \in S => cause'[s] = cause[s] \cup {c}
    BY Blamed
  <1>4. \A s \in Session : s \in S => Left(cause'[s])
    BY <1>3 DEF Left
  <1> QED BY <1>1, <1>2, <1>3, <1>4

LEMMA OneStopBlames ==
    ASSUME SessionTypeOK, NEW f \in Session, NEW c \in StrayCauses, Blame({f}, c)
    PROVE  /\ \A s \in Session : s # f => cause'[s] = cause[s]
           /\ Left(cause'[f])
           /\ \A s \in Session : "port taken" \in cause'[s] =>
                 "port taken" \in cause[s]
  <1>1. \A s \in Session : s \in {f} <=> s = f
    OBVIOUS
  <1> QED BY <1>1, StopBlames

LEMMA StartReceivedBlames ==
    ASSUME SessionTypeOK, StartReceived
    PROVE  /\ \A s \in Session : s \notin {made', handle, target} =>
                 cause'[s] = cause[s]
           /\ stop # "idle" => Left(cause'[made']) /\ Left(cause'[target])
           /\ stop = "idle" /\ handle # NoSession =>
                 Left(cause'[made']) /\ Left(cause'[handle])
           /\ stop = "idle" /\ handle = NoSession => UNCHANGED cause
           /\ cause'[made'] = {} => UNCHANGED cause
           /\ \A s \in Session : "port taken" \in cause'[s] =>
                 "port taken" \in cause[s]
  <1> USE Sessions
  <1>1. "overlap" \in StrayCauses /\ "second start" \in StrayCauses
    BY DEF StrayCauses
  <1>2. CASE stop # "idle"
    <2>1. Blame({made', target}, "overlap")
      BY <1>2 DEF StartReceived
    <2> QED BY ZenonT(40), <1>1, <1>2, <2>1, StopBlames
  <1>3. CASE stop = "idle" /\ handle # NoSession
    <2>1. Blame({made', handle}, "second start")
      BY <1>3 DEF StartReceived
    <2> QED BY ZenonT(40), <1>1, <1>3, <2>1, StopBlames
  <1>4. CASE stop = "idle" /\ handle = NoSession
    BY <1>4 DEF StartReceived
  <1> QED BY <1>2, <1>3, <1>4

LEMMA StartFailsBlames ==
    ASSUME SessionTypeOK, StartFails
    PROVE  /\ made \in Session /\ cause'[made] # {}
           /\ \A s \in Session : s # made => cause'[s] = cause[s]
           /\ \A s \in Session : /\ Left(cause'[s]) <=> Left(cause[s])
                                 /\ "port taken" \in cause'[s] =>
                                       "port taken" \in cause[s]
  <1>1. /\ "failed start" \in StartCauses /\ made \in Session
        /\ Blame({made}, "failed start")
    BY Sessions DEF StartFails, StartCauses
  <1> QED BY <1>1, FailureBlames

LEMMA DirectoryGoneBlames ==
    ASSUME SessionTypeOK, DirectoryGone
    PROVE  /\ made \in Session /\ cause'[made] # {}
           /\ \A s \in Session : s # made => cause'[s] = cause[s]
           /\ \A s \in Session : /\ Left(cause'[s]) <=> Left(cause[s])
                                 /\ "port taken" \in cause'[s] =>
                                       "port taken" \in cause[s]
  <1>1. /\ "failed start" \in StartCauses /\ made \in Session
        /\ Blame({made}, "failed start")
    BY Sessions DEF DirectoryGone, StartCauses
  <1> QED BY <1>1, FailureBlames

(* A pair that does not match is held against the session.                 *)
LEMMA ConfigureKeyBlames ==
    ASSUME SessionTypeOK, ConfigureKey
    PROVE  /\ made \in Session
           /\ cause'[made] = {} => Readable(rdpCert) /\ rdpKey' = rdpCert
           /\ \A s \in Session : s # made => cause'[s] = cause[s]
           /\ \A s \in Session : /\ Left(cause'[s]) <=> Left(cause[s])
                                 /\ "port taken" \in cause'[s] =>
                                       "port taken" \in cause[s]
           /\ cause'[made] = {} => UNCHANGED cause
  <1>1. "certificate" \in StartCauses /\ made \in Session
    BY Sessions DEF ConfigureKey, StartCauses
  <1>2. CASE Readable(rdpCert) /\ rdpKey' = rdpCert
    BY <1>1, <1>2 DEF ConfigureKey
  <1>3. CASE ~(Readable(rdpCert) /\ rdpKey' = rdpCert)
    <2>1. Blame({made}, "certificate")
      BY <1>3 DEF ConfigureKey
    <2> QED BY <1>1, <2>1, FailureBlames
  <1> QED BY <1>2, <1>3

LEMMA ServerFailsBlames ==
    ASSUME SessionTypeOK, NEW f \in Session, ServerFails(f)
    PROVE  /\ cause'[f] # {}
           /\ \A s \in Session : s # f => cause'[s] = cause[s]
           /\ \A s \in Session : /\ Left(cause'[s]) <=> Left(cause[s])
                                 /\ "port taken" \in cause'[s] =>
                                       "port taken" \in cause[s]
  <1>1. "failed start" \in StartCauses /\ Blame({f}, "failed start")
    BY DEF ServerFails, StartCauses
  <1> QED BY <1>1, FailureBlames

LEMMA ProxyStartsBlames ==
    ASSUME SessionTypeOK, NEW f \in Session, ProxyStarts(f)
    PROVE  /\ \A s \in Session : s # f => cause'[s] = cause[s]
           /\ \A s \in Session : Left(cause'[s]) <=> Left(cause[s])
           /\ \/ proxy' = [proxy EXCEPT ![f] = "serving"] /\ UNCHANGED cause
              \/ proxy' = [proxy EXCEPT ![f] = "ended"] /\ cause'[f] # {}
           /\ Serving = {} => \A s \in Session :
                 "port taken" \in cause'[s] => "port taken" \in cause[s]
  <1>1. "port taken" \in StartCauses /\ "certificate" \in StartCauses
    BY DEF StartCauses
  <1>2. CASE Serving # {}
    <2>1. Blame({f}, "port taken") /\ proxy' = [proxy EXCEPT ![f] = "ended"]
      BY <1>2 DEF ProxyStarts
    <2> QED BY <1>1, <1>2, <2>1, FailureBlames
  <1>3. CASE Serving = {} /\ ~Paired
    <2>1. Blame({f}, "certificate") /\ proxy' = [proxy EXCEPT ![f] = "ended"]
      BY <1>3 DEF ProxyStarts
    <2> QED BY <1>1, <1>3, <2>1, FailureBlames
  <1>4. CASE Serving = {} /\ Paired
    <2>1. UNCHANGED cause /\ proxy' = [proxy EXCEPT ![f] = "serving"]
      BY <1>4 DEF ProxyStarts
    <2> QED BY <2>1 DEF Left
  <1> QED BY <1>2, <1>3, <1>4

LEMMA StopReceivedBlames ==
    ASSUME SessionTypeOK, StopReceived
    PROVE  /\ \A s \in Session : s # handle => cause'[s] = cause[s]
           /\ start # "idle" \/ Spawned # {} => Left(cause'[handle])
           /\ \A s \in Session : "port taken" \in cause'[s] =>
                 "port taken" \in cause[s]
  <1>1. "overlap" \in StrayCauses /\ handle \in Session
    BY Sessions DEF StrayCauses, StopReceived
  <1>2. CASE start # "idle" \/ Spawned # {}
    <2>1. Blame({handle}, "overlap")
      BY <1>2 DEF StopReceived
    <2> QED BY <1>1, <1>2, <2>1, OneStopBlames
  <1>3. CASE ~(start # "idle" \/ Spawned # {})
    BY <1>3 DEF StopReceived
  <1> QED BY <1>2, <1>3

LEMMA StopFailsBlames ==
    ASSUME SessionTypeOK, StopFails
    PROVE  /\ target \in Session /\ Left(cause'[target])
           /\ \A s \in Session : s # target => cause'[s] = cause[s]
           /\ \A s \in Session : "port taken" \in cause'[s] =>
                 "port taken" \in cause[s]
  <1>1. /\ "failed stop" \in StrayCauses /\ target \in Session
        /\ Blame({target}, "failed stop")
    BY Sessions DEF StrayCauses, StopFails
  <1> QED BY <1>1, OneStopBlames

LEMMA CrashBlames ==
    ASSUME SessionTypeOK, Crash
    PROVE  /\ \A s \in Session : s <= made => Left(cause'[s])
           /\ \A s \in Session : s > made => cause'[s] = cause[s]
           /\ \A s \in Session : "port taken" \in cause'[s] =>
                 "port taken" \in cause[s]
  <1>1. "crash" \in StrayCauses /\ Blame(1 .. made, "crash")
    BY DEF StrayCauses, Crash
  <1>2. \A s \in Session : s \in 1 .. made <=> s <= made
    BY Sessions
  <1>3. /\ \A s \in Session : s \in 1 .. made => Left(cause'[s])
        /\ \A s \in Session : s \notin 1 .. made => cause'[s] = cause[s]
        /\ \A s \in Session : "port taken" \in cause'[s] =>
              "port taken" \in cause[s]
    BY <1>1, StopBlames
  <1>4. \A s \in Session : s > made => ~(s <= made)
    BY Sessions
  <1> QED BY <1>2, <1>3, <1>4

(* The sessions to come are left alone.                                    *)
LEMMA SessionsToCome ==
    ASSUME SessionTypeOK, ToCome, [Next]_vars
    PROVE  ToCome'
  <1>0. \A s \in Session : Left(cause[s]) => Left(cause'[s])
    BY CausesGrow
  <1> USE <1>0, Sessions DEF SessionTypeOK, ToCome, UsesProxy
  <1>1. CASE StartRefused
    BY <1>1 DEF StartRefused, GetServerCertificate
  <1>2. CASE StartReceived
    <2>1. ASSUME NEW s \in Session, s > made'
          PROVE  s > made /\ s \notin {made', handle, target}
      BY <1>2, <2>1
    <2>2. ASSUME NEW s \in Session, s > made'
          PROVE  cause'[s] = cause[s]
      BY <1>2, <2>1, <2>2, StartReceivedBlames
    <2> QED BY <1>2, <2>1, <2>2 DEF StartReceived
  <1>3. CASE Configure \/ ConfigureCertificate
    BY <1>3 DEF Configure, ConfigureCertificate
  <1>4. CASE SavePIN
    BY <1>4 DEF SavePIN
  <1>5. CASE Spawn
    BY <1>5 DEF Spawn
  <1>6. CASE StartFails
    BY <1>6, StartFailsBlames DEF StartFails
  <1>7. ASSUME NEW s \in Session, ServerStarts(s) PROVE ToCome'
    BY <1>7 DEF ServerStarts
  <1>8. ASSUME NEW s \in Session, ServerFails(s) PROVE ToCome'
    BY <1>8, ServerFailsBlames DEF ServerFails
  <1>9. ASSUME NEW s \in Session, ProxyStarts(s) PROVE ToCome'
    BY ZenonT(40), <1>9, ProxyStartsBlames DEF ProxyStarts, Serving
  <1>10. CASE StopReceived
    BY <1>10, StopReceivedBlames DEF StopReceived, Spawned
  <1>11. CASE CloseProxy
    BY <1>11 DEF CloseProxy
  <1>12. CASE RemovePIN
    BY <1>12 DEF RemovePIN
  <1>13. CASE StopService
    BY <1>13 DEF StopService
  <1>14. CASE StopFails
    BY <1>14, StopFailsBlames DEF StopFails
  <1>15. CASE Forget
    BY <1>15 DEF Forget
  <1>16. CASE Crash
    BY <1>16, CrashBlames DEF Crash
  <1>17. CASE UNCHANGED rdVars
    BY <1>17 DEF rdVars, copies
  <1>18. CASE ConfigureKey
    BY <1>18, ConfigureKeyBlames DEF ConfigureKey
  <1>19. CASE DirectoryGone
    BY <1>19, DirectoryGoneBlames DEF DirectoryGone
  <1> QED BY <1>1, <1>2, <1>3, <1>4, <1>5, <1>6, <1>7, <1>8, <1>9, <1>10,
             <1>11, <1>12, <1>13, <1>14, <1>15, <1>16, <1>17, <1>18, <1>19
          DEF Next, Start, Stop, vars

(* Whatever is there has its cause, or is the session of a.RemoteDesktop.  *)
LEMMA SessionsAccounted ==
    ASSUME SessionTypeOK, ToCome, Accounted, Stopping, [Next]_vars
    PROVE  Accounted'
  <1>0. \A s \in Session : Left(cause[s]) => Left(cause'[s])
    BY CausesGrow
  <1> USE <1>0, Sessions DEF SessionTypeOK, Accounted, There
  <1>1. CASE StartRefused
    BY <1>1 DEF StartRefused, GetServerCertificate
  <1>2. CASE StartReceived
    <2>1. stop # "idle" => Left(cause'[made']) /\ Left(cause'[target])
      BY <1>2, StartReceivedBlames
    <2>2. CASE stop # "idle"
      <3>1. handle = target \/ Left(cause[handle])
        BY <2>2 DEF Stopping
      <3> QED BY <1>2, <2>1, <2>2, <3>1 DEF StartReceived
    <2>3. CASE stop = "idle"
      BY <1>2, <2>3, StartReceivedBlames DEF StartReceived
    <2> QED BY <2>2, <2>3
  <1>3. CASE Configure \/ ConfigureCertificate
    BY <1>3 DEF Configure, ConfigureCertificate
  <1>4. CASE SavePIN
    BY <1>4 DEF SavePIN
  <1>5. CASE Spawn
    BY <1>5 DEF Spawn, UsesProxy
  <1>6. CASE StartFails
    BY <1>6, StartFailsBlames DEF StartFails
  <1>7. ASSUME NEW s \in Session, ServerStarts(s) PROVE Accounted'
    BY <1>7 DEF ServerStarts
  <1>8. ASSUME NEW s \in Session, ServerFails(s) PROVE Accounted'
    BY <1>8, ServerFailsBlames DEF ServerFails
  <1>9. ASSUME NEW s \in Session, ProxyStarts(s) PROVE Accounted'
    BY <1>9, ProxyStartsBlames DEF ProxyStarts, Serving
  <1>10. CASE StopReceived
    BY <1>10, StopReceivedBlames DEF StopReceived, Spawned
  <1>11. CASE CloseProxy
    BY <1>11 DEF CloseProxy, UsesProxy
  <1>12. CASE RemovePIN
    BY <1>12 DEF RemovePIN
  <1>13. CASE StopService
    BY <1>13 DEF StopService
  <1>14. CASE StopFails
    BY <1>14, StopFailsBlames DEF StopFails
  <1>15. CASE Forget
    BY <1>15 DEF Forget, Stopping
  <1>16. CASE Crash
    BY <1>16, CrashBlames DEF Crash, ToCome
  <1>17. CASE UNCHANGED rdVars
    BY <1>17 DEF rdVars, copies
  <1>18. CASE ConfigureKey
    BY <1>18, ConfigureKeyBlames DEF ConfigureKey
  <1>19. CASE DirectoryGone
    BY <1>19, DirectoryGoneBlames DEF DirectoryGone
  <1> QED BY <1>1, <1>2, <1>3, <1>4, <1>5, <1>6, <1>7, <1>8, <1>9, <1>10,
             <1>11, <1>12, <1>13, <1>14, <1>15, <1>16, <1>17, <1>18, <1>19
          DEF Next, Start, Stop, vars

(* A stop goes on with what it began.                                      *)
LEMMA StopsInOrder ==
    ASSUME SessionTypeOK, ToCome, Accounted, Stopping, [Next]_vars
    PROVE  Stopping'
  <1>0. \A s \in Session : Left(cause[s]) => Left(cause'[s])
    BY CausesGrow
  <1> USE <1>0, Sessions DEF SessionTypeOK, Stopping
  <1>1. CASE StartRefused
    BY <1>1 DEF StartRefused, GetServerCertificate
  <1>2. CASE StartReceived
    BY <1>2, StartReceivedBlames DEF StartReceived
  <1>3. CASE Configure \/ ConfigureCertificate
    BY <1>3 DEF Configure, ConfigureCertificate
  <1>4. CASE SavePIN
    BY <1>4 DEF SavePIN
  <1>5. CASE Spawn
    BY <1>5 DEF Spawn, UsesProxy
  <1>6. CASE StartFails
    BY <1>6, StartFailsBlames DEF StartFails
  <1>7. ASSUME NEW s \in Session, ServerStarts(s) PROVE Stopping'
    BY <1>7 DEF ServerStarts
  <1>8. ASSUME NEW s \in Session, ServerFails(s) PROVE Stopping'
    BY <1>8, ServerFailsBlames DEF ServerFails
  <1>9. ASSUME NEW s \in Session, ProxyStarts(s) PROVE Stopping'
    BY <1>9, ProxyStartsBlames DEF ProxyStarts, Serving
  <1>10. CASE StopReceived
    BY <1>10, StopReceivedBlames DEF StopReceived, Spawned
  <1>11. CASE CloseProxy
    BY <1>11 DEF CloseProxy, UsesProxy, ToCome
  <1>12. CASE RemovePIN
    BY <1>12 DEF RemovePIN
  <1>13. CASE StopService
    BY <1>13 DEF StopService
  <1>14. CASE StopFails
    BY <1>14, StopFailsBlames DEF StopFails
  <1>15. CASE Forget
    BY <1>15 DEF Forget
  <1>16. CASE Crash
    BY <1>16, CrashBlames DEF Crash
  <1>17. CASE UNCHANGED rdVars
    BY <1>17 DEF rdVars, copies
  <1>18. CASE ConfigureKey
    BY <1>18, ConfigureKeyBlames DEF ConfigureKey
  <1>19. CASE DirectoryGone
    BY <1>19, DirectoryGoneBlames DEF DirectoryGone
  <1> QED BY <1>1, <1>2, <1>3, <1>4, <1>5, <1>6, <1>7, <1>8, <1>9, <1>10,
             <1>11, <1>12, <1>13, <1>14, <1>15, <1>16, <1>17, <1>18, <1>19
          DEF Next, Start, Stop, vars

(* A start goes on with what it began.                                     *)
LEMMA SessionsWork ==
    ASSUME SessionTypeOK, ToCome, Accounted, Working, [Next]_vars
    PROVE  Working'
  <1>0. \A s \in Session : Left(cause[s]) => Left(cause'[s])
    BY CausesGrow
  <1> USE <1>0, Sessions DEF SessionTypeOK, Working, UsesProxy, copies
  <1>1. CASE StartRefused
    BY <1>1 DEF StartRefused, GetServerCertificate
  <1>2. CASE StartReceived
    BY <1>2, StartReceivedBlames DEF StartReceived, ToCome
  <1>3. CASE Configure \/ ConfigureCertificate
    BY <1>3 DEF Configure, ConfigureCertificate
  <1>4. CASE SavePIN
    BY <1>4 DEF SavePIN
  <1>5. CASE Spawn
    BY <1>5 DEF Spawn
  <1>6. CASE StartFails
    BY <1>6, StartFailsBlames DEF StartFails
  <1>7. ASSUME NEW s \in Session, ServerStarts(s) PROVE Working'
    BY <1>7 DEF ServerStarts
  <1>8. ASSUME NEW s \in Session, ServerFails(s) PROVE Working'
    BY <1>8, ServerFailsBlames DEF ServerFails
  <1>9. ASSUME NEW s \in Session, ProxyStarts(s) PROVE Working'
    BY ZenonT(40), <1>9, ProxyStartsBlames DEF ProxyStarts, Serving
  <1>10. CASE StopReceived
    BY <1>10, StopReceivedBlames DEF StopReceived, Spawned
  <1>11. CASE CloseProxy
    BY <1>11 DEF CloseProxy
  <1>12. CASE RemovePIN
    BY <1>12 DEF RemovePIN
  <1>13. CASE StopService
    BY <1>13 DEF StopService
  <1>14. CASE StopFails
    BY <1>14, StopFailsBlames DEF StopFails
  <1>15. CASE Forget
    BY <1>15 DEF Forget
  <1>16. CASE Crash
    BY <1>16, CrashBlames DEF Crash
  <1>17. CASE UNCHANGED rdVars
    BY <1>17 DEF rdVars, copies
  <1>18. CASE ConfigureKey
    BY <1>18, ConfigureKeyBlames DEF ConfigureKey
  <1>19. CASE DirectoryGone
    BY <1>19, DirectoryGoneBlames DEF DirectoryGone
  <1> QED BY <1>1, <1>2, <1>3, <1>4, <1>5, <1>6, <1>7, <1>8, <1>9, <1>10,
             <1>11, <1>12, <1>13, <1>14, <1>15, <1>16, <1>17, <1>18, <1>19
          DEF Next, Start, Stop, vars

(* Two proxies in one place: one of the two sessions was left behind.      *)
LEMMA PortsTaken ==
    ASSUME SessionTypeOK, Accounted, PortTaken, [Next]_vars
    PROVE  PortTaken'
  <1>0. \A s \in Session : Left(cause[s]) => Left(cause'[s])
    BY CausesGrow
  <1> USE <1>0, Sessions DEF SessionTypeOK, PortTaken
  <1>1. CASE StartRefused
    BY <1>1 DEF StartRefused, GetServerCertificate
  <1>2. CASE StartReceived
    BY <1>2, StartReceivedBlames DEF StartReceived
  <1>3. CASE Configure \/ ConfigureCertificate
    BY <1>3 DEF Configure, ConfigureCertificate
  <1>4. CASE SavePIN
    BY <1>4 DEF SavePIN
  <1>5. CASE Spawn
    BY <1>5 DEF Spawn, UsesProxy
  <1>6. CASE StartFails
    BY <1>6, StartFailsBlames DEF StartFails
  <1>7. ASSUME NEW s \in Session, ServerStarts(s) PROVE PortTaken'
    BY <1>7 DEF ServerStarts
  <1>8. ASSUME NEW s \in Session, ServerFails(s) PROVE PortTaken'
    BY <1>8, ServerFailsBlames DEF ServerFails
  <1>9. ASSUME NEW s \in Session, ProxyStarts(s) PROVE PortTaken'
    BY ZenonT(40), <1>9, ProxyStartsBlames
    DEF ProxyStarts, Serving, Accounted, There
  <1>10. CASE StopReceived
    BY <1>10, StopReceivedBlames DEF StopReceived, Spawned
  <1>11. CASE CloseProxy
    BY <1>11 DEF CloseProxy, UsesProxy
  <1>12. CASE RemovePIN
    BY <1>12 DEF RemovePIN
  <1>13. CASE StopService
    BY <1>13 DEF StopService
  <1>14. CASE StopFails
    BY <1>14, StopFailsBlames DEF StopFails
  <1>15. CASE Forget
    BY <1>15 DEF Forget
  <1>16. CASE Crash
    BY <1>16, CrashBlames DEF Crash
  <1>17. CASE UNCHANGED rdVars
    BY <1>17 DEF rdVars, copies
  <1>18. CASE ConfigureKey
    BY <1>18, ConfigureKeyBlames DEF ConfigureKey
  <1>19. CASE DirectoryGone
    BY <1>19, DirectoryGoneBlames DEF DirectoryGone
  <1> QED BY <1>1, <1>2, <1>3, <1>4, <1>5, <1>6, <1>7, <1>8, <1>9, <1>10,
             <1>11, <1>12, <1>13, <1>14, <1>15, <1>16, <1>17, <1>18, <1>19
          DEF Next, Start, Stop, vars

(* A pair is only held against a session if a save failed or a second      *)
(* certificate was issued.                                                 *)
LEMMA OneStays ==
    ASSUME CertInv, SessionTypeOK, OneCertificate, [Next]_vars
    PROVE  OneCertificate'
  <1> SUFFICES ASSUME ~failedSave', issued' <= 1
               PROVE  /\ certPath' => certFile' = 1
                      /\ start' # "idle" => certPath'
                      /\ \A s \in Session : proxy'[s] = "spawned" => certPath'
                      /\ start' = "configureKey" =>
                            rdpCert' \in {NoFile, certFile'}
                      /\ \A s \in Session : "certificate" \notin cause'[s]
    BY DEF OneCertificate
  <1>0. /\ certFile = 1 => certFile' = 1
        /\ certPath => certFile = 1
        /\ start # "idle" => certPath
        /\ \A s \in Session : proxy[s] = "spawned" => certPath
        /\ start = "configureKey" => rdpCert \in {NoFile, certFile}
        /\ \A s \in Session : "certificate" \notin cause[s]
        /\ certFile # NoFile => certFile = 1 /\ keyFile = 1
    BY EveryStepIsCertStep, FirstStays
    DEF OneCertificate, CertInv, CertTypeOK, FirstPair, NoFile
  <1>a. Readable(certFile) <=> certFile = 1
    BY EveryStepIsCertStep, FirstStays, BoundsAssumption
    DEF BoundsAssumption, CertInv, CertTypeOK, FirstPair, Readable,
        Certificate, NoFile
  <1>b. ASSUME NEW S, NEW c, c # "certificate", Blame(S, c)
        PROVE  \A s \in Session : "certificate" \notin cause'[s]
    BY <1>0, <1>b, Blamed
  <1> USE <1>0, Sessions DEF SessionTypeOK, UsesProxy, copies
  <1>1. CASE StartRefused
    BY <1>1, <1>a DEF StartRefused, GetServerCertificate, certVars
  <1>2. CASE StartReceived
    <2>1. certFile' = 1
      BY <1>2, <1>a DEF StartReceived, GetServerCertificate, certVars
    <2>2. \A s \in Session : "certificate" \notin cause'[s]
      BY <1>2, <1>b DEF StartReceived
    <2> QED BY <1>2, <2>1, <2>2 DEF StartReceived
  <1>3. CASE Configure \/ ConfigureCertificate
    BY <1>3 DEF Configure, ConfigureCertificate
  <1>4. CASE SavePIN
    BY <1>4 DEF SavePIN
  <1>5. CASE Spawn
    BY <1>5 DEF Spawn
  <1>6. CASE StartFails
    BY <1>6, <1>b DEF StartFails
  <1>7. ASSUME NEW s \in Session, ServerStarts(s)
        PROVE  UNCHANGED <<certPath, start, proxy, rdpCert, cause>>
    BY <1>7 DEF ServerStarts
  <1>8. ASSUME NEW s \in Session, ServerFails(s)
        PROVE  /\ UNCHANGED <<certPath, start, proxy, rdpCert>>
               /\ \A t \in Session : "certificate" \notin cause'[t]
    BY <1>8, <1>b DEF ServerFails
  <1>9. ASSUME NEW s \in Session, ProxyStarts(s)
        PROVE  /\ UNCHANGED <<certPath, start, rdpCert>>
               /\ \A t \in Session : proxy'[t] = "spawned" => proxy[t] = "spawned"
               /\ \A t \in Session : "certificate" \notin cause'[t]
    <2>1. Paired
      <3>1. proxy[s] = "spawned"
        BY <1>9 DEF ProxyStarts
      <3>2. certFile = 1
        BY <3>1
      <3>3. keyFile = 1
        BY <3>2 DEF NoFile
      <3> QED BY <3>2, <3>3, <1>a DEF Paired
    <2>2. \A t \in Session : "certificate" \notin cause'[t]
      BY <1>9, <1>b, <2>1 DEF ProxyStarts
    <2> QED BY <1>9, <2>2 DEF ProxyStarts
  <1>10. CASE StopReceived
    BY <1>10, <1>b DEF StopReceived
  <1>11. CASE CloseProxy
    BY <1>11 DEF CloseProxy
  <1>12. CASE RemovePIN
    BY <1>12 DEF RemovePIN
  <1>13. CASE StopService
    BY <1>13 DEF StopService
  <1>14. CASE StopFails
    BY <1>14, <1>b DEF StopFails
  <1>15. CASE Forget
    BY <1>15 DEF Forget
  <1>16. CASE Crash
    BY <1>16, <1>b DEF Crash
  <1>17. CASE UNCHANGED rdVars
    BY <1>17 DEF rdVars
  <1>18. CASE ConfigureKey
    <2>1. Readable(rdpCert) /\ rdpKey' = rdpCert
      BY <1>18, <1>a DEF ConfigureKey
    <2> QED BY <1>18, <2>1 DEF ConfigureKey
  <1>19. CASE DirectoryGone
    BY <1>19, <1>b DEF DirectoryGone
  <1> QED BY <1>1, <1>2, <1>3, <1>4, <1>5, <1>6, <1>7, <1>8, <1>9, <1>10,
             <1>11, <1>12, <1>13, <1>14, <1>15, <1>16, <1>17, <1>18, <1>19
          DEF Next, Start, Stop, vars

-----------------------------------------------------------------------------
LEMMA SessionsInit == Init => SessionInv
  <1> SUFFICES ASSUME Init PROVE SessionInv
    OBVIOUS
  <1> USE BackendsAssumption DEF Init, NoSession
  <1>1. MaxSessions \in Nat /\ 0 \in 0 .. MaxSessions
    BY DEF BackendsAssumption
  <1>2. SessionTypeOK
    <2>1. 0 \in 0 .. made /\ target \in 0 .. made /\ pin \in 0 .. made
      BY <1>1
    <2>2. cause \in [Session -> SUBSET (StrayCauses \cup StartCauses)]
      OBVIOUS
    <2> QED BY <1>1, <2>1, <2>2, Contents
            DEF SessionTypeOK, StartSteps, StopSteps, CertInit, NoFile
  <1>3. \A s \in Session : s # 0
    BY <1>1 DEF Session
  <1>4. Accounted /\ Stopping /\ Working /\ PortTaken
    BY <1>3 DEF Accounted, There, Stopping, Working, PortTaken
  <1>5. ToCome /\ OneCertificate
    BY DEF ToCome, OneCertificate
  <1> QED BY <1>2, <1>4, <1>5 DEF SessionInv

(* The inductive invariant of the sessions holds of RemoteDesktop.         *)
THEOREM SessionsCorrect == Spec => []SessionInv
  <1>1. CertInv /\ SessionInv /\ [Next]_vars => SessionInv'
    BY SessionTypes, SessionsToCome, SessionsAccounted, StopsInOrder,
       SessionsWork, PortsTaken, OneStays DEF CertInv, SessionInv
  <1> QED BY <1>1, SessionsInit, CertificateCorrect, PTL DEF Spec

(* Type correctness of the composed modules.                               *)
THEOREM TypeCorrect == Spec => []TypeOK
  <1>1. CertInv /\ SessionInv => TypeOK
    <2> SUFFICES ASSUME CertInv, SessionInv PROVE TypeOK
      OBVIOUS
    <2>1. handle \in 0 .. made
      BY BackendsAssumption
      DEF BackendsAssumption, SessionInv, SessionTypeOK, NoSession
    <2> QED BY <2>1 DEF CertInv, SessionInv, SessionTypeOK, TypeOK
  <1> QED BY <1>1, CertificateCorrect, SessionsCorrect, PTL

(* What a stop can no longer reach was left by a second start, a stop that *)
(* ran into a start, a stop that failed or a crash.                        *)
THEOREM StrayForCause == Spec => []StrayOnlyForCause
  <1>1. SessionInv => StrayOnlyForCause
    BY DEF SessionInv, Accounted, There, StrayOnlyForCause, Stray, Left
  <1> QED BY <1>1, SessionsCorrect, PTL

(* A session with nothing against it has its server, its PIN and its       *)
(* proxy.                                                                  *)
THEOREM SessionsWorkAtRest == Spec => []SessionWorks
  <1>1. CertInv /\ SessionInv => SessionWorks
    <2> SUFFICES ASSUME CertInv, SessionInv PROVE SessionWorks
      OBVIOUS
    <2>1. handle # NoSession => handle \in Session
      BY Sessions DEF SessionInv
    <2>2. ASSUME AtRest, handle # NoSession, cause[handle] = {}
          PROVE  /\ server[handle] = "running" /\ pin = handle
                 /\ UsesProxy => proxy[handle] = "serving"
                 /\ ~UsesProxy => Readable(rdpCert) /\ rdpKey = rdpCert
      BY <2>1, <2>2 DEF SessionInv, Working, AtRest, Spawned
    <2>3. \A s \in Session : "port taken" \in cause[s] =>
             \E t \in Session : cause[t] \cap StrayCauses # {}
      BY DEF SessionInv, PortTaken, Left
    <2>4. \A s \in Session : "certificate" \in cause[s] =>
             failedSave \/ issued > 1
      BY BoundsAssumption
      DEF BoundsAssumption, CertInv, CertTypeOK, SessionInv, OneCertificate
    <2> QED BY <2>2, <2>3, <2>4 DEF SessionWorks
  <1> QED BY <1>1, CertificateCorrect, SessionsCorrect, PTL
=============================================================================
