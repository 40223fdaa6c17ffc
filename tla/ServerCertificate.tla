------------------------- MODULE ServerCertificate -------------------------
(***************************************************************************)
(* The server certificate of an agent: AgentCertificateHandler receives    *)
(* agent.certificate messages from JetStream and saves the private key and *)
(* then the certificate, in two files.  A message is delivered again until *)
(* it is acknowledged; the handler acknowledges it also when it fails.     *)
(***************************************************************************)
EXTENDS Naturals, FiniteSets

CONSTANTS
    MaxCertificates, \* bound: certificates that the server issues
    MaxFaults        \* bound: saves that fail, acknowledgements that are lost

ASSUME BoundsAssumption == MaxCertificates \in Nat /\ MaxFaults \in Nat

Certificate == 1 .. MaxCertificates
NoFile == 0
Torn == MaxCertificates + 1  \* a file that is not valid PEM

VARIABLES
    issued,     \* certificates issued so far, numbered in order
    delivered,  \* those delivered at least once, in order
    unacked,    \* those that the stream still holds
    installing, \* the certificate the handler saves, or NoFile
    keySaved,   \* its private key is saved
    keyFile,    \* what server.key holds
    certFile,   \* what server.cer holds
    failedSave, \* history: a message was acknowledged without being installed
    again,      \* history: a message was handled and not acknowledged
    faults      \* bound: the faults so far

certVars == <<issued, delivered, unacked, installing, keySaved, keyFile,
              certFile, failedSave, again, faults>>

CertInit ==
    /\ issued = 0 /\ delivered = 0 /\ unacked = {}
    /\ installing = NoFile /\ keySaved = FALSE
    /\ keyFile = NoFile /\ certFile = NoFile
    /\ failedSave = FALSE /\ again = FALSE
    /\ faults = 0

(* One more fault, if the bound allows it.                                 *)
Fault == faults < MaxFaults /\ faults' = faults + 1

Issue ==
    /\ issued < MaxCertificates
    /\ issued' = issued + 1
    /\ unacked' = unacked \cup {issued'}
    /\ UNCHANGED <<delivered, installing, keySaved, keyFile, certFile,
                   failedSave, again, faults>>

(* A first delivery follows the order of the stream; a message that was    *)
(* not acknowledged in time comes again whenever it likes.                 *)
Deliver ==
    /\ installing = NoFile
    /\ \E c \in unacked :
          /\ c <= delivered + 1
          /\ installing' = c
          /\ delivered' = IF c > delivered THEN c ELSE delivered
    /\ keySaved' = FALSE
    /\ UNCHANGED <<issued, unacked, keyFile, certFile, failedSave, again, faults>>

SavePrivateKey ==
    /\ installing # NoFile /\ ~keySaved
    /\ keyFile' = installing
    /\ keySaved' = TRUE
    /\ UNCHANGED <<issued, delivered, unacked, installing, certFile,
                   failedSave, again, faults>>

HandlerEnds == installing' = NoFile /\ keySaved' = FALSE

(* The message is acknowledged, or the acknowledgement is lost.            *)
Ack ==
    \/ /\ unacked' = unacked \ {installing}
       /\ UNCHANGED <<again, faults>>
    \/ Fault /\ again' = TRUE /\ UNCHANGED unacked

(* A variant that acknowledges the message once the key is saved.          *)
SaveOnlyKey ==
    /\ installing # NoFile /\ keySaved
    /\ Ack /\ HandlerEnds
    /\ UNCHANGED <<issued, delivered, keyFile, certFile, failedSave>>

(* A variant that keeps a certificate that is there already.               *)
SaveFirstCertificate ==
    /\ installing # NoFile /\ keySaved
    /\ certFile' = IF certFile = NoFile THEN installing ELSE certFile
    /\ keyFile' = certFile'
    /\ Ack /\ HandlerEnds
    /\ UNCHANGED <<issued, delivered, failedSave>>

SaveCertificate ==
    /\ installing # NoFile /\ keySaved
    /\ certFile' = installing
    /\ Ack /\ HandlerEnds
    /\ UNCHANGED <<issued, delivered, keyFile, failedSave>>

(* A message that does not parse, a directory or a file that cannot be     *)
(* written: the handler gives up with the message acknowledged, whatever   *)
(* it has saved until then.                                                *)
SaveFails ==
    /\ installing # NoFile
    /\ Fault
    /\ IF keySaved
         THEN certFile' \in {certFile, Torn} /\ UNCHANGED keyFile
         ELSE keyFile' \in {keyFile, Torn} /\ UNCHANGED certFile
    /\ unacked' = unacked \ {installing}
    /\ failedSave' = TRUE
    /\ HandlerEnds
    /\ UNCHANGED <<issued, delivered, again>>

(* The agent stops: the message is not acknowledged.                       *)
CertCrash ==
    /\ HandlerEnds
    /\ again' = (again \/ installing # NoFile)
    /\ UNCHANGED <<issued, delivered, unacked, keyFile, certFile, failedSave>>

CertNext ==
    \/ Issue \/ Deliver \/ SavePrivateKey \/ SaveCertificate \/ SaveFails

-----------------------------------------------------------------------------
(* Every variable of the certificate stays in its type; nothing unissued   *)
(* is saved, delivered or waiting to be acknowledged.                      *)
CertTypeOK ==
    /\ issued \in 0 .. MaxCertificates /\ delivered \in 0 .. issued
    /\ unacked \subseteq 1 .. issued
    /\ installing \in Certificate \cup {NoFile} /\ keySaved \in BOOLEAN
    /\ keyFile \in 0 .. Torn /\ certFile \in 0 .. Torn
    /\ failedSave \in BOOLEAN /\ again \in BOOLEAN
    /\ faults \in 0 .. MaxFaults

(* What GetServerCertificate and StartTLS accept.                          *)
Readable(content) == content \in Certificate
Paired == Readable(certFile) /\ keyFile = certFile

(* Once every message is acknowledged, the two files belong together,      *)
(* whatever crashed or was delivered twice, unless a save failed: that     *)
(* message was acknowledged too, and nothing repairs the pair.             *)
PairMatches ==
    unacked = {} /\ installing = NoFile /\ ~failedSave => keyFile = certFile

(* And they are the last that was issued, unless a message was handled     *)
(* without being acknowledged (the agent stopped, or the acknowledgement   *)
(* was lost): an older certificate that comes again replaces a newer one.  *)
PairIsCurrent ==
    unacked = {} /\ installing = NoFile /\ ~failedSave /\ ~again =>
        certFile = issued
=============================================================================
