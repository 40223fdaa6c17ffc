--------------------------- MODULE RemoteDesktop ---------------------------
(***************************************************************************)
(* The VNC or RDP remote desktop, and the server certificate it needs.     *)
(*                                                                         *)
(* A start creates a service object, stores it in a.RemoteDesktop and, for *)
(* that session, configures the remote desktop server, saves the PIN and   *)
(* spawns two goroutines: one runs the server, one the TLS proxy in front  *)
(* of it, on one fixed port.  A stop closes the proxy of the stored        *)
(* object, removes the PIN, stops the server and forgets the object.  The  *)
(* two handlers have goroutines of their own and share a.RemoteDesktop     *)
(* without a lock.                                                         *)
(***************************************************************************)
EXTENDS ServerCertificate

CONSTANTS
    Backends,    \* the kinds of remote desktop server of the instance
    MaxSessions  \* bound: service objects created

Session == 1 .. MaxSessions
NoSession == 0

\* "windows": TightVNC, UltraVNC, TigerVNC; "vnc": X11VNC, macOS; "rdp": GNOME.
AllBackends == {"windows", "vnc", "rdp"}

ASSUME BackendsAssumption == Backends \subseteq AllBackends /\ MaxSessions \in Nat

VARIABLES
    backend,   \* never changes
    certPath,  \* a.ServerCertPath is set
    keyPath,   \* a.ServerKeyPath is set
    made,      \* service objects created so far: the last is being started
    handle,    \* a.RemoteDesktop
    start,     \* the next step of the start handler
    stop,      \* the next step of the stop handler
    target,    \* the session that the stop handler stops
    server,    \* the goroutine that runs the server of each session
    proxy,     \* the goroutine that runs its proxy
    pin,       \* the session whose PIN opens the server
    rdpCert,   \* the copy of server.cer in the user's home, for GNOME
    rdpKey,    \* the copy of server.key
    cause      \* history: what may have gone wrong with each session

copies == <<rdpCert, rdpKey>>

rdVars == <<backend, certPath, keyPath, made, handle, start, stop, target,
            server, proxy, pin, copies, cause>>

vars == <<certVars, rdVars>>

StartSteps == {"idle", "configure", "configureKey", "savePIN", "spawn"}
StopSteps == {"idle", "proxy", "PIN", "service", "forget"}

\* What may leave something of a session behind, or keep it from working.
StrayCauses == {"overlap", "second start", "failed stop", "crash"}
StartCauses == {"failed start", "certificate", "port taken"}

Init ==
    /\ CertInit
    /\ backend \in Backends
    /\ certPath = FALSE /\ keyPath = FALSE
    /\ made = 0 /\ handle = NoSession /\ target = NoSession
    /\ start = "idle" /\ stop = "idle"
    /\ server = [s \in Session |-> "none"]
    /\ proxy = [s \in Session |-> "none"]
    /\ pin = NoSession /\ rdpCert = NoFile /\ rdpKey = NoFile
    /\ cause = [s \in Session |-> {}]

UsesProxy == backend # "rdp"

Blame(sessions, c) ==
    cause' = [s \in Session |->
                cause[s] \cup (IF s \in sessions THEN {c} ELSE {})]

Spawned == {s \in Session : "spawned" \in {server[s], proxy[s]}}

Serving == {s \in Session : proxy[s] = "serving"}

-----------------------------------------------------------------------------
(* The start handler.                                                      *)

(* A path that was set stays set, whatever the file holds now.             *)
GetServerCertificate ==
    /\ certPath' = (certPath \/ Readable(certFile))
    /\ keyPath' = (keyPath \/ Readable(keyFile))

(* Without a certificate the handler returns, and answers nothing; so it   *)
(* does without a user or a supported server.                              *)
StartRefused ==
    /\ start = "idle"
    /\ GetServerCertificate
    /\ UNCHANGED <<certVars, backend, made, handle, start, stop, target,
                   server, proxy, pin, copies, cause>>

StartReceived ==
    /\ start = "idle" /\ made < MaxSessions
    /\ GetServerCertificate /\ certPath' /\ keyPath'
    /\ made' = made + 1
    /\ handle' = made'
    /\ start' = "configure"
    /\ IF stop # "idle" THEN Blame({made', target}, "overlap")
       ELSE IF handle # NoSession THEN Blame({made', handle}, "second start")
       ELSE UNCHANGED cause
    /\ UNCHANGED <<certVars, backend, stop, target, server, proxy, pin,
                   copies>>

(* The configuration of the VNC servers; X11VNC has none.                  *)
Configure ==
    /\ start = "configure" /\ UsesProxy
    /\ start' = "savePIN"
    /\ UNCHANGED <<certVars, backend, certPath, keyPath, made, handle, stop,
                   target, server, proxy, pin, copies, cause>>

(* GNOME has no proxy: it is given copies of the two files, one after the  *)
(* other, and takes whatever they hold by then.                            *)
ConfigureCertificate ==
    /\ start = "configure" /\ ~UsesProxy /\ certFile # NoFile
    /\ rdpCert' = certFile
    /\ start' = "configureKey"
    /\ UNCHANGED <<certVars, backend, certPath, keyPath, made, handle, stop,
                   target, server, proxy, pin, rdpKey, cause>>

ConfigureKey ==
    /\ start = "configureKey" /\ rdpCert # NoFile
    /\ rdpKey' = keyFile
    /\ start' = "savePIN"
    /\ IF Readable(rdpCert) /\ rdpKey' = rdpCert THEN UNCHANGED cause
       ELSE Blame({made}, "certificate")
    /\ UNCHANGED <<certVars, backend, certPath, keyPath, made, handle, stop,
                   target, server, proxy, pin, rdpCert>>

(* A stop in between has removed the directory of the copies.              *)
DirectoryGone ==
    /\ start = "configureKey" /\ rdpCert = NoFile
    /\ start' = "idle"
    /\ Blame({made}, "failed start")
    /\ UNCHANGED <<certVars, backend, certPath, keyPath, made, handle, stop,
                   target, server, proxy, pin, copies>>

SavePIN ==
    /\ start = "savePIN"
    /\ pin' = made
    /\ start' = "spawn"
    /\ UNCHANGED <<certVars, backend, certPath, keyPath, made, handle, stop,
                   target, server, proxy, copies, cause>>

(* A variant that forgets the proxy.                                       *)
SpawnServer ==
    /\ start = "spawn"
    /\ server' = [server EXCEPT ![made] = "spawned"]
    /\ start' = "idle"
    /\ UNCHANGED <<certVars, backend, certPath, keyPath, made, handle, stop,
                   target, proxy, pin, copies, cause>>

(* The handler answers "started!" and ends; the goroutines run later.      *)
Spawn ==
    /\ start = "spawn"
    /\ server' = [server EXCEPT ![made] = "spawned"]
    /\ proxy' = IF UsesProxy /\ proxy[made] = "none"
                  THEN [proxy EXCEPT ![made] = "spawned"] ELSE proxy
    /\ start' = "idle"
    /\ UNCHANGED <<certVars, backend, certPath, keyPath, made, handle, stop,
                   target, pin, copies, cause>>

(* A copy that fails leaves the file as it was, torn, or made.             *)
CopyFails ==
    /\ IF start = "configure" /\ ~UsesProxy
         THEN rdpCert' \in {rdpCert, Torn, certFile} ELSE UNCHANGED rdpCert
    /\ IF start = "configureKey"
         THEN rdpKey' \in {rdpKey, Torn, keyFile} ELSE UNCHANGED rdpKey

(* An error of Configure or SavePIN, or no free port: it is only logged,   *)
(* and the handler answers "started!" too.  UltraVNC's SavePIN returns no  *)
(* error, and the start goes on with the PIN of before.                    *)
StartFails ==
    /\ start # "idle"
    /\ Fault /\ CopyFails
    /\ \/ start' = "idle"
       \/ backend = "windows" /\ start = "savePIN" /\ start' = "spawn"
    /\ Blame({made}, "failed start")
    /\ UNCHANGED <<issued, delivered, unacked, installing, keySaved,
                   keyFile, certFile, failedSave, again, backend, certPath,
                   keyPath, made, handle, stop, target, server, proxy, pin>>

(* StartService runs the server until it is stopped.                       *)
ServerStarts(s) ==
    /\ server[s] = "spawned"
    /\ server' = [server EXCEPT ![s] = "running"]
    /\ UNCHANGED <<certVars, backend, certPath, keyPath, made, handle,
                   start, stop, target, proxy, pin, copies, cause>>

(* It may fail half-way, with the server left on.                          *)
ServerFails(s) ==
    /\ server[s] = "spawned"
    /\ Fault
    /\ \E left \in {"ended", "running"} :
          server' = [server EXCEPT ![s] = left]
    /\ Blame({s}, "failed start")
    /\ UNCHANGED <<issued, delivered, unacked, installing, keySaved,
                   keyFile, certFile, failedSave, again, backend, certPath,
                   keyPath, made, handle, start, stop, target, proxy, pin,
                   copies>>

(* The proxy serves if the port is free and StartTLS finds a key and a     *)
(* certificate that belong together; otherwise there is none, and a log    *)
(* line.                                                                   *)
ProxyStarts(s) ==
    /\ proxy[s] = "spawned"
    /\ IF Serving # {}
         THEN proxy' = [proxy EXCEPT ![s] = "ended"] /\ Blame({s}, "port taken")
       ELSE IF ~Paired
         THEN proxy' = [proxy EXCEPT ![s] = "ended"] /\ Blame({s}, "certificate")
       ELSE proxy' = [proxy EXCEPT ![s] = "serving"] /\ UNCHANGED cause
    /\ UNCHANGED <<certVars, backend, certPath, keyPath, made, handle,
                   start, stop, target, server, pin, copies>>

-----------------------------------------------------------------------------
(* The stop handler.                                                       *)

(* A variant that does not look for a service object.                      *)
StopUnchecked ==
    /\ stop = "idle"
    /\ target' = handle
    /\ stop' = "proxy"
    /\ UNCHANGED <<certVars, backend, certPath, keyPath, made, handle,
                   start, server, proxy, pin, copies, cause>>

(* It answers "stopped!" first; without a service object that is all.      *)
StopReceived ==
    /\ stop = "idle" /\ handle # NoSession
    /\ target' = handle
    /\ stop' = "proxy"
    /\ IF start # "idle" \/ Spawned # {} THEN Blame({handle}, "overlap")
                                          ELSE UNCHANGED cause
    /\ UNCHANGED <<certVars, backend, certPath, keyPath, made, handle,
                   start, server, proxy, pin, copies>>

(* A variant that leaves the proxy open.                                   *)
SkipProxy ==
    /\ stop = "proxy"
    /\ stop' = "PIN"
    /\ UNCHANGED <<certVars, backend, certPath, keyPath, made, handle,
                   start, target, server, proxy, pin, copies, cause>>

(* A proxy that is closed does not serve later, even if its goroutine is   *)
(* still to come.                                                          *)
CloseProxy ==
    /\ stop = "proxy"
    /\ proxy' = IF UsesProxy THEN [proxy EXCEPT ![target] = "ended"] ELSE proxy
    /\ stop' = "PIN"
    /\ UNCHANGED <<certVars, backend, certPath, keyPath, made, handle,
                   start, target, server, pin, copies, cause>>

(* The PIN is removed, or replaced by a random one that nobody is told;    *)
(* with GNOME, the directory of the copies goes too.                       *)
RemovePIN ==
    /\ stop = "PIN"
    /\ pin' = NoSession
    /\ rdpCert' = NoFile /\ rdpKey' = NoFile
    /\ stop' = "service"
    /\ UNCHANGED <<certVars, backend, certPath, keyPath, made, handle,
                   start, target, server, proxy, cause>>

StopService ==
    /\ stop = "service"
    /\ server' = [s \in Session |->
                    IF server[s] = "running" THEN "ended" ELSE server[s]]
    /\ stop' = "forget"
    /\ UNCHANGED <<certVars, backend, certPath, keyPath, made, handle,
                   start, target, proxy, pin, copies, cause>>

(* Removing the PIN or stopping the server fails.  The stop goes on, but on*)
(* Windows a failure to save the random PIN may end it (not with UltraVNC).*)
StopFails ==
    /\ Fault
    /\ \/ stop = "PIN" /\ stop' = "service"
       \/ stop = "service" /\ stop' = "forget"
       \/ stop = "PIN" /\ backend = "windows" /\ stop' = "forget"
    /\ Blame({target}, "failed stop")
    /\ UNCHANGED <<issued, delivered, unacked, installing, keySaved,
                   keyFile, certFile, failedSave, again, backend, certPath,
                   keyPath, made, handle, start, target, server, proxy, pin,
                   copies>>

(* a.RemoteDesktop = nil, whatever it is by now.                           *)
Forget ==
    /\ stop = "forget"
    /\ handle' = NoSession /\ target' = NoSession
    /\ stop' = "idle"
    /\ UNCHANGED <<certVars, backend, certPath, keyPath, made, start,
                   server, proxy, pin, copies, cause>>

(* The agent stops and is started again: proxies, handlers and the service *)
(* object are gone, servers and PIN are not.                               *)
Crash ==
    /\ Fault
    /\ CertCrash
    /\ certPath' = FALSE /\ keyPath' = FALSE
    /\ handle' = NoSession /\ target' = NoSession
    /\ start' = "idle" /\ stop' = "idle"
    /\ server' = [s \in Session |->
                    IF server[s] = "spawned" THEN "none" ELSE server[s]]
    /\ proxy' = [s \in Session |->
                   IF proxy[s] = "none" THEN "none" ELSE "ended"]
    /\ Blame(1 .. made, "crash")
    /\ UNCHANGED <<backend, made, pin, copies>>

-----------------------------------------------------------------------------
Start ==
    \/ StartRefused \/ StartReceived \/ Configure \/ ConfigureCertificate
    \/ ConfigureKey \/ DirectoryGone \/ SavePIN \/ Spawn \/ StartFails
    \/ \E s \in Session : ServerStarts(s) \/ ServerFails(s) \/ ProxyStarts(s)

Stop ==
    \/ StopReceived \/ CloseProxy \/ RemovePIN \/ StopService \/ StopFails
    \/ Forget

Next ==
    \/ CertNext /\ UNCHANGED rdVars
    \/ Start \/ Stop \/ Crash

Spec == Init /\ [][Next]_vars

-----------------------------------------------------------------------------
(* Every variable stays in its type; only a service object is started or   *)
(* stopped.                                                                *)
TypeOK ==
    /\ CertTypeOK
    /\ backend \in Backends /\ certPath \in BOOLEAN /\ keyPath \in BOOLEAN
    /\ made \in 0 .. MaxSessions
    /\ handle \in 0 .. made /\ target \in 0 .. made
    /\ start \in StartSteps /\ stop \in StopSteps
    /\ server \in [Session -> {"none", "spawned", "running", "ended"}]
    /\ proxy \in [Session -> {"none", "spawned", "serving", "ended"}]
    /\ pin \in 0 .. made /\ rdpCert \in 0 .. Torn /\ rdpKey \in 0 .. Torn
    /\ cause \in [Session -> SUBSET (StrayCauses \cup StartCauses)]
    /\ start # "idle" => made # 0
    /\ stop # "idle" => target # NoSession

(* Something of a session is left that a.RemoteDesktop does not lead to.   *)
Stray(s) ==
    s # handle /\ (server[s] = "running" \/ proxy[s] = "serving" \/ pin = s)

(* What a stop can no longer reach - a server, a proxy or a PIN - was left *)
(* by a start that replaced the object of another session, by a stop that  *)
(* ran into a start, by a stop that failed or by a crash; never by a start *)
(* that failed, nor by requests that come one after the other.             *)
StrayOnlyForCause ==
    \A s \in Session : Stray(s) => cause[s] \cap StrayCauses # {}

AtRest == start = "idle" /\ stop = "idle" /\ Spawned = {}

(* A session with nothing against it works: server, PIN, and a proxy or,   *)
(* with GNOME, a key and a certificate that belong together.  The port of  *)
(* the proxy is only ever taken by a session that was replaced or not      *)
(* stopped; and the key and the certificate of a session only differ if a  *)
(* certificate was not saved or another one was issued.                    *)
SessionWorks ==
    /\ AtRest /\ handle # NoSession /\ cause[handle] = {} =>
          /\ server[handle] = "running" /\ pin = handle
          /\ UsesProxy => proxy[handle] = "serving"
          /\ ~UsesProxy => Readable(rdpCert) /\ rdpKey = rdpCert
    /\ \A s \in Session :
          /\ "port taken" \in cause[s] =>
                \E t \in Session : cause[t] \cap StrayCauses # {}
          /\ "certificate" \in cause[s] => failedSave \/ issued > 1
=============================================================================
