------------------------------ MODULE RustDesk ------------------------------
(***************************************************************************)
(* RustDesk remote assistance: the handlers of agent.rustdesk.start and    *)
(* agent.rustdesk.stop over the user's RustDesk settings.                  *)
(*                                                                         *)
(* A start keeps RustDesk.toml (the permanent password) and RustDesk2.toml *)
(* (the options) in .bak files, unless a backup is already there, and      *)
(* writes the tenant's settings; a stop renames the backups back.  Each    *)
(* handler has a subscription, and so a goroutine, of its own: a start and *)
(* a stop may overlap.  Nothing is locked, and every step may fail or be   *)
(* the last one before the agent stops.                                    *)
(*                                                                         *)
(* The content of a file is abstracted to whose settings it holds.         *)
(***************************************************************************)
CONSTANT Platforms  \* the platforms of the instance

Password == "RustDesk.toml"
Options == "RustDesk2.toml"
File == {Password, Options}

\* "flatpak": Linux, with RustDesk installed by Flatpak.
AllPlatforms == {"linux", "flatpak", "darwin", "windows"}

ASSUME PlatformsAssumption == Platforms \subseteq AllPlatforms

VARIABLES
    platform,  \* never changes
    loggedIn,  \* who is logged in: the owner of the settings, another user
    file,      \* what each file holds
    bak,       \* what its backup holds
    start,     \* the next step of the start handler
    cfgUser,   \* the handler found a logged-in user (cfg.User)
    withPassword, \* the request carries a permanent password
    copy,      \* CopyFile in progress: of which file, what it read, what follows
    stop,      \* the next step of the stop handler
    answer,    \* the last answer, "none" while a request is in progress
    cause      \* history: what may have lost the user's settings

vars == <<platform, loggedIn, file, bak, start, cfgUser, withPassword, copy,
          stop, answer, cause>>

\* "lent": the tenant's settings; "torn": a file that is being written.
Content == {"none", "user", "lent", "torn"}

StartSteps == {"idle", "password", "command", "rewrite", "fillPassword",
               "configure", "options", "write", "fill", "restart", "copy"}
StopSteps == {"idle", "kill", "rollPassword", "rollOptions", "restart"}
Answers == {"none", "started", "stopped", "error"}
Causes == {"cut copy", "overlap", "second start", "other user"}
Users == {"nobody", "owner", "other"}

NoCopy == [of |-> Options, read |-> "none", next |-> "idle"]

Init ==
    /\ platform \in Platforms
    /\ loggedIn \in Users
    /\ file \in [File -> {"none", "user"}]
    /\ bak = [f \in File |-> "none"]
    /\ start = "idle" /\ cfgUser = FALSE /\ withPassword = FALSE
    /\ copy = NoCopy
    /\ stop = "idle"
    /\ answer = "none"
    /\ cause = [f \in File |-> {}]

UserLogsInOrOut ==
    /\ loggedIn' \in Users
    /\ UNCHANGED <<platform, file, bak, start, cfgUser, withPassword, copy,
                   stop, answer, cause>>

(* A handler answers the console and ends.                                 *)
StartAnswers(a) == start' = "idle" /\ answer' = a
StopAnswers(a) == stop' = "idle" /\ answer' = a

Blame(files, c) ==
    cause' = [f \in File |-> cause[f] \cup (IF f \in files THEN {c} ELSE {})]

-----------------------------------------------------------------------------
(* The start handler.                                                      *)

(* RustDesk is found and tells its ID; cfg.User is who is logged in now.   *)
(* Without either the handler answers with an error, and changes nothing.  *)
(* With Flatpak the files are in the home of that user: those of another   *)
(* user are not the ones modelled here.                                    *)
StartReceived ==
    /\ start = "idle"
    /\ platform = "flatpak" => loggedIn # "other"
    /\ withPassword' \in BOOLEAN
    /\ cfgUser' = (loggedIn # "nobody")
    /\ answer' = "none"
    /\ start' = "password"
    /\ IF stop = "idle" THEN UNCHANGED cause ELSE Blame(File, "overlap")
    /\ UNCHANGED <<platform, loggedIn, file, bak, copy, stop>>

PasswordSkipped ==
    /\ start = "password" /\ ~withPassword
    /\ start' = "configure"
    /\ UNCHANGED <<platform, loggedIn, file, bak, cfgUser, withPassword, copy,
                   stop, answer, cause>>

(* A variant that copies over an existing backup everywhere.               *)
NeedsCopyAlways(f) == file[f] # "none"

(* A variant that does not look whether the file exists.                   *)
NeedsCopyUnchecked(f) == bak[f] = "none"

(* A backup is made "unless a previous backup exists to prevent that the   *)
(* admin forgot to revert it"; of the options, macOS always makes one.     *)
NeedsCopy(f) ==
    /\ file[f] # "none"
    /\ bak[f] = "none" \/ (platform = "darwin" /\ f = Options)

(* CopyFile opens the file and creates, or truncates, its backup.          *)
Backup(f, next) ==
    IF NeedsCopy(f)
      THEN /\ bak' = [bak EXCEPT ![f] = "torn"]
           /\ copy' = [of |-> f, read |-> file[f], next |-> next]
           /\ start' = "copy"
           /\ IF platform = "darwin" /\ bak[f] # "none"
                THEN Blame({f}, "second start") ELSE UNCHANGED cause
      ELSE /\ start' = next
           /\ UNCHANGED <<bak, copy, cause>>

(* The content goes to the file that was created, wherever a stop renamed  *)
(* it to in the meantime.                                                  *)
CopyEnds ==
    /\ start = "copy"
    /\ IF bak[copy.of] = "none"
         THEN file' = [file EXCEPT ![copy.of] = copy.read] /\ UNCHANGED bak
         ELSE bak' = [bak EXCEPT ![copy.of] = copy.read] /\ UNCHANGED file
    /\ start' = copy.next /\ copy' = NoCopy
    /\ UNCHANGED <<platform, loggedIn, cfgUser, withPassword, stop, answer,
                   cause>>

(* SetRustDeskPassword, where the rustdesk command sets the password.      *)
BackupPassword ==
    /\ start = "password" /\ withPassword /\ platform # "flatpak"
    /\ Backup(Password, "command")
    /\ UNCHANGED <<platform, loggedIn, file, cfgUser, withPassword, stop,
                   answer>>

(* Any output but "Done!" is logged, and the handler goes on.              *)
RunPasswordCommand ==
    /\ start = "command"
    /\ \/ file' = [file EXCEPT ![Password] = "lent"]
       \/ UNCHANGED file
    /\ start' = "configure"
    /\ UNCHANGED <<platform, loggedIn, bak, cfgUser, withPassword, copy, stop,
                   answer, cause>>

(* With Flatpak the file is renamed to its backup and written anew.        *)
RenamePassword ==
    /\ start = "password" /\ withPassword /\ platform = "flatpak"
    /\ cfgUser /\ file[Password] # "none"
    /\ IF bak[Password] = "none"
         THEN /\ bak' = [bak EXCEPT ![Password] = file[Password]]
              /\ file' = [file EXCEPT ![Password] = "none"]
         ELSE UNCHANGED <<file, bak>>
    /\ start' = "rewrite"
    /\ UNCHANGED <<platform, loggedIn, cfgUser, withPassword, copy, stop,
                   answer, cause>>

(* os.WriteFile truncates or creates the file, then writes it.             *)
Truncate(f, next) ==
    /\ file' = [file EXCEPT ![f] = "torn"]
    /\ start' = next
    /\ UNCHANGED <<platform, loggedIn, bak, cfgUser, withPassword, copy, stop,
                   answer, cause>>

Fill(f, next) ==
    /\ file' = [file EXCEPT ![f] = "lent"]
    /\ start' = next
    /\ UNCHANGED <<platform, loggedIn, bak, cfgUser, withPassword, copy, stop,
                   answer, cause>>

RewritePassword == start = "rewrite" /\ Truncate(Password, "fillPassword")

FillPassword == start = "fillPassword" /\ Fill(Password, "configure")

(* Configure.  Windows also backs up the password file, here again.        *)
ConfigureBegins ==
    /\ start = "configure"
    /\ platform = "flatpak" => cfgUser
    /\ IF platform = "windows"
         THEN Backup(Password, "options")
         ELSE start' = "options" /\ UNCHANGED <<bak, copy, cause>>
    /\ UNCHANGED <<platform, loggedIn, file, cfgUser, withPassword, stop,
                   answer>>

BackupOptions ==
    /\ start = "options"
    /\ Backup(Options, "write")
    /\ UNCHANGED <<platform, loggedIn, file, cfgUser, withPassword, stop,
                   answer>>

WriteOptions == start = "write" /\ Truncate(Options, "fill")

FillOptions == start = "fill" /\ Fill(Options, "restart")

(* The service restarts, or with Flatpak the file changes owner.           *)
Restarted ==
    /\ start = "restart"
    /\ StartAnswers("started")
    /\ UNCHANGED <<platform, loggedIn, file, bak, cfgUser, withPassword, copy,
                   stop, cause>>

(* With Flatpak, setting a password dereferences cfg.User, nil or not.     *)
Panics ==
    start = "password" /\ withPassword /\ platform = "flatpak" /\ ~cfgUser

(* Every step may return an error, which ends the handler where it stands. *)
StartFails ==
    /\ start # "idle" /\ ~Panics
    /\ StartAnswers("error") /\ copy' = NoCopy
    /\ IF start = "copy" THEN Blame({copy.of}, "cut copy") ELSE UNCHANGED cause
    /\ UNCHANGED <<platform, loggedIn, file, bak, cfgUser, withPassword, stop>>

-----------------------------------------------------------------------------
(* The stop handler.                                                       *)

StopReceived ==
    /\ stop = "idle"
    /\ answer' = "none"
    /\ stop' = "kill"
    /\ IF start = "idle" THEN UNCHANGED cause ELSE Blame(File, "overlap")
    /\ UNCHANGED <<platform, loggedIn, file, bak, start, cfgUser, withPassword,
                   copy>>

StopGoesTo(step) ==
    /\ stop' = step
    /\ UNCHANGED <<platform, loggedIn, start, cfgUser, withPassword, copy,
                   answer>>

(* The process is killed.  On Linux ConfigRollBack first looks for a       *)
(* logged-in user, with or without Flatpak, and gives up without one; with *)
(* Flatpak it then looks for backups in the home of that user.             *)
Killed ==
    /\ stop = "kill"
    /\ platform \in {"linux", "flatpak"} => loggedIn # "nobody"
    /\ IF platform = "flatpak" /\ loggedIn = "other"
         THEN StopGoesTo("restart") /\ Blame(File, "other user")
         ELSE StopGoesTo("rollPassword") /\ UNCHANGED cause
    /\ UNCHANGED <<file, bak>>

(* Windows does not rename a file that CopyFile holds open.                *)
HeldOpen(f) == platform = "windows" /\ start = "copy" /\ copy.of = f

RollBack(f) ==
    IF bak[f] = "none" THEN UNCHANGED <<file, bak>>
    ELSE /\ ~HeldOpen(f)
         /\ file' = [file EXCEPT ![f] = bak[f]]
         /\ bak' = [bak EXCEPT ![f] = "none"]

(* A variant that forgets the password file.                               *)
RollBackPasswordSkipped ==
    /\ stop = "rollPassword"
    /\ StopGoesTo("rollOptions")
    /\ UNCHANGED <<file, bak, cause>>

RollBackPassword ==
    /\ stop = "rollPassword"
    /\ RollBack(Password)
    /\ StopGoesTo("rollOptions") /\ UNCHANGED cause

RollBackOptions ==
    /\ stop = "rollOptions"
    /\ RollBack(Options)
    /\ StopGoesTo("restart") /\ UNCHANGED cause

StopEnds ==
    /\ stop = "restart"
    /\ StopAnswers("stopped")
    /\ UNCHANGED <<platform, loggedIn, file, bak, start, cfgUser, withPassword,
                   copy, cause>>

StopFails ==
    /\ stop # "idle"
    /\ StopAnswers("error")
    /\ UNCHANGED <<platform, loggedIn, file, bak, start, cfgUser, withPassword,
                   copy, cause>>

(* The agent stops at any step, on its own if it Panics, and is started    *)
(* again.                                                                  *)
Crash ==
    /\ start' = "idle" /\ stop' = "idle"
    /\ answer' = "none" /\ copy' = NoCopy
    /\ IF start = "copy" THEN Blame({copy.of}, "cut copy") ELSE UNCHANGED cause
    /\ UNCHANGED <<platform, loggedIn, file, bak, cfgUser, withPassword>>

-----------------------------------------------------------------------------
Start ==
    \/ StartReceived \/ PasswordSkipped \/ BackupPassword \/ CopyEnds
    \/ RunPasswordCommand \/ RenamePassword \/ RewritePassword \/ FillPassword
    \/ ConfigureBegins \/ BackupOptions \/ WriteOptions \/ FillOptions
    \/ Restarted \/ StartFails

Stop ==
    \/ StopReceived \/ Killed \/ RollBackPassword \/ RollBackOptions
    \/ StopEnds \/ StopFails

Next == UserLogsInOrOut \/ Start \/ Stop \/ Crash

Spec == Init /\ [][Next]_vars

-----------------------------------------------------------------------------
(* Every variable stays in its type, and CopyFile reads an existing file.  *)
TypeOK ==
    /\ platform \in Platforms /\ loggedIn \in Users
    /\ file \in [File -> Content] /\ bak \in [File -> Content]
    /\ start \in StartSteps /\ stop \in StopSteps
    /\ cfgUser \in BOOLEAN /\ withPassword \in BOOLEAN
    /\ copy \in [of : File, read : Content, next : StartSteps \ {"copy"}]
    /\ start = "copy" => copy.read # "none"
    /\ answer \in Answers
    /\ cause \in [File -> SUBSET Causes]

(* The user's settings can still be found, in the file or in its backup.   *)
Kept(f) == "user" \in {file[f], bak[f]}

(* Whatever the order of requests, failures and crashes, settings of the   *)
(* user that are gone were lost by a copy cut half-way, by a start and a   *)
(* stop at the same time, or by a second start on macOS ("a backup unless  *)
(* a previous backup exists"): no other order ever costs them.             *)
LostOnlyForCause ==
    [][\A f \in File : Kept(f) /\ ~Kept(f)' => cause'[f] # {}]_vars

(* What RustDesk uses, for the abstract specification: a file that is      *)
(* missing or half written while the user's is in the backup is being lent.*)
own == [f \in File |-> IF Kept(f) THEN "user" ELSE "none"]

used == [f \in File |->
            IF file[f] = "user" THEN "user"
            ELSE IF file[f] = "none" /\ ~Kept(f) THEN "none" ELSE "lent"]

excused == {f \in File : cause[f] # {}}

Lent == INSTANCE LentSettings WITH Always <- Options

(* The two handlers lend and give back: an answered start has lent the     *)
(* options, an answered stop has given back all that the user had, and the *)
(* user loses nothing in between, but for the files with a cause to excuse.*)
LendsAndGivesBack == Lent!Spec
=============================================================================
