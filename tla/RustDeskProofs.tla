--------------------------- MODULE RustDeskProofs ---------------------------
(***************************************************************************)
(* Proofs about RustDesk, for every subset of the platforms and however    *)
(* many requests, failures and crashes: its types, that the user's         *)
(* settings are only lost for a cause, and that it implements LentSettings.*)
(***************************************************************************)
EXTENDS RustDesk, TLAPS

(* A start and a stop at the same time excuse both files.                  *)
AllExcused == \A f \in File : cause[f] # {}

Alone == start # "idle" /\ stop # "idle" => AllExcused

(* While a handler runs the console has no answer.                         *)
Waiting == start # "idle" \/ stop # "idle" => answer = "none" \/ AllExcused

(* What CopyFile copies, and to where.                                     *)
Copying ==
    start = "copy" =>
        /\ copy.next \in {"command", "options", "write"}
        /\ copy.of = IF copy.next = "write" THEN Options ELSE Password
        /\ cause[copy.of] = {} =>
              bak[copy.of] = "torn" /\ file[copy.of] = copy.read

(* A backup of the user's settings holds them, unless it is being made.    *)
BackupIsTheirs ==
    \A f \in File :
        cause[f] = {} /\ bak[f] # "none" /\ file[f] = "user" =>
            bak[f] = "user" \/ (start = "copy" /\ copy.of = f)

(* A file of the user is backed up when the handler comes to replace it.   *)
BackedUp ==
    /\ start \in {"command", "rewrite"} /\ cause[Password] = {} =>
          (file[Password] = "user" => bak[Password] # "none")
    /\ start = "write" /\ cause[Options] = {} =>
          (file[Options] = "user" => bak[Options] # "none")

(* What the handler has written so far.                                    *)
Written ==
    /\ start = "fillPassword" /\ cause[Password] = {} => file[Password] = "torn"
    /\ start = "fill" /\ cause[Options] = {} => file[Options] = "torn"
    /\ start = "restart" /\ cause[Options] = {} => file[Options] = "lent"

(* With Flatpak a password file is only written where the user has one.    *)
FlatpakRewrites ==
    platform = "flatpak" =>
        /\ start # "command" /\ (start = "copy" => copy.of = Options)
        /\ cause[Password] = {} =>
              \/ Kept(Password)
              \/ /\ file[Password] = "none" /\ bak[Password] = "none"
                 /\ start \notin {"rewrite", "fillPassword"}

(* What the stop handler has renamed back.                                 *)
GivenBack ==
    /\ stop = "rollOptions" /\ cause[Password] = {} => bak[Password] = "none"
    /\ stop = "restart" => \A f \in File : cause[f] = {} => bak[f] = "none"

LendingInv ==
    /\ TypeOK
    /\ Alone /\ Waiting /\ Copying /\ BackupIsTheirs /\ BackedUp /\ Written
    /\ FlatpakRewrites /\ GivenBack

-----------------------------------------------------------------------------
(* An excuse is for good.                                                  *)
Grows == /\ cause' \in [File -> SUBSET Causes]
         /\ \A f \in File : cause[f] \subseteq cause'[f]

(* What Blame and Backup do.                                               *)
LEMMA BlameFact ==
    ASSUME TypeOK, NEW files \in SUBSET File, NEW c \in Causes, Blame(files, c)
    PROVE  /\ Grows
           /\ \A f \in files : cause'[f] # {}
           /\ \A f \in File \ files : cause'[f] = cause[f]
  BY DEF TypeOK, Blame, Grows

LEMMA BackupFact ==
    ASSUME TypeOK, NEW f \in File, NEW next \in StartSteps \ {"copy"},
           Backup(f, next)
    PROVE  /\ Grows
           /\ \A g \in File \ {f} : cause'[g] = cause[g] /\ bak'[g] = bak[g]
           /\ \/ /\ start' = "copy"
                 /\ copy' = [of |-> f, read |-> file[f], next |-> next]
                 /\ NeedsCopy(f)
                 /\ bak' = [bak EXCEPT ![f] = "torn"]
                 /\ bak[f] # "none" => cause'[f] # {}
                 /\ bak[f] = "none" => cause' = cause
              \/ /\ start' = next /\ ~NeedsCopy(f)
                 /\ bak' = bak /\ copy' = copy /\ cause' = cause
  <1>1. CASE NeedsCopy(f)
    <2>1. cause' = cause \/ Blame({f}, "second start")
      BY <1>1 DEF Backup
    <2>2. bak[f] # "none" => Blame({f}, "second start")
      BY <1>1 DEF Backup, NeedsCopy
    <2>3. bak[f] = "none" => cause' = cause
      BY <1>1 DEF Backup
    <2>4. "second start" \in Causes
      BY DEF Causes
    <2>5. Grows /\ \A g \in File \ {f} : cause'[g] = cause[g]
      BY <2>1, <2>4, BlameFact DEF Grows, TypeOK
    <2>6. bak[f] # "none" => cause'[f] # {}
      BY <2>2, <2>4, BlameFact
    <2>7. start' = "copy" /\ copy' = [of |-> f, read |-> file[f], next |-> next]
          /\ bak' = [bak EXCEPT ![f] = "torn"]
      BY <1>1 DEF Backup
    <2> QED BY <1>1, <2>3, <2>5, <2>6, <2>7 DEF TypeOK
  <1>2. CASE ~NeedsCopy(f)
    BY <1>2 DEF Backup, Grows, TypeOK
  <1> QED BY <1>1, <1>2

(* Every action keeps the invariant.                                       *)
LEMMA UserLogsInOrOutStep == LendingInv /\ UserLogsInOrOut => LendingInv'
  <1> SUFFICES ASSUME LendingInv, UserLogsInOrOut PROVE LendingInv'
    OBVIOUS
  <1> USE DEF LendingInv, File, Password, Options, AllExcused, Kept
  <1>1. TypeOK'
    BY DEF TypeOK, Users, UserLogsInOrOut
  <1>2. Alone' /\ Waiting' /\ Written' /\ GivenBack'
       /\ Copying' /\ BackedUp' /\ BackupIsTheirs' /\ FlatpakRewrites'
    BY DEF TypeOK, Alone, Waiting, Written, Copying, GivenBack, BackedUp,
       BackupIsTheirs, FlatpakRewrites, UserLogsInOrOut
  <1> QED BY <1>1, <1>2

LEMMA StartReceivedStep == LendingInv /\ StartReceived => LendingInv'
  <1> SUFFICES ASSUME LendingInv, StartReceived PROVE LendingInv'
    OBVIOUS
  <1> USE DEF LendingInv, File, Password, Options, AllExcused, Kept
  <1>1. TypeOK'
    BY BlameFact DEF TypeOK, StartSteps, Answers, Causes, Grows, StartReceived
  <1>2. Alone' /\ Waiting' /\ Written' /\ GivenBack'
    BY BlameFact DEF TypeOK, Alone, Waiting, Written, Copying, GivenBack,
       StartReceived, Grows, Causes, StartSteps
  <1>3. Copying' /\ BackedUp'
    BY BlameFact DEF TypeOK, Copying, Alone, BackedUp, BackupIsTheirs,
       StartReceived, Grows, Causes, StartSteps
  <1>4. BackupIsTheirs' /\ FlatpakRewrites'
    BY BlameFact DEF TypeOK, BackupIsTheirs, BackedUp, Copying, Alone, Written,
       FlatpakRewrites, StartReceived, Grows, Causes, StartSteps
  <1> QED BY <1>1, <1>2, <1>3, <1>4

LEMMA PasswordSkippedStep == LendingInv /\ PasswordSkipped => LendingInv'
  <1> SUFFICES ASSUME LendingInv, PasswordSkipped PROVE LendingInv'
    OBVIOUS
  <1> USE DEF LendingInv, File, Password, Options, AllExcused, Kept
  <1>1. TypeOK'
    BY DEF TypeOK, StartSteps, PasswordSkipped
  <1>2. Alone' /\ Waiting' /\ Written' /\ GivenBack'
       /\ Copying' /\ BackedUp' /\ BackupIsTheirs' /\ FlatpakRewrites'
    BY DEF TypeOK, Alone, Waiting, Written, Copying, GivenBack, BackedUp,
       BackupIsTheirs, FlatpakRewrites, PasswordSkipped
  <1> QED BY <1>1, <1>2

(* A backup, in the three steps that may make one.                         *)
LEMMA BackupStep ==
    ASSUME LendingInv, NEW f \in File,
           NEW next \in {"command", "options", "write"},
           f = IF next = "write" THEN Options ELSE Password,
           platform = "flatpak" => f = Options,
           start \in {"password", "configure", "options"},
           Backup(f, next),
           UNCHANGED <<platform, loggedIn, file, cfgUser, withPassword, stop,
                       answer>>
    PROVE  LendingInv'
  <1> USE DEF LendingInv, File, Password, Options, AllExcused, Kept
  <1>1. Grows /\ \A g \in File \ {f} : cause'[g] = cause[g] /\ bak'[g] = bak[g]
    BY BackupFact DEF StartSteps
  <1>2. CASE /\ start' = "copy"
             /\ copy' = [of |-> f, read |-> file[f], next |-> next]
             /\ NeedsCopy(f)
             /\ bak' = [bak EXCEPT ![f] = "torn"]
             /\ bak[f] # "none" => cause'[f] # {}
             /\ bak[f] = "none" => cause' = cause
    <2>1. TypeOK'
      BY <1>1, <1>2 DEF TypeOK, StartSteps, Content, NeedsCopy, Grows
    <2>2. Alone' /\ Waiting' /\ Written' /\ GivenBack'
      BY <1>1, <1>2 DEF TypeOK, NeedsCopy, Grows, Alone, Waiting, Written,
         Copying, GivenBack
    <2>3. Copying' /\ BackedUp'
      BY <1>1, <1>2 DEF TypeOK, NeedsCopy, Grows, Copying, Alone, BackedUp,
         BackupIsTheirs
    <2>4. BackupIsTheirs' /\ FlatpakRewrites'
      BY <1>1, <1>2 DEF TypeOK, NeedsCopy, Grows, BackupIsTheirs, BackedUp,
         Copying, Alone, Written, FlatpakRewrites
    <2> QED BY <2>1, <2>2, <2>3, <2>4
  <1>3. CASE /\ start' = next /\ ~NeedsCopy(f)
             /\ bak' = bak /\ copy' = copy /\ cause' = cause
    <2>1. TypeOK'
      BY <1>1, <1>3 DEF TypeOK, StartSteps, Content, NeedsCopy, Grows
    <2>2. Alone' /\ Waiting' /\ Written' /\ GivenBack'
      BY <1>1, <1>3 DEF TypeOK, NeedsCopy, Grows, Alone, Waiting, Written,
         Copying, GivenBack
    <2>3. Copying' /\ BackedUp'
      BY <1>1, <1>3 DEF TypeOK, NeedsCopy, Grows, Copying, Alone, BackedUp,
         BackupIsTheirs
    <2>4. BackupIsTheirs' /\ FlatpakRewrites'
      BY <1>1, <1>3 DEF TypeOK, NeedsCopy, Grows, BackupIsTheirs, BackedUp,
         Copying, Alone, Written, FlatpakRewrites
    <2> QED BY <2>1, <2>2, <2>3, <2>4
  <1> QED BY <1>2, <1>3, BackupFact DEF StartSteps

LEMMA BackupPasswordStep == LendingInv /\ BackupPassword => LendingInv'
  BY BackupStep DEF BackupPassword, File

LEMMA CopyEndsStep == LendingInv /\ CopyEnds => LendingInv'
  <1> SUFFICES ASSUME LendingInv, CopyEnds PROVE LendingInv'
    OBVIOUS
  <1> USE DEF LendingInv, File, Password, Options, AllExcused, Kept
  <1>1. TypeOK'
    BY DEF TypeOK, NoCopy, Content, StartSteps, CopyEnds
  <1>2. Alone' /\ Waiting' /\ Written' /\ GivenBack'
    BY DEF TypeOK, Alone, Waiting, Written, Copying, GivenBack, CopyEnds
  <1>3. Copying' /\ BackedUp'
    BY DEF TypeOK, Copying, Alone, BackedUp, BackupIsTheirs, CopyEnds
  <1>4. BackupIsTheirs' /\ FlatpakRewrites'
    BY DEF TypeOK, BackupIsTheirs, BackedUp, Copying, Alone, Written,
       FlatpakRewrites, CopyEnds
  <1> QED BY <1>1, <1>2, <1>3, <1>4

LEMMA RunPasswordCommandStep == LendingInv /\ RunPasswordCommand => LendingInv'
  <1> SUFFICES ASSUME LendingInv, RunPasswordCommand PROVE LendingInv'
    OBVIOUS
  <1> USE DEF LendingInv, File, Password, Options, AllExcused, Kept
  <1>1. TypeOK'
    BY DEF TypeOK, Content, StartSteps, RunPasswordCommand
  <1>2. Alone' /\ Waiting' /\ Written' /\ GivenBack'
    BY DEF TypeOK, Alone, Waiting, Written, Copying, GivenBack,
       RunPasswordCommand
  <1>3. Copying' /\ BackedUp'
    BY DEF TypeOK, Copying, Alone, BackedUp, BackupIsTheirs, RunPasswordCommand
  <1>4. BackupIsTheirs' /\ FlatpakRewrites'
    BY DEF TypeOK, BackupIsTheirs, BackedUp, Copying, Alone, Written,
       FlatpakRewrites, RunPasswordCommand
  <1> QED BY <1>1, <1>2, <1>3, <1>4

LEMMA RenamePasswordStep == LendingInv /\ RenamePassword => LendingInv'
  <1> SUFFICES ASSUME LendingInv, RenamePassword PROVE LendingInv'
    OBVIOUS
  <1> USE DEF LendingInv, File, Password, Options, AllExcused, Kept
  <1>1. TypeOK'
    BY DEF TypeOK, Content, StartSteps, RenamePassword
  <1>2. Alone' /\ Waiting' /\ Written' /\ GivenBack'
    BY DEF TypeOK, Alone, Waiting, Written, Copying, GivenBack, RenamePassword
  <1>3. Copying' /\ BackedUp'
    BY DEF TypeOK, Copying, Alone, BackedUp, BackupIsTheirs, RenamePassword
  <1>4. BackupIsTheirs' /\ FlatpakRewrites'
    BY DEF TypeOK, BackupIsTheirs, BackedUp, Copying, Alone, Written,
       FlatpakRewrites, RenamePassword
  <1> QED BY <1>1, <1>2, <1>3, <1>4

LEMMA RewritePasswordStep == LendingInv /\ RewritePassword => LendingInv'
  <1> SUFFICES ASSUME LendingInv, RewritePassword PROVE LendingInv'
    OBVIOUS
  <1> USE DEF LendingInv, File, Password, Options, AllExcused, Kept
  <1>1. TypeOK'
    BY DEF TypeOK, Content, StartSteps, RewritePassword, Truncate
  <1>2. Alone' /\ Waiting' /\ Written' /\ GivenBack'
    BY DEF TypeOK, Alone, Waiting, Written, Copying, GivenBack,
       RewritePassword, Truncate
  <1>3. Copying' /\ BackedUp'
    BY DEF TypeOK, Copying, Alone, BackedUp, BackupIsTheirs, RewritePassword,
       Truncate
  <1>4. BackupIsTheirs' /\ FlatpakRewrites'
    BY DEF TypeOK, BackupIsTheirs, BackedUp, Copying, Alone, Written,
       FlatpakRewrites, RewritePassword, Truncate
  <1> QED BY <1>1, <1>2, <1>3, <1>4

LEMMA FillPasswordStep == LendingInv /\ FillPassword => LendingInv'
  <1> SUFFICES ASSUME LendingInv, FillPassword PROVE LendingInv'
    OBVIOUS
  <1> USE DEF LendingInv, File, Password, Options, AllExcused, Kept
  <1>1. TypeOK'
    BY DEF TypeOK, Content, StartSteps, FillPassword, Fill
  <1>2. Alone' /\ Waiting' /\ Written' /\ GivenBack'
    BY DEF TypeOK, Alone, Waiting, Written, Copying, GivenBack, FillPassword,
       Fill
  <1>3. Copying' /\ BackedUp'
    BY DEF TypeOK, Copying, Alone, BackedUp, BackupIsTheirs, FillPassword, Fill
  <1>4. BackupIsTheirs' /\ FlatpakRewrites'
    BY DEF TypeOK, BackupIsTheirs, BackedUp, Copying, Alone, Written,
       FlatpakRewrites, FillPassword, Fill
  <1> QED BY <1>1, <1>2, <1>3, <1>4

LEMMA ConfigureBeginsStep == LendingInv /\ ConfigureBegins => LendingInv'
  <1> SUFFICES ASSUME LendingInv, ConfigureBegins PROVE LendingInv'
    OBVIOUS
  <1>1. CASE platform = "windows"
    BY <1>1, BackupStep DEF ConfigureBegins, File
  <1>2. CASE platform # "windows"
    <2> USE DEF LendingInv, File, Password, Options, AllExcused, Kept
    <2>1. TypeOK'
      BY <1>2 DEF TypeOK, StartSteps, ConfigureBegins
    <2>2. Alone' /\ Waiting' /\ Written' /\ GivenBack'
         /\ Copying' /\ BackedUp' /\ BackupIsTheirs' /\ FlatpakRewrites'
      BY <1>2 DEF TypeOK, Alone, Waiting, Written, Copying, GivenBack,
         BackedUp, BackupIsTheirs, FlatpakRewrites, ConfigureBegins
    <2> QED BY <2>1, <2>2
  <1> QED BY <1>1, <1>2

LEMMA BackupOptionsStep == LendingInv /\ BackupOptions => LendingInv'
  BY BackupStep DEF BackupOptions, File

LEMMA WriteOptionsStep == LendingInv /\ WriteOptions => LendingInv'
  <1> SUFFICES ASSUME LendingInv, WriteOptions PROVE LendingInv'
    OBVIOUS
  <1> USE DEF LendingInv, File, Password, Options, AllExcused, Kept
  <1>1. TypeOK'
    BY DEF TypeOK, Content, StartSteps, WriteOptions, Truncate
  <1>2. Alone' /\ Waiting' /\ Written' /\ GivenBack'
    BY DEF TypeOK, Alone, Waiting, Written, Copying, GivenBack, WriteOptions,
       Truncate
  <1>3. Copying' /\ BackedUp'
    BY DEF TypeOK, Copying, Alone, BackedUp, BackupIsTheirs, WriteOptions,
       Truncate
  <1>4. BackupIsTheirs' /\ FlatpakRewrites'
    BY DEF TypeOK, BackupIsTheirs, BackedUp, Copying, Alone, Written,
       FlatpakRewrites, WriteOptions, Truncate
  <1> QED BY <1>1, <1>2, <1>3, <1>4

LEMMA FillOptionsStep == LendingInv /\ FillOptions => LendingInv'
  <1> SUFFICES ASSUME LendingInv, FillOptions PROVE LendingInv'
    OBVIOUS
  <1> USE DEF LendingInv, File, Password, Options, AllExcused, Kept
  <1>1. TypeOK'
    BY DEF TypeOK, Content, StartSteps, FillOptions, Fill
  <1>2. Alone' /\ Waiting' /\ Written' /\ GivenBack'
    BY DEF TypeOK, Alone, Waiting, Written, Copying, GivenBack, FillOptions,
       Fill
  <1>3. Copying' /\ BackedUp'
    BY DEF TypeOK, Copying, Alone, BackedUp, BackupIsTheirs, FillOptions, Fill
  <1>4. BackupIsTheirs' /\ FlatpakRewrites'
    BY DEF TypeOK, BackupIsTheirs, BackedUp, Copying, Alone, Written,
       FlatpakRewrites, FillOptions, Fill
  <1> QED BY <1>1, <1>2, <1>3, <1>4

LEMMA RestartedStep == LendingInv /\ Restarted => LendingInv'
  <1> SUFFICES ASSUME LendingInv, Restarted PROVE LendingInv'
    OBVIOUS
  <1> USE DEF LendingInv, File, Password, Options, AllExcused, Kept
  <1>1. TypeOK'
    BY DEF TypeOK, Answers, StartSteps, Restarted, StartAnswers
  <1>2. Alone' /\ Waiting' /\ Written' /\ GivenBack'
       /\ Copying' /\ BackedUp' /\ BackupIsTheirs' /\ FlatpakRewrites'
    BY DEF TypeOK, Alone, Waiting, Written, Copying, GivenBack, BackedUp,
       BackupIsTheirs, FlatpakRewrites, Restarted, StartAnswers
  <1> QED BY <1>1, <1>2

LEMMA StartFailsStep == LendingInv /\ StartFails => LendingInv'
  <1> SUFFICES ASSUME LendingInv, StartFails PROVE LendingInv'
    OBVIOUS
  <1> USE DEF LendingInv, File, Password, Options, AllExcused, Kept
  <1>1. TypeOK'
    BY BlameFact DEF TypeOK, NoCopy, Content, StartSteps, Answers, Causes,
       Grows, StartFails, StartAnswers, Panics
  <1>2. Alone' /\ Waiting' /\ Written' /\ GivenBack'
    BY ZenonT(40), BlameFact
    DEF TypeOK, Alone, Waiting, Written, Copying, GivenBack,
       StartFails, StartAnswers, Panics, Grows, Causes, StartSteps
  <1>3. Copying' /\ BackedUp'
    BY BlameFact DEF TypeOK, Copying, Alone, BackedUp, BackupIsTheirs,
       StartFails, StartAnswers, Panics, Grows, Causes, StartSteps
  <1>4. BackupIsTheirs'
    BY ZenonT(40), BlameFact
    DEF TypeOK, BackupIsTheirs, BackedUp, Copying, Alone, Written,
       StartFails, StartAnswers, Panics, Grows, Causes, StartSteps
  <1>5. FlatpakRewrites'
    BY BlameFact DEF TypeOK, FlatpakRewrites, BackedUp, Copying, Alone,
       BackupIsTheirs, Written, StartFails, StartAnswers, Panics, Grows,
       Causes, StartSteps
  <1> QED BY <1>1, <1>2, <1>3, <1>4, <1>5

LEMMA StopReceivedStep == LendingInv /\ StopReceived => LendingInv'
  <1> SUFFICES ASSUME LendingInv, StopReceived PROVE LendingInv'
    OBVIOUS
  <1> USE DEF LendingInv, File, Password, Options, AllExcused, Kept
  <1>1. TypeOK'
    BY BlameFact DEF TypeOK, StopSteps, Answers, Causes, Grows, StopReceived
  <1>2. Alone' /\ Waiting' /\ Written' /\ GivenBack'
    BY BlameFact DEF TypeOK, Alone, Waiting, Written, Copying, GivenBack,
       StopReceived, Grows, Causes, StartSteps
  <1>3. Copying' /\ BackedUp'
    BY BlameFact DEF TypeOK, Copying, Alone, BackedUp, BackupIsTheirs,
       StopReceived, Grows, Causes, StartSteps
  <1>4. BackupIsTheirs' /\ FlatpakRewrites'
    BY ZenonT(40), BlameFact
    DEF TypeOK, BackupIsTheirs, BackedUp, Copying, Alone, Written,
       FlatpakRewrites, StopReceived, Grows, Causes, StartSteps
  <1> QED BY <1>1, <1>2, <1>3, <1>4

LEMMA KilledStep == LendingInv /\ Killed => LendingInv'
  <1> SUFFICES ASSUME LendingInv, Killed PROVE LendingInv'
    OBVIOUS
  <1> USE DEF LendingInv, File, Password, Options, AllExcused, Kept
  <1>1. TypeOK'
    BY BlameFact DEF TypeOK, StopSteps, Causes, Grows, Killed, StopGoesTo
  <1>2. Alone' /\ Waiting' /\ Written' /\ GivenBack'
    BY ZenonT(40), BlameFact
    DEF TypeOK, Alone, Waiting, Written, Copying, GivenBack,
       Killed, StopGoesTo, Grows, Causes, StartSteps
  <1>3. Copying' /\ BackedUp'
    BY BlameFact DEF TypeOK, Copying, Alone, BackedUp, BackupIsTheirs, Killed,
       StopGoesTo, Grows, Causes, StartSteps
  <1>4. BackupIsTheirs' /\ FlatpakRewrites'
    BY BlameFact DEF TypeOK, BackupIsTheirs, BackedUp, Copying, Alone, Written,
       FlatpakRewrites, Killed, StopGoesTo, Grows, Causes, StartSteps
  <1> QED BY <1>1, <1>2, <1>3, <1>4

LEMMA RollBackPasswordStep == LendingInv /\ RollBackPassword => LendingInv'
  <1> SUFFICES ASSUME LendingInv, RollBackPassword PROVE LendingInv'
    OBVIOUS
  <1> USE DEF LendingInv, File, Password, Options, AllExcused, Kept
  <1>1. TypeOK'
    BY DEF TypeOK, Content, StopSteps, RollBackPassword, RollBack, StopGoesTo,
       HeldOpen
  <1>2. Alone' /\ Waiting' /\ Written' /\ GivenBack'
    BY DEF TypeOK, Alone, Waiting, Written, Copying, GivenBack,
       RollBackPassword, RollBack, StopGoesTo, HeldOpen
  <1>3. Copying' /\ BackedUp'
    BY DEF TypeOK, Copying, Alone, BackedUp, BackupIsTheirs, RollBackPassword,
       RollBack, StopGoesTo, HeldOpen
  <1>4. BackupIsTheirs' /\ FlatpakRewrites'
    BY DEF TypeOK, BackupIsTheirs, BackedUp, Copying, Alone, Written,
       FlatpakRewrites, RollBackPassword, RollBack, StopGoesTo, HeldOpen
  <1> QED BY <1>1, <1>2, <1>3, <1>4

LEMMA RollBackOptionsStep == LendingInv /\ RollBackOptions => LendingInv'
  <1> SUFFICES ASSUME LendingInv, RollBackOptions PROVE LendingInv'
    OBVIOUS
  <1> USE DEF LendingInv, File, Password, Options, AllExcused, Kept
  <1>1. TypeOK'
    BY DEF TypeOK, Content, StopSteps, RollBackOptions, RollBack, StopGoesTo,
       HeldOpen
  <1>2. Alone' /\ Waiting' /\ Written' /\ GivenBack'
    BY DEF TypeOK, Alone, Waiting, Written, Copying, GivenBack,
       RollBackOptions, RollBack, StopGoesTo, HeldOpen
  <1>3. Copying' /\ BackedUp'
    BY DEF TypeOK, Copying, Alone, BackedUp, BackupIsTheirs, RollBackOptions,
       RollBack, StopGoesTo, HeldOpen
  <1>4. BackupIsTheirs' /\ FlatpakRewrites'
    BY DEF TypeOK, BackupIsTheirs, BackedUp, Copying, Alone, Written,
       FlatpakRewrites, RollBackOptions, RollBack, StopGoesTo, HeldOpen
  <1> QED BY <1>1, <1>2, <1>3, <1>4

LEMMA StopEndsStep == LendingInv /\ StopEnds => LendingInv'
  <1> SUFFICES ASSUME LendingInv, StopEnds PROVE LendingInv'
    OBVIOUS
  <1> USE DEF LendingInv, File, Password, Options, AllExcused, Kept
  <1>1. TypeOK'
    BY DEF TypeOK, Answers, StopSteps, StopEnds, StopAnswers
  <1>2. Alone' /\ Waiting' /\ Written' /\ GivenBack'
       /\ Copying' /\ BackedUp' /\ BackupIsTheirs' /\ FlatpakRewrites'
    BY DEF TypeOK, Alone, Waiting, Written, Copying, GivenBack, BackedUp,
       BackupIsTheirs, FlatpakRewrites, StopEnds, StopAnswers
  <1> QED BY <1>1, <1>2

LEMMA StopFailsStep == LendingInv /\ StopFails => LendingInv'
  <1> SUFFICES ASSUME LendingInv, StopFails PROVE LendingInv'
    OBVIOUS
  <1> USE DEF LendingInv, File, Password, Options, AllExcused, Kept
  <1>1. TypeOK'
    BY DEF TypeOK, Answers, StopSteps, StopFails, StopAnswers
  <1>2. Alone' /\ Waiting' /\ Written' /\ GivenBack'
       /\ Copying' /\ BackedUp' /\ BackupIsTheirs' /\ FlatpakRewrites'
    BY DEF TypeOK, Alone, Waiting, Written, Copying, GivenBack, BackedUp,
       BackupIsTheirs, FlatpakRewrites, StopFails, StopAnswers
  <1> QED BY <1>1, <1>2

LEMMA CrashStep == LendingInv /\ Crash => LendingInv'
  <1> SUFFICES ASSUME LendingInv, Crash PROVE LendingInv'
    OBVIOUS
  <1> USE DEF LendingInv, File, Password, Options, AllExcused, Kept
  <1>1. TypeOK'
    BY BlameFact DEF TypeOK, NoCopy, Content, StartSteps, StopSteps, Answers,
       Causes, Grows, Crash
  <1>2. Alone' /\ Waiting' /\ Written' /\ GivenBack'
    BY BlameFact DEF TypeOK, Alone, Waiting, Written, Copying, GivenBack,
       Crash, Grows, Causes, StartSteps
  <1>3. Copying' /\ BackedUp'
    BY BlameFact DEF TypeOK, Copying, Alone, BackedUp, BackupIsTheirs, Crash,
       Grows, Causes, StartSteps
  <1>4. BackupIsTheirs'
    BY ZenonT(40), BlameFact
    DEF TypeOK, BackupIsTheirs, BackedUp, Copying, Alone, Written,
       Crash, Grows, Causes, StartSteps
  <1>5. FlatpakRewrites'
    BY BlameFact DEF TypeOK, FlatpakRewrites, BackedUp, Copying, Alone,
       BackupIsTheirs, Written, Crash, Grows, Causes, StartSteps
  <1> QED BY <1>1, <1>2, <1>3, <1>4, <1>5

-----------------------------------------------------------------------------
LEMMA InitInv == Init => LendingInv
  <1> SUFFICES ASSUME Init PROVE LendingInv
    OBVIOUS
  <1>1. TypeOK
    BY PlatformsAssumption DEF Init, TypeOK, NoCopy, File, Content, StartSteps,
       StopSteps, Answers, Causes
  <1>2. Alone /\ Waiting /\ Copying /\ BackupIsTheirs /\ BackedUp /\ Written
        /\ GivenBack
    BY DEF Init, Alone, Waiting, Copying, BackupIsTheirs, BackedUp, Written,
       GivenBack
  <1>3. FlatpakRewrites
    BY DEF Init, FlatpakRewrites, Kept, File
  <1> QED BY <1>1, <1>2, <1>3 DEF LendingInv

LEMMA NextInv == LendingInv /\ [Next]_vars => LendingInv'
  <1> SUFFICES ASSUME LendingInv, [Next]_vars PROVE LendingInv'
    OBVIOUS
  <1>1. CASE Start
    BY <1>1, StartReceivedStep, PasswordSkippedStep, BackupPasswordStep,
       CopyEndsStep,
       RunPasswordCommandStep, RenamePasswordStep, RewritePasswordStep, FillPasswordStep,
       ConfigureBeginsStep, BackupOptionsStep, WriteOptionsStep, FillOptionsStep,
       RestartedStep, StartFailsStep
       DEF Start
  <1>2. CASE Stop
    BY <1>2, StopReceivedStep, KilledStep, RollBackPasswordStep,
       RollBackOptionsStep,
       StopEndsStep, StopFailsStep DEF Stop
  <1>3. CASE UserLogsInOrOut \/ Crash
    BY <1>3, UserLogsInOrOutStep, CrashStep
  <1>4. CASE UNCHANGED vars
    BY <1>4 DEF vars, LendingInv, TypeOK, Alone, Waiting, Copying,
       BackupIsTheirs,
       BackedUp, Written, FlatpakRewrites, GivenBack, AllExcused, Kept
  <1> QED BY <1>1, <1>2, <1>3, <1>4 DEF Next

(* The inductive invariant holds of RustDesk.                              *)
THEOREM LendingCorrect == Spec => []LendingInv
  <1> QED BY InitInv, NextInv, PTL DEF Spec

(* Type correctness, whatever overlaps, fails or crashes.                  *)
THEOREM TypeCorrect == Spec => []TypeOK
  <1>1. LendingInv => TypeOK
    BY DEF LendingInv
  <1> QED BY <1>1, LendingCorrect, PTL

-----------------------------------------------------------------------------
(* The steps of the abstract specification.                                *)

Same(f) == file'[f] = file[f] /\ bak'[f] = bak[f]

(* Requests, failures, crashes and backups: nothing that is promised       *)
(* changes, and the answer is withdrawn or an error, if not the same.      *)
LEMMA ExcuseStep ==
    ASSUME Grows,
           \A f \in File : cause'[f] = {} =>
              (Kept(f))' = Kept(f) /\ used'[f] = used[f],
           answer' \in {answer, "error", "none"} \/ AllExcused'
    PROVE  Lent!Excuse
  <1>1. excused \subseteq excused' /\ excused' \subseteq File
    BY DEF Grows, excused
  <1>2. \A f \in File \ excused' : own'[f] = own[f] /\ used'[f] = used[f]
    BY DEF excused, own
  <1>3. AllExcused' => excused' = File
    BY DEF AllExcused, excused
  <1> QED BY <1>1, <1>2, <1>3 DEF Lent!Excuse

(* A step of a handler that changes one file, and its backup.              *)
LEMMA FileStep ==
    ASSUME NEW f \in File, cause \in [File -> SUBSET Causes],
           cause' = cause, answer' = answer,
           \A g \in File \ {f} : Same(g),
           cause[f] = {} => answer = "none" \/ used'[f] = used[f],
           cause[f] = {} => (Kept(f))' = Kept(f),
           cause[f] = {} => \/ used'[f] \in {used[f], "lent"}
                            \/ used'[f] = "user" /\ Kept(f)
    PROVE  [Lent!Next]_Lent!vars
  <1>1. \A g \in File \ {f} :
           Kept(g)' = Kept(g) /\ own'[g] = own[g] /\ used'[g] = used[g]
    BY DEF Same, Kept, own, used
  <1>2. CASE cause[f] # {}
    <2>1. \A g \in File : cause'[g] = {} =>
             (Kept(g))' = Kept(g) /\ used'[g] = used[g]
      BY <1>1, <1>2
    <2>2. Lent!Excuse
      BY <2>1, ExcuseStep DEF Grows
    <2> QED BY <2>2 DEF Lent!Next
  <1>3. CASE cause[f] = {}
    <2>1. own' = own /\ excused' = excused
      BY <1>1, <1>3 DEF own, excused
    <2>2. CASE used'[f] = used[f]
      <3>1. used' = used
        BY <1>1, <2>2 DEF used
      <3> QED BY <2>1, <3>1 DEF Lent!vars
    <2>3. CASE used'[f] # used[f] /\ used'[f] = "lent"
      <3>1. used' = [used EXCEPT ![f] = "lent"]
        BY <1>1, <2>3 DEF used
      <3>2. Lent!Lend(f)
        BY <1>3, <2>1, <2>3, <3>1 DEF Lent!Lend
      <3> QED BY <3>2 DEF Lent!Next
    <2>4. CASE used'[f] # used[f] /\ used'[f] = "user" /\ Kept(f)
      <3>1. used' = [used EXCEPT ![f] = "user"]
        BY <1>1, <2>4 DEF used
      <3>2. Lent!GiveBack(f)
        BY <1>3, <2>1, <2>4, <3>1 DEF Lent!GiveBack, own
      <3> QED BY <3>2 DEF Lent!Next
    <2> QED BY <1>3, <2>2, <2>3, <2>4
  <1> QED BY <1>2, <1>3

(* An answered start has lent the options.                                 *)
LEMMA RestartedAnswers ==
    LendingInv /\ Restarted => [Lent!Next]_Lent!vars
  <1> SUFFICES ASSUME LendingInv, Restarted PROVE [Lent!Next]_Lent!vars
    OBVIOUS
  <1>1. UNCHANGED <<own, used, excused>> /\ answer' = "started"
    BY DEF Restarted, StartAnswers, own, used, excused, Kept
  <1>2. CASE AllExcused
    <2>1. Lent!Excuse
      BY <1>1, <1>2 DEF Lent!Excuse, AllExcused, excused
    <2> QED BY <2>1 DEF Lent!Next
  <1>3. CASE ~AllExcused
    <2>1. answer = "none"
      BY <1>3 DEF LendingInv, Waiting, Restarted
    <2>2. Options \in File \ excused => used[Options] = "lent"
      BY DEF LendingInv, Written, Restarted, used, excused
    <2>3. Lent!Answer
      BY <1>1, <2>1, <2>2 DEF Lent!Answer, Lent!Promised
    <2> QED BY <2>3 DEF Lent!Next
  <1> QED BY <1>2, <1>3

(* An answered stop has given back what the user had.                      *)
LEMMA StopEndsAnswers ==
    LendingInv /\ StopEnds => [Lent!Next]_Lent!vars
  <1> SUFFICES ASSUME LendingInv, StopEnds PROVE [Lent!Next]_Lent!vars
    OBVIOUS
  <1>1. UNCHANGED <<own, used, excused>> /\ answer' = "stopped"
    BY DEF StopEnds, StopAnswers, own, used, excused, Kept
  <1>2. CASE AllExcused
    <2>1. Lent!Excuse
      BY <1>1, <1>2 DEF Lent!Excuse, AllExcused, excused
    <2> QED BY <2>1 DEF Lent!Next
  <1>3. CASE ~AllExcused
    <2>1. answer = "none"
      BY <1>3 DEF LendingInv, Waiting, StopEnds
    <2>2. \A f \in File \ excused : own[f] = "user" => used[f] = "user"
      BY DEF LendingInv, GivenBack, StopEnds, own, used, excused, Kept
    <2>3. Lent!Answer
      BY <1>1, <2>1, <2>2 DEF Lent!Answer, Lent!Promised
    <2> QED BY <2>3 DEF Lent!Next
  <1> QED BY <1>2, <1>3

(* Requests, failures and crashes excuse files, or change nothing.         *)
LEMMA UserLogsInOrOutExcuses == LendingInv /\ UserLogsInOrOut => Lent!Excuse
  <1> SUFFICES ASSUME LendingInv, UserLogsInOrOut PROVE Lent!Excuse
    OBVIOUS
  <1>1. Grows
    BY  DEF LendingInv, TypeOK, Grows, Causes, File, UserLogsInOrOut
  <1>2. UNCHANGED <<file, bak>>
    BY DEF UserLogsInOrOut
  <1>3. answer' \in {answer, "error", "none"} \/ AllExcused'
    BY DEF UserLogsInOrOut
  <1> QED BY <1>1, <1>2, <1>3, ExcuseStep DEF Kept, used

LEMMA StartReceivedExcuses == LendingInv /\ StartReceived => Lent!Excuse
  <1> SUFFICES ASSUME LendingInv, StartReceived PROVE Lent!Excuse
    OBVIOUS
  <1>1. Grows
    BY BlameFact DEF LendingInv, TypeOK, Grows, Causes, File, StartReceived
  <1>2. UNCHANGED <<file, bak>>
    BY DEF StartReceived
  <1>3. answer' \in {answer, "error", "none"} \/ AllExcused'
    BY DEF StartReceived
  <1> QED BY <1>1, <1>2, <1>3, ExcuseStep DEF Kept, used

LEMMA PasswordSkippedExcuses == LendingInv /\ PasswordSkipped => Lent!Excuse
  <1> SUFFICES ASSUME LendingInv, PasswordSkipped PROVE Lent!Excuse
    OBVIOUS
  <1>1. Grows
    BY  DEF LendingInv, TypeOK, Grows, Causes, File, PasswordSkipped
  <1>2. UNCHANGED <<file, bak>>
    BY DEF PasswordSkipped
  <1>3. answer' \in {answer, "error", "none"} \/ AllExcused'
    BY DEF PasswordSkipped
  <1> QED BY <1>1, <1>2, <1>3, ExcuseStep DEF Kept, used

LEMMA StartFailsExcuses == LendingInv /\ StartFails => Lent!Excuse
  <1> SUFFICES ASSUME LendingInv, StartFails PROVE Lent!Excuse
    OBVIOUS
  <1>1. Grows
    BY BlameFact DEF LendingInv, TypeOK, Grows, Causes, File, StartFails,
       StartAnswers
  <1>2. UNCHANGED <<file, bak>>
    BY DEF StartFails, StartAnswers
  <1>3. answer' \in {answer, "error", "none"} \/ AllExcused'
    BY DEF StartFails, StartAnswers
  <1> QED BY <1>1, <1>2, <1>3, ExcuseStep DEF Kept, used

LEMMA StopReceivedExcuses == LendingInv /\ StopReceived => Lent!Excuse
  <1> SUFFICES ASSUME LendingInv, StopReceived PROVE Lent!Excuse
    OBVIOUS
  <1>1. Grows
    BY BlameFact DEF LendingInv, TypeOK, Grows, Causes, File, StopReceived
  <1>2. UNCHANGED <<file, bak>>
    BY DEF StopReceived
  <1>3. answer' \in {answer, "error", "none"} \/ AllExcused'
    BY DEF StopReceived
  <1> QED BY <1>1, <1>2, <1>3, ExcuseStep DEF Kept, used

LEMMA KilledExcuses == LendingInv /\ Killed => Lent!Excuse
  <1> SUFFICES ASSUME LendingInv, Killed PROVE Lent!Excuse
    OBVIOUS
  <1>1. Grows
    BY BlameFact DEF LendingInv, TypeOK, Grows, Causes, File, Killed,
       StopGoesTo
  <1>2. UNCHANGED <<file, bak>>
    BY DEF Killed, StopGoesTo
  <1>3. answer' \in {answer, "error", "none"} \/ AllExcused'
    BY DEF Killed, StopGoesTo
  <1> QED BY <1>1, <1>2, <1>3, ExcuseStep DEF Kept, used

LEMMA StopFailsExcuses == LendingInv /\ StopFails => Lent!Excuse
  <1> SUFFICES ASSUME LendingInv, StopFails PROVE Lent!Excuse
    OBVIOUS
  <1>1. Grows
    BY  DEF LendingInv, TypeOK, Grows, Causes, File, StopFails, StopAnswers
  <1>2. UNCHANGED <<file, bak>>
    BY DEF StopFails, StopAnswers
  <1>3. answer' \in {answer, "error", "none"} \/ AllExcused'
    BY DEF StopFails, StopAnswers
  <1> QED BY <1>1, <1>2, <1>3, ExcuseStep DEF Kept, used

LEMMA CrashExcuses == LendingInv /\ Crash => Lent!Excuse
  <1> SUFFICES ASSUME LendingInv, Crash PROVE Lent!Excuse
    OBVIOUS
  <1>1. Grows
    BY BlameFact DEF LendingInv, TypeOK, Grows, Causes, File, Crash
  <1>2. UNCHANGED <<file, bak>>
    BY DEF Crash
  <1>3. answer' \in {answer, "error", "none"} \/ AllExcused'
    BY DEF Crash
  <1> QED BY <1>1, <1>2, <1>3, ExcuseStep DEF Kept, used

(* A backup takes nothing away, and changes nothing that is used.          *)
LEMMA BackupExcuses ==
    ASSUME LendingInv, NEW f \in File, NEW next \in StartSteps \ {"copy"},
           Backup(f, next), file' = file, answer' = answer
    PROVE  Lent!Excuse
  <1>1. TypeOK
    BY DEF LendingInv
  <1>2. Grows /\ \A g \in File \ {f} : bak'[g] = bak[g]
    BY <1>1, BackupFact
  <1>3. cause'[f] = {} => (Kept(f))' = Kept(f) /\ used'[f] = used[f]
    <2>1. CASE bak' = bak
      BY <2>1 DEF Kept, used
    <2>2. CASE NeedsCopy(f) /\ bak' = [bak EXCEPT ![f] = "torn"]
               /\ (bak[f] # "none" => cause'[f] # {})
      BY <1>1, <2>2 DEF TypeOK, NeedsCopy, Kept, used
    <2> QED BY <1>1, <2>1, <2>2, BackupFact
  <1>4. \A g \in File \ {f} : (Kept(g))' = Kept(g) /\ used'[g] = used[g]
    BY <1>2 DEF Kept, used
  <1> QED BY <1>2, <1>3, <1>4, ExcuseStep

LEMMA BackupStepsExcuse ==
    LendingInv /\ (BackupPassword \/ ConfigureBegins \/ BackupOptions) =>
        Lent!Excuse
  <1> SUFFICES ASSUME LendingInv,
                      BackupPassword \/ ConfigureBegins \/ BackupOptions
               PROVE  Lent!Excuse
    OBVIOUS
  <1>1. Password \in File /\ Options \in File
    BY DEF File
  <1>2. {"command", "options", "write"} \subseteq StartSteps \ {"copy"}
    BY DEF StartSteps
  <1>3. CASE BackupPassword
    BY <1>1, <1>2, <1>3, BackupExcuses DEF BackupPassword
  <1>4. CASE BackupOptions
    BY <1>1, <1>2, <1>4, BackupExcuses DEF BackupOptions
  <1>5. CASE ConfigureBegins /\ platform = "windows"
    BY <1>1, <1>2, <1>5, BackupExcuses DEF ConfigureBegins
  <1>6. CASE ConfigureBegins /\ platform # "windows"
    <2>1. UNCHANGED <<file, bak, cause, answer>>
      BY <1>6 DEF ConfigureBegins
    <2> QED BY <2>1, ExcuseStep DEF LendingInv, TypeOK, Grows, Kept, used
  <1> QED BY <1>3, <1>4, <1>5, <1>6

(* The handlers change one file at a time: it is lent, or given back.      *)
LEMMA RunPasswordCommandSimulates ==
    LendingInv /\ RunPasswordCommand => [Lent!Next]_Lent!vars
  <1> SUFFICES ASSUME LendingInv, RunPasswordCommand PROVE [Lent!Next]_Lent!vars
    OBVIOUS
  <1> DEFINE f == Password
  <1>1. f \in File /\ cause \in [File -> SUBSET Causes]
    BY DEF LendingInv, TypeOK, File
  <1>2. cause' = cause /\ answer' = answer /\ \A g \in File \ {f} : Same(g)
    BY DEF LendingInv, TypeOK, Same, File, Password, Options,
       RunPasswordCommand
  <1>3. cause[f] = {} => answer = "none"
    BY <1>1 DEF LendingInv, Waiting, AllExcused, RunPasswordCommand
  <1>4. cause[f] = {} =>
           /\ (Kept(f))' = Kept(f)
           /\ \/ used'[f] \in {used[f], "lent"}
              \/ used'[f] = "user" /\ Kept(f)
    BY <1>1 DEF LendingInv, TypeOK, BackedUp, BackupIsTheirs, AllExcused, Kept,
       used, File, Password, Options, RunPasswordCommand
  <1> QED BY <1>1, <1>2, <1>3, <1>4, FileStep

LEMMA RenamePasswordSimulates ==
    LendingInv /\ RenamePassword => [Lent!Next]_Lent!vars
  <1> SUFFICES ASSUME LendingInv, RenamePassword PROVE [Lent!Next]_Lent!vars
    OBVIOUS
  <1> DEFINE f == Password
  <1>1. f \in File /\ cause \in [File -> SUBSET Causes]
    BY DEF LendingInv, TypeOK, File
  <1>2. cause' = cause /\ answer' = answer /\ \A g \in File \ {f} : Same(g)
    BY DEF LendingInv, TypeOK, Same, File, Password, Options, RenamePassword
  <1>3. cause[f] = {} => answer = "none"
    BY <1>1 DEF LendingInv, Waiting, AllExcused, RenamePassword
  <1>4. cause[f] = {} =>
           /\ (Kept(f))' = Kept(f)
           /\ \/ used'[f] \in {used[f], "lent"}
              \/ used'[f] = "user" /\ Kept(f)
    BY <1>1 DEF LendingInv, TypeOK, FlatpakRewrites, AllExcused, Kept, used,
       File, Password, Options, RenamePassword
  <1> QED BY <1>1, <1>2, <1>3, <1>4, FileStep

LEMMA RewritePasswordSimulates ==
    LendingInv /\ RewritePassword => [Lent!Next]_Lent!vars
  <1> SUFFICES ASSUME LendingInv, RewritePassword PROVE [Lent!Next]_Lent!vars
    OBVIOUS
  <1> DEFINE f == Password
  <1>1. f \in File /\ cause \in [File -> SUBSET Causes]
    BY DEF LendingInv, TypeOK, File
  <1>2. cause' = cause /\ answer' = answer /\ \A g \in File \ {f} : Same(g)
    BY DEF LendingInv, TypeOK, Same, File, Password, Options, RewritePassword,
       Truncate
  <1>3. cause[f] = {} => answer = "none"
    BY <1>1 DEF LendingInv, Waiting, AllExcused, RewritePassword, Truncate
  <1>4. cause[f] = {} =>
           /\ (Kept(f))' = Kept(f)
           /\ \/ used'[f] \in {used[f], "lent"}
              \/ used'[f] = "user" /\ Kept(f)
    BY <1>1 DEF LendingInv, TypeOK, BackedUp, BackupIsTheirs, FlatpakRewrites,
       AllExcused, Kept, used, File, Password, Options, RewritePassword,
       Truncate
  <1> QED BY <1>1, <1>2, <1>3, <1>4, FileStep

LEMMA FillPasswordSimulates ==
    LendingInv /\ FillPassword => [Lent!Next]_Lent!vars
  <1> SUFFICES ASSUME LendingInv, FillPassword PROVE [Lent!Next]_Lent!vars
    OBVIOUS
  <1> DEFINE f == Password
  <1>1. f \in File /\ cause \in [File -> SUBSET Causes]
    BY DEF LendingInv, TypeOK, File
  <1>2. cause' = cause /\ answer' = answer /\ \A g \in File \ {f} : Same(g)
    BY DEF LendingInv, TypeOK, Same, File, Password, Options, FillPassword,
       Fill
  <1>3. cause[f] = {} => answer = "none"
    BY <1>1 DEF LendingInv, Waiting, AllExcused, FillPassword, Fill
  <1>4. cause[f] = {} =>
           /\ (Kept(f))' = Kept(f)
           /\ \/ used'[f] \in {used[f], "lent"}
              \/ used'[f] = "user" /\ Kept(f)
    BY <1>1 DEF LendingInv, TypeOK, Written, AllExcused, Kept, used, File,
       Password, Options, FillPassword, Fill
  <1> QED BY <1>1, <1>2, <1>3, <1>4, FileStep

LEMMA WriteOptionsSimulates ==
    LendingInv /\ WriteOptions => [Lent!Next]_Lent!vars
  <1> SUFFICES ASSUME LendingInv, WriteOptions PROVE [Lent!Next]_Lent!vars
    OBVIOUS
  <1> DEFINE f == Options
  <1>1. f \in File /\ cause \in [File -> SUBSET Causes]
    BY DEF LendingInv, TypeOK, File
  <1>2. cause' = cause /\ answer' = answer /\ \A g \in File \ {f} : Same(g)
    BY DEF LendingInv, TypeOK, Same, File, Password, Options, WriteOptions,
       Truncate
  <1>3. cause[f] = {} => answer = "none"
    BY <1>1 DEF LendingInv, Waiting, AllExcused, WriteOptions, Truncate
  <1>4. cause[f] = {} =>
           /\ (Kept(f))' = Kept(f)
           /\ \/ used'[f] \in {used[f], "lent"}
              \/ used'[f] = "user" /\ Kept(f)
    BY <1>1 DEF LendingInv, TypeOK, BackedUp, BackupIsTheirs, AllExcused, Kept,
       used, File, Password, Options, WriteOptions, Truncate
  <1> QED BY <1>1, <1>2, <1>3, <1>4, FileStep

LEMMA FillOptionsSimulates ==
    LendingInv /\ FillOptions => [Lent!Next]_Lent!vars
  <1> SUFFICES ASSUME LendingInv, FillOptions PROVE [Lent!Next]_Lent!vars
    OBVIOUS
  <1> DEFINE f == Options
  <1>1. f \in File /\ cause \in [File -> SUBSET Causes]
    BY DEF LendingInv, TypeOK, File
  <1>2. cause' = cause /\ answer' = answer /\ \A g \in File \ {f} : Same(g)
    BY DEF LendingInv, TypeOK, Same, File, Password, Options, FillOptions, Fill
  <1>3. cause[f] = {} => answer = "none"
    BY <1>1 DEF LendingInv, Waiting, AllExcused, FillOptions, Fill
  <1>4. cause[f] = {} =>
           /\ (Kept(f))' = Kept(f)
           /\ \/ used'[f] \in {used[f], "lent"}
              \/ used'[f] = "user" /\ Kept(f)
    BY <1>1 DEF LendingInv, TypeOK, Written, AllExcused, Kept, used, File,
       Password, Options, FillOptions, Fill
  <1> QED BY <1>1, <1>2, <1>3, <1>4, FileStep

LEMMA RollBackPasswordSimulates ==
    LendingInv /\ RollBackPassword => [Lent!Next]_Lent!vars
  <1> SUFFICES ASSUME LendingInv, RollBackPassword PROVE [Lent!Next]_Lent!vars
    OBVIOUS
  <1> DEFINE f == Password
  <1>1. f \in File /\ cause \in [File -> SUBSET Causes]
    BY DEF LendingInv, TypeOK, File
  <1>2. cause' = cause /\ answer' = answer /\ \A g \in File \ {f} : Same(g)
    BY DEF LendingInv, TypeOK, Same, File, Password, Options, RollBackPassword,
       RollBack, StopGoesTo
  <1>3. cause[f] = {} => answer = "none"
    BY <1>1 DEF LendingInv, Waiting, AllExcused, RollBackPassword, RollBack,
       StopGoesTo
  <1>4. cause[f] = {} =>
           /\ (Kept(f))' = Kept(f)
           /\ \/ used'[f] \in {used[f], "lent"}
              \/ used'[f] = "user" /\ Kept(f)
    BY <1>1 DEF LendingInv, TypeOK, BackupIsTheirs, Alone, AllExcused, Kept,
       used, File, Password, Options, RollBackPassword, RollBack, StopGoesTo
  <1> QED BY <1>1, <1>2, <1>3, <1>4, FileStep

LEMMA RollBackOptionsSimulates ==
    LendingInv /\ RollBackOptions => [Lent!Next]_Lent!vars
  <1> SUFFICES ASSUME LendingInv, RollBackOptions PROVE [Lent!Next]_Lent!vars
    OBVIOUS
  <1> DEFINE f == Options
  <1>1. f \in File /\ cause \in [File -> SUBSET Causes]
    BY DEF LendingInv, TypeOK, File
  <1>2. cause' = cause /\ answer' = answer /\ \A g \in File \ {f} : Same(g)
    BY DEF LendingInv, TypeOK, Same, File, Password, Options, RollBackOptions,
       RollBack, StopGoesTo
  <1>3. cause[f] = {} => answer = "none"
    BY <1>1 DEF LendingInv, Waiting, AllExcused, RollBackOptions, RollBack,
       StopGoesTo
  <1>4. cause[f] = {} =>
           /\ (Kept(f))' = Kept(f)
           /\ \/ used'[f] \in {used[f], "lent"}
              \/ used'[f] = "user" /\ Kept(f)
    BY <1>1 DEF LendingInv, TypeOK, BackupIsTheirs, Alone, AllExcused, Kept,
       used, File, Password, Options, RollBackOptions, RollBack, StopGoesTo
  <1> QED BY <1>1, <1>2, <1>3, <1>4, FileStep

LEMMA CopyEndsSimulates ==
    LendingInv /\ CopyEnds => [Lent!Next]_Lent!vars
  <1> SUFFICES ASSUME LendingInv, CopyEnds PROVE [Lent!Next]_Lent!vars
    OBVIOUS
  <1>0. PICK f \in File : f = copy.of
    BY DEF LendingInv, TypeOK
  <1>1. cause \in [File -> SUBSET Causes]
    BY DEF LendingInv, TypeOK
  <1>2. cause' = cause /\ answer' = answer /\ \A g \in File \ {f} : Same(g)
    BY <1>0 DEF LendingInv, TypeOK, Same, CopyEnds
  <1>3. cause[f] = {} => (Kept(f))' = Kept(f) /\ used'[f] = used[f]
    BY <1>0 DEF LendingInv, TypeOK, Copying, Kept, used, CopyEnds
  <1> QED BY <1>0, <1>1, <1>2, <1>3, FileStep

(* Every step is a step of the abstract specification, or none.             *)
LEMMA Simulation == LendingInv /\ [Next]_vars => [Lent!Next]_Lent!vars
  <1> SUFFICES ASSUME LendingInv, [Next]_vars PROVE [Lent!Next]_Lent!vars
    OBVIOUS
  <1>1. CASE UserLogsInOrOut
    BY <1>1, UserLogsInOrOutExcuses DEF Lent!Next
  <1>2. CASE Start
    <2>1. CASE StartReceived
      BY <2>1, StartReceivedExcuses DEF Lent!Next
    <2>2. CASE PasswordSkipped
      BY <2>2, PasswordSkippedExcuses DEF Lent!Next
    <2>3. CASE BackupPassword
      BY <2>3, BackupStepsExcuse DEF Lent!Next
    <2>4. CASE CopyEnds
      BY <2>4, CopyEndsSimulates
    <2>5. CASE RunPasswordCommand
      BY <2>5, RunPasswordCommandSimulates
    <2>6. CASE RenamePassword
      BY <2>6, RenamePasswordSimulates
    <2>7. CASE RewritePassword
      BY <2>7, RewritePasswordSimulates
    <2>8. CASE FillPassword
      BY <2>8, FillPasswordSimulates
    <2>9. CASE ConfigureBegins
      BY <2>9, BackupStepsExcuse DEF Lent!Next
    <2>10. CASE BackupOptions
      BY <2>10, BackupStepsExcuse DEF Lent!Next
    <2>11. CASE WriteOptions
      BY <2>11, WriteOptionsSimulates
    <2>12. CASE FillOptions
      BY <2>12, FillOptionsSimulates
    <2>13. CASE Restarted
      BY <2>13, RestartedAnswers
    <2>14. CASE StartFails
      BY <2>14, StartFailsExcuses DEF Lent!Next
    <2> QED BY <1>2, <2>1, <2>2, <2>3, <2>4, <2>5, <2>6, <2>7, <2>8, <2>9,
               <2>10, <2>11, <2>12, <2>13, <2>14 DEF Start
  <1>3. CASE Stop
    <2>1. CASE StopReceived
      BY <2>1, StopReceivedExcuses DEF Lent!Next
    <2>2. CASE Killed
      BY <2>2, KilledExcuses DEF Lent!Next
    <2>3. CASE RollBackPassword
      BY <2>3, RollBackPasswordSimulates
    <2>4. CASE RollBackOptions
      BY <2>4, RollBackOptionsSimulates
    <2>5. CASE StopEnds
      BY <2>5, StopEndsAnswers
    <2>6. CASE StopFails
      BY <2>6, StopFailsExcuses DEF Lent!Next
    <2> QED BY <1>3, <2>1, <2>2, <2>3, <2>4, <2>5, <2>6 DEF Stop
  <1>4. CASE Crash
    BY <1>4, CrashExcuses DEF Lent!Next
  <1>5. CASE UNCHANGED vars
    BY <1>5 DEF vars, Lent!vars, own, used, excused, Kept
  <1> QED BY <1>1, <1>2, <1>3, <1>4, <1>5 DEF Next

(* RustDesk implements LentSettings: what start and stop lend is given     *)
(* back, and nothing of the user's is taken, for every platform.           *)
THEOREM LendingImplements == Spec => LendsAndGivesBack
  <1>1. Init => Lent!Init
    BY DEF Init, Lent!Init, own, used, excused, Kept
  <1>2. LendingInv /\ [Next]_vars => [Lent!Next]_Lent!vars
    BY Simulation
  <1> QED BY <1>1, <1>2, LendingCorrect, PTL DEF Spec, Lent!Spec,
             LendsAndGivesBack

(* The user's settings are only lost by a step that gives a cause: a copy  *)
(* cut half-way, an overlap, a second start on macOS or another user.      *)
THEOREM LostForCause == Spec => LostOnlyForCause
  <1>1. LendingInv /\ [Next]_vars =>
           [\A f \in File : Kept(f) /\ ~(Kept(f))' => cause'[f] # {}]_vars
    <2> SUFFICES ASSUME LendingInv, [Next]_vars,
                        NEW f \in File, Kept(f), ~(Kept(f))', cause'[f] = {}
                 PROVE  FALSE
      OBVIOUS
    <2>1. own'[f] # own[f] /\ f \in File \ excused'
      BY DEF own, excused
    <2>2. [Lent!Next]_Lent!vars
      BY Simulation
    <2> QED BY <2>1, <2>2 DEF Lent!Next, Lent!vars, Lent!Ask, Lent!Answer,
               Lent!Lend, Lent!GiveBack, Lent!Excuse
  <1> QED BY <1>1, LendingCorrect, PTL DEF Spec, LostOnlyForCause
=============================================================================
