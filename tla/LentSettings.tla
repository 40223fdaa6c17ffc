---------------------------- MODULE LentSettings ----------------------------
(***************************************************************************)
(* What the console may expect of a RustDesk session, whatever files hold  *)
(* the settings: a start lends the tenant's settings, a stop gives back    *)
(* what the user had, and nothing ever takes it away.  A file may be       *)
(* excused, for good; of an excused file nothing is promised.              *)
(***************************************************************************)
CONSTANTS
    File,   \* the settings files
    Always  \* the one that every start replaces

VARIABLES
    own,     \* what the user has of each file: "user", or "none"
    used,    \* what RustDesk uses: "user", "none", or the "lent" settings
    excused, \* the files of which nothing is promised any more
    answer   \* the last answer to the console, "none" while it waits

vars == <<own, used, excused, answer>>

Init ==
    /\ own \in [File -> {"user", "none"}]
    /\ used = own
    /\ excused = {}
    /\ answer = "none"

(* The console asks for a start or a stop.                                 *)
Ask == answer' = "none" /\ UNCHANGED <<own, used, excused>>

Lend(f) ==
    /\ answer = "none"
    /\ used' = [used EXCEPT ![f] = "lent"]
    /\ UNCHANGED <<own, excused, answer>>

GiveBack(f) ==
    /\ answer = "none"
    /\ own[f] = "user"
    /\ used' = [used EXCEPT ![f] = "user"]
    /\ UNCHANGED <<own, excused, answer>>

Promised == File \ excused

(* An error promises nothing about what is in use.                         *)
Answer ==
    /\ answer = "none"
    /\ \/ answer' = "error"
       \/ answer' = "started" /\ (Always \in Promised => used[Always] = "lent")
       \/ /\ answer' = "stopped"
          /\ \A f \in Promised : own[f] = "user" => used[f] = "user"
    /\ UNCHANGED <<own, used, excused>>

(* Files are excused, or what is used of an excused file changes.          *)
Excuse ==
    /\ excused \subseteq excused' /\ excused' \subseteq File
    /\ \A f \in File \ excused' : own'[f] = own[f] /\ used'[f] = used[f]
    /\ answer' \in {answer, "error", "none"} \/ excused' = File

Next == Ask \/ Answer \/ Excuse \/ \E f \in File : Lend(f) \/ GiveBack(f)

Spec == Init /\ [][Next]_vars
=============================================================================
