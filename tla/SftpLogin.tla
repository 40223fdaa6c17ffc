----------------------------- MODULE SftpLogin -----------------------------
(***************************************************************************)
(* Logins to the agent's SFTP server.                                      *)
(*                                                                         *)
(* A login is accepted if the SFTP certificate is not revoked and the key  *)
(* it offers is the certificate's.  The status comes from a cache (Badger) *)
(* or, when it holds none, from the OCSP responder, whose answer is cached *)
(* for an hour, good or bad.  Each connection is a goroutine of its own;   *)
(* the cache is emptied when the agent starts.                             *)
(*                                                                         *)
(* Time passes in ticks.  A login takes less than a tick from the answer of*)
(* the responder to the end.                                               *)
(***************************************************************************)
EXTENDS Naturals

CONSTANTS
    Login,  \* the logins that may be in progress together
    TTL     \* the ticks for which an entry of the cache lives

ASSUME TTLAssumption == TTL \in Nat \ {0}

VARIABLES
    revoked,      \* the certificate is revoked at the responder
    cache,        \* the cached status: "none", "true" or "false"
    age,          \* the ticks since it was cached
    pc,           \* the next step of each login
    valid,        \* the status each login has been told
    result,       \* how its last attempt ended
    sinceRevoked, \* history: ticks since the revocation, up to TTL
    sinceTrouble  \* history: ticks since a check that gave no status, up to TTL

vars == <<revoked, cache, age, pc, valid, result, sinceRevoked, sinceTrouble>>

Steps == {"idle", "view", "ask", "store"}
Results == {"none", "accepted", "refused", "wrong key"}

Init ==
    /\ revoked \in BOOLEAN
    /\ cache = "none" /\ age = 0
    /\ pc = [c \in Login |-> "idle"]
    /\ valid = [c \in Login |-> FALSE]
    /\ result = [c \in Login |-> "none"]
    /\ sinceRevoked = 0
    /\ sinceTrouble = TTL

Goto(c, step) == pc' = [pc EXCEPT ![c] = step]

(* The certificate is good or not; the key is compared only if it is good. *)
Decide(c, ok) ==
    /\ Goto(c, "idle")
    /\ \E r \in IF ok THEN {"accepted", "wrong key"} ELSE {"refused"} :
          result' = [result EXCEPT ![c] = r]

Connect(c) ==
    /\ pc[c] = "idle"
    /\ Goto(c, "view")
    /\ result' = [result EXCEPT ![c] = "none"]
    /\ UNCHANGED <<revoked, cache, age, valid, sinceRevoked, sinceTrouble>>

(* A variant in which an entry that is used lives on.                      *)
CacheHitRenews(c) ==
    /\ pc[c] = "view" /\ cache # "none"
    /\ Decide(c, cache = "true")
    /\ age' = 0
    /\ UNCHANGED <<revoked, cache, valid, sinceRevoked, sinceTrouble>>

CacheHit(c) ==
    /\ pc[c] = "view" /\ cache # "none"
    /\ Decide(c, cache = "true")
    /\ UNCHANGED <<revoked, cache, age, valid, sinceRevoked, sinceTrouble>>

CacheMiss(c) ==
    /\ pc[c] = "view" /\ cache = "none"
    /\ Goto(c, "ask")
    /\ UNCHANGED <<revoked, cache, age, valid, result, sinceRevoked, sinceTrouble>>

Answered(c) ==
    /\ pc[c] = "ask"
    /\ valid' = [valid EXCEPT ![c] = ~revoked]
    /\ Goto(c, "store")
    /\ UNCHANGED <<revoked, cache, age, result, sinceRevoked, sinceTrouble>>

(* The responder says "unknown", or the certificate names no responder: a  *)
(* status like any other, false without an error.                          *)
AnsweredUnknown(c) ==
    /\ pc[c] = "ask"
    /\ valid' = [valid EXCEPT ![c] = FALSE]
    /\ sinceTrouble' = 0
    /\ Goto(c, "store")
    /\ UNCHANGED <<revoked, cache, age, result, sinceRevoked>>

(* A cache that cannot be read or opened, no answer, one that does not     *)
(* parse, or a cache that cannot be written: an error, and no status.      *)
CheckFails(c) ==
    /\ pc[c] \in {"view", "ask", "store"}
    /\ sinceTrouble' = 0
    /\ Decide(c, FALSE)
    /\ UNCHANGED <<revoked, cache, age, valid, sinceRevoked>>

(* The status is cached for TTL from now.                                  *)
Store(c) ==
    /\ pc[c] = "store"
    /\ cache' = IF valid[c] THEN "true" ELSE "false"
    /\ age' = 0
    /\ Decide(c, valid[c])
    /\ UNCHANGED <<revoked, valid, sinceRevoked, sinceTrouble>>

Revoke ==
    /\ revoked' = TRUE
    /\ sinceRevoked' = IF revoked THEN sinceRevoked ELSE 0
    /\ UNCHANGED <<cache, age, pc, valid, result, sinceTrouble>>

UpToTTL(n) == IF n < TTL THEN n + 1 ELSE TTL

(* A variant that keeps a bad status for good.                             *)
TickKeepsFalse ==
    /\ \A c \in Login : pc[c] # "store"
    /\ IF cache # "true" \/ age + 1 < TTL
         THEN age' = UpToTTL(age) /\ UNCHANGED cache
         ELSE cache' = "none" /\ age' = 0
    /\ sinceRevoked' = UpToTTL(sinceRevoked)
    /\ sinceTrouble' = UpToTTL(sinceTrouble)
    /\ UNCHANGED <<revoked, pc, valid, result>>

(* A variant that keeps entries one tick longer than told.                 *)
TickNeverExpires ==
    /\ \A c \in Login : pc[c] # "store"
    /\ age' = UpToTTL(age)
    /\ sinceRevoked' = UpToTTL(sinceRevoked)
    /\ sinceTrouble' = UpToTTL(sinceTrouble)
    /\ UNCHANGED <<revoked, cache, pc, valid, result>>

(* Time passes; Badger drops an entry whose time is over.                  *)
Tick ==
    /\ \A c \in Login : pc[c] # "store"
    /\ IF cache = "none" \/ age + 1 = TTL
         THEN cache' = "none" /\ age' = 0
         ELSE age' = age + 1 /\ UNCHANGED cache
    /\ sinceRevoked' = UpToTTL(sinceRevoked)
    /\ sinceTrouble' = UpToTTL(sinceTrouble)
    /\ UNCHANGED <<revoked, pc, valid, result>>

(* The agent starts again: it removes the directory of the cache.          *)
Restart ==
    /\ cache' = "none" /\ age' = 0
    /\ pc' = [c \in Login |-> "idle"]
    /\ result' = [c \in Login |-> "none"]
    /\ UNCHANGED <<revoked, valid, sinceRevoked, sinceTrouble>>

Serve(c) ==
    \/ Connect(c) \/ CacheHit(c) \/ CacheMiss(c) \/ Answered(c)
    \/ AnsweredUnknown(c) \/ CheckFails(c) \/ Store(c)

Next == (\E c \in Login : Serve(c)) \/ Revoke \/ Tick \/ Restart

Spec == Init /\ [][Next]_vars

-----------------------------------------------------------------------------
(* Every variable stays in its type: no entry of the cache outlives TTL.   *)
TypeOK ==
    /\ revoked \in BOOLEAN
    /\ cache \in {"none", "true", "false"} /\ age \in 0 .. TTL - 1
    /\ pc \in [Login -> Steps] /\ valid \in [Login -> BOOLEAN]
    /\ result \in [Login -> Results]
    /\ sinceRevoked \in 0 .. TTL /\ sinceTrouble \in 0 .. TTL

(* A login that ends in the step: it was not accepted, or not refused.     *)
Ends(c, r) == result[c] # r /\ result'[c] = r

(* However the logins interleave, a revoked certificate is accepted for    *)
(* less than TTL: an entry is never read after its hour, and an older      *)
(* answer that overwrites a newer one is not older than that.              *)
AcceptedOnlyWhileFresh ==
    [][\A c \in Login : Ends(c, "accepted") /\ revoked => sinceRevoked < TTL]_vars

(* A good certificate is refused only if, less than TTL ago, a check gave  *)
(* no status: "try again later" costs at most an hour.                     *)
RefusedOnlyAfterTrouble ==
    [][\A c \in Login : Ends(c, "refused") /\ ~revoked => sinceTrouble' < TTL]_vars
=============================================================================
