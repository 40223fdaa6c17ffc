--------------------------- MODULE SftpLoginProofs ---------------------------
(***************************************************************************)
(* Proofs about SftpLogin, for any number of logins at the same time and   *)
(* any time to live of the cache.                                          *)
(***************************************************************************)
EXTENDS SftpLogin, TLAPS

(* A status on its way to the cache is not older than the last tick.       *)
OnTheWay ==
    \A c \in Login : pc[c] = "store" =>
        /\ valid[c] /\ revoked => sinceRevoked = 0
        /\ ~valid[c] /\ ~revoked => sinceTrouble = 0

(* A cached status that is wrong was not wrong longer than it is cached.   *)
Cached ==
    /\ cache = "true" /\ revoked => sinceRevoked <= age
    /\ cache = "false" /\ ~revoked => sinceTrouble <= age

CacheInv == TypeOK /\ OnTheWay /\ Cached

LEMMA InitInv == Init => CacheInv
  BY TTLAssumption DEF TTLAssumption, Init, CacheInv, TypeOK, OnTheWay, Cached,
     Steps, Results

LEMMA Zero == 0 \in 0 .. TTL - 1 /\ 0 \in 0 .. TTL
  BY TTLAssumption, SMT DEF TTLAssumption

(* The steps of a login.                                                   *)
LEMMA ServeInv ==
    ASSUME CacheInv, NEW c \in Login, Serve(c)
    PROVE  CacheInv'
  <1> USE TTLAssumption, Zero DEF TTLAssumption
  <1>1. CASE Connect(c)
    <2>1. TypeOK'
      BY <1>1 DEF CacheInv, TypeOK, Steps, Results, Connect, Goto
    <2>2. OnTheWay'
      BY <1>1 DEF CacheInv, TypeOK, OnTheWay, Connect, Goto
    <2>3. Cached'
      BY <1>1, <2>1 DEF CacheInv, TypeOK, OnTheWay, Cached, Connect, Goto
    <2> QED BY <2>1, <2>2, <2>3 DEF CacheInv
  <1>2. CASE CacheHit(c)
    <2>1. TypeOK'
      BY <1>2 DEF CacheInv, TypeOK, Steps, Results, CacheHit, Decide, Goto
    <2>2. OnTheWay'
      BY <1>2 DEF CacheInv, TypeOK, OnTheWay, CacheHit, Decide, Goto
    <2>3. Cached'
      BY <1>2, <2>1 DEF CacheInv, TypeOK, OnTheWay, Cached, CacheHit, Decide,
         Goto
    <2> QED BY <2>1, <2>2, <2>3 DEF CacheInv
  <1>3. CASE CacheMiss(c)
    <2>1. TypeOK'
      BY <1>3 DEF CacheInv, TypeOK, Steps, Results, CacheMiss, Goto
    <2>2. OnTheWay'
      BY <1>3 DEF CacheInv, TypeOK, OnTheWay, CacheMiss, Goto
    <2>3. Cached'
      BY <1>3, <2>1 DEF CacheInv, TypeOK, OnTheWay, Cached, CacheMiss, Goto
    <2> QED BY <2>1, <2>2, <2>3 DEF CacheInv
  <1>4. CASE Answered(c)
    <2>1. TypeOK'
      BY <1>4 DEF CacheInv, TypeOK, Steps, Results, Answered, Goto
    <2>2. OnTheWay'
      BY <1>4 DEF CacheInv, TypeOK, OnTheWay, Answered, Goto
    <2>3. Cached'
      BY <1>4, <2>1 DEF CacheInv, TypeOK, OnTheWay, Cached, Answered, Goto
    <2> QED BY <2>1, <2>2, <2>3 DEF CacheInv
  <1>5. CASE AnsweredUnknown(c)
    <2>1. TypeOK'
      BY <1>5 DEF CacheInv, TypeOK, Steps, Results, AnsweredUnknown, Goto
    <2>2. OnTheWay'
      BY <1>5 DEF CacheInv, TypeOK, OnTheWay, AnsweredUnknown, Goto
    <2>3. Cached'
      BY <1>5, <2>1 DEF CacheInv, TypeOK, OnTheWay, Cached, AnsweredUnknown,
         Goto
    <2> QED BY <2>1, <2>2, <2>3 DEF CacheInv
  <1>6. CASE CheckFails(c)
    <2>1. TypeOK'
      BY <1>6 DEF CacheInv, TypeOK, Steps, Results, CheckFails, Decide, Goto
    <2>2. OnTheWay'
      BY <1>6 DEF CacheInv, TypeOK, OnTheWay, CheckFails, Decide, Goto
    <2>3. Cached'
      BY <1>6, <2>1 DEF CacheInv, TypeOK, OnTheWay, Cached, CheckFails, Decide,
         Goto
    <2> QED BY <2>1, <2>2, <2>3 DEF CacheInv
  <1>7. CASE Store(c)
    <2>1. TypeOK'
      BY <1>7 DEF CacheInv, TypeOK, Steps, Results, Store, Decide, Goto
    <2>2. OnTheWay'
      BY <1>7 DEF CacheInv, TypeOK, OnTheWay, Store, Decide, Goto
    <2>3. /\ valid[c] /\ revoked => sinceRevoked = 0
          /\ ~valid[c] /\ ~revoked => sinceTrouble = 0
      BY <1>7 DEF CacheInv, OnTheWay, Store
    <2>4. /\ cache' = "true" <=> valid[c]
          /\ cache' = "false" <=> ~valid[c]
          /\ age' = 0 /\ UNCHANGED <<revoked, sinceRevoked, sinceTrouble>>
      BY <1>7 DEF Store
    <2>5. Cached'
      BY <2>3, <2>4 DEF Cached
    <2> QED BY <2>1, <2>2, <2>5 DEF CacheInv
  <1> QED BY <1>1, <1>2, <1>3, <1>4, <1>5, <1>6, <1>7 DEF Serve

(* Time, the responder and a restart.                                      *)
LEMMA OtherInv ==
    ASSUME CacheInv, Revoke \/ Tick \/ Restart
    PROVE  CacheInv'
  <1> USE TTLAssumption, Zero DEF TTLAssumption
  <1>1. CASE Revoke
    <2>1. TypeOK'
      BY <1>1 DEF CacheInv, TypeOK, Steps, Results, Revoke
    <2>2. OnTheWay'
      BY <1>1 DEF CacheInv, TypeOK, OnTheWay, Revoke
    <2>3. Cached'
      BY <1>1, <2>1 DEF CacheInv, TypeOK, OnTheWay, Cached, Revoke
    <2> QED BY <2>1, <2>2, <2>3 DEF CacheInv
  <1>2. CASE Tick
    <2> cache' \in {"none", "true", "false"} /\ age' \in 0 .. TTL - 1
      BY <1>2 DEF CacheInv, TypeOK, Tick
    <2> \A n \in 0 .. TTL : UpToTTL(n) \in 0 .. TTL
      BY DEF UpToTTL
    <2>1. TypeOK'
      BY <1>2 DEF CacheInv, TypeOK, Tick
    <2>2. OnTheWay'
      BY <1>2 DEF CacheInv, TypeOK, OnTheWay, Tick, UpToTTL
    <2>3. Cached'
      BY <1>2, <2>1 DEF CacheInv, TypeOK, OnTheWay, Cached, Tick, UpToTTL
    <2> QED BY <2>1, <2>2, <2>3 DEF CacheInv
  <1>3. CASE Restart
    <2>1. TypeOK'
      BY <1>3 DEF CacheInv, TypeOK, Steps, Results, Restart
    <2>2. OnTheWay'
      BY <1>3 DEF CacheInv, TypeOK, OnTheWay, Restart
    <2>3. Cached'
      BY <1>3, <2>1 DEF CacheInv, TypeOK, OnTheWay, Cached, Restart
    <2> QED BY <2>1, <2>2, <2>3 DEF CacheInv
  <1> QED BY <1>1, <1>2, <1>3

LEMMA NextInv == CacheInv /\ [Next]_vars => CacheInv'
  <1>1. CacheInv /\ UNCHANGED vars => CacheInv'
    BY DEF CacheInv, TypeOK, OnTheWay, Cached, vars
  <1> QED BY <1>1, ServeInv, OtherInv DEF Next

(* The inductive invariant holds of SftpLogin.                             *)
THEOREM CacheCorrect == Spec => []CacheInv
  <1> QED BY InitInv, NextInv, PTL DEF Spec

(* Type correctness: above all, no entry of the cache outlives TTL.        *)
THEOREM TypeCorrect == Spec => []TypeOK
  <1>1. CacheInv => TypeOK
    BY DEF CacheInv
  <1> QED BY <1>1, CacheCorrect, PTL

-----------------------------------------------------------------------------
(* Only two steps end a login with the status of the certificate.          *)
LEMMA Ending ==
    ASSUME CacheInv, [Next]_vars, NEW c \in Login,
           Ends(c, "accepted") \/ Ends(c, "refused")
    PROVE  CacheHit(c) \/ Store(c) \/ CheckFails(c)
  <1>1. PICK d \in Login : Serve(d)
    BY DEF Next, Ends, Revoke, Tick, Restart, vars, CacheInv, TypeOK
  <1>2. d = c
    BY <1>1 DEF Serve, Connect, CacheHit, CacheMiss, Answered, AnsweredUnknown,
       CheckFails, Store, Decide, Ends, CacheInv, TypeOK
  <1> QED BY <1>1, <1>2 DEF Serve, Connect, CacheMiss, Answered,
             AnsweredUnknown, Ends, CacheInv, TypeOK

(* A revoked certificate is accepted for less than TTL, however the logins *)
(* interleave and the agent restarts.                                      *)
THEOREM AcceptedFresh == Spec => AcceptedOnlyWhileFresh
  <1>1. CacheInv /\ [Next]_vars =>
           [\A c \in Login :
               Ends(c, "accepted") /\ revoked => sinceRevoked < TTL]_vars
    <2> SUFFICES ASSUME CacheInv, [Next]_vars,
                        NEW c \in Login, Ends(c, "accepted"), revoked
                 PROVE  sinceRevoked < TTL
      OBVIOUS
    <2> USE TTLAssumption DEF TTLAssumption
    <2>1. CacheHit(c) \/ Store(c) \/ CheckFails(c)
      BY Ending
    <2>2. CASE CacheHit(c)
      <3>1. cache = "true"
        BY <2>2 DEF CacheHit, Decide, Ends, CacheInv, TypeOK
      <3> QED BY <3>1 DEF CacheInv, TypeOK, Cached
    <2>3. CASE Store(c)
      <3>1. valid[c] /\ pc[c] = "store"
        BY <2>3 DEF Store, Decide, Ends, CacheInv, TypeOK
      <3> QED BY <3>1 DEF CacheInv, TypeOK, OnTheWay
    <2>4. CASE CheckFails(c)
      BY <2>4 DEF CheckFails, Decide, Ends, CacheInv, TypeOK
    <2> QED BY <2>1, <2>2, <2>3, <2>4
  <1> QED BY <1>1, CacheCorrect, PTL DEF Spec, AcceptedOnlyWhileFresh

(* A good certificate is refused only within TTL of a check that gave no   *)
(* status.                                                                 *)
THEOREM RefusedAfterTrouble == Spec => RefusedOnlyAfterTrouble
  <1>1. CacheInv /\ [Next]_vars =>
           [\A c \in Login :
               Ends(c, "refused") /\ ~revoked => sinceTrouble' < TTL]_vars
    <2> SUFFICES ASSUME CacheInv, [Next]_vars,
                        NEW c \in Login, Ends(c, "refused"), ~revoked
                 PROVE  sinceTrouble' < TTL
      OBVIOUS
    <2> USE TTLAssumption DEF TTLAssumption
    <2>1. CacheHit(c) \/ Store(c) \/ CheckFails(c)
      BY Ending
    <2>2. CASE CacheHit(c)
      <3>1. cache = "false" /\ sinceTrouble' = sinceTrouble
        BY <2>2 DEF CacheHit, Decide, Ends, CacheInv, TypeOK
      <3> QED BY <3>1 DEF CacheInv, TypeOK, Cached
    <2>3. CASE Store(c)
      <3>1. ~valid[c] /\ pc[c] = "store" /\ sinceTrouble' = sinceTrouble
        BY <2>3 DEF Store, Decide, Ends, CacheInv, TypeOK
      <3> QED BY <3>1 DEF CacheInv, TypeOK, OnTheWay
    <2>4. CASE CheckFails(c)
      BY <2>4 DEF CheckFails
    <2> QED BY <2>1, <2>2, <2>3, <2>4
  <1> QED BY <1>1, CacheCorrect, PTL DEF Spec, RefusedOnlyAfterTrouble
=============================================================================
