-------------------------- MODULE PendingAcksProofs --------------------------
(***************************************************************************)
(* Proofs about PendingAcks, for every number of deployments, of runs of   *)
(* the job, of failed requests and of errors of the file.  The first two theorems are about whatever     *)
(* overlaps or crashes; the others are about an agent that does one thing  *)
(* at a time, does not crash, and whose file holds two results at most.    *)
(***************************************************************************)
EXTENDS PendingAcks, FiniteSetTheorems, SequenceTheorems, TLAPS

USE DEF damage

(* What slices.Delete leaves of a list.                                    *)
LEMMA RemoveAtElements ==
    ASSUME NEW S, NEW s \in Seq(S), NEW n \in 1 .. Len(s)
    PROVE  /\ RemoveAt(s, n) \in Seq(S)
           /\ Len(RemoveAt(s, n)) = Len(s) - 1
           /\ \A k \in 1 .. Len(s) - 1 :
                 RemoveAt(s, n)[k] = IF k < n THEN s[k] ELSE s[k + 1]
  <1> DEFINE left == SubSeq(s, 1, n - 1)
             right == SubSeq(s, n + 1, Len(s))
  <1>1. Len(s) \in Nat /\ n \in Nat \ {0} /\ n <= Len(s)
    BY LenProperties
  <1>2. /\ left \in Seq(S) /\ Len(left) = n - 1
        /\ \A k \in 1 .. n - 1 : left[k] = s[k]
    BY <1>1, SubSeqProperties, ElementOfSeq
  <1>3. /\ right \in Seq(S) /\ Len(right) = Len(s) - n
        /\ \A k \in 1 .. Len(s) - n : right[k] = s[n + k]
    BY <1>1, SubSeqProperties, ElementOfSeq
  <1>4. RemoveAt(s, n) = left \o right
    BY DEF RemoveAt
  <1> HIDE DEF left, right
  <1>5. /\ left \o right \in Seq(S)
        /\ Len(left \o right) = Len(left) + Len(right)
        /\ \A k \in 1 .. Len(left) + Len(right) : (left \o right)[k] =
              IF k <= Len(left) THEN left[k] ELSE right[k - Len(left)]
    BY <1>2, <1>3, ConcatProperties
  <1>6. Len(left) + Len(right) = Len(s) - 1
    BY <1>1, <1>2, <1>3
  <1>7. ASSUME NEW k \in 1 .. Len(s) - 1
        PROVE  (left \o right)[k] = IF k < n THEN s[k] ELSE s[k + 1]
    <2>1. k \in Nat /\ k <= Len(s) - 1 /\ k >= 1
      BY <1>1
    <2>2. CASE k < n
      <3>1. k \in 1 .. n - 1 /\ k <= n - 1
        BY <1>1, <2>1, <2>2
      <3>2. QED
        BY <1>2, <1>5, <1>6, <2>2, <3>1
    <2>3. CASE ~(k < n)
      <3>1. /\ k - (n - 1) \in 1 .. Len(s) - n
            /\ n + (k - (n - 1)) = k + 1
            /\ ~(k <= n - 1)
        BY <1>1, <2>1, <2>3
      <3>2. (left \o right)[k] = right[k - (n - 1)]
        BY <1>2, <1>5, <1>6, <3>1
      <3>3. right[k - (n - 1)] = s[k + 1]
        BY <1>3, <3>1
      <3>4. QED
        BY <2>3, <3>2, <3>3
    <2>4. QED
      BY <2>2, <2>3
  <1>8. QED
    BY <1>4, <1>5, <1>6, <1>7

LEMMA RemoveAtKeeps ==
    ASSUME NEW S, NEW s \in Seq(S), NEW n \in 1 .. Len(s)
    PROVE  /\ RemoveAt(s, n) \in Seq(S)
           /\ Len(RemoveAt(s, n)) = Len(s) - 1
           /\ ToSet(RemoveAt(s, n)) \subseteq ToSet(s)
  <1> DEFINE t == RemoveAt(s, n)
  <1>1. /\ t \in Seq(S) /\ Len(t) = Len(s) - 1
        /\ \A k \in 1 .. Len(s) - 1 : t[k] = IF k < n THEN s[k] ELSE s[k + 1]
    BY RemoveAtElements
  <1> HIDE DEF t
  <1>2. /\ Len(s) \in Nat /\ n \in Nat
        /\ DOMAIN s = 1 .. Len(s) /\ DOMAIN t = 1 .. Len(s) - 1
    BY <1>1, LenProperties
  <1>3. ASSUME NEW k \in DOMAIN t
        PROVE  \E m \in DOMAIN s : t[k] = s[m]
    <2>1. k \in DOMAIN s /\ k + 1 \in DOMAIN s
      BY <1>2
    <2>2. t[k] = s[k] \/ t[k] = s[k + 1]
      BY <1>1, <1>2
    <2>3. QED
      BY <2>1, <2>2
  <1>4. ToSet(t) \subseteq ToSet(s)
    BY <1>3 DEF ToSet
  <1>5. QED
    BY <1>1, <1>4 DEF t

(* What append adds to a list.                                             *)
LEMMA AppendedKeeps ==
    ASSUME NEW S, NEW s \in Seq(S), NEW d \in S
    PROVE  /\ s \o <<d>> \in Seq(S)
           /\ s \o <<d>> # <<>>
           /\ ToSet(s \o <<d>>) = ToSet(s) \cup {d}
  <1>1. /\ s \o <<d>> \in Seq(S)
        /\ Len(s \o <<d>>) = Len(s) + 1
        /\ \A k \in 1 .. Len(s) + 1 : (s \o <<d>>)[k] =
              IF k <= Len(s) THEN s[k] ELSE d
    BY ConcatProperties, LenProperties
  <1>2. Len(s) \in Nat /\ DOMAIN s = 1 .. Len(s)
        /\ DOMAIN (s \o <<d>>) = 1 .. Len(s) + 1
    BY <1>1, LenProperties
  <1>3. ToSet(s \o <<d>>) \subseteq ToSet(s) \cup {d}
    BY <1>1, <1>2 DEF ToSet
  <1>4. ToSet(s) \cup {d} \subseteq ToSet(s \o <<d>>)
    BY <1>1, <1>2 DEF ToSet
  <1>5. QED
    BY <1>1, <1>2, <1>3, <1>4, EmptySeq

LEMMA EmptyToSet == ToSet(<<>>) = {}
  BY DEF ToSet

LEMMA ToSetType ==
    ASSUME NEW S, NEW s \in Seq(S)
    PROVE  ToSet(s) \subseteq S
  BY ElementOfSeq, LenProperties DEF ToSet

-----------------------------------------------------------------------------
(* Type correctness.                                                       *)
LEMMA ResultType ==
    ASSUME TypeOK, NEW h \in Handler, pc[h] # "idle"
    PROVE  Result(h) \in Deployment
  <1>1. actions[h] \in Seq(Deployment) /\ actions[h] # <<>>
    BY DEF TypeOK, Goroutine
  <1>2. QED
    BY <1>1, HeadTailProperties DEF Result

LEMMA DistinctGoroutines ==
    /\ Handler \subseteq Goroutine /\ JobRun \subseteq Goroutine
    /\ \A r \in JobRun : r \notin Handler
  BY ConstantsAssumption DEF Goroutine

LEMMA TypeInit == Init => TypeOK
  <1> SUFFICES ASSUME Init PROVE TypeOK
    OBVIOUS
  <1>1. <<>> \in Seq(Deployment)
    BY EmptySeq
  <1>2. 0 \in 0 .. MaxFaults /\ 0 \in 0 .. MaxCrashes /\ 0 \in 0 .. MaxDiskErrors
    BY ConstantsAssumption
  <1>3. \A h \in Handler : pc[h] = "idle"
    BY DistinctGoroutines DEF Init
  <1>4. \A r \in JobRun : pc[r] = "idle"
    BY DistinctGoroutines DEF Init
  <1>5. pc \in [Goroutine -> Steps]
    BY DEF Init, Steps
  <1>6. /\ file \in Seq(Deployment) /\ corrupt = FALSE
        /\ actions \in [Goroutine -> Seq(Deployment)]
    BY <1>1 DEF Init
  <1>7. /\ outcome \in [Deployment -> Outcomes]
        /\ refused \subseteq Deployment /\ acked \subseteq Deployment
        /\ unsaved \subseteq Deployment /\ stale \subseteq Deployment
    BY DEF Init, Outcomes
  <1>8. /\ i \in [JobRun -> Nat \ {0}] /\ j \in [JobRun -> Nat \ {0}]
        /\ faults \in 0 .. MaxFaults /\ crashes \in 0 .. MaxCrashes
        /\ errors \in 0 .. MaxDiskErrors
    BY <1>2 DEF Init
  <1>9. QED
    BY <1>3, <1>4, <1>5, <1>6, <1>7, <1>8 DEF TypeOK

(* A goroutine that finishes, or only moves on.                            *)
LEMMA TypeFinish ==
    ASSUME TypeOK, NEW g \in Goroutine, Finish(g)
    PROVE  /\ pc' \in [Goroutine -> Steps]
           /\ actions' \in [Goroutine -> Seq(Deployment)]
           /\ pc'[g] = "idle"
           /\ \A b \in Goroutine \ {g} :
                 pc'[b] = pc[b] /\ actions'[b] = actions[b]
  BY EmptySeq DEF Finish, Goto, TypeOK, Steps

LEMMA TypeGoto ==
    ASSUME TypeOK, NEW g \in Goroutine, NEW step \in Steps, Goto(g, step)
    PROVE  /\ pc' \in [Goroutine -> Steps]
           /\ pc'[g] = step
           /\ \A b \in Goroutine \ {g} : pc'[b] = pc[b]
  BY DEF Goto, TypeOK

(* The parts of TypeOK that depend on where the goroutines are.            *)
LEMMA TypeByGoroutine ==
    ASSUME TypeOK, NEW g \in Goroutine,
           \A b \in Goroutine \ {g} :
              pc'[b] = pc[b] /\ actions'[b] = actions[b],
           g \in Handler /\ pc'[g] # "idle" => actions'[g] # <<>>,
           g \in JobRun /\ pc'[g] = "drain" => j'[g] <= i'[g],
           \A r \in JobRun \ {g} : i'[r] = i[r] /\ j'[r] = j[r]
    PROVE  /\ \A h \in Handler : pc'[h] # "idle" => actions'[h] # <<>>
           /\ \A r \in JobRun : pc'[r] = "drain" => j'[r] <= i'[r]
  BY DistinctGoroutines DEF TypeOK

LEMMA TypeDeploy ==
    ASSUME TypeOK, NEW h \in Handler, Deploy(h)
    PROVE  TypeOK'
  <1>1. h \in Goroutine /\ h \notin JobRun
    BY DistinctGoroutines
  <1>2. PICK d \in Deployment :
           /\ outcome' = [outcome EXCEPT ![d] = "running"]
           /\ actions' = [actions EXCEPT ![h] = <<d>>]
    BY DEF Deploy
  <1>3. <<d>> \in Seq(Deployment) /\ <<d>> # <<>>
    BY EmptySeq
  <1>4. /\ pc' \in [Goroutine -> Steps]
        /\ \A b \in Goroutine \ {h} : pc'[b] = pc[b]
    BY <1>1, TypeGoto DEF Deploy, Steps
  <1>5. /\ actions' \in [Goroutine -> Seq(Deployment)]
        /\ actions'[h] = <<d>>
        /\ \A b \in Goroutine \ {h} : actions'[b] = actions[b]
    BY <1>1, <1>2, <1>3 DEF TypeOK
  <1>6. outcome' \in [Deployment -> Outcomes]
    BY <1>2 DEF TypeOK, Outcomes
  <1>7. /\ \A k \in Handler : pc'[k] # "idle" => actions'[k] # <<>>
        /\ \A r \in JobRun : pc'[r] = "drain" => j'[r] <= i'[r]
    BY <1>1, <1>3, <1>4, <1>5, TypeByGoroutine DEF Deploy
  <1>8. QED
    BY <1>4, <1>5, <1>6, <1>7 DEF Deploy, TypeOK

LEMMA PackageManagerEnds ==
    ASSUME NEW end \in Ends
    PROVE  PackageManager(end) \in Finished
  BY ConstantsAssumption
  DEF PackageManager, Flatpak, Brew, Winget, Finished

LEMMA TypeHandle ==
    ASSUME TypeOK, NEW h \in Handler,
           \/ DeployEnds(h) \/ ResultAcked(h) \/ ResultNotAcked(h)
           \/ ReadToAppend(h)
    PROVE  TypeOK'
  <1>1. h \in Goroutine /\ h \notin JobRun
    BY DistinctGoroutines
  <1>2. pc[h] # "idle" /\ Result(h) \in Deployment
    BY ResultType DEF DeployEnds, ResultAcked, ResultNotAcked, ReadToAppend,
                      Sending
  <1>3. /\ outcome' \in [Deployment -> Outcomes]
        /\ refused' \subseteq Deployment /\ acked' \subseteq Deployment
        /\ UNCHANGED <<file, corrupt, i, j, crashes, damage>>
    BY <1>2, PackageManagerEnds DEF DeployEnds, ResultAcked, ResultNotAcked, ReadToAppend, TypeOK,
                Outcomes, Finished
  <1>4. faults' \in 0 .. MaxFaults
    BY ConstantsAssumption
    DEF DeployEnds, ResultAcked, ResultNotAcked, ReadToAppend, TypeOK
  <1>5. /\ pc' \in [Goroutine -> Steps]
        /\ actions' \in [Goroutine -> Seq(Deployment)]
        /\ \A b \in Goroutine \ {h} :
              pc'[b] = pc[b] /\ actions'[b] = actions[b]
        /\ pc'[h] # "idle" => actions'[h] # <<>>
    <2>1. CASE Finish(h)
      BY <1>1, <2>1, TypeFinish
    <2>2. CASE UNCHANGED <<pc, actions>>
      BY <1>1, <2>2 DEF TypeOK
    <2>3. CASE Goto(h, "read") /\ UNCHANGED actions
      BY <1>1, <1>2, <2>3, TypeGoto DEF TypeOK, Steps
    <2>4. CASE /\ actions' = [actions EXCEPT ![h] = file \o <<Result(h)>>]
               /\ Goto(h, "create")
      <3>1. /\ file \o <<Result(h)>> \in Seq(Deployment)
            /\ file \o <<Result(h)>> # <<>>
        BY <1>2, AppendedKeeps DEF TypeOK
      <3>2. QED
        BY <1>1, <2>4, <3>1, TypeGoto DEF TypeOK, Steps
    <2>5. QED
      BY <2>1, <2>2, <2>3, <2>4
      DEF DeployEnds, ResultAcked, ResultNotAcked, ReadToAppend
  <1>6. /\ \A k \in Handler : pc'[k] # "idle" => actions'[k] # <<>>
        /\ \A r \in JobRun : pc'[r] = "drain" => j'[r] <= i'[r]
    BY <1>1, <1>3, <1>5, TypeByGoroutine
  <1>7. QED
    BY <1>3, <1>4, <1>5, <1>6 DEF TypeOK

LEMMA TypeDrain ==
    ASSUME TypeOK, NEW r \in JobRun,
           \/ ReadDeploymentNotACK(r) \/ ResendAcked(r) \/ ResendNotAcked(r)
           \/ DrainEnds(r)
    PROVE  TypeOK'
  <1>1. r \in Goroutine /\ r \notin Handler
    BY DistinctGoroutines
  <1>2. /\ actions[r] \in Seq(Deployment) /\ Len(actions[r]) \in Nat
        /\ i[r] \in Nat \ {0} /\ j[r] \in Nat \ {0}
    BY <1>1, LenProperties DEF TypeOK
  <1>3. Draining(r) => /\ actions[r][i[r]] \in Deployment
                       /\ j[r] <= i[r]
                       /\ j[r] \in 1 .. Len(actions[r])
    BY <1>2, ElementOfSeq DEF Draining, TypeOK
  <1>4. /\ UNCHANGED <<file, corrupt, outcome, refused, crashes, damage>>
        /\ acked' \subseteq Deployment
    BY <1>3 DEF ReadDeploymentNotACK, ResendAcked, ResendNotAcked, DrainEnds,
                TypeOK
  <1>5. faults' \in 0 .. MaxFaults
    BY ConstantsAssumption
    DEF ReadDeploymentNotACK, ResendAcked, ResendNotAcked, DrainEnds, TypeOK
  <1>6. /\ i' \in [JobRun -> Nat \ {0}] /\ j' \in [JobRun -> Nat \ {0}]
        /\ \A b \in JobRun \ {r} : i'[b] = i[b] /\ j'[b] = j[b]
        /\ ReadDeploymentNotACK(r) => i'[r] = 1 /\ j'[r] = 1
        /\ ResendAcked(r) => i'[r] = i[r] + 1 /\ j'[r] = j[r]
        /\ ResendNotAcked(r) => i'[r] = i[r] + 1 /\ j'[r] = j[r] + 1
    <2>1. i \in [JobRun -> Nat \ {0}] /\ j \in [JobRun -> Nat \ {0}]
      BY DEF TypeOK
    <2>2. CASE ReadDeploymentNotACK(r)
      BY <2>1, <2>2 DEF ReadDeploymentNotACK, ResendAcked, ResendNotAcked,
                        Draining, MayStart
    <2>3. CASE ResendAcked(r) /\ ~ReadDeploymentNotACK(r)
      <3>1. ~ResendNotAcked(r)
        BY <1>2, <2>1, <2>3 DEF ResendAcked, ResendNotAcked
      <3>2. QED
        BY <1>2, <2>1, <2>3, <3>1 DEF ResendAcked
    <2>4. CASE ResendNotAcked(r) /\ ~ReadDeploymentNotACK(r)
      <3>1. ~ResendAcked(r)
        BY <1>2, <2>1, <2>4 DEF ResendAcked, ResendNotAcked
      <3>2. QED
        BY <1>2, <2>1, <2>4, <3>1 DEF ResendNotAcked
    <2>5. CASE DrainEnds(r)
      BY <2>1, <2>5, <1>2 DEF DrainEnds, ReadDeploymentNotACK, ResendAcked,
                        ResendNotAcked, Draining, MayStart
    <2>6. QED
      BY <2>2, <2>3, <2>4, <2>5
  <1>7. /\ pc' \in [Goroutine -> Steps]
        /\ \A b \in Goroutine \ {r} : pc'[b] = pc[b]
        /\ DrainEnds(r) => pc'[r] = "create"
    <2>1. CASE ReadDeploymentNotACK(r)
      <3>1. "drain" \in Steps /\ Goto(r, "drain")
        BY <2>1 DEF ReadDeploymentNotACK, Steps
      <3>2. ~DrainEnds(r)
        BY <2>1 DEF ReadDeploymentNotACK, DrainEnds, MayStart
      <3>3. QED
        BY <1>1, <3>1, <3>2, TypeGoto
    <2>2. CASE DrainEnds(r)
      <3>1. "create" \in Steps /\ Goto(r, "create")
        BY <2>2 DEF DrainEnds, Steps
      <3>2. QED
        BY <1>1, <3>1, TypeGoto
    <2>3. CASE (ResendAcked(r) \/ ResendNotAcked(r)) /\ ~DrainEnds(r)
      BY <2>3 DEF ResendAcked, ResendNotAcked, TypeOK
    <2>4. QED
      BY <2>1, <2>2, <2>3
  <1>8. /\ actions' \in [Goroutine -> Seq(Deployment)]
        /\ \A b \in Goroutine \ {r} : actions'[b] = actions[b]
    <2>1. CASE ResendAcked(r)
      <3>1. RemoveAt(actions[r], j[r]) \in Seq(Deployment)
        BY <1>2, <1>3, <2>1, RemoveAtKeeps DEF ResendAcked
      <3>2. QED
        BY <1>1, <2>1, <3>1 DEF ResendAcked, TypeOK
    <2>2. CASE ReadDeploymentNotACK(r)
      BY <1>1, <2>2 DEF ReadDeploymentNotACK, TypeOK
    <2>3. CASE ResendNotAcked(r) \/ DrainEnds(r)
      BY <1>1, <2>3 DEF ResendNotAcked, DrainEnds, TypeOK
    <2>4. QED
      BY <2>1, <2>2, <2>3
  <1>9. pc'[r] = "drain" => j'[r] <= i'[r]
    BY <1>2, <1>3, <1>6, <1>7 DEF ResendAcked, ResendNotAcked
  <1>10. /\ \A k \in Handler : pc'[k] # "idle" => actions'[k] # <<>>
         /\ \A b \in JobRun : pc'[b] = "drain" => j'[b] <= i'[b]
    BY <1>1, <1>6, <1>7, <1>8, <1>9, TypeByGoroutine
  <1>11. QED
    BY <1>4, <1>5, <1>6, <1>7, <1>8, <1>10 DEF TypeOK

(* A goroutine that gives up, because of an error or of a text that does   *)
(* not parse.                                                              *)
Abandons(g) ==
    CreateFails(g) \/ WriteFails(g) \/ AppendFails(g) \/ AppendsToNone(g)

LEMMA AbandonsEffect ==
    ASSUME NEW g, Abandons(g)
    PROVE  /\ pc[g] # "idle" /\ Finish(g)
           /\ UNCHANGED <<outcome, refused, acked, i, j, faults, crashes>>
           /\ unsaved' = unsaved \cup Forsaken(g)
           /\ \/ UNCHANGED <<file, corrupt>>
              \/ pc[g] = "write" /\ file' = <<>> /\ corrupt'
  BY DEF Abandons, CreateFails, WriteFails, AppendFails, AppendsToNone, GivesUp

LEMMA TypeAbandons ==
    ASSUME TypeOK, NEW g \in Goroutine, Abandons(g)
    PROVE  TypeOK'
  <1>1. /\ Finish(g)
        /\ UNCHANGED <<outcome, refused, acked, i, j, faults, crashes>>
        /\ unsaved' = unsaved \cup Forsaken(g)
        /\ \/ UNCHANGED <<file, corrupt>>
           \/ file' = <<>> /\ corrupt'
    BY AbandonsEffect
  <1>2. /\ file' \in Seq(Deployment) /\ corrupt' \in BOOLEAN
        /\ corrupt' => file' = <<>>
    <2>1. file' \in Seq(Deployment)
      BY <1>1, EmptySeq DEF TypeOK
    <2>2. CASE UNCHANGED <<file, corrupt>>
      BY <2>1, <2>2 DEF TypeOK
    <2>3. CASE ~UNCHANGED <<file, corrupt>>
      <3>1. file' = <<>>
        BY <1>1, <2>3
      <3>2. WriteFails(g)
        BY <2>3 DEF Abandons, CreateFails, AppendFails, AppendsToNone
      <3>3. corrupt' = TRUE
        BY <2>3, <3>2 DEF WriteFails
      <3>4. QED
        BY <2>1, <3>1, <3>3
    <2>4. QED
      BY <2>2, <2>3
  <1>3. unsaved' \subseteq Deployment /\ stale' \subseteq Deployment
    <2>1. ToSet(actions[g]) \subseteq Deployment
      BY ToSetType DEF TypeOK
    <2>2. stale' = stale \/ stale' = stale \cup (ToSet(file) \cap acked)
      BY DEF Abandons, CreateFails, WriteFails, AppendFails, AppendsToNone
    <2>3. QED
      BY <1>1, <2>1, <2>2 DEF Forsaken, TypeOK
  <1>4. errors' \in 0 .. MaxDiskErrors
    <2>1. CASE AppendsToNone(g)
      BY <2>1 DEF AppendsToNone, TypeOK
    <2>2. CASE ~AppendsToNone(g)
      <3>1. GivesUp(g)
        BY <2>2 DEF Abandons, CreateFails, WriteFails, AppendFails
      <3>2. errors < MaxDiskErrors /\ errors' = errors + 1
        BY <3>1 DEF GivesUp
      <3>3. QED
        BY <3>2, ConstantsAssumption DEF TypeOK
    <2>3. QED
      BY <2>1, <2>2
  <1>5. /\ pc' \in [Goroutine -> Steps]
        /\ actions' \in [Goroutine -> Seq(Deployment)]
        /\ pc'[g] = "idle"
        /\ \A b \in Goroutine \ {g} :
              pc'[b] = pc[b] /\ actions'[b] = actions[b]
    BY <1>1, TypeFinish
  <1>6. /\ \A k \in Handler : pc'[k] # "idle" => actions'[k] # <<>>
        /\ \A b \in JobRun : pc'[b] = "drain" => j'[b] <= i'[b]
    BY <1>1, <1>5, TypeByGoroutine
  <1>7. QED
    BY <1>1, <1>2, <1>3, <1>4, <1>5, <1>6 DEF TypeOK

LEMMA TypeSave ==
    ASSUME TypeOK, NEW g \in Goroutine, Create(g) \/ Write(g)
    PROVE  TypeOK'
  <1>1. /\ file' \in Seq(Deployment) /\ corrupt' \in BOOLEAN
        /\ corrupt' => file' = <<>>
    BY EmptySeq DEF Create, Write, TypeOK
  <1>2. UNCHANGED <<outcome, refused, acked, i, j, faults, crashes, damage>>
    BY DEF Create, Write
  <1>3. /\ pc' \in [Goroutine -> Steps]
        /\ actions' \in [Goroutine -> Seq(Deployment)]
        /\ \A b \in Goroutine \ {g} :
              pc'[b] = pc[b] /\ actions'[b] = actions[b]
        /\ pc'[g] \in {"idle", "write"}
        /\ g \in Handler /\ pc'[g] # "idle" => actions'[g] # <<>>
    <2>1. CASE Create(g)
      BY <2>1, TypeGoto DEF Create, TypeOK, Steps
    <2>2. CASE Write(g)
      BY <2>2, TypeFinish DEF Write
    <2>3. QED
      BY <2>1, <2>2
  <1>4. /\ \A k \in Handler : pc'[k] # "idle" => actions'[k] # <<>>
        /\ \A b \in JobRun : pc'[b] = "drain" => j'[b] <= i'[b]
    BY <1>2, <1>3, TypeByGoroutine
  <1>5. QED
    BY <1>1, <1>2, <1>3, <1>4 DEF TypeOK

LEMMA TypeCrash == TypeOK /\ Crash => TypeOK'
  <1> SUFFICES ASSUME TypeOK, Crash PROVE TypeOK'
    OBVIOUS
  <1>1. crashes' \in 0 .. MaxCrashes
    BY ConstantsAssumption DEF Crash, TypeOK
  <1>2. /\ pc' \in [Goroutine -> Steps]
        /\ actions' \in [Goroutine -> Seq(Deployment)]
        /\ \A g \in Goroutine : pc'[g] = "idle"
    BY EmptySeq DEF Crash, Steps
  <1>3. /\ \A h \in Handler : pc'[h] = "idle"
        /\ \A r \in JobRun : pc'[r] = "idle"
    BY <1>2, DistinctGoroutines
  <1>4. QED
    BY <1>1, <1>2, <1>3 DEF Crash, TypeOK

LEMMA TypeStep == TypeOK /\ [Next]_vars => TypeOK'
  <1>1. CASE UNCHANGED vars
    BY <1>1 DEF vars, TypeOK
  <1>2. ASSUME TypeOK, NEW h \in Handler, Deploy(h) \/ Handle(h)
        PROVE  TypeOK'
    BY <1>2, DistinctGoroutines, TypeDeploy, TypeHandle, TypeSave, TypeAbandons
    DEF Handle, Save, Abandons
  <1>3. ASSUME TypeOK, NEW r \in JobRun, Drain(r)
        PROVE  TypeOK'
    <2>1. CASE ReadFails(r)
      BY <1>1, <1>3, <2>1 DEF ReadFails
    <2>2. CASE ~ReadFails(r)
      BY <1>3, <2>2, DistinctGoroutines, TypeDrain, TypeSave, TypeAbandons
      DEF Drain, Save, Abandons
    <2>3. QED
      BY <2>1, <2>2
  <1>4. QED
    BY <1>1, <1>2, <1>3, TypeCrash DEF Next

(* Type correctness; in particular the loop of the job never deletes       *)
(* beyond the end of its list.                                             *)
THEOREM TypeCorrect == Spec => []TypeOK
  BY TypeInit, TypeStep, PTL DEF Spec

-----------------------------------------------------------------------------
(* Only refused results are sent again.  The invariant adds what handlers  *)
(* hold from the moment they decide to save.                               *)
Saving(h) == pc[h] \in {"read", "create", "write"}

ResendInv ==
    /\ \A d \in ToSet(file) : Resendable(d)
    /\ \A r \in JobRun : \A d \in ToSet(actions[r]) : Resendable(d)
    /\ \A h \in Handler :
          Saving(h) => \A d \in ToSet(actions[h]) : Resendable(d)

LEMMA HeadInToSet ==
    ASSUME NEW S, NEW s \in Seq(S), s # <<>>
    PROVE  Head(s) \in ToSet(s)
  <1>1. Len(s) \in Nat \ {0} /\ DOMAIN s = 1 .. Len(s)
    BY LenProperties, EmptySeq
  <1>2. QED
    BY <1>1 DEF ToSet

OutcomeKept(d) ==
    /\ refused \subseteq refused'
    /\ outcome[d] \in Finished => outcome'[d] = outcome[d]

(* A resendable result stays so: outcomes only change before the end of    *)
(* the deployment, and refusals are never forgotten.                       *)
LEMMA ResendableStable ==
    ASSUME TypeOK, [Next]_vars, NEW d \in Deployment, Resendable(d)
    PROVE  Resendable(d)'
  <1>1. OutcomeKept(d)
    <2>1. CASE UNCHANGED vars
      BY <2>1 DEF vars, OutcomeKept
    <2>2. ASSUME NEW h \in Handler, Deploy(h)
          PROVE  OutcomeKept(d)
      BY <2>2 DEF Deploy, Finished, TypeOK, OutcomeKept
    <2>3. ASSUME NEW h \in Handler, DeployEnds(h)
          PROVE  OutcomeKept(d)
      BY <2>3, ResultType DEF DeployEnds, Finished, TypeOK, OutcomeKept
    <2>4. ASSUME NEW g \in Goroutine,
                 \/ ResultAcked(g) \/ ResultNotAcked(g) \/ ReadToAppend(g)
                 \/ Create(g) \/ Write(g)
                 \/ ReadDeploymentNotACK(g) \/ ResendAcked(g)
                 \/ ResendNotAcked(g) \/ DrainEnds(g)
          PROVE  OutcomeKept(d)
      BY <2>4 DEF OutcomeKept, ResultAcked, ResultNotAcked, ReadToAppend, Create, Write,
                  ReadDeploymentNotACK, ResendAcked, ResendNotAcked, DrainEnds
    <2>5. ASSUME NEW r \in JobRun, ReadFails(r)
          PROVE  OutcomeKept(d)
      BY <2>1, <2>5 DEF ReadFails
    <2>6. CASE Crash
      BY <2>6 DEF Crash, OutcomeKept
    <2>7. ASSUME NEW g \in Goroutine, Abandons(g)
          PROVE  OutcomeKept(d)
      BY <2>7, AbandonsEffect DEF OutcomeKept
    <2>8. QED
      BY <2>1, <2>2, <2>3, <2>4, <2>5, <2>6, <2>7, DistinctGoroutines
      DEF Next, Handle, Drain, Save, Abandons
  <1>2. QED
    BY <1>1 DEF OutcomeKept, Resendable, Kept, Finished

(* A step of one goroutine: what the file and that goroutine now hold.     *)
LEMMA ResendByGoroutine ==
    ASSUME TypeOK, ResendInv, [Next]_vars, NEW g \in Goroutine,
           \A b \in Goroutine \ {g} :
              pc'[b] = pc[b] /\ actions'[b] = actions[b],
           ToSet(file') \subseteq Deployment,
           \A d \in ToSet(file') : Resendable(d)',
           g \in JobRun \/ Saving(g)' =>
              \A d \in ToSet(actions'[g]) : Resendable(d)'
    PROVE  ResendInv'
  <1>1. ASSUME NEW b \in Goroutine \ {g}, NEW d \in ToSet(actions'[b]),
               b \in JobRun \/ Saving(b)'
        PROVE  Resendable(d)'
    <2>1. Resendable(d)
      BY <1>1 DEF ResendInv, Saving, Goroutine
    <2>2. d \in Deployment
      BY <1>1, ToSetType DEF TypeOK
    <2>3. QED
      BY <2>1, <2>2, ResendableStable
  <1>2. QED
    BY <1>1, DistinctGoroutines DEF ResendInv

(* The same when the goroutine only keeps, or drops, what it held.         *)
LEMMA ResendKept ==
    ASSUME TypeOK, ResendInv, [Next]_vars, NEW g \in Goroutine,
           \A b \in Goroutine \ {g} :
              pc'[b] = pc[b] /\ actions'[b] = actions[b],
           ToSet(file') \subseteq ToSet(file),
           ToSet(actions'[g]) \subseteq ToSet(actions[g]),
           Saving(g)' => Saving(g) \/ g \in JobRun
    PROVE  ResendInv'
  <1>1. ToSet(file) \subseteq Deployment /\ ToSet(actions[g]) \subseteq Deployment
    BY ToSetType DEF TypeOK
  <1>2. \A d \in ToSet(file') : Resendable(d)'
    BY <1>1, ResendableStable DEF ResendInv
  <1>3. g \in JobRun \/ Saving(g)' =>
              \A d \in ToSet(actions'[g]) : Resendable(d)'
    BY <1>1, ResendableStable DEF ResendInv, Goroutine
  <1>4. QED
    BY <1>1, <1>2, <1>3, ResendByGoroutine

LEMMA ResendInit == Init => ResendInv
  <1> SUFFICES ASSUME Init PROVE ResendInv
    OBVIOUS
  <1>1. /\ file = <<>>
        /\ \A g \in Goroutine : actions[g] = <<>>
    BY DEF Init
  <1>2. QED
    BY <1>1, EmptyToSet, DistinctGoroutines DEF ResendInv

(* Only the goroutine that moves changes its place and its list.           *)
LEMMA OthersUntouched ==
    ASSUME TypeOK, NEW g \in Goroutine,
           \/ Deploy(g) \/ DeployEnds(g) \/ ResultAcked(g)
           \/ ResultNotAcked(g) \/ ReadToAppend(g) \/ Create(g) \/ Write(g)
           \/ ReadDeploymentNotACK(g) \/ ResendAcked(g)
           \/ ResendNotAcked(g) \/ DrainEnds(g) \/ Abandons(g)
    PROVE  \A b \in Goroutine \ {g} :
              pc'[b] = pc[b] /\ actions'[b] = actions[b]
  <1>1. CASE Deploy(g) \/ DeployEnds(g) \/ ResultAcked(g)
    BY <1>1 DEF Deploy, DeployEnds, ResultAcked, Finish, Goto, TypeOK
  <1>2. CASE ResultNotAcked(g) \/ ReadToAppend(g)
    BY <1>2 DEF ResultNotAcked, ReadToAppend, Finish, Goto, TypeOK
  <1>3. CASE Create(g) \/ Write(g)
    BY <1>3 DEF Create, Write, Finish, Goto, TypeOK
  <1>4. CASE ReadDeploymentNotACK(g) \/ DrainEnds(g)
    BY <1>4 DEF ReadDeploymentNotACK, DrainEnds, Goto, TypeOK
  <1>5. CASE ResendAcked(g) \/ ResendNotAcked(g)
    BY <1>5 DEF ResendAcked, ResendNotAcked, TypeOK
  <1>6. CASE Abandons(g)
    BY <1>6, AbandonsEffect, TypeFinish
  <1>7. QED
    BY <1>1, <1>2, <1>3, <1>4, <1>5, <1>6

(* While a handler runs the package manager or reports, it holds just the  *)
(* one result.                                                             *)
HoldsOne ==
    \A h \in Handler :
        pc[h] = "send" => \E d \in Deployment : actions[h] = <<d>>

LEMMA HoldsOneStep == TypeOK /\ HoldsOne /\ [Next]_vars => HoldsOne'
  <1> SUFFICES ASSUME TypeOK, HoldsOne, [Next]_vars PROVE HoldsOne'
    OBVIOUS
  <1>1. CASE UNCHANGED vars
    BY <1>1 DEF vars, HoldsOne
  <1>2. CASE Crash
    BY <1>2, DistinctGoroutines DEF Crash, HoldsOne
  <1>3. ASSUME NEW g \in Goroutine,
               \/ DeployEnds(g) \/ ResultAcked(g)
               \/ ResultNotAcked(g) \/ ReadToAppend(g) \/ Create(g) \/ Write(g)
               \/ ReadDeploymentNotACK(g) \/ ResendAcked(g)
               \/ ResendNotAcked(g) \/ DrainEnds(g) \/ Abandons(g)
        PROVE  HoldsOne'
    <2>1. \A b \in Goroutine \ {g} : pc'[b] = pc[b] /\ actions'[b] = actions[b]
      BY <1>3, OthersUntouched
    <2>2. g \in Handler =>
            \/ pc'[g] # "send"
            \/ pc'[g] = pc[g] /\ actions'[g] = actions[g]
      <3> SUFFICES ASSUME g \in Handler
                   PROVE  \/ pc'[g] # "send"
                          \/ pc'[g] = pc[g] /\ actions'[g] = actions[g]
        OBVIOUS
      <3>1. CASE DeployEnds(g) \/ ResultAcked(g)
        BY <3>1 DEF DeployEnds, ResultAcked, Finish, Goto, TypeOK
      <3>2. CASE ResultNotAcked(g) \/ ReadToAppend(g)
        BY <3>2 DEF ResultNotAcked, ReadToAppend, Finish, Goto, TypeOK
      <3>3. CASE Create(g) \/ Write(g)
        BY <3>3 DEF Create, Write, Finish, Goto, TypeOK
      <3>4. CASE ReadDeploymentNotACK(g) \/ DrainEnds(g)
        BY <3>4 DEF ReadDeploymentNotACK, DrainEnds, Goto, TypeOK
      <3>5. CASE ResendAcked(g) \/ ResendNotAcked(g)
        BY <3>5 DEF ResendAcked, ResendNotAcked, Draining, TypeOK
      <3>6. CASE Abandons(g)
        BY <3>6, AbandonsEffect, TypeFinish
      <3>7. QED
        BY <1>3, <3>1, <3>2, <3>3, <3>4, <3>5, <3>6
    <2>3. QED
      BY <2>1, <2>2, DistinctGoroutines DEF HoldsOne
  <1>4. ASSUME NEW g \in Handler, Deploy(g)
        PROVE  HoldsOne'
    <2>1. \A b \in Goroutine \ {g} : pc'[b] = pc[b] /\ actions'[b] = actions[b]
      BY <1>4, OthersUntouched, DistinctGoroutines
    <2>2. \E d \in Deployment : actions'[g] = <<d>>
      BY <1>4, DistinctGoroutines DEF Deploy, TypeOK
    <2>3. QED
      BY <2>1, <2>2, DistinctGoroutines DEF HoldsOne
  <1>5. ASSUME NEW r \in JobRun, ReadFails(r)
        PROVE  HoldsOne'
    BY <1>1, <1>5 DEF ReadFails
  <1>6. QED
    BY <1>1, <1>2, <1>3, <1>4, <1>5, DistinctGoroutines
    DEF Next, Handle, Drain, Save, Abandons

LEMMA ResendHandle ==
    ASSUME TypeOK, HoldsOne, ResendInv, [Next]_vars, NEW h \in Handler,
           \/ Deploy(h) \/ DeployEnds(h) \/ ResultAcked(h)
           \/ ResultNotAcked(h) \/ ReadToAppend(h)
    PROVE  ResendInv'
  <1>1. /\ h \in Goroutine /\ h \notin JobRun
        /\ ToSet(file) \subseteq Deployment
    BY DistinctGoroutines, ToSetType DEF TypeOK
  <1>2. \A b \in Goroutine \ {h} : pc'[b] = pc[b] /\ actions'[b] = actions[b]
    BY <1>1, OthersUntouched
  <1>3. /\ file' = file
        /\ \A d \in ToSet(file') : Resendable(d)'
    <2>1. file' = file
      BY DEF Deploy, DeployEnds, ResultAcked, ResultNotAcked, ReadToAppend
    <2>2. QED
      BY <1>1, <2>1, ResendableStable DEF ResendInv
  <1>4. CASE Finish(h) \/ Deploy(h) \/ (DeployEnds(h) /\ UNCHANGED pc)
    <2>1. ~Saving(h)'
      BY <1>1, <1>4 DEF Finish, Goto, Deploy, DeployEnds, Saving, TypeOK
    <2>2. QED
      BY <1>1, <1>2, <1>3, <2>1, ResendByGoroutine
  <1>5. CASE ResultNotAcked(h) /\ ~Finish(h)
    <2>1. PICK d \in Deployment : actions[h] = <<d>>
      BY <1>5 DEF ResultNotAcked, Sending, HoldsOne
    <2>2. Result(h) = d
      BY <2>1 DEF Result
    <2>3. Resendable(d)'
      BY <1>5, <2>2 DEF ResultNotAcked, Sending, Resendable, Kept
    <2>4. actions'[h] = <<d>>
      BY <1>5, <2>1 DEF ResultNotAcked
    <2>5. \A e \in ToSet(actions'[h]) : e = d
      BY <2>4 DEF ToSet
    <2>6. QED
      BY <1>1, <1>2, <1>3, <2>3, <2>5, ResendByGoroutine
  <1>6. CASE ReadToAppend(h) /\ ~Finish(h)
    <2>1. PICK d \in Deployment : d = Result(h)
      BY <1>1, <1>6, ResultType DEF ReadToAppend, TypeOK
    <2>2. Resendable(d)'
      <3>1. actions[h] \in Seq(Deployment) /\ actions[h] # <<>> /\ Saving(h)
        BY <1>1, <1>6 DEF ReadToAppend, TypeOK, Saving
      <3>2. d \in ToSet(actions[h])
        BY <2>1, <3>1, HeadInToSet DEF Result
      <3>3. QED
        BY <3>1, <3>2, ResendableStable DEF ResendInv
    <2>3. actions'[h] = file \o <<d>>
      BY <1>1, <1>6, <2>1 DEF ReadToAppend, TypeOK
    <2>4. ToSet(actions'[h]) = ToSet(file) \cup {d}
      BY <2>3, AppendedKeeps DEF TypeOK
    <2>5. QED
      BY <1>1, <1>2, <1>3, <2>2, <2>4, ResendByGoroutine
  <1>7. QED
    BY <1>4, <1>5, <1>6
    DEF DeployEnds, ResultAcked, ResultNotAcked, ReadToAppend

LEMMA ResendDrain ==
    ASSUME TypeOK, ResendInv, [Next]_vars, NEW r \in JobRun,
           \/ ReadDeploymentNotACK(r) \/ ResendAcked(r)
           \/ ResendNotAcked(r) \/ DrainEnds(r)
    PROVE  ResendInv'
  <1>1. r \in Goroutine /\ r \notin Handler
    BY DistinctGoroutines
  <1>2. \A b \in Goroutine \ {r} : pc'[b] = pc[b] /\ actions'[b] = actions[b]
    BY <1>1, OthersUntouched
  <1>3. file' = file
    BY DEF ReadDeploymentNotACK, ResendAcked, ResendNotAcked, DrainEnds
  <1>4. CASE ReadDeploymentNotACK(r)
    <2>1. actions'[r] = file
      BY <1>1, <1>4 DEF ReadDeploymentNotACK, TypeOK
    <2>2. \A d \in ToSet(file) : Resendable(d)'
      BY ToSetType, ResendableStable DEF TypeOK, ResendInv
    <2>3. ToSet(file') \subseteq Deployment
      BY <1>3, ToSetType DEF TypeOK
    <2>4. QED
      BY <1>1, <1>2, <1>3, <2>1, <2>2, <2>3, ResendByGoroutine
  <1>5. CASE ~ReadDeploymentNotACK(r)
    <2>1. ToSet(actions'[r]) \subseteq ToSet(actions[r])
      <3>1. CASE ResendAcked(r)
        <4>1. /\ actions[r] \in Seq(Deployment)
              /\ j[r] \in 1 .. Len(actions[r])
          BY <1>1, <3>1, LenProperties DEF ResendAcked, Draining, TypeOK
        <4>2. actions'[r] = RemoveAt(actions[r], j[r])
          BY <1>1, <3>1 DEF ResendAcked, TypeOK
        <4>3. QED
          BY <4>1, <4>2, RemoveAtKeeps
      <3>2. CASE ResendNotAcked(r) \/ DrainEnds(r)
        BY <3>2 DEF ResendNotAcked, DrainEnds
      <3>3. QED
        BY <1>5, <3>1, <3>2
    <2>2. QED
      BY <1>1, <1>2, <1>3, <2>1, ResendKept
  <1>6. QED
    BY <1>4, <1>5

LEMMA ResendSave ==
    ASSUME TypeOK, ResendInv, [Next]_vars, NEW g \in Goroutine,
           Create(g) \/ Write(g)
    PROVE  ResendInv'
  <1>1. \A b \in Goroutine \ {g} : pc'[b] = pc[b] /\ actions'[b] = actions[b]
    BY OthersUntouched
  <1>2. CASE Create(g)
    <2>1. ToSet(file') = {}
      BY <1>2, EmptyToSet DEF Create
    <2>2. actions'[g] = actions[g] /\ Saving(g)
      BY <1>2 DEF Create, Saving
    <2>3. QED
      BY <1>1, <2>1, <2>2, ResendKept
  <1>3. CASE Write(g)
    <2>1. ToSet(actions[g]) \subseteq Deployment
      BY ToSetType DEF TypeOK
    <2>2. \A d \in ToSet(actions[g]) : Resendable(d)'
      BY <1>3, <2>1, ResendableStable DEF ResendInv, Saving, Write, Goroutine
    <2>3. file' = actions[g] \/ file' = <<>>
      BY <1>3 DEF Write
    <2>4. /\ ToSet(file') \subseteq Deployment
          /\ \A d \in ToSet(file') : Resendable(d)'
      BY <2>1, <2>2, <2>3, EmptyToSet
    <2>5. actions'[g] = <<>>
      BY <1>3 DEF Write, Finish, TypeOK
    <2>6. QED
      BY <1>1, <2>4, <2>5, EmptyToSet, ResendByGoroutine
  <1>4. QED
    BY <1>2, <1>3

LEMMA ResendAbandons ==
    ASSUME TypeOK, ResendInv, [Next]_vars, NEW g \in Goroutine, Abandons(g)
    PROVE  ResendInv'
  <1>1. \A b \in Goroutine \ {g} : pc'[b] = pc[b] /\ actions'[b] = actions[b]
    BY OthersUntouched
  <1>2. file' = file \/ file' = <<>>
    BY AbandonsEffect
  <1>3. pc'[g] = "idle" /\ actions'[g] = <<>>
    BY AbandonsEffect DEF Finish, Goto, TypeOK
  <1>4. /\ ToSet(file') \subseteq ToSet(file)
        /\ ToSet(actions'[g]) \subseteq ToSet(actions[g])
    BY <1>2, <1>3, EmptyToSet
  <1>5. QED
    BY <1>1, <1>3, <1>4, ResendKept DEF Saving

LEMMA ResendCrash ==
    ASSUME TypeOK, ResendInv, [Next]_vars, Crash
    PROVE  ResendInv'
  <1>1. file' = file /\ \A g \in Goroutine : actions'[g] = <<>>
    BY DEF Crash
  <1>2. \A d \in ToSet(file) : Resendable(d)'
    BY ToSetType, ResendableStable DEF TypeOK, ResendInv
  <1>3. QED
    BY <1>1, <1>2, EmptyToSet, DistinctGoroutines DEF ResendInv

LEMMA ResendStep ==
    TypeOK /\ HoldsOne /\ ResendInv /\ [Next]_vars => ResendInv'
  <1> SUFFICES ASSUME TypeOK, HoldsOne, ResendInv, [Next]_vars PROVE ResendInv'
    OBVIOUS
  <1>1. CASE UNCHANGED vars
    BY <1>1 DEF vars, ResendInv, Resendable, Kept, Saving
  <1>2. ASSUME NEW h \in Handler, Deploy(h) \/ Handle(h)
        PROVE  ResendInv'
    BY <1>2, DistinctGoroutines, ResendHandle, ResendSave, ResendAbandons
    DEF Handle, Save, Abandons
  <1>3. ASSUME NEW r \in JobRun, Drain(r)
        PROVE  ResendInv'
    <2>1. CASE ReadFails(r)
      BY <1>1, <2>1 DEF ReadFails
    <2>2. CASE ~ReadFails(r)
      BY <1>3, <2>2, DistinctGoroutines, ResendDrain, ResendSave, ResendAbandons
      DEF Drain, Save, Abandons
    <2>3. QED
      BY <2>1, <2>2
  <1>4. QED
    BY <1>1, <1>2, <1>3, ResendCrash DEF Next

(* Whatever overlaps, however many requests fail and wherever the agent    *)
(* stops, the job only sends again results that were refused.              *)
THEOREM OnlyRefusedCorrect == Spec => []OnlyRefusedResent
  <1>1. Init => HoldsOne
    BY DistinctGoroutines DEF Init, HoldsOne
  <1>2. ResendInv => OnlyRefusedResent
    BY DEF ResendInv, OnlyRefusedResent
  <1>3. QED
    BY TypeInit, TypeStep, <1>1, HoldsOneStep, ResendInit, ResendStep, <1>2, PTL
    DEF Spec

-----------------------------------------------------------------------------
(* One goroutine at a time, no crash, and at most two results in the file. *)

Distinct(s) == \A k, m \in DOMAIN s : s[k] = s[m] => k = m

(* A list that the job may well send: nothing twice, and nothing that was  *)
(* acknowledged but what an error of the file left there.                  *)
Pending(s) == Distinct(s) /\ ToSet(s) \cap acked \subseteq stale

LEMMA AppendDistinct ==
    ASSUME NEW S, NEW s \in Seq(S), NEW d \in S, Distinct(s), d \notin ToSet(s)
    PROVE  Distinct(s \o <<d>>)
  <1>1. /\ Len(s) \in Nat /\ DOMAIN s = 1 .. Len(s)
        /\ DOMAIN (s \o <<d>>) = 1 .. Len(s) + 1
        /\ \A k \in 1 .. Len(s) + 1 : (s \o <<d>>)[k] =
              IF k <= Len(s) THEN s[k] ELSE d
    <2>1. <<d>> \in Seq(S) /\ Len(<<d>>) = 1 /\ <<d>>[1] = d
      OBVIOUS
    <2>2. QED
      BY <2>1, ConcatProperties, LenProperties
  <1>2. \A k \in 1 .. Len(s) : s[k] # d
    BY <1>1 DEF ToSet
  <1>3. ASSUME NEW k \in 1 .. Len(s) + 1, NEW m \in 1 .. Len(s) + 1,
               (s \o <<d>>)[k] = (s \o <<d>>)[m]
        PROVE  k = m
    <2>1. CASE k <= Len(s) /\ m <= Len(s)
      <3>1. k \in DOMAIN s /\ m \in DOMAIN s /\ s[k] = s[m]
        BY <1>1, <1>3, <2>1
      <3>2. QED
        BY <3>1 DEF Distinct
    <2>2. CASE ~(k <= Len(s)) /\ ~(m <= Len(s))
      BY <1>1, <2>2
    <2>3. CASE (k <= Len(s)) # (m <= Len(s))
      <3>1. FALSE
        BY <1>1, <1>2, <1>3, <2>3
      <3>2. QED
        BY <3>1
    <2>4. QED
      BY <2>1, <2>2, <2>3
  <1>4. QED
    BY <1>1, <1>3 DEF Distinct

LEMMA RemoveDistinct ==
    ASSUME NEW S, NEW s \in Seq(S), NEW n \in 1 .. Len(s), Distinct(s)
    PROVE  /\ Distinct(RemoveAt(s, n))
           /\ ToSet(RemoveAt(s, n)) = ToSet(s) \ {s[n]}
  <1> DEFINE t == RemoveAt(s, n)
             from(k) == IF k < n THEN k ELSE k + 1
  <1>0. /\ t \in Seq(S) /\ Len(t) = Len(s) - 1
        /\ \A k \in 1 .. Len(s) - 1 : t[k] = IF k < n THEN s[k] ELSE s[k + 1]
    BY RemoveAtElements
  <1> HIDE DEF t
  <1>1. /\ Len(s) \in Nat /\ n \in Nat /\ 1 <= n /\ n <= Len(s)
        /\ DOMAIN s = 1 .. Len(s) /\ DOMAIN t = 1 .. Len(s) - 1
    BY <1>0, LenProperties
  <1>2. ASSUME NEW k \in 1 .. Len(s) - 1
        PROVE  t[k] = s[from(k)] /\ from(k) \in DOMAIN s /\ from(k) # n
    <2>1. from(k) \in DOMAIN s /\ from(k) # n
      BY <1>1
    <2>2. QED
      BY <1>0, <2>1
  <1>3. ASSUME NEW k \in DOMAIN t, NEW m \in DOMAIN t, t[k] = t[m]
        PROVE  k = m
    <2>1. from(k) = from(m)
      BY <1>1, <1>2, <1>3 DEF Distinct
    <2>2. QED
      BY <1>1, <2>1
  <1>4. ToSet(t) \subseteq ToSet(s) \ {s[n]}
    <2>1. ASSUME NEW k \in DOMAIN t
          PROVE  t[k] \in ToSet(s) /\ t[k] # s[n]
      BY <1>1, <1>2 DEF Distinct, ToSet
    <2>2. QED
      BY <2>1 DEF ToSet
  <1>5. ToSet(s) \ {s[n]} \subseteq ToSet(t)
    <2>1. ASSUME NEW k \in DOMAIN s, s[k] # s[n]
          PROVE  \E m \in DOMAIN t : t[m] = s[k]
      <3>1. CASE k < n
        <4>1. k \in 1 .. Len(s) - 1 /\ from(k) = k
          BY <1>1, <3>1
        <4>2. QED
          BY <1>1, <1>2, <4>1
      <3>2. CASE k > n
        <4>1. k - 1 \in 1 .. Len(s) - 1 /\ from(k - 1) = k
          BY <1>1, <3>2
        <4>2. QED
          BY <1>1, <1>2, <4>1
      <3>3. QED
        BY <1>1, <2>1, <3>1, <3>2
    <2>2. QED
      BY <2>1 DEF ToSet
  <1>6. QED
    BY <1>3, <1>4, <1>5 DEF Distinct, t

LEMMA OneToSet ==
    ASSUME NEW d
    PROVE  ToSet(<<d>>) = {d} /\ Head(<<d>>) = d
  BY DEF ToSet

-----------------------------------------------------------------------------
(* The invariant of an agent that does one thing at a time.                *)

AloneAtWork ==
    \A g, h \in Goroutine : pc[g] # "idle" /\ pc[h] # "idle" => g = h

Resting == \A g \in Goroutine : pc[g] = "idle" => actions[g] = <<>>

Unreported(d) == d \notin refused /\ d \notin acked

Reports(h) ==
    /\ pc[h] = "send" =>
          \E d \in Deployment : actions[h] = <<d>> /\ Unreported(d)
    /\ pc[h] = "read" =>
          \E d \in Deployment :
             /\ actions[h] = <<d>> /\ d \in refused
             /\ d \notin acked /\ d \notin ToSet(file)

(* Until the file is truncated, a goroutine that will save has all of it,  *)
(* but for what was acknowledged in between.  The loop counters part when  *)
(* an entry is deleted, and two entries are too few for that to matter.    *)
Updates(g) ==
    /\ pc[g] \in {"drain", "create", "write"} => Pending(actions[g])
    /\ pc[g] \in {"drain", "create"} =>
          ToSet(file) \subseteq ToSet(actions[g]) \cup acked
    /\ pc[g] = "write" => file = <<>> /\ ~corrupt
    /\ pc[g] = "drain" =>
          g \in JobRun /\ i[g] + Len(actions[g]) <= 2 + j[g]

FilePending ==
    /\ Distinct(file)
    /\ (\A g \in Goroutine : pc[g] \notin {"drain", "create"}) => Pending(file)

Ledger ==
    \A d \in Deployment :
        outcome[d] \in {"requested", "running"} => Unreported(d)

SerialInv ==
    /\ AloneAtWork /\ Resting /\ Ledger
    /\ \A h \in Handler : Reports(h)
    /\ \A g \in Goroutine : Updates(g)
    /\ FilePending /\ NoResultLost

Serial == MaxOverlap = 1 /\ MaxCrashes = 0

(* The file never holds more than two results.                             *)
Short == Len(file) <= 2

Inv == TypeOK /\ HoldsOne /\ ResendInv /\ SerialInv

OthersIdle(g) ==
    \A b \in Goroutine \ {g} : pc[b] = "idle" /\ actions[b] = <<>>

LEMMA GoroutinesFinite == IsFiniteSet(Goroutine)
  <1>1. /\ IsFiniteSet({"install"}) /\ IsFiniteSet({"update"})
        /\ IsFiniteSet({"uninstall"})
    BY FS_Singleton
  <1>2. IsFiniteSet({"install"} \cup {"update"})
    BY <1>1, FS_Union
  <1>3. IsFiniteSet(({"install"} \cup {"update"}) \cup {"uninstall"})
    BY <1>1, <1>2, FS_Union
  <1>4. Handler = ({"install"} \cup {"update"}) \cup {"uninstall"}
    BY DEF Handler, Operations
  <1>5. QED
    BY <1>3, <1>4, FS_Union, ConstantsAssumption DEF Goroutine

(* A goroutine starts when no other is active.                             *)
LEMMA AllIdle ==
    ASSUME Serial, NEW g, MayStart(g)
    PROVE  \A b \in Goroutine : pc[b] = "idle"
  <1>1. IsFiniteSet(Active)
    BY GoroutinesFinite, FS_Subset DEF Active
  <1>2. Cardinality(Active) \in Nat /\ Cardinality(Active) < 1
    BY <1>1, FS_CardinalityType DEF MayStart, Serial
  <1>3. Cardinality(Active) = 0
    BY <1>2
  <1>4. QED
    BY <1>1, <1>3, FS_EmptySet DEF Active

LEMMA Others ==
    ASSUME Serial, SerialInv, NEW g \in Goroutine, pc[g] # "idle" \/ MayStart(g)
    PROVE  OthersIdle(g)
  BY AllIdle DEF SerialInv, AloneAtWork, Resting, OthersIdle

LEMMA HeldByOne ==
    ASSUME NEW g \in Goroutine, OthersIdle(g), NEW d
    PROVE  Held(d) <=> d \in ToSet(file) \/ d \in ToSet(actions[g])
  BY EmptyToSet DEF Held, OthersIdle

(* What one goroutine has to show for its step.                            *)
LEMMA SerialByOne ==
    ASSUME NEW g \in Goroutine, OthersIdle(g)', Ledger',
           pc'[g] = "idle" => actions'[g] = <<>>,
           g \in Handler => Reports(g)', Updates(g)',
           Distinct(file)',
           pc'[g] \notin {"drain", "create"} => Pending(file)',
           \A d \in Deployment :
              outcome'[d] \in Finished /\ Kept(d)' =>
                 \/ d \in acked' \cup unsaved' \/ d \in ToSet(file')
                 \/ d \in ToSet(actions'[g])
    PROVE  SerialInv'
  <1>1. AloneAtWork' /\ Resting'
    BY DEF OthersIdle, AloneAtWork, Resting
  <1>2. /\ \A h \in Handler : Reports(h)'
        /\ \A b \in Goroutine : Updates(b)'
    BY DistinctGoroutines DEF OthersIdle, Reports, Updates
  <1>3. FilePending'
    BY DEF FilePending
  <1>4. NoResultLost'
    BY HeldByOne DEF NoResultLost, Held
  <1>5. QED
    BY <1>1, <1>2, <1>3, <1>4 DEF SerialInv

-----------------------------------------------------------------------------
(* Its steps.                                                              *)

LEMMA SerialDeploy ==
    ASSUME Serial, Inv, NEW h \in Handler, Deploy(h)
    PROVE  SerialInv'
  <1>1. h \in Goroutine /\ h \notin JobRun
    BY DistinctGoroutines
  <1>2. OthersIdle(h) /\ \A b \in Goroutine : pc[b] = "idle" /\ actions[b] = <<>>
    BY <1>1, Others, AllIdle DEF Deploy, Inv, SerialInv, Resting
  <1>3. PICK d \in Deployment :
           /\ outcome[d] = "requested"
           /\ outcome' = [outcome EXCEPT ![d] = "running"]
           /\ actions' = [actions EXCEPT ![h] = <<d>>]
    BY DEF Deploy
  <1>4. /\ pc'[h] = "send" /\ actions'[h] = <<d>>
        /\ UNCHANGED <<file, refused, acked, damage>>
    BY <1>1, <1>3 DEF Deploy, Goto, Inv, TypeOK
  <1>5. OthersIdle(h)'
    BY <1>1, <1>2, <1>4, OthersUntouched DEF Inv, OthersIdle
  <1>6. Unreported(d) /\ Pending(file)
    BY <1>2, <1>3 DEF Inv, SerialInv, Ledger, FilePending
  <1>7. /\ outcome'[d] = "running"
        /\ \A e \in Deployment \ {d} : outcome'[e] = outcome[e]
    BY <1>3 DEF Inv, TypeOK
  <1>8. Ledger'
    BY <1>4, <1>6, <1>7 DEF Inv, SerialInv, Ledger, Unreported
  <1>9. ASSUME NEW e \in Deployment, outcome'[e] \in Finished, Kept(e)'
        PROVE  e \in acked' \cup unsaved' \/ e \in ToSet(file')
    <2>1. e # d
      BY <1>7, <1>9 DEF Finished
    <2>2. outcome[e] \in Finished /\ Kept(e)
      BY <1>7, <1>9, <2>1 DEF Kept
    <2>3. QED
      BY <1>2, <1>4, <2>2, EmptyToSet DEF Inv, SerialInv, NoResultLost, Held
  <1>10. Reports(h)' /\ Updates(h)' /\ Pending(file)' /\ Distinct(file)'
    BY <1>4, <1>6
    DEF Reports, Updates, Unreported, Pending, Distinct, Inv, SerialInv
  <1>11. QED
    BY <1>1, <1>4, <1>5, <1>8, <1>9, <1>10, SerialByOne

(* The result of a handler that reports: nothing of it is in the file.     *)
LEMMA Reporting ==
    ASSUME Inv, NEW h \in Handler, pc[h] = "send"
    PROVE  /\ Result(h) \in Deployment /\ actions[h] = <<Result(h)>>
           /\ ToSet(actions[h]) = {Result(h)}
           /\ Unreported(Result(h)) /\ Result(h) \notin ToSet(file)
  <1>1. PICK d \in Deployment : actions[h] = <<d>> /\ Unreported(d)
    BY DEF Inv, SerialInv, Reports
  <1>2. d = Result(h)
    BY <1>1 DEF Result
  <1>3. d \notin ToSet(file)
    BY <1>1 DEF Inv, ResendInv, Resendable, Unreported
  <1>4. QED
    BY <1>1, <1>2, <1>3, OneToSet

LEMMA SerialReport ==
    ASSUME Serial, Inv, NEW h \in Handler,
           DeployEnds(h) \/ ResultAcked(h) \/ ResultNotAcked(h)
    PROVE  SerialInv'
  <1> DEFINE d == Result(h)
  <1>1. h \in Goroutine /\ h \notin JobRun /\ pc[h] = "send"
    BY DistinctGoroutines DEF DeployEnds, ResultAcked, ResultNotAcked, Sending
  <1>2. /\ d \in Deployment /\ actions[h] = <<d>> /\ ToSet(actions[h]) = {d}
        /\ Unreported(d) /\ d \notin ToSet(file)
    BY <1>1, Reporting
  <1> HIDE DEF d
  <1>3. OthersIdle(h)
    BY <1>1, Others DEF Inv
  <1>4. OthersIdle(h)'
    BY <1>1, <1>3, OthersUntouched DEF Inv, OthersIdle
  <1>5. Pending(file)
    BY <1>1, <1>3 DEF Inv, SerialInv, FilePending, OthersIdle
  <1>6. UNCHANGED <<file, damage>> /\ Distinct(file)'
    BY <1>5 DEF DeployEnds, ResultAcked, ResultNotAcked, Pending, Distinct
  <1>7. \A e \in Deployment :
           outcome[e] \in Finished /\ Kept(e) =>
              e \in acked \cup unsaved \/ e \in ToSet(file) \/ e = d
    BY <1>1, <1>2, <1>3, HeldByOne DEF Inv, SerialInv, NoResultLost
  <1>8. \A e \in Deployment :
           outcome[e] \in {"requested", "running"} => Unreported(e)
    BY DEF Inv, SerialInv, Ledger
  <1>9. CASE DeployEnds(h)
    <2>1. /\ UNCHANGED <<refused, acked, actions>> /\ pc'[h] = "send"
          /\ \A e \in Deployment \ {d} : outcome'[e] = outcome[e]
      BY <1>1, <1>2, <1>9 DEF DeployEnds, Inv, TypeOK, d
    <2>2. Ledger' /\ Reports(h)' /\ Updates(h)' /\ Pending(file)'
      BY <1>2, <1>5, <1>6, <1>8, <2>1
      DEF Ledger, Unreported, Reports, Updates, Pending
    <2>3. ASSUME NEW e \in Deployment, outcome'[e] \in Finished, Kept(e)'
          PROVE  e \in acked' \cup unsaved' \/ e \in ToSet(file') \/ e \in ToSet(actions'[h])
      BY <1>2, <1>6, <1>7, <2>1, <2>3 DEF Kept
    <2>4. QED
      BY <1>1, <1>4, <1>6, <2>1, <2>2, <2>3, SerialByOne
  <1>10. CASE ResultAcked(h)
    <2>1. /\ UNCHANGED <<refused, outcome>> /\ acked' = acked \cup {d}
          /\ pc'[h] = "idle" /\ actions'[h] = <<>>
          /\ outcome[d] \in Finished
      BY <1>1, <1>10 DEF ResultAcked, Sending, Finish, Goto, Inv, TypeOK, d
    <2>2. Ledger' /\ Reports(h)' /\ Updates(h)' /\ Pending(file)'
      BY <1>2, <1>5, <1>6, <1>8, <2>1
      DEF Ledger, Unreported, Reports, Updates, Pending, Finished
    <2>3. ASSUME NEW e \in Deployment, outcome'[e] \in Finished, Kept(e)'
          PROVE  e \in acked' \cup unsaved' \/ e \in ToSet(file')
      BY <1>6, <1>7, <2>1, <2>3 DEF Kept
    <2>4. QED
      BY <1>1, <1>4, <1>6, <2>1, <2>2, <2>3, SerialByOne
  <1>11. CASE ResultNotAcked(h)
    <2>1. /\ UNCHANGED <<acked, outcome>> /\ refused' = refused \cup {d}
          /\ outcome[d] \in Finished
      BY <1>11 DEF ResultNotAcked, Sending, d
    <2>2. Ledger' /\ Pending(file)'
      BY <1>5, <1>6, <1>8, <2>1 DEF Ledger, Unreported, Pending, Finished
    <2>3. CASE Kept(d)
      <3>1. pc'[h] = "read" /\ actions'[h] = <<d>>
        BY <1>1, <1>2, <1>11, <2>3 DEF ResultNotAcked, Goto, Inv, TypeOK, d
      <3>2. Reports(h)' /\ Updates(h)'
        BY <1>2, <1>6, <2>1, <3>1 DEF Reports, Updates, Unreported
      <3>3. ASSUME NEW e \in Deployment, outcome'[e] \in Finished, Kept(e)'
            PROVE  \/ e \in acked' \cup unsaved' \/ e \in ToSet(file')
                   \/ e \in ToSet(actions'[h])
        BY <1>6, <1>7, <2>1, <3>1, <3>3, OneToSet DEF Kept
      <3>4. QED
        BY <1>1, <1>4, <1>6, <2>2, <3>1, <3>2, <3>3, SerialByOne
    <2>4. CASE ~Kept(d)
      <3>1. pc'[h] = "idle" /\ actions'[h] = <<>>
        BY <1>1, <1>11, <2>4 DEF ResultNotAcked, Finish, Goto, Inv, TypeOK, d
      <3>2. Reports(h)' /\ Updates(h)'
        BY <3>1 DEF Reports, Updates
      <3>3. ASSUME NEW e \in Deployment, outcome'[e] \in Finished, Kept(e)'
            PROVE  e \in acked' \cup unsaved' \/ e \in ToSet(file')
        BY <1>6, <1>7, <2>1, <2>4, <3>3 DEF Kept
      <3>4. QED
        BY <1>1, <1>4, <1>6, <2>2, <3>1, <3>2, <3>3, SerialByOne
    <2>5. QED
      BY <2>3, <2>4
  <1>12. QED
    BY <1>9, <1>10, <1>11

(* What a handler that appends holds then.                                 *)
LEMMA Appending ==
    ASSUME Serial, Inv, NEW h \in Handler, ReadToAppend(h)
    PROVE  /\ OthersIdle(h) /\ OthersIdle(h)' /\ pc'[h] = "create"
           /\ ToSet(actions'[h]) = ToSet(file) \cup ToSet(actions[h])
           /\ Pending(actions[h])'
           /\ UNCHANGED <<file, outcome, refused, acked, damage>>
  <1>1. h \in Goroutine /\ pc[h] = "read"
    BY DistinctGoroutines DEF ReadToAppend
  <1>2. OthersIdle(h)
    BY <1>1, Others DEF Inv
  <1>3. OthersIdle(h)'
    BY <1>1, <1>2, OthersUntouched DEF Inv, OthersIdle
  <1>4. PICK d \in Deployment :
           actions[h] = <<d>> /\ d \notin acked /\ d \notin ToSet(file)
    BY <1>1 DEF Inv, SerialInv, Reports
  <1>5. Pending(file) /\ file \in Seq(Deployment)
    BY <1>1, <1>2 DEF Inv, SerialInv, FilePending, OthersIdle, TypeOK
  <1>6. /\ actions'[h] = file \o <<d>> /\ pc'[h] = "create"
        /\ UNCHANGED <<acked, stale>>
    <2>1. Result(h) = d
      BY <1>4, OneToSet DEF Result
    <2>2. QED
      BY <1>1, <2>1 DEF ReadToAppend, Goto, Inv, TypeOK
  <1>7. /\ ToSet(file \o <<d>>) = ToSet(file) \cup {d}
        /\ Distinct(file \o <<d>>)
    BY <1>4, <1>5, AppendedKeeps, AppendDistinct DEF Pending
  <1>8. ToSet(actions[h]) = {d}
    BY <1>4, OneToSet
  <1>9. Pending(actions[h])'
    BY <1>4, <1>5, <1>6, <1>7 DEF Pending, Distinct
  <1>10. QED
    BY <1>2, <1>3, <1>6, <1>7, <1>8, <1>9 DEF ReadToAppend

LEMMA SerialAppend ==
    ASSUME Serial, Inv, NEW h \in Handler, ReadToAppend(h)
    PROVE  SerialInv'
  <1>1. h \in Goroutine
    BY DistinctGoroutines
  <1>2. /\ OthersIdle(h) /\ OthersIdle(h)' /\ pc'[h] = "create"
        /\ ToSet(actions'[h]) = ToSet(file) \cup ToSet(actions[h])
        /\ Pending(actions[h])'
        /\ UNCHANGED <<file, outcome, refused, acked, damage>>
    BY Appending
  <1>3. Ledger' /\ Distinct(file)'
    BY <1>2 DEF Inv, SerialInv, Ledger, Unreported, FilePending, Distinct
  <1>4. Reports(h)' /\ Updates(h)'
    BY <1>2 DEF Reports, Updates
  <1>5. ASSUME NEW d \in Deployment, outcome'[d] \in Finished, Kept(d)'
        PROVE  d \in acked' \cup unsaved' \/ d \in ToSet(file') \/ d \in ToSet(actions'[h])
    BY <1>1, <1>2, <1>5, HeldByOne
    DEF Inv, SerialInv, NoResultLost, Kept
  <1>6. QED
    BY <1>1, <1>2, <1>3, <1>4, <1>5, SerialByOne

(* A run of the job that sends: the entry it sent is the one to delete.    *)
LEMMA SendsWhatItDeletes ==
    ASSUME Serial, Inv, NEW r \in JobRun, Draining(r)
    PROVE  /\ i[r] = j[r] /\ j[r] \in 1 .. Len(actions[r])
           /\ actions[r] \in Seq(Deployment) /\ Pending(actions[r])
           /\ OthersIdle(r)
  <1>1. r \in Goroutine /\ pc[r] = "drain" /\ i[r] <= Len(actions[r])
    BY DistinctGoroutines DEF Draining
  <1>2. /\ actions[r] \in Seq(Deployment) /\ Len(actions[r]) \in Nat
        /\ i[r] \in Nat \ {0} /\ j[r] \in Nat \ {0} /\ j[r] <= i[r]
    BY <1>1, LenProperties DEF Inv, TypeOK
  <1>3. i[r] + Len(actions[r]) <= 2 + j[r] /\ Pending(actions[r])
    BY <1>1 DEF Inv, SerialInv, Updates
  <1>4. i[r] = j[r] /\ j[r] \in 1 .. Len(actions[r])
    BY <1>1, <1>2, <1>3
  <1>5. QED
    BY <1>1, <1>2, <1>3, <1>4, Others DEF Inv

(* The answer to what was sent: it leaves the list, and nothing else does. *)
LEMMA Answered ==
    ASSUME Serial, Inv, NEW r \in JobRun, ResendAcked(r)
    PROVE  \E d \in Deployment :
              /\ d \in ToSet(actions[r]) /\ acked' = acked \cup {d}
              /\ ToSet(actions'[r]) = ToSet(actions[r]) \ {d}
              /\ Distinct(actions'[r])
              /\ Len(actions'[r]) = Len(actions[r]) - 1
  <1> DEFINE s == actions[r]
             d == s[j[r]]
  <1>1. Draining(r) /\ r \in Goroutine
    BY DistinctGoroutines DEF ResendAcked
  <1>2. /\ i[r] = j[r] /\ j[r] \in 1 .. Len(s) /\ s \in Seq(Deployment)
        /\ Distinct(s)
    BY <1>1, SendsWhatItDeletes DEF Pending
  <1>3. actions'[r] = RemoveAt(s, j[r]) /\ acked' = acked \cup {d}
    BY <1>1, <1>2 DEF ResendAcked, Inv, TypeOK
  <1>4. d \in Deployment /\ d \in ToSet(s)
    BY <1>2, ElementOfSeq, LenProperties DEF ToSet
  <1>5. /\ Distinct(RemoveAt(s, j[r]))
        /\ ToSet(RemoveAt(s, j[r])) = ToSet(s) \ {d}
        /\ Len(RemoveAt(s, j[r])) = Len(s) - 1
    BY <1>2, RemoveDistinct, RemoveAtElements
  <1>6. QED
    BY <1>3, <1>4, <1>5

LEMMA SerialDrain ==
    ASSUME Serial, Short, Inv, NEW r \in JobRun,
           \/ ReadDeploymentNotACK(r) \/ ResendAcked(r) \/ ResendNotAcked(r)
           \/ DrainEnds(r)
    PROVE  SerialInv'
  <1>1. r \in Goroutine /\ r \notin Handler
    BY DistinctGoroutines
  <1>2. /\ OthersIdle(r) /\ (MayStart(r) => pc[r] = "idle")
        /\ UNCHANGED <<file, outcome, refused, damage>>
    BY <1>1, Others
    DEF ReadDeploymentNotACK, ResendAcked, ResendNotAcked, DrainEnds, Draining,
        MayStart, Inv
  <1>3. OthersIdle(r)'
    BY <1>1, <1>2, OthersUntouched DEF Inv, OthersIdle
  <1>4. /\ actions[r] \in Seq(Deployment) /\ Len(actions[r]) \in Nat
        /\ i[r] \in Nat \ {0} /\ j[r] \in Nat \ {0}
        /\ file \in Seq(Deployment) /\ Len(file) \in Nat
    BY <1>1, LenProperties DEF Inv, TypeOK
  <1>5. \A e \in Deployment :
           outcome[e] \in Finished /\ Kept(e) =>
              e \in acked \cup unsaved \/ e \in ToSet(file) \/ e \in ToSet(actions[r])
    BY <1>1, <1>2, HeldByOne DEF Inv, SerialInv, NoResultLost
  <1>6. /\ Distinct(file)'
        /\ UNCHANGED acked => Ledger'
    BY <1>2 DEF Inv, SerialInv, Ledger, Unreported, FilePending, Distinct
  <1>7. CASE ReadDeploymentNotACK(r)
    <2>1. /\ actions'[r] = file /\ i'[r] = 1 /\ j'[r] = 1 /\ UNCHANGED acked
          /\ pc'[r] = "drain" /\ pc[r] = "idle"
      BY <1>1, <1>7 DEF ReadDeploymentNotACK, MayStart, Goto, Inv, TypeOK
    <2>2. Pending(file) /\ actions[r] = <<>>
      BY <1>1, <1>2, <2>1 DEF Inv, SerialInv, FilePending, OthersIdle, Resting
    <2>3. Updates(r)'
      BY <1>1, <1>2, <1>4, <2>1, <2>2 DEF Updates, Pending, Short
    <2>4. ASSUME NEW e \in Deployment, outcome'[e] \in Finished, Kept(e)'
          PROVE  e \in acked' \cup unsaved' \/ e \in ToSet(file')
      BY <1>2, <1>5, <2>1, <2>2, <2>4, EmptyToSet DEF Kept
    <2>5. QED
      BY <1>1, <1>3, <1>6, <2>1, <2>3, <2>4, SerialByOne
  <1>8. CASE ResendAcked(r)
    <2>1. PICK d \in Deployment :
             /\ d \in ToSet(actions[r]) /\ acked' = acked \cup {d}
             /\ ToSet(actions'[r]) = ToSet(actions[r]) \ {d}
             /\ Distinct(actions'[r])
             /\ Len(actions'[r]) = Len(actions[r]) - 1
      BY <1>8, Answered
    <2>2. /\ pc'[r] = "drain" /\ pc[r] = "drain"
          /\ i'[r] = i[r] + 1 /\ j'[r] = j[r]
      BY <1>8 DEF ResendAcked, Draining, Inv, TypeOK
    <2>3. /\ i[r] + Len(actions[r]) <= 2 + j[r] /\ Pending(actions[r])
          /\ ToSet(file) \subseteq ToSet(actions[r]) \cup acked
      BY <1>1, <2>2 DEF Inv, SerialInv, Updates
    <2>4. outcome[d] \in Finished
      BY <2>1 DEF Inv, ResendInv, Resendable
    <2>5. Ledger'
      BY <1>2, <2>1, <2>4 DEF Inv, SerialInv, Ledger, Unreported, Finished
    <2>6. Pending(actions[r])'
      BY <1>2, <2>1, <2>3 DEF Pending, Distinct
    <2>7. Updates(r)'
      <3>1. i'[r] + Len(actions'[r]) <= 2 + j'[r]
        BY <1>4, <2>1, <2>2, <2>3
      <3>2. ToSet(file') \subseteq ToSet(actions'[r]) \cup acked'
        BY <1>2, <2>1, <2>3
      <3>3. QED
        BY <2>2, <2>6, <3>1, <3>2 DEF Updates
    <2>8. ASSUME NEW e \in Deployment, outcome'[e] \in Finished, Kept(e)'
          PROVE  e \in acked' \cup unsaved' \/ e \in ToSet(file') \/ e \in ToSet(actions'[r])
      BY <1>2, <1>5, <2>1, <2>8 DEF Kept
    <2>9. QED
      BY <1>1, <1>3, <1>6, <2>2, <2>5, <2>7, <2>8, SerialByOne
  <1>9. CASE ResendNotAcked(r) \/ DrainEnds(r)
    <2>1. /\ UNCHANGED <<acked, actions>> /\ pc[r] = "drain"
          /\ \/ pc'[r] = "create"
             \/ pc'[r] = "drain" /\ i'[r] = i[r] + 1 /\ j'[r] = j[r] + 1
      <3>1. CASE ResendNotAcked(r)
        BY <3>1 DEF ResendNotAcked, Draining, Inv, TypeOK
      <3>2. CASE DrainEnds(r)
        BY <1>1, <3>2 DEF DrainEnds, Goto, Inv, TypeOK
      <3>3. QED
        BY <1>9, <3>1, <3>2
    <2>2. /\ i[r] + Len(actions[r]) <= 2 + j[r] /\ Pending(actions[r])
          /\ ToSet(file) \subseteq ToSet(actions[r]) \cup acked
      BY <1>1, <2>1 DEF Inv, SerialInv, Updates
    <2>3. Pending(actions[r])'
      BY <1>2, <2>1, <2>2 DEF Pending
    <2>4. Updates(r)'
      <3>1. pc'[r] = "drain" => i'[r] + Len(actions'[r]) <= 2 + j'[r]
        BY <1>4, <2>1, <2>2
      <3>2. ToSet(file') \subseteq ToSet(actions'[r]) \cup acked'
        BY <1>2, <2>1, <2>2
      <3>3. QED
        BY <2>1, <2>3, <3>1, <3>2 DEF Updates
    <2>5. ASSUME NEW e \in Deployment, outcome'[e] \in Finished, Kept(e)'
          PROVE  e \in acked' \cup unsaved' \/ e \in ToSet(file') \/ e \in ToSet(actions'[r])
      BY <1>2, <1>5, <2>1, <2>5 DEF Kept
    <2>6. QED
      BY <1>1, <1>3, <1>6, <2>1, <2>4, <2>5, SerialByOne
  <1>10. QED
    BY <1>7, <1>8, <1>9

(* Nothing else has written the file that a goroutine truncated.           *)
LEMMA SavedWhole ==
    ASSUME Serial, Inv, NEW g \in Goroutine, Write(g)
    PROVE  /\ file' = actions[g] /\ ~corrupt' /\ pc'[g] = "idle"
           /\ actions'[g] = <<>> /\ file = <<>> /\ Pending(actions[g])
           /\ UNCHANGED damage
  <1>1. file = <<>> /\ ~corrupt /\ pc[g] = "write" /\ Pending(actions[g])
    BY DEF Write, Inv, SerialInv, Updates
  <1>2. ~Overwrites(g)
    BY <1>1 DEF Overwrites
  <1>3. QED
    BY <1>1, <1>2 DEF Write, Finish, Goto, Inv, TypeOK

LEMMA SerialSave ==
    ASSUME Serial, Inv, NEW g \in Goroutine, Create(g) \/ Write(g)
    PROVE  SerialInv'
  <1>1. OthersIdle(g) /\ UNCHANGED <<outcome, refused, acked, damage>>
    BY Others DEF Create, Write, Inv
  <1>2. OthersIdle(g)'
    BY <1>1, OthersUntouched DEF Inv, OthersIdle
  <1>3. Ledger'
    BY <1>1 DEF Inv, SerialInv, Ledger, Unreported
  <1>4. \A e \in Deployment :
           outcome[e] \in Finished /\ Kept(e) =>
              e \in acked \cup unsaved \/ e \in ToSet(file) \/ e \in ToSet(actions[g])
    BY <1>1, HeldByOne DEF Inv, SerialInv, NoResultLost
  <1>5. CASE Create(g)
    <2>1. /\ file' = <<>> /\ ~corrupt' /\ pc'[g] = "write" /\ UNCHANGED actions
          /\ ToSet(file) \subseteq ToSet(actions[g]) \cup acked
          /\ Pending(actions[g])
      BY <1>5 DEF Create, Goto, Inv, TypeOK, SerialInv, Updates
    <2>2. Pending(file)' /\ Distinct(file)'
      BY <2>1, EmptyToSet DEF Pending, Distinct
    <2>3. Reports(g)' /\ Updates(g)'
      BY <1>1, <2>1 DEF Reports, Updates, Pending
    <2>4. ASSUME NEW e \in Deployment, outcome'[e] \in Finished, Kept(e)'
          PROVE  e \in acked' \cup unsaved' \/ e \in ToSet(actions'[g])
      BY <1>1, <1>4, <2>1, <2>4 DEF Kept
    <2>5. QED
      BY <1>2, <1>3, <2>1, <2>2, <2>3, <2>4, SerialByOne
  <1>6. CASE Write(g)
    <2>1. /\ file' = actions[g] /\ ~corrupt' /\ pc'[g] = "idle"
          /\ actions'[g] = <<>> /\ file = <<>> /\ Pending(actions[g])
      BY <1>6, SavedWhole
    <2>2. /\ Pending(file)' /\ Distinct(file)'
          /\ Reports(g)' /\ Updates(g)'
      BY <1>1, <2>1 DEF Pending, Distinct, Reports, Updates
    <2>3. ASSUME NEW e \in Deployment, outcome'[e] \in Finished, Kept(e)'
          PROVE  e \in acked' \cup unsaved' \/ e \in ToSet(file')
      BY <1>1, <1>4, <2>1, <2>3, EmptyToSet DEF Kept
    <2>4. QED
      BY <1>2, <1>3, <2>1, <2>2, <2>3, SerialByOne
  <1>7. QED
    BY <1>5, <1>6

(* What nothing holds once a goroutine gave up was in its list.            *)
LEMMA Forsaking ==
    ASSUME Serial, Inv, NEW g \in Goroutine, Abandons(g)
    PROVE  /\ OthersIdle(g) /\ OthersIdle(g)'
           /\ pc'[g] = "idle" /\ actions'[g] = <<>>
           /\ UNCHANGED <<outcome, refused, acked>>
           /\ unsaved' = unsaved \cup Forsaken(g)
           /\ file' = file
           /\ \A d : d \in ToSet(file) \/ d \in ToSet(actions[g]) =>
                 d \in ToSet(file') \/ d \in acked \/ d \in Forsaken(g)
  <1>1. /\ pc[g] # "idle" /\ Finish(g)
        /\ UNCHANGED <<outcome, refused, acked>>
        /\ unsaved' = unsaved \cup Forsaken(g)
        /\ file' = file \/ (pc[g] = "write" /\ file' = <<>>)
    BY AbandonsEffect
  <1>2. OthersIdle(g)
    BY <1>1, Others DEF Inv
  <1>3. OthersIdle(g)'
    BY <1>2, OthersUntouched DEF Inv, OthersIdle
  <1>4. pc'[g] = "idle" /\ actions'[g] = <<>>
    BY <1>1 DEF Finish, Goto, Inv, TypeOK
  <1>5. file' = file
    BY <1>1 DEF Inv, SerialInv, Updates
  <1>6. QED
    BY <1>1, <1>2, <1>3, <1>4, <1>5 DEF Forsaken

LEMMA SerialAbandons ==
    ASSUME Serial, Inv, NEW g \in Goroutine, Abandons(g)
    PROVE  SerialInv'
  <1>1. /\ OthersIdle(g) /\ OthersIdle(g)'
        /\ pc'[g] = "idle" /\ actions'[g] = <<>>
        /\ UNCHANGED <<outcome, refused, acked>>
        /\ unsaved' = unsaved \cup Forsaken(g)
        /\ file' = file
        /\ \A d : d \in ToSet(file) \/ d \in ToSet(actions[g]) =>
              d \in ToSet(file') \/ d \in acked \/ d \in Forsaken(g)
    BY Forsaking
  <1>2. Ledger' /\ Distinct(file)'
    BY <1>1 DEF Inv, SerialInv, Ledger, Unreported, FilePending, Distinct
  <1>3. Reports(g)' /\ Updates(g)'
    BY <1>1 DEF Reports, Updates
  <1>4. ToSet(file) \cap acked \subseteq stale'
    <2>1. CASE CreateFails(g)
      BY <2>1 DEF CreateFails
    <2>2. CASE WriteFails(g)
      BY <2>2, EmptyToSet DEF WriteFails, Inv, SerialInv, Updates
    <2>3. CASE AppendFails(g) \/ AppendsToNone(g)
      <3>1. pc[g] = "read" /\ UNCHANGED stale
        BY <2>3 DEF AppendFails, AppendsToNone
      <3>2. Pending(file)
        BY <1>1, <3>1 DEF Inv, SerialInv, FilePending, OthersIdle
      <3>3. QED
        BY <3>1, <3>2 DEF Pending
    <2>4. QED
      BY <2>1, <2>2, <2>3 DEF Abandons
  <1>5. Pending(file)'
    BY <1>1, <1>2, <1>4 DEF Pending
  <1>6. ASSUME NEW d \in Deployment, outcome'[d] \in Finished, Kept(d)'
        PROVE  d \in acked' \cup unsaved' \/ d \in ToSet(file')
    BY <1>1, <1>6, HeldByOne DEF Inv, SerialInv, NoResultLost, Kept
  <1>7. QED
    BY <1>1, <1>2, <1>3, <1>5, <1>6, SerialByOne

LEMMA SerialInit == Init => SerialInv
  <1> SUFFICES ASSUME Init PROVE SerialInv
    OBVIOUS
  <1>1. /\ file = <<>> /\ acked = {}
        /\ \A g \in Goroutine : pc[g] = "idle" /\ actions[g] = <<>>
        /\ \A d \in Deployment : outcome[d] = "requested" /\ Unreported(d)
    BY DEF Init, Unreported
  <1>2. Pending(file) /\ Distinct(file)
    BY <1>1 DEF Pending, Distinct
  <1>3. NoResultLost
    BY <1>1 DEF NoResultLost, Finished
  <1>4. (\A h \in Handler : Reports(h)) /\ \A g \in Goroutine : Updates(g)
    BY <1>1, DistinctGoroutines DEF Reports, Updates
  <1>5. AloneAtWork /\ Resting /\ Ledger /\ FilePending
    BY <1>1, <1>2 DEF AloneAtWork, Resting, Ledger, FilePending
  <1>6. QED
    BY <1>1, <1>3, <1>4, <1>5 DEF SerialInv

LEMMA NoCrash == Serial /\ TypeOK => ~Crash
  BY DEF Serial, TypeOK, Crash

LEMMA SerialStep == Serial /\ Short /\ Inv /\ [Next]_vars => SerialInv'
  <1> SUFFICES ASSUME Serial, Short, Inv, [Next]_vars PROVE SerialInv'
    OBVIOUS
  <1>1. CASE UNCHANGED vars
    BY <1>1
    DEF vars, Inv, SerialInv, AloneAtWork, Resting, Ledger, Unreported,
        Reports, Updates, FilePending, Pending, Distinct, NoResultLost, Kept,
        Held
  <1>2. ASSUME NEW h \in Handler, Deploy(h) \/ Handle(h)
        PROVE  SerialInv'
    BY <1>2, DistinctGoroutines, SerialDeploy, SerialReport, SerialAppend,
       SerialSave, SerialAbandons
    DEF Handle, Save, Abandons
  <1>3. ASSUME NEW r \in JobRun, Drain(r)
        PROVE  SerialInv'
    BY <1>1, <1>3, DistinctGoroutines, SerialDrain, SerialSave, SerialAbandons
    DEF Drain, ReadFails, Save, Abandons
  <1>4. QED
    BY <1>1, <1>2, <1>3, NoCrash DEF Next, Inv

LEMMA InvCorrect == Serial /\ Spec /\ []Short => []Inv
  <1> SUFFICES ASSUME Serial PROVE Spec /\ []Short => []Inv
    OBVIOUS
  <1>1. Init => Inv
    BY TypeInit, ResendInit, SerialInit, DistinctGoroutines
    DEF Inv, Init, HoldsOne
  <1>2. Inv /\ Short /\ [Next]_vars => Inv'
    BY TypeStep, HoldsOneStep, ResendStep, SerialStep DEF Inv
  <1>3. QED
    BY <1>1, <1>2, PTL DEF Spec

(* While one thing is done at a time, nothing crashes and the file never   *)
(* holds more than two results, every result that the code keeps is        *)
(* acknowledged, or in the file, or held by the goroutine that will save   *)
(* it, or was dropped by an error of the file, however many requests and   *)
(* operations on the file fail.  Of three, the job may lose one.           *)
THEOREM NoResultLostCorrect == Serial /\ Spec /\ []Short => []NoResultLost
  <1>1. Inv => NoResultLost
    BY DEF Inv, SerialInv
  <1>2. QED
    BY InvCorrect, <1>1, PTL

(* In the same circumstances nothing is reported twice: between two uses   *)
(* of the file it holds no result that was acknowledged, but for those     *)
(* that a failing os.Create left there.                                    *)
THEOREM AckedLeavesFileCorrect == Serial /\ Spec /\ []Short => []AckedLeavesFile
  <1>1. Inv => AckedLeavesFile
    BY DEF Inv, SerialInv, FilePending, Pending, AckedLeavesFile, Active
  <1>2. QED
    BY InvCorrect, <1>1, PTL

-----------------------------------------------------------------------------
(* Two deployments, however often they fail, leave no more than that.      *)

TwoDeployments == \A a, b, c \in Deployment : a = b \/ b = c \/ a = c

LEMMA FewAreShort ==
    ASSUME TwoDeployments, NEW s \in Seq(Deployment), Distinct(s)
    PROVE  Len(s) <= 2
  <1>1. Len(s) \in Nat /\ DOMAIN s = 1 .. Len(s)
    BY LenProperties
  <1>2. SUFFICES ASSUME Len(s) >= 3 PROVE FALSE
    BY <1>1
  <1>3. 1 \in DOMAIN s /\ 2 \in DOMAIN s /\ 3 \in DOMAIN s
    BY <1>1, <1>2
  <1>4. s[1] \in Deployment /\ s[2] \in Deployment /\ s[3] \in Deployment
    BY <1>1, <1>3, ElementOfSeq
  <1>5. s[1] # s[2] /\ s[2] # s[3] /\ s[1] # s[3]
    BY <1>3 DEF Distinct
  <1>6. QED
    BY <1>4, <1>5 DEF TwoDeployments

(* Two deployments are few enough: the file never holds a third result, or *)
(* one of them twice, whatever fails.                                      *)
THEOREM TwoAreShort == TwoDeployments /\ Serial /\ Spec => []Short
  <1> SUFFICES ASSUME TwoDeployments, Serial PROVE Spec => []Short
    OBVIOUS
  <1>1. Inv => Short
    BY FewAreShort DEF Inv, TypeOK, SerialInv, FilePending, Short
  <1>2. Init => Inv
    BY TypeInit, ResendInit, SerialInit, DistinctGoroutines
    DEF Inv, Init, HoldsOne
  <1>3. Inv /\ [Next]_vars => Inv'
    BY <1>1, TypeStep, HoldsOneStep, ResendStep, SerialStep DEF Inv
  <1>4. QED
    BY <1>1, <1>2, <1>3, PTL DEF Spec

-----------------------------------------------------------------------------
(* What the console may expect: the safety part of Delivery.               *)

StatusOf(d) ==
    IF d \in acked THEN "delivered"
    ELSE IF d \notin refused THEN outcome[d]
    ELSE IF Held(d) THEN "waiting" ELSE "dropped"

Refines == [Promise!Next]_(Promise!promised)

SameStatus(d) == StatusOf(d)' = StatusOf(d)

LEMMA StatusMoves ==
    ASSUME NEW d \in Deployment, NEW to, StatusOf(d)' = to,
           \A e \in Deployment \ {d} : SameStatus(e)
    PROVE  status[d] = StatusOf(d) /\ status' = [status EXCEPT ![d] = to]
  BY DEF status, StatusOf, SameStatus

LEMMA StatusStays ==
    ASSUME \A e \in Deployment : SameStatus(e), UNCHANGED unsaved
    PROVE  Refines
  <1>1. status' = status
    BY DEF status, StatusOf, SameStatus
  <1>2. QED
    BY <1>1 DEF Refines, Promise!promised

(* A deployment whose outcome, reports and place the step leaves alone.    *)
LEMMA StatusKept ==
    ASSUME NEW e, outcome'[e] = outcome[e],
           e \in acked' <=> e \in acked, e \in refused' <=> e \in refused,
           e \in refused /\ e \notin acked => (Held(e)' <=> Held(e))
    PROVE  SameStatus(e)
  BY DEF SameStatus, StatusOf

LEMMA HeldByOneThen ==
    ASSUME NEW g \in Goroutine, OthersIdle(g)', NEW d
    PROVE  Held(d)' <=> d \in ToSet(file') \/ d \in ToSet(actions'[g])
  BY EmptyToSet DEF Held, OthersIdle

LEMMA RefinesDeploy ==
    ASSUME Serial, Inv, NEW h \in Handler, Deploy(h)
    PROVE  Refines
  <1>1. h \in Goroutine
    BY DistinctGoroutines
  <1>2. OthersIdle(h) /\ pc[h] = "idle" /\ actions[h] = <<>>
    BY <1>1, Others DEF Deploy, MayStart, Inv, SerialInv, Resting
  <1>3. OthersIdle(h)'
    BY <1>1, <1>2, OthersUntouched DEF Inv, OthersIdle
  <1>4. PICK d \in Deployment :
           /\ outcome[d] = "requested"
           /\ outcome' = [outcome EXCEPT ![d] = "running"]
           /\ actions' = [actions EXCEPT ![h] = <<d>>]
    BY DEF Deploy
  <1>5. /\ ToSet(actions'[h]) = {d} /\ ToSet(actions[h]) = {}
        /\ UNCHANGED <<file, refused, acked, unsaved>>
    BY <1>1, <1>2, <1>4, OneToSet, EmptyToSet DEF Deploy, Inv, TypeOK
  <1>6. /\ outcome'[d] = "running"
        /\ \A e \in Deployment \ {d} : outcome'[e] = outcome[e]
    BY <1>4 DEF Inv, TypeOK
  <1>7. Unreported(d)
    BY <1>4 DEF Inv, SerialInv, Ledger
  <1>8. \A e \in Deployment \ {d} : SameStatus(e)
    BY <1>1, <1>2, <1>3, <1>5, <1>6, HeldByOne, HeldByOneThen, StatusKept
  <1>9. StatusOf(d) = "requested" /\ StatusOf(d)' = "running"
    BY <1>4, <1>5, <1>6, <1>7 DEF StatusOf, Unreported
  <1>10. Promise!Start(d)
    BY <1>5, <1>8, <1>9, StatusMoves DEF Promise!Start, Promise!Move
  <1>11. QED
    BY <1>10 DEF Refines, Promise!Next

LEMMA RefinesReport ==
    ASSUME Serial, Inv, NEW h \in Handler,
           DeployEnds(h) \/ ResultAcked(h) \/ ResultNotAcked(h)
    PROVE  Refines
  <1>1. h \in Goroutine /\ pc[h] = "send"
    BY DistinctGoroutines DEF DeployEnds, ResultAcked, ResultNotAcked, Sending
  <1>2. PICK d \in Deployment : d = Result(h)
    BY <1>1, Reporting
  <1>3. /\ actions[h] = <<d>> /\ ToSet(actions[h]) = {d}
        /\ Unreported(d) /\ d \notin ToSet(file)
    BY <1>1, <1>2, Reporting
  <1>4. OthersIdle(h) /\ UNCHANGED <<file, unsaved>>
    BY <1>1, Others DEF Inv, DeployEnds, ResultAcked, ResultNotAcked
  <1>5. OthersIdle(h)'
    BY <1>1, <1>4, OthersUntouched DEF Inv, OthersIdle
  <1>6. StatusOf(d) = outcome[d]
    BY <1>3 DEF StatusOf, Unreported
  <1>7. ASSUME actions'[h] \in {actions[h], <<>>},
               \A e \in Deployment \ {d} :
                  /\ outcome'[e] = outcome[e]
                  /\ e \in acked' <=> e \in acked
                  /\ e \in refused' <=> e \in refused
        PROVE  \A e \in Deployment \ {d} : SameStatus(e)
    <2>1. ToSet(actions'[h]) \subseteq {d}
      BY <1>3, <1>7, EmptyToSet
    <2>2. QED
      BY <1>1, <1>3, <1>4, <1>5, <1>7, <2>1, HeldByOne, HeldByOneThen, StatusKept
  <1>8. CASE DeployEnds(h)
    <2>1. PICK o \in Finished : outcome' = [outcome EXCEPT ![d] = o]
      BY <1>2, <1>8, PackageManagerEnds DEF DeployEnds
    <2>2. /\ UNCHANGED <<refused, acked, actions>>
          /\ outcome[d] = "running" /\ outcome'[d] = o
          /\ \A e \in Deployment \ {d} : outcome'[e] = outcome[e]
      BY <1>2, <1>3, <1>8, <2>1 DEF DeployEnds, Inv, TypeOK
    <2>3. StatusOf(d)' = o
      BY <1>3, <2>2 DEF StatusOf, Unreported
    <2>4. /\ status[d] = "running" /\ o \in {"succeeded", "failed"}
          /\ status' = [status EXCEPT ![d] = o]
      BY <1>3, <1>6, <1>7, <2>2, <2>3, StatusMoves DEF Finished
    <2>5. Promise!End(d)
      BY <1>4, <2>4 DEF Promise!End, Promise!Move
    <2>6. QED
      BY <1>3, <2>5 DEF Refines, Promise!Next
  <1>9. CASE ResultAcked(h)
    <2>1. /\ UNCHANGED <<refused, outcome>> /\ acked' = acked \cup {d}
          /\ actions'[h] = <<>> /\ outcome[d] \in Finished
      BY <1>1, <1>2, <1>9 DEF ResultAcked, Sending, Finish, Goto, Inv, TypeOK
    <2>2. StatusOf(d)' = "delivered"
      BY <2>1 DEF StatusOf
    <2>3. status[d] \in Finished /\ status' = [status EXCEPT ![d] = "delivered"]
      BY <1>3, <1>6, <1>7, <2>1, <2>2, StatusMoves
    <2>4. Promise!Deliver(d)
      BY <1>4, <2>3 DEF Promise!Deliver, Promise!Move, Finished
    <2>5. QED
      BY <1>3, <2>4 DEF Refines, Promise!Next
  <1>10. CASE ResultNotAcked(h)
    <2>1. /\ UNCHANGED <<acked, outcome>> /\ refused' = refused \cup {d}
          /\ outcome[d] \in Finished
      BY <1>2, <1>10 DEF ResultNotAcked, Sending
    <2>2. CASE Kept(d)
      <3>1. actions'[h] = actions[h]
        BY <1>2, <1>10, <2>2 DEF ResultNotAcked
      <3>2. Held(d)'
        BY <1>1, <1>3, <1>5, <3>1, HeldByOneThen
      <3>3. StatusOf(d)' = "waiting"
        BY <1>3, <2>1, <3>2 DEF StatusOf, Unreported
      <3>4. /\ status[d] = outcome[d]
            /\ status' = [status EXCEPT ![d] = "waiting"]
        BY <1>3, <1>6, <1>7, <2>1, <3>1, <3>3, StatusMoves
      <3>5. outcome[d] = "succeeded" \/ (outcome[d] = "failed" /\ d \in Insistent)
        BY <1>3, <2>1, <2>2 DEF Kept, Finished, Insistent
      <3>6. Promise!Wait(d)
        BY <1>4, <3>4, <3>5 DEF Promise!Wait, Promise!Move
      <3>7. QED
        BY <1>3, <3>6 DEF Refines, Promise!Next
    <2>3. CASE ~Kept(d)
      <3>1. actions'[h] = <<>>
        BY <1>1, <1>2, <1>10, <2>3 DEF ResultNotAcked, Finish, Goto, Inv, TypeOK
      <3>2. ~Held(d)'
        BY <1>1, <1>3, <1>4, <1>5, <3>1, EmptyToSet, HeldByOneThen
      <3>3. StatusOf(d)' = "dropped"
        BY <1>3, <2>1, <3>2 DEF StatusOf, Unreported
      <3>4. /\ status[d] = outcome[d]
            /\ status' = [status EXCEPT ![d] = "dropped"]
        BY <1>3, <1>6, <1>7, <2>1, <3>1, <3>3, StatusMoves
      <3>5. outcome[d] = "failed" /\ d \notin Insistent
        BY <1>3, <2>1, <2>3 DEF Kept, Finished, Insistent
      <3>6. Promise!Drop(d)
        BY <1>4, <3>4, <3>5 DEF Promise!Drop, Promise!Move
      <3>7. QED
        BY <1>3, <3>6 DEF Refines, Promise!Next
    <2>4. QED
      BY <2>2, <2>3
  <1>11. QED
    BY <1>8, <1>9, <1>10

LEMMA RefinesAppend ==
    ASSUME Serial, Inv, NEW h \in Handler, ReadToAppend(h)
    PROVE  Refines
  <1>1. h \in Goroutine
    BY DistinctGoroutines
  <1>2. /\ OthersIdle(h) /\ OthersIdle(h)'
        /\ ToSet(actions'[h]) = ToSet(file) \cup ToSet(actions[h])
        /\ UNCHANGED <<file, outcome, refused, acked, damage>>
    BY Appending
  <1>3. \A e \in Deployment : SameStatus(e)
    BY <1>1, <1>2, HeldByOne, HeldByOneThen, StatusKept
  <1>4. QED
    BY <1>2, <1>3, StatusStays

LEMMA RefinesDrain ==
    ASSUME Serial, Inv, NEW r \in JobRun,
           \/ ReadDeploymentNotACK(r) \/ ResendAcked(r) \/ ResendNotAcked(r)
           \/ DrainEnds(r)
    PROVE  Refines
  <1>1. r \in Goroutine
    BY DistinctGoroutines
  <1>2. OthersIdle(r) /\ UNCHANGED <<file, outcome, refused, unsaved>>
    BY <1>1, Others
    DEF ReadDeploymentNotACK, ResendAcked, ResendNotAcked, DrainEnds, Draining,
        Inv
  <1>3. OthersIdle(r)'
    BY <1>1, <1>2, OthersUntouched DEF Inv, OthersIdle
  <1>4. CASE ResendAcked(r)
    <2>1. PICK d \in Deployment :
             /\ d \in ToSet(actions[r]) /\ acked' = acked \cup {d}
             /\ ToSet(actions'[r]) = ToSet(actions[r]) \ {d}
      BY <1>4, Answered
    <2>2. \A e \in Deployment \ {d} : SameStatus(e)
      BY <1>1, <1>2, <1>3, <2>1, HeldByOne, HeldByOneThen, StatusKept
    <2>3. StatusOf(d)' = "delivered"
      BY <2>1 DEF StatusOf
    <2>4. CASE d \in acked
      <3>1. SameStatus(d)
        BY <2>3, <2>4 DEF SameStatus, StatusOf
      <3>2. QED
        BY <1>2, <2>2, <3>1, StatusStays
    <2>5. CASE d \notin acked
      <3>1. StatusOf(d) = "waiting"
        BY <1>1, <2>1, <2>5 DEF StatusOf, Held, Inv, ResendInv, Resendable
      <3>2. Promise!Deliver(d)
        BY <1>2, <2>2, <2>3, <3>1, StatusMoves DEF Promise!Deliver, Promise!Move
      <3>3. QED
        BY <3>2 DEF Refines, Promise!Next
    <2>6. QED
      BY <2>4, <2>5
  <1>5. CASE ~ResendAcked(r)
    <2>1. UNCHANGED acked
      BY <1>5 DEF ReadDeploymentNotACK, ResendNotAcked, DrainEnds
    <2>2. actions'[r] = actions[r] \/ (actions'[r] = file /\ actions[r] = <<>>)
      <3>1. CASE ReadDeploymentNotACK(r)
        BY <1>1, <3>1
        DEF ReadDeploymentNotACK, MayStart, Inv, TypeOK, SerialInv, Resting
      <3>2. CASE ~ReadDeploymentNotACK(r)
        BY <1>5, <3>2 DEF ResendNotAcked, DrainEnds
      <3>3. QED
        BY <3>1, <3>2
    <2>3. \A e \in Deployment : SameStatus(e)
      BY <1>1, <1>2, <1>3, <2>1, <2>2, EmptyToSet, HeldByOne, HeldByOneThen,
         StatusKept
    <2>4. QED
      BY <1>2, <2>3, StatusStays
  <1>6. QED
    BY <1>4, <1>5

LEMMA RefinesSave ==
    ASSUME Serial, Inv, NEW g \in Goroutine, Create(g) \/ Write(g)
    PROVE  Refines
  <1>1. OthersIdle(g) /\ UNCHANGED <<outcome, refused, acked, damage>>
    BY Others DEF Create, Write, Inv
  <1>2. OthersIdle(g)'
    BY <1>1, OthersUntouched DEF Inv, OthersIdle
  <1>3. ASSUME NEW e \in Deployment, e \notin acked
        PROVE  Held(e)' <=> Held(e)
    <2>1. CASE Create(g)
      <3>1. /\ file' = <<>> /\ actions'[g] = actions[g]
            /\ ToSet(file) \subseteq ToSet(actions[g]) \cup acked
        BY <2>1 DEF Create, Inv, SerialInv, Updates
      <3>2. QED
        BY <1>1, <1>2, <1>3, <3>1, EmptyToSet, HeldByOne, HeldByOneThen
    <2>2. CASE Write(g)
      <3>1. file' = actions[g] /\ actions'[g] = <<>> /\ file = <<>>
        BY <2>2, SavedWhole
      <3>2. QED
        BY <1>1, <1>2, <3>1, EmptyToSet, HeldByOne, HeldByOneThen
    <2>3. QED
      BY <2>1, <2>2
  <1>4. \A e \in Deployment : SameStatus(e)
    BY <1>1, <1>3, StatusKept
  <1>5. QED
    BY <1>1, <1>4, StatusStays

(* What a goroutine that gives up was to save, and nothing holds, waited.  *)
LEMMA RefinesAbandons ==
    ASSUME Serial, Inv, NEW g \in Goroutine, Abandons(g)
    PROVE  Refines
  <1>1. /\ OthersIdle(g) /\ OthersIdle(g)'
        /\ actions'[g] = <<>>
        /\ UNCHANGED <<outcome, refused, acked>>
        /\ unsaved' = unsaved \cup Forsaken(g)
        /\ file' = file
    BY Forsaking
  <1>2. ToSet(actions[g]) \subseteq Deployment
    BY ToSetType DEF Inv, TypeOK
  <1>3. ASSUME NEW d \in Forsaken(g)
        PROVE  d \in Deployment /\ StatusOf(d) = "waiting"
                                /\ StatusOf(d)' = "dropped"
    <2>1. d \in ToSet(actions[g]) /\ d \notin ToSet(file') /\ d \notin acked
      BY DEF Forsaken
    <2>2. g \in JobRun \/ Saving(g)
      BY DEF Abandons, CreateFails, WriteFails, AppendFails, AppendsToNone,
             Saving
    <2>3. d \in refused
      BY <2>1, <2>2 DEF Inv, ResendInv, Resendable, Goroutine
    <2>4. Held(d) /\ ~Held(d)'
      BY <1>1, <2>1, EmptyToSet, HeldByOneThen DEF Held
    <2>5. QED
      BY <1>1, <1>2, <2>1, <2>3, <2>4 DEF StatusOf
  <1>4. ASSUME NEW e \in Deployment, e \notin Forsaken(g)
        PROVE  SameStatus(e)
    <2>1. e \notin acked => (Held(e)' <=> Held(e))
      BY <1>1, <1>4, EmptyToSet, HeldByOne, HeldByOneThen DEF Forsaken
    <2>2. QED
      BY <1>1, <2>1, StatusKept
  <1>5. Forsaken(g) \subseteq Deployment
    BY <1>3
  <1>6. \A d \in Forsaken(g) : status[d] = "waiting"
    BY <1>3 DEF status, StatusOf
  <1>7. status' = [d \in Deployment |->
                      IF d \in Forsaken(g) THEN "dropped" ELSE status[d]]
    BY <1>3, <1>4 DEF status, StatusOf, SameStatus
  <1>8. Promise!Lose(Forsaken(g))
    BY <1>1, <1>6, <1>7 DEF Promise!Lose
  <1>9. QED
    BY <1>5, <1>8 DEF Refines, Promise!Next

LEMMA RefinesStep == Serial /\ Inv /\ [Next]_vars => Refines
  <1> SUFFICES ASSUME Serial, Inv, [Next]_vars PROVE Refines
    OBVIOUS
  <1>1. CASE UNCHANGED vars
    BY <1>1, StatusKept, StatusStays DEF vars, Held
  <1>2. ASSUME NEW h \in Handler, Deploy(h) \/ Handle(h)
        PROVE  Refines
    BY <1>2, DistinctGoroutines, RefinesDeploy, RefinesReport, RefinesAppend,
       RefinesSave, RefinesAbandons
    DEF Handle, Save, Abandons
  <1>3. ASSUME NEW r \in JobRun, Drain(r)
        PROVE  Refines
    BY <1>1, <1>3, DistinctGoroutines, RefinesDrain, RefinesSave, RefinesAbandons
    DEF Drain, ReadFails, Save, Abandons
  <1>4. QED
    BY <1>1, <1>2, <1>3, NoCrash DEF Next, Inv

LEMMA RefinesInit == Init => Promise!Init
  BY DEF Init, Promise!Init, status

(* The handlers, the file and the job behave as Delivery says: a result is *)
(* delivered once, waits if it is refused, and is only dropped if it is a  *)
(* failure that the console does not insist on, or by an error of the file *)
(* that was to keep it.                                                    *)
THEOREM DeliversSafely ==
    Serial /\ Spec /\ []Short =>
        Promise!Init /\ [][Promise!Next]_(Promise!promised)
  <1> SUFFICES ASSUME Serial
               PROVE  Spec /\ []Short =>
                         Promise!Init /\ [][Promise!Next]_(Promise!promised)
    OBVIOUS
  <1>1. Inv /\ [Next]_vars => [Promise!Next]_(Promise!promised)
    BY RefinesStep DEF Refines
  <1>2. QED
    BY RefinesInit, InvCorrect, <1>1, PTL DEF Spec

=============================================================================
