----------------------------- MODULE MCProfiles -----------------------------
(* Instances of Profiles: two profiles and up to seven tasks.               *)
EXTENDS Profiles, TLC

CONSTANTS p1, p2, job, run, one, inst, conf, keep, play1, play2, vpn, reg

MCProfile == {p1, p2}

MCTask == {inst, conf, keep, play1, play2, vpn, reg}

\* What a task is; the two NetBird tasks are not resources.
MCResource == (inst :> "package") @@ (conf :> "everyScript")
              @@ (keep :> "latestPackage")
              @@ (play1 :> "playbook") @@ (play2 :> "playbook")
              @@ (vpn :> "registry") @@ (reg :> "registry")

Windows == {"windows"}

Unix == {"unix"}

EveryPlatform == {"windows", "unix"}

\* Windows with overlaps: p1 holds a package, p2 one that is kept updated.
\* Unix: two playbooks.
OneEach == [x \in Platforms |->
              IF x = "unix" THEN (p1 :> <<play1>>) @@ (p2 :> <<play2>>)
                            ELSE (p1 :> <<inst>>) @@ (p2 :> <<keep>>)]

NoNetBird == [p \in MCProfile |-> <<>>]

\* In sequence: on Windows p1 holds the package and the script, p2 a package
\* that is kept updated; on unix p2 is only NetBird's.  p1 also installs
\* NetBird, which p2 registers.
Mixed == [x \in Platforms |->
            IF x = "unix" THEN (p1 :> <<play1>>) @@ (p2 :> <<>>)
                          ELSE (p1 :> <<inst, conf>>) @@ (p2 :> <<keep>>)]

MixedNetBird == (p1 :> <<vpn>>) @@ (p2 :> <<reg>>)

\* The job is answered with both profiles, agent.runprofile with one.
TwoActors == {job, run}

TwoKinds == (job :> "job") @@ (run :> "runProfile")

TwoResponses == (job :> {<<p1, p2>>}) @@ (run :> {<<p1>>})

ThreeActors == {job, run, one}

ThreeKinds == (job :> "job") @@ (run :> "runProfile") @@ (one :> "runTask")

ThreeResponses == (job :> {<<p1, p2>>}) @@ (run :> {<<p1>>, <<p2>>})
                  @@ (one :> {<<p1>>})

============================================================================
