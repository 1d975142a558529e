------------------------------ MODULE Refresh ------------------------------
(* The accepted-source base refresh: ci/base-refresh.py as the jobs of        *)
(* .github/workflows/base-refresh.yml call it. A run resolves the upstream    *)
(* base once, builds both profiles, validates each in a job without           *)
(* credentials and publishes each from a third job that only reads data.      *)
(* The concurrency group admits one run at a time; its jobs interleave, any   *)
(* step may fail, and a run may be repeated as a whole or from its failures.  *)
EXTENDS Integers, Sequences, FiniteSetsExt

CONSTANTS
  Bases,          \* upstream releases: version and kernel, each a number as
                  \* base_version and kernel_version order them
  BadKernel,      \* a kernel release kernel_version does not parse
  Policies,       \* sequence: the policy file after each commit of main
  Pins,           \* Pins[s]: native source pinned in accepted source s
  NoImage, NoTag, NoRun, NoBase,
  MaxRuns,        \* bound on workflow runs
  MaxAttempts,    \* bound on the attempts of all runs together
  Faults,         \* kinds of failure that may happen
  MaxFaults       \* bound on their number

ASSUME RefreshAssumption ==
  /\ Bases \subseteq [version : Nat, kernel : Nat] /\ BadKernel \in Nat
  /\ \A i \in 1..Len(Policies) :
       Policies[i] \in [minVersion : Nat, minKernel : Nat \ {BadKernel},
                        source : DOMAIN Pins, native : Nat]
  /\ Policies \in Seq(Range(Policies)) /\ Policies # <<>> /\ \A s \in DOMAIN Pins : Pins[s] \in Nat
  /\ MaxRuns \in Nat \ {0, 1} /\ MaxAttempts \in Nat /\ MaxFaults \in Nat

VARIABLES
  main,           \* the commit main is at: Policies[main] is the reviewed policy
  runs,           \* runs[n]: the workflow run with number n
  active,         \* the run that holds the concurrency group, 0 for none
  tags,           \* tags[c]: the image tag c of the registry names
  signed,         \* images with a signature of the repository key
  attested,       \* refresh provenance in the registry: image and predicate
  faults,         \* failures so far
  clean           \* history: nothing disturbed the active run's attempt

vars == <<main, runs, active, tags, signed, attested, faults, clean>>

---------------------------------------------------------------------------
(* The policy's constant part, and the data of one run.                       *)

Profiles == {"legacy", "system"}
(* Mutant: the alias is written before the tag that leads. *)
AliasFirst == [legacy |-> <<"latest", "stable">>, system |-> <<"snitchwatch-system">>]
Channels == [legacy |-> <<"stable", "latest">>, system |-> <<"snitchwatch-system">>]
Tags == {"stable", "latest", "snitchwatch-system"}
Lead(p) == Channels[p][1]

Numbers == 1..MaxRuns
Versions == {b.version : b \in Bases}
Kernels == {b.kernel : b \in Bases}
Natives == {Policies[i].native : i \in 1..Len(Policies)} \union {Pins[s] : s \in DOMAIN Pins} \union {0}

(* An image is its content: digests are content addresses. trust says the     *)
(* installed key, registry and signature policy are the control commit's.     *)
Image(base, p, native, trust) ==
  [version |-> base.version, kernel |-> base.kernel, profile |-> p,
   native |-> native, trust |-> trust]

Images ==
  [version : Versions \union {0}, kernel : Kernels \union {BadKernel},
   profile : Profiles, native : Natives, trust : BOOLEAN]

(* Signed release digests without refresh provenance: the one the policy      *)
(* names as bootstrap, and any later promotion.                               *)
Bootstrap == [version |-> 0, kernel |-> BadKernel, profile |-> "system", native |-> 0, trust |-> TRUE]
Later == [Bootstrap EXCEPT !.native = Policies[1].native]
Promoted == {Bootstrap, Later}

Policy(n) == Policies[runs[n].control]

(* installed_profile: what podman cp reads out of an image. Only the system   *)
(* profile has native manifests.                                              *)
Installed(image) ==
  [profile |-> image.profile, trust |-> image.trust,
   native |-> IF image.profile = "system" THEN image.native ELSE 0]

(* evidence: what the provenance of this run and attempt has to say.          *)
Evidence(n, p, image, kernel) ==
  [run |-> n, attempt |-> runs[n].attempt, control |-> runs[n].control,
   policy |-> Policy(n), profile |-> p, base |-> runs[n].base,
   kernel |-> kernel, image |-> image]

AboveFloor(n, kernel) ==
  /\ runs[n].base.version >= Policy(n).minVersion
  /\ kernel # BadKernel
  /\ kernel >= Policy(n).minKernel

(* An artifact: the image, the RPM list (with the SPDX document derived from  *)
(* it, of which only the kernel matters), installed.json and the provenance.  *)
Artifact(n, p, image, kernel, installed) ==
  [image |-> image, kernel |-> kernel, installed |-> installed,
   proof |-> Evidence(n, p, image, kernel)]

NoArtifacts == [p \in Profiles |-> NoImage]

---------------------------------------------------------------------------
(* The checks.                                                                *)

(* Mutant: the provenance is taken as it is. *)
AnyProof(n, p, a) ==
  /\ AboveFloor(n, a.kernel)
  /\ a.installed.profile = p
  /\ a.installed.trust
  /\ p = "system" => a.installed.native = Policy(n).native

(* validate without execute: the artifact is consistent with itself, with the *)
(* policy and with this run and attempt.                                      *)
Consistent(n, p, a) ==
  /\ AboveFloor(n, a.kernel)
  /\ a.installed.profile = p
  /\ a.installed.trust
  /\ p = "system" => a.installed.native = Policy(n).native
  /\ a.proof = Evidence(n, p, a.image, a.kernel)

(* Mutant: the RPM inventory of the image is not compared. *)
NoInventory(a) == a.installed = Installed(a.image)

(* validate with execute: what the artifact says is what the image holds.     *)
Executed(a) == a.installed = Installed(a.image) /\ a.kernel = a.image.kernel

(* attestations: among all verified predicates of the digest is this one.     *)
Attested(a) ==
  /\ a.image \in signed
  /\ \E x \in attested : x.image = a.image /\ x.proof = a.proof

(* Mutants: the kernel is not compared; an equal version is refused. *)
VersionOnly(proof, previous) ==
  previous.profile = proof.profile /\ proof.base.version >= previous.base.version
Strict(proof, previous) ==
  /\ previous.profile = proof.profile
  /\ proof.base.version > previous.base.version
  /\ proof.kernel > previous.kernel

(* monotonic: no downgrade of Bazzite version or kernel. Its identity checks  *)
(* leave the profile: every attestation here is one of this workflow.         *)
Monotonic(proof, previous) ==
  /\ previous.profile = proof.profile
  /\ proof.base.version >= previous.base.version
  /\ proof.kernel >= previous.kernel

(* bootstrap_failure: run 1 ended in its first attempt without reaching a     *)
(* publisher. A job graph that stopped before a publisher skips it.           *)
Skipped == {"resolve-failed", "build-failed", "built", "validate-failed"}
RecoveryEvidence ==
  /\ runs[1] # NoRun
  /\ runs[1].attempt = 1
  /\ active # 1
  /\ \A p \in Profiles : runs[1].jobs[p] \in Skipped

(* Mutants: a repeated run 2 may create the tag; any signed release will do.  *)
AnyAttempt(n, p, proof) ==
  LET current == tags[Lead(p)]
      previous == {x.proof : x \in {y \in attested : y.image = current}}
  IN IF current = NoTag
       THEN p = "legacy" /\ n = 2 /\ RecoveryEvidence
       ELSE /\ current \in signed
            /\ \/ p = "system" /\ current = Bootstrap
               \/ previous # {} /\ \A q \in previous : Monotonic(proof, q)
AnySigned(n, p, proof) ==
  LET current == tags[Lead(p)]
  IN IF current = NoTag
       THEN p = "legacy" /\ n = 2 /\ runs[n].attempt = 1 /\ RecoveryEvidence
       ELSE /\ current \in signed
            /\ \A x \in attested : x.image = current => Monotonic(proof, x.proof)

(* baseline: the leading tag is missing in the one reviewed situation, or     *)
(* names the bootstrap digest, or has provenance and none of it is newer.     *)
Baseline(n, p, proof) ==
  LET current == tags[Lead(p)]
      previous == {x.proof : x \in {y \in attested : y.image = current}}
  IN IF current = NoTag
       THEN /\ p = "legacy"
            /\ n = 2 /\ runs[n].attempt = 1
            /\ RecoveryEvidence
       ELSE /\ current \in signed
            /\ \/ p = "system" /\ current = Bootstrap
               \/ /\ previous # {}
                  /\ \A q \in previous : Monotonic(proof, q)

(* fresh: main still has the policy this run was dispatched with.             *)
Fresh(n) == Policy(n) = Policies[main]

---------------------------------------------------------------------------
(* Failures.                                                                  *)

Fault(kind) ==
  /\ kind \in Faults
  /\ faults < MaxFaults
  /\ faults' = faults + 1
  /\ clean' = FALSE

Terminal == {"done", "resolve-failed", "build-failed", "validate-failed", "publish-failed"}
(* Mutant: the publisher's failure is not told apart. *)
JustFailed(label) ==
  CASE label = "resolve" -> "resolve-failed"
    [] label = "build" -> "build-failed"
    [] label = "built" -> "validate-failed"
    [] OTHER -> "failed"

FailedAt(label) ==
  CASE label = "resolve" -> "resolve-failed"
    [] label = "build" -> "build-failed"
    [] label = "built" -> "validate-failed"
    [] OTHER -> "publish-failed"

Ended(n) ==
  \A p \in Profiles :
    \/ runs[n].jobs[p] \in Terminal
    \/ runs[n].jobs[p] = "built" /\ \E q \in Profiles : runs[n].jobs[q] = "build-failed"

(* needs: build. Both jobs of the matrix have to succeed.                     *)
MatrixBuilt(n) == \A q \in Profiles : runs[n].jobs[q] \notin {"build", "build-failed"}

At(n, p, label) == active = n /\ runs[n].jobs[p] = label
Goto(n, p, label) == runs' = [runs EXCEPT ![n].jobs[p] = label]
Refuse(n, p) == Goto(n, p, FailedAt(runs[n].jobs[p]))

---------------------------------------------------------------------------
(* The life of a run.                                                         *)

(* The group keeps one run active and at most one queued. A run queued behind *)
(* an active one touches nothing, so runs join the queue when the group is    *)
(* free; main may still move before they start.                               *)
Queued(n) == runs[n] # NoRun /\ ~Ended(n)
GroupFree == active = 0 /\ \A k \in Numbers : ~Queued(k)

Attempts == MapThenSumSet(LAMBDA n : IF runs[n] = NoRun THEN 0 ELSE runs[n].attempt, Numbers)

(* A run before its first job: nothing of an earlier attempt is left.         *)
Beginning(control, attempt) ==
  [control |-> control, attempt |-> attempt, base |-> NoBase,
   jobs |-> [p \in Profiles |-> "resolve"], moved |-> [p \in Profiles |-> 0],
   artifact |-> NoArtifacts, validated |-> NoArtifacts]

(* The schedule or root dispatches a run on main's head.                      *)
Dispatch(n) ==
  /\ GroupFree
  /\ runs[n] = NoRun /\ Attempts < MaxAttempts
  /\ \A k \in 1..(n - 1) : runs[k] # NoRun
  /\ runs' = [runs EXCEPT ![n] = Beginning(main, 1)]
  /\ UNCHANGED <<main, active, tags, signed, attested, faults, clean>>

Start(n) ==
  /\ active = 0 /\ Queued(n)
  /\ active' = n
  /\ clean' = TRUE
  /\ UNCHANGED <<main, runs, tags, signed, attested, faults>>

End(n) ==
  /\ active = n /\ Ended(n)
  /\ active' = 0
  /\ UNCHANGED <<main, runs, tags, signed, attested, faults, clean>>

(* Re-run all jobs: the same commit, a new attempt, resolve included.         *)
Rerun(n) ==
  /\ GroupFree
  /\ runs[n] # NoRun /\ Attempts < MaxAttempts
  /\ runs' = [runs EXCEPT ![n] = Beginning(runs[n].control, runs[n].attempt + 1)]
  /\ UNCHANGED <<main, active, tags, signed, attested, faults, clean>>

(* Re-run failed jobs: what succeeded keeps its outputs and artifacts.        *)
RerunFailed(n) ==
  LET again(label) == CASE label = "build-failed" -> "build"
                        [] label = "validate-failed" -> "built"
                        [] label = "publish-failed" -> "revalidate"
                        [] OTHER -> label
  IN /\ GroupFree
     /\ runs[n] # NoRun /\ Attempts < MaxAttempts
     /\ \E p \in Profiles : runs[n].jobs[p] \in Terminal \ {"done", "resolve-failed"}
     /\ runs' = [runs EXCEPT ![n] =
          [runs[n] EXCEPT !.attempt = runs[n].attempt + 1,
                          !.jobs = [p \in Profiles |-> again(runs[n].jobs[p])],
                          !.moved = [p \in Profiles |->
                                      IF runs[n].jobs[p] = "done" THEN runs[n].moved[p] ELSE 0]]]
     /\ UNCHANGED <<main, active, tags, signed, attested, faults, clean>>

(* resolve: upstream's stable tag is read once; it may name any release.      *)
Resolve(n) ==
  /\ \A p \in Profiles : At(n, p, "resolve")
  /\ \E base \in Bases :
       runs' = [runs EXCEPT ![n].base = base,
                            ![n].jobs = [p \in Profiles |->
                                IF base.version >= Policy(n).minVersion
                                  THEN "build" ELSE "resolve-failed"]]
  /\ UNCHANGED <<main, active, tags, signed, attested, faults, clean>>

ResolveFails(n) ==
  /\ \A p \in Profiles : At(n, p, "resolve")
  /\ Fault("fail")
  /\ runs' = [runs EXCEPT ![n].jobs = [p \in Profiles |-> "resolve-failed"]]
  /\ UNCHANGED <<main, active, tags, signed, attested>>

---------------------------------------------------------------------------
(* The build job: source, the image build, collect and the upload.            *)

HonestImage(n, p) == Image(runs[n].base, p, Pins[Policy(n).source], TRUE)

Collected(n, p) ==
  LET image == HonestImage(n, p)
  IN Artifact(n, p, image, image.kernel, Installed(image))

Upload(n, p, a) ==
  runs' = [runs EXCEPT ![n].jobs[p] = "built", ![n].artifact[p] = a]

Build(n, p) ==
  /\ At(n, p, "build")
  /\ IF Pins[Policy(n).source] = Policy(n).native /\ AboveFloor(n, runs[n].base.kernel)
       THEN Upload(n, p, Collected(n, p))
       ELSE Refuse(n, p)
  /\ UNCHANGED <<main, active, tags, signed, attested, faults, clean>>

(* Images a build that went wrong may leave: one aspect is not what the       *)
(* evidence beside it says.                                                   *)
Wrong(image) ==
  {[image EXCEPT !.kernel = k] : k \in Kernels \ {image.kernel, BadKernel}}
    \union {[image EXCEPT !.profile = p] : p \in Profiles \ {image.profile}}
    \union {[image EXCEPT !.native = 0], [image EXCEPT !.trust = FALSE]}

Claims(n, p) ==
  LET honest == Collected(n, p)
  IN {Artifact(n, p, image, honest.kernel, honest.installed) : image \in Wrong(honest.image)}

BuildMisreports(n, p) ==
  /\ At(n, p, "build")
  /\ Fault("forge")
  /\ \E a \in Claims(n, p) : Upload(n, p, a)
  /\ UNCHANGED <<main, active, tags, signed, attested>>

(* validate-*: needs both builds of the matrix.                               *)
Validate(n, p) ==
  /\ At(n, p, "built")
  /\ MatrixBuilt(n)
  /\ LET a == runs[n].artifact[p]
     IN IF Consistent(n, p, a) /\ Executed(a)
          THEN runs' = [runs EXCEPT ![n].jobs[p] = "revalidate", ![n].validated[p] = a]
          ELSE Refuse(n, p)
  /\ UNCHANGED <<main, active, tags, signed, attested, faults, clean>>

(* The artifacts of all runs.                                                 *)
Stored == {runs[k].artifact[q] : k \in {i \in Numbers : runs[i] # NoRun}, q \in Profiles}

(* The artifact store hands out other bytes than were uploaded: those of the  *)
(* other profile, of another run, or of a build that misreports.              *)
Swap(n, p) ==
  /\ active = n
  /\ runs[n].jobs[p] \in {"built", "revalidate"}
  /\ Fault("swap")
  /\ \E a \in Claims(n, p) \union Stored :
       /\ a # NoImage
       /\ a # runs[n].artifact[p]
       /\ runs' = [runs EXCEPT ![n].artifact[p] = a]
  /\ UNCHANGED <<main, active, tags, signed, attested>>

---------------------------------------------------------------------------
(* publish-*: from here on the job holds the artifact it revalidated, which   *)
(* is validated[p].                                                           *)

Product(n, p) == runs[n].validated[p]

(* revalidate, then the digest is staged under a tag of its own and signed.   *)
Sign(n, p) ==
  /\ At(n, p, "revalidate")
  /\ LET a == runs[n].artifact[p]
     IN IF Consistent(n, p, a) /\ a = Product(n, p)
          THEN Goto(n, p, "attest") /\ signed' = signed \union {a.image}
          ELSE Refuse(n, p) /\ UNCHANGED signed
  /\ UNCHANGED <<main, active, tags, attested, faults, clean>>

Attest(n, p) ==
  /\ At(n, p, "attest")
  /\ attested' = attested \union {[image |-> Product(n, p).image, proof |-> Product(n, p).proof]}
  /\ Goto(n, p, "baseline")
  /\ UNCHANGED <<main, active, tags, signed, faults, clean>>

(* The last reads before the tags: the signed predicates, then the baseline.  *)
CheckBaseline(n, p) ==
  /\ At(n, p, "baseline")
  /\ IF Attested(Product(n, p)) /\ Baseline(n, p, Product(n, p).proof)
       THEN Goto(n, p, "fresh")
       ELSE Refuse(n, p)
  /\ UNCHANGED <<main, active, tags, signed, attested, faults, clean>>

CheckFresh(n, p) ==
  /\ At(n, p, "fresh")
  /\ IF Fresh(n) THEN Goto(n, p, "move") ELSE Refuse(n, p)
  /\ UNCHANGED <<main, active, tags, signed, attested, faults, clean>>

(* The tags of the channel in order, each compared after it was written.      *)
NextTag(n, p) == Channels[p][runs[n].moved[p] + 1]

Move(n, p) ==
  /\ At(n, p, "move")
  /\ tags' = [tags EXCEPT ![NextTag(n, p)] = Product(n, p).image]
  /\ runs' = [runs EXCEPT ![n].moved[p] = @ + 1,
                          ![n].jobs[p] = IF runs[n].moved[p] + 1 = Len(Channels[p])
                                           THEN "done" ELSE "move"]
  /\ UNCHANGED <<main, active, signed, attested, faults, clean>>

(* The registry took the write and the answer was lost.                       *)
MoveLost(n, p) ==
  /\ At(n, p, "move")
  /\ Fault("lost")
  /\ tags' = [tags EXCEPT ![NextTag(n, p)] = Product(n, p).image]
  /\ Goto(n, p, "publish-failed")
  /\ UNCHANGED <<main, active, signed, attested>>

(* Any other step of a job fails or is cancelled without an effect.           *)
JobFails(n, p) ==
  /\ active = n
  /\ runs[n].jobs[p] \notin Terminal \union {"resolve"}
  /\ runs[n].jobs[p] = "built" => MatrixBuilt(n)
  /\ Fault("fail")
  /\ Refuse(n, p)
  /\ UNCHANGED <<main, active, tags, signed, attested>>

---------------------------------------------------------------------------
(* What others do.                                                            *)

(* A reviewed change of the policy is merged at any time.                     *)
Merge ==
  /\ main < Len(Policies)
  /\ main' = main + 1
  /\ clean' = FALSE
  /\ UNCHANGED <<runs, active, tags, signed, attested, faults>>

(* release.yml, in the same concurrency group, promotes a signed release.     *)
Promote(image) ==
  /\ active = 0
  /\ "promote" \in Faults /\ faults < MaxFaults
  /\ faults' = faults + 1
  /\ tags' = [tags EXCEPT !["snitchwatch-system"] = image]
  /\ signed' = signed \union {image}
  /\ UNCHANGED <<main, runs, active, attested, clean>>

(* Somebody deletes a tag between runs.                                       *)
Delete(tag) ==
  /\ active = 0
  /\ tags[tag] # NoTag
  /\ "delete" \in Faults /\ faults < MaxFaults
  /\ faults' = faults + 1
  /\ tags' = [tags EXCEPT ![tag] = NoTag]
  /\ UNCHANGED <<main, runs, active, signed, attested, clean>>

Init ==
  /\ main = 1
  /\ runs = [n \in Numbers |-> NoRun]
  /\ active = 0
  /\ tags = [t \in Tags |-> IF t = "snitchwatch-system" THEN Bootstrap ELSE NoTag]
  /\ signed = {Bootstrap}
  /\ attested = {}
  /\ faults = 0
  /\ clean = FALSE

Job(n, p) ==
  \/ Build(n, p) \/ Validate(n, p) \/ Sign(n, p)
  \/ Attest(n, p) \/ CheckBaseline(n, p) \/ CheckFresh(n, p)
  \/ Move(n, p)

Next ==
  \/ \E n \in Numbers : Dispatch(n) \/ Start(n) \/ End(n) \/ Rerun(n) \/ RerunFailed(n)
                          \/ Resolve(n) \/ ResolveFails(n)
  \/ \E n \in Numbers, p \in Profiles :
       Job(n, p) \/ BuildMisreports(n, p) \/ Swap(n, p) \/ MoveLost(n, p) \/ JobFails(n, p)
  \/ Merge
  \/ \E image \in Promoted : Promote(image)
  \/ \E tag \in Tags : Delete(tag)

Spec == Init /\ [][Next]_vars

(* GitHub gives every job of the active run a runner and ends it by a         *)
(* timeout at the latest.                                                     *)
FairSpec ==
  /\ Spec
  /\ \A n \in Numbers : WF_vars(Resolve(n)) /\ WF_vars(End(n))
  /\ \A n \in Numbers, p \in Profiles : WF_vars(Job(n, p))

---------------------------------------------------------------------------
(* Properties.                                                                *)

Published == {"revalidate", "attest", "baseline", "fresh", "move",
              "done", "publish-failed"}
Labels == {"resolve", "build", "built"} \union Terminal \union Published

(* Provenance, artifacts and runs.                                            *)
Proofs ==
  [run : Numbers, attempt : Nat \ {0}, control : 1..Len(Policies), policy : Range(Policies),
   profile : Profiles, base : Bases, kernel : Kernels, image : Images]

Artifacts ==
  [image : Images, kernel : Kernels, proof : Proofs,
   installed : [profile : Profiles, trust : BOOLEAN, native : Natives]]

Runs ==
  [control : 1..Len(Policies), attempt : Nat \ {0}, base : Bases \union {NoBase},
   jobs : [Profiles -> Labels], moved : [Profiles -> 0..2],
   artifact : [Profiles -> Artifacts \union {NoImage}],
   validated : [Profiles -> Artifacts \union {NoImage}]]

ASSUME AbsentAssumption ==
  NoImage \notin Artifacts /\ NoTag \notin Images /\ NoRun \notin Runs /\ NoBase \notin Bases

(* The variables keep their types: the jobs stay within the workflow's steps, *)
(* and the registry names only images that are signed by the repository key.  *)
TypeOK ==
  /\ main \in 1..Len(Policies)
  /\ active \in Numbers \union {0}
  /\ runs \in [Numbers -> Runs \union {NoRun}]
  /\ signed \subseteq Images /\ attested \subseteq [image : signed, proof : Proofs]
  /\ tags \in [Tags -> signed \union {NoTag}]
  /\ faults \in 0..MaxFaults /\ clean \in BOOLEAN

(* What a subscriber of a channel gets: an image of the channel's profile,    *)
(* with the reviewed trust files, built from the native source of the policy, *)
(* whose signed provenance names its real kernel, above that policy's floor.  *)
(* Misreporting builds and swapped artifacts do not reach a channel           *)
(* (validate, revalidate, attestations).                                      *)
ChannelIsTruthful ==
  \A p \in Profiles : \A i \in DOMAIN Channels[p] :
    LET image == tags[Channels[p][i]]
    IN image \notin Promoted \union {NoTag} =>
         /\ image.profile = p /\ image.trust
         /\ \E x \in attested :
              /\ x.image = image /\ x.proof.profile = p
              /\ x.proof.kernel = image.kernel /\ x.proof.base.version = image.version
              /\ image.kernel # BadKernel
              /\ image.kernel >= x.proof.policy.minKernel
              /\ image.version >= x.proof.policy.minVersion
              /\ p = "system" => image.native = x.proof.policy.native

(* new is no downgrade of old. The bootstrap release has no version to lose;  *)
(* any other promoted release is never replaced by a refresh.                 *)
AtLeast(new, old) ==
  \/ old = Bootstrap
  \/ old \notin Promoted /\ new.version >= old.version /\ new.kernel >= old.kernel

(* However runs fail, lose answers, are repeated or overtaken by upstream     *)
(* rollbacks, no tag ever moves to an older Bazzite or kernel, although       *)
(* baseline looks at the leading tag only.                                    *)
NoDowngrade ==
  [][\A t \in Tags :
       tags[t] # NoTag /\ tags'[t] \notin {NoTag} \union Promoted => AtLeast(tags'[t], tags[t])
         \/ tags'[t] = tags[t]]_vars

(* latest never runs ahead of stable: the alias is behind or equal, never     *)
(* newer than the tag whose provenance the next refresh is compared with.     *)
AliasTrails ==
  tags["stable"] # NoTag /\ tags["latest"] # NoTag => AtLeast(tags["stable"], tags["latest"])

(* A tag moves to a refresh only in a run that attested that image itself, in *)
(* this very attempt: what an earlier attempt or another run built is not     *)
(* published under a new attempt's name (evidence, revalidate).               *)
PointerHasOwnEvidence ==
  [][\A t \in Tags :
       tags'[t] # tags[t] /\ tags'[t] \notin Promoted \union {NoTag} =>
         \E x \in attested :
           /\ x.image = tags'[t]
           /\ x.proof.run = active /\ x.proof.attempt = runs[active].attempt]_vars

(* The chance to create a missing stable is gone: run 2 used or lost its      *)
(* first attempt.                                                             *)
Recovered ==
  /\ runs[2] # NoRun
  /\ \/ runs[2].attempt > 1
     \/ runs[2].moved["legacy"] > 0
     \/ runs[2].jobs["legacy"] \in {"done", "publish-failed"}

Legacy == INSTANCE Channel WITH
  Length <- 2, NoImage <- NoTag,
  pointer <- <<tags["stable"], tags["latest"]>>, recovered <- Recovered
System == INSTANCE Channel WITH
  Length <- 1, NoImage <- NoTag,
  pointer <- <<tags["snitchwatch-system"]>>, recovered <- TRUE

(* The workflow implements the promise of a release channel for both          *)
(* profiles: leading tags advance, aliases repeat them, and a missing tag is  *)
(* created once at most (baseline, the order of the tags in the publisher).   *)
LegacyIsChannel == Legacy!Spec
SystemIsChannel == System!Spec

(* A run that was dispatched on main's current policy, met an upstream        *)
(* release that is no downgrade and was not disturbed ends with every tag of  *)
(* both channels on what it built: the checks do not refuse their own product.*)
Acceptable(n) ==
  /\ active = n /\ clean /\ Fresh(n)
  /\ \A p \in Profiles : runs[n].jobs[p] = "build"
  /\ Pins[Policy(n).source] = Policy(n).native
  /\ AboveFloor(n, runs[n].base.kernel)
  /\ \A p \in Profiles : tags[Lead(p)] # NoTag /\ AtLeast(HonestImage(n, p), tags[Lead(p)])

Landed(n) ==
  /\ runs[n] # NoRun /\ runs[n].base # NoBase
  /\ \A p \in Profiles : \A i \in DOMAIN Channels[p] : tags[Channels[p][i]] = HonestImage(n, p)

HonestRunLands ==
  \A n \in Numbers : Acceptable(n) ~> ~clean \/ Landed(n)

=============================================================================
