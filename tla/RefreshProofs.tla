--------------------------- MODULE RefreshProofs ---------------------------
(* Proofs about the base refresh, for every set of upstream releases, every   *)
(* list of policies, and any number of runs, attempts and failures.           *)
EXTENDS Refresh, TLAPS

---------------------------------------------------------------------------
(* The inductive invariant.                                                   *)

(* A version of the evidence and of the image that belong together. *)
Honest(a) == a.image.version = a.proof.base.version

(* The steps of the publisher after the signature, and after the attestation. *)
Publishing == {"attest", "baseline", "fresh", "move"}
Early == {"resolve", "resolve-failed"}
Unbuilt == Early \union {"build", "build-failed"}

Own(n, p) == [image |-> Product(n, p).image, proof |-> Product(n, p).proof]

(* What a job has in its hands. *)
Holds(n, p) ==
  LET label == runs[n].jobs[p]
  IN /\ label \notin Early => runs[n].base \in Bases
     /\ label \notin Unbuilt => runs[n].artifact[p] # NoImage
     /\ label \in Published => Product(n, p) # NoImage
     /\ runs[n].artifact[p] # NoImage => Honest(runs[n].artifact[p])
     /\ Product(n, p) # NoImage => Honest(Product(n, p)) /\ Executed(Product(n, p))
     /\ label \notin {"move", "done", "publish-failed"} => runs[n].moved[p] = 0
     /\ label = "move" => runs[n].moved[p] < Len(Channels[p])

(* What it has published so far. *)
Vouched(n, p) ==
  LET label == runs[n].jobs[p]
  IN /\ label \in Publishing => active = n /\ Consistent(n, p, Product(n, p)) /\ Product(n, p).image \in signed
     /\ label \in Publishing \ {"attest"} => Own(n, p) \in attested

(* What the baseline found still holds while the tags move. *)
Cleared(n, p) ==
  LET label == runs[n].jobs[p]
      image == Product(n, p).image
  IN /\ label \in {"fresh", "move"} /\ runs[n].moved[p] = 0 =>
          IF tags[Lead(p)] = NoTag THEN p = "legacy" /\ n = 2 /\ runs[n].attempt = 1
                                   ELSE AtLeast(image, tags[Lead(p)])
     /\ label = "move" /\ runs[n].moved[p] = 1 =>
          /\ tags["stable"] = image
          /\ tags["latest"] # NoTag => AtLeast(image, tags["latest"])

JobOK(n, p) == Holds(n, p) /\ Vouched(n, p) /\ Cleared(n, p)

(* Every attestation tells the truth. *)
Truthful(x) ==
  /\ x.image.profile = x.proof.profile /\ x.image.trust
  /\ x.proof.kernel = x.image.kernel /\ x.proof.base.version = x.image.version
  /\ x.image.kernel # BadKernel
  /\ x.image.kernel >= x.proof.policy.minKernel
  /\ x.image.version >= x.proof.policy.minVersion
  /\ x.proof.profile = "system" => x.image.native = x.proof.policy.native

Witnessed(t, p) == \E x \in attested : x.image = tags[t] /\ x.proof.profile = p

TagsOK ==
  /\ tags["stable"] # NoTag => Witnessed("stable", "legacy")
  /\ tags["latest"] # NoTag => Witnessed("latest", "legacy")
  /\ tags["snitchwatch-system"] \in Promoted \union {NoTag} \/ Witnessed("snitchwatch-system", "system")
  /\ ~Recovered => tags["stable"] = NoTag /\ tags["latest"] = NoTag

RefreshInv ==
  /\ TypeOK /\ (active # 0 => runs[active] # NoRun)
  /\ \A n \in Numbers : runs[n] # NoRun => \A p \in Profiles : JobOK(n, p)
  /\ \A x \in attested : Truthful(x)
  /\ TagsOK /\ AliasTrails

---------------------------------------------------------------------------
(* The constants.                                                             *)

(* The channels and their tags.                                               *)
LEMMA ChannelFacts ==
  /\ Profiles = {"legacy", "system"} /\ Tags = {"stable", "latest", "snitchwatch-system"}
  /\ Channels["legacy"] = <<"stable", "latest">> /\ Channels["system"] = <<"snitchwatch-system">>
  /\ Lead("legacy") = "stable" /\ Lead("system") = "snitchwatch-system"
  /\ Channels["legacy"][2] = "latest" /\ Len(Channels["legacy"]) = 2 /\ Len(Channels["system"]) = 1
BY DEF Profiles, Tags, Channels, Lead

(* Releases and policies are made of numbers.                                 *)
LEMMA NumberFacts ==
  /\ \A b \in Bases : b.version \in Nat /\ b.kernel \in Nat /\ b.version \in Versions /\ b.kernel \in Kernels
  /\ Versions \subseteq Nat /\ Kernels \subseteq Nat /\ BadKernel \in Nat
  /\ 1 \in Numbers /\ 2 \in Numbers /\ 0 \notin Numbers
  /\ 1 \in 1..Len(Policies) /\ Len(Policies) \in Nat
  /\ \A i \in 1..Len(Policies) :
       /\ Policies[i] \in Range(Policies) /\ Policies[i].native \in Natives /\ Policies[i].source \in DOMAIN Pins
       /\ Policies[i].minKernel \in Nat /\ Policies[i].minVersion \in Nat /\ Pins[Policies[i].source] \in Natives
<1>1. \A b \in Bases : b.version \in Nat /\ b.kernel \in Nat
  BY RefreshAssumption
<1>2. \A b \in Bases : b.version \in Versions /\ b.kernel \in Kernels
  BY DEF Versions, Kernels
<1>3. Versions \subseteq Nat /\ Kernels \subseteq Nat
  BY <1>1 DEF Versions, Kernels
<1>4. 1 \in Numbers /\ 2 \in Numbers /\ 0 \notin Numbers
  BY RefreshAssumption DEF Numbers
<1>5. 1 \in 1..Len(Policies) /\ Len(Policies) \in Nat /\ DOMAIN Policies = 1..Len(Policies)
  BY RefreshAssumption
<1>6. ASSUME NEW i \in 1..Len(Policies)
      PROVE  /\ Policies[i] \in Range(Policies) /\ Policies[i].native \in Natives /\ Policies[i].source \in DOMAIN Pins
             /\ Policies[i].minKernel \in Nat /\ Policies[i].minVersion \in Nat /\ Pins[Policies[i].source] \in Natives
  <2>1. Policies[i] \in [minVersion : Nat, minKernel : Nat \ {BadKernel}, source : DOMAIN Pins, native : Nat]
    BY RefreshAssumption
  <2>2. Policies[i] \in Range(Policies)
    BY <1>5 DEF Range
  <2>3. Policies[i].native \in Natives
    BY DEF Natives
  <2>4. Pins[Policies[i].source] \in Natives
    BY <2>1 DEF Natives
  <2>. QED
    BY <2>1, <2>2, <2>3, <2>4
<1>. QED
  BY <1>1, <1>2, <1>3, <1>4, <1>5, <1>6, RefreshAssumption

(* The promoted releases are images no refresh makes.                         *)
LEMMA PromotedFacts ==
  /\ Promoted \subseteq Images /\ Bootstrap \in Promoted
  /\ \A i \in Promoted : i.kernel = BadKernel
<1>1. 0 \in Natives /\ Policies[1].native \in Natives /\ "system" \in Profiles
  BY NumberFacts, ChannelFacts DEF Natives
<1>2. Bootstrap \in Images /\ Bootstrap.kernel = BadKernel
  BY <1>1 DEF Bootstrap, Images
<1>3. Later \in Images /\ Later.kernel = BadKernel
  BY <1>1, <1>2 DEF Later, Images
<1>. QED
  BY <1>2, <1>3 DEF Promoted

---------------------------------------------------------------------------
(* What a build makes.                                                        *)

(* Evidence made by a run that has a base is well formed.                     *)
LEMMA EvidenceType ==
  ASSUME NEW n \in Numbers, runs[n] \in Runs, runs[n].base \in Bases, NEW p \in Profiles,
         NEW image \in Images, NEW kernel \in Kernels
  PROVE  Evidence(n, p, image, kernel) \in Proofs
<1>1. /\ runs[n].control \in 1..Len(Policies) /\ runs[n].attempt \in Nat \ {0}
      /\ Policies[runs[n].control] \in Range(Policies)
  BY NumberFacts DEF Runs
<1>. QED
  BY <1>1 DEF Evidence, Proofs, Policy

(* The image an honest build makes.                                           *)
LEMMA HonestType ==
  ASSUME NEW n \in Numbers, runs[n] \in Runs, runs[n].base \in Bases, NEW p \in Profiles
  PROVE  /\ HonestImage(n, p) \in Images /\ HonestImage(n, p).version = runs[n].base.version
         /\ HonestImage(n, p).kernel \in Kernels
         /\ Installed(HonestImage(n, p)) \in [profile : Profiles, trust : BOOLEAN, native : Natives]
<1>. DEFINE v == runs[n].base.version
            k == runs[n].base.kernel
            s == Pins[Policies[runs[n].control].source]
<1>1. v \in Versions /\ k \in Kernels /\ s \in Natives /\ 0 \in Natives
  BY NumberFacts DEF Runs, Natives
<1>2. HonestImage(n, p) = [version |-> v, kernel |-> k, profile |-> p, native |-> s, trust |-> TRUE]
  BY DEF HonestImage, Image, Policy
<1>. HIDE DEF v, k, s
<1>3. HonestImage(n, p) \in Images
  BY <1>1, <1>2 DEF Images
<1>4. Installed(HonestImage(n, p)) \in [profile : Profiles, trust : BOOLEAN, native : Natives]
  BY <1>1, <1>2 DEF Installed
<1>5. HonestImage(n, p).version = v /\ HonestImage(n, p).kernel = k
  BY <1>2
<1>. QED
  BY <1>1, <1>3, <1>4, <1>5 DEF v

(* An artifact is well formed whatever image lies in it.                      *)
LEMMA ArtifactType ==
  ASSUME NEW n \in Numbers, runs[n] \in Runs, runs[n].base \in Bases, NEW p \in Profiles,
         NEW image \in Images, image.version = runs[n].base.version, NEW kernel \in Kernels,
         NEW installed \in [profile : Profiles, trust : BOOLEAN, native : Natives]
  PROVE  /\ Artifact(n, p, image, kernel, installed) \in Artifacts
         /\ Honest(Artifact(n, p, image, kernel, installed))
<1>. DEFINE e == Evidence(n, p, image, kernel)
            t == [profile : Profiles, trust : BOOLEAN, native : Natives]
<1>1. e \in Proofs /\ e.base = runs[n].base
  BY EvidenceType DEF Evidence
<1>2. Artifact(n, p, image, kernel, installed) = [image |-> image, kernel |-> kernel, installed |-> installed, proof |-> e]
  BY DEF Artifact
<1>3. installed \in t /\ Artifacts = [image : Images, kernel : Kernels, proof : Proofs, installed : t]
  BY DEF Artifacts
<1>. HIDE DEF e, t
<1>. QED
  BY <1>1, <1>2, <1>3 DEF Honest

(* What an honest build uploads, and what one that misreports does.           *)
LEMMA BuildsType ==
  ASSUME NEW n \in Numbers, runs[n] \in Runs, runs[n].base \in Bases, NEW p \in Profiles
  PROVE  \A a \in {Collected(n, p)} \union Claims(n, p) : a \in Artifacts /\ Honest(a)
<1>. DEFINE i == HonestImage(n, p)
<1>1. /\ i \in Images /\ i.version = runs[n].base.version /\ i.kernel \in Kernels
      /\ Installed(i) \in [profile : Profiles, trust : BOOLEAN, native : Natives]
  BY HonestType
<1>2. Collected(n, p) = Artifact(n, p, i, i.kernel, Installed(i))
  BY DEF Collected
<1>3. Collected(n, p).kernel = i.kernel /\ Collected(n, p).installed = Installed(i) /\ Collected(n, p).image = i
  BY <1>2 DEF Artifact
<1>. HIDE DEF i
<1>4. ASSUME NEW w \in Wrong(i) PROVE w \in Images /\ w.version = i.version
  <2>1. ASSUME NEW k \in Kernels, w = [i EXCEPT !.kernel = k] PROVE w \in Images /\ w.version = i.version
    BY <1>1, <2>1 DEF Images
  <2>2. ASSUME NEW q \in Profiles, w = [i EXCEPT !.profile = q] PROVE w \in Images /\ w.version = i.version
    BY <1>1, <2>2 DEF Images
  <2>3. ASSUME w = [i EXCEPT !.native = 0] PROVE w \in Images /\ w.version = i.version
    <3>1. 0 \in Natives
      BY DEF Natives
    <3>. QED
      BY <1>1, <2>3, <3>1 DEF Images
  <2>4. ASSUME w = [i EXCEPT !.trust = FALSE] PROVE w \in Images /\ w.version = i.version
    BY <1>1, <2>4 DEF Images
  <2>. QED
    BY <2>1, <2>2, <2>3, <2>4 DEF Wrong
<1>5. ASSUME NEW a \in Claims(n, p) PROVE a \in Artifacts /\ Honest(a)
  <2>1. PICK w \in Wrong(i) : a = Artifact(n, p, w, i.kernel, Installed(i))
    BY <1>3 DEF Claims
  <2>2. w \in Images /\ w.version = runs[n].base.version
    BY <1>1, <1>4
  <2>. QED
    BY <1>1, <2>1, <2>2, ArtifactType
<1>6. Collected(n, p) \in Artifacts /\ Honest(Collected(n, p))
  BY <1>1, <1>2, ArtifactType
<1>. QED
  BY <1>5, <1>6

---------------------------------------------------------------------------
(* Steps of one job.                                                          *)

(* Every other job of every run is as it was.                                 *)
Others(n, p) ==
  /\ runs' \in [Numbers -> Runs \union {NoRun}] /\ runs'[n] \in Runs
  /\ \A k \in Numbers \ {n} : runs'[k] = runs[k]
  /\ runs'[n].control = runs[n].control /\ runs'[n].attempt = runs[n].attempt /\ runs'[n].base = runs[n].base
  /\ \A q \in Profiles \ {p} :
       /\ runs'[n].jobs[q] = runs[n].jobs[q] /\ runs'[n].moved[q] = runs[n].moved[q]
       /\ runs'[n].artifact[q] = runs[n].artifact[q] /\ runs'[n].validated[q] = runs[n].validated[q]

(* The record of a run in which one job has other things in its hands.        *)
Hands(n, p, l, m, a, v) ==
  [runs[n] EXCEPT !.jobs = [runs[n].jobs EXCEPT ![p] = l], !.moved = [runs[n].moved EXCEPT ![p] = m],
                  !.artifact = [runs[n].artifact EXCEPT ![p] = a],
                  !.validated = [runs[n].validated EXCEPT ![p] = v]]
Becomes(n, r) == runs' = [runs EXCEPT ![n] = r]

(* A job goes on with other things in its hands.                              *)
LEMMA Updated ==
  ASSUME runs \in [Numbers -> Runs \union {NoRun}], NEW n \in Numbers, runs[n] \in Runs, NEW p \in Profiles,
         NEW l \in Labels, NEW m \in 0..2, NEW a \in Artifacts \union {NoImage}, NEW v \in Artifacts \union {NoImage},
         Becomes(n, Hands(n, p, l, m, a, v))
  PROVE  /\ Others(n, p)
         /\ runs'[n].jobs[p] = l /\ runs'[n].moved[p] = m
         /\ runs'[n].artifact[p] = a /\ runs'[n].validated[p] = v
<1>. DEFINE As == Artifacts \union {NoImage}
            j2 == [runs[n].jobs EXCEPT ![p] = l]
            m2 == [runs[n].moved EXCEPT ![p] = m]
            a2 == [runs[n].artifact EXCEPT ![p] = a]
            v2 == [runs[n].validated EXCEPT ![p] = v]
            r == Hands(n, p, l, m, a, v)
<1>1. /\ runs[n].jobs \in [Profiles -> Labels] /\ runs[n].moved \in [Profiles -> 0..2]
      /\ runs[n].artifact \in [Profiles -> As] /\ runs[n].validated \in [Profiles -> As] /\ a \in As /\ v \in As
  BY DEF Runs
<1>2. Runs = [control : 1..Len(Policies), attempt : Nat \ {0}, base : Bases \union {NoBase},
              jobs : [Profiles -> Labels], moved : [Profiles -> 0..2],
              artifact : [Profiles -> As], validated : [Profiles -> As]]
  BY DEF Runs
<1>3. r = [runs[n] EXCEPT !.jobs = j2, !.moved = m2, !.artifact = a2, !.validated = v2] /\ runs' = [runs EXCEPT ![n] = r]
  BY DEF Hands, Becomes
<1>. HIDE DEF As
<1>4. /\ j2 \in [Profiles -> Labels] /\ m2 \in [Profiles -> 0..2] /\ a2 \in [Profiles -> As] /\ v2 \in [Profiles -> As]
      /\ j2[p] = l /\ m2[p] = m /\ a2[p] = a /\ v2[p] = v
      /\ \A q \in Profiles \ {p} : /\ j2[q] = runs[n].jobs[q] /\ m2[q] = runs[n].moved[q]
                                   /\ a2[q] = runs[n].artifact[q] /\ v2[q] = runs[n].validated[q]
  BY <1>1
<1>. HIDE DEF j2, m2, a2, v2, r
<1>5. /\ r \in Runs /\ r.jobs = j2 /\ r.moved = m2 /\ r.artifact = a2 /\ r.validated = v2
      /\ r.control = runs[n].control /\ r.attempt = runs[n].attempt /\ r.base = runs[n].base
  BY <1>2, <1>3, <1>4
<1>6. runs' \in [Numbers -> Runs \union {NoRun}] /\ runs'[n] = r /\ \A k \in Numbers \ {n} : runs'[k] = runs[k]
  BY <1>3, <1>5
<1>. QED
  BY <1>4, <1>5, <1>6 DEF Others

(* Putting back what is there changes nothing.                                *)
LEMMA SameHands ==
  ASSUME NEW n \in Numbers, runs[n] \in Runs, NEW p \in Profiles
  PROVE  /\ [runs[n].jobs EXCEPT ![p] = runs[n].jobs[p]] = runs[n].jobs
         /\ [runs[n].moved EXCEPT ![p] = runs[n].moved[p]] = runs[n].moved
         /\ [runs[n].artifact EXCEPT ![p] = runs[n].artifact[p]] = runs[n].artifact
         /\ [runs[n].validated EXCEPT ![p] = runs[n].validated[p]] = runs[n].validated
         /\ runs[n].jobs[p] \in Labels /\ runs[n].moved[p] \in 0..2
         /\ runs[n].artifact[p] \in Artifacts \union {NoImage} /\ runs[n].validated[p] \in Artifacts \union {NoImage}
<1>. DEFINE As == Artifacts \union {NoImage}
<1>1. /\ runs[n].jobs \in [Profiles -> Labels] /\ runs[n].moved \in [Profiles -> 0..2]
      /\ runs[n].artifact \in [Profiles -> As] /\ runs[n].validated \in [Profiles -> As]
  BY DEF Runs
<1>. HIDE DEF As
<1>2. /\ runs[n].jobs[p] \in Labels /\ runs[n].moved[p] \in 0..2
      /\ runs[n].artifact[p] \in As /\ runs[n].validated[p] \in As
  BY <1>1
<1>. QED
  BY <1>1, <1>2 DEF As

(* A job goes to another step.                                                *)
LEMMA GotoShape ==
  ASSUME runs \in [Numbers -> Runs \union {NoRun}], NEW n \in Numbers, runs[n] \in Runs, NEW p \in Profiles,
         NEW l \in Labels, Goto(n, p, l)
  PROVE  /\ Others(n, p) /\ runs'[n].jobs[p] = l /\ runs'[n].moved[p] = runs[n].moved[p]
         /\ runs'[n].artifact[p] = runs[n].artifact[p] /\ runs'[n].validated[p] = runs[n].validated[p]
<1>1. Hands(n, p, l, runs[n].moved[p], runs[n].artifact[p], runs[n].validated[p]) = [runs[n] EXCEPT !.jobs = [runs[n].jobs EXCEPT ![p] = l]]
  BY SameHands DEF Runs, Hands
<1>2. Becomes(n, Hands(n, p, l, runs[n].moved[p], runs[n].artifact[p], runs[n].validated[p]))
  BY <1>1 DEF Becomes, Goto
<1>3. l \in Labels /\ runs[n].moved[p] \in 0..2 /\ runs[n].artifact[p] \in Artifacts \union {NoImage} /\ runs[n].validated[p] \in Artifacts \union {NoImage}
  BY SameHands
<1>. QED
  BY <1>2, <1>3, Updated

(* A build uploads its artifact.                                              *)
LEMMA UploadShape ==
  ASSUME runs \in [Numbers -> Runs \union {NoRun}], NEW n \in Numbers, runs[n] \in Runs, NEW p \in Profiles,
         NEW a \in Artifacts \union {NoImage}, Upload(n, p, a)
  PROVE  /\ Others(n, p) /\ runs'[n].jobs[p] = "built" /\ runs'[n].moved[p] = runs[n].moved[p]
         /\ runs'[n].artifact[p] = a /\ runs'[n].validated[p] = runs[n].validated[p]
<1>1. Hands(n, p, "built", runs[n].moved[p], a, runs[n].validated[p]) = [runs[n] EXCEPT !.jobs = [runs[n].jobs EXCEPT ![p] = "built"], !.artifact = [runs[n].artifact EXCEPT ![p] = a]]
  BY SameHands DEF Runs, Hands
<1>2. Becomes(n, Hands(n, p, "built", runs[n].moved[p], a, runs[n].validated[p]))
  BY <1>1 DEF Becomes, Upload
<1>3. "built" \in Labels /\ runs[n].moved[p] \in 0..2 /\ a \in Artifacts \union {NoImage} /\ runs[n].validated[p] \in Artifacts \union {NoImage}
  BY SameHands DEF Labels
<1>. QED
  BY <1>2, <1>3, Updated

(* A validator passes an artifact on.                                         *)
PassOn(n, p, a) == runs' = [runs EXCEPT ![n].jobs[p] = "revalidate", ![n].validated[p] = a]

(* The record of the run afterwards.                                          *)
LEMMA ValidateShape ==
  ASSUME runs \in [Numbers -> Runs \union {NoRun}], NEW n \in Numbers, runs[n] \in Runs, NEW p \in Profiles,
         NEW a \in Artifacts \union {NoImage}, PassOn(n, p, a)
  PROVE  /\ Others(n, p) /\ runs'[n].jobs[p] = "revalidate" /\ runs'[n].moved[p] = runs[n].moved[p]
         /\ runs'[n].artifact[p] = runs[n].artifact[p] /\ runs'[n].validated[p] = a
<1>1. Hands(n, p, "revalidate", runs[n].moved[p], runs[n].artifact[p], a) = [runs[n] EXCEPT !.jobs = [runs[n].jobs EXCEPT ![p] = "revalidate"], !.validated = [runs[n].validated EXCEPT ![p] = a]]
  BY SameHands DEF Runs, Hands
<1>2. Becomes(n, Hands(n, p, "revalidate", runs[n].moved[p], runs[n].artifact[p], a))
  BY <1>1 DEF Becomes, PassOn
<1>3. "revalidate" \in Labels /\ runs[n].moved[p] \in 0..2 /\ runs[n].artifact[p] \in Artifacts \union {NoImage} /\ a \in Artifacts \union {NoImage}
  BY SameHands DEF Labels, Published
<1>. QED
  BY <1>2, <1>3, Updated

(* The store hands out another artifact.                                      *)
HandOut(n, p, a) == runs' = [runs EXCEPT ![n].artifact[p] = a]

(* The record of the run afterwards.                                          *)
LEMMA SwapShape ==
  ASSUME runs \in [Numbers -> Runs \union {NoRun}], NEW n \in Numbers, runs[n] \in Runs, NEW p \in Profiles,
         NEW a \in Artifacts \union {NoImage}, runs' = [runs EXCEPT ![n].artifact[p] = a]
  PROVE  /\ Others(n, p) /\ runs'[n].jobs[p] = runs[n].jobs[p] /\ runs'[n].moved[p] = runs[n].moved[p]
         /\ runs'[n].artifact[p] = a /\ runs'[n].validated[p] = runs[n].validated[p]
<1>1. Hands(n, p, runs[n].jobs[p], runs[n].moved[p], a, runs[n].validated[p]) = [runs[n] EXCEPT !.artifact = [runs[n].artifact EXCEPT ![p] = a]]
  BY SameHands DEF Runs, Hands
<1>2. Becomes(n, Hands(n, p, runs[n].jobs[p], runs[n].moved[p], a, runs[n].validated[p]))
  BY <1>1 DEF Becomes
<1>3. runs[n].jobs[p] \in Labels /\ runs[n].moved[p] \in 0..2 /\ a \in Artifacts \union {NoImage} /\ runs[n].validated[p] \in Artifacts \union {NoImage}
  BY SameHands
<1>. QED
  BY <1>2, <1>3, Updated

(* A publisher counts a tag it has written.                                   *)
Counted(n, p, m, l) == runs' = [runs EXCEPT ![n].moved[p] = m, ![n].jobs[p] = l]

(* The record of the run afterwards.                                          *)
LEMMA MoveShape ==
  ASSUME runs \in [Numbers -> Runs \union {NoRun}], NEW n \in Numbers, runs[n] \in Runs, NEW p \in Profiles,
         NEW l \in Labels, NEW m \in 0..2, Counted(n, p, m, l)
  PROVE  /\ Others(n, p) /\ runs'[n].jobs[p] = l /\ runs'[n].moved[p] = m
         /\ runs'[n].artifact[p] = runs[n].artifact[p] /\ runs'[n].validated[p] = runs[n].validated[p]
<1>1. Hands(n, p, l, m, runs[n].artifact[p], runs[n].validated[p]) = [runs[n] EXCEPT !.jobs = [runs[n].jobs EXCEPT ![p] = l], !.moved = [runs[n].moved EXCEPT ![p] = m]]
  BY SameHands DEF Runs, Hands
<1>2. Becomes(n, Hands(n, p, l, m, runs[n].artifact[p], runs[n].validated[p]))
  BY <1>1 DEF Becomes, Counted
<1>3. l \in Labels /\ m \in 0..2 /\ runs[n].artifact[p] \in Artifacts \union {NoImage} /\ runs[n].validated[p] \in Artifacts \union {NoImage}
  BY SameHands
<1>. QED
  BY <1>2, <1>3, Updated

---------------------------------------------------------------------------
(* What a step leaves alone.                                                  *)

(* The tags of the channel are as they were.                                  *)
SameTags(q) ==
  /\ tags'[Lead(q)] = tags[Lead(q)]
  /\ q = "legacy" => tags'["latest"] = tags["latest"]

(* A job that does nothing keeps what it has, if others only add signatures   *)
(* and attestations, and write other tags.                                    *)
LEMMA IdleJob ==
  ASSUME NEW k \in Numbers, NEW q \in Profiles, JobOK(k, q),
         runs'[k].control = runs[k].control, runs'[k].attempt = runs[k].attempt, runs'[k].base = runs[k].base,
         runs'[k].jobs[q] = runs[k].jobs[q], runs'[k].moved[q] = runs[k].moved[q],
         runs'[k].artifact[q] = runs[k].artifact[q], runs'[k].validated[q] = runs[k].validated[q],
         signed \subseteq signed', attested \subseteq attested',
         runs[k].jobs[q] \in Publishing => active' = active /\ SameTags(q)
  PROVE  JobOK(k, q)'
<1>1. Product(k, q)' = Product(k, q)
  BY DEF Product
<1>2. Holds(k, q)'
  BY <1>1 DEF JobOK, Holds, Honest, Executed
<1>3. ASSUME NEW a PROVE Consistent(k, q, a)' <=> Consistent(k, q, a)
  BY DEF Consistent, AboveFloor, Evidence, Policy
<1>4. Vouched(k, q)'
  BY <1>1, <1>3 DEF JobOK, Vouched, Own
<1>5. Cleared(k, q)'
  <2>1. CASE runs[k].jobs[q] \notin {"fresh", "move"}
    BY <2>1 DEF Cleared
  <2>2. CASE runs[k].jobs[q] \in {"fresh", "move"}
    <3>1. SameTags(q)
      BY <2>2 DEF Publishing
    <3>2. runs[k].jobs[q] = "move" /\ runs[k].moved[q] = 1 => q = "legacy"
      <4>1. runs[k].jobs[q] = "move" => runs[k].moved[q] < Len(Channels[q])
        BY DEF JobOK, Holds
      <4>2. q = "system" => Len(Channels[q]) = 1
        BY ChannelFacts
      <4>3. q = "legacy" \/ q = "system"
        BY DEF Profiles
      <4>4. ~(1 < 1)
        OBVIOUS
      <4>. QED
        BY <4>1, <4>2, <4>3, <4>4, Zenon
    <3>. QED
      BY <1>1, <3>1, <3>2, ChannelFacts DEF JobOK, Cleared, SameTags
  <2>. QED
    BY <2>1, <2>2
<1>. QED
  BY <1>2, <1>4, <1>5 DEF JobOK

(* The jobs of a run that has not begun yet hold nothing.                     *)
JobsOK == \A n \in Numbers : runs[n] # NoRun => \A p \in Profiles : JobOK(n, p)

(* All jobs but one are idle.                                                 *)
LEMMA OtherJobs ==
  ASSUME JobsOK, NEW n \in Numbers, NEW p \in Profiles, runs[n] # NoRun, Others(n, p),
         UNCHANGED active, signed \subseteq signed', attested \subseteq attested',
         \A q \in Profiles \ {p} : SameTags(q), tags' = tags \/ active = n, JobOK(n, p)'
  PROVE  JobsOK'
<1>1. ASSUME NEW k \in Numbers, runs'[k] # NoRun, NEW q \in Profiles PROVE JobOK(k, q)'
  <2>1. CASE k = n /\ q = p
    BY <2>1
  <2>2. CASE k = n /\ q # p
    <3>1. JobOK(k, q) /\ SameTags(q)
      BY <2>2 DEF JobsOK
    <3>. QED
      BY <2>2, <3>1, IdleJob DEF Others
  <2>3. CASE k # n
    <3>1. runs'[k] = runs[k] /\ JobOK(k, q)
      BY <1>1, <2>3 DEF Others, JobsOK
    <3>2. runs[k].jobs[q] \in Publishing => SameTags(q)
      <4>1. runs[k].jobs[q] \in Publishing => active = k
        BY <3>1 DEF JobOK, Vouched
      <4>. QED
        BY <2>3, <4>1 DEF SameTags
    <3>. QED
      BY <3>1, <3>2, IdleJob
  <2>. QED
    BY <2>1, <2>2, <2>3
<1>. QED
  BY <1>1 DEF JobsOK

(* The chance to recover is lost for good.                                    *)
LEMMA RecoveredStays ==
  ASSUME NEW n \in Numbers, NEW p \in Profiles, runs[n] # NoRun, Others(n, p), Recovered,
         runs[n] \in Runs, runs[n].jobs[p] \notin Terminal,
         runs'[n].moved[p] \in Nat, runs[n].moved[p] \in Nat, runs'[n].moved[p] >= runs[n].moved[p]
  PROVE  Recovered'
<1>1. runs'[2] # NoRun
  BY NumberFacts, AbsentAssumption DEF Recovered, Others
<1>2. CASE n # 2
  BY <1>1, <1>2, NumberFacts DEF Recovered, Others
<1>3. CASE n = 2 /\ p = "legacy"
  BY <1>1, <1>3 DEF Recovered, Others, Terminal
<1>4. CASE n = 2 /\ p # "legacy"
  BY <1>1, <1>4, ChannelFacts DEF Recovered, Others
<1>. QED
  BY <1>2, <1>3, <1>4

(* While no tag moves, what the tags say stays true.                          *)
LEMMA QuietTags ==
  ASSUME TagsOK, AliasTrails, UNCHANGED tags, attested \subseteq attested', Recovered => Recovered'
  PROVE  TagsOK' /\ AliasTrails'
BY DEF TagsOK, AliasTrails, Witnessed, AtLeast

(* A step keeps the invariant, and a chance that was lost.                    *)
Preserved == RefreshInv' /\ (Recovered => Recovered')

(* A step of one job of the active run that writes no tag.                    *)
LEMMA JobStep ==
  ASSUME RefreshInv, NEW n \in Numbers, NEW p \in Profiles, active = n, runs[n] \in Runs, Others(n, p),
         runs[n].jobs[p] \notin Terminal, runs'[n].moved[p] = runs[n].moved[p], JobOK(n, p)',
         UNCHANGED <<main, active, tags>>, faults' \in 0..MaxFaults, clean' \in BOOLEAN,
         signed \subseteq signed', signed' \subseteq Images, attested \subseteq attested',
         attested' \subseteq [image : signed', proof : Proofs], \A x \in attested' : Truthful(x)
  PROVE  Preserved
<1>0. TypeOK /\ JobsOK /\ TagsOK /\ AliasTrails /\ runs[n] # NoRun
  BY AbsentAssumption DEF RefreshInv, JobsOK
<1>1. JobsOK'
  BY <1>0, OtherJobs DEF SameTags
<1>2. Recovered => Recovered'
  <2>1. runs[n].moved[p] \in 0..2
    BY SameHands
  <2>2. runs[n].moved[p] \in Nat /\ runs'[n].moved[p] \in Nat /\ runs'[n].moved[p] >= runs[n].moved[p]
    BY <2>1
  <2>. QED
    BY <1>0, <2>2, RecoveredStays
<1>3. TagsOK' /\ AliasTrails'
  BY <1>0, <1>2, QuietTags
<1>4. TypeOK'
  BY <1>0 DEF TypeOK, Others
<1>5. active' # 0 => runs'[active'] # NoRun
  BY AbsentAssumption DEF Others
<1>. QED
  BY <1>1, <1>2, <1>3, <1>4, <1>5 DEF Preserved, RefreshInv, JobsOK

---------------------------------------------------------------------------
(* Building and validating.                                                   *)

(* What is known of a job of the active run.                                  *)
LEMMA ActiveJob ==
  ASSUME RefreshInv, NEW n \in Numbers, NEW p \in Profiles, active = n
  PROVE  /\ runs \in [Numbers -> Runs \union {NoRun}] /\ runs[n] \in Runs /\ runs[n] # NoRun /\ JobOK(n, p)
         /\ runs[n].jobs[p] \in Labels /\ runs[n].moved[p] \in 0..2
         /\ runs[n].artifact[p] \in Artifacts \union {NoImage} /\ Product(n, p) \in Artifacts \union {NoImage}
         /\ runs[n].control \in 1..Len(Policies)
<1>1. runs \in [Numbers -> Runs \union {NoRun}] /\ runs[n] # NoRun
  BY NumberFacts DEF RefreshInv, TypeOK
<1>2. runs[n] \in Runs
  BY <1>1
<1>3. JobOK(n, p)
  BY <1>1 DEF RefreshInv
<1>4. runs[n].control \in 1..Len(Policies)
  BY <1>2 DEF Runs
<1>. QED
  BY <1>1, <1>2, <1>3, <1>4, SameHands DEF Product

(* A counted failure.                                                         *)
LEMMA FaultTypes ==
  ASSUME RefreshInv, NEW kind, Fault(kind)
  PROVE  faults' \in 0..MaxFaults /\ clean' \in BOOLEAN
<1>1. faults < MaxFaults /\ faults' = faults + 1 /\ clean' = FALSE
  BY DEF Fault
<1>2. faults \in 0..MaxFaults /\ MaxFaults \in Nat
  BY RefreshAssumption DEF RefreshInv, TypeOK
<1>3. faults' \in 0..MaxFaults
  BY <1>1, <1>2
<1>. QED
  BY <1>1, <1>3

(* A job step that signs and attests nothing.                                 *)
LEMMA PlainStep ==
  ASSUME RefreshInv, NEW n \in Numbers, NEW p \in Profiles, active = n, Others(n, p),
         runs[n].jobs[p] \notin Terminal, runs'[n].moved[p] = runs[n].moved[p], JobOK(n, p)',
         UNCHANGED <<main, active, tags, signed, attested>>, faults' \in 0..MaxFaults, clean' \in BOOLEAN
  PROVE  Preserved
<1>1. /\ signed \subseteq Images /\ attested \subseteq [image : signed, proof : Proofs]
      /\ \A x \in attested : Truthful(x)
  BY DEF RefreshInv, TypeOK
<1>2. runs[n] \in Runs
  BY ActiveJob
<1>. QED
  BY <1>1, <1>2, JobStep

(* A job fails: its check refuses, or a step breaks off.                      *)
LEMMA RefuseStep ==
  ASSUME RefreshInv, NEW n \in Numbers, NEW p \in Profiles, active = n,
         runs[n].jobs[p] \notin Terminal \union {"resolve"}, Refuse(n, p),
         UNCHANGED <<main, active, tags, signed, attested>>, faults' \in 0..MaxFaults, clean' \in BOOLEAN
  PROVE  Preserved
<1>. DEFINE l == FailedAt(runs[n].jobs[p])
<1>1. /\ runs \in [Numbers -> Runs \union {NoRun}] /\ runs[n] \in Runs /\ JobOK(n, p)
      /\ runs[n].jobs[p] \in Labels
  BY ActiveJob
<1>2. /\ runs[n].jobs[p] = "build" => l = "build-failed"
      /\ runs[n].jobs[p] = "built" => l = "validate-failed"
      /\ runs[n].jobs[p] \notin {"build", "built"} => l = "publish-failed" /\ runs[n].jobs[p] \in Published
      /\ l \in Labels
  BY <1>1 DEF FailedAt, Labels, Terminal, Published
<1>3. Goto(n, p, l)
  BY DEF Refuse
<1>. HIDE DEF l
<1>4. /\ Others(n, p) /\ runs'[n].jobs[p] = l /\ runs'[n].moved[p] = runs[n].moved[p]
      /\ runs'[n].artifact[p] = runs[n].artifact[p] /\ runs'[n].validated[p] = runs[n].validated[p]
  BY <1>1, <1>2, <1>3, GotoShape
<1>5. runs'[n].base = runs[n].base
  BY <1>4 DEF Others
<1>6. Holds(n, p)'
  BY <1>1, <1>2, <1>4, <1>5 DEF JobOK, Holds, Product, Honest, Executed, Early, Unbuilt, Published
<1>7. JobOK(n, p)'
  BY <1>2, <1>4, <1>6 DEF JobOK, Vouched, Cleared, Publishing
<1>. QED
  BY <1>4, <1>7, PlainStep

(* A build uploads an artifact, honest or not.                                *)
LEMMA UploadStep ==
  ASSUME RefreshInv, NEW n \in Numbers, NEW p \in Profiles, At(n, p, "build"), NEW a \in Artifacts, Honest(a),
         Upload(n, p, a), UNCHANGED <<main, active, tags, signed, attested>>,
         faults' \in 0..MaxFaults, clean' \in BOOLEAN
  PROVE  Preserved
<1>1. /\ active = n /\ runs[n].jobs[p] = "build"
  BY DEF At
<1>2. runs \in [Numbers -> Runs \union {NoRun}] /\ runs[n] \in Runs /\ JobOK(n, p)
  BY <1>1, ActiveJob
<1>3. /\ Others(n, p) /\ runs'[n].jobs[p] = "built" /\ runs'[n].moved[p] = runs[n].moved[p]
      /\ runs'[n].artifact[p] = a /\ runs'[n].validated[p] = runs[n].validated[p]
  BY <1>2, UploadShape
<1>4. runs'[n].base = runs[n].base /\ a # NoImage
  BY <1>3, AbsentAssumption DEF Others
<1>5. Holds(n, p)'
  BY <1>1, <1>2, <1>3, <1>4 DEF JobOK, Holds, Product, Honest, Executed, Early, Unbuilt, Published
<1>6. JobOK(n, p)'
  BY <1>3, <1>5 DEF JobOK, Vouched, Cleared, Publishing
<1>. QED
  BY <1>1, <1>3, <1>6, PlainStep DEF Terminal

(* The build jobs and what the artifact store makes of their artifacts.       *)
LEMMA BuildSteps ==
  ASSUME RefreshInv, NEW n \in Numbers, NEW p \in Profiles,
         Build(n, p) \/ BuildMisreports(n, p) \/ Validate(n, p) \/ Swap(n, p)
  PROVE  Preserved
<1>0. /\ active = n /\ UNCHANGED <<main, active, tags, signed, attested>>
      /\ runs[n].jobs[p] \notin Terminal \union {"resolve"}
  BY DEF Build, BuildMisreports, Validate, Swap, At, Terminal
<1>1. /\ runs \in [Numbers -> Runs \union {NoRun}] /\ runs[n] \in Runs /\ JobOK(n, p)
      /\ runs[n].artifact[p] \in Artifacts \union {NoImage}
  BY <1>0, ActiveJob
<1>2. runs[n].base \in Bases
  BY <1>0, <1>1 DEF JobOK, Holds, Early, Terminal
<1>3. \A a \in {Collected(n, p)} \union Claims(n, p) : a \in Artifacts /\ Honest(a)
  BY <1>1, <1>2, BuildsType
<1>4. faults \in 0..MaxFaults /\ clean \in BOOLEAN
  BY DEF RefreshInv, TypeOK
<1>5. CASE Build(n, p)
  <2>1. At(n, p, "build") /\ UNCHANGED <<faults, clean>> /\ (Upload(n, p, Collected(n, p)) \/ Refuse(n, p))
    BY <1>5 DEF Build
  <2>2. faults' \in 0..MaxFaults /\ clean' \in BOOLEAN
    BY <1>4, <2>1
  <2>. QED
    BY <1>0, <1>3, <2>1, <2>2, UploadStep, RefuseStep
<1>6. CASE BuildMisreports(n, p)
  <2>1. At(n, p, "build") /\ Fault("forge") /\ \E a \in Claims(n, p) : Upload(n, p, a)
    BY <1>6 DEF BuildMisreports
  <2>2. faults' \in 0..MaxFaults /\ clean' \in BOOLEAN
    BY <2>1, FaultTypes
  <2>. QED
    BY <1>0, <1>3, <2>1, <2>2, UploadStep
<1>7. CASE Validate(n, p)
  <2>. DEFINE a == runs[n].artifact[p]
  <2>1. /\ runs[n].jobs[p] = "built" /\ UNCHANGED <<faults, clean>>
        /\ Refuse(n, p) \/ (Consistent(n, p, a) /\ Executed(a) /\ PassOn(n, p, a))
    BY <1>7 DEF Validate, At, PassOn
  <2>2. faults' \in 0..MaxFaults /\ clean' \in BOOLEAN
    BY <1>4, <2>1
  <2>3. CASE Refuse(n, p)
    BY <1>0, <2>2, <2>3, RefuseStep
  <2>4. CASE Executed(a) /\ PassOn(n, p, a)
    <3>1. a \in Artifacts /\ a # NoImage /\ Honest(a)
      BY <1>1, <2>1, AbsentAssumption DEF JobOK, Holds, Unbuilt, Early
    <3>2. /\ Others(n, p) /\ runs'[n].jobs[p] = "revalidate" /\ runs'[n].moved[p] = runs[n].moved[p]
          /\ runs'[n].artifact[p] = a /\ runs'[n].validated[p] = a
      BY <1>1, <2>4, ValidateShape
    <3>3. runs'[n].base = runs[n].base
      BY <3>2 DEF Others
    <3>. HIDE DEF a
    <3>4. Holds(n, p)'
      BY <1>1, <1>2, <2>1, <2>4, <3>1, <3>2, <3>3 DEF JobOK, Holds, Product, Honest, Executed, Early, Unbuilt, Published
    <3>5. JobOK(n, p)'
      BY <3>2, <3>4 DEF JobOK, Vouched, Cleared, Publishing
    <3>. QED
      BY <1>0, <2>2, <3>2, <3>5, PlainStep
  <2>. QED
    BY <2>1, <2>3, <2>4
<1>8. CASE Swap(n, p)
  <2>1. /\ runs[n].jobs[p] \in {"built", "revalidate"} /\ Fault("swap")
    BY <1>8 DEF Swap
  <2>a. \E a \in Claims(n, p) \union Stored : a # NoImage /\ HandOut(n, p, a)
    BY <1>8 DEF Swap, HandOut
  <2>b. \A a \in Stored : \E k \in Numbers, q \in Profiles : runs[k] # NoRun /\ a = runs[k].artifact[q]
    BY DEF Stored
  <2>2. faults' \in 0..MaxFaults /\ clean' \in BOOLEAN
    BY <2>1, FaultTypes
  <2>3. PICK a : a \in Artifacts /\ Honest(a) /\ a # NoImage /\ HandOut(n, p, a)
    <3>1. ASSUME NEW k \in Numbers, runs[k] # NoRun, NEW q \in Profiles, runs[k].artifact[q] # NoImage
          PROVE  runs[k].artifact[q] \in Artifacts /\ Honest(runs[k].artifact[q])
      <4>1. runs[k] \in Runs /\ JobOK(k, q)
        BY <1>1, <3>1 DEF RefreshInv
      <4>2. runs[k].artifact[q] \in Artifacts \union {NoImage}
        BY <4>1, SameHands
      <4>. QED
        BY <3>1, <4>1, <4>2 DEF JobOK, Holds
    <3>. QED
      BY <1>3, <2>a, <2>b, <3>1
  <2>4. /\ Others(n, p) /\ runs'[n].jobs[p] = runs[n].jobs[p] /\ runs'[n].moved[p] = runs[n].moved[p]
        /\ runs'[n].artifact[p] = a /\ runs'[n].validated[p] = runs[n].validated[p]
    BY <1>1, <2>3, SwapShape DEF HandOut
  <2>5. runs'[n].base = runs[n].base
    BY <2>4 DEF Others
  <2>6. Holds(n, p)'
    BY <1>1, <2>1, <2>3, <2>4, <2>5 DEF JobOK, Holds, Product, Honest, Executed, Early, Unbuilt, Published
  <2>7. JobOK(n, p)'
    BY <2>1, <2>4, <2>6 DEF JobOK, Vouched, Cleared, Publishing
  <2>. QED
    BY <1>0, <2>2, <2>4, <2>7, PlainStep
<1>. QED
  BY <1>5, <1>6, <1>7, <1>8

---------------------------------------------------------------------------
(* Publishing.                                                                *)

(* An artifact that was validated and revalidated tells the truth about its   *)
(* image, and is of this run and attempt.                                     *)
LEMMA ValidatedIsTrue ==
  ASSUME NEW n \in Numbers, NEW p \in Profiles, NEW a \in Artifacts,
         Consistent(n, p, a), Executed(a), Honest(a)
  PROVE  /\ Truthful([image |-> a.image, proof |-> a.proof])
         /\ a.proof.profile = p /\ a.proof.run = n /\ a.proof.attempt = runs[n].attempt
         /\ a.proof.base.version = a.image.version /\ a.proof.kernel = a.image.kernel
         /\ a.image \notin Promoted
<1>1. /\ AboveFloor(n, a.kernel) /\ a.installed.profile = p /\ a.installed.trust
      /\ p = "system" => a.installed.native = Policy(n).native
      /\ a.proof = Evidence(n, p, a.image, a.kernel)
  BY DEF Consistent
<1>2. /\ a.proof.run = n /\ a.proof.attempt = runs[n].attempt /\ a.proof.policy = Policy(n) /\ a.proof.profile = p
      /\ a.proof.base = runs[n].base /\ a.proof.kernel = a.kernel
  BY <1>1 DEF Evidence
<1>3. a.installed = Installed(a.image) /\ a.kernel = a.image.kernel
  BY DEF Executed
<1>4. /\ a.image.profile = p /\ a.image.trust = a.installed.trust
      /\ p = "system" => a.image.native = Policy(n).native
  <2>. DEFINE i == a.image
  <2>1. a.installed = [profile |-> i.profile, trust |-> i.trust, native |-> IF i.profile = "system" THEN i.native ELSE 0]
    BY <1>3 DEF Installed
  <2>. HIDE DEF i
  <2>2. a.installed.profile = i.profile /\ a.installed.trust = i.trust
        /\ (i.profile = "system" => a.installed.native = i.native)
    BY <2>1
  <2>3. i.profile = p /\ (p = "system" => i.native = Policy(n).native)
    BY <1>1, <2>2
  <2>. QED
    BY <2>2, <2>3 DEF i
<1>5. a.image.version = runs[n].base.version
  BY <1>2 DEF Honest
<1>6. /\ a.image.version >= Policy(n).minVersion /\ a.image.kernel # BadKernel /\ a.image.kernel >= Policy(n).minKernel
  BY <1>1, <1>3, <1>5 DEF AboveFloor
<1>7. a.image.trust
  BY <1>1, <1>4
<1>. DEFINE x == [image |-> a.image, proof |-> a.proof]
<1>8. x.image = a.image /\ x.proof = a.proof
  OBVIOUS
<1>. HIDE DEF x
<1>9. Truthful(x)
  BY <1>2, <1>3, <1>4, <1>5, <1>6, <1>7, <1>8 DEF Truthful
<1>10. a.image \notin Promoted
  BY <1>6, PromotedFacts
<1>. QED
  BY <1>2, <1>3, <1>5, <1>9, <1>10 DEF x

(* What the publisher has in its hands between the signature and the tags.    *)
LEMMA PublisherFacts ==
  ASSUME RefreshInv, NEW n \in Numbers, NEW p \in Profiles, active = n, runs[n].jobs[p] \in Publishing
  PROVE  /\ Product(n, p) \in Artifacts /\ Product(n, p).image \in signed /\ Product(n, p).image \in Images
         /\ Product(n, p).proof \in Proofs
         /\ Product(n, p).image \notin Promoted /\ Product(n, p).image # NoTag
         /\ Truthful(Own(n, p)) /\ Own(n, p).image = Product(n, p).image /\ Own(n, p).proof = Product(n, p).proof
         /\ Product(n, p).proof.profile = p /\ Product(n, p).proof.run = n
         /\ Product(n, p).proof.attempt = runs[n].attempt
         /\ Product(n, p).proof.base.version = Product(n, p).image.version
         /\ Product(n, p).proof.kernel = Product(n, p).image.kernel
         /\ runs[n].jobs[p] # "attest" => Own(n, p) \in attested
<1>1. JobOK(n, p) /\ Product(n, p) \in Artifacts \union {NoImage}
  BY ActiveJob
<1>2. Product(n, p) # NoImage /\ Honest(Product(n, p)) /\ Executed(Product(n, p))
  BY <1>1 DEF JobOK, Holds, Publishing, Published
<1>3. Consistent(n, p, Product(n, p)) /\ Product(n, p).image \in signed
  BY <1>1 DEF JobOK, Vouched
<1>4. Product(n, p) \in Artifacts
  BY <1>1, <1>2
<1>5. Product(n, p).image \in Images /\ Product(n, p).proof \in Proofs
  BY <1>4 DEF Artifacts
<1>6. /\ Truthful(Own(n, p)) /\ Product(n, p).image \notin Promoted
      /\ Product(n, p).proof.profile = p /\ Product(n, p).proof.run = n
      /\ Product(n, p).proof.attempt = runs[n].attempt
      /\ Product(n, p).proof.base.version = Product(n, p).image.version
      /\ Product(n, p).proof.kernel = Product(n, p).image.kernel
  BY <1>2, <1>3, <1>4, ValidatedIsTrue DEF Own
<1>7. Own(n, p).image = Product(n, p).image /\ Own(n, p).proof = Product(n, p).proof
  BY DEF Own
<1>8. runs[n].jobs[p] # "attest" => Own(n, p) \in attested
  BY <1>1 DEF JobOK, Vouched
<1>. QED
  BY <1>3, <1>4, <1>5, <1>6, <1>7, <1>8, AbsentAssumption

(* A job goes on to the next step of the publisher.                           *)
LEMMA NextStep ==
  ASSUME RefreshInv, NEW n \in Numbers, NEW p \in Profiles, active = n,
         runs[n].jobs[p] \in {"revalidate", "attest", "baseline", "fresh"},
         NEW l \in Publishing, Goto(n, p, l), UNCHANGED <<main, active, tags, faults, clean>>,
         Consistent(n, p, Product(n, p)), Product(n, p).image \in signed',
         l # "attest" => Own(n, p) \in attested',
         l \in {"fresh", "move"} =>
           IF tags[Lead(p)] = NoTag THEN p = "legacy" /\ n = 2 /\ runs[n].attempt = 1
                                    ELSE AtLeast(Product(n, p).image, tags[Lead(p)]),
         signed \subseteq signed', signed' \subseteq Images, attested \subseteq attested',
         attested' \subseteq [image : signed', proof : Proofs], \A x \in attested' : Truthful(x)
  PROVE  Preserved
<1>0. faults' \in 0..MaxFaults /\ clean' \in BOOLEAN /\ l \in Labels /\ runs[n].jobs[p] \notin Terminal
  BY DEF RefreshInv, TypeOK, Labels, Published, Publishing, Terminal
<1>1. /\ runs \in [Numbers -> Runs \union {NoRun}] /\ runs[n] \in Runs /\ JobOK(n, p)
  BY ActiveJob
<1>2. /\ Others(n, p) /\ runs'[n].jobs[p] = l /\ runs'[n].moved[p] = runs[n].moved[p]
      /\ runs'[n].artifact[p] = runs[n].artifact[p] /\ runs'[n].validated[p] = runs[n].validated[p]
  BY <1>0, <1>1, GotoShape
<1>3. /\ runs'[n].base = runs[n].base /\ runs'[n].control = runs[n].control /\ runs'[n].attempt = runs[n].attempt
      /\ Product(n, p)' = Product(n, p)
  BY <1>2 DEF Others, Product
<1>4. runs[n].moved[p] = 0 /\ 0 < Len(Channels[p])
  <2>1. runs[n].moved[p] = 0
    BY <1>1 DEF JobOK, Holds
  <2>2. Len(Channels[p]) \in {1, 2}
    BY ChannelFacts
  <2>. QED
    BY <2>1, <2>2
<1>5. Holds(n, p)'
  BY <1>1, <1>2, <1>3, <1>4 DEF JobOK, Holds, Honest, Executed, Early, Unbuilt, Published, Publishing
<1>6. Vouched(n, p)'
  <2>1. Consistent(n, p, Product(n, p))'
    BY <1>3 DEF Consistent, AboveFloor, Evidence, Policy
  <2>2. Own(n, p)' = Own(n, p)
    BY <1>3 DEF Own
  <2>. QED
    BY <1>2, <1>3, <2>1, <2>2 DEF Vouched, Publishing
<1>7. Cleared(n, p)'
  <2>1. runs'[n].moved[p] = 0 /\ tags' = tags
    BY <1>2, <1>4
  <2>. QED
    BY <1>2, <1>3, <2>1 DEF Cleared
<1>. QED
  BY <1>0, <1>1, <1>2, <1>5, <1>6, <1>7, JobStep DEF JobOK

(* The versions and kernels of images are numbers.                            *)
LEMMA ImageNumbers ==
  ASSUME NEW i \in Images
  PROVE  i.version \in Nat /\ i.kernel \in Nat
<1>1. i.version \in Versions \union {0} /\ i.kernel \in Kernels \union {BadKernel}
  BY DEF Images
<1>2. Versions \subseteq Nat /\ Kernels \subseteq Nat /\ BadKernel \in Nat /\ 0 \in Nat
  BY NumberFacts
<1>. QED
  BY <1>1, <1>2, Zenon

(* A baseline that accepts clears the way for the leading tag.                *)
LEMMA BaselineClears ==
  ASSUME RefreshInv, NEW n \in Numbers, NEW p \in Profiles, At(n, p, "baseline"), Baseline(n, p, Product(n, p).proof)
  PROVE  IF tags[Lead(p)] = NoTag THEN p = "legacy" /\ n = 2 /\ runs[n].attempt = 1
                                  ELSE AtLeast(Product(n, p).image, tags[Lead(p)])
<1>. DEFINE current == tags[Lead(p)]
<1>1. active = n /\ runs[n].jobs[p] \in Publishing
  BY DEF At, Publishing
<1>2. /\ Product(n, p).proof.base.version = Product(n, p).image.version
      /\ Product(n, p).proof.kernel = Product(n, p).image.kernel
  BY <1>1, PublisherFacts
<1>3. CASE current = NoTag
  BY <1>3 DEF Baseline
<1>4. CASE current # NoTag /\ current = Bootstrap
  BY <1>4 DEF AtLeast
<1>5. CASE current # NoTag /\ current # Bootstrap
  <2>1. PICK x \in attested : x.image = current /\ Monotonic(Product(n, p).proof, x.proof)
    BY <1>5 DEF Baseline
  <2>2. Truthful(x)
    BY DEF RefreshInv
  <2>3. x.proof.kernel = current.kernel /\ x.proof.base.version = current.version /\ current \notin Promoted
    BY <2>1, <2>2, PromotedFacts DEF Truthful
  <2>4. Product(n, p).image.version >= current.version /\ Product(n, p).image.kernel >= current.kernel
    BY <1>2, <2>1, <2>3 DEF Monotonic
  <2>. QED
    BY <1>5, <2>3, <2>4 DEF AtLeast
<1>. QED
  BY <1>3, <1>4, <1>5

(* The publisher until it may write the tags.                                 *)
LEMMA PublishSteps ==
  ASSUME RefreshInv, NEW n \in Numbers, NEW p \in Profiles,
         Sign(n, p) \/ Attest(n, p) \/ CheckBaseline(n, p) \/ CheckFresh(n, p) \/ JobFails(n, p)
  PROVE  Preserved
<1>0. active = n /\ UNCHANGED <<main, active, tags>> /\ runs[n].jobs[p] \notin Terminal \union {"resolve"}
  BY DEF Sign, Attest, CheckBaseline, CheckFresh, JobFails, At, Terminal
<1>1. JobOK(n, p) /\ Product(n, p) \in Artifacts \union {NoImage}
  BY <1>0, ActiveJob
<1>2. /\ signed \subseteq Images /\ attested \subseteq [image : signed, proof : Proofs]
      /\ \A x \in attested : Truthful(x)
      /\ faults \in 0..MaxFaults /\ clean \in BOOLEAN
  BY DEF RefreshInv, TypeOK
<1>3. CASE Refuse(n, p) /\ UNCHANGED <<signed, attested, faults, clean>>
  <2>1. faults' \in 0..MaxFaults /\ clean' \in BOOLEAN
    BY <1>2, <1>3
  <2>. QED
    BY <1>0, <1>3, <2>1, RefuseStep
<1>4. CASE JobFails(n, p)
  <2>1. Fault("fail") /\ Refuse(n, p) /\ UNCHANGED <<signed, attested>>
    BY <1>4 DEF JobFails
  <2>2. faults' \in 0..MaxFaults /\ clean' \in BOOLEAN
    BY <2>1, FaultTypes
  <2>. QED
    BY <1>0, <2>1, <2>2, RefuseStep
<1>5. CASE Sign(n, p) /\ ~Refuse(n, p)
  <2>1. /\ runs[n].jobs[p] = "revalidate" /\ Goto(n, p, "attest") /\ UNCHANGED <<attested, faults, clean>>
        /\ Consistent(n, p, Product(n, p)) /\ signed' = signed \union {Product(n, p).image}
    BY <1>5 DEF Sign, At
  <2>2. Product(n, p) \in Artifacts
    BY <1>1, <2>1 DEF JobOK, Holds, Published
  <2>3. Product(n, p).image \in Images
    BY <2>2 DEF Artifacts
  <2>4. signed \subseteq signed' /\ signed' \subseteq Images /\ Product(n, p).image \in signed'
    BY <1>2, <2>1, <2>3
  <2>5. attested' \subseteq [image : signed', proof : Proofs] /\ attested' = attested
    BY <1>2, <2>1, <2>4
  <2>. QED
    BY <1>0, <1>2, <2>1, <2>4, <2>5, NextStep DEF Publishing
<1>6. CASE Attest(n, p)
  <2>1. /\ runs[n].jobs[p] = "attest" /\ Goto(n, p, "baseline") /\ UNCHANGED <<signed, faults, clean>>
        /\ attested' = attested \union {Own(n, p)}
    BY <1>6 DEF Attest, At, Own
  <2>2. /\ Product(n, p).image \in signed /\ Product(n, p).proof \in Proofs /\ Truthful(Own(n, p))
    BY <1>0, <2>1, PublisherFacts DEF Publishing
  <2>3. Own(n, p) \in [image : signed, proof : Proofs]
    BY <2>2 DEF Own
  <2>4. /\ attested \subseteq attested' /\ attested' \subseteq [image : signed', proof : Proofs]
        /\ Own(n, p) \in attested' /\ \A x \in attested' : Truthful(x)
    BY <1>2, <2>1, <2>2, <2>3
  <2>5. Consistent(n, p, Product(n, p))
    BY <1>1, <2>1 DEF JobOK, Vouched, Publishing
  <2>. QED
    BY <1>0, <1>2, <2>1, <2>2, <2>4, <2>5, NextStep DEF Publishing
<1>7. CASE (CheckBaseline(n, p) \/ CheckFresh(n, p)) /\ ~Refuse(n, p)
  <2>1. /\ runs[n].jobs[p] \in {"baseline", "fresh"} /\ runs[n].jobs[p] \in Publishing /\ runs[n].jobs[p] # "attest"
        /\ UNCHANGED <<signed, attested, faults, clean>>
    BY <1>7 DEF CheckBaseline, CheckFresh, At, Publishing
  <2>2. Product(n, p).image \in signed /\ Own(n, p) \in attested /\ Consistent(n, p, Product(n, p))
    BY <1>1, <2>1 DEF JobOK, Vouched
  <2>3. IF tags[Lead(p)] = NoTag THEN p = "legacy" /\ n = 2 /\ runs[n].attempt = 1
                                 ELSE AtLeast(Product(n, p).image, tags[Lead(p)])
    <3>1. CASE CheckBaseline(n, p)
      BY <1>7, <3>1, BaselineClears DEF CheckBaseline
    <3>2. CASE CheckFresh(n, p)
      <4>1. runs[n].jobs[p] = "fresh"
        BY <3>2 DEF CheckFresh, At
      <4>2. runs[n].moved[p] = 0
        BY <1>1, <4>1 DEF JobOK, Holds
      <4>. QED
        BY <1>1, <4>1, <4>2 DEF JobOK, Cleared
    <3>. QED
      BY <1>7, <3>1, <3>2
  <2>4. PICK l \in {"fresh", "move"} : Goto(n, p, l)
    BY <1>7 DEF CheckBaseline, CheckFresh
  <2>5. l \in Publishing
    BY DEF Publishing
  <2>. QED
    BY <1>0, <1>2, <2>1, <2>2, <2>3, <2>4, <2>5, NextStep
<1>8. Sign(n, p) => ~Refuse(n, p) \/ (Refuse(n, p) /\ UNCHANGED <<signed, attested, faults, clean>>)
  <2>1. ASSUME Goto(n, p, "attest"), Refuse(n, p), runs[n].jobs[p] = "revalidate" PROVE FALSE
    <3>1. FailedAt(runs[n].jobs[p]) = "publish-failed"
      BY <2>1 DEF FailedAt
    <3>2. runs \in [Numbers -> Runs \union {NoRun}] /\ runs[n] \in Runs /\ "attest" \in Labels /\ "publish-failed" \in Labels
      BY <1>0, ActiveJob DEF Labels, Terminal, Published
    <3>3. runs'[n].jobs[p] = "attest" /\ runs'[n].jobs[p] = "publish-failed"
      BY <2>1, <3>1, <3>2, GotoShape DEF Refuse
    <3>. QED
      BY <3>3
  <2>. QED
    BY <2>1 DEF Sign, At
<1>9. CheckBaseline(n, p) \/ CheckFresh(n, p) => UNCHANGED <<signed, attested, faults, clean>>
  BY DEF CheckBaseline, CheckFresh
<1>. QED
  BY <1>3, <1>4, <1>5, <1>6, <1>7, <1>8, <1>9

---------------------------------------------------------------------------
(* The tags.                                                                  *)

(* Not being older is transitive among images of refreshes.                   *)
LEMMA AtLeastTransitive ==
  ASSUME NEW i \in Images, NEW j \in Images, NEW k \in Images, j \notin Promoted,
         AtLeast(i, j), AtLeast(j, k)
  PROVE  AtLeast(i, k)
<1>1. /\ i.version \in Nat /\ i.kernel \in Nat /\ j.version \in Nat /\ j.kernel \in Nat
      /\ k.version \in Nat /\ k.kernel \in Nat
  BY ImageNumbers
<1>2. i.version >= j.version /\ i.kernel >= j.kernel
  BY PromotedFacts DEF AtLeast
<1>. QED
  BY <1>1, <1>2 DEF AtLeast

(* What a publisher may rely on when it writes a tag.                         *)
LEMMA MoveFacts ==
  ASSUME RefreshInv, NEW n \in Numbers, NEW p \in Profiles, At(n, p, "move")
  PROVE  /\ p = "system" =>
              /\ NextTag(n, p) = "snitchwatch-system" /\ runs[n].moved[p] = 0
              /\ tags["snitchwatch-system"] # NoTag
              /\ AtLeast(Product(n, p).image, tags["snitchwatch-system"])
         /\ p = "legacy" /\ runs[n].moved[p] = 0 =>
              /\ NextTag(n, p) = "stable"
              /\ tags["latest"] # NoTag => AtLeast(Product(n, p).image, tags["latest"])
              /\ tags["stable"] # NoTag => AtLeast(Product(n, p).image, tags["stable"])
              /\ tags["stable"] = NoTag => ~Recovered /\ n = 2
         /\ p = "legacy" /\ runs[n].moved[p] # 0 =>
              /\ NextTag(n, p) = "latest" /\ runs[n].moved[p] = 1
              /\ tags["stable"] = Product(n, p).image
              /\ tags["latest"] # NoTag => AtLeast(Product(n, p).image, tags["latest"])
<1>0. active = n /\ runs[n].jobs[p] = "move" /\ runs[n].jobs[p] \in Publishing
  BY DEF At, Publishing
<1>1. JobOK(n, p) /\ runs[n].moved[p] \in 0..2 /\ runs[n] # NoRun /\ runs[n] \in Runs
  BY <1>0, ActiveJob
<1>2. runs[n].moved[p] < Len(Channels[p])
  BY <1>0, <1>1 DEF JobOK, Holds
<1>3. Product(n, p).image \in Images /\ Product(n, p).image \notin Promoted
  BY <1>0, PublisherFacts
<1>4. /\ runs[n].moved[p] = 0 =>
           IF tags[Lead(p)] = NoTag THEN p = "legacy" /\ n = 2 /\ runs[n].attempt = 1
                                    ELSE AtLeast(Product(n, p).image, tags[Lead(p)])
      /\ runs[n].moved[p] = 1 =>
           /\ tags["stable"] = Product(n, p).image
           /\ tags["latest"] # NoTag => AtLeast(Product(n, p).image, tags["latest"])
  BY <1>0, <1>1 DEF JobOK, Cleared
<1>5. TagsOK /\ AliasTrails /\ signed \subseteq Images /\ tags \in [Tags -> signed \union {NoTag}]
  BY DEF RefreshInv, TypeOK
<1>6. CASE p = "system"
  <2>1. runs[n].moved[p] = 0
    BY <1>1, <1>2, <1>6, ChannelFacts
  <2>2. NextTag(n, p) = "snitchwatch-system"
    BY <1>6, <2>1 DEF NextTag, Channels
  <2>. QED
    BY <1>4, <1>6, <2>1, <2>2, ChannelFacts
<1>7. CASE p = "legacy" /\ runs[n].moved[p] # 0
  <2>1. runs[n].moved[p] = 1
    BY <1>1, <1>2, <1>7, ChannelFacts
  <2>2. NextTag(n, p) = "latest"
    BY <1>7, <2>1 DEF NextTag, Channels
  <2>. QED
    BY <1>4, <1>7, <2>1, <2>2
<1>8. CASE p = "legacy" /\ runs[n].moved[p] = 0
  <2>1. NextTag(n, p) = "stable"
    BY <1>8 DEF NextTag, Channels
  <2>2. ASSUME tags["stable"] = NoTag PROVE ~Recovered /\ n = 2 /\ tags["latest"] = NoTag
    <3>1. n = 2 /\ runs[n].attempt = 1
      BY <1>4, <1>8, <2>2, ChannelFacts
    <3>2. ~Recovered
      BY <1>0, <1>8, <3>1 DEF Recovered
    <3>. QED
      BY <1>5, <3>1, <3>2 DEF TagsOK
  <2>3. ASSUME tags["stable"] # NoTag, tags["latest"] # NoTag PROVE AtLeast(Product(n, p).image, tags["latest"])
    <3>1. AtLeast(Product(n, p).image, tags["stable"]) /\ AtLeast(tags["stable"], tags["latest"])
      BY <1>4, <1>5, <1>8, <2>3, ChannelFacts DEF AliasTrails
    <3>2. tags["stable"] \in Images /\ tags["latest"] \in Images
      BY <1>5, <2>3, ChannelFacts
    <3>3. tags["stable"] \notin Promoted
      BY <1>5, <2>3, PromotedFacts DEF TagsOK, Witnessed, RefreshInv, Truthful
    <3>. QED
      BY <1>3, <3>1, <3>2, <3>3, AtLeastTransitive
  <2>. QED
    BY <1>4, <1>8, <2>1, <2>2, <2>3, ChannelFacts
<1>. QED
  BY <1>6, <1>7, <1>8, ChannelFacts

(* A publisher wrote a tag and went on, was done, or never got the answer.    *)
Wrote(n, p) ==
  /\ Others(n, p) /\ tags' = [tags EXCEPT ![NextTag(n, p)] = Product(n, p).image]
  /\ runs'[n].artifact[p] = runs[n].artifact[p] /\ runs'[n].validated[p] = runs[n].validated[p]
  /\ \/ runs'[n].jobs[p] = "publish-failed" /\ runs'[n].moved[p] = runs[n].moved[p]
     \/ runs'[n].jobs[p] = "done" /\ runs'[n].moved[p] = runs[n].moved[p] + 1
     \/ runs'[n].jobs[p] = "move" /\ runs'[n].moved[p] = runs[n].moved[p] + 1 /\ runs'[n].moved[p] < Len(Channels[p])
  /\ UNCHANGED <<main, active, signed, attested>>

(* What Move and MoveLost do.                                                 *)
LEMMA MoveWrites ==
  ASSUME RefreshInv, NEW n \in Numbers, NEW p \in Profiles, Move(n, p) \/ MoveLost(n, p)
  PROVE  At(n, p, "move") /\ Wrote(n, p) /\ faults' \in 0..MaxFaults /\ clean' \in BOOLEAN
<1>0. active = n /\ runs[n].jobs[p] = "move" /\ At(n, p, "move")
  BY DEF Move, MoveLost, At
<1>1. runs \in [Numbers -> Runs \union {NoRun}] /\ runs[n] \in Runs /\ runs[n].moved[p] \in 0..2 /\ JobOK(n, p)
  BY <1>0, ActiveJob
<1>2. runs[n].moved[p] < Len(Channels[p]) /\ Len(Channels[p]) \in {1, 2}
  BY <1>0, <1>1, ChannelFacts DEF JobOK, Holds
<1>3. CASE Move(n, p)
  <2>. DEFINE m == runs[n].moved[p] + 1
              l == IF m = Len(Channels[p]) THEN "done" ELSE "move"
  <2>1. Counted(n, p, m, l)
    BY <1>3 DEF Move, Counted
  <2>2. l \in Labels /\ l \in {"done", "move"}
    BY DEF Labels, Terminal, Published
  <2>3. m \in 0..2 /\ (l = "move" => m < Len(Channels[p])) /\ m = runs[n].moved[p] + 1
    <3>. DEFINE old == runs[n].moved[p]
                length == Len(Channels[p])
    <3>1. old \in 0..2 /\ old < length /\ length \in {1, 2}
      BY <1>1, <1>2
    <3>2. m = old + 1 /\ l = IF old + 1 = length THEN "done" ELSE "move"
      OBVIOUS
    <3>. HIDE DEF old, length, m, l
    <3>3. m \in 0..2 /\ (m # length => m < length)
      BY <3>1, <3>2
    <3>. QED
      BY <3>2, <3>3 DEF old, length
  <2>. HIDE DEF m, l
  <2>4. /\ Others(n, p) /\ runs'[n].jobs[p] = l /\ runs'[n].moved[p] = m
        /\ runs'[n].artifact[p] = runs[n].artifact[p] /\ runs'[n].validated[p] = runs[n].validated[p]
    BY <1>1, <2>1, <2>2, <2>3, MoveShape
  <2>5. faults' \in 0..MaxFaults /\ clean' \in BOOLEAN
    BY <1>3 DEF Move, RefreshInv, TypeOK
  <2>6. tags' = [tags EXCEPT ![NextTag(n, p)] = Product(n, p).image] /\ UNCHANGED <<main, active, signed, attested>>
    BY <1>3 DEF Move
  <2>. QED
    BY <1>0, <2>2, <2>3, <2>4, <2>5, <2>6 DEF Wrote
<1>4. CASE MoveLost(n, p)
  <2>1. Fault("lost") /\ Goto(n, p, "publish-failed")
    BY <1>4 DEF MoveLost
  <2>2. faults' \in 0..MaxFaults /\ clean' \in BOOLEAN
    BY <2>1, FaultTypes
  <2>3. "publish-failed" \in Labels
    BY DEF Labels, Terminal
  <2>4. /\ Others(n, p) /\ runs'[n].jobs[p] = "publish-failed" /\ runs'[n].moved[p] = runs[n].moved[p]
        /\ runs'[n].artifact[p] = runs[n].artifact[p] /\ runs'[n].validated[p] = runs[n].validated[p]
    BY <1>1, <2>1, <2>3, GotoShape
  <2>5. tags' = [tags EXCEPT ![NextTag(n, p)] = Product(n, p).image] /\ UNCHANGED <<main, active, signed, attested>>
    BY <1>4 DEF MoveLost
  <2>. QED
    BY <1>0, <2>2, <2>4, <2>5 DEF Wrote
<1>. QED
  BY <1>3, <1>4

(* Which tag changed.                                                         *)
LEMMA WroteTag ==
  ASSUME RefreshInv, NEW n \in Numbers, NEW p \in Profiles, At(n, p, "move"), Wrote(n, p)
  PROVE  /\ p = "system" =>
              /\ tags'["snitchwatch-system"] = Product(n, p).image
              /\ tags'["stable"] = tags["stable"] /\ tags'["latest"] = tags["latest"]
         /\ p = "legacy" => tags'["snitchwatch-system"] = tags["snitchwatch-system"]
         /\ p = "legacy" /\ runs[n].moved[p] = 0 =>
              tags'["stable"] = Product(n, p).image /\ tags'["latest"] = tags["latest"]
         /\ p = "legacy" /\ runs[n].moved[p] # 0 =>
              tags'["latest"] = Product(n, p).image /\ tags'["stable"] = tags["stable"]
         /\ tags' \in [Tags -> signed \union {NoTag}]
<1>1. active = n /\ runs[n].jobs[p] \in Publishing
  BY DEF At, Publishing
<1>2. Product(n, p).image \in signed
  BY <1>1, PublisherFacts
<1>3. /\ NextTag(n, p) \in Tags
      /\ p = "system" => NextTag(n, p) = "snitchwatch-system"
      /\ p = "legacy" /\ runs[n].moved[p] = 0 => NextTag(n, p) = "stable"
      /\ p = "legacy" /\ runs[n].moved[p] # 0 => NextTag(n, p) = "latest"
  BY MoveFacts, ChannelFacts
<1>4. tags \in [Tags -> signed \union {NoTag}] /\ tags' = [tags EXCEPT ![NextTag(n, p)] = Product(n, p).image]
  BY DEF RefreshInv, TypeOK, Wrote
<1>5. tags' \in [Tags -> signed \union {NoTag}]
  BY <1>2, <1>3, <1>4
<1>6. tags'[NextTag(n, p)] = Product(n, p).image /\ \A t \in Tags \ {NextTag(n, p)} : tags'[t] = tags[t]
  BY <1>3, <1>4
<1>. QED
  BY <1>3, <1>5, <1>6, ChannelFacts

(* A publisher writes the next tag of its channel.                            *)
LEMMA MoveSteps ==
  ASSUME RefreshInv, NEW n \in Numbers, NEW p \in Profiles, Move(n, p) \/ MoveLost(n, p)
  PROVE  Preserved
<1>. DEFINE image == Product(n, p).image
<1>0. At(n, p, "move") /\ Wrote(n, p) /\ faults' \in 0..MaxFaults /\ clean' \in BOOLEAN
  BY MoveWrites
<1>1. active = n /\ runs[n].jobs[p] = "move" /\ runs[n].jobs[p] \in Publishing
  BY <1>0 DEF At, Publishing
<1>2. /\ runs[n] \in Runs /\ runs[n] # NoRun /\ JobOK(n, p) /\ runs[n].moved[p] \in 0..2
  BY <1>1, ActiveJob
<1>3. /\ Others(n, p) /\ UNCHANGED <<main, active, signed, attested>>
      /\ runs'[n].artifact[p] = runs[n].artifact[p] /\ runs'[n].validated[p] = runs[n].validated[p]
      /\ runs'[n].base = runs[n].base /\ runs'[n].control = runs[n].control /\ runs'[n].attempt = runs[n].attempt
      /\ Product(n, p)' = Product(n, p)
  BY <1>0 DEF Wrote, Others, Product
<1>4. /\ runs'[n].moved[p] \in Nat /\ runs[n].moved[p] \in Nat /\ runs'[n].moved[p] >= runs[n].moved[p]
      /\ runs'[n].jobs[p] = "move" => runs'[n].moved[p] # 0 /\ runs'[n].moved[p] < Len(Channels[p])
      /\ runs'[n].jobs[p] = "move" /\ runs'[n].moved[p] = 1 => runs[n].moved[p] = 0
      /\ runs'[n].jobs[p] \in {"move", "done", "publish-failed"}
      /\ runs'[n].jobs[p] \in {"done", "publish-failed"} \/ runs'[n].moved[p] > 0
  BY <1>0, <1>2 DEF Wrote
<1>5. /\ image \in signed /\ image \in Images /\ image \notin Promoted /\ image # NoTag
      /\ Own(n, p) \in attested /\ Own(n, p).image = image /\ Own(n, p).proof.profile = p
  BY <1>1, PublisherFacts
<1>6. /\ TagsOK /\ AliasTrails /\ JobsOK /\ TypeOK /\ \A x \in attested : Truthful(x)
  BY DEF RefreshInv, JobsOK
<1>. HIDE DEF image
<1>7. Holds(n, p)'
  BY <1>1, <1>2, <1>3, <1>4 DEF JobOK, Holds, Honest, Executed, Early, Unbuilt, Published
<1>8. Vouched(n, p)'
  <2>1. Consistent(n, p, Product(n, p))' <=> Consistent(n, p, Product(n, p))
    BY <1>3 DEF Consistent, AboveFloor, Evidence, Policy
  <2>2. Own(n, p)' = Own(n, p)
    BY <1>3 DEF Own
  <2>3. Consistent(n, p, Product(n, p)) /\ Product(n, p).image \in signed
    BY <1>1, <1>2 DEF JobOK, Vouched
  <2>. QED
    BY <1>1, <1>3, <1>5, <2>1, <2>2, <2>3 DEF Vouched
<1>9. Cleared(n, p)'
  <2>1. CASE runs'[n].jobs[p] # "move"
    BY <1>4, <2>1 DEF Cleared
  <2>2. CASE runs'[n].jobs[p] = "move" /\ runs'[n].moved[p] = 1
    <3>1. runs[n].moved[p] = 0 /\ 1 < Len(Channels[p])
      BY <1>4, <2>2
    <3>2. p # "system"
      BY <3>1, ChannelFacts
    <3>3. p = "legacy"
      BY <3>2 DEF Profiles
    <3>4. tags'["stable"] = image /\ tags'["latest"] = tags["latest"]
      BY <1>0, <3>1, <3>3, WroteTag DEF image
    <3>5. tags["latest"] # NoTag => AtLeast(image, tags["latest"])
      BY <1>0, <3>1, <3>3, MoveFacts DEF image
    <3>. QED
      BY <1>3, <2>2, <3>4, <3>5 DEF Cleared, image, AtLeast
  <2>3. CASE runs'[n].jobs[p] = "move" /\ runs'[n].moved[p] # 1
    BY <1>4, <2>3 DEF Cleared
  <2>. QED
    BY <2>1, <2>2, <2>3
<1>10. JobsOK'
  <2>1. \A q \in Profiles \ {p} : SameTags(q)
    BY <1>0, WroteTag, ChannelFacts DEF SameTags
  <2>. QED
    BY <1>1, <1>2, <1>3, <1>6, <1>7, <1>8, <1>9, <2>1, OtherJobs DEF JobOK
<1>11. Recovered => Recovered'
  BY <1>1, <1>2, <1>3, <1>4, RecoveredStays DEF Terminal
<1>12. p = "legacy" => Recovered'
  <2>1. CASE p = "legacy" /\ n = 2
    BY <1>3, <1>4, <2>1, AbsentAssumption DEF Recovered, Others
  <2>2. CASE p = "legacy" /\ n # 2
    <3>1. tags["stable"] # NoTag
      BY <1>0, <1>5, <2>2, MoveFacts DEF image
    <3>. QED
      BY <1>6, <1>11, <3>1 DEF TagsOK
  <2>. QED
    BY <2>1, <2>2
<1>13. TagsOK'
  <2>1. CASE p = "system"
    <3>1. tags'["snitchwatch-system"] = image /\ tags'["stable"] = tags["stable"] /\ tags'["latest"] = tags["latest"]
      BY <1>0, <2>1, WroteTag DEF image
    <3>2. Witnessed("snitchwatch-system", "system")'
      BY <1>3, <1>5, <2>1, <3>1 DEF Witnessed
    <3>. QED
      BY <1>3, <1>6, <1>11, <3>1, <3>2 DEF TagsOK, Witnessed
  <2>2. CASE p = "legacy" /\ runs[n].moved[p] = 0
    <3>1. tags'["snitchwatch-system"] = tags["snitchwatch-system"] /\ tags'["stable"] = image /\ tags'["latest"] = tags["latest"]
      BY <1>0, <2>2, WroteTag DEF image
    <3>2. Witnessed("stable", "legacy")'
      BY <1>3, <1>5, <2>2, <3>1 DEF Witnessed
    <3>. QED
      BY <1>3, <1>6, <1>12, <2>2, <3>1, <3>2 DEF TagsOK, Witnessed
  <2>3. CASE p = "legacy" /\ runs[n].moved[p] # 0
    <3>1. tags'["snitchwatch-system"] = tags["snitchwatch-system"] /\ tags'["latest"] = image /\ tags'["stable"] = tags["stable"]
      BY <1>0, <2>3, WroteTag DEF image
    <3>2. Witnessed("latest", "legacy")'
      BY <1>3, <1>5, <2>3, <3>1 DEF Witnessed
    <3>. QED
      BY <1>3, <1>6, <1>12, <2>3, <3>1, <3>2 DEF TagsOK, Witnessed
  <2>. QED
    BY <2>1, <2>2, <2>3 DEF Profiles
<1>14. AliasTrails'
  <2>1. CASE p = "system"
    <3>1. tags'["stable"] = tags["stable"] /\ tags'["latest"] = tags["latest"]
      BY <1>0, <2>1, WroteTag
    <3>. QED
      BY <1>6, <3>1 DEF AliasTrails, AtLeast
  <2>2. CASE p = "legacy" /\ runs[n].moved[p] = 0
    <3>1. tags'["stable"] = image /\ tags'["latest"] = tags["latest"]
      BY <1>0, <2>2, WroteTag DEF image
    <3>2. tags["latest"] # NoTag => AtLeast(image, tags["latest"])
      BY <1>0, <2>2, MoveFacts DEF image
    <3>. QED
      BY <3>1, <3>2 DEF AliasTrails, AtLeast
  <2>3. CASE p = "legacy" /\ runs[n].moved[p] # 0
    <3>1. tags'["latest"] = image /\ tags'["stable"] = image
      BY <1>0, <2>3, WroteTag, MoveFacts DEF image
    <3>2. image.version \in Nat /\ image.kernel \in Nat
      BY <1>5, ImageNumbers
    <3>3. image.version >= image.version /\ image.kernel >= image.kernel
      BY <3>2
    <3>. QED
      BY <1>5, <3>1, <3>3 DEF AliasTrails, AtLeast
  <2>. QED
    BY <2>1, <2>2, <2>3 DEF Profiles
<1>15. TypeOK'
  <2>1. tags' \in [Tags -> signed \union {NoTag}]
    BY <1>0, WroteTag
  <2>. QED
    BY <1>0, <1>3, <1>6, <2>1 DEF TypeOK, Others
<1>16. active' # 0 => runs'[active'] # NoRun
  BY <1>1, <1>3, AbsentAssumption DEF Others
<1>. QED
  BY <1>3, <1>6, <1>10, <1>11, <1>13, <1>14, <1>15, <1>16 DEF Preserved, RefreshInv, JobsOK, Truthful

---------------------------------------------------------------------------
(* The life of a run.                                                         *)

(* Nobody publishes between runs.                                             *)
LEMMA NobodyPublishes ==
  ASSUME JobsOK, active = 0, NEW k \in Numbers, runs[k] # NoRun, NEW q \in Profiles
  PROVE  runs[k].jobs[q] \notin Publishing
BY NumberFacts DEF JobsOK, JobOK, Vouched

(* All jobs are idle.                                                         *)
LEMMA IdleJobs ==
  ASSUME JobsOK, UNCHANGED <<runs, attested>>, signed \subseteq signed',
         \A k \in Numbers, q \in Profiles :
           runs[k] # NoRun /\ runs[k].jobs[q] \in Publishing => active' = active /\ SameTags(q)
  PROVE  JobsOK'
<1>1. ASSUME NEW k \in Numbers, runs'[k] # NoRun, NEW q \in Profiles PROVE JobOK(k, q)'
  <2>1. JobOK(k, q) /\ runs' = runs /\ (runs[k].jobs[q] \in Publishing => active' = active /\ SameTags(q))
    BY <1>1 DEF JobsOK
  <2>. QED
    BY <2>1, IdleJob
<1>. QED
  BY <1>1 DEF JobsOK

(* A step that concerns a run as a whole.                                     *)
LEMMA RunStep ==
  ASSUME RefreshInv, NEW n \in Numbers, NEW r \in Runs, Becomes(n, r),
         UNCHANGED <<main, active, tags, signed, attested>>, faults' \in 0..MaxFaults, clean' \in BOOLEAN,
         \A p \in Profiles : JobOK(n, p)', Recovered => Recovered'
  PROVE  Preserved
<1>1. TypeOK /\ JobsOK /\ TagsOK /\ AliasTrails /\ (active # 0 => runs[active] # NoRun) /\ \A x \in attested : Truthful(x)
  BY DEF RefreshInv, JobsOK
<1>2. runs \in [Numbers -> Runs \union {NoRun}] /\ active \in Numbers \union {0}
  BY <1>1 DEF TypeOK
<1>3. runs' \in [Numbers -> Runs \union {NoRun}] /\ runs'[n] = r /\ \A k \in Numbers \ {n} : runs'[k] = runs[k]
  BY <1>2 DEF Becomes
<1>4. TypeOK'
  BY <1>1, <1>3 DEF TypeOK
<1>5. JobsOK'
  <2>1. ASSUME NEW k \in Numbers, runs'[k] # NoRun, k # n, NEW q \in Profiles PROVE JobOK(k, q)'
    <3>1. runs'[k] = runs[k] /\ JobOK(k, q) /\ active' = active /\ SameTags(q)
      BY <1>1, <1>3, <2>1 DEF JobsOK, SameTags
    <3>. QED
      BY <3>1, IdleJob
  <2>. QED
    BY <2>1 DEF JobsOK
<1>6. TagsOK' /\ AliasTrails'
  BY <1>1, QuietTags
<1>7. active' # 0 => runs'[active'] # NoRun
  BY <1>1, <1>2, <1>3, AbsentAssumption
<1>. QED
  BY <1>1, <1>4, <1>5, <1>6, <1>7 DEF Preserved, RefreshInv, JobsOK, Truthful

(* A run at its beginning, or at the beginning of a whole new attempt.        *)
LEMMA BeginStep ==
  ASSUME RefreshInv, NEW n \in Numbers, NEW c \in 1..Len(Policies), NEW t \in Nat \ {0},
         runs[n] # NoRun => t > 1, UNCHANGED <<main, active, tags, signed, attested, faults, clean>>,
         Becomes(n, Beginning(c, t))
  PROVE  Preserved
<1>. DEFINE j == [p \in Profiles |-> "resolve"]
            m == [p \in Profiles |-> 0]
            r == [control |-> c, attempt |-> t, base |-> NoBase, jobs |-> j, moved |-> m,
                  artifact |-> NoArtifacts, validated |-> NoArtifacts]
            As == Artifacts \union {NoImage}
<1>1. j \in [Profiles -> Labels] /\ m \in [Profiles -> 0..2] /\ NoArtifacts \in [Profiles -> As]
  BY DEF Labels, NoArtifacts
<1>2. \A p \in Profiles : j[p] = "resolve" /\ m[p] = 0 /\ NoArtifacts[p] = NoImage
  BY DEF NoArtifacts
<1>3. Runs = [control : 1..Len(Policies), attempt : Nat \ {0}, base : Bases \union {NoBase},
              jobs : [Profiles -> Labels], moved : [Profiles -> 0..2],
              artifact : [Profiles -> As], validated : [Profiles -> As]]
  BY DEF Runs
<1>4. Becomes(n, r)
  BY DEF Beginning
<1>. HIDE DEF j, m, As
<1>5. /\ r \in Runs /\ r.jobs = j /\ r.moved = m /\ r.artifact = NoArtifacts /\ r.validated = NoArtifacts /\ r.attempt = t
  BY <1>1, <1>3
<1>. HIDE DEF r
<1>6. runs \in [Numbers -> Runs \union {NoRun}] /\ faults' \in 0..MaxFaults /\ clean' \in BOOLEAN
  BY DEF RefreshInv, TypeOK
<1>7. runs'[n] = r /\ \A k \in Numbers \ {n} : runs'[k] = runs[k]
  BY <1>4, <1>6 DEF Becomes
<1>8. ASSUME NEW p \in Profiles PROVE JobOK(n, p)'
  BY <1>2, <1>5, <1>7 DEF JobOK, Holds, Vouched, Cleared, Product, Early, Unbuilt, Published, Publishing
<1>9. Recovered => Recovered'
  <2>1. CASE n = 2
    <3>1. runs[n] # NoRun => runs'[2].attempt > 1 /\ runs'[2] # NoRun
      BY <1>5, <1>7, <2>1, AbsentAssumption
    <3>. QED
      BY <2>1, <3>1 DEF Recovered
  <2>2. CASE n # 2
    <3>1. runs'[2] = runs[2]
      BY <1>7, <2>2, NumberFacts
    <3>. QED
      BY <3>1 DEF Recovered
  <2>. QED
    BY <2>1, <2>2
<1>. QED
  BY <1>4, <1>5, <1>6, <1>8, <1>9, RunStep

(* A run is dispatched, or repeated as a whole.                               *)
LEMMA BeginSteps ==
  ASSUME RefreshInv, NEW n \in Numbers, Dispatch(n) \/ Rerun(n)
  PROVE  Preserved
<1>1. runs \in [Numbers -> Runs \union {NoRun}] /\ main \in 1..Len(Policies)
  BY DEF RefreshInv, TypeOK
<1>2. CASE Dispatch(n)
  <2>1. /\ runs[n] = NoRun /\ UNCHANGED <<main, active, tags, signed, attested, faults, clean>>
        /\ Becomes(n, Beginning(main, 1))
    BY <1>2 DEF Dispatch, Becomes
  <2>2. 1 \in Nat \ {0}
    OBVIOUS
  <2>. QED
    BY <1>1, <2>1, <2>2, BeginStep
<1>3. CASE Rerun(n)
  <2>1. /\ runs[n] # NoRun /\ UNCHANGED <<main, active, tags, signed, attested, faults, clean>>
        /\ Becomes(n, Beginning(runs[n].control, runs[n].attempt + 1))
    BY <1>3 DEF Rerun, Becomes
  <2>2. runs[n] \in Runs
    BY <1>1, <2>1
  <2>3. runs[n].control \in 1..Len(Policies) /\ runs[n].attempt \in Nat \ {0}
    BY <2>2 DEF Runs
  <2>4. runs[n].attempt + 1 \in Nat \ {0} /\ runs[n].attempt + 1 > 1
    BY <2>3
  <2>. QED
    BY <2>1, <2>3, <2>4, BeginStep
<1>. QED
  BY <1>2, <1>3

(* The failed jobs of a run are repeated.                                     *)
LEMMA RerunFailedStep ==
  ASSUME RefreshInv, NEW n \in Numbers, RerunFailed(n)
  PROVE  Preserved
<1>. DEFINE again(label) == CASE label = "build-failed" -> "build"
                              [] label = "validate-failed" -> "built"
                              [] label = "publish-failed" -> "revalidate"
                              [] OTHER -> label
            t == runs[n].attempt + 1
            j == [p \in Profiles |-> again(runs[n].jobs[p])]
            m == [p \in Profiles |-> IF runs[n].jobs[p] = "done" THEN runs[n].moved[p] ELSE 0]
            r == [runs[n] EXCEPT !.attempt = t, !.jobs = j, !.moved = m]
            As == Artifacts \union {NoImage}
<1>1. /\ runs \in [Numbers -> Runs \union {NoRun}] /\ faults \in 0..MaxFaults /\ clean \in BOOLEAN /\ JobsOK
  BY DEF RefreshInv, TypeOK, JobsOK
<1>2. /\ runs[n] # NoRun /\ active = 0 /\ UNCHANGED <<main, active, tags, signed, attested, faults, clean>>
      /\ Becomes(n, r)
  BY DEF RerunFailed, GroupFree, Becomes
<1>3. runs[n] \in Runs
  BY <1>1, <1>2
<1>4. /\ \A p \in Profiles : runs[n].jobs[p] \in Labels /\ runs[n].moved[p] \in 0..2
      /\ runs[n].attempt \in Nat \ {0}
  BY <1>3, SameHands DEF Runs
<1>5. \A p \in Profiles :
        /\ j[p] = again(runs[n].jobs[p])
        /\ m[p] = IF runs[n].jobs[p] = "done" THEN runs[n].moved[p] ELSE 0
  OBVIOUS
<1>6. t \in Nat \ {0} /\ t > 1
  BY <1>4
<1>7. ASSUME NEW l \in Labels
      PROVE  /\ again(l) \in Labels /\ (again(l) \in Early => l \in Early) /\ (l \in Early => again(l) \in Early)
             /\ again(l) \in Unbuilt <=> l \in Unbuilt
             /\ again(l) \in Published => l \in Published
             /\ again(l) \in Publishing => l \in Publishing
             /\ again(l) = "done" => l = "done"
             /\ again(l) \notin {"build-failed", "validate-failed", "publish-failed"}
  BY DEF Labels, Terminal, Published, Publishing, Early, Unbuilt
<1>. HIDE DEF again
<1>8. \A p \in Profiles : j[p] \in Labels /\ m[p] \in 0..2
  <2>1. ASSUME NEW p \in Profiles PROVE m[p] \in 0..2
    BY <1>4, <1>5
  <2>. QED
    BY <1>4, <1>5, <1>7, <2>1
<1>9. j \in [Profiles -> Labels] /\ m \in [Profiles -> 0..2]
  BY <1>8
<1>10. Runs = [control : 1..Len(Policies), attempt : Nat \ {0}, base : Bases \union {NoBase},
               jobs : [Profiles -> Labels], moved : [Profiles -> 0..2],
               artifact : [Profiles -> As], validated : [Profiles -> As]]
  BY DEF Runs
<1>. HIDE DEF j, m, t, As
<1>11. /\ r \in Runs /\ r.jobs = j /\ r.moved = m /\ r.attempt = t /\ r.base = runs[n].base
       /\ r.artifact = runs[n].artifact /\ r.validated = runs[n].validated
  BY <1>3, <1>6, <1>9, <1>10
<1>. HIDE DEF r
<1>12. runs'[n] = r /\ \A k \in Numbers \ {n} : runs'[k] = runs[k]
  BY <1>1, <1>2 DEF Becomes
<1>13. ASSUME NEW p \in Profiles PROVE JobOK(n, p)'
  <2>. DEFINE l == runs[n].jobs[p]
  <2>1. l \in Labels /\ l \notin Publishing /\ Holds(n, p)
    BY <1>1, <1>2, <1>4, NobodyPublishes DEF JobsOK, JobOK
  <2>2. runs'[n].jobs[p] = again(l) /\ runs'[n].moved[p] = (IF l = "done" THEN runs[n].moved[p] ELSE 0)
    BY <1>5, <1>11, <1>12
  <2>3. /\ runs'[n].base = runs[n].base /\ runs'[n].artifact[p] = runs[n].artifact[p]
        /\ Product(n, p)' = Product(n, p)
    BY <1>11, <1>12 DEF Product
  <2>4. again(l) \notin Publishing /\ again(l) \notin {"fresh", "move"}
    BY <1>7, <2>1 DEF Publishing
  <2>5. again(l) # "done" => runs'[n].moved[p] = 0
    <3>1. l = "done" => again(l) = "done"
      BY DEF again
    <3>. QED
      BY <2>2, <3>1
  <2>6. Holds(n, p)'
    <3>1. /\ again(l) \notin Early => l \notin Early
          /\ again(l) \notin Unbuilt => l \notin Unbuilt
          /\ again(l) \in Published => l \in Published
      BY <1>7, <2>1
    <3>. QED
      BY <2>1, <2>2, <2>3, <2>4, <2>5, <3>1 DEF Holds, Honest, Executed
  <2>. QED
    BY <2>2, <2>4, <2>6 DEF JobOK, Vouched, Cleared
<1>14. Recovered => Recovered'
  <2>1. CASE n = 2
    BY <1>6, <1>11, <1>12, <2>1, AbsentAssumption DEF Recovered
  <2>2. CASE n # 2
    <3>1. runs'[2] = runs[2]
      BY <1>12, <2>2, NumberFacts
    <3>. QED
      BY <3>1 DEF Recovered
  <2>. QED
    BY <2>1, <2>2
<1>15. faults' \in 0..MaxFaults /\ clean' \in BOOLEAN
  BY <1>1, <1>2
<1>. QED
  BY <1>2, <1>11, <1>13, <1>14, <1>15, RunStep

(* The base is resolved once for the run, or the run ends there.              *)
LEMMA ResolveSteps ==
  ASSUME RefreshInv, NEW n \in Numbers, Resolve(n) \/ ResolveFails(n)
  PROVE  Preserved
<1>. DEFINE As == Artifacts \union {NoImage}
            R(b, l) == [runs[n] EXCEPT !.base = b, !.jobs = [p \in Profiles |-> l]]
<1>1. active = n /\ \A p \in Profiles : runs[n].jobs[p] = "resolve"
  BY ChannelFacts DEF Resolve, ResolveFails, At
<1>2. runs \in [Numbers -> Runs \union {NoRun}] /\ runs[n] \in Runs /\ \A p \in Profiles : JobOK(n, p)
  BY <1>1, ActiveJob, ChannelFacts
<1>3. UNCHANGED <<main, active, tags, signed, attested>> /\ faults' \in 0..MaxFaults /\ clean' \in BOOLEAN
  <2>1. CASE Resolve(n)
    BY <2>1 DEF Resolve, RefreshInv, TypeOK
  <2>2. CASE ResolveFails(n)
    <3>1. Fault("fail")
      BY <2>2 DEF ResolveFails
    <3>. QED
      BY <2>2, <3>1, FaultTypes DEF ResolveFails
  <2>. QED
    BY <2>1, <2>2
<1>4. \E b \in Bases \union {NoBase}, l \in {"build", "resolve-failed"} : (l = "build" => b \in Bases) /\ Becomes(n, R(b, l))
  <2>1. CASE Resolve(n)
    <3>1. PICK b \in Bases :
            runs' = [runs EXCEPT ![n].base = b,
                                 ![n].jobs = [p \in Profiles |->
                                    IF b.version >= Policy(n).minVersion THEN "build" ELSE "resolve-failed"]]
      BY <2>1 DEF Resolve
    <3>2. PICK l \in {"build", "resolve-failed"} :
            l = IF b.version >= Policy(n).minVersion THEN "build" ELSE "resolve-failed"
      OBVIOUS
    <3>3. runs' = [runs EXCEPT ![n].base = b, ![n].jobs = [p \in Profiles |-> l]]
      BY <3>1, <3>2
    <3>4. Becomes(n, R(b, l))
      BY <3>3 DEF Becomes
    <3>. QED
      BY <3>4
  <2>2. CASE ResolveFails(n)
    <3>1. runs' = [runs EXCEPT ![n].jobs = [p \in Profiles |-> "resolve-failed"]]
      BY <2>2 DEF ResolveFails
    <3>2. runs[n].base \in Bases \union {NoBase}
      BY <1>2 DEF Runs
    <3>3. R(runs[n].base, "resolve-failed") = [runs[n] EXCEPT !.jobs = [p \in Profiles |-> "resolve-failed"]]
      BY <1>2 DEF Runs
    <3>4. Becomes(n, R(runs[n].base, "resolve-failed"))
      BY <3>1, <3>3 DEF Becomes
    <3>. QED
      BY <3>2, <3>4
  <2>. QED
    BY <2>1, <2>2
<1>5. PICK b \in Bases \union {NoBase}, l \in {"build", "resolve-failed"} : (l = "build" => b \in Bases) /\ Becomes(n, R(b, l))
  BY <1>4
<1>. DEFINE j == [p \in Profiles |-> l]
            r == [runs[n] EXCEPT !.base = b, !.jobs = j]
<1>6. j \in [Profiles -> Labels] /\ \A p \in Profiles : j[p] = l
  BY DEF Labels, Terminal
<1>7. Becomes(n, r)
  BY <1>5
<1>8. Runs = [control : 1..Len(Policies), attempt : Nat \ {0}, base : Bases \union {NoBase},
              jobs : [Profiles -> Labels], moved : [Profiles -> 0..2],
              artifact : [Profiles -> As], validated : [Profiles -> As]]
  BY DEF Runs
<1>. HIDE DEF As, j, R
<1>9. /\ r \in Runs /\ r.jobs = j /\ r.moved = runs[n].moved /\ r.attempt = runs[n].attempt /\ r.base = b
      /\ r.artifact = runs[n].artifact /\ r.validated = runs[n].validated
  BY <1>2, <1>6, <1>8
<1>. HIDE DEF r
<1>10. runs'[n] = r /\ \A k \in Numbers \ {n} : runs'[k] = runs[k]
  BY <1>2, <1>7 DEF Becomes
<1>11. ASSUME NEW p \in Profiles PROVE JobOK(n, p)'
  <2>1. /\ runs'[n].jobs[p] = l /\ runs'[n].moved[p] = runs[n].moved[p] /\ runs'[n].artifact[p] = runs[n].artifact[p]
        /\ Product(n, p)' = Product(n, p) /\ runs'[n].base = b
    BY <1>6, <1>9, <1>10 DEF Product
  <2>2. Holds(n, p) /\ runs[n].moved[p] = 0
    BY <1>1, <1>2 DEF JobOK, Holds
  <2>3. Holds(n, p)'
    BY <1>5, <2>1, <2>2 DEF Holds, Honest, Executed, Early, Unbuilt, Published
  <2>. QED
    BY <2>1, <2>3 DEF JobOK, Vouched, Cleared, Publishing
<1>12. Recovered => Recovered'
  <2>1. CASE n = 2
    <3>1. runs'[2].attempt = runs[2].attempt /\ runs'[2].moved = runs[2].moved /\ runs'[2] # NoRun
      BY <1>9, <1>10, <2>1, AbsentAssumption
    <3>. QED
      BY <1>1, <2>1, <3>1, ChannelFacts DEF Recovered
  <2>2. CASE n # 2
    <3>1. runs'[2] = runs[2]
      BY <1>10, <2>2, NumberFacts
    <3>. QED
      BY <3>1 DEF Recovered
  <2>. QED
    BY <2>1, <2>2
<1>. QED
  BY <1>3, <1>7, <1>9, <1>11, <1>12, RunStep

(* The group is taken and given back, and the policy changes.                 *)
LEMMA GroupSteps ==
  ASSUME RefreshInv, (\E n \in Numbers : Start(n) \/ End(n)) \/ Merge
  PROVE  Preserved
<1>1. TypeOK /\ JobsOK /\ TagsOK /\ AliasTrails /\ (active # 0 => runs[active] # NoRun) /\ \A x \in attested : Truthful(x)
  BY DEF RefreshInv, JobsOK
<1>2. UNCHANGED <<runs, tags, signed, attested, faults>>
  BY DEF Start, End, Merge
<1>3. /\ main' \in 1..Len(Policies) /\ active' \in Numbers \union {0} /\ clean' \in BOOLEAN
      /\ active' # 0 => runs[active'] # NoRun
  <2>1. CASE Merge
    <3>1. main \in 1..Len(Policies) /\ main < Len(Policies) /\ main' = main + 1 /\ Len(Policies) \in Nat
      BY <1>1, <2>1, NumberFacts DEF Merge, TypeOK
    <3>2. main' \in 1..Len(Policies)
      BY <3>1
    <3>3. active' = active /\ clean' = FALSE /\ active \in Numbers \union {0}
      BY <1>1, <2>1 DEF Merge, TypeOK
    <3>. QED
      BY <1>1, <3>2, <3>3
  <2>2. ASSUME NEW n \in Numbers, Start(n) \/ End(n)
        PROVE  /\ main' \in 1..Len(Policies) /\ active' \in Numbers \union {0} /\ clean' \in BOOLEAN
               /\ active' # 0 => runs[active'] # NoRun
    BY <1>1, <2>2 DEF Start, End, TypeOK, Queued
  <2>. QED
    BY <2>1, <2>2
<1>4. TypeOK'
  BY <1>1, <1>2, <1>3 DEF TypeOK
<1>5. JobsOK'
  <2>1. ASSUME NEW k \in Numbers, NEW q \in Profiles, runs[k] # NoRun, runs[k].jobs[q] \in Publishing
        PROVE  active' = active
    <3>1. active = k
      BY <1>1, <2>1 DEF JobsOK, JobOK, Vouched
    <3>2. ASSUME NEW n \in Numbers, Start(n) PROVE FALSE
      BY <3>1, <3>2, NumberFacts DEF Start
    <3>3. ASSUME NEW n \in Numbers, End(n) PROVE FALSE
      <4>1. runs[k].jobs[q] \in Terminal \union {"built"}
        BY <3>1, <3>3 DEF End, Ended
      <4>. QED
        BY <2>1, <4>1 DEF Terminal, Publishing
    <3>. QED
      BY <3>2, <3>3 DEF Merge
  <2>. QED
    BY <1>1, <1>2, <2>1, IdleJobs DEF SameTags
<1>6. Recovered => Recovered'
  BY <1>2 DEF Recovered
<1>7. TagsOK' /\ AliasTrails'
  BY <1>1, <1>2, <1>6, QuietTags
<1>. QED
  BY <1>1, <1>2, <1>3, <1>4, <1>5, <1>6, <1>7 DEF Preserved, RefreshInv, JobsOK, Truthful

(* What others do to the tags between runs.                                   *)
LEMMA OutsideSteps ==
  ASSUME RefreshInv, (\E image \in Promoted : Promote(image)) \/ (\E tag \in Tags : Delete(tag))
  PROVE  Preserved
<1>1. TypeOK /\ JobsOK /\ TagsOK /\ AliasTrails /\ \A x \in attested : Truthful(x)
  BY DEF RefreshInv, JobsOK
<1>2. active = 0 /\ UNCHANGED <<main, runs, active, attested, clean>> /\ faults < MaxFaults /\ faults' = faults + 1
  BY DEF Promote, Delete
<1>3. faults' \in 0..MaxFaults
  <2>1. faults \in 0..MaxFaults /\ MaxFaults \in Nat
    BY <1>1, RefreshAssumption DEF TypeOK
  <2>. QED
    BY <1>2, <2>1
<1>4. /\ signed \subseteq signed' /\ signed' \subseteq Images /\ tags' \in [Tags -> signed' \union {NoTag}]
      /\ \A t \in Tags : tags'[t] \in {tags[t], NoTag} \/ (t = "snitchwatch-system" /\ tags'[t] \in Promoted)
  <2>1. signed \subseteq Images /\ tags \in [Tags -> signed \union {NoTag}] /\ "snitchwatch-system" \in Tags
    BY <1>1, ChannelFacts DEF TypeOK
  <2>2. ASSUME NEW image \in Promoted, Promote(image)
        PROVE  /\ signed \subseteq signed' /\ signed' \subseteq Images /\ tags' \in [Tags -> signed' \union {NoTag}]
               /\ \A t \in Tags : tags'[t] \in {tags[t], NoTag} \/ (t = "snitchwatch-system" /\ tags'[t] \in Promoted)
    <3>1. signed' = signed \union {image} /\ tags' = [tags EXCEPT !["snitchwatch-system"] = image] /\ image \in Images
      BY <2>2, PromotedFacts DEF Promote
    <3>. QED
      BY <2>1, <3>1
  <2>3. ASSUME NEW tag \in Tags, Delete(tag)
        PROVE  /\ signed \subseteq signed' /\ signed' \subseteq Images /\ tags' \in [Tags -> signed' \union {NoTag}]
               /\ \A t \in Tags : tags'[t] \in {tags[t], NoTag} \/ (t = "snitchwatch-system" /\ tags'[t] \in Promoted)
    <3>1. signed' = signed /\ tags' = [tags EXCEPT ![tag] = NoTag]
      BY <2>3 DEF Delete
    <3>. QED
      BY <2>1, <3>1
  <2>. QED
    BY <2>2, <2>3
<1>5. TypeOK'
  <2>1. attested' \subseteq [image : signed', proof : Proofs]
    BY <1>1, <1>2, <1>4 DEF TypeOK
  <2>. QED
    BY <1>1, <1>2, <1>3, <1>4, <2>1 DEF TypeOK
<1>6. JobsOK'
  BY <1>1, <1>2, <1>4, NobodyPublishes, IdleJobs
<1>7. /\ tags'["stable"] \in {tags["stable"], NoTag} /\ tags'["latest"] \in {tags["latest"], NoTag}
      /\ tags'["snitchwatch-system"] \in {tags["snitchwatch-system"], NoTag} \union Promoted
  BY <1>4, ChannelFacts
<1>8. Recovered' <=> Recovered
  BY <1>2 DEF Recovered
<1>9. TagsOK'
  BY <1>1, <1>2, <1>7, <1>8 DEF TagsOK, Witnessed
<1>10. AliasTrails'
  BY <1>1, <1>7 DEF AliasTrails, AtLeast
<1>. QED
  BY <1>1, <1>2, <1>5, <1>6, <1>8, <1>9, <1>10 DEF Preserved, RefreshInv, JobsOK, Truthful

---------------------------------------------------------------------------
(* The theorems.                                                              *)

(* The first state.                                                           *)
LEMMA RefreshInit == Init => RefreshInv
<1>. SUFFICES ASSUME Init PROVE RefreshInv
  OBVIOUS
<1>1. \A n \in Numbers : runs[n] = NoRun
  BY DEF Init
<1>2. /\ tags["snitchwatch-system"] = Bootstrap /\ tags["stable"] = NoTag /\ tags["latest"] = NoTag
  BY DEF Init, Tags
<1>3. TypeOK
  <2>1. Bootstrap \in Images /\ 1 \in 1..Len(Policies)
    BY PromotedFacts, NumberFacts
  <2>2. signed \subseteq Images /\ tags \in [Tags -> signed \union {NoTag}]
    BY <2>1 DEF Init
  <2>3. runs \in [Numbers -> Runs \union {NoRun}]
    BY DEF Init
  <2>4. faults \in 0..MaxFaults
    BY RefreshAssumption DEF Init
  <2>. QED
    BY <2>1, <2>2, <2>3, <2>4 DEF Init, TypeOK
<1>4. TagsOK /\ AliasTrails
  BY <1>2, PromotedFacts DEF TagsOK, AliasTrails
<1>. QED
  BY <1>1, <1>3, <1>4 DEF RefreshInv, Init

(* Every step keeps it.                                                       *)
LEMMA RefreshStep == RefreshInv /\ [Next]_vars => Preserved
<1>. SUFFICES ASSUME RefreshInv, [Next]_vars PROVE Preserved
  OBVIOUS
<1>1. ASSUME NEW n \in Numbers, Dispatch(n) \/ Rerun(n) PROVE Preserved
  BY <1>1, BeginSteps
<1>2. ASSUME NEW n \in Numbers, RerunFailed(n) PROVE Preserved
  BY <1>2, RerunFailedStep
<1>3. ASSUME NEW n \in Numbers, Resolve(n) \/ ResolveFails(n) PROVE Preserved
  BY <1>3, ResolveSteps
<1>4. ASSUME (\E n \in Numbers : Start(n) \/ End(n)) \/ Merge PROVE Preserved
  BY <1>4, GroupSteps
<1>5. ASSUME NEW n \in Numbers, NEW p \in Profiles, Job(n, p) PROVE Preserved
  BY <1>5, BuildSteps, PublishSteps, MoveSteps DEF Job
<1>6. ASSUME NEW n \in Numbers, NEW p \in Profiles,
             BuildMisreports(n, p) \/ Swap(n, p) \/ MoveLost(n, p) \/ JobFails(n, p)
      PROVE  Preserved
  BY <1>6, BuildSteps, PublishSteps, MoveSteps
<1>7. ASSUME (\E image \in Promoted : Promote(image)) \/ (\E tag \in Tags : Delete(tag)) PROVE Preserved
  BY <1>7, OutsideSteps
<1>8. ASSUME UNCHANGED vars PROVE Preserved
  <2>1. TypeOK /\ JobsOK /\ TagsOK /\ AliasTrails
    BY DEF RefreshInv, JobsOK
  <2>2. UNCHANGED <<main, runs, active, tags, signed, attested, faults, clean>>
    BY <1>8 DEF vars
  <2>3. TypeOK'
    BY <2>1, <2>2 DEF TypeOK
  <2>4. JobsOK'
    BY <2>1, <2>2, IdleJobs DEF SameTags
  <2>5. Recovered => Recovered'
    BY <2>2 DEF Recovered
  <2>6. TagsOK' /\ AliasTrails'
    BY <2>1, <2>2, <2>5, QuietTags
  <2>. QED
    BY <2>2, <2>3, <2>4, <2>5, <2>6 DEF Preserved, RefreshInv, JobsOK, Truthful
<1>. QED
  BY <1>1, <1>2, <1>3, <1>4, <1>5, <1>6, <1>7, <1>8 DEF Next

(* However runs interleave with reviews, promotions and deletions, fail and   *)
(* are repeated, the invariant holds.                                         *)
THEOREM RefreshInvariant == Spec => []RefreshInv
<1>1. RefreshInv /\ [Next]_vars => RefreshInv'
  BY RefreshStep DEF Preserved
<1>. QED
  BY <1>1, RefreshInit, PTL DEF Spec

(* The variables keep their types; the registry's tags name signed images.    *)
THEOREM RefreshTypes == Spec => []TypeOK
<1>1. RefreshInv => TypeOK
  BY DEF RefreshInv
<1>. QED
  BY <1>1, RefreshInvariant, PTL

(* latest never runs ahead of stable.                                         *)
THEOREM AliasNeverLeads == Spec => []AliasTrails
<1>1. RefreshInv => AliasTrails
  BY DEF RefreshInv
<1>. QED
  BY <1>1, RefreshInvariant, PTL

(* Whatever builds report and the artifact store hands out, a subscriber gets *)
(* an image whose signed provenance tells the truth about it.                 *)
THEOREM TagsAreTruthful == Spec => []ChannelIsTruthful
<1>1. RefreshInv => ChannelIsTruthful
  <2>. SUFFICES ASSUME RefreshInv, NEW p \in Profiles, NEW i \in DOMAIN Channels[p],
                       tags[Channels[p][i]] \notin Promoted \union {NoTag}
                PROVE  LET image == tags[Channels[p][i]]
                       IN /\ image.profile = p /\ image.trust
                          /\ \E x \in attested :
                               /\ x.image = image /\ x.proof.profile = p
                               /\ x.proof.kernel = image.kernel /\ x.proof.base.version = image.version
                               /\ image.kernel # BadKernel
                               /\ image.kernel >= x.proof.policy.minKernel
                               /\ image.version >= x.proof.policy.minVersion
                               /\ p = "system" => image.native = x.proof.policy.native
    BY DEF ChannelIsTruthful
  <2>1. \/ p = "legacy" /\ Channels[p][i] \in {"stable", "latest"}
        \/ p = "system" /\ Channels[p][i] = "snitchwatch-system"
    BY DEF Profiles, Channels
  <2>2. Witnessed(Channels[p][i], p)
    BY <2>1 DEF RefreshInv, TagsOK
  <2>3. PICK x \in attested : x.image = tags[Channels[p][i]] /\ x.proof.profile = p
    BY <2>2 DEF Witnessed
  <2>4. Truthful(x)
    BY DEF RefreshInv
  <2>. QED
    BY <2>3, <2>4 DEF Truthful
<1>. QED
  BY <1>1, RefreshInvariant, PTL

---------------------------------------------------------------------------
(* What may happen to the tags.                                               *)

(* Only a publisher, a promotion and a deletion write tags.                   *)
LEMMA TagWriters ==
  ASSUME [Next]_vars
  PROVE  \/ UNCHANGED tags
         \/ \E n \in Numbers, p \in Profiles : Move(n, p) \/ MoveLost(n, p)
         \/ \E image \in Promoted : Promote(image)
         \/ \E tag \in Tags : Delete(tag)
<1>1. ASSUME NEW n \in Numbers, Dispatch(n) \/ Start(n) \/ End(n) \/ Rerun(n) PROVE UNCHANGED tags
  BY <1>1 DEF Dispatch, Start, End, Rerun
<1>2. ASSUME NEW n \in Numbers, RerunFailed(n) PROVE UNCHANGED tags
  BY <1>2 DEF RerunFailed
<1>3. ASSUME NEW n \in Numbers, Resolve(n) \/ ResolveFails(n) PROVE UNCHANGED tags
  BY <1>3 DEF Resolve, ResolveFails
<1>4. ASSUME NEW n \in Numbers, NEW p \in Profiles, Build(n, p) \/ Validate(n, p) PROVE UNCHANGED tags
  BY <1>4 DEF Build, Validate
<1>5. ASSUME NEW n \in Numbers, NEW p \in Profiles,
             Sign(n, p) \/ Attest(n, p) \/ CheckBaseline(n, p) \/ CheckFresh(n, p)
      PROVE  UNCHANGED tags
  BY <1>5 DEF Sign, Attest, CheckBaseline, CheckFresh
<1>6. ASSUME NEW n \in Numbers, NEW p \in Profiles, BuildMisreports(n, p) \/ Swap(n, p) \/ JobFails(n, p)
      PROVE  UNCHANGED tags
  BY <1>6 DEF BuildMisreports, Swap, JobFails
<1>7. Merge \/ UNCHANGED vars => UNCHANGED tags
  BY DEF Merge, vars
<1>. QED
  BY <1>1, <1>2, <1>3, <1>4, <1>5, <1>6, <1>7 DEF Next, Job

(* The step of a tag t that is named in NoDowngrade and PointerHasOwnEvidence.*)
LEMMA TagStep ==
  ASSUME RefreshInv, [Next]_vars, NEW t \in Tags, tags'[t] # tags[t], tags'[t] \notin Promoted \union {NoTag}
  PROVE  /\ tags[t] # NoTag => AtLeast(tags'[t], tags[t])
         /\ \E x \in attested :
              /\ x.image = tags'[t]
              /\ x.proof.run = active /\ x.proof.attempt = runs[active].attempt
<1>1. tags \in [Tags -> signed \union {NoTag}]
  BY DEF RefreshInv, TypeOK
<1>2. ASSUME NEW image \in Promoted, Promote(image) PROVE FALSE
  BY <1>1, <1>2 DEF Promote
<1>3. ASSUME NEW tag \in Tags, Delete(tag) PROVE FALSE
  BY <1>1, <1>3 DEF Delete
<1>4. PICK n \in Numbers, p \in Profiles : Move(n, p) \/ MoveLost(n, p)
  BY <1>2, <1>3, TagWriters
<1>5. At(n, p, "move") /\ Wrote(n, p)
  BY <1>4, MoveWrites
<1>6. active = n /\ runs[n].jobs[p] \in Publishing /\ runs[n].jobs[p] # "attest"
  BY <1>5 DEF At, Publishing
<1>7. /\ Own(n, p) \in attested /\ Own(n, p).image = Product(n, p).image
      /\ Own(n, p).proof.run = n /\ Own(n, p).proof.attempt = runs[n].attempt
  BY <1>6, PublisherFacts
<1>8. tags'[t] = Product(n, p).image /\ (tags[t] # NoTag => AtLeast(Product(n, p).image, tags[t]))
  <2>1. CASE p = "system"
    BY <1>5, <2>1, WroteTag, MoveFacts, ChannelFacts
  <2>2. CASE p = "legacy" /\ runs[n].moved[p] = 0
    BY <1>5, <2>2, WroteTag, MoveFacts, ChannelFacts
  <2>3. CASE p = "legacy" /\ runs[n].moved[p] # 0
    BY <1>5, <2>3, WroteTag, MoveFacts, ChannelFacts
  <2>. QED
    BY <2>1, <2>2, <2>3, ChannelFacts
<1>. QED
  BY <1>6, <1>7, <1>8 DEF AtLeast

(* No tag ever moves to an older Bazzite or kernel.                           *)
THEOREM TagsOnlyAdvance == Spec => NoDowngrade
<1>1. RefreshInv /\ [Next]_vars
      => [\A t \in Tags :
            tags[t] # NoTag /\ tags'[t] \notin {NoTag} \union Promoted => AtLeast(tags'[t], tags[t])
              \/ tags'[t] = tags[t]]_vars
  BY TagStep
<1>. QED
  BY <1>1, RefreshInvariant, PTL DEF Spec, NoDowngrade

(* A tag moves to a refresh only with provenance of the very run and attempt. *)
THEOREM TagsHaveOwnEvidence == Spec => PointerHasOwnEvidence
<1>1. RefreshInv /\ [Next]_vars
      => [\A t \in Tags :
            tags'[t] # tags[t] /\ tags'[t] \notin Promoted \union {NoTag} =>
              \E x \in attested :
                /\ x.image = tags'[t]
                /\ x.proof.run = active /\ x.proof.attempt = runs[active].attempt]_vars
  BY TagStep
<1>. QED
  BY <1>1, RefreshInvariant, PTL DEF Spec, PointerHasOwnEvidence

---------------------------------------------------------------------------
(* The workflow implements a release channel.                                 *)

(* Whether the chance to recover is gone is a truth value.                    *)
LEMMA RecoveredIsBoolean == Recovered \in BOOLEAN /\ Recovered' \in BOOLEAN
BY DEF Recovered

(* A step that leaves both tags alone is no step of the legacy channel, or    *)
(* the loss of its chance to recover.                                         *)
LEMMA LegacyIdle ==
  ASSUME tags'["stable"] = tags["stable"], tags'["latest"] = tags["latest"], Recovered => Recovered'
  PROVE  [Legacy!Next]_(Legacy!channelVars)
<1>1. Recovered' = Recovered \/ Recovered' = TRUE
  BY RecoveredIsBoolean
<1>2. CASE Recovered' = Recovered
  BY <1>2 DEF Legacy!channelVars
<1>3. CASE Recovered' = TRUE
  BY <1>3 DEF Legacy!Next, Legacy!Forfeit
<1>. QED
  BY <1>1, <1>2, <1>3

(* Each step of the workflow is a step of the legacy channel or none.         *)
LEMMA LegacyStep ==
  ASSUME RefreshInv, [Next]_vars
  PROVE  [Legacy!Next]_(Legacy!channelVars)
<1>1. RefreshInv' /\ (Recovered => Recovered')
  BY RefreshStep DEF Preserved
<1>2. TagsOK /\ TagsOK' /\ tags \in [Tags -> signed \union {NoTag}]
  BY <1>1 DEF RefreshInv, TypeOK
<1>3. CASE UNCHANGED tags
  BY <1>1, <1>3, LegacyIdle
<1>4. ASSUME NEW image \in Promoted, Promote(image) PROVE [Legacy!Next]_(Legacy!channelVars)
  <2>1. tags'["stable"] = tags["stable"] /\ tags'["latest"] = tags["latest"]
    BY <1>2, <1>4, ChannelFacts DEF Promote
  <2>. QED
    BY <1>1, <2>1, LegacyIdle
<1>5. ASSUME NEW tag \in Tags, Delete(tag) PROVE [Legacy!Next]_(Legacy!channelVars)
  <2>1. tags' = [tags EXCEPT ![tag] = NoTag] /\ Recovered' = Recovered
    BY <1>5 DEF Delete, Recovered
  <2>2. CASE tag = "snitchwatch-system"
    <3>1. tags'["stable"] = tags["stable"] /\ tags'["latest"] = tags["latest"]
      BY <1>2, <2>1, <2>2, ChannelFacts
    <3>. QED
      BY <1>1, <3>1, LegacyIdle
  <2>3. CASE tag = "stable"
    <3>1. tags'["stable"] = NoTag /\ tags'["latest"] = tags["latest"]
      BY <1>2, <2>1, <2>3, ChannelFacts
    <3>2. Legacy!Remove(1)
      BY <2>1, <3>1 DEF Legacy!Remove
    <3>3. 1 \in 1..2
      OBVIOUS
    <3>. QED
      BY <3>2, <3>3 DEF Legacy!Next
  <2>4. CASE tag = "latest"
    <3>1. tags'["latest"] = NoTag /\ tags'["stable"] = tags["stable"]
      BY <1>2, <2>1, <2>4, ChannelFacts
    <3>2. Legacy!Remove(2)
      BY <2>1, <3>1 DEF Legacy!Remove
    <3>3. 2 \in 1..2
      OBVIOUS
    <3>. QED
      BY <3>2, <3>3 DEF Legacy!Next
  <2>. QED
    BY <2>2, <2>3, <2>4, ChannelFacts
<1>6. ASSUME NEW n \in Numbers, NEW p \in Profiles, Move(n, p) \/ MoveLost(n, p)
      PROVE  [Legacy!Next]_(Legacy!channelVars)
  <2>. DEFINE image == Product(n, p).image
  <2>1. At(n, p, "move") /\ Wrote(n, p)
    BY <1>6, MoveWrites
  <2>2. active = n /\ runs[n].jobs[p] \in Publishing
    BY <2>1 DEF At, Publishing
  <2>3. image \in Images /\ image # NoTag
    BY <2>2, PublisherFacts
  <2>. HIDE DEF image
  <2>4. CASE p = "system"
    <3>1. tags'["stable"] = tags["stable"] /\ tags'["latest"] = tags["latest"]
      BY <2>1, <2>4, WroteTag
    <3>. QED
      BY <1>1, <3>1, LegacyIdle
  <2>5. CASE p = "legacy" /\ runs[n].moved[p] = 0
    <3>1. tags'["stable"] = image /\ tags'["latest"] = tags["latest"]
      BY <2>1, <2>5, WroteTag DEF image
    <3>2. Recovered' = TRUE
      BY <1>2, <2>3, <3>1, RecoveredIsBoolean DEF TagsOK
    <3>3. CASE tags["stable"] # NoTag
      <4>1. AtLeast(image, tags["stable"])
        BY <2>1, <2>5, <3>3, MoveFacts DEF image
      <4>2. Recovered' = Recovered
        BY <1>2, <3>2, <3>3, RecoveredIsBoolean DEF TagsOK
      <4>3. Legacy!Advance(image)
        BY <3>1, <3>3, <4>1, <4>2 DEF Legacy!Advance
      <4>. QED
        BY <2>3, <4>3 DEF Legacy!Next
    <3>4. CASE tags["stable"] = NoTag
      <4>1. ~Recovered
        BY <2>1, <2>5, <3>4, MoveFacts
      <4>2. Legacy!Recover(image)
        BY <3>1, <3>2, <3>4, <4>1 DEF Legacy!Recover
      <4>. QED
        BY <2>3, <4>2 DEF Legacy!Next
    <3>. QED
      BY <3>3, <3>4
  <2>6. CASE p = "legacy" /\ runs[n].moved[p] # 0
    <3>1. tags'["latest"] = image /\ tags'["stable"] = tags["stable"] /\ tags["stable"] = image
      BY <2>1, <2>6, WroteTag, MoveFacts DEF image
    <3>2. Recovered' = Recovered
      BY <1>1, <1>2, <2>3, <3>1, RecoveredIsBoolean DEF TagsOK
    <3>3. Legacy!Follow(2)
      BY <2>3, <3>1, <3>2 DEF Legacy!Follow
    <3>4. 2 \in 2..2
      OBVIOUS
    <3>. QED
      BY <3>3, <3>4 DEF Legacy!Next
  <2>. QED
    BY <2>4, <2>5, <2>6, ChannelFacts
<1>. QED
  BY <1>3, <1>4, <1>5, <1>6, TagWriters

(* Each step of the workflow is a step of the system channel or none.         *)
LEMMA SystemStep ==
  ASSUME RefreshInv, [Next]_vars
  PROVE  [System!Next]_(System!channelVars)
<1>. DEFINE s == "snitchwatch-system"
<1>1. tags \in [Tags -> signed \union {NoTag}] /\ s \in Tags
  BY ChannelFacts DEF RefreshInv, TypeOK
<1>2. CASE tags'[s] = tags[s]
  BY <1>2 DEF System!channelVars
<1>3. ASSUME NEW image \in Promoted, Promote(image) PROVE [System!Next]_(System!channelVars)
  <2>1. tags'[s] = image
    BY <1>1, <1>3 DEF Promote
  <2>2. System!Promote(image)
    BY <2>1 DEF System!Promote
  <2>. QED
    BY <2>2 DEF System!Next
<1>4. ASSUME NEW tag \in Tags, Delete(tag), tags'[s] # tags[s] PROVE [System!Next]_(System!channelVars)
  <2>1. tags'[s] = NoTag
    BY <1>1, <1>4 DEF Delete
  <2>2. System!Remove(1)
    BY <2>1 DEF System!Remove
  <2>3. 1 \in 1..1
    OBVIOUS
  <2>. QED
    BY <2>2, <2>3 DEF System!Next
<1>5. ASSUME NEW n \in Numbers, NEW p \in Profiles, Move(n, p) \/ MoveLost(n, p), tags'[s] # tags[s]
      PROVE  [System!Next]_(System!channelVars)
  <2>. DEFINE image == Product(n, p).image
  <2>1. At(n, p, "move") /\ Wrote(n, p)
    BY <1>5, MoveWrites
  <2>2. active = n /\ runs[n].jobs[p] \in Publishing
    BY <2>1 DEF At, Publishing
  <2>3. image \in Images
    BY <2>2, PublisherFacts
  <2>4. p = "system"
    BY <1>5, <2>1, WroteTag, ChannelFacts
  <2>5. tags'[s] = image /\ tags[s] # NoTag /\ AtLeast(image, tags[s])
    BY <2>1, <2>4, WroteTag, MoveFacts
  <2>. HIDE DEF image
  <2>6. System!Advance(image)
    BY <2>5 DEF System!Advance
  <2>. QED
    BY <2>3, <2>6 DEF System!Next
<1>. QED
  BY <1>2, <1>3, <1>4, <1>5, TagWriters

(* The legacy channel: stable advances or is recovered once, latest follows.  *)
THEOREM LegacyRefines == Spec => LegacyIsChannel
<1>1. Init => Legacy!Init
  <2>. SUFFICES ASSUME Init PROVE Legacy!Init
    OBVIOUS
  <2>1. tags["stable"] = NoTag /\ tags["latest"] = NoTag
    BY DEF Init, Tags
  <2>. QED
    BY <2>1, RecoveredIsBoolean DEF Legacy!Init
<1>2. RefreshInv /\ [Next]_vars => [Legacy!Next]_(Legacy!channelVars)
  BY LegacyStep
<1>. QED
  BY <1>1, <1>2, RefreshInvariant, PTL DEF Spec, LegacyIsChannel, Legacy!Spec

(* The system channel: its one tag advances, is promoted or is deleted.       *)
THEOREM SystemRefines == Spec => SystemIsChannel
<1>1. Init => System!Init
  <2>. SUFFICES ASSUME Init PROVE System!Init
    OBVIOUS
  <2>1. tags["snitchwatch-system"] = Bootstrap /\ Bootstrap \in Images
    BY PromotedFacts DEF Init, Tags
  <2>. QED
    BY <2>1 DEF System!Init
<1>2. RefreshInv /\ [Next]_vars => [System!Next]_(System!channelVars)
  BY SystemStep
<1>. QED
  BY <1>1, <1>2, RefreshInvariant, PTL DEF Spec, SystemIsChannel, System!Spec

=============================================================================
