---------------------------- MODULE NativeBuild ----------------------------
(* How the native Snitchwatch components get into the image. Sibling stages   *)
(* of the Containerfile build the scanner, the bridge twice and the daemon;   *)
(* the assembly stage puts together what they hand over. Third-party code     *)
(* runs contained (module Containment) as a uid that may do anything to its   *)
(* scratch directories; root's steps around it decide what crosses. The       *)
(* stages share only a common ancestor, so one after the other is no loss.    *)
EXTENDS Containment, Sequences

CONSTANTS
  Defects,        \* what may be wrong with the ancestor stage or its inputs
  Holes           \* what the build uid may be able to write beyond its scratch

DefectKinds == {"network", "rpms", "cache", "scanner source", "cargo config",
                "toolchain", "daemon source", "checkout", "config"}
HoleKinds == {"tree", "owned", "writable", "artifact", "hidden"}

ASSUME KindsAssumption ==
  /\ Defects \subseteq DefectKinds /\ Holes \subseteq HoleKinds
  /\ None \notin DefectKinds \union HoleKinds

VARIABLES
  stage,          \* the stage being built
  pc,             \* root's step in it
  jobs,           \* commands still to run contained
  defect, hole,   \* the defect and the hole of this build, or None
  executable,     \* the bridge the assembly runs is the one it has hashed
  tampered,       \* stages in which foreign code changed root's files or tools
  scratch,        \* the scratch directories
  handoff,        \* handoff[s]: what stage s handed over
  out             \* the assembled overlay

control == <<stage, pc, jobs>>
files == <<scratch, handoff, out>>
env == <<defect, hole>>
damage == <<executable, tampered>>
vars == <<contained, stage, pc, jobs, defect, hole, executable, tampered, scratch, handoff, out>>

---------------------------------------------------------------------------
(* Data. A product is what an honest build of the pins gives, or something    *)
(* else; foreign bytes are those of a file beyond the scratch directories,    *)
(* reached through a link. The scanner's input record is root's own, or       *)
(* agrees with it on the pinned names only, or contradicts the pins.          *)

Products == {"good", "other"}
Inputs == {"root", "partial", "wrong"}
Entries == Products \union {"link", None}
Receipts == [product : Products, inputs : Inputs] \union {None}
Scratches == [product : Entries, inputs : Inputs \union {None}, receipt : Receipts, extra : BOOLEAN]
Empty == [product |-> None, inputs |-> None, receipt |-> None, extra |-> FALSE]
Handoffs == [product : Products \union {"foreign"}, inputs : Inputs \union {None}, receipt : Receipts]
Overlays == [bridge : Products \union {"foreign"}, scanner : Products \union {"foreign"},
             inputs : Inputs, daemon : Products]

ASSUME AbsentAssumption ==
  /\ None \notin Products \union Inputs \union {"link", "foreign"}
  /\ None \notin [product : Products, inputs : Inputs] /\ None \notin Handoffs /\ None \notin Overlays

Order == <<"scanner", "bridge", "rebuild", "daemon", "assembly">>
Siblings == {"scanner", "bridge", "rebuild", "daemon"}
NextStage(s) == Order[(CHOOSE i \in 1..4 : Order[i] = s) + 1]

(* The commands root runs contained, in order. All but the selfcheck, which   *)
(* is root's own script, may run third-party code.                            *)
Jobs(s) ==
  CASE s = "scanner" -> <<"selfcheck", "build">>
    [] s = "bridge" -> <<"selfcheck", "fetch", "build", "repro", "verify">>
    [] s = "rebuild" -> <<"selfcheck", "fetch", "build">>
    [] s = "assembly" -> <<"version", "stage">>

Regular(entry) == entry \in Products
Followed(entry) == IF entry = "link" THEN "foreign" ELSE entry

TypeOK ==
  /\ ContainmentTypeOK
  /\ stage \in {Order[i] : i \in 1..5}
  /\ pc \in {"enter", "prepare", "run", "record", "export", "adopt", "copy", "done", "refused"}
  /\ \E s \in {"scanner", "bridge", "rebuild", "assembly"}, i \in 1..6 : jobs = SubSeq(Jobs(s), i, Len(Jobs(s)))
  /\ defect \in Defects \union {None} /\ hole \in Holes \union {None}
  /\ executable \in BOOLEAN /\ tampered \subseteq {Order[i] : i \in 1..5}
  /\ scratch \in Scratches
  /\ handoff \in [Siblings -> Handoffs \union {None}]
  /\ out \in Overlays \union {None}

Still == UNCHANGED <<contained, env, damage>>
Refuse == pc' = "refused" /\ UNCHANGED <<stage, jobs, files>>

---------------------------------------------------------------------------
(* Root's checks of the inputs.                                               *)

(* probe-network: only `lo`, and no connection succeeds.                      *)
Offline == defect # "network"
SameRpms == defect # "rpms"
(* make_fresh_cargo_home: only crates that hash to Cargo.lock.                *)
CargoHome == defect # "cache"
(* Every file of the scanner crates is pinned, present and equal to its pin.  *)
PinnedSources == defect # "scanner source"
NoCargoConfig == defect # "cargo config"
(* The toolchain is what it was right after its installation.                 *)
AnyToolchain == TRUE
SameToolchain == defect # "toolchain"
InputsPhase == PinnedSources /\ CargoHome /\ NoCargoConfig /\ SameToolchain

(* check_source, before and after the reviewed patch: the tree and every      *)
(* changed, untracked or ignored file is exactly the reviewed set.            *)
DaemonSource == defect # "daemon source"

(* The assembly hashes the pinned files of the checkout, requires it to be    *)
(* exact and clean, and the configuration to differ from the old one in the   *)
(* address only.                                                              *)
CleanCheckout == defect \notin {"scanner source", "checkout"}
SameConfig == defect # "config"

Enters(s) ==
  CASE s = "scanner" -> Offline /\ SameRpms /\ InputsPhase
    [] s \in {"bridge", "rebuild"} -> Offline /\ CargoHome
    [] OTHER -> FALSE

Enter ==
  /\ pc = "enter" /\ stage \in {"scanner", "bridge", "rebuild"}
  /\ IF Enters(stage) THEN pc' = "prepare" /\ UNCHANGED <<stage, jobs, files>> ELSE Refuse
  /\ Still

(* prepare: WORK and the read-only trees are root's and nobody else's to      *)
(* write, nothing is owned by the build uid, the scratch directories are new. *)
ReadOnlyTrees == hole # "tree"
NothingOwned == hole # "owned"
Prepared == ReadOnlyTrees /\ NothingOwned

Prepare ==
  /\ pc = "prepare"
  /\ IF Prepared
       THEN /\ pc' = "run" /\ jobs' = Jobs(stage) /\ scratch' = Empty
            /\ UNCHANGED <<stage, handoff, out>>
       ELSE Refuse
  /\ Still

---------------------------------------------------------------------------
(* The contained commands.                                                    *)

Selfchecking == jobs # <<>> /\ Head(jobs) = "selfcheck"

(* Root runs commands at its place in the stage; their processes do as they   *)
(* like for as long as they live.                                             *)
Run ==
  /\ \/ pc = "run" /\ Runs(stage # "assembly")
     \/ pc = "run" /\ stage = "assembly" /\ TimedOut
     \/ Exits
     \/ ~Selfchecking /\ Forks
  /\ UNCHANGED <<control, env, damage, files>>

(* Third-party code is running, or somebody it left behind.                   *)
Foreign == Alive # {} /\ ~Selfchecking

(* One thing is written into the scratch directories; only what root reads    *)
(* from them in this stage is told apart.                                     *)
Changes ==
  {[scratch EXCEPT !.product = e] : e \in Entries}
    \union (IF stage = "scanner"
              THEN {[scratch EXCEPT !.inputs = i] : i \in Inputs}
                     \union {[scratch EXCEPT !.receipt = r] : r \in Receipts \ {None}}
              ELSE {})
    \union (IF stage = "assembly" THEN {[scratch EXCEPT !.extra = TRUE]} ELSE {})

Write ==
  /\ Foreign
  /\ scratch' \in Changes
  /\ UNCHANGED <<contained, control, env, damage, handoff, out>>

(* A hole of the common ancestor is open in every stage built from it. A      *)
(* hidden one is a file in a directory that may be searched but not listed:   *)
(* the walk of the selfcheck cannot see it.                                   *)
Open == hole \in {"tree", "owned", "writable", "hidden"}

(* Whatever root runs or reads later in this stage may have been changed.     *)
Escape ==
  /\ Foreign
  /\ Open \/ ~dropped
  /\ tampered' = tampered \union {stage}
  /\ UNCHANGED <<contained, control, env, executable, files>>

(* The extracted bridge executable is overwritten; it exists in the assembly. *)
Overwrite ==
  /\ Foreign /\ stage = "assembly"
  /\ hole = "artifact" \/ ~dropped
  /\ executable' = FALSE
  /\ UNCHANGED <<contained, control, env, tampered, files>>

---------------------------------------------------------------------------
(* Root after a command of a sibling stage.                                   *)

(* selfcheck: the deliberate writes fail, the inputs can be read, and nothing *)
(* outside the scratch directories can be written or is owned.                *)
NothingWritable == hole \notin {"tree", "owned", "writable"}

Accepts(job) ==
  /\ ~failed
  /\ job = "selfcheck" => NothingWritable
  /\ job = "build" /\ stage # "scanner" => Regular(scratch.product)

AfterJob ==
  /\ pc = "run" /\ stage # "assembly" /\ Again
  /\ IF Accepts(Head(jobs))
       THEN /\ jobs' = Tail(jobs)
            /\ pc' = IF Tail(jobs) # <<>> THEN "run" ELSE IF stage = "scanner" THEN "record" ELSE "export"
            /\ UNCHANGED <<stage, files>>
       ELSE Refuse
  /\ UNCHANGED <<main, dropped, failed, table, names, left, round, env, damage>>

(* read_regular: the file that is open is regular and has one link.           *)
ReadByName(entry) == Followed(entry)
ReadRegular(entry) == IF Regular(entry) THEN entry ELSE None

(* Root puts its own record of the scanner's inputs over the build's copy, in *)
(* a directory that belongs to the build uid.                                 *)
BuildsRecord == scratch.inputs
RootsRecord == IF PinnedSources THEN "root" ELSE "wrong"

Record ==
  /\ pc = "record"
  /\ scratch' = [scratch EXCEPT !.inputs = RootsRecord]
  /\ pc' = "export"
  /\ UNCHANGED <<stage, jobs, handoff, out>>
  /\ Still

(* export: the allowlist and nothing else.                                    *)
Copied(s) ==
  [product |-> ReadRegular(scratch.product),
   inputs |-> IF s = "scanner" THEN scratch.inputs ELSE None,
   receipt |-> IF s = "scanner" THEN scratch.receipt ELSE None]

(* Every file of the allowlist is there (export, and check on arrival).       *)
AnyHandoff(s, h) == TRUE
Complete(s, h) == h.product # None /\ (s = "scanner" => h.inputs # None /\ h.receipt # None)

(* The bridge stages compare the RPM set only now.                            *)
Unchanged(s) == s = "scanner" \/ SameRpms

HandOver(h) ==
  /\ handoff' = [handoff EXCEPT ![stage] = h]
  /\ stage' = NextStage(stage) /\ pc' = "enter"
  /\ UNCHANGED <<jobs, scratch, out>>

(* Where root's tools were tampered with, any files of the allowlist may come *)
(* out. The next stage starts from the common ancestor again.                 *)
Forgeries(s) ==
  {h \in Handoffs : Complete(s, h) /\ (s # "scanner" => h.inputs = None /\ h.receipt = None)}

Export ==
  /\ pc = "export"
  /\ \/ IF Complete(stage, Copied(stage)) /\ Unchanged(stage) THEN HandOver(Copied(stage)) ELSE Refuse
     \/ stage \in tampered /\ \E h \in Forgeries(stage) : HandOver(h)
  /\ Still

(* The daemon is built twice, as root, from two checked clones; its receipt   *)
(* names both binaries.                                                       *)
SameDaemon(first, second) == first = second

BuildDaemon ==
  /\ pc = "enter" /\ stage = "daemon"
  /\ \E first, second \in Products :
       IF DaemonSource /\ SameDaemon(first, second)
         THEN /\ handoff' = [handoff EXCEPT !["daemon"] =
                   [product |-> first, inputs |-> None, receipt |-> [product |-> second, inputs |-> "root"]]]
              /\ stage' = "assembly"
              /\ UNCHANGED <<pc, jobs, scratch, out>>
         ELSE Refuse
  /\ Still

---------------------------------------------------------------------------
(* The assembly.                                                              *)

(* compare-bridge: two files, the same bytes.                                 *)
CompareBridge == handoff["bridge"].product = handoff["rebuild"].product
(* daemon-verify: both builds of the receipt are the binary.                  *)
DaemonVerified == handoff["daemon"].receipt.product = handoff["daemon"].product
(* require_not_writable_by: the executable and all its parents.               *)
NotWritable == hole # "artifact"

Gathered ==
  /\ Offline /\ SameRpms /\ CleanCheckout /\ SameConfig
  /\ \A s \in Siblings : Complete(s, handoff[s])
  /\ DaemonVerified /\ CompareBridge /\ NotWritable

Gather ==
  /\ pc = "enter" /\ stage = "assembly"
  /\ IF Gathered
       THEN /\ pc' = "run" /\ jobs' = Jobs("assembly") /\ scratch' = Empty
            /\ UNCHANGED <<stage, handoff, out>>
       ELSE Refuse
  /\ Still

(* After `--version`, and only then, the executable is hashed again; after    *)
(* stage.sh its output is adopted.                                            *)
AfterBridge ==
  /\ pc = "run" /\ stage = "assembly" /\ Again
  /\ IF failed \/ (Head(jobs) = "version" /\ ~executable)
       THEN Refuse
       ELSE /\ jobs' = Tail(jobs)
            /\ pc' = IF Tail(jobs) = <<>> THEN "adopt" ELSE "run"
            /\ UNCHANGED <<stage, files>>
  /\ UNCHANGED <<main, dropped, failed, table, names, left, round, env, damage>>

(* adopt_unprivileged_stage looks at each entry, then opens it by its name.   *)
Adoptable == Regular(scratch.product) /\ ~scratch.extra

Adopt ==
  /\ pc = "adopt"
  /\ IF Adoptable THEN pc' = "copy" /\ UNCHANGED <<stage, jobs, files>> ELSE Refuse
  /\ Still

(* The tree so far with the scanner staged and the daemon merged.             *)
Overlay ==
  [bridge |-> Followed(scratch.product), scanner |-> handoff["scanner"].product,
   inputs |-> handoff["scanner"].inputs, daemon |-> handoff["daemon"].product]

(* stage.py: the adopted bridge is the verified artifact; the scanner and its *)
(* inputs are those of the receipt.                                           *)
ScannerOnly(o) == handoff["scanner"].receipt = [product |-> o.scanner, inputs |-> o.inputs]
Matches(o) ==
  /\ o.bridge = handoff["bridge"].product
  /\ handoff["scanner"].receipt = [product |-> o.scanner, inputs |-> o.inputs]

(* verify-system-manifest: the pinned names of the input record agree with    *)
(* the pins; the rest of the record cannot be derived from them.              *)
Verified(o) == o.inputs \in {"root", "partial"}

Ship(o) == out' = o /\ pc' = "done" /\ UNCHANGED <<stage, jobs, scratch, handoff>>

(* Past tampering with the checkout, the hand-overs, the verifier or the      *)
(* tools of the merge anything may be shipped.                                *)
Assemble ==
  /\ pc = "copy"
  /\ \/ IF Matches(Overlay) /\ Verified(Overlay) THEN Ship(Overlay) ELSE Refuse
     \/ "assembly" \in tampered /\ \E o \in Overlays : Ship(o)
  /\ Still

---------------------------------------------------------------------------
Init ==
  /\ ContainmentInit
  /\ stage = "scanner" /\ pc = "enter" /\ jobs = <<>>
  /\ defect \in Defects \union {None} /\ hole \in Holes \union {None}
  /\ executable = TRUE /\ tampered = {}
  /\ scratch = Empty
  /\ handoff = [s \in Siblings |-> None]
  /\ out = None

Next ==
  \/ Enter \/ Prepare \/ Run \/ AfterJob \/ Record \/ Export \/ BuildDaemon
  \/ Gather \/ AfterBridge \/ Adopt \/ Assemble
  \/ Write \/ Escape \/ Overwrite

Spec == Init /\ [][Next]_vars

---------------------------------------------------------------------------
(* Properties.                                                                *)

(* Foreign code gets at root's files only where root could not have seen it   *)
(* coming. In the stages that build, a drop that took no effect is noticed,   *)
(* and every hole but a hidden one is found by prepare or the selfcheck       *)
(* before the first third-party command. The assembly looks at the executable *)
(* and its parents only: the ancestor's other holes are closed for it because *)
(* the sibling stages refused them; a drop without effect it does not notice  *)
(* (stage.py run_unprivileged, unlike unpriv.py drop_privileges).             *)
RootTreesIntact ==
  [][UNCHANGED <<executable, tampered>>
       \/ (hole = "hidden" /\ UNCHANGED executable)
       \/ (stage = "assembly" /\ ~dropped)]_vars

(* The selfcheck proves that nothing else on the filesystem is writable by    *)
(* the build uid, before any third-party code runs in the stage (unpriv.py,   *)
(* docstring of selfcheck and the comment on PROBES).                         *)
NothingElseWritable == Foreign /\ stage # "assembly" => ~Open

(* Nothing is shipped from an ancestor stage, a cache, a checkout or inputs   *)
(* that are not the reviewed ones, although every stage checks only a part    *)
(* and one that was tampered with may forge what it checks after its build.   *)
NoDefectShips == out # None => defect = None /\ hole \in {None, "hidden"}

(* Bytes of files beyond the scratch directories never cross a stage          *)
(* boundary, although the build uid may leave links behind. Where stages were *)
(* tampered with, they reach the overlay only if both stages of the bridge    *)
(* were, or the one of the scanner, or the assembly itself.                   *)
NothingForeignCrosses ==
  /\ \A s \in Siblings \ tampered : handoff[s] # None => handoff[s].product # "foreign"
  /\ out # None /\ "assembly" \notin tampered =>
       /\ out.bridge = "foreign" => {"bridge", "rebuild"} \subseteq tampered
       /\ out.scanner = "foreign" => "scanner" \in tampered

(* What is shipped was built twice with the same result, whatever the sibling *)
(* stages forged: the bridge in two of them, even though it ran once more,    *)
(* with a writable staging root and perhaps overwriting its own executable,   *)
(* after they were compared; the daemon from two clones.                      *)
ShippedIsBuiltTwice ==
  out # None /\ "assembly" \notin tampered =>
    /\ out.bridge = handoff["bridge"].product /\ out.bridge = handoff["rebuild"].product
    /\ out.daemon = handoff["daemon"].product /\ out.daemon = handoff["daemon"].receipt.product

(* The shipped scanner comes with a receipt for exactly its record and its    *)
(* binary, and the record does not contradict the pins, whatever its stage    *)
(* forged. Unless it was tampered with, the record is the one root made       *)
(* before the build, although the build uid can rewrite record, receipt and   *)
(* binary until it is reaped.                                                 *)
ScannerEvidenceHolds ==
  out # None /\ "assembly" \notin tampered =>
    /\ handoff["scanner"].receipt = [product |-> out.scanner, inputs |-> out.inputs]
    /\ out.inputs # "wrong"
    /\ out.inputs = "root" \/ "scanner" \in tampered

=============================================================================
