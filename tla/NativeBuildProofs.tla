------------------------- MODULE NativeBuildProofs -------------------------
(* Proofs about the native build, for every set of process ids, every number  *)
(* of rounds, and every set of defects and holes. What a contained command    *)
(* leaves behind is settled in ContainmentProofs; here it is used: whenever   *)
(* root looks at a scratch directory, nobody is left who could change it.     *)
EXTENDS NativeBuild, ContainmentProofs

---------------------------------------------------------------------------
(* The inductive invariant.                                                   *)

(* The jobs root still has to run, as the tuples they are.                    *)
JobLists ==
  {<<>>, <<"selfcheck", "build">>, <<"build">>,
   <<"selfcheck", "fetch", "build", "repro", "verify">>, <<"fetch", "build", "repro", "verify">>,
   <<"build", "repro", "verify">>, <<"repro", "verify">>, <<"verify">>,
   <<"selfcheck", "fetch", "build">>, <<"fetch", "build">>, <<"version", "stage">>, <<"stage">>}

Builds == {"scanner", "bridge", "rebuild"}
Stages == Builds \union {"daemon", "assembly"}
Places == {"enter", "prepare", "run", "record", "export", "adopt", "copy", "done", "refused"}

Types ==
  /\ stage \in Stages /\ pc \in Places /\ jobs \in JobLists
  /\ defect \in Defects \union {None} /\ hole \in Holes \union {None} 
  /\ executable \in BOOLEAN /\ tampered \subseteq Stages \ {"daemon"}
  /\ scratch \in Scratches /\ handoff \in [Siblings -> Handoffs \union {None}] /\ out \in Overlays \union {None}

(* Where root may be in a stage. Commands run in "run" only.                  *)
Whereabouts ==
  /\ pc \in {"prepare", "export"} => stage \in Builds
  /\ pc = "record" => stage = "scanner"
  /\ pc = "run" => stage # "daemon" /\ jobs # <<>>
  /\ pc \in {"adopt", "copy", "done"} => stage = "assembly"
  /\ pc # "run" => phase = "idle"

(* In the stages that build, nobody runs with root's privileges.              *)
Unprivileged == Alive # {} /\ stage # "assembly" => dropped

(* What root has checked by now: before the first foreign command of a build  *)
(* the holes it looks for, ...                                                *)
Assembling == stage = "assembly" /\ pc \in {"run", "adopt", "copy", "done"}
FoundHoles ==
  /\ pc = "run" /\ stage \in Builds => jobs = Jobs(stage) \/ NothingWritable
  /\ pc \in {"record", "export"} \/ stage # "scanner" => NothingWritable
  /\ Assembling => NotWritable
(* ... and the inputs each stage vouches for, which the later ones rely on.   *)
FoundDefects ==
  /\ pc \in {"prepare", "run", "record", "export"} \/ stage # "scanner" => Offline /\ SameRpms /\ InputsPhase
  /\ stage = "assembly" => DaemonSource
  /\ Assembling => CleanCheckout /\ SameConfig

(* What was handed over, and what the assembly has compared.                  *)
Handed ==
  /\ stage # "scanner" => handoff["scanner"] # None
  /\ stage \notin {"scanner", "bridge"} => handoff["bridge"] # None
  /\ stage \in {"daemon", "assembly"} => handoff["rebuild"] # None
  /\ stage = "assembly" => handoff["daemon"] # None
  /\ handoff["scanner"] # None /\ "scanner" \notin tampered => handoff["scanner"].inputs = "root"
  /\ Assembling => CompareBridge /\ DaemonVerified
NoLinks == \A s \in Siblings \ tampered : handoff[s] # None => handoff[s].product \in Products
(* Nobody is left who could put root's record aside before the export.        *)
Recorded == pc = "export" /\ stage = "scanner" => scratch.inputs = "root"

Shipped ==
  out # None =>
    /\ pc = "done"
    /\ "assembly" \notin tampered =>
         /\ out.bridge = handoff["bridge"].product
         /\ out.scanner = handoff["scanner"].product /\ out.inputs = handoff["scanner"].inputs
         /\ out.daemon = handoff["daemon"].product
         /\ handoff["scanner"].receipt = [product |-> out.scanner, inputs |-> out.inputs]
         /\ out.inputs # "wrong"

BuildInv ==
  /\ ContainmentInv /\ Types /\ Whereabouts /\ Unprivileged
  /\ FoundHoles /\ FoundDefects /\ Handed /\ NoLinks /\ Recorded /\ Shipped

---------------------------------------------------------------------------
(* The lists of commands.                                                     *)

(* What is left of a list after its first command is one of the lists.        *)
LEMMA TailIsJobList ==
  ASSUME NEW j \in JobLists, j # <<>>
  PROVE  Tail(j) \in JobLists
<1>1. CASE j \in {<<"build">>, <<"verify">>, <<"stage">>}
  <2>1. ASSUME NEW x PROVE Tail(<<x>>) = <<>>
    OBVIOUS
  <2>2. Tail(j) = <<>>
    BY <1>1, <2>1
  <2>. QED
    BY <2>2 DEF JobLists
<1>2. CASE j = <<"selfcheck", "build">>
  BY <1>2 DEF JobLists
<1>3. CASE j = <<"selfcheck", "fetch", "build", "repro", "verify">>
  <2>1. Tail(j) = <<"fetch", "build", "repro", "verify">>
    BY <1>3
  <2>. QED
    BY <2>1 DEF JobLists
<1>4. CASE j = <<"fetch", "build", "repro", "verify">>
  BY <1>4 DEF JobLists
<1>5. CASE j = <<"build", "repro", "verify">>
  BY <1>5 DEF JobLists
<1>6. CASE j = <<"repro", "verify">>
  BY <1>6 DEF JobLists
<1>7. CASE j = <<"selfcheck", "fetch", "build">>
  BY <1>7 DEF JobLists
<1>8. CASE j = <<"fetch", "build">>
  BY <1>8 DEF JobLists
<1>9. CASE j = <<"version", "stage">>
  BY <1>9 DEF JobLists
<1>. QED
  BY <1>1, <1>2, <1>3, <1>4, <1>5, <1>6, <1>7, <1>8, <1>9 DEF JobLists

(* The lists root starts with: a build begins with the selfcheck.             *)
LEMMA JobsOfStages ==
  /\ \A s \in Builds \union {"assembly"} : Jobs(s) \in JobLists /\ Jobs(s) # <<>>
  /\ \A s \in Builds : Head(Jobs(s)) = "selfcheck"
<1>1. Jobs("scanner") = <<"selfcheck", "build">>
  BY DEF Jobs
<1>2. Jobs("bridge") = <<"selfcheck", "fetch", "build", "repro", "verify">>
  BY DEF Jobs
<1>3. Jobs("rebuild") = <<"selfcheck", "fetch", "build">>
  BY DEF Jobs
<1>4. Jobs("assembly") = <<"version", "stage">>
  BY DEF Jobs
<1>. QED
  BY <1>1, <1>2, <1>3, <1>4 DEF Builds, JobLists

(* Every such list is a suffix of the list of a stage.                        *)
LEMMA ListsAreSuffixes ==
  ASSUME NEW j \in JobLists
  PROVE  \E s \in {"scanner", "bridge", "rebuild", "assembly"}, i \in 1..6 : j = SubSeq(Jobs(s), i, Len(Jobs(s)))
<1>. DEFINE Suffix(s, i) == SubSeq(Jobs(s), i, Len(Jobs(s)))
<1>1. /\ <<"selfcheck", "build">> = Suffix("scanner", 1) /\ <<"build">> = Suffix("scanner", 2)
      /\ <<>> = Suffix("scanner", 3)
  BY DEF Jobs
<1>2. /\ <<"selfcheck", "fetch", "build", "repro", "verify">> = Suffix("bridge", 1)
      /\ <<"fetch", "build", "repro", "verify">> = Suffix("bridge", 2)
      /\ <<"build", "repro", "verify">> = Suffix("bridge", 3)
      /\ <<"repro", "verify">> = Suffix("bridge", 4) /\ <<"verify">> = Suffix("bridge", 5)
  BY DEF Jobs
<1>3. <<"selfcheck", "fetch", "build">> = Suffix("rebuild", 1) /\ <<"fetch", "build">> = Suffix("rebuild", 2)
  BY DEF Jobs
<1>4. <<"version", "stage">> = Suffix("assembly", 1) /\ <<"stage">> = Suffix("assembly", 2)
  BY DEF Jobs
<1>. HIDE DEF Suffix
<1>5. {1, 2, 3, 4, 5} \subseteq 1..6
  OBVIOUS
<1>6. \E s \in {"scanner", "bridge", "rebuild", "assembly"}, i \in 1..6 : j = Suffix(s, i)
  BY <1>1, <1>2, <1>3, <1>4, <1>5, Zenon DEF JobLists
<1>. QED
  BY <1>6 DEF Suffix

---------------------------------------------------------------------------
(* The order of the stages.                                                   *)

(* Each sibling stage is followed by the next one, the last by the assembly.  *)
LEMMA StageOrder ==
  /\ NextStage("scanner") = "bridge" /\ NextStage("bridge") = "rebuild" /\ NextStage("rebuild") = "daemon"
  /\ {Order[i] : i \in 1..5} = Stages
<1>1. /\ Order[1] = "scanner" /\ Order[2] = "bridge" /\ Order[3] = "rebuild"
      /\ Order[4] = "daemon" /\ Order[5] = "assembly"
  BY DEF Order
<1>. HIDE DEF Order
<1>2. \A i \in 1..5 : i = 1 \/ i = 2 \/ i = 3 \/ i = 4 \/ i = 5
  OBVIOUS
<1>3. (CHOOSE i \in 1..4 : Order[i] = "scanner") = 1
  <2>1. \A i \in 1..4 : Order[i] = "scanner" <=> i = 1
    BY <1>1, <1>2
  <2>. QED
    BY <2>1
<1>4. (CHOOSE i \in 1..4 : Order[i] = "bridge") = 2
  <2>1. \A i \in 1..4 : Order[i] = "bridge" <=> i = 2
    BY <1>1, <1>2
  <2>. QED
    BY <2>1
<1>5. (CHOOSE i \in 1..4 : Order[i] = "rebuild") = 3
  <2>1. \A i \in 1..4 : Order[i] = "rebuild" <=> i = 3
    BY <1>1, <1>2
  <2>. QED
    BY <2>1
<1>6. {Order[i] : i \in 1..5} = Stages
  BY <1>1, <1>2 DEF Stages, Builds
<1>. QED
  BY <1>1, <1>3, <1>4, <1>5, <1>6 DEF NextStage

---------------------------------------------------------------------------
(* The contained commands.                                                    *)

(* Between two commands nobody of the build uid is left.                      *)
LEMMA NobodyBetween ==
  ASSUME BuildInv, pc # "run"
  PROVE  Alive = {}
<1>1. phase = "idle" /\ NothingSurvives
  BY DEF BuildInv, Whereabouts, ContainmentInv
<1>. QED
  BY <1>1 DEF NothingSurvives, Descendants, Alive

(* Whoever starts, directly or by a fork, has dropped root's privileges,      *)
(* unless nobody looks.                                                       *)
LEMMA DropHolds ==
  ASSUME ContainmentInv, Unprivileged, stage' = stage,
         Runs(stage # "assembly") \/ Exits \/ Forks \/ TimedOut
  PROVE  Unprivileged'
<1>0. state \in [Pids -> {"free", "alive", "zombie", "stranger"}] /\ main \in Pids \union {None}
  BY DEF ContainmentInv, ContainmentTypeOK
<1>1. ASSUME NEW p \in Pids, Dies(p), dropped' = dropped PROVE Unprivileged'
  <2>1. Alive' \subseteq Alive
    BY <1>0, <1>1 DEF Dies, Alive
  <2>. QED
    BY <1>1, <2>1 DEF Unprivileged
<1>2. ASSUME state' = state, dropped' = dropped PROVE Unprivileged'
  BY <1>2 DEF Unprivileged, Alive
<1>3. ASSUME Spawn(stage # "assembly") PROVE Unprivileged'
  <2>1. stage # "assembly" => dropped' = TRUE \/ UNCHANGED <<state, dropped>>
    BY <1>3 DEF Spawn, Executes, table
  <2>. QED
    BY <1>2, <2>1 DEF Unprivileged
<1>4. ASSUME Ended \/ Reap PROVE Unprivileged'
  <2>1. dropped' = dropped
    BY <1>4 DEF Ended, Reap
  <2>2. Alive' \subseteq Alive
    BY <1>0, <1>4 DEF Ended, Reap, Reaped, Alive
  <2>. QED
    BY <2>1, <2>2 DEF Unprivileged
<1>5. ASSUME NEW p \in Pids, Scan \/ ReadAll \/ Read(p) PROVE Unprivileged'
  BY <1>2, <1>5 DEF Scan, ReadAll, Read, table
<1>6. ASSUME NEW p \in Pids, Kill(p) PROVE Unprivileged'
  BY <1>1, <1>6 DEF Kill
<1>7. ASSUME TimedOut PROVE Unprivileged'
  <2>1. phase = "running" /\ Dies(main) /\ dropped' = dropped
    BY <1>7 DEF TimedOut
  <2>2. main \in Pids
    BY <2>1 DEF ContainmentInv, MainIsMine, Descendants
  <2>. QED
    BY <1>1, <2>1, <2>2
<1>8. ASSUME NEW p \in Pids, Exit(p) PROVE Unprivileged'
  BY <1>1, <1>8 DEF Exit, Elsewhere
<1>9. ASSUME NEW p \in Pids, NEW q \in Pids, Fork(p, q) \/ Collect(p, q) PROVE Unprivileged'
  <2>1. state[p] = "alive" /\ dropped' = dropped
    BY <1>9 DEF Fork, Collect, Elsewhere
  <2>. QED
    BY <2>1 DEF Unprivileged, Alive
<1>10. CASE Runs(stage # "assembly")
  <2>1. CASE \E p \in Pids : Read(p) \/ Kill(p)
    BY <1>5, <1>6, <2>1
  <2>2. CASE Scan \/ ReadAll
    BY <1>2, <2>2 DEF Scan, ReadAll, table
  <2>. QED
    BY <1>3, <1>4, <1>10, <2>1, <2>2 DEF Runs, CleansUp
<1>. QED
  BY <1>7, <1>8, <1>9, <1>10 DEF Exits, Forks

(* A step of the contained command or of the clean-up after it.               *)
LEMMA ContainedStep ==
  ASSUME BuildInv, ContainmentInv', Unprivileged', UNCHANGED <<control, env, damage, files>>,
         pc = "run" \/ phase' = phase
  PROVE  BuildInv'
<1>1. UNCHANGED <<stage, pc, jobs, defect, hole, executable, tampered, scratch, handoff, out>>
  BY DEF control, env, damage, files
<1>2. Types' /\ Whereabouts' /\ NoLinks' /\ Recorded' /\ Shipped'
  BY <1>1 DEF BuildInv, Types, Whereabouts, NoLinks, Recorded, Shipped
<1>3. FoundHoles'
  BY <1>1 DEF BuildInv, FoundHoles, Assembling, NothingWritable, NotWritable, Jobs
<1>4. FoundDefects'
  BY <1>1 DEF BuildInv, FoundDefects, Assembling, Offline, SameRpms, InputsPhase, PinnedSources, CargoHome,
              NoCargoConfig, SameToolchain, DaemonSource, CleanCheckout, SameConfig
<1>5. Handed'
  BY <1>1 DEF BuildInv, Handed, Assembling, CompareBridge, DaemonVerified
<1>. QED
  BY <1>2, <1>3, <1>4, <1>5 DEF BuildInv

(* Commands run contained.                                                    *)
LEMMA RunStep ==
  ASSUME BuildInv, Run
  PROVE  BuildInv'
<1>1. /\ UNCHANGED <<control, env, damage, files>> /\ stage' = stage
      /\ Runs(stage # "assembly") \/ Exits \/ Forks \/ TimedOut
      /\ pc = "run" \/ Exits \/ Forks
  BY DEF Run, control
<1>2. ContainmentInv /\ Unprivileged
  BY DEF BuildInv
<1>3. ContainmentInv'
  BY <1>1, <1>2, ContainmentStep DEF ContainmentNext
<1>4. Unprivileged'
  BY <1>1, <1>2, DropHolds
<1>5. pc = "run" \/ phase' = phase
  BY <1>1 DEF Exits, Exit, Forks, Fork, Collect, Elsewhere
<1>. QED
  BY <1>1, <1>3, <1>4, <1>5, ContainedStep

(* Root's own steps leave the process table alone; between two stages it is   *)
(* empty.                                                                     *)
LEMMA NobodyMoves ==
  ASSUME BuildInv, UNCHANGED contained, stage' = stage \/ pc # "run"
  PROVE  ContainmentInv' /\ Unprivileged'
<1>1. UNCHANGED <<phase, main, dropped, failed, state, parent, names, left, round>>
  BY DEF contained
<1>2. ContainmentInv'
  BY <1>1 DEF BuildInv, ContainmentInv, ContainmentTypeOK, Family, Rooted, MainIsMine, ScanIsSound, RoundsLeft,
              NothingSurvives, Alive, Descendants
<1>3. CASE stage' = stage
  BY <1>1, <1>2, <1>3 DEF BuildInv, Unprivileged, Alive
<1>4. CASE pc # "run"
  BY <1>1, <1>2, <1>4, NobodyBetween DEF Unprivileged, Alive
<1>. QED
  BY <1>3, <1>4

(* Foreign code writes into its scratch directories.                          *)
LEMMA WriteStep ==
  ASSUME BuildInv, Write
  PROVE  BuildInv'
<1>1. /\ UNCHANGED <<stage, pc, jobs, defect, hole, executable, tampered, handoff, out, contained>> /\ scratch' \in Changes
      /\ pc = "run"
  BY NobodyBetween DEF Write, Foreign, control, env, damage
<1>2. scratch \in Scratches
  BY DEF BuildInv, Types
<1>3. scratch' \in Scratches
  <2>1. ASSUME NEW e \in Entries, scratch' = [scratch EXCEPT !.product = e] PROVE scratch' \in Scratches
    BY <1>2, <2>1 DEF Scratches
  <2>2. ASSUME NEW i \in Inputs, scratch' = [scratch EXCEPT !.inputs = i] PROVE scratch' \in Scratches
    BY <1>2, <2>2 DEF Scratches
  <2>3. ASSUME NEW r \in Receipts, scratch' = [scratch EXCEPT !.receipt = r] PROVE scratch' \in Scratches
    <3>. DEFINE R == Receipts
    <3>1. scratch \in [product : Entries, inputs : Inputs \union {None}, receipt : R, extra : BOOLEAN] /\ r \in R
      BY <1>2 DEF Scratches
    <3>. HIDE DEF R
    <3>2. scratch' \in [product : Entries, inputs : Inputs \union {None}, receipt : R, extra : BOOLEAN]
      BY <2>3, <3>1
    <3>. QED
      BY <3>2 DEF R, Scratches
  <2>4. ASSUME scratch' = [scratch EXCEPT !.extra = TRUE] PROVE scratch' \in Scratches
    BY <1>2, <2>4 DEF Scratches
  <2>. QED
    BY <1>1, <2>1, <2>2, <2>3, <2>4 DEF Changes
<1>4. Types' /\ Whereabouts' /\ NoLinks' /\ Recorded' /\ Shipped'
  BY <1>1, <1>3 DEF BuildInv, Types, Whereabouts, NoLinks, Recorded, Shipped, contained
<1>5. FoundHoles'
  BY <1>1 DEF BuildInv, FoundHoles, Assembling, NothingWritable, NotWritable, Jobs
<1>6. FoundDefects'
  BY <1>1 DEF BuildInv, FoundDefects, Assembling, Offline, SameRpms, InputsPhase, PinnedSources, CargoHome,
              NoCargoConfig, SameToolchain, DaemonSource, CleanCheckout, SameConfig
<1>7. Handed'
  BY <1>1 DEF BuildInv, Handed, Assembling, CompareBridge, DaemonVerified
<1>8. ContainmentInv' /\ Unprivileged'
  BY <1>1, NobodyMoves
<1>. QED
  BY <1>4, <1>5, <1>6, <1>7, <1>8 DEF BuildInv

(* Foreign code changes root's files: only while a command runs.              *)
LEMMA EscapeStep ==
  ASSUME BuildInv, Escape \/ Overwrite
  PROVE  BuildInv'
<1>1. /\ UNCHANGED <<stage, pc, jobs, defect, hole, scratch, handoff, out, contained>>
      /\ executable' \in {executable, FALSE} /\ tampered' \in {tampered, tampered \union {stage}} /\ pc = "run"
  BY NobodyBetween DEF Escape, Overwrite, Foreign, control, env, files
<1>2. tampered \subseteq tampered' /\ tampered' \subseteq Stages \ {"daemon"} /\ executable' \in BOOLEAN /\ out = None
  BY <1>1 DEF BuildInv, Types, Whereabouts, Shipped
<1>3. Types' /\ Whereabouts' /\ NoLinks' /\ Recorded' /\ Shipped'
  BY <1>1, <1>2 DEF BuildInv, Types, Whereabouts, NoLinks, Recorded, Shipped, contained
<1>4. FoundHoles'
  BY <1>1 DEF BuildInv, FoundHoles, Assembling, NothingWritable, NotWritable, Jobs
<1>5. FoundDefects'
  BY <1>1 DEF BuildInv, FoundDefects, Assembling, Offline, SameRpms, InputsPhase, PinnedSources, CargoHome,
              NoCargoConfig, SameToolchain, DaemonSource, CleanCheckout, SameConfig
<1>6. Handed'
  BY <1>1, <1>2 DEF BuildInv, Handed, Assembling, CompareBridge, DaemonVerified
<1>7. ContainmentInv' /\ Unprivileged'
  BY <1>1, NobodyMoves
<1>. QED
  BY <1>3, <1>4, <1>5, <1>6, <1>7 DEF BuildInv

---------------------------------------------------------------------------
(* Root's steps.                                                              *)

(* The stage fails: nothing is handed over.                                   *)
LEMMA RefuseStep ==
  ASSUME BuildInv, Refuse, pc # "done", UNCHANGED <<defect, hole, executable, tampered>>, ContainmentInv', Unprivileged',
         phase' = "idle"
  PROVE  BuildInv'
<1>1. pc' = "refused" /\ UNCHANGED <<stage, jobs, defect, hole, executable, tampered, scratch, handoff, out>>
  BY DEF Refuse, files
<1>2. out = None
  BY DEF BuildInv, Shipped
<1>3. Types' /\ Whereabouts' /\ NoLinks' /\ Recorded' /\ Shipped'
  BY <1>1, <1>2 DEF BuildInv, Types, Places, Whereabouts, NoLinks, Recorded, Shipped
<1>4. FoundHoles'
  BY <1>1 DEF BuildInv, FoundHoles, Assembling, NothingWritable
<1>5. FoundDefects'
  BY <1>1 DEF BuildInv, FoundDefects, Assembling, Offline, SameRpms, InputsPhase, PinnedSources, CargoHome,
              NoCargoConfig, SameToolchain, DaemonSource
<1>6. Handed'
  BY <1>1 DEF BuildInv, Handed, Assembling
<1>. QED
  BY <1>3, <1>4, <1>5, <1>6 DEF BuildInv

(* The same outside of a command.                                             *)
LEMMA StillRefuseStep ==
  ASSUME BuildInv, Refuse, pc \notin {"run", "done"}, Still
  PROVE  BuildInv'
<1>1. UNCHANGED <<defect, hole, executable, tampered, contained>>
  BY DEF Still, env, damage
<1>2. ContainmentInv' /\ Unprivileged'
  BY <1>1, NobodyMoves DEF Refuse
<1>3. phase' = "idle"
  BY <1>1 DEF BuildInv, Whereabouts, contained
<1>. QED
  BY <1>1, <1>2, <1>3, RefuseStep

(* Root goes on in the same stage, having handed over nothing new.            *)
LEMMA GoOnStep ==
  ASSUME BuildInv, pc \notin {"done", "refused"}, UNCHANGED <<stage, defect, hole, executable, tampered, handoff, out>>, ContainmentInv',
         Unprivileged', phase' = "idle", pc' \in Places \ {"done"}, jobs' \in JobLists, scratch' \in Scratches,
         pc' \in {"prepare", "export"} => stage \in Builds,
         pc' = "record" => stage = "scanner",
         pc' = "export" /\ stage = "scanner" => scratch'.inputs = "root",
         pc' = "run" => stage # "daemon" /\ jobs' # <<>>,
         pc' \in {"adopt", "copy"} => stage = "assembly",
         pc' = "run" /\ stage \in Builds => jobs' = Jobs(stage) \/ NothingWritable,
         pc' \in {"record", "export"} => NothingWritable,
         stage = "scanner" => Offline /\ SameRpms /\ InputsPhase,
         stage = "assembly" => NotWritable /\ CleanCheckout /\ SameConfig /\ CompareBridge /\ DaemonVerified
  PROVE  BuildInv'
<1>1. out = None
  BY DEF BuildInv, Shipped
<1>2. Types' /\ Whereabouts' /\ NoLinks' /\ Recorded' /\ Shipped'
  BY <1>1 DEF BuildInv, Types, Places, Whereabouts, NoLinks, Recorded, Shipped
<1>3. FoundHoles'
  BY DEF BuildInv, FoundHoles, Assembling, NothingWritable, NotWritable, Jobs
<1>4. FoundDefects'
  BY DEF BuildInv, FoundDefects, Assembling, Offline, SameRpms, InputsPhase, PinnedSources, CargoHome,
         NoCargoConfig, SameToolchain, DaemonSource, CleanCheckout, SameConfig
<1>5. Handed'
  BY DEF BuildInv, Handed, Assembling, CompareBridge, DaemonVerified
<1>. QED
  BY <1>2, <1>3, <1>4, <1>5 DEF BuildInv

(* Root enters a stage, prepares it, or gathers what was handed over; it      *)
(* records the scanner's inputs, and adopts the output of the bridge.         *)
LEMMA QuietStep ==
  ASSUME BuildInv, Enter \/ Prepare \/ Record \/ Gather \/ Adopt
  PROVE  BuildInv'
<1>1. Still /\ pc \notin {"run", "done", "refused"}
  BY DEF Enter, Prepare, Record, Gather, Adopt
<1>2. UNCHANGED <<defect, hole, executable, tampered, contained>>
  BY <1>1 DEF Still, env, damage
<1>3. ContainmentInv' /\ Unprivileged'
  BY <1>1, <1>2, NobodyMoves
<1>4. phase' = "idle"
  BY <1>1, <1>2 DEF BuildInv, Whereabouts, contained
<1>5. Whereabouts /\ FoundDefects /\ FoundHoles /\ Handed /\ stage \in Stages /\ jobs \in JobLists /\ scratch \in Scratches
  BY DEF BuildInv, Types
<1>6. Empty \in Scratches
  BY DEF Empty, Scratches, Entries, Receipts
<1>7. CASE Refuse
  BY <1>1, <1>7, StillRefuseStep
<1>8. CASE Enter /\ ~Refuse
  <2>1. pc = "enter" /\ stage \in Builds /\ Enters(stage) /\ pc' = "prepare" /\ UNCHANGED <<stage, jobs, scratch, handoff, out>>
    BY <1>8 DEF Enter, Builds, files
  <2>2. stage = "scanner" => Offline /\ SameRpms /\ InputsPhase
    BY <2>1 DEF Enters
  <2>3. stage # "assembly"
    BY <2>1 DEF Builds
  <2>. QED
    BY <1>1, <1>2, <1>3, <1>4, <1>5, <2>1, <2>2, <2>3, GoOnStep DEF Places
<1>9. CASE Prepare /\ ~Refuse
  <2>1. pc = "prepare" /\ pc' = "run" /\ jobs' = Jobs(stage) /\ scratch' = Empty /\ UNCHANGED <<stage, handoff, out>>
    BY <1>9 DEF Prepare
  <2>2. stage \in Builds /\ stage \notin {"assembly", "daemon"} /\ (stage = "scanner" => Offline /\ SameRpms /\ InputsPhase)
    BY <1>5, <2>1 DEF Whereabouts, FoundDefects, Builds
  <2>3. jobs' \in JobLists /\ jobs' # <<>>
    BY <2>1, <2>2, JobsOfStages
  <2>. QED
    BY <1>1, <1>2, <1>3, <1>4, <1>6, <2>1, <2>2, <2>3, GoOnStep DEF Places
<1>10. CASE Gather /\ ~Refuse
  <2>1. /\ stage = "assembly" /\ Gathered /\ pc' = "run" /\ jobs' = Jobs(stage) /\ scratch' = Empty
        /\ UNCHANGED <<stage, handoff, out>>
    BY <1>10 DEF Gather
  <2>2. jobs' \in JobLists /\ jobs' # <<>>
    BY <2>1, JobsOfStages
  <2>3. NotWritable /\ CleanCheckout /\ SameConfig /\ CompareBridge /\ DaemonVerified
    BY <2>1 DEF Gathered
  <2>4. stage \notin Builds \union {"scanner", "daemon"}
    BY <2>1 DEF Builds
  <2>. QED
    BY <1>1, <1>2, <1>3, <1>4, <1>6, <2>1, <2>2, <2>3, <2>4, GoOnStep DEF Places
<1>11. CASE Adopt /\ ~Refuse
  <2>1. pc = "adopt" /\ pc' = "copy" /\ UNCHANGED <<stage, jobs, scratch, handoff, out>>
    BY <1>11 DEF Adopt, files
  <2>2. stage = "assembly" /\ NotWritable /\ CleanCheckout /\ SameConfig /\ CompareBridge /\ DaemonVerified
    BY <1>5, <2>1 DEF Whereabouts, FoundDefects, FoundHoles, Handed, Assembling
  <2>3. stage # "scanner"
    BY <2>2
  <2>. QED
    BY <1>1, <1>2, <1>3, <1>4, <1>5, <2>1, <2>2, <2>3, GoOnStep DEF Places
<1>12. CASE Record
  <2>1. /\ pc = "record" /\ pc' = "export" /\ scratch' = [scratch EXCEPT !.inputs = RootsRecord]
        /\ UNCHANGED <<stage, jobs, handoff, out>>
    BY <1>12 DEF Record
  <2>2. stage = "scanner" /\ NothingWritable /\ Offline /\ SameRpms /\ InputsPhase
    BY <1>5, <2>1 DEF Whereabouts, FoundDefects, FoundHoles
  <2>3. RootsRecord = "root" /\ RootsRecord \in Inputs
    BY <2>2 DEF RootsRecord, InputsPhase, Inputs
  <2>. DEFINE R == Receipts
  <2>4. scratch \in [product : Entries, inputs : Inputs \union {None}, receipt : R, extra : BOOLEAN]
    BY <1>5 DEF Scratches
  <2>. HIDE DEF R
  <2>5. /\ scratch' \in [product : Entries, inputs : Inputs \union {None}, receipt : R, extra : BOOLEAN]
        /\ scratch'.inputs = "root"
    BY <2>1, <2>3, <2>4
  <2>6. scratch' \in Scratches
    BY <2>5 DEF R, Scratches
  <2>7. stage \in Builds /\ stage # "assembly"
    BY <2>2 DEF Builds
  <2>. QED
    BY <1>1, <1>2, <1>3, <1>4, <1>5, <2>1, <2>2, <2>5, <2>6, <2>7, GoOnStep DEF Places
<1>. QED
  BY <1>7, <1>8, <1>9, <1>10, <1>11, <1>12

(* A command has ended and everybody it left behind is gone.                  *)
LEMMA AfterCommandStep ==
  ASSUME BuildInv, AfterJob \/ AfterBridge
  PROVE  BuildInv'
<1>1. /\ pc = "run" /\ Again /\ UNCHANGED <<main, dropped, failed, table, names, left, round>>
      /\ UNCHANGED <<defect, hole, executable, tampered>>
  BY DEF AfterJob, AfterBridge, env, damage
<1>2. ContainmentInv /\ Unprivileged /\ Whereabouts /\ FoundHoles /\ FoundDefects /\ Handed
      /\ stage \in Stages /\ jobs \in JobLists /\ scratch \in Scratches
  BY DEF BuildInv, Types
<1>3. ContainmentInv' /\ phase' = "idle"
  BY <1>1, <1>2, ContainmentStep DEF ContainmentNext, Again
<1>4. Unprivileged'
  <2>1. stage' = stage /\ UNCHANGED <<state, dropped>>
    BY <1>1 DEF AfterJob, AfterBridge, Refuse, table
  <2>. QED
    BY <1>2, <2>1 DEF Unprivileged, Alive
<1>5. jobs # <<>> /\ stage # "daemon"
  BY <1>1, <1>2 DEF Whereabouts
<1>6. CASE Refuse
  BY <1>1, <1>3, <1>4, <1>6, RefuseStep
<1>7. CASE ~Refuse
  <2>1. jobs' = Tail(jobs) /\ UNCHANGED <<stage, scratch, handoff, out>>
    BY <1>7 DEF AfterJob, AfterBridge, files
  <2>2. jobs' \in JobLists
    BY <1>2, <1>5, <2>1, TailIsJobList
  <2>3. /\ stage = "scanner" => Offline /\ SameRpms /\ InputsPhase
        /\ stage = "assembly" => NotWritable /\ CleanCheckout /\ SameConfig /\ CompareBridge /\ DaemonVerified
    BY <1>1, <1>2 DEF FoundDefects, FoundHoles, Handed, Assembling
  <2>4. CASE AfterJob
    <3>1. /\ stage \in Builds /\ Accepts(Head(jobs)) 
          /\ pc' = IF jobs' # <<>> THEN "run" ELSE IF stage = "scanner" THEN "record" ELSE "export"
      BY <1>2, <1>5, <1>7, <2>1, <2>4 DEF AfterJob, Stages
    <3>2. NothingWritable
      BY <1>1, <1>2, <3>1, JobsOfStages DEF FoundHoles, Accepts
    <3>. QED
      BY <1>1, <1>2, <1>3, <1>4, <1>5, <2>1, <2>2, <2>3, <3>1, <3>2, GoOnStep DEF Places
  <2>5. CASE AfterBridge
    <3>1. stage = "assembly" /\ pc' = IF jobs' = <<>> THEN "adopt" ELSE "run"
      BY <1>7, <2>1, <2>5 DEF AfterBridge
    <3>2. stage \notin Builds
      BY <3>1 DEF Builds
    <3>. QED
      BY <1>1, <1>2, <1>3, <1>4, <1>5, <2>1, <2>2, <2>3, <3>1, <3>2, GoOnStep DEF Places
  <2>. QED
    BY <2>4, <2>5
<1>. QED
  BY <1>6, <1>7

(* What export copies out of the scratch directories has the type of a        *)
(* handoff, holds no link, and in the scanner stage root's own record.        *)
LEMMA CopiedIsHandoff ==
  ASSUME scratch \in Scratches, stage \in Builds, Complete(stage, Copied(stage)),
         stage = "scanner" => scratch.inputs = "root"
  PROVE  /\ Copied(stage) \in Handoffs /\ Copied(stage).product \in Products
         /\ stage = "scanner" => Copied(stage).inputs = "root"
<1>. DEFINE pr == ReadRegular(scratch.product)
            re == IF stage = "scanner" THEN scratch.receipt ELSE None
            inp == IF stage = "scanner" THEN scratch.inputs ELSE None
<1>1. Copied(stage) = [product |-> pr, inputs |-> inp, receipt |-> re]
  BY DEF Copied
<1>2. pr \in Products \union {None} /\ re \in Receipts /\ inp \in Inputs \union {None}
  BY DEF Scratches, ReadRegular, Regular, Receipts
<1>3. stage = "scanner" => inp = "root"
  OBVIOUS
<1>. HIDE DEF pr, re, inp
<1>4. pr # None
  BY <1>1 DEF Complete
<1>5. pr \in Products \union {"foreign"}
  BY <1>2, <1>4
<1>6. Copied(stage) \in Handoffs
  BY <1>1, <1>2, <1>5 DEF Handoffs
<1>. QED
  BY <1>1, <1>2, <1>3, <1>4, <1>6

(* A stage hands over, and the next one starts from the common ancestor. What *)
(* it hands over is as it should be, unless it was tampered with.             *)
LEMMA HandOverStep ==
  ASSUME BuildInv, pc \in {"export", "enter"}, stage \in Siblings, NEW h \in Handoffs,
         stage \notin tampered => h.product \in Products,
         stage = "scanner" => pc = "export" /\ (stage \notin tampered => h.inputs = "root"),
         stage \in Builds => stage' = NextStage(stage),
         stage = "daemon" => stage' = "assembly" /\ DaemonSource,
         handoff' = [handoff EXCEPT ![stage] = h], pc' = "enter",
         UNCHANGED <<jobs, scratch, out, defect, hole, executable, tampered, contained>>
  PROVE  BuildInv'
<1>1. ContainmentInv' /\ Unprivileged'
  BY NobodyMoves
<1>2. phase' = "idle" /\ out = None
  BY DEF BuildInv, Whereabouts, Shipped, contained
<1>3. h # None /\ handoff \in [Siblings -> Handoffs \union {None}] /\ stage \in Stages
  BY AbsentAssumption DEF BuildInv, Types
<1>4. /\ stage = "scanner" => stage' = "bridge"
      /\ stage = "bridge" => stage' = "rebuild"
      /\ stage = "rebuild" => stage' = "daemon"
      /\ stage = "daemon" => stage' = "assembly"
  BY StageOrder DEF Builds
<1>5. stage \in {"scanner", "bridge", "rebuild", "daemon"} /\ stage' \in Stages /\ stage' # "scanner"
  BY <1>4 DEF Siblings, Stages, Builds
<1>6. \A s \in Siblings : handoff'[s] = IF s = stage THEN h ELSE handoff[s]
  BY <1>3
<1>7. Types' /\ Whereabouts' /\ Recorded' /\ Shipped'
  <2>1. handoff' \in [Siblings -> Handoffs \union {None}]
    BY <1>3
  <2>2. Types'
    BY <1>5, <2>1 DEF BuildInv, Types, Places
  <2>3. Whereabouts' /\ Recorded' /\ Shipped'
    BY <1>2 DEF Whereabouts, Recorded, Shipped
  <2>. QED
    BY <2>2, <2>3
<1>8. FoundHoles'
  BY <1>5 DEF BuildInv, FoundHoles, Assembling, NothingWritable
<1>9. FoundDefects'
  <2>1. Offline /\ SameRpms /\ InputsPhase
    BY <1>5 DEF BuildInv, FoundDefects
  <2>2. stage' = "assembly" => DaemonSource
    BY <1>4, <1>5
  <2>. QED
    BY <2>1, <2>2 DEF FoundDefects, Assembling, Offline, SameRpms, InputsPhase, PinnedSources, CargoHome,
                NoCargoConfig, SameToolchain, DaemonSource
<1>10. NoLinks'
  BY <1>6 DEF BuildInv, NoLinks
<1>11. Handed'
  <2>1. Handed /\ Siblings = {"scanner", "bridge", "rebuild", "daemon"}
    BY DEF BuildInv, Siblings
  <2>2. /\ stage' # "scanner" => handoff'["scanner"] # None
        /\ stage' \notin {"scanner", "bridge"} => handoff'["bridge"] # None
        /\ stage' \in {"daemon", "assembly"} => handoff'["rebuild"] # None
        /\ stage' = "assembly" => handoff'["daemon"] # None
    BY <1>3, <1>4, <1>5, <1>6, <2>1 DEF Handed
  <2>3. handoff'["scanner"] # None /\ "scanner" \notin tampered' => handoff'["scanner"].inputs = "root"
    BY <1>6, <2>1 DEF Handed
  <2>. QED
    BY <2>2, <2>3 DEF Handed, Assembling
<1>. QED
  BY <1>1, <1>7, <1>8, <1>9, <1>10, <1>11 DEF BuildInv

(* The builds export, the daemon stage hands over what it built.              *)
LEMMA ExportStep ==
  ASSUME BuildInv, Export \/ BuildDaemon
  PROVE  BuildInv'
<1>1. CASE Export
  <2>1. pc = "export" /\ Still /\ UNCHANGED <<defect, hole, executable, tampered, contained>>
    BY <1>1 DEF Export, Still, env, damage
  <2>2. stage \in Builds /\ stage \in Siblings /\ stage # "daemon" /\ scratch \in Scratches
    BY <2>1 DEF BuildInv, Whereabouts, Types, Builds, Siblings
  <2>3. CASE Refuse
    BY <2>1, <2>3, StillRefuseStep
  <2>4. ASSUME Complete(stage, Copied(stage)), HandOver(Copied(stage)) PROVE BuildInv'
    <3>1. /\ handoff' = [handoff EXCEPT ![stage] = Copied(stage)]
          /\ stage' = NextStage(stage) /\ pc' = "enter" /\ UNCHANGED <<jobs, scratch, out>>
      BY <2>4 DEF HandOver
    <3>2. stage = "scanner" => scratch.inputs = "root"
      BY <2>1 DEF BuildInv, Recorded
    <3>3. /\ Copied(stage) \in Handoffs /\ Copied(stage).product \in Products
          /\ stage = "scanner" => Copied(stage).inputs = "root"
      BY <2>2, <2>4, <3>2, CopiedIsHandoff
    <3>. QED
      BY <2>1, <2>2, <3>1, <3>3, HandOverStep
  <2>5. ASSUME stage \in tampered, NEW h \in Forgeries(stage), HandOver(h) PROVE BuildInv'
    <3>1. /\ handoff' = [handoff EXCEPT ![stage] = h]
          /\ stage' = NextStage(stage) /\ pc' = "enter" /\ UNCHANGED <<jobs, scratch, out>>
      BY <2>5 DEF HandOver
    <3>2. h \in Handoffs
      BY DEF Forgeries
    <3>. QED
      BY <2>1, <2>2, <2>5, <3>1, <3>2, HandOverStep
  <2>. QED
    BY <1>1, <2>3, <2>4, <2>5 DEF Export
<1>2. CASE BuildDaemon
  <2>1. pc = "enter" /\ stage = "daemon" /\ Still /\ UNCHANGED <<defect, hole, executable, tampered, contained>>
    BY <1>2 DEF BuildDaemon, Still, env, damage
  <2>2. CASE Refuse
    BY <2>1, <2>2, StillRefuseStep
  <2>3. CASE ~Refuse
    <3>1. PICK first \in Products, second \in Products :
            /\ DaemonSource
            /\ handoff' = [handoff EXCEPT !["daemon"] =
                 [product |-> first, inputs |-> None, receipt |-> [product |-> second, inputs |-> "root"]]]
            /\ stage' = "assembly" /\ UNCHANGED <<pc, jobs, scratch, out>>
      BY <1>2, <2>3 DEF BuildDaemon
    <3>. DEFINE r == [product |-> second, inputs |-> "root"]
                h == [product |-> first, inputs |-> None, receipt |-> r]
    <3>2. r \in Receipts
      BY DEF Receipts, Inputs
    <3>. HIDE DEF r
    <3>3. h \in Handoffs /\ h.product \in Products
      BY <3>2 DEF Handoffs
    <3>4. handoff' = [handoff EXCEPT ![stage] = h]
      BY <2>1, <3>1 DEF r
    <3>. HIDE DEF h
    <3>5. stage \in Siblings /\ stage \notin Builds /\ stage # "scanner"
      BY <2>1 DEF Siblings, Builds
    <3>. QED
      BY <2>1, <3>1, <3>3, <3>4, <3>5, HandOverStep
  <2>. QED
    BY <2>2, <2>3
<1>. QED
  BY <1>1, <1>2

(* The overlay is put together and verified.                                  *)
LEMMA AssembleStep ==
  ASSUME BuildInv, Assemble
  PROVE  BuildInv'
<1>1. pc = "copy" /\ Still /\ UNCHANGED <<defect, hole, executable, tampered, contained>>
  BY DEF Assemble, Still, env, damage
<1>2. CASE Refuse
  BY <1>1, <1>2, StillRefuseStep
<1>3. ASSUME NEW o \in Overlays, Ship(o),
             "assembly" \in tampered \/ (o = Overlay /\ Matches(Overlay) /\ Verified(Overlay))
      PROVE  BuildInv'
  <2>1. out' = o /\ pc' = "done" /\ UNCHANGED <<stage, jobs, scratch, handoff>>
    BY <1>3 DEF Ship
  <2>2. ContainmentInv' /\ Unprivileged'
    BY <1>1, <2>1, NobodyMoves
  <2>3. stage = "assembly" /\ phase' = "idle"
    BY <1>1 DEF BuildInv, Whereabouts, contained
  <2>4. Types' /\ Whereabouts' /\ NoLinks' /\ Recorded'
    BY <1>1, <2>1, <2>3 DEF BuildInv, Types, Places, Whereabouts, NoLinks, Recorded
  <2>5. Shipped'
    BY <1>1, <1>3, <2>1 DEF Shipped, Overlay, Matches, Verified
  <2>6. FoundHoles'
    BY <1>1, <2>1, <2>3 DEF BuildInv, FoundHoles, Assembling, NothingWritable, NotWritable
  <2>7. FoundDefects'
    BY <1>1, <2>1, <2>3 DEF BuildInv, FoundDefects, Assembling, Offline, SameRpms, InputsPhase, PinnedSources, CargoHome,
              NoCargoConfig, SameToolchain, DaemonSource, CleanCheckout, SameConfig
  <2>8. Handed'
    BY <1>1, <2>1, <2>3 DEF BuildInv, Handed, Assembling, CompareBridge, DaemonVerified
  <2>. QED
    BY <2>2, <2>4, <2>5, <2>6, <2>7, <2>8 DEF BuildInv
<1>4. ASSUME Matches(Overlay), Verified(Overlay) PROVE Overlay \in Overlays
  <2>1. \A s \in Siblings : handoff[s] \in Handoffs
    BY <1>1 DEF BuildInv, Whereabouts, Types, Handed, Siblings
  <2>2. /\ handoff["scanner"].product \in Products \union {"foreign"}
        /\ handoff["bridge"].product \in Products \union {"foreign"}
    BY <2>1 DEF Siblings, Handoffs
  <2>3. handoff["daemon"].product \in Products
    BY <2>1, AbsentAssumption DEF BuildInv, Types, NoLinks, Siblings
  <2>. DEFINE b == Followed(scratch.product)
              sc == handoff["scanner"].product
              inp == handoff["scanner"].inputs
              d == handoff["daemon"].product
  <2>4. b \in Products \union {"foreign"} /\ sc \in Products \union {"foreign"} /\ d \in Products /\ inp \in Inputs
    BY <1>4, <2>2, <2>3 DEF Overlay, Matches, Verified, Inputs
  <2>5. Overlay = [bridge |-> b, scanner |-> sc, inputs |-> inp, daemon |-> d]
    BY DEF Overlay
  <2>. HIDE DEF b, sc, inp, d
  <2>. QED
    BY <2>4, <2>5 DEF Overlays
<1>. QED
  BY <1>2, <1>3, <1>4 DEF Assemble

---------------------------------------------------------------------------
(* The theorems.                                                              *)

(* Init satisfies the invariant.                                              *)
LEMMA BuildStart ==
  ASSUME Init
  PROVE  BuildInv
<1>1. ContainmentInv
  BY ContainmentStart DEF Init
<1>2. Unprivileged
  BY DEF Init, ContainmentInit, Unprivileged, Alive
<1>3. /\ stage = "scanner" /\ pc = "enter" /\ jobs = <<>> /\ executable = TRUE /\ tampered = {} /\ scratch = Empty /\ out = None
      /\ handoff = [s \in Siblings |-> None] /\ phase = "idle"
      /\ defect \in Defects \union {None} /\ hole \in Holes \union {None}
  BY DEF Init, ContainmentInit
<1>4. Empty \in Scratches
  BY DEF Empty, Scratches, Entries, Receipts
<1>5. Types
  BY <1>3, <1>4 DEF Types, Stages, Builds, Places, JobLists
<1>6. Whereabouts /\ NoLinks /\ Recorded /\ Shipped
  BY <1>3 DEF Whereabouts, NoLinks, Recorded, Shipped
<1>7. FoundHoles /\ FoundDefects
  BY <1>3 DEF FoundHoles, FoundDefects, Assembling
<1>8. Handed
  BY <1>3 DEF Handed, Assembling, Siblings
<1>. QED
  BY <1>1, <1>2, <1>5, <1>6, <1>7, <1>8 DEF BuildInv

(* The invariant holds in every state of every build.                         *)
THEOREM BuildInvariant == Spec => []BuildInv
<1>1. Init => BuildInv
  BY BuildStart
<1>2. ASSUME BuildInv, Next PROVE BuildInv'
  BY <1>2, QuietStep, RunStep, AfterCommandStep, ExportStep, AssembleStep, WriteStep, EscapeStep DEF Next
<1>3. ASSUME BuildInv, UNCHANGED vars PROVE BuildInv'
  <2>1. UNCHANGED <<control, env, damage, files>> /\ phase' = phase /\ UNCHANGED contained
    BY <1>3 DEF vars, contained, control, env, damage, files
  <2>2. ContainmentInv' /\ Unprivileged'
    BY <1>3, <2>1, NobodyMoves DEF vars
  <2>. QED
    BY <1>3, <2>1, <2>2, ContainedStep
<1>4. BuildInv /\ [Next]_vars => BuildInv'
  BY <1>2, <1>3
<1>. QED
  BY <1>1, <1>4, PTL DEF Spec

(* Every variable of the build keeps its type.                                *)
THEOREM BuildTypes == Spec => []TypeOK
<1>1. ASSUME BuildInv PROVE TypeOK
  <2>1. ContainmentTypeOK /\ Types
    BY <1>1 DEF BuildInv, ContainmentInv
  <2>2. \E s \in {"scanner", "bridge", "rebuild", "assembly"}, i \in 1..6 : jobs = SubSeq(Jobs(s), i, Len(Jobs(s)))
    BY <2>1, ListsAreSuffixes DEF Types
  <2>3. stage \in {Order[i] : i \in 1..5} /\ tampered \subseteq {Order[i] : i \in 1..5}
    BY <2>1, StageOrder DEF Types
  <2>. QED
    BY <2>1, <2>2, <2>3 DEF TypeOK, Types, Places
<1>2. BuildInv => TypeOK
  BY <1>1
<1>. QED
  BY <1>2, BuildInvariant, PTL

(* Foreign code gets at root's files only through a hidden hole, or in the    *)
(* assembly when a drop that took no effect goes unnoticed there; whatever    *)
(* processes it forks and leaves behind.                                      *)
THEOREM TreesStayIntact == Spec => RootTreesIntact
<1>. DEFINE Seen == UNCHANGED <<executable, tampered>> \/ (hole = "hidden" /\ UNCHANGED executable)
                      \/ (stage = "assembly" /\ ~dropped)
<1>1. ASSUME BuildInv, Foreign PROVE pc = "run" /\ (stage # "assembly" => dropped)
  BY <1>1, NobodyBetween DEF Foreign, BuildInv, Unprivileged
<1>2. ASSUME BuildInv, Foreign, Open PROVE hole = "hidden"
  <2>1. pc = "run" /\ Whereabouts /\ FoundHoles /\ stage \in Stages
    BY <1>1, <1>2 DEF BuildInv, Types
  <2>2. NothingWritable
    <3>1. CASE stage \in Builds
      BY <1>2, <2>1, <3>1, JobsOfStages DEF FoundHoles, Foreign, Selfchecking, Whereabouts
    <3>2. CASE stage \notin Builds
      BY <2>1, <3>2 DEF FoundHoles, Builds
    <3>. QED
      BY <3>1, <3>2
  <2>. QED
    BY <1>2, <2>2 DEF Open, NothingWritable
<1>3. ASSUME BuildInv, Escape PROVE Seen
  BY <1>1, <1>2, <1>3 DEF Escape
<1>4. ASSUME BuildInv, Overwrite PROVE Seen
  <2>1. Foreign /\ stage = "assembly" /\ (hole = "artifact" \/ ~dropped)
    BY <1>4 DEF Overwrite
  <2>2. NotWritable
    BY <1>1, <1>4, <2>1 DEF BuildInv, FoundHoles, Assembling
  <2>. QED
    BY <2>1, <2>2 DEF NotWritable
<1>5. ASSUME Next, ~Escape, ~Overwrite PROVE UNCHANGED <<executable, tampered>>
  BY <1>5 DEF Next, Enter, Prepare, Run, AfterJob, Record, Export, BuildDaemon, Gather, AfterBridge, Adopt, Assemble,
              Write, Still, damage
<1>6. BuildInv /\ [Next]_vars => [Seen]_vars
  BY <1>3, <1>4, <1>5 DEF vars
<1>. QED
  BY <1>6, BuildInvariant, PTL DEF Spec, RootTreesIntact

(* Nothing ships from defective inputs or past a hole root looks for: each    *)
(* kind is met by the check of some stage that had to pass.                   *)
THEOREM DefectsDoNotShip == Spec => []NoDefectShips
<1>1. ASSUME BuildInv, out # None PROVE defect = None /\ hole \in {None, "hidden"}
  <2>1. pc = "done" /\ stage = "assembly" /\ stage # "scanner" /\ Assembling
    BY <1>1 DEF BuildInv, Shipped, Whereabouts, Assembling
  <2>2. Offline /\ SameRpms /\ InputsPhase /\ DaemonSource /\ CleanCheckout /\ SameConfig
    BY <1>1, <2>1 DEF BuildInv, FoundDefects
  <2>3. NothingWritable /\ NotWritable
    BY <1>1, <2>1 DEF BuildInv, FoundHoles
  <2>4. defect \in DefectKinds \union {None} /\ hole \in HoleKinds \union {None}
    BY <1>1, KindsAssumption DEF BuildInv, Types
  <2>5. defect = None
    BY <2>2, <2>4 DEF DefectKinds, Offline, SameRpms, InputsPhase, PinnedSources, CargoHome, NoCargoConfig,
                      SameToolchain, DaemonSource, CleanCheckout, SameConfig
  <2>6. hole \in {None, "hidden"}
    BY <2>3, <2>4 DEF HoleKinds, NothingWritable, NotWritable
  <2>. QED
    BY <2>5, <2>6
<1>2. BuildInv => NoDefectShips
  BY <1>1 DEF NoDefectShips
<1>. QED
  BY <1>2, BuildInvariant, PTL

(* Bytes of files beyond the scratch directories never cross a stage          *)
(* boundary, unless every stage that vouches for them was tampered with.      *)
THEOREM LinksDoNotCross == Spec => []NothingForeignCrosses
<1>0. "foreign" \notin Products
  BY DEF Products
<1>1. ASSUME BuildInv, out # None, "assembly" \notin tampered
      PROVE  /\ out.bridge = "foreign" => {"bridge", "rebuild"} \subseteq tampered
             /\ out.scanner = "foreign" => "scanner" \in tampered
  <2>1. /\ stage = "assembly" /\ Assembling
        /\ handoff["bridge"] # None /\ handoff["rebuild"] # None /\ handoff["scanner"] # None
    BY <1>1 DEF BuildInv, Shipped, Whereabouts, Handed, Assembling
  <2>2. \A s \in {"scanner", "bridge", "rebuild"} : s \in tampered \/ handoff[s].product # "foreign"
    BY <1>0, <1>1, <2>1 DEF BuildInv, NoLinks, Siblings
  <2>3. handoff["bridge"].product = handoff["rebuild"].product
    BY <1>1, <2>1 DEF BuildInv, Handed, CompareBridge
  <2>4. out.bridge = handoff["bridge"].product /\ out.scanner = handoff["scanner"].product
    BY <1>1 DEF BuildInv, Shipped
  <2>. QED
    BY <2>2, <2>3, <2>4
<1>2. BuildInv => NothingForeignCrosses
  BY <1>0, <1>1 DEF NothingForeignCrosses, BuildInv, NoLinks
<1>. QED
  BY <1>2, BuildInvariant, PTL

(* The shipped bridge and daemon were built twice with the same result,       *)
(* whatever the sibling stages forged.                                        *)
THEOREM BuiltTwice == Spec => []ShippedIsBuiltTwice
<1>1. BuildInv => ShippedIsBuiltTwice
  BY DEF ShippedIsBuiltTwice, BuildInv, Shipped, Whereabouts, Handed, Assembling, CompareBridge, DaemonVerified
<1>. QED
  BY <1>1, BuildInvariant, PTL

(* The shipped scanner comes with a receipt for exactly its record and its    *)
(* binary, and unless its stage was tampered with the record is root's.       *)
THEOREM EvidenceHolds == Spec => []ScannerEvidenceHolds
<1>1. BuildInv => ScannerEvidenceHolds
  BY DEF ScannerEvidenceHolds, BuildInv, Shipped, Whereabouts, Handed
<1>. QED
  BY <1>1, BuildInvariant, PTL

=============================================================================
