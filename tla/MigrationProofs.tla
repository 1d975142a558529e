-------------------------- MODULE MigrationProofs --------------------------
(***************************************************************************)
(* Proofs about the migration, for any number of shells, config files,      *)
(* transactions and failures.  Three layers: who is where and what the      *)
(* holder of the lock has in its hands, whatever fails; where root's config *)
(* is, unless SIGINT hits between renameat2 and the flag that records it;   *)
(* and what keeps the daemon stopped, if the failure handler can work.      *)
(***************************************************************************)
EXTENDS Migration, TLAPS

----------------------------------------------------------------------------
(* The first layer. *)

(* Before the record is made, before it is in the journal, after. *)
Early == {"check", "rollback-check"}
Before == {"capture", "archive", "prepare"}
After == HeldLabels \ (Early \cup Before)

(* Labels at which a displaced file lies under a temporary name. *)
Displacing == Exchanged \cup {"retain"}

Control ==
    /\ lock \in Operators \cup {Nobody}
    /\ pc \in [Operators -> HeldLabels \cup {"idle", "lock"}]
    /\ cmd \in [Operators -> Commands \cup {"none"}]
    /\ \A p \in Operators : pc[p] \in HeldLabels <=> lock = p

DiskOK ==
    /\ config \in Contents /\ last \in Contents
    /\ journal \in Records \cup {NoRecord} /\ archive \subseteq 1..MaxTransactions
    /\ retained \subseteq Contents /\ strays \subseteq Contents
    /\ units \in [Units -> BOOLEAN]
    /\ started \in 0..MaxTransactions /\ faults \in 0..MaxFaults

LocalsOK ==
    /\ rec \in Records \cup {NoRecord}
    /\ want \in Contents \cup {NoFile} /\ temp \in Contents \cup {NoFile}
    /\ restoring \in BOOLEAN /\ drift \in BOOLEAN

(* Only a legacy config becomes a baseline. *)
JournalOK == journal # NoRecord => journal.original \in Legacies

Reset == rec = NoRecord /\ want = NoFile /\ temp = NoFile /\ restoring = FALSE /\ drift = FALSE

(* What the holder has in its hands at a label. *)
HolderAt(l) ==
    /\ l \in Early => Reset
    /\ l \notin Early => rec \in Records /\ rec.original \in Legacies
    /\ l \in Before => started < MaxTransactions /\ ~restoring /\ ~drift
    /\ l \in Before \cup (After \ {"save"}) => Open(rec)
    /\ l = "archive" => Closed(journal)
    /\ l = "prepare" => ~Open(journal)
    /\ l \in After => Open(journal) /\ journal.original = rec.original
    /\ l \in Displacing => temp \in Contents
    /\ l \notin Displacing => temp = NoFile
    /\ l \in Exchanged \cup {"exchange"} => want \in Known(rec) /\ (~restoring => want = rec.original)
    /\ l \in {"recheck", "unlink"} => temp = want
    /\ l \in {"restore-stop", "restore-read"} => restoring

Held == \A p \in Operators : pc[p] \in HeldLabels => HolderAt(pc[p])

Inv1 == Control /\ DiskOK /\ LocalsOK /\ JournalOK /\ Held /\ (lock = Nobody => Reset)

----------------------------------------------------------------------------
(* The three ways a step ends. *)

(* The holder goes on to another label. *)
LEMMA GoStep ==
    ASSUME Inv1, NEW p \in Operators, pc[p] \in HeldLabels, NEW l \in HeldLabels,
           pc' = [pc EXCEPT ![p] = l], UNCHANGED <<lock, cmd>>,
           DiskOK', LocalsOK', JournalOK', HolderAt(l)'
    PROVE  Inv1'
<1>1. pc'[p] = l /\ \A q \in Operators \ {p} : pc'[q] = pc[q]
  BY DEF Inv1, Control
<1>2. Control'
  BY <1>1 DEF Inv1, Control
<1>3. lock = p /\ lock' = p /\ Nobody # p
  BY ProcessAssumption DEF Inv1, Control
<1>4. ASSUME NEW q \in Operators, pc'[q] \in HeldLabels PROVE HolderAt(pc[q])'
  <2>1. q = p
    BY <1>2, <1>3, <1>4 DEF Control
  <2>. QED
    BY <1>1, <2>1 DEF HolderAt
<1>5. Held'
  BY <1>4 DEF Held
<1>. QED
  BY <1>2, <1>3, <1>5 DEF Inv1

(* A process ends, with the lock or without. *)
LEMMA FinishStep ==
    ASSUME Inv1, NEW p \in Operators, pc[p] # "idle", Finish(p), JournalOK',
           config' \in Contents, last' \in Contents, journal' \in Records \cup {NoRecord},
           archive' \subseteq 1..MaxTransactions, retained' \subseteq Contents,
           units' \in [Units -> BOOLEAN], started' \in 0..MaxTransactions, faults' \in 0..MaxFaults,
           lock # p => UNCHANGED <<journal, started>>
    PROVE  Inv1'
<1>0. "idle" \notin HeldLabels /\ Nobody \notin Operators
  BY ProcessAssumption DEF HeldLabels, Caught, Exchanged, Uncaught, Calling, Starting, Restarting
<1>1. /\ pc'[p] = "idle" /\ \A q \in Operators \ {p} : pc'[q] = pc[q]
      /\ pc' \in [Operators -> HeldLabels \cup {"idle", "lock"}]
      /\ cmd' \in [Operators -> Commands \cup {"none"}]
  BY DEF Finish, Inv1, Control
<1>2. CASE lock = p
  <2>1. lock' = Nobody /\ Reset' /\ strays' = strays \cup ({temp} \ {NoFile})
    BY <1>2 DEF Finish, Reset
  <2>2. Control'
    BY <1>0, <1>1, <1>2, <2>1 DEF Inv1, Control
  <2>3. LocalsOK'
    BY <2>1 DEF Reset, LocalsOK
  <2>4. DiskOK'
    BY <2>1 DEF Inv1, DiskOK, LocalsOK
  <2>5. Held'
    BY <1>0, <2>1, <2>2 DEF Held, Control
  <2>. QED
    BY <2>1, <2>2, <2>3, <2>4, <2>5 DEF Inv1
<1>3. CASE lock # p
  <2>1. UNCHANGED <<lock, rec, want, temp, restoring, drift, strays, journal, started>>
    BY <1>3 DEF Finish, locals
  <2>2. Control'
    BY <1>0, <1>1, <1>3, <2>1 DEF Inv1, Control
  <2>3. LocalsOK'
    BY <2>1 DEF Inv1, LocalsOK
  <2>4. DiskOK'
    BY <2>1 DEF Inv1, DiskOK
  <2>5. Held'
    <3>1. ASSUME NEW q \in Operators, pc'[q] \in HeldLabels PROVE HolderAt(pc[q])'
      <4>1. pc'[q] = pc[q] /\ HolderAt(pc[q])
        BY <1>0, <1>1, <3>1 DEF Inv1, Held
      <4>. QED
        BY <2>1, <4>1 DEF HolderAt, Reset, Open, Closed, Known
    <3>. QED
      BY <3>1 DEF Held
  <2>6. lock' = Nobody => Reset'
    BY <2>1 DEF Inv1, Reset
  <2>. QED
    BY <2>2, <2>3, <2>4, <2>5, <2>6 DEF Inv1
<1>. QED
  BY <1>2, <1>3

(* An exception is raised after the journal was written: in restore the     *)
(* journal is to say so, in apply the handler runs.                         *)
LEMMA RaiseStep ==
    ASSUME Inv1, NEW p \in Operators, pc[p] \in After \ {"save"}, NEW d \in BOOLEAN, Raise(p, d),
           UNCHANGED <<lock, cmd, want, restoring>>, temp' = NoFile,
           DiskOK', JournalOK', Open(journal'), journal'.original = journal.original
    PROVE  Inv1'
<1>0. After \subseteq HeldLabels /\ "save" \in After /\ "handle" \in After
  BY DEF After, Early, Before, HeldLabels, Uncaught
<1>1. HolderAt(pc[p]) /\ pc[p] \notin Early /\ rec \in Records
  BY <1>0 DEF Inv1, Held, After, HolderAt
<1>2. CASE restoring
  <2>1. /\ pc' = [pc EXCEPT ![p] = "save"] /\ drift' = d
        /\ rec' = [rec EXCEPT !.status = "recovery-required", !.recovery = d]
    BY <1>2 DEF Raise, Goto
  <2>2. rec' \in Records /\ rec'.original = rec.original
    BY <1>1, <2>1 DEF Records, Statuses
  <2>3. LocalsOK'
    BY <2>1, <2>2 DEF Inv1, LocalsOK
  <2>4. HolderAt("save")'
    BY <1>1, <2>2 DEF HolderAt, Early, Before, Displacing, Exchanged
  <2>. QED
    BY <1>0, <2>1, <2>3, <2>4, GoStep
<1>3. CASE ~restoring
  <2>1. pc' = [pc EXCEPT ![p] = "handle"] /\ drift' = d /\ rec' = rec
    BY <1>3 DEF Raise, Goto
  <2>2. LocalsOK'
    BY <2>1 DEF Inv1, LocalsOK
  <2>3. HolderAt("handle")'
    BY <1>1, <2>1 DEF HolderAt, Early, Before, Displacing, Exchanged, Open
  <2>. QED
    BY <1>0, <2>1, <2>2, <2>3, GoStep
<1>. QED
  BY <1>2, <1>3

----------------------------------------------------------------------------
(* Facts about the building blocks. *)

(* The labels after the journal was written. *)
LEMMA AfterLabels ==
    /\ After = Calling \cup {"verify", "exchange", "activate", "ready", "applied", "restore-read",
                             "restore-verify", "compare", "recheck", "unlink", "handle", "save", "retain"}
    /\ Calling = {"stop", "restore-stop", "start-sockets", "start-bridge", "start-daemon",
                  "restore-sockets", "restore-bridge", "restore-daemon"}
    /\ HeldLabels = Early \cup Before \cup After
    /\ "idle" \notin HeldLabels /\ "lock" \notin HeldLabels
BY DEF After, Early, Before, HeldLabels, Caught, Exchanged, Uncaught, Calling, Starting, Restarting

(* systemctl leaves every unit active or not. *)
LEMMA ReachTypes ==
    ASSUME NEW l, NEW which, units \in [Units -> BOOLEAN], Reach(l, which)
    PROVE  units' \in [Units -> BOOLEAN]
<1>1. ASSUME NEW u \in Units PROVE units'[u] \in BOOLEAN
  <2>. DEFINE S == Starting \cup Restarting
  <2>1. units' = [v \in Units |-> IF v \in which THEN l \in S ELSE units[v]]
    BY DEF Reach
  <2>. HIDE DEF S
  <2>2. CASE u \in which
    <3>1. units'[u] = (l \in S)
      BY <2>1, <2>2
    <3>2. (l \in S) \in BOOLEAN
      OBVIOUS
    <3>. QED
      BY <3>1, <3>2
  <2>3. CASE u \notin which
    BY <2>1, <2>3
  <2>. QED
    BY <2>2, <2>3
<1>. QED
  BY <1>1 DEF Reach

(* A failure is counted. *)
LEMMA FaultTypes ==
    ASSUME Inv1, NEW kind, Fault(kind)
    PROVE  faults' \in 0..MaxFaults
<1>1. faults < MaxFaults /\ faults' = faults + 1
  BY DEF Fault
<1>2. faults \in 0..MaxFaults
  BY DEF Inv1, DiskOK
<1>. QED
  BY <1>1, <1>2, BoundsAssumption

(* The holder goes on after the journal was written, with nothing displaced *)
(* and its locals as they are.                                              *)
LEMMA MoveStep ==
    ASSUME Inv1, NEW p \in Operators, pc[p] \in After \ ({"save"} \cup Displacing),
           NEW l \in After \ ({"save", "exchange"} \cup Displacing), Goto(p, l),
           UNCHANGED <<config, archive, retained, strays, journal, lock, cmd, rec, want, temp, restoring,
                       drift, last, started>>,
           l \in {"restore-stop", "restore-read"} => restoring,
           units' \in [Units -> BOOLEAN], faults' \in 0..MaxFaults
    PROVE  Inv1'
<1>1. HolderAt(pc[p]) /\ pc[p] \in HeldLabels /\ l \in HeldLabels
  BY DEF Inv1, Held, After
<1>2. DiskOK' /\ LocalsOK' /\ JournalOK'
  BY DEF Inv1, DiskOK, LocalsOK, JournalOK
<1>3. HolderAt(l)'
  BY <1>1 DEF HolderAt, After, Before, Displacing, Exchanged, Open, Reset, Known
<1>. QED
  BY <1>1, <1>2, <1>3, GoStep DEF Goto

(* The holder, or one that did not get the lock, refuses. *)
LEMMA RefuseStep ==
    ASSUME Inv1, NEW p \in Operators, NEW l \in HeldLabels \cup {"lock"}, Refuses(p, l), faults' \in 0..MaxFaults
    PROVE  Inv1'
<1>1. pc[p] # "idle" /\ Finish(p) /\ UNCHANGED <<config, archive, retained, journal, units, last, started>>
  BY AfterLabels DEF Refuses, At
<1>2. /\ config' \in Contents /\ last' \in Contents /\ journal' \in Records \cup {NoRecord}
      /\ archive' \subseteq 1..MaxTransactions /\ retained' \subseteq Contents
      /\ units' \in [Units -> BOOLEAN] /\ started' \in 0..MaxTransactions /\ JournalOK'
  BY <1>1 DEF Inv1, DiskOK, JournalOK
<1>. QED
  BY <1>1, <1>2, FinishStep

(* An exception is raised where nothing else changes but the units. *)
LEMMA ObjectStep ==
    ASSUME Inv1, NEW p \in Operators, pc[p] \in After \ ({"save"} \cup Displacing), Raise(p, drift),
           UNCHANGED <<archive, retained, strays, journal, lock, cmd, want, temp, restoring, last, started>>,
           config' \in Contents, units' \in [Units -> BOOLEAN], faults' \in 0..MaxFaults
    PROVE  Inv1'
<1>1. DiskOK' /\ JournalOK' /\ drift \in BOOLEAN
  BY DEF Inv1, DiskOK, JournalOK, LocalsOK
<1>2. HolderAt(pc[p])
  BY DEF Inv1, Held, After
<1>3. temp = NoFile /\ Open(journal)
  BY <1>2 DEF HolderAt
<1>. QED
  BY <1>1, <1>3, RaiseStep

----------------------------------------------------------------------------
(* apply *)

(* The lock, and apply until the journal is written. *)
LEMMA OpeningSteps ==
    ASSUME Inv1, NEW p \in Operators,
           \/ Acquire(p) \/ Busy(p) \/ CheckRefused(p) \/ Check(p) \/ CaptureRefused(p)
           \/ Capture(p) \/ Archive(p) \/ Prepare(p)
    PROVE  Inv1'
<1>0. /\ DiskOK /\ LocalsOK /\ JournalOK /\ faults \in 0..MaxFaults
      /\ Early \cup Before \cup After \subseteq HeldLabels
  BY AfterLabels DEF Inv1, DiskOK
<1>1. CASE Acquire(p)
  <2>1. /\ pc[p] = "lock" /\ lock = Nobody /\ lock' = p
        /\ UNCHANGED <<config, archive, retained, strays, journal, units, cmd, rec, want, temp, restoring, drift,
                       last, started, faults>>
    BY <1>1 DEF Acquire, At, disk, locals
  <2>2. PICK l \in Early : pc' = [pc EXCEPT ![p] = l]
    BY <1>1 DEF Acquire, Goto, Early
  <2>3. pc'[p] = l /\ \A q \in Operators \ {p} : pc'[q] = pc[q]
    BY <2>2 DEF Inv1, Control
  <2>4. Control'
    BY <2>1, <2>2, <2>3, <1>0, ProcessAssumption DEF Inv1, Control
  <2>5. DiskOK' /\ LocalsOK' /\ JournalOK' /\ Reset'
    BY <2>1 DEF Inv1, DiskOK, LocalsOK, JournalOK, Reset
  <2>6. Held'
    <3>1. ASSUME NEW q \in Operators, pc'[q] \in HeldLabels PROVE HolderAt(pc[q])'
      <4>1. q = p
        BY <2>1, <2>4, <3>1 DEF Control
      <4>. QED
        BY <2>3, <2>5, <4>1, AfterLabels DEF HolderAt, Early, Before, After, Displacing, Exchanged, Reset
    <3>. QED
      BY <3>1 DEF Held
  <2>. QED
    BY <2>4, <2>5, <2>6 DEF Inv1
<1>2. CASE Busy(p) \/ CheckRefused(p) \/ CaptureRefused(p)
  <2>1. PICK l \in {"lock", "check", "capture"} : Refuses(p, l) /\ UNCHANGED faults
    BY <1>2 DEF Busy, CheckRefused, CaptureRefused
  <2>2. l \in HeldLabels \cup {"lock"}
    BY <1>0 DEF Early, Before
  <2>. QED
    BY <1>0, <2>1, <2>2, RefuseStep
<1>3. CASE Check(p)
  <2>1. /\ pc[p] = "check" /\ pc' = [pc EXCEPT ![p] = "capture"] /\ config \in Legacies /\ started < MaxTransactions
        /\ rec' = [id |-> started + 1, status |-> "prepared", original |-> config, base |-> units, recovery |-> FALSE]
        /\ UNCHANGED <<config, archive, retained, strays, journal, units, lock, cmd, want, temp, restoring, drift,
                       last, started, faults>>
    BY <1>3 DEF Check, At, Goto, disk
  <2>2. started + 1 \in 1..MaxTransactions
    BY <1>0, <2>1, BoundsAssumption DEF DiskOK
  <2>3. rec' \in Records /\ Open(rec') /\ rec'.original \in Legacies
    <3>1. rec' \in Records /\ rec'.status = "prepared" /\ rec'.original = config
      BY <1>0, <2>1, <2>2 DEF Records, Statuses, DiskOK
    <3>. QED
      BY <2>1, <3>1, AbsentAssumption DEF Open
  <2>4. DiskOK' /\ LocalsOK' /\ JournalOK'
    BY <1>0, <2>1, <2>3 DEF DiskOK, LocalsOK, JournalOK
  <2>5. Reset
    BY <1>0, <2>1 DEF Inv1, Held, HolderAt, Early
  <2>6. HolderAt("capture")'
    BY <2>1, <2>3, <2>5, AfterLabels DEF HolderAt, Reset, Early, Before, Displacing, Exchanged
  <2>. QED
    BY <1>0, <2>1, <2>4, <2>6, GoStep DEF Early, Before
<1>4. CASE Capture(p)
  <2>1. /\ pc[p] = "capture" /\ config \in Legacies
        /\ journal = NoRecord \/ Closed(journal)
        /\ rec' = [rec EXCEPT !.original = config]
        /\ UNCHANGED <<config, archive, retained, strays, journal, units, lock, cmd, want, temp, restoring, drift,
                       last, started, faults>>
    BY <1>4 DEF Capture, At, Goto, disk
  <2>2. PICK l \in {"prepare", "archive"} : pc' = [pc EXCEPT ![p] = l] /\ (l = "archive" <=> journal # NoRecord)
    BY <1>4 DEF Capture, Goto
  <2>3. HolderAt("capture")
    BY <1>0, <2>1 DEF Inv1, Held, Before
  <2>4. rec' \in Records /\ Open(rec') /\ rec'.original \in Legacies
    <3>1. rec \in Records /\ Open(rec)
      BY <2>3 DEF HolderAt, Early, Before
    <3>2. rec' \in Records /\ rec'.status = rec.status /\ rec'.original = config
      BY <1>0, <2>1, <3>1 DEF Records, DiskOK
    <3>. QED
      BY <2>1, <3>1, <3>2, AbsentAssumption DEF Open
  <2>5. DiskOK' /\ LocalsOK' /\ JournalOK'
    BY <1>0, <2>1, <2>4 DEF DiskOK, LocalsOK, JournalOK
  <2>6. ~Open(journal) /\ (l = "archive" => Closed(journal))
    BY <2>1, <2>2 DEF Open, Closed
  <2>7. HolderAt(l)'
    BY <2>1, <2>2, <2>3, <2>4, <2>6, AfterLabels
    DEF HolderAt, Early, Before, Displacing, Exchanged, Open, Closed
  <2>. QED
    BY <1>0, <2>1, <2>2, <2>5, <2>7, GoStep DEF Before
<1>5. CASE Archive(p)
  <2>1. /\ pc[p] = "archive" /\ pc' = [pc EXCEPT ![p] = "prepare"] /\ archive' = archive \cup {journal.id}
        /\ UNCHANGED <<config, retained, strays, journal, units, lock, cmd, rec, want, temp, restoring, drift,
                       last, started, faults>>
    BY <1>5 DEF Archive, At, Goto, locals
  <2>2. HolderAt("archive")
    BY <1>0, <2>1 DEF Inv1, Held, Before
  <2>3. journal \in Records /\ ~Open(journal)
    BY <1>0, <2>2 DEF HolderAt, Closed, Open, DiskOK
  <2>4. DiskOK' /\ LocalsOK' /\ JournalOK'
    BY <1>0, <2>1, <2>3 DEF DiskOK, LocalsOK, JournalOK, Records
  <2>5. HolderAt("prepare")'
    BY <2>1, <2>2, <2>3, AfterLabels DEF HolderAt, Early, Before, Displacing, Exchanged, Open
  <2>. QED
    BY <1>0, <2>1, <2>4, <2>5, GoStep DEF Before
<1>6. CASE Prepare(p)
  <2>1. /\ pc[p] = "prepare" /\ pc' = [pc EXCEPT ![p] = "stop"] /\ journal' = rec /\ started' = started + 1
        /\ UNCHANGED <<config, archive, retained, strays, units, lock, cmd, rec, want, temp, restoring, drift,
                       last, faults>>
    BY <1>6 DEF Prepare, At, Goto, disk, locals
  <2>2. HolderAt("prepare")
    BY <1>0, <2>1 DEF Inv1, Held, Before
  <2>3. rec \in Records /\ Open(rec) /\ rec.original \in Legacies /\ started < MaxTransactions
    BY <2>2 DEF HolderAt, Early, Before
  <2>4. started' \in 0..MaxTransactions
    BY <1>0, <2>1, <2>3, BoundsAssumption DEF DiskOK
  <2>5. DiskOK' /\ LocalsOK' /\ JournalOK'
    BY <1>0, <2>1, <2>3, <2>4 DEF DiskOK, LocalsOK, JournalOK
  <2>6. HolderAt("stop")'
    BY <2>1, <2>2, <2>3 DEF HolderAt, Early, Before, Displacing, Exchanged, Open
  <2>7. "stop" \in HeldLabels
    BY AfterLabels
  <2>. QED
    BY <1>0, <2>1, <2>5, <2>6, <2>7, GoStep DEF Before
<1>. QED
  BY <1>1, <1>2, <1>3, <1>4, <1>5, <1>6

(* A call of systemctl that succeeds. *)
LEMMA SystemctlStep ==
    ASSUME Inv1, NEW p \in Operators, NEW from \in After \ ({"save"} \cup Displacing),
           NEW to \in After \ ({"save", "exchange"} \cup Displacing), Systemctl(p, from, to),
           to \in {"restore-stop", "restore-read"} => from = "restore-stop"
    PROVE  Inv1'
<1>1. /\ pc[p] = from /\ Goto(p, to) /\ Reach(from, Target(from))
      /\ UNCHANGED <<config, archive, retained, strays, journal, lock, cmd, rec, want, temp, restoring,
                     drift, last, started, faults>>
  BY DEF Systemctl, At, disk, locals
<1>2. units \in [Units -> BOOLEAN] /\ faults \in 0..MaxFaults
  BY DEF Inv1, DiskOK
<1>3. units' \in [Units -> BOOLEAN]
  BY <1>1, <1>2, ReachTypes
<1>4. to \in {"restore-stop", "restore-read"} => restoring
  BY <1>1, AfterLabels DEF Inv1, Held, HolderAt
<1>. QED
  BY <1>1, <1>2, <1>3, <1>4, MoveStep

(* A check that fails. *)
LEMMA ObjectsStep ==
    ASSUME Inv1, NEW p \in Operators, NEW from \in After \ ({"save"} \cup Displacing), Objects(p, from)
    PROVE  Inv1'
<1>1. /\ pc[p] = from /\ Raise(p, drift)
      /\ UNCHANGED <<config, archive, retained, strays, journal, units, lock, cmd, want, temp, restoring,
                     last, started, faults>>
  BY DEF Objects, At, disk
<1>2. config \in Contents /\ units \in [Units -> BOOLEAN] /\ faults \in 0..MaxFaults
  BY DEF Inv1, DiskOK
<1>. QED
  BY <1>1, <1>2, ObjectStep

(* apply once the journal is written. *)
LEMMA ApplySteps ==
    ASSUME Inv1, NEW p \in Operators,
           \/ StopDaemon(p) \/ Verify(p) \/ VerifyFails(p) \/ Activate(p) \/ ActivateFails(p)
           \/ Start(p) \/ Ready(p) \/ ReadyFails(p) \/ Applied(p) \/ Handle(p)
    PROVE  Inv1'
<1>0. /\ DiskOK /\ LocalsOK /\ JournalOK /\ faults \in 0..MaxFaults /\ units \in [Units -> BOOLEAN]
      /\ After \subseteq HeldLabels
  BY AfterLabels DEF Inv1, DiskOK
<1>1. CASE StopDaemon(p) \/ Start(p)
  <2>1. PICK from \in {"stop", "start-sockets", "start-bridge", "start-daemon"},
             to \in {"verify", "start-bridge", "start-daemon", "ready"} : Systemctl(p, from, to)
    BY <1>1 DEF StopDaemon, Start
  <2>2. from \in After \ ({"save"} \cup Displacing) /\ to \in After \ ({"save", "exchange"} \cup Displacing)
    BY AfterLabels DEF Displacing, Exchanged
  <2>. QED
    BY <2>1, <2>2, SystemctlStep
<1>2. CASE VerifyFails(p) \/ ActivateFails(p) \/ ReadyFails(p)
  <2>1. PICK from \in {"verify", "activate", "ready"} : Objects(p, from)
    BY <1>2 DEF VerifyFails, ActivateFails, ReadyFails
  <2>2. from \in After \ ({"save"} \cup Displacing)
    BY AfterLabels DEF Displacing, Exchanged
  <2>. QED
    BY <2>1, <2>2, ObjectsStep
<1>3. CASE Activate(p) \/ Ready(p)
  <2>1. PICK from \in {"activate", "ready"}, to \in {"start-sockets", "applied"} : Moves(p, from, to)
    BY <1>3 DEF Activate, Ready
  <2>2. /\ pc[p] = from /\ Goto(p, to)
        /\ UNCHANGED <<config, archive, retained, strays, journal, units, lock, cmd, rec, want, temp, restoring,
                       drift, last, started, faults>>
    BY <2>1 DEF Moves, At, disk, locals
  <2>3. from \in After \ ({"save"} \cup Displacing) /\ to \in After \ ({"save", "exchange"} \cup Displacing)
    BY AfterLabels DEF Displacing, Exchanged
  <2>. QED
    BY <1>0, <2>2, <2>3, MoveStep
<1>4. CASE Verify(p)
  <2>1. /\ pc[p] = "verify" /\ pc' = [pc EXCEPT ![p] = "exchange"] /\ want' = rec.original
        /\ UNCHANGED <<config, archive, retained, strays, journal, units, lock, cmd, rec, temp, restoring,
                       drift, last, started, faults>>
    BY <1>4 DEF Verify, At, Goto, disk
  <2>2. "verify" \in After /\ "exchange" \in After
    BY AfterLabels
  <2>3. HolderAt("verify")
    BY <1>0, <2>1, <2>2 DEF Inv1, Held
  <2>4. rec \in Records /\ rec.original \in Contents
    BY <2>3 DEF HolderAt, Early, Contents
  <2>5. DiskOK' /\ LocalsOK' /\ JournalOK'
    BY <1>0, <2>1, <2>4 DEF DiskOK, LocalsOK, JournalOK
  <2>6. HolderAt("exchange")'
    BY <2>1, <2>2, <2>3 DEF HolderAt, Early, Before, Displacing, Exchanged, Known, Open
  <2>. QED
    BY <1>0, <2>1, <2>2, <2>5, <2>6, GoStep
<1>5. CASE Applied(p)
  <2>1. /\ pc[p] = "applied" /\ journal' = [rec EXCEPT !.status = "applied"] /\ Finish(p)
        /\ UNCHANGED <<config, archive, retained, units, last, started, faults>>
    BY <1>5 DEF Applied, At
  <2>2. "applied" \in After
    BY AfterLabels
  <2>3. HolderAt("applied") /\ lock = p
    BY <1>0, <2>1, <2>2 DEF Inv1, Held, Control
  <2>4. journal' \in Records /\ journal'.original \in Legacies
    BY <2>1, <2>3 DEF HolderAt, Early, Records, Statuses
  <2>5. JournalOK'
    BY <2>4 DEF JournalOK
  <2>. QED
    BY <1>0, <2>1, <2>3, <2>4, <2>5, FinishStep DEF DiskOK
<1>6. CASE Handle(p)
  <2>1. /\ pc[p] = "handle"
        /\ UNCHANGED <<config, archive, retained, strays, journal, units, lock, cmd, want, temp, drift,
                       last, started, faults>>
    BY <1>6 DEF Handle, At, disk
  <2>2. {"handle", "restore-stop", "save"} \subseteq After
    BY AfterLabels
  <2>3. HolderAt("handle")
    BY <1>0, <2>1, <2>2 DEF Inv1, Held
  <2>4. CASE ~drift /\ config \in Known(rec)
    <3>1. pc' = [pc EXCEPT ![p] = "restore-stop"] /\ restoring' = TRUE /\ rec' = rec
      BY <1>6, <2>4 DEF Handle, Goto
    <3>2. DiskOK' /\ LocalsOK' /\ JournalOK'
      BY <1>0, <2>1, <3>1 DEF DiskOK, LocalsOK, JournalOK
    <3>3. HolderAt("restore-stop")'
      BY <2>1, <2>2, <2>3, <3>1 DEF HolderAt, Early, Before, Displacing, Exchanged, Open
    <3>. QED
      BY <1>0, <2>1, <2>2, <3>1, <3>2, <3>3, GoStep
  <2>5. CASE ~(~drift /\ config \in Known(rec))
    <3>1. /\ pc' = [pc EXCEPT ![p] = "save"] /\ restoring' = restoring
          /\ rec' = [rec EXCEPT !.status = "recovery-required", !.recovery = drift]
      BY <1>6, <2>5 DEF Handle, Goto
    <3>2. rec' \in Records /\ rec'.original = rec.original
      BY <1>0, <2>3, <3>1 DEF HolderAt, Early, Records, Statuses, LocalsOK
    <3>3. DiskOK' /\ LocalsOK' /\ JournalOK'
      BY <1>0, <2>1, <3>1, <3>2 DEF DiskOK, LocalsOK, JournalOK
    <3>4. HolderAt("save")'
      BY <2>1, <2>2, <2>3, <3>2 DEF HolderAt, Early, Before, Displacing, Exchanged, Open
    <3>. QED
      BY <1>0, <2>1, <2>2, <3>1, <3>3, <3>4, GoStep
  <2>. QED
    BY <2>4, <2>5
<1>. QED
  BY <1>1, <1>2, <1>3, <1>4, <1>5, <1>6

----------------------------------------------------------------------------
(* conditional_config_write *)

(* The exchange, the two comparisons, and what becomes of the displaced file. *)
LEMMA ExchangeSteps ==
    ASSUME Inv1, NEW p \in Operators,
           Exchange(p) \/ Compare(p) \/ Recheck(p) \/ Unlink(p) \/ Retain(p) \/ RetainFails(p)
    PROVE  Inv1'
<1>0. /\ DiskOK /\ LocalsOK /\ JournalOK /\ System \in Contents
      /\ After \subseteq HeldLabels
      /\ {"exchange", "compare", "recheck", "unlink", "retain", "restore-sockets", "activate"} \subseteq After
  BY AfterLabels DEF Inv1, Contents
<1>1. CASE Exchange(p)
  <2>1. /\ pc[p] = "exchange" /\ pc' = [pc EXCEPT ![p] = "compare"] /\ temp' = config /\ config' = Published
        /\ UNCHANGED <<archive, retained, strays, journal, units, lock, cmd, rec, want, restoring,
                       drift, last, started, faults>>
    BY <1>1 DEF Exchange, At, Goto
  <2>2. HolderAt("exchange")
    BY <1>0, <2>1 DEF Inv1, Held
  <2>3. Published \in Contents
    BY <1>0, <2>2 DEF HolderAt, Early, Published, Contents
  <2>4. DiskOK' /\ LocalsOK' /\ JournalOK'
    BY <1>0, <2>1, <2>3 DEF DiskOK, LocalsOK, JournalOK
  <2>5. HolderAt("compare")'
    BY <1>0, <2>1, <2>2 DEF HolderAt, Early, Before, Displacing, Exchanged, Known, Open, DiskOK
  <2>. QED
    BY <1>0, <2>1, <2>4, <2>5, GoStep
<1>2. CASE Compare(p)
  <2>1. PICK to \in {"recheck", "retain"} : Moves(p, "compare", to) /\ (to = "recheck" <=> temp = want)
    BY <1>2 DEF Compare
  <2>2. /\ pc[p] = "compare" /\ pc' = [pc EXCEPT ![p] = to]
        /\ UNCHANGED <<config, archive, retained, strays, journal, units, lock, cmd, rec, want, temp, restoring,
                       drift, last, started, faults>>
    BY <2>1 DEF Moves, At, Goto, disk, locals
  <2>3. HolderAt("compare")
    BY <1>0, <2>2 DEF Inv1, Held
  <2>4. DiskOK' /\ LocalsOK' /\ JournalOK'
    BY <1>0, <2>2 DEF DiskOK, LocalsOK, JournalOK
  <2>5. HolderAt(to)'
    BY <1>0, <2>1, <2>2, <2>3 DEF HolderAt, Early, Before, Displacing, Exchanged, Known, Open
  <2>. QED
    BY <1>0, <2>2, <2>4, <2>5, GoStep
<1>3. CASE Recheck(p)
  <2>1. PICK to \in {"unlink", "retain"} : Moves(p, "recheck", to)
    BY <1>3 DEF Recheck
  <2>2. /\ pc[p] = "recheck" /\ pc' = [pc EXCEPT ![p] = to]
        /\ UNCHANGED <<config, archive, retained, strays, journal, units, lock, cmd, rec, want, temp, restoring,
                       drift, last, started, faults>>
    BY <2>1 DEF Moves, At, Goto, disk, locals
  <2>3. HolderAt("recheck")
    BY <1>0, <2>2 DEF Inv1, Held
  <2>4. DiskOK' /\ LocalsOK' /\ JournalOK'
    BY <1>0, <2>2 DEF DiskOK, LocalsOK, JournalOK
  <2>5. HolderAt(to)'
    BY <1>0, <2>1, <2>2, <2>3 DEF HolderAt, Early, Before, Displacing, Exchanged, Known, Open
  <2>. QED
    BY <1>0, <2>2, <2>4, <2>5, GoStep
<1>4. CASE Unlink(p)
  <2>1. /\ pc[p] = "unlink" /\ temp' = NoFile
        /\ UNCHANGED <<config, archive, retained, strays, journal, units, lock, cmd, rec, want, restoring,
                       drift, last, started, faults>>
    BY <1>4 DEF Unlink, At, disk
  <2>2. PICK to \in {"restore-sockets", "activate"} : pc' = [pc EXCEPT ![p] = to]
    BY <1>4 DEF Unlink, Goto
  <2>3. HolderAt("unlink")
    BY <1>0, <2>1 DEF Inv1, Held
  <2>4. DiskOK' /\ LocalsOK' /\ JournalOK'
    BY <1>0, <2>1 DEF DiskOK, LocalsOK, JournalOK
  <2>5. HolderAt(to)'
    BY <1>0, <2>1, <2>2, <2>3 DEF HolderAt, Early, Before, Displacing, Exchanged, Open
  <2>. QED
    BY <1>0, <2>1, <2>2, <2>4, <2>5, GoStep
<1>5. CASE Retain(p) \/ RetainFails(p)
  <2>1. /\ pc[p] = "retain" /\ temp' = NoFile
        /\ UNCHANGED <<config, archive, journal, units, lock, cmd, want, restoring, last, started>>
        /\ retained' \subseteq retained \cup {temp} /\ strays' \subseteq strays \cup {temp}
    BY <1>5 DEF Retain, RetainFails, At
  <2>2. PICK d \in BOOLEAN : Raise(p, d)
    BY <1>5 DEF Retain, RetainFails
  <2>3. faults' \in 0..MaxFaults
    BY <1>0, <1>5, FaultTypes DEF Retain, RetainFails, DiskOK
  <2>4. HolderAt("retain")
    BY <1>0, <2>1 DEF Inv1, Held
  <2>5. temp \in Contents /\ Open(journal)
    BY <1>0, <2>4 DEF HolderAt, Displacing
  <2>6. DiskOK' /\ JournalOK'
    BY <1>0, <2>1, <2>3, <2>5 DEF DiskOK, JournalOK
  <2>. QED
    BY <1>0, <2>1, <2>2, <2>5, <2>6, RaiseStep
<1>. QED
  BY <1>1, <1>2, <1>3, <1>4, <1>5

----------------------------------------------------------------------------
(* restore and rollback *)

(* From the check of the journal to its last status. *)
LEMMA RestoreSteps ==
    ASSUME Inv1, NEW p \in Operators,
           \/ RollbackRefused(p) \/ RollbackCheck(p) \/ RestoreStop(p) \/ RestoreRead(p) \/ RestoreReadFails(p)
           \/ RestoreStart(p) \/ RestoreVerify(p) \/ RestoreVerifyFails(p) \/ Save(p)
    PROVE  Inv1'
<1>0. /\ DiskOK /\ LocalsOK /\ JournalOK /\ faults \in 0..MaxFaults
      /\ After \subseteq HeldLabels /\ "rollback-check" \in HeldLabels
      /\ {"restore-stop", "restore-read", "restore-verify", "exchange", "save"} \subseteq After
  BY AfterLabels DEF Inv1, DiskOK, Early
<1>1. CASE RollbackRefused(p)
  BY <1>0, <1>1, RefuseStep DEF RollbackRefused
<1>2. CASE RollbackCheck(p)
  <2>1. /\ pc[p] = "rollback-check" /\ pc' = [pc EXCEPT ![p] = "restore-stop"] /\ rec' = journal /\ restoring' = TRUE
        /\ Open(journal)
        /\ UNCHANGED <<config, archive, retained, strays, journal, units, lock, cmd, want, temp, drift,
                       last, started, faults>>
    BY <1>2 DEF RollbackCheck, At, Goto, disk, Accepts
  <2>2. Reset
    BY <1>0, <2>1 DEF Inv1, Held, HolderAt, Early
  <2>3. journal \in Records /\ journal.original \in Legacies
    BY <1>0, <2>1 DEF Open, DiskOK, JournalOK
  <2>4. DiskOK' /\ LocalsOK' /\ JournalOK'
    BY <1>0, <2>1, <2>3 DEF DiskOK, LocalsOK, JournalOK
  <2>5. HolderAt("restore-stop")'
    BY <2>1, <2>2, <2>3 DEF HolderAt, Reset, Early, Before, Displacing, Exchanged
  <2>. QED
    BY <1>0, <2>1, <2>4, <2>5, GoStep
<1>3. CASE RestoreStop(p) \/ RestoreStart(p)
  <2>1. PICK from \in {"restore-stop", "restore-sockets", "restore-bridge", "restore-daemon"},
             to \in {"restore-read", "restore-bridge", "restore-daemon", "restore-verify"} :
               Systemctl(p, from, to) /\ (to = "restore-read" => from = "restore-stop")
    BY <1>3 DEF RestoreStop, RestoreStart
  <2>2. from \in After \ ({"save"} \cup Displacing) /\ to \in After \ ({"save", "exchange"} \cup Displacing)
    BY AfterLabels DEF Displacing, Exchanged
  <2>. QED
    BY <2>1, <2>2, SystemctlStep
<1>4. CASE RestoreReadFails(p) \/ RestoreVerifyFails(p)
  <2>1. PICK from \in {"restore-read", "restore-verify"} : Objects(p, from)
    BY <1>4 DEF RestoreReadFails, RestoreVerifyFails
  <2>2. from \in After \ ({"save"} \cup Displacing)
    BY AfterLabels DEF Displacing, Exchanged
  <2>. QED
    BY <2>1, <2>2, ObjectsStep
<1>5. CASE RestoreRead(p)
  <2>1. /\ pc[p] = "restore-read" /\ pc' = [pc EXCEPT ![p] = "exchange"] /\ want' = config
        /\ config \in Known(rec)
        /\ UNCHANGED <<config, archive, retained, strays, journal, units, lock, cmd, rec, temp, restoring,
                       drift, last, started, faults>>
    BY <1>5 DEF RestoreRead, At, Goto, disk
  <2>2. HolderAt("restore-read")
    BY <1>0, <2>1 DEF Inv1, Held
  <2>3. DiskOK' /\ LocalsOK' /\ JournalOK'
    BY <1>0, <2>1 DEF DiskOK, LocalsOK, JournalOK
  <2>4. HolderAt("exchange")'
    BY <1>0, <2>1, <2>2 DEF HolderAt, Early, Before, Displacing, Exchanged, Known, Open
  <2>. QED
    BY <1>0, <2>1, <2>3, <2>4, GoStep
<1>6. CASE RestoreVerify(p)
  <2>1. /\ pc[p] = "restore-verify" /\ pc' = [pc EXCEPT ![p] = "save"]
        /\ UNCHANGED <<config, archive, retained, strays, journal, units, lock, cmd, want, temp, restoring,
                       drift, last, started, faults>>
    BY <1>6 DEF RestoreVerify, At, Goto, disk
  <2>2. PICK st \in {"failed-restored", "rolled-back"} : rec' = [rec EXCEPT !.status = st]
    BY <1>6 DEF RestoreVerify
  <2>3. HolderAt("restore-verify")
    BY <1>0, <2>1 DEF Inv1, Held
  <2>4. rec' \in Records /\ rec'.original = rec.original
    BY <2>2, <2>3 DEF HolderAt, Early, Records, Statuses
  <2>5. DiskOK' /\ LocalsOK' /\ JournalOK'
    BY <1>0, <2>1, <2>4 DEF DiskOK, LocalsOK, JournalOK
  <2>6. HolderAt("save")'
    BY <1>0, <2>1, <2>3, <2>4 DEF HolderAt, Early, Before, Displacing, Exchanged, Open
  <2>. QED
    BY <1>0, <2>1, <2>5, <2>6, GoStep
<1>7. CASE Save(p)
  <2>1. /\ pc[p] = "save" /\ journal' = rec /\ Finish(p)
        /\ UNCHANGED <<config, archive, retained, units, last, started, faults>>
    BY <1>7 DEF Save, At
  <2>2. HolderAt("save") /\ lock = p
    BY <1>0, <2>1 DEF Inv1, Held, Control
  <2>3. journal' \in Records /\ JournalOK'
    BY <2>1, <2>2 DEF HolderAt, Early, JournalOK
  <2>4. /\ config' \in Contents /\ last' \in Contents /\ archive' \subseteq 1..MaxTransactions
        /\ retained' \subseteq Contents /\ units' \in [Units -> BOOLEAN]
        /\ started' \in 0..MaxTransactions /\ faults' \in 0..MaxFaults
    BY <1>0, <2>1 DEF DiskOK
  <2>. QED
    BY <2>1, <2>2, <2>3, <2>4, FinishStep
<1>. QED
  BY <1>1, <1>2, <1>3, <1>4, <1>5, <1>6, <1>7

----------------------------------------------------------------------------
(* Failures *)

(* Whatever fails, the holder goes on or leaves with what it has. *)
LEMMA FailureSteps ==
    ASSUME Inv1, NEW p \in Operators,
           SystemctlFails(p) \/ Conflict(p) \/ Fails(p) \/ SyncFails(p) \/ InterruptedExchange(p) \/ Kill(p)
    PROVE  Inv1'
<1>0. /\ DiskOK /\ LocalsOK /\ JournalOK /\ units \in [Units -> BOOLEAN] /\ config \in Contents
      /\ After \subseteq HeldLabels /\ Early \subseteq HeldLabels /\ Before \subseteq HeldLabels
      /\ Calling \cup Caught \subseteq After \ ({"save"} \cup Displacing)
      /\ {"verify", "ready", "restore-verify", "exchange", "applied"} \subseteq After \ ({"save"} \cup Displacing)
      /\ Exchanged \cup {"retain"} \subseteq After \ {"save"}
      /\ Uncaught \cup {"check", "capture", "rollback-check"} \subseteq HeldLabels
  BY AfterLabels DEF Inv1, DiskOK, Displacing, Exchanged, Caught, Uncaught, HeldLabels
<1>f. faults' \in 0..MaxFaults
  BY FaultTypes DEF SystemctlFails, Conflict, Fails, SyncFails, InterruptedExchange, Kill
<1>1. CASE SystemctlFails(p)
  <2>1. /\ pc[p] \in Calling /\ Raise(p, drift) /\ \E done \in SUBSET Target(pc[p]) : Reach(pc[p], done)
        /\ UNCHANGED <<config, archive, retained, strays, journal, lock, cmd, want, temp, restoring, last, started>>
    BY <1>1 DEF SystemctlFails, disk
  <2>2. units' \in [Units -> BOOLEAN]
    BY <1>0, <2>1, ReachTypes
  <2>. QED
    BY <1>0, <1>f, <2>1, <2>2, ObjectStep
<1>2. CASE \E l \in HeldLabels : Refuses(p, l)
  BY <1>2, <1>f, RefuseStep
<1>3. CASE /\ pc[p] \in After \ ({"save"} \cup Displacing) /\ Raise(p, drift)
           /\ UNCHANGED <<disk, journal, units, lock, cmd, want, temp, restoring, last, started>>
  <2>1. UNCHANGED <<config, archive, retained, strays, journal, units, lock, cmd, want, temp, restoring, last, started>>
    BY <1>3 DEF disk
  <2>. QED
    BY <1>0, <1>f, <1>3, <2>1, ObjectStep
<1>4. CASE Conflict(p)
  <2>1. \/ \E l \in {"check", "capture", "rollback-check"} : Refuses(p, l)
        \/ /\ pc[p] \in {"verify", "ready", "restore-verify"} /\ Raise(p, drift)
           /\ UNCHANGED <<disk, journal, units, lock, cmd, want, temp, restoring, last, started>>
    BY <1>4 DEF Conflict
  <2>. QED
    BY <1>0, <1>2, <1>3, <2>1
<1>5. CASE /\ pc[p] \in Exchanged /\ Goto(p, "retain")
           /\ UNCHANGED <<disk, journal, units, lock, cmd, locals, last, started>>
  <2>1. /\ pc' = [pc EXCEPT ![p] = "retain"]
        /\ UNCHANGED <<config, archive, retained, strays, journal, units, lock, cmd, rec, want, temp, restoring,
                       drift, last, started>>
    BY <1>5 DEF Goto, disk, locals
  <2>2. HolderAt(pc[p]) /\ pc[p] \in After \ {"save"} /\ pc[p] \in HeldLabels /\ pc[p] \in Displacing
    BY <1>0, <1>5 DEF Inv1, Held, Displacing
  <2>3. DiskOK' /\ LocalsOK' /\ JournalOK'
    BY <1>0, <1>f, <2>1 DEF DiskOK, LocalsOK, JournalOK
  <2>4. HolderAt("retain")'
    BY <1>0, <2>1, <2>2 DEF HolderAt, After, Early, Before, Displacing, Exchanged, Open
  <2>. QED
    BY <1>0, <2>1, <2>2, <2>3, <2>4, GoStep
<1>6. CASE Fails(p)
  <2>1. \/ /\ pc[p] \in Caught /\ Raise(p, drift)
           /\ UNCHANGED <<disk, journal, units, lock, cmd, want, temp, restoring, last, started>>
        \/ /\ pc[p] \in Exchanged /\ Goto(p, "retain")
           /\ UNCHANGED <<disk, journal, units, lock, cmd, locals, last, started>>
        \/ \E l \in Uncaught : Refuses(p, l)
    BY <1>6 DEF Fails
  <2>. QED
    BY <1>0, <1>2, <1>3, <1>5, <2>1
<1>7. CASE SyncFails(p)
  <2>1. CASE /\ At(p, "prepare") /\ Finish(p) /\ journal' = rec /\ started' = started + 1
             /\ UNCHANGED <<config, archive, retained, units, last>>
    <3>1. HolderAt("prepare") /\ lock = p /\ pc[p] = "prepare"
      BY <1>0, <2>1 DEF At, Inv1, Held, Control, Before
    <3>2. rec \in Records /\ rec.original \in Legacies /\ started < MaxTransactions
      BY <3>1 DEF HolderAt, Early, Before
    <3>3. started' \in 0..MaxTransactions
      BY <1>0, <2>1, <3>2, BoundsAssumption DEF DiskOK
    <3>4. JournalOK' /\ journal' \in Records
      BY <2>1, <3>2 DEF JournalOK
    <3>. QED
      BY <1>0, <1>f, <2>1, <3>1, <3>3, <3>4, FinishStep DEF DiskOK
  <2>2. CASE /\ At(p, "applied") /\ Raise(p, drift) /\ journal' = [rec EXCEPT !.status = "applied"]
             /\ UNCHANGED <<disk, units, lock, cmd, want, temp, restoring, last, started>>
    <3>1. HolderAt("applied") /\ pc[p] = "applied"
      BY <1>0, <2>2 DEF At, Inv1, Held
    <3>2. /\ rec \in Records /\ rec.original \in Legacies /\ temp = NoFile /\ journal.original = rec.original
      BY <1>0, <3>1 DEF HolderAt, Early
    <3>3. journal' \in Records /\ journal'.original = rec.original /\ journal'.status = "applied"
      BY <2>2, <3>2 DEF Records, Statuses
    <3>4. JournalOK' /\ Open(journal')
      BY <3>2, <3>3, AbsentAssumption DEF JournalOK, Open
    <3>5. DiskOK' /\ drift \in BOOLEAN
      BY <1>0, <1>f, <2>2, <3>3 DEF DiskOK, disk, LocalsOK
    <3>. QED
      BY <1>0, <2>2, <3>1, <3>2, <3>3, <3>4, <3>5, RaiseStep
  <2>3. CASE /\ At(p, "unlink") /\ Raise(p, drift) /\ temp' = NoFile
             /\ UNCHANGED <<disk, journal, units, lock, cmd, want, restoring, last, started>>
    <3>1. HolderAt("unlink") /\ pc[p] = "unlink" /\ pc[p] \in After \ {"save"}
      BY <1>0, <2>3 DEF At, Inv1, Held, Exchanged
    <3>2. Open(journal)
      BY <3>1 DEF HolderAt
    <3>3. DiskOK' /\ JournalOK' /\ drift \in BOOLEAN
      BY <1>0, <1>f, <2>3 DEF DiskOK, disk, LocalsOK, JournalOK
    <3>. QED
      BY <2>3, <3>1, <3>2, <3>3, RaiseStep
  <2>. QED
    BY <1>7, <2>1, <2>2, <2>3 DEF SyncFails
<1>8. CASE InterruptedExchange(p)
  <2>1. /\ pc[p] = "exchange" /\ Raise(p, drift) /\ config' = Published
        /\ UNCHANGED <<archive, retained, strays, journal, units, lock, cmd, want, temp, restoring, last, started>>
    BY <1>8 DEF InterruptedExchange, At
  <2>2. HolderAt("exchange")
    BY <1>0, <2>1 DEF Inv1, Held
  <2>3. Published \in Contents
    BY <2>2 DEF HolderAt, Early, Published, Contents
  <2>. QED
    BY <1>0, <1>f, <2>1, <2>3, ObjectStep
<1>9. CASE Kill(p)
  <2>1. pc[p] # "idle" /\ Finish(p) /\ UNCHANGED <<config, archive, retained, journal, units, last, started>>
    BY <1>9 DEF Kill, At
  <2>2. JournalOK'
    BY <1>0, <2>1 DEF JournalOK
  <2>. QED
    BY <1>0, <1>f, <2>1, <2>2, FinishStep DEF DiskOK
<1>. QED
  BY <1>1, <1>4, <1>6, <1>7, <1>8, <1>9

----------------------------------------------------------------------------
(* Everybody's steps. *)

(* Every step of a helper, of root's editor and of the units keeps the      *)
(* first layer, whatever the faults.                                        *)
LEMMA FirstLayerStep ==
    ASSUME Inv1, Next
    PROVE  Inv1'
<1>1. ASSUME NEW p \in Operators, NEW c \in Commands, Invoke(p, c) PROVE Inv1'
  <2>1. /\ pc[p] = "idle" /\ pc' = [pc EXCEPT ![p] = "lock"] /\ cmd' = [cmd EXCEPT ![p] = c]
        /\ UNCHANGED <<config, archive, retained, strays, journal, units, lock, rec, want, temp, restoring,
                       drift, last, started, faults>>
    BY <1>1 DEF Invoke, At, Goto, disk, locals
  <2>2. pc'[p] = "lock" /\ \A q \in Operators \ {p} : pc'[q] = pc[q]
    BY <2>1 DEF Inv1, Control
  <2>3. Control'
    BY <2>1, <2>2, AfterLabels DEF Inv1, Control
  <2>4. DiskOK' /\ LocalsOK' /\ JournalOK' /\ (lock' = Nobody => Reset')
    BY <2>1 DEF Inv1, DiskOK, LocalsOK, JournalOK, Reset
  <2>5. ASSUME NEW q \in Operators, pc'[q] \in HeldLabels PROVE HolderAt(pc[q])'
    <3>1. pc'[q] = pc[q] /\ HolderAt(pc[q])
      BY <2>2, <2>5, AfterLabels DEF Inv1, Held
    <3>. QED
      BY <2>1, <3>1 DEF HolderAt, Reset, Open, Closed, Known
  <2>. QED
    BY <2>3, <2>4, <2>5 DEF Inv1, Held
<1>2. ASSUME NEW p \in Operators, Step(p) PROVE Inv1'
  BY <1>2, OpeningSteps, ApplySteps, ExchangeSteps, RestoreSteps DEF Step
<1>3. ASSUME NEW p \in Operators, Failure(p) PROVE Inv1'
  BY <1>3, ExchangeSteps, FailureSteps DEF Failure
<1>4. ASSUME UNCHANGED <<archive, retained, strays, journal, lock, pc, cmd, rec, want, temp, restoring, drift, started>>,
             config' \in Contents, last' \in Contents, units' \in [Units -> BOOLEAN], faults' \in 0..MaxFaults
      PROVE  Inv1'
  <2>1. Control' /\ DiskOK' /\ LocalsOK' /\ JournalOK' /\ (lock' = Nobody => Reset')
    BY <1>4 DEF Inv1, Control, DiskOK, LocalsOK, JournalOK, Reset
  <2>2. ASSUME NEW q \in Operators, pc'[q] \in HeldLabels PROVE HolderAt(pc[q])'
    <3>1. pc'[q] = pc[q] /\ HolderAt(pc[q])
      BY <1>4, <2>2 DEF Inv1, Held
    <3>. QED
      BY <1>4, <3>1 DEF HolderAt, Reset, Open, Closed, Known
  <2>. QED
    BY <2>1, <2>2 DEF Inv1, Held
<1>5. ASSUME NEW c \in Contents, Edit(c) PROVE Inv1'
  <2>1. faults' \in 0..MaxFaults
    BY <1>5, FaultTypes DEF Edit
  <2>2. /\ UNCHANGED <<archive, retained, strays, journal, units, lock, pc, cmd, rec, want, temp, restoring, drift, started>>
        /\ config' = c /\ last' = c
    BY <1>5 DEF Edit, locals
  <2>. QED
    BY <1>4, <2>1, <2>2 DEF Inv1, DiskOK
<1>6. ASSUME NEW u \in Units, UnitChanges(u) PROVE Inv1'
  <2>1. faults' \in 0..MaxFaults
    BY <1>6, FaultTypes DEF UnitChanges
  <2>2. /\ UNCHANGED <<config, archive, retained, strays, journal, lock, pc, cmd, rec, want, temp, restoring, drift,
                       last, started>>
        /\ units' = [units EXCEPT ![u] = ~units[u]]
    BY <1>6 DEF UnitChanges, disk, locals
  <2>3. units' \in [Units -> BOOLEAN]
    BY <2>2 DEF Inv1, DiskOK
  <2>. QED
    BY <1>4, <2>1, <2>2, <2>3 DEF Inv1, DiskOK
<1>. QED
  BY <1>1, <1>2, <1>3, <1>5, <1>6 DEF Next

(* The first layer holds in every state. *)
THEOREM FirstLayer == Spec => []Inv1
<1>1. ASSUME Init PROVE Inv1
  <2>1. Control
    BY <1>1, AfterLabels, ProcessAssumption DEF Init, Control
  <2>2. started \in 0..MaxTransactions /\ faults \in 0..MaxFaults
    BY <1>1, BoundsAssumption DEF Init
  <2>3. DiskOK /\ LocalsOK /\ JournalOK /\ Reset
    BY <1>1, <2>2 DEF Init, DiskOK, LocalsOK, JournalOK, Reset, Contents
  <2>4. Held
    BY <1>1, AfterLabels DEF Init, Held
  <2>. QED
    BY <2>1, <2>3, <2>4 DEF Inv1
<1>2. ASSUME Inv1, UNCHANGED vars PROVE Inv1'
  <2>1. Control' /\ DiskOK' /\ LocalsOK' /\ JournalOK' /\ (lock' = Nobody => Reset')
    BY <1>2 DEF Inv1, Control, DiskOK, LocalsOK, JournalOK, Reset, vars, disk, locals
  <2>2. ASSUME NEW q \in Operators, pc'[q] \in HeldLabels PROVE HolderAt(pc[q])'
    <3>1. pc'[q] = pc[q] /\ HolderAt(pc[q])
      BY <1>2, <2>2 DEF Inv1, Held, vars
    <3>. QED
      BY <1>2, <3>1 DEF HolderAt, Reset, Open, Closed, Known, vars, disk, locals
  <2>. QED
    BY <2>1, <2>2 DEF Inv1, Held
<1>. QED
  BY <1>1, <1>2, FirstLayerStep, PTL DEF Spec

(* Every variable keeps its type, whatever fails: a record is complete       *)
(* whenever the helper writes or reads one.                                 *)
THEOREM MigrationTypes == Spec => []TypeOK
<1>1. Inv1 => TypeOK
  BY DEF Inv1, Control, DiskOK, LocalsOK, TypeOK
<1>. QED
  BY <1>1, FirstLayer, PTL

----------------------------------------------------------------------------
(* The second layer: where root's config and the helper's own are.  The      *)
(* former may be lost when SIGINT hits after renameat2 and before the helper *)
(* knows (InterruptedExchange), so that part assumes it away.                *)

(* From here on the journal may be closed: the baseline is live again. *)
InRegion(l) ==
    \/ l \in {"restore-sockets", "restore-bridge", "restore-daemon", "restore-verify"}
    \/ l = "unlink" /\ restoring
    \/ l = "save" /\ ~Open(rec)

Returning == \E p \in Operators : InRegion(pc[p])

(* No system config of the helper is left, and root's config is there        *)
(* without the journal.                                                     *)
Kept ==
    /\ config = System => last = System
    /\ "interrupt" \notin Faults => last \in {config, System} \cup retained \cup strays

Survives == "interrupt" \notin Faults => OperatorConfigSurvives

Inv2 == Survives /\ SystemIsJournaled /\ (Returning => Kept)

(* A step that changes neither the live config nor root's last one, drops a  *)
(* displaced file only when it is kept elsewhere, and closes no journal.     *)
LEMMA KeepStep ==
    ASSUME Inv1, Inv2, UNCHANGED <<config, last>>, retained \subseteq retained', strays \subseteq strays',
           \/ journal' = journal
           \/ Open(journal') /\ (Open(journal) => journal'.original = journal.original),
           \/ temp' = temp
           \/ temp \in retained' \cup strays' \cup {NoFile, System}
           \/ Open(journal) /\ journal.original = temp,
           Returning' => Returning \/ Kept
    PROVE  Inv2'
<1>1. last # NoFile
  BY ContentsAssumption DEF Inv1, DiskOK
<1>2. Open(journal) => Open(journal') /\ journal'.original = journal.original
  OBVIOUS
<1>3. Survives'
  BY <1>1, <1>2 DEF Inv2, Survives, OperatorConfigSurvives
<1>4. SystemIsJournaled'
  BY <1>2 DEF Inv2, SystemIsJournaled
<1>5. Returning' => Kept'
  BY DEF Inv2, Kept
<1>. QED
  BY <1>3, <1>4, <1>5 DEF Inv2

(* The holder goes on to a label: it is returning there or nobody is. *)
LEMMA GoReturns ==
    ASSUME Inv1, Inv1', NEW p \in Operators, NEW l, l \in HeldLabels, pc' = [pc EXCEPT ![p] = l]
    PROVE  Returning' => InRegion(l)'
<1>1. pc'[p] = l /\ lock' = p
  BY DEF Inv1, Control
<1>2. ASSUME NEW q \in Operators, InRegion(pc[q])' PROVE q = p
  <2>1. pc'[q] \in HeldLabels
    BY <1>2, AfterLabels DEF InRegion
  <2>. QED
    BY <1>1, <2>1 DEF Inv1, Control
<1>3. ASSUME NEW q \in Operators, InRegion(pc[q])' PROVE InRegion(l)'
  BY <1>1, <1>2, <1>3 DEF InRegion
<1>. QED
  BY <1>3 DEF Returning

(* Who ends is not returning any more; a displaced file stays as a stray. *)
LEMMA FinishReturns ==
    ASSUME Inv1, Inv1', NEW p \in Operators, Finish(p)
    PROVE  /\ Returning' => Returning
           /\ strays \subseteq strays' /\ (temp' = temp \/ temp \in strays' \cup {NoFile})
<1>0. Nobody \notin Operators
  BY ProcessAssumption
<1>1. CASE lock = p
  <2>1. lock' = Nobody /\ strays' = strays \cup ({temp} \ {NoFile})
    BY <1>1 DEF Finish
  <2>2. \A q \in Operators : pc'[q] \notin HeldLabels
    BY <1>0, <2>1 DEF Inv1, Control
  <2>3. ~Returning'
    BY <2>2, AfterLabels DEF Returning, InRegion
  <2>. QED
    BY <2>1, <2>3
<1>2. CASE lock # p
  <2>1. UNCHANGED <<rec, restoring, temp, strays>>
    BY <1>2 DEF Finish, locals
  <2>2. pc' = [pc EXCEPT ![p] = "idle"]
    BY DEF Finish
  <2>3. ASSUME NEW q \in Operators, InRegion(pc[q])' PROVE InRegion(pc[q])
    <3>1. pc'[q] # "idle"
      BY <2>3 DEF InRegion
    <3>2. pc'[q] = pc[q]
      BY <2>2, <3>1 DEF Inv1, Control
    <3>. QED
      BY <2>1, <2>3, <3>2 DEF InRegion, Open
  <2>. QED
    BY <2>1, <2>3 DEF Returning
<1>. QED
  BY <1>1, <1>2

(* After an exception nobody is returning. *)
LEMMA RaiseReturns ==
    ASSUME Inv1, Inv1', NEW p \in Operators, pc[p] \in After, NEW d, Raise(p, d), UNCHANGED restoring
    PROVE  ~Returning'
<1>0. "save" \in HeldLabels /\ "handle" \in HeldLabels
  BY AfterLabels
<1>1. CASE restoring
  <2>1. /\ pc' = [pc EXCEPT ![p] = "save"]
        /\ rec' = [rec EXCEPT !.status = "recovery-required", !.recovery = d]
    BY <1>1 DEF Raise, Goto
  <2>2. rec \in Records
    BY DEF Inv1, Held, HolderAt, After
  <2>3. rec'.status = "recovery-required"
    BY <2>1, <2>2 DEF Records
  <2>4. pc'[p] = "save"
    BY <2>1 DEF Inv1, Control
  <2>5. rec' # NoRecord
    BY <1>0, <2>4, AbsentAssumption DEF Inv1, Held, HolderAt, Early
  <2>6. ~InRegion("save")'
    BY <2>3, <2>5 DEF InRegion, Open
  <2>. QED
    BY <1>0, <2>1, <2>6, GoReturns
<1>2. CASE ~restoring
  <2>1. pc' = [pc EXCEPT ![p] = "handle"]
    BY <1>2 DEF Raise, Goto
  <2>2. ~InRegion("handle")'
    BY DEF InRegion
  <2>. QED
    BY <1>0, <2>1, <2>2, GoReturns
<1>. QED
  BY <1>1, <1>2

(* A process that ends keeps what it displaced. *)
LEMMA RefuseKeeps ==
    ASSUME Inv1, Inv1', Inv2, NEW p \in Operators, Finish(p), UNCHANGED <<config, last, retained, journal>>
    PROVE  Inv2'
<1>1. /\ Returning' => Returning
      /\ strays \subseteq strays' /\ (temp' = temp \/ temp \in strays' \cup {NoFile})
  BY FinishReturns
<1>. QED
  BY <1>1, KeepStep

(* So does one that raises an exception. *)
LEMMA ObjectKeeps ==
    ASSUME Inv1, Inv1', Inv2, NEW p \in Operators, pc[p] \in After, Raise(p, drift),
           UNCHANGED <<config, last, retained, strays, journal, temp, restoring>>
    PROVE  Inv2'
<1>1. ~Returning'
  BY RaiseReturns
<1>. QED
  BY <1>1, KeepStep

(* And one that goes on with its files as they are. *)
LEMMA MoveKeeps ==
    ASSUME Inv1, Inv1', Inv2, NEW p \in Operators, NEW l \in HeldLabels, pc' = [pc EXCEPT ![p] = l],
           UNCHANGED <<config, last, retained, strays, journal, temp>>,
           InRegion(l)' => InRegion(pc[p]) \/ Kept
    PROVE  Inv2'
<1>1. Returning' => Returning \/ Kept
  BY GoReturns DEF Returning
<1>. QED
  BY <1>1, KeepStep

(* The lock, and apply until the journal is written. *)
LEMMA OpeningKeeps ==
    ASSUME Inv1, Inv1', Inv2, NEW p \in Operators,
           \/ Acquire(p) \/ Busy(p) \/ CheckRefused(p) \/ Check(p) \/ CaptureRefused(p)
           \/ Capture(p) \/ Archive(p) \/ Prepare(p)
    PROVE  Inv2'
<1>0. Early \cup Before \cup {"stop"} \subseteq HeldLabels
  BY AfterLabels
<1>1. CASE Busy(p) \/ CheckRefused(p) \/ CaptureRefused(p)
  <2>1. Finish(p) /\ UNCHANGED <<config, last, retained, journal>>
    BY <1>1 DEF Busy, CheckRefused, CaptureRefused, Refuses
  <2>. QED
    BY <2>1, RefuseKeeps
<1>2. CASE Acquire(p) \/ Check(p) \/ Capture(p) \/ Archive(p)
  <2>1. UNCHANGED <<config, last, retained, strays, journal, temp>>
    BY <1>2 DEF Acquire, Check, Capture, Archive, disk, locals
  <2>2. PICK l \in Early \cup Before : pc' = [pc EXCEPT ![p] = l]
    BY <1>2 DEF Acquire, Check, Capture, Archive, Goto, Early, Before
  <2>3. ~InRegion(l)'
    BY DEF InRegion, Early, Before
  <2>. QED
    BY <1>0, <2>1, <2>2, <2>3, MoveKeeps
<1>3. CASE Prepare(p)
  <2>1. /\ pc[p] = "prepare" /\ pc' = [pc EXCEPT ![p] = "stop"] /\ journal' = rec
        /\ UNCHANGED <<config, last, retained, strays, temp>>
    BY <1>3 DEF Prepare, At, Goto, disk, locals
  <2>2. ~Returning'
    <3>1. ~InRegion("stop")'
      BY DEF InRegion
    <3>. QED
      BY <1>0, <2>1, <3>1, GoReturns
  <2>3. HolderAt("prepare")
    BY <1>0, <2>1 DEF Inv1, Held, Before
  <2>4. Open(rec) /\ ~Open(journal)
    BY <2>3 DEF HolderAt, Before
  <2>. QED
    BY <2>1, <2>2, <2>4, KeepStep
<1>. QED
  BY <1>1, <1>2, <1>3

(* apply once the journal is written. *)
LEMMA ApplyKeeps ==
    ASSUME Inv1, Inv1', Inv2, NEW p \in Operators,
           \/ StopDaemon(p) \/ Verify(p) \/ VerifyFails(p) \/ Activate(p) \/ ActivateFails(p)
           \/ Start(p) \/ Ready(p) \/ ReadyFails(p) \/ Applied(p) \/ Handle(p)
    PROVE  Inv2'
<1>0. /\ After \subseteq HeldLabels
      /\ {"verify", "exchange", "activate", "ready", "applied", "start-sockets", "start-bridge", "start-daemon",
          "restore-stop", "handle", "save"} \subseteq After
  BY AfterLabels
<1>1. CASE StopDaemon(p) \/ Start(p) \/ Verify(p) \/ Activate(p) \/ Ready(p)
  <2>1. UNCHANGED <<config, last, retained, strays, journal, temp>>
    BY <1>1 DEF StopDaemon, Start, Verify, Activate, Ready, Systemctl, Moves, disk, locals
  <2>2. PICK l \in {"verify", "exchange", "start-sockets", "start-bridge", "start-daemon", "ready", "applied"} :
          pc' = [pc EXCEPT ![p] = l]
    BY <1>1 DEF StopDaemon, Start, Verify, Activate, Ready, Systemctl, Moves, Goto
  <2>3. ~InRegion(l)'
    BY DEF InRegion
  <2>. QED
    BY <1>0, <2>1, <2>2, <2>3, MoveKeeps
<1>2. CASE VerifyFails(p) \/ ActivateFails(p) \/ ReadyFails(p)
  <2>1. /\ pc[p] \in {"verify", "activate", "ready"} /\ Raise(p, drift)
        /\ UNCHANGED <<config, last, retained, strays, journal, temp, restoring>>
    BY <1>2 DEF VerifyFails, ActivateFails, ReadyFails, Objects, At, disk
  <2>. QED
    BY <1>0, <2>1, ObjectKeeps
<1>3. CASE Applied(p)
  <2>1. /\ pc[p] = "applied" /\ journal' = [rec EXCEPT !.status = "applied"] /\ Finish(p)
        /\ UNCHANGED <<config, retained, last>>
    BY <1>3 DEF Applied, At
  <2>2. HolderAt("applied")
    BY <1>0, <2>1 DEF Inv1, Held
  <2>3. rec \in Records /\ journal.original = rec.original
    BY <1>0, <2>2 DEF HolderAt, Early
  <2>4. journal' \in Records /\ journal'.status = "applied" /\ journal'.original = journal.original
    BY <2>1, <2>3 DEF Records, Statuses
  <2>5. Open(journal')
    BY <2>4, AbsentAssumption DEF Open
  <2>6. /\ Returning' => Returning
        /\ strays \subseteq strays' /\ (temp' = temp \/ temp \in strays' \cup {NoFile})
    BY <2>1, FinishReturns
  <2>. QED
    BY <2>1, <2>4, <2>5, <2>6, KeepStep
<1>4. CASE Handle(p)
  <2>1. pc[p] = "handle" /\ UNCHANGED <<config, last, retained, strays, journal, temp>>
    BY <1>4 DEF Handle, At, disk
  <2>2. CASE ~drift /\ config \in Known(rec)
    <3>1. pc' = [pc EXCEPT ![p] = "restore-stop"]
      BY <1>4, <2>2 DEF Handle, Goto
    <3>2. ~InRegion("restore-stop")'
      BY DEF InRegion
    <3>. QED
      BY <1>0, <2>1, <3>1, <3>2, MoveKeeps
  <2>3. CASE ~(~drift /\ config \in Known(rec))
    <3>1. /\ pc' = [pc EXCEPT ![p] = "save"]
          /\ rec' = [rec EXCEPT !.status = "recovery-required", !.recovery = drift]
      BY <1>4, <2>3 DEF Handle, Goto
    <3>2. rec \in Records
      BY <1>0, <2>1 DEF Inv1, Held, HolderAt, Early
    <3>3. rec'.status = "recovery-required"
      BY <3>1, <3>2 DEF Records
    <3>4. pc'[p] = "save"
      BY <3>1 DEF Inv1, Control
    <3>5. rec' # NoRecord
      BY <1>0, <3>4, AbsentAssumption DEF Inv1, Held, HolderAt, Early
    <3>6. ~InRegion("save")'
      BY <3>3, <3>5 DEF InRegion, Open
    <3>. QED
      BY <1>0, <2>1, <3>1, <3>6, MoveKeeps
  <2>. QED
    BY <2>2, <2>3
<1>. QED
  BY <1>1, <1>2, <1>3, <1>4

(* A displaced file is removed only when it is the baseline or our own. *)
LEMMA DisplacedIsKnown ==
    ASSUME Inv1, NEW p \in Operators, pc[p] \in {"recheck", "unlink"}
    PROVE  /\ temp = System \/ temp = rec.original
           /\ Open(journal) /\ journal.original = rec.original /\ rec.original \in Legacies
<1>1. HolderAt(pc[p])
  BY AfterLabels DEF Inv1, Held
<1>. QED
  BY <1>1, AfterLabels DEF HolderAt, Known, Exchanged, Early

(* conditional_config_write *)
LEMMA ExchangeKeeps ==
    ASSUME Inv1, Inv1', Inv2, NEW p \in Operators,
           Exchange(p) \/ Compare(p) \/ Recheck(p) \/ Unlink(p) \/ Retain(p) \/ RetainFails(p)
    PROVE  Inv2'
<1>0. /\ After \subseteq HeldLabels
      /\ {"exchange", "compare", "recheck", "unlink", "retain", "restore-sockets", "activate"} \subseteq After
  BY AfterLabels
<1>1. CASE Exchange(p)
  <2>1. /\ pc[p] = "exchange" /\ pc' = [pc EXCEPT ![p] = "compare"] /\ temp' = config
        /\ UNCHANGED <<retained, strays, journal, last>>
    BY <1>1 DEF Exchange, At, Goto
  <2>2. HolderAt("exchange")
    BY <1>0, <2>1 DEF Inv1, Held
  <2>3. Open(journal) /\ temp = NoFile /\ last # NoFile
    BY <1>0, <2>2, ContentsAssumption DEF HolderAt, Displacing, Exchanged, Inv1, DiskOK
  <2>4. Survives'
    BY <2>1, <2>3 DEF Inv2, Survives, OperatorConfigSurvives
  <2>5. SystemIsJournaled'
    BY <2>1, <2>3 DEF SystemIsJournaled
  <2>6. ~Returning'
    <3>1. ~InRegion("compare")'
      BY DEF InRegion
    <3>. QED
      BY <1>0, <2>1, <3>1, GoReturns
  <2>. QED
    BY <2>4, <2>5, <2>6 DEF Inv2
<1>2. CASE Compare(p)
  <2>1. UNCHANGED <<config, last, retained, strays, journal, temp>>
    BY <1>2 DEF Compare, Moves, disk, locals
  <2>2. PICK l \in {"recheck", "retain"} : pc' = [pc EXCEPT ![p] = l]
    BY <1>2 DEF Compare, Moves, Goto
  <2>3. ~InRegion(l)'
    BY DEF InRegion
  <2>. QED
    BY <1>0, <2>1, <2>2, <2>3, MoveKeeps
<1>3. CASE Recheck(p)
  <2>1. pc[p] = "recheck" /\ UNCHANGED <<config, last, retained, strays, journal, temp, restoring>>
    BY <1>3 DEF Recheck, Moves, At, disk, locals
  <2>2. PICK l \in {"unlink", "retain"} : pc' = [pc EXCEPT ![p] = l] /\ (l = "unlink" => config = Published)
    BY <1>3 DEF Recheck, Moves, Goto
  <2>3. InRegion(l)' => l = "unlink" /\ restoring
    BY <2>1, <2>2 DEF InRegion
  <2>4. ASSUME l = "unlink", restoring PROVE Kept
    <3>1. config = rec.original
      BY <2>2, <2>4 DEF Published
    <3>2. /\ temp = System \/ temp = rec.original
          /\ Open(journal) /\ journal.original = rec.original /\ rec.original \in Legacies
      BY <2>1, DisplacedIsKnown
    <3>. QED
      BY <3>1, <3>2, ContentsAssumption DEF Kept, Inv2, Survives, OperatorConfigSurvives
  <2>. QED
    BY <1>0, <2>1, <2>2, <2>3, <2>4, MoveKeeps
<1>4. CASE Unlink(p)
  <2>1. pc[p] = "unlink" /\ UNCHANGED <<config, last, retained, strays, journal, rec, restoring>>
    BY <1>4 DEF Unlink, At, disk
  <2>2. PICK l \in {"restore-sockets", "activate"} :
          pc' = [pc EXCEPT ![p] = l] /\ (l = "restore-sockets" => restoring)
    BY <1>4 DEF Unlink, Goto
  <2>3. Returning' => Returning
    <3>1. Returning' => InRegion(l)'
      BY <1>0, <2>2, GoReturns
    <3>2. InRegion(l)' => InRegion(pc[p])
      BY <2>1, <2>2 DEF InRegion
    <3>. QED
      BY <3>1, <3>2 DEF Returning
  <2>4. /\ temp = System \/ temp = rec.original
        /\ Open(journal) /\ journal.original = rec.original
    BY <2>1, DisplacedIsKnown
  <2>. QED
    BY <2>1, <2>3, <2>4, KeepStep
<1>5. CASE Retain(p) \/ RetainFails(p)
  <2>1. /\ pc[p] = "retain" /\ UNCHANGED <<config, last, journal, restoring>>
        /\ retained \subseteq retained' /\ strays \subseteq strays' /\ temp \in retained' \cup strays'
    BY <1>5 DEF Retain, RetainFails, At
  <2>2. PICK d \in BOOLEAN : Raise(p, d)
    BY <1>5 DEF Retain, RetainFails
  <2>3. ~Returning'
    BY <1>0, <2>1, <2>2, RaiseReturns
  <2>. QED
    BY <2>1, <2>3, KeepStep
<1>. QED
  BY <1>1, <1>2, <1>3, <1>4, <1>5

(* restore and rollback: only when the baseline is back is the journal closed. *)
LEMMA RestoreKeeps ==
    ASSUME Inv1, Inv1', Inv2, NEW p \in Operators,
           \/ RollbackRefused(p) \/ RollbackCheck(p) \/ RestoreStop(p) \/ RestoreRead(p) \/ RestoreReadFails(p)
           \/ RestoreStart(p) \/ RestoreVerify(p) \/ RestoreVerifyFails(p) \/ Save(p)
    PROVE  Inv2'
<1>0. /\ After \subseteq HeldLabels
      /\ {"restore-stop", "restore-read", "restore-sockets", "restore-bridge", "restore-daemon", "restore-verify",
          "exchange", "save"} \subseteq After
  BY AfterLabels
<1>1. CASE RollbackRefused(p)
  <2>1. Finish(p) /\ UNCHANGED <<config, last, retained, journal>>
    BY <1>1 DEF RollbackRefused, Refuses
  <2>. QED
    BY <2>1, RefuseKeeps
<1>2. CASE RollbackCheck(p) \/ RestoreStop(p) \/ RestoreRead(p)
  <2>1. UNCHANGED <<config, last, retained, strays, journal, temp>>
    BY <1>2 DEF RollbackCheck, RestoreStop, RestoreRead, Systemctl, disk, locals
  <2>2. PICK l \in {"restore-stop", "restore-read", "exchange"} : pc' = [pc EXCEPT ![p] = l]
    BY <1>2 DEF RollbackCheck, RestoreStop, RestoreRead, Systemctl, Goto
  <2>3. ~InRegion(l)'
    BY DEF InRegion
  <2>. QED
    BY <1>0, <2>1, <2>2, <2>3, MoveKeeps
<1>3. CASE RestoreReadFails(p) \/ RestoreVerifyFails(p)
  <2>1. /\ pc[p] \in {"restore-read", "restore-verify"} /\ Raise(p, drift)
        /\ UNCHANGED <<config, last, retained, strays, journal, temp, restoring>>
    BY <1>3 DEF RestoreReadFails, RestoreVerifyFails, Objects, At, disk
  <2>. QED
    BY <1>0, <2>1, ObjectKeeps
<1>4. CASE RestoreStart(p) \/ RestoreVerify(p)
  <2>1. /\ pc[p] \in {"restore-sockets", "restore-bridge", "restore-daemon", "restore-verify"}
        /\ UNCHANGED <<config, last, retained, strays, journal, temp>>
    BY <1>4 DEF RestoreStart, RestoreVerify, Systemctl, At, disk, locals
  <2>2. PICK l \in {"restore-bridge", "restore-daemon", "restore-verify", "save"} : pc' = [pc EXCEPT ![p] = l]
    BY <1>4 DEF RestoreStart, RestoreVerify, Systemctl, Goto
  <2>3. InRegion(pc[p])
    BY <2>1 DEF InRegion
  <2>. QED
    BY <1>0, <2>1, <2>2, <2>3, MoveKeeps
<1>5. CASE Save(p)
  <2>1. pc[p] = "save" /\ journal' = rec /\ Finish(p) /\ UNCHANGED <<config, retained, last>>
    BY <1>5 DEF Save, At
  <2>2. HolderAt("save")
    BY <1>0, <2>1 DEF Inv1, Held
  <2>3. Open(journal) /\ journal.original = rec.original
    BY <1>0, <2>2 DEF HolderAt
  <2>4. /\ Returning' => Returning
        /\ strays \subseteq strays' /\ (temp' = temp \/ temp \in strays' \cup {NoFile})
    BY <2>1, FinishReturns
  <2>5. CASE Open(rec)
    BY <2>1, <2>3, <2>4, <2>5, KeepStep
  <2>6. CASE ~Open(rec)
    <3>1. InRegion(pc[p])
      BY <2>1, <2>6 DEF InRegion
    <3>2. Kept
      BY <3>1 DEF Inv2, Returning
    <3>3. Survives' /\ SystemIsJournaled' /\ Kept'
      BY <2>1, <2>4, <3>2 DEF Kept, Survives, OperatorConfigSurvives, SystemIsJournaled
    <3>. QED
      BY <3>3 DEF Inv2
  <2>. QED
    BY <2>5, <2>6
<1>. QED
  BY <1>1, <1>2, <1>3, <1>4, <1>5

(* Failures, the interrupted exchange excepted. *)
LEMMA FailureKeeps ==
    ASSUME Inv1, Inv1', Inv2, NEW p \in Operators,
           SystemctlFails(p) \/ Conflict(p) \/ Fails(p) \/ SyncFails(p) \/ Kill(p)
    PROVE  Inv2'
<1>0. /\ Caught \cup Calling \cup Exchanged \cup {"verify", "ready", "restore-verify", "retain", "applied"} \subseteq After
      /\ After \subseteq HeldLabels /\ Before \subseteq HeldLabels
  BY AfterLabels DEF Caught, Exchanged
<1>1. CASE \/ SystemctlFails(p)
           \/ /\ pc[p] \in Caught \cup {"verify", "ready", "restore-verify"} /\ Raise(p, drift)
              /\ UNCHANGED <<disk, journal, units, lock, cmd, want, temp, restoring, last, started>>
  <2>1. /\ pc[p] \in After /\ Raise(p, drift)
        /\ UNCHANGED <<config, last, retained, strays, journal, temp, restoring>>
    BY <1>0, <1>1 DEF SystemctlFails, disk
  <2>. QED
    BY <2>1, ObjectKeeps
<1>2. CASE Kill(p) \/ \E l \in HeldLabels : Refuses(p, l)
  <2>1. Finish(p) /\ UNCHANGED <<config, last, retained, journal>>
    BY <1>2 DEF Kill, Refuses
  <2>. QED
    BY <2>1, RefuseKeeps
<1>3. CASE /\ pc[p] \in Exchanged /\ Goto(p, "retain")
           /\ UNCHANGED <<disk, journal, units, lock, cmd, locals, last, started>>
  <2>1. pc' = [pc EXCEPT ![p] = "retain"] /\ UNCHANGED <<config, last, retained, strays, journal, temp>>
    BY <1>3 DEF Goto, disk, locals
  <2>2. ~InRegion("retain")'
    BY DEF InRegion
  <2>. QED
    BY <1>0, <2>1, <2>2, MoveKeeps
<1>4. CASE Conflict(p) \/ Fails(p)
  <2>1. \/ \E l \in HeldLabels : Refuses(p, l)
        \/ /\ pc[p] \in Caught \cup {"verify", "ready", "restore-verify"} /\ Raise(p, drift)
           /\ UNCHANGED <<disk, journal, units, lock, cmd, want, temp, restoring, last, started>>
        \/ /\ pc[p] \in Exchanged /\ Goto(p, "retain")
           /\ UNCHANGED <<disk, journal, units, lock, cmd, locals, last, started>>
    <3>1. Uncaught \cup {"check", "capture", "rollback-check"} \subseteq HeldLabels
      BY DEF HeldLabels, Uncaught
    <3>. QED
      BY <1>4, <3>1 DEF Conflict, Fails
  <2>. QED
    BY <1>1, <1>2, <1>3, <2>1
<1>5. CASE SyncFails(p)
  <2>1. CASE /\ At(p, "prepare") /\ Finish(p) /\ journal' = rec
             /\ UNCHANGED <<config, archive, retained, units, last>>
    <3>1. HolderAt("prepare")
      BY <1>0, <2>1 DEF At, Inv1, Held, Before
    <3>2. Open(rec) /\ ~Open(journal)
      BY <3>1 DEF HolderAt, Before
    <3>3. /\ Returning' => Returning
          /\ strays \subseteq strays' /\ (temp' = temp \/ temp \in strays' \cup {NoFile})
      BY <2>1, FinishReturns
    <3>. QED
      BY <2>1, <3>2, <3>3, KeepStep
  <2>2. CASE /\ At(p, "applied") /\ Raise(p, drift) /\ journal' = [rec EXCEPT !.status = "applied"]
             /\ UNCHANGED <<disk, units, lock, cmd, want, temp, restoring, last, started>>
    <3>1. HolderAt("applied") /\ pc[p] = "applied"
      BY <1>0, <2>2 DEF At, Inv1, Held
    <3>2. rec \in Records /\ journal.original = rec.original
      BY <1>0, <3>1 DEF HolderAt, Early
    <3>3. journal' \in Records /\ journal'.status = "applied" /\ journal'.original = journal.original
      BY <2>2, <3>2 DEF Records, Statuses
    <3>4. Open(journal')
      BY <3>3, AbsentAssumption DEF Open
    <3>5. ~Returning'
      BY <1>0, <2>2, <3>1, RaiseReturns
    <3>. QED
      BY <2>2, <3>3, <3>4, <3>5, KeepStep DEF disk
  <2>3. CASE /\ At(p, "unlink") /\ Raise(p, drift) /\ temp' = NoFile
             /\ UNCHANGED <<disk, journal, units, lock, cmd, want, restoring, last, started>>
    <3>1. pc[p] = "unlink" /\ pc[p] \in After
      BY <1>0, <2>3 DEF At, Exchanged
    <3>2. /\ temp = System \/ temp = rec.original
          /\ Open(journal) /\ journal.original = rec.original
      BY <3>1, DisplacedIsKnown
    <3>3. ~Returning'
      BY <2>3, <3>1, RaiseReturns
    <3>. QED
      BY <2>3, <3>2, <3>3, KeepStep DEF disk
  <2>. QED
    BY <1>5, <2>1, <2>2, <2>3 DEF SyncFails
<1>. QED
  BY <1>1, <1>2, <1>4, <1>5

(* Every step keeps the second layer. *)
LEMMA SecondLayerStep ==
    ASSUME Inv1, Inv1', Inv2, Next
    PROVE  Inv2'
<1>1. ASSUME NEW p \in Operators, NEW c \in Commands, Invoke(p, c) PROVE Inv2'
  <2>1. /\ pc[p] = "idle" /\ pc' = [pc EXCEPT ![p] = "lock"]
        /\ UNCHANGED <<config, last, retained, strays, journal, temp, rec, restoring>>
    BY <1>1 DEF Invoke, At, Goto, disk, locals
  <2>2. ASSUME NEW q \in Operators, InRegion(pc[q])' PROVE InRegion(pc[q])
    <3>1. pc'[q] # "lock"
      BY <2>2 DEF InRegion
    <3>2. pc'[q] = pc[q]
      BY <2>1, <3>1 DEF Inv1, Control
    <3>. QED
      BY <2>1, <2>2, <3>2 DEF InRegion, Open
  <2>3. Returning' => Returning
    BY <2>2 DEF Returning
  <2>. QED
    BY <2>1, <2>3, KeepStep
<1>2. ASSUME NEW p \in Operators, Step(p) PROVE Inv2'
  BY <1>2, OpeningKeeps, ApplyKeeps, ExchangeKeeps, RestoreKeeps DEF Step
<1>3. ASSUME NEW p \in Operators, Failure(p) PROVE Inv2'
  <2>1. CASE InterruptedExchange(p)
    <3>1. /\ "interrupt" \in Faults /\ pc[p] = "exchange" /\ Raise(p, drift)
          /\ UNCHANGED <<journal, restoring>>
      BY <2>1 DEF InterruptedExchange, Fault, At
    <3>2. pc[p] \in After /\ pc[p] \in HeldLabels
      BY <3>1, AfterLabels
    <3>3. Open(journal)
      BY <3>2 DEF Inv1, Held, HolderAt
    <3>4. ~Returning'
      BY <3>1, <3>2, RaiseReturns
    <3>. QED
      BY <3>1, <3>3, <3>4 DEF Inv2, Survives, SystemIsJournaled
  <2>. QED
    BY <1>3, <2>1, ExchangeKeeps, FailureKeeps DEF Failure
<1>4. ASSUME NEW c \in Contents, Edit(c) PROVE Inv2'
  BY <1>4 DEF Edit, Inv2, Survives, OperatorConfigSurvives, SystemIsJournaled, Kept
<1>5. ASSUME NEW u \in Units, UnitChanges(u) PROVE Inv2'
  <2>1. UNCHANGED <<config, last, retained, strays, journal, temp, rec, restoring, pc>>
    BY <1>5 DEF UnitChanges, disk, locals
  <2>2. Returning' => Returning
    BY <2>1 DEF Returning, InRegion, Open
  <2>. QED
    BY <2>1, <2>2, KeepStep
<1>. QED
  BY <1>1, <1>2, <1>3, <1>4, <1>5 DEF Next

(* The second layer holds in every state. *)
THEOREM SecondLayer == Spec => []Inv2
<1>1. ASSUME Init PROVE Inv2
  <2>1. last = config /\ config \in Legacies /\ \A p \in Operators : pc[p] = "idle"
    BY <1>1 DEF Init
  <2>2. ~Returning
    BY <2>1 DEF Returning, InRegion
  <2>. QED
    BY <2>1, <2>2, ContentsAssumption DEF Inv2, Survives, OperatorConfigSurvives, SystemIsJournaled
<1>2. ASSUME Inv2, UNCHANGED vars PROVE Inv2'
  <2>1. UNCHANGED <<config, last, retained, strays, journal, temp, rec, restoring, pc>>
    BY <1>2 DEF vars, disk, locals
  <2>2. Returning' => Returning
    BY <2>1 DEF Returning, InRegion, Open
  <2>. QED
    BY <1>2, <2>1, <2>2 DEF Inv2, Survives, OperatorConfigSurvives, SystemIsJournaled, Kept, Open
<1>3. Inv1 /\ Inv1' /\ Inv2 /\ [Next]_vars => Inv2'
  BY <1>2, SecondLayerStep
<1>. QED
  BY <1>1, <1>3, FirstLayer, PTL DEF Spec

(* Root's last config is never destroyed, by any number of overlapping       *)
(* helpers, however often they fail or are killed, unless SIGINT hits between *)
(* renameat2 and the flag that records it.                                  *)
THEOREM ConfigSurvives ==
    ASSUME "interrupt" \notin Faults
    PROVE  Spec => []OperatorConfigSurvives
<1>1. Inv2 => OperatorConfigSurvives
  BY DEF Inv2, Survives
<1>. QED
  BY <1>1, SecondLayer, PTL

(* The helper's own config is never live without an open journal, whatever   *)
(* fails, that SIGINT included.                                              *)
THEOREM SystemHasJournal == Spec => []SystemIsJournaled
<1>1. Inv2 => SystemIsJournaled
  BY DEF Inv2
<1>. QED
  BY <1>1, SecondLayer, PTL

----------------------------------------------------------------------------
(* The third layer: after a drift the helper stops.  It needs that the       *)
(* displaced file can be moved and that the journal can be written: no       *)
(* SIGKILL, no I/O error and no failing move.                                *)

Reliable == Faults \cap {"kill", "io", "retain"} = {}

(* A drift is on record: in the journal, where apply and rollback refuse it, *)
(* or on its way there.                                                      *)
Halted ==
    \/ /\ Open(journal) /\ journal.recovery
       /\ \A p \in Operators : pc[p] \in HeldLabels => pc[p] \in {"check", "capture", "rollback-check"}
    \/ \E p \in Operators : pc[p] = "handle" /\ drift
    \/ \E p \in Operators : pc[p] = "save" /\ Open(rec) /\ rec.recovery

Inv3 == strays = {} /\ (retained # {} => Halted)

(* A process that ends outside of the exchange leaves no stray file. *)
LEMMA NoStrays ==
    ASSUME Inv1, NEW p \in Operators, pc[p] \notin Displacing, Finish(p)
    PROVE  strays' = strays
<1>1. CASE lock = p
  <2>1. pc[p] \in HeldLabels /\ HolderAt(pc[p])
    BY <1>1 DEF Inv1, Control, Held
  <2>. QED
    BY <1>1, <2>1 DEF HolderAt, Finish
<1>2. CASE lock # p
  BY <1>2 DEF Finish
<1>. QED
  BY <1>1, <1>2

(* What is retained changes only in Retain; nothing becomes a stray. *)
LEMMA OnlyRetainRetains ==
    ASSUME Reliable, Inv1, Next
    PROVE  strays' = strays /\ (retained' = retained \/ \E p \in Operators : Retain(p))
<1>0. /\ {"lock", "check", "capture", "rollback-check", "applied", "save"} \cap Displacing = {}
  BY DEF Displacing, Exchanged
<1>1. ASSUME NEW p \in Operators, NEW c \in Commands, Invoke(p, c) PROVE UNCHANGED <<strays, retained>>
  BY <1>1 DEF Invoke, disk
<1>2. ASSUME NEW p \in Operators, Step(p), ~Retain(p) PROVE UNCHANGED <<strays, retained>>
  <2>1. CASE Busy(p) \/ CheckRefused(p) \/ CaptureRefused(p) \/ RollbackRefused(p) \/ Applied(p) \/ Save(p)
    <3>1. /\ pc[p] \in {"lock", "check", "capture", "rollback-check", "applied", "save"} /\ Finish(p)
          /\ retained' = retained
      BY <2>1 DEF Busy, CheckRefused, CaptureRefused, RollbackRefused, Applied, Save, Refuses, At
    <3>. QED
      BY <1>0, <3>1, NoStrays
  <2>2. CASE Acquire(p) \/ Check(p) \/ Capture(p) \/ Archive(p) \/ Prepare(p) \/ Handle(p)
    BY <2>2 DEF Acquire, Check, Capture, Archive, Prepare, Handle, disk
  <2>3. CASE StopDaemon(p) \/ Start(p) \/ RestoreStop(p) \/ RestoreStart(p)
    BY <2>3 DEF StopDaemon, Start, RestoreStop, RestoreStart, Systemctl, disk
  <2>4. CASE Verify(p) \/ VerifyFails(p) \/ Activate(p) \/ ActivateFails(p) \/ Ready(p) \/ ReadyFails(p)
    BY <2>4 DEF Verify, VerifyFails, Activate, ActivateFails, Ready, ReadyFails, Moves, Objects, disk
  <2>5. CASE Exchange(p) \/ Compare(p) \/ Recheck(p) \/ Unlink(p)
    BY <2>5 DEF Exchange, Compare, Recheck, Unlink, Moves, disk
  <2>6. CASE RollbackCheck(p) \/ RestoreRead(p) \/ RestoreReadFails(p) \/ RestoreVerify(p) \/ RestoreVerifyFails(p)
    BY <2>6 DEF RollbackCheck, RestoreRead, RestoreReadFails, RestoreVerify, RestoreVerifyFails, Objects, disk
  <2>. QED
    BY <1>2, <2>1, <2>2, <2>3, <2>4, <2>5, <2>6 DEF Step
<1>3. ASSUME NEW p \in Operators, Retain(p) PROVE strays' = strays
  BY <1>3 DEF Retain
<1>4. ASSUME NEW p \in Operators, Failure(p) PROVE UNCHANGED <<strays, retained>>
  <2>1. ~RetainFails(p) /\ ~Fails(p) /\ ~SyncFails(p) /\ ~Kill(p)
    BY DEF Reliable, RetainFails, Fails, SyncFails, Kill, Fault
  <2>2. CASE SystemctlFails(p) \/ InterruptedExchange(p)
    BY <2>2 DEF SystemctlFails, InterruptedExchange, disk
  <2>3. CASE Conflict(p)
    <3>1. CASE \E l \in {"check", "capture", "rollback-check"} : Refuses(p, l)
      <4>1. pc[p] \in {"check", "capture", "rollback-check"} /\ Finish(p) /\ retained' = retained
        BY <3>1 DEF Refuses, At
      <4>. QED
        BY <1>0, <4>1, NoStrays
    <3>2. CASE UNCHANGED <<disk, journal, units, lock, cmd, want, temp, restoring, last, started>>
      BY <3>2 DEF disk
    <3>. QED
      BY <2>3, <3>1, <3>2 DEF Conflict
  <2>. QED
    BY <1>4, <2>1, <2>2, <2>3 DEF Failure
<1>5. ASSUME NEW c \in Contents, Edit(c) PROVE UNCHANGED <<strays, retained>>
  BY <1>5 DEF Edit
<1>6. ASSUME NEW u \in Units, UnitChanges(u) PROVE UNCHANGED <<strays, retained>>
  BY <1>6 DEF UnitChanges, disk
<1>7. ASSUME NEW p \in Operators, Step(p) \/ Failure(p)
      PROVE  strays' = strays /\ (retained' = retained \/ Retain(p))
  BY <1>2, <1>3, <1>4, <1>7
<1>. QED
  BY <1>1, <1>5, <1>6, <1>7 DEF Next

(* A helper that displaced another config halts, in apply and in restore. *)
LEMMA RetainHalts ==
    ASSUME Inv1, NEW p \in Operators, Retain(p)
    PROVE  Halted'
<1>1. pc[p] = "retain" /\ Raise(p, TRUE) /\ pc[p] \in After
  BY AfterLabels DEF Retain, At
<1>2. rec \in Records
  BY <1>1 DEF Inv1, Held, HolderAt, After
<1>3. CASE restoring
  <2>1. /\ pc' = [pc EXCEPT ![p] = "save"]
        /\ rec' = [rec EXCEPT !.status = "recovery-required", !.recovery = TRUE]
    BY <1>1, <1>3 DEF Raise, Goto
  <2>2. pc'[p] = "save"
    BY <2>1 DEF Inv1, Control
  <2>3. rec' \in Records /\ rec'.status = "recovery-required" /\ rec'.recovery
    BY <1>2, <2>1 DEF Records, Statuses
  <2>4. Open(rec')
    BY <2>3, AbsentAssumption DEF Open
  <2>. QED
    BY <2>2, <2>3, <2>4 DEF Halted, Open
<1>4. CASE ~restoring
  <2>1. pc' = [pc EXCEPT ![p] = "handle"] /\ drift' = TRUE
    BY <1>1, <1>4 DEF Raise, Goto
  <2>2. pc'[p] = "handle"
    BY <2>1 DEF Inv1, Control
  <2>. QED
    BY <2>1, <2>2 DEF Halted
<1>. QED
  BY <1>3, <1>4

(* Where a halted helper can be, and what it may still do there. *)
Quiet == {"idle", "lock", "check", "capture", "rollback-check", "handle", "save"}

(* At a quiet label a helper takes the lock, refuses, or checks; or it       *)
(* handles its failure and saves the journal.                               *)
LEMMA QuietSteps ==
    ASSUME Reliable, NEW p \in Operators, pc[p] \in Quiet, Step(p) \/ Failure(p)
    PROVE  \/ Acquire(p) \/ Check(p) \/ Capture(p) \/ Handle(p) \/ RollbackCheck(p) \/ Save(p)
           \/ \E l \in {"lock", "check", "capture", "rollback-check"} : Refuses(p, l)
<1>1. CASE Step(p)
  <2>1. CASE Busy(p) \/ CheckRefused(p) \/ CaptureRefused(p) \/ RollbackRefused(p)
    BY <2>1 DEF Busy, CheckRefused, CaptureRefused, RollbackRefused
  <2>2. ~Archive(p) /\ ~Prepare(p) /\ ~Applied(p) /\ ~Verify(p) /\ ~VerifyFails(p)
    BY DEF Quiet, Archive, Prepare, Applied, Verify, VerifyFails, Objects, At
  <2>3. ~StopDaemon(p) /\ ~Start(p) /\ ~RestoreStop(p) /\ ~RestoreStart(p)
    BY DEF Quiet, StopDaemon, Start, RestoreStop, RestoreStart, Systemctl, At
  <2>4. ~Activate(p) /\ ~ActivateFails(p) /\ ~Ready(p) /\ ~ReadyFails(p)
    BY DEF Quiet, Activate, ActivateFails, Ready, ReadyFails, Moves, Objects, At
  <2>5. ~Exchange(p) /\ ~Compare(p) /\ ~Recheck(p) /\ ~Unlink(p) /\ ~Retain(p)
    BY DEF Quiet, Exchange, Compare, Recheck, Unlink, Retain, Moves, At
  <2>6. ~RestoreRead(p) /\ ~RestoreReadFails(p) /\ ~RestoreVerify(p) /\ ~RestoreVerifyFails(p)
    BY DEF Quiet, RestoreRead, RestoreReadFails, RestoreVerify, RestoreVerifyFails, Objects, At
  <2>. QED
    BY <1>1, <2>1, <2>2, <2>3, <2>4, <2>5, <2>6 DEF Step
<1>2. CASE Failure(p)
  <2>1. ~RetainFails(p) /\ ~Fails(p) /\ ~SyncFails(p) /\ ~Kill(p)
    BY DEF Reliable, RetainFails, Fails, SyncFails, Kill, Fault
  <2>2. ~SystemctlFails(p) /\ ~InterruptedExchange(p)
    BY DEF Quiet, SystemctlFails, InterruptedExchange, Calling, Starting, Restarting, At
  <2>3. CASE Conflict(p)
    BY <2>3 DEF Quiet, Conflict
  <2>. QED
    BY <1>2, <2>1, <2>2, <2>3 DEF Failure
<1>. QED
  BY <1>1, <1>2

(* Whoever does not hold the lock waits for it or is refused. *)
LEMMA OutsideSteps ==
    ASSUME Reliable, Inv1, NEW p \in Operators, lock # p, Step(p) \/ Failure(p)
    PROVE  /\ pc[p] = "lock"
           /\ \/ Acquire(p)
              \/ pc' = [pc EXCEPT ![p] = "idle"] /\ UNCHANGED <<lock, rec, drift, journal>>
<1>1. pc[p] \in {"idle", "lock"}
  BY DEF Inv1, Control
<1>2. \/ Acquire(p) \/ Check(p) \/ Capture(p) \/ Handle(p) \/ RollbackCheck(p) \/ Save(p)
      \/ \E l \in {"lock", "check", "capture", "rollback-check"} : Refuses(p, l)
  BY <1>1, QuietSteps DEF Quiet
<1>3. Acquire(p) \/ Refuses(p, "lock")
  BY <1>1, <1>2 DEF Check, Capture, Handle, RollbackCheck, Save, Refuses, At
<1>. QED
  BY <1>3 DEF Acquire, Refuses, At, Finish, locals

(* A helper that has met a drift stays halted until the journal says so. *)
LEMMA HolderStaysHalted ==
    ASSUME Reliable, Inv1, NEW p \in Operators, Step(p) \/ Failure(p), NEW q \in Operators,
           \/ pc[q] = "handle" /\ drift
           \/ pc[q] = "save" /\ Open(rec) /\ rec.recovery
    PROVE  Halted'
<1>0. pc[q] \in HeldLabels /\ lock = q /\ Nobody # q
  BY ProcessAssumption DEF HeldLabels, Uncaught, Inv1, Control
<1>1. HolderAt(pc[q]) /\ pc \in [Operators -> HeldLabels \cup {"idle", "lock"}]
  BY <1>0 DEF Inv1, Held, Control
<1>2. rec \in Records /\ drift \in BOOLEAN
  BY <1>1 DEF HolderAt, Early, Inv1, LocalsOK
<1>3. CASE p # q
  <2>1. pc'[q] = pc[q] /\ UNCHANGED <<rec, drift>>
    <3>1. pc' = [pc EXCEPT ![p] = "idle"] /\ UNCHANGED <<lock, rec, drift, journal>>
      BY <1>0, <1>3, OutsideSteps DEF Acquire
    <3>. QED
      BY <1>1, <1>3, <3>1
  <2>. QED
    BY <2>1 DEF Halted, Open
<1>4. CASE p = q
  <2>1. Handle(p) \/ Save(p)
    <3>1. \/ Acquire(p) \/ Check(p) \/ Capture(p) \/ Handle(p) \/ RollbackCheck(p) \/ Save(p)
          \/ \E l \in {"lock", "check", "capture", "rollback-check"} : Refuses(p, l)
      BY <1>4, QuietSteps DEF Quiet
    <3>. QED
      BY <1>4, <3>1 DEF Acquire, Check, Capture, RollbackCheck, Refuses, At
  <2>2. CASE Handle(p)
    <3>1. drift /\ pc' = [pc EXCEPT ![p] = "save"]
          /\ rec' = [rec EXCEPT !.status = "recovery-required", !.recovery = drift]
      BY <1>4, <2>2 DEF Handle, At, Goto
    <3>2. rec' \in Records /\ rec'.status = "recovery-required" /\ rec'.recovery = drift
      BY <1>2, <3>1 DEF Records, Statuses
    <3>3. pc'[p] = "save" /\ Open(rec')
      BY <1>1, <3>1, <3>2, AbsentAssumption DEF Open
    <3>. QED
      BY <3>1, <3>2, <3>3 DEF Halted, Open
  <2>3. CASE Save(p)
    <3>1. /\ pc[p] = "save" /\ journal' = rec /\ pc' = [pc EXCEPT ![p] = "idle"]
          /\ Open(rec) /\ rec.recovery
      BY <1>4, <2>3 DEF Save, At, Finish
    <3>2. ASSUME NEW r \in Operators PROVE pc'[r] \notin HeldLabels
      <4>1. "idle" \notin HeldLabels
        BY AfterLabels
      <4>2. CASE r = p
        BY <1>1, <3>1, <4>1, <4>2
      <4>3. CASE r # p
        BY <1>0, <1>1, <1>4, <3>1, <4>3 DEF Inv1, Control
      <4>. QED
        BY <4>2, <4>3
    <3>. QED
      BY <3>1, <3>2 DEF Halted, Open
  <2>. QED
    BY <2>1, <2>2, <2>3
<1>. QED
  BY <1>3, <1>4

(* With the drift on record, apply and rollback get as far as their checks.  *)
LEMMA RecordStaysHalted ==
    ASSUME Reliable, Inv1, NEW p \in Operators, Step(p) \/ Failure(p),
           Open(journal), journal.recovery,
           \A q \in Operators : pc[q] \in HeldLabels => pc[q] \in {"check", "capture", "rollback-check"}
    PROVE  Halted'
<1>0. pc \in [Operators -> HeldLabels \cup {"idle", "lock"}] /\ journal.status \notin {"rolled-back", "failed-restored"}
  BY DEF Inv1, Control, Open
<1>1. pc[p] \in Quiet
  BY <1>0 DEF Quiet
<1>2. /\ journal' = journal
      /\ \E l \in {"idle", "check", "capture", "rollback-check"} : pc' = [pc EXCEPT ![p] = l]
  <2>1. \/ Acquire(p) \/ Check(p) \/ Capture(p) \/ Handle(p) \/ RollbackCheck(p) \/ Save(p)
        \/ \E l \in {"lock", "check", "capture", "rollback-check"} : Refuses(p, l)
    BY <1>1, QuietSteps
  <2>2. ~Handle(p) /\ ~Save(p)
    BY AfterLabels DEF Handle, Save, At
  <2>3. ~Capture(p)
    BY <1>0 DEF Capture, Closed, Open
  <2>4. ~RollbackCheck(p)
    BY DEF RollbackCheck, Accepts
  <2>5. CASE Acquire(p) \/ Check(p)
    BY <2>5 DEF Acquire, Check, Goto
  <2>6. CASE \E l \in {"lock", "check", "capture", "rollback-check"} : Refuses(p, l)
    BY <2>6 DEF Refuses, Finish
  <2>. QED
    BY <2>1, <2>2, <2>3, <2>4, <2>5, <2>6
<1>3. ASSUME NEW q \in Operators, pc'[q] \in HeldLabels PROVE pc'[q] \in {"check", "capture", "rollback-check"}
  <2>1. CASE q = p
    BY <1>0, <1>2, <1>3, <2>1, AfterLabels
  <2>2. CASE q # p
    BY <1>0, <1>2, <1>3, <2>2
  <2>. QED
    BY <2>1, <2>2
<1>. QED
  BY <1>2, <1>3 DEF Halted, Open

(* A halt is never undone. *)
LEMMA StaysHalted ==
    ASSUME Reliable, Inv1, Halted, Next
    PROVE  Halted'
<1>1. ASSUME NEW p \in Operators, NEW c \in Commands, Invoke(p, c) PROVE Halted'
  <2>1. pc[p] = "idle" /\ pc' = [pc EXCEPT ![p] = "lock"] /\ UNCHANGED <<journal, rec, drift>>
    BY <1>1 DEF Invoke, At, Goto, locals
  <2>2. ASSUME NEW q \in Operators PROVE pc'[q] = IF q = p THEN "lock" ELSE pc[q]
    BY <2>1 DEF Inv1, Control
  <2>3. ASSUME NEW q \in Operators, pc[q] \in HeldLabels PROVE pc'[q] = pc[q]
    BY <2>1, <2>2, <2>3, AfterLabels
  <2>4. ASSUME NEW q \in Operators, pc'[q] \in HeldLabels PROVE pc'[q] = pc[q]
    BY <2>1, <2>2, <2>4, AfterLabels
  <2>5. "handle" \in HeldLabels /\ "save" \in HeldLabels
    BY DEF HeldLabels, Uncaught
  <2>. QED
    BY <2>1, <2>3, <2>4, <2>5 DEF Halted, Open
<1>2. ASSUME NEW p \in Operators, Step(p) \/ Failure(p) PROVE Halted'
  BY <1>2, HolderStaysHalted, RecordStaysHalted DEF Halted
<1>3. ASSUME NEW c \in Contents, Edit(c) PROVE Halted'
  BY <1>3 DEF Edit, Halted, Open, locals
<1>4. ASSUME NEW u \in Units, UnitChanges(u) PROVE Halted'
  BY <1>4 DEF UnitChanges, Halted, Open, locals
<1>. QED
  BY <1>1, <1>2, <1>3, <1>4 DEF Next

(* In every state the helper that displaced a config has stopped. *)
THEOREM ThirdLayer ==
    ASSUME Reliable
    PROVE  Spec => []Inv3
<1>1. Init => Inv3
  BY DEF Init, Inv3
<1>2. ASSUME Inv1, Inv3, Next PROVE Inv3'
  <2>1. strays' = {} /\ (retained' = retained \/ \E p \in Operators : Retain(p))
    BY <1>2, OnlyRetainRetains DEF Inv3
  <2>2. CASE \E p \in Operators : Retain(p)
    BY <1>2, <2>1, <2>2, RetainHalts DEF Inv3
  <2>3. CASE retained' = retained
    BY <1>2, <2>1, <2>3, StaysHalted DEF Inv3
  <2>. QED
    BY <2>1, <2>2, <2>3
<1>3. ASSUME Inv3, UNCHANGED vars PROVE Inv3'
  BY <1>3 DEF Inv3, Halted, Open, vars, disk, locals
<1>4. Inv1 /\ Inv3 /\ [Next]_vars => Inv3'
  BY <1>2, <1>3
<1>. QED
  BY <1>1, <1>4, FirstLayer, PTL DEF Spec

(* A halted helper starts nothing: the daemon starts only in the steps that  *)
(* call systemctl.                                                           *)
LEMMA HaltedStartsNothing ==
    ASSUME Reliable, Inv1, Halted, Next, UNCHANGED faults
    PROVE  units' = units
<1>0. faults \in Nat
  BY DEF Inv1, DiskOK
<1>1. ASSUME NEW kind PROVE ~Fault(kind)
  <2>1. faults + 1 # faults
    BY <1>0
  <2>. QED
    BY <2>1 DEF Fault
<1>2. ASSUME NEW p \in Operators, NEW c \in Commands, Invoke(p, c) PROVE units' = units
  BY <1>2 DEF Invoke
<1>3. ASSUME NEW p \in Operators, Step(p) \/ Failure(p) PROVE units' = units
  <2>1. pc[p] \in Quiet
    <3>1. pc[p] \in HeldLabels \cup {"idle", "lock"}
      BY DEF Inv1, Control
    <3>2. CASE pc[p] \in {"idle", "lock"}
      BY <3>2 DEF Quiet
    <3>3. CASE pc[p] \in HeldLabels
      <4>1. "handle" \in HeldLabels /\ "save" \in HeldLabels
        BY DEF HeldLabels, Uncaught
      <4>2. \A q \in Operators : pc[q] \in HeldLabels => q = p
        BY <3>3 DEF Inv1, Control
      <4>. QED
        BY <3>3, <4>1, <4>2 DEF Halted, Quiet
    <3>. QED
      BY <3>1, <3>2, <3>3
  <2>2. \/ Acquire(p) \/ Check(p) \/ Capture(p) \/ Handle(p) \/ RollbackCheck(p) \/ Save(p)
        \/ \E l \in {"lock", "check", "capture", "rollback-check"} : Refuses(p, l)
    BY <1>3, <2>1, QuietSteps
  <2>. QED
    BY <2>2 DEF Acquire, Check, Capture, Handle, RollbackCheck, Save, Refuses
<1>4. ASSUME NEW c \in Contents, Edit(c) PROVE units' = units
  BY <1>4 DEF Edit
<1>5. ASSUME NEW u \in Units PROVE ~UnitChanges(u)
  BY <1>1 DEF UnitChanges
<1>. QED
  BY <1>2, <1>3, <1>4, <1>5 DEF Next

(* Once an edit of root was displaced, no helper starts the daemon on another *)
(* config, if files can be moved and written: the drift is in the journal or  *)
(* on its way there, where neither apply nor rollback gets past its checks.   *)
THEOREM DriftStopsTheDaemon ==
    ASSUME Reliable
    PROVE  Spec => DaemonStopsOnDrift
<1>1. ASSUME Inv1, Inv3, [Next]_vars, ~units["opensnitch"], units'["opensnitch"], UNCHANGED faults
      PROVE  ~Displaced
  <2>1. SUFFICES ASSUME Displaced PROVE FALSE
    OBVIOUS
  <2>2. retained # {} /\ Halted
    BY <1>1, <2>1 DEF Displaced, Inv3
  <2>3. units' # units
    BY <1>1
  <2>4. Next
    BY <1>1, <2>3 DEF vars
  <2>. QED
    BY <1>1, <2>2, <2>3, <2>4, HaltedStartsNothing
<1>2. Inv1 /\ Inv3 /\ [Next]_vars
      => [~units["opensnitch"] /\ units'["opensnitch"] /\ UNCHANGED faults => ~Displaced]_vars
  BY <1>1
<1>. QED
  BY <1>2, FirstLayer, ThirdLayer, PTL DEF Spec, DaemonStopsOnDrift

=============================================================================
