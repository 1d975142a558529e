----------------------------- MODULE Migration -----------------------------
(***************************************************************************)
(* The migration to the system bridge: the helper                          *)
(* usr/libexec/bazzite-tower-snitchwatch-migrate records the live config    *)
(* and the state of four units in a journal, stops the daemon, exchanges    *)
(* the config and starts the bridge; when a step fails, or root asks for a  *)
(* rollback, it restores both.  Root may edit the config at any moment      *)
(* without taking the lock.                                                *)
(***************************************************************************)
EXTENDS Naturals, FiniteSets

CONSTANTS
    Operators,        \* shells in which root runs the helper
    Nobody,           \* the policy lock is free
    Legacies,         \* config files that equal the legacy reference as JSON
    System,           \* the config apply writes
    Foreign,          \* any other config: bytes, owner, mode or label differ
    NoFile,           \* no such file
    NoRecord,         \* no current.json
    Faults,           \* the kinds of failure that may happen
    MaxFaults,        \* bound: failures and edits in a behaviour
    MaxTransactions   \* bound: transactions in a behaviour

FaultKinds == {"kill", "interrupt", "io", "retain", "systemctl", "conflict", "unit", "edit"}

ASSUME BoundsAssumption ==
    MaxFaults \in Nat /\ MaxTransactions \in Nat /\ Faults \subseteq FaultKinds

ASSUME ProcessAssumption == Nobody \notin Operators

Contents == Legacies \cup {System} \cup Foreign

ASSUME ContentsAssumption ==
    /\ System \notin Legacies \cup Foreign /\ Legacies \cap Foreign = {}
    /\ NoFile \notin Contents

(* The two sockets count as one unit. *)
Units == {"sockets", "bridge", "opensnitch"}

Statuses == {"prepared", "applied", "failed-restored", "rolled-back", "recovery-required"}

(* current.json; base says which units were active.  recovery: recoveryFile *)
(* is set.                                                                 *)
Records == [id : 1..MaxTransactions, status : Statuses, original : Contents,
            base : [Units -> BOOLEAN], recovery : BOOLEAN]

ASSUME AbsentAssumption == NoRecord \notin Records

VARIABLES
    config,      \* /etc/opensnitchd/default-config.json
    journal,     \* current.json
    archive,     \* ids of the archived records
    retained,    \* displaced configs in the journal directory
    strays,      \* displaced configs left behind under a temporary name
    units,       \* which units are active
    lock,        \* holder of the policy lock
    pc,          \* where each process is
    cmd,         \* which command each process runs
    rec,         \* locals of the holder: the record,
    want,        \*   the config it expects to displace,
    temp,        \*   the config it displaced, under a temporary name,
    restoring,   \*   whether it is in restore,
    drift,       \*   whether PublicationDrift was raised
    last,        \* the config root last put in place by itself
    started,     \* transactions so far
    faults       \* failures so far

disk   == <<config, archive, retained, strays>>
locals == <<rec, want, temp, restoring, drift>>
vars   == <<disk, journal, units, lock, pc, cmd, locals, last, started, faults>>

----------------------------------------------------------------------------
(* What the files say. *)

Open(j) == j # NoRecord /\ j.status \in {"prepared", "applied", "recovery-required"}

Closed(j) == j # NoRecord /\ j.status \in {"rolled-back", "failed-restored"}

(* The digests a transaction knows. *)
Known(r) == {r.original, System}

(* What conditional_config_write publishes. *)
Published == IF restoring THEN rec.original ELSE System

----------------------------------------------------------------------------
(* Building blocks of the actions. *)

Fault(kind) ==
    /\ kind \in Faults /\ faults < MaxFaults
    /\ faults' = faults + 1

At(p, label) == pc[p] = label

Goto(p, label) == pc' = [pc EXCEPT ![p] = label]

(* A process ends; a temporary file that is still there stays. *)
Finish(p) ==
    /\ pc' = [pc EXCEPT ![p] = "idle"]
    /\ cmd' = [cmd EXCEPT ![p] = "none"]
    /\ IF lock = p
       THEN /\ lock' = Nobody
            /\ rec' = NoRecord /\ want' = NoFile /\ temp' = NoFile
            /\ restoring' = FALSE /\ drift' = FALSE
            /\ strays' = strays \cup ({temp} \ {NoFile})
       ELSE UNCHANGED <<lock, locals, strays>>

(* An exception leaves the try of apply, or restore: then the journal is to *)
(* say recovery-required.                                                  *)
Raise(p, drifted) ==
    /\ drift' = drifted
    /\ IF restoring
       THEN /\ Goto(p, "save")
            /\ rec' = [rec EXCEPT !.status = "recovery-required", !.recovery = drifted]
       ELSE Goto(p, "handle") /\ UNCHANGED rec

(* A step of the holder that changes nothing but its place. *)
Moves(p, from, to) ==
    /\ At(p, from) /\ Goto(p, to)
    /\ UNCHANGED <<disk, journal, units, lock, cmd, locals, last, started, faults>>

(* A step that finds something wrong. *)
Objects(p, from) ==
    /\ At(p, from) /\ Raise(p, drift)
    /\ UNCHANGED <<disk, journal, units, lock, cmd, want, temp, restoring, last, started, faults>>

Refuses(p, from) ==
    /\ At(p, from) /\ Finish(p)
    /\ UNCHANGED <<config, archive, retained, journal, units, last, started>>

(* The calls of systemctl: which units each one names, and the aim. *)
Starting == {"start-sockets", "start-bridge", "start-daemon"}
Restarting == {"restore-sockets", "restore-bridge", "restore-daemon"}
Calling == {"stop", "restore-stop"} \cup Starting \cup Restarting

Named(label) ==
    CASE label \in {"stop", "start-daemon", "restore-daemon"} -> {"opensnitch"}
      [] label \in {"start-sockets", "restore-sockets"}       -> {"sockets"}
      [] label \in {"start-bridge", "restore-bridge"}         -> {"bridge"}
      [] label = "restore-stop"                               -> Units

(* restore starts only what the baseline has active. *)
Target(label) ==
    IF label \in Restarting THEN {u \in Named(label) : rec.base[u]} ELSE Named(label)

Reach(label, which) ==
    units' = [u \in Units |-> IF u \in which THEN label \in Starting \cup Restarting ELSE units[u]]

Systemctl(p, from, to) ==
    /\ At(p, from) /\ Goto(p, to)
    /\ Reach(from, Target(from))
    /\ UNCHANGED <<disk, journal, lock, cmd, locals, last, started, faults>>

----------------------------------------------------------------------------
(* The policy lock, LOCK_NB. *)

Invoke(p, c) ==
    /\ At(p, "idle") /\ Goto(p, "lock")
    /\ cmd' = [cmd EXCEPT ![p] = c]
    /\ UNCHANGED <<disk, journal, units, lock, locals, last, started, faults>>

Acquire(p) ==
    /\ At(p, "lock") /\ lock = Nobody
    /\ lock' = p
    /\ Goto(p, IF cmd[p] = "apply" THEN "check" ELSE "rollback-check")
    /\ UNCHANGED <<disk, journal, units, cmd, locals, last, started, faults>>

Busy(p) == lock # Nobody /\ Refuses(p, "lock") /\ UNCHANGED faults

----------------------------------------------------------------------------
(* apply *)

(* check accepts the legacy and the system config; apply the legacy one. *)
CheckRefused(p) ==
    /\ config \notin Legacies \/ started = MaxTransactions
    /\ Refuses(p, "check") /\ UNCHANGED faults

(* check: the units as they are now are the baseline. *)
Check(p) ==
    /\ At(p, "check") /\ Goto(p, "capture")
    /\ config \in Legacies /\ started < MaxTransactions
    /\ rec' = [id |-> started + 1, status |-> "prepared", original |-> config,
               base |-> units, recovery |-> FALSE]
    /\ UNCHANGED <<disk, journal, units, lock, cmd, want, temp, restoring, drift, last, started, faults>>

CaptureRefused(p) ==
    /\ config \notin Legacies \/ Open(journal) \/ (Closed(journal) /\ journal.id \in archive)
    /\ Refuses(p, "capture") /\ UNCHANGED faults

(* The baseline is the bytes as they are now. *)
Capture(p) ==
    /\ At(p, "capture") /\ Goto(p, IF journal = NoRecord THEN "prepare" ELSE "archive")
    /\ config \in Legacies
    /\ journal = NoRecord \/ (Closed(journal) /\ journal.id \notin archive)
    /\ rec' = [rec EXCEPT !.original = config]
    /\ UNCHANGED <<disk, journal, units, lock, cmd, want, temp, restoring, drift, last, started, faults>>

Archive(p) ==
    /\ At(p, "archive") /\ Goto(p, "prepare")
    /\ archive' = archive \cup {journal.id}
    /\ UNCHANGED <<config, retained, strays, journal, units, lock, cmd, locals, last, started, faults>>

(* Mutant: the journal is left for later. *)
PrepareLater(p) ==
    /\ At(p, "prepare") /\ Goto(p, "stop")
    /\ started' = started + 1
    /\ UNCHANGED <<disk, journal, units, lock, cmd, locals, last, faults>>

Prepare(p) ==
    /\ At(p, "prepare") /\ Goto(p, "stop")
    /\ journal' = rec /\ started' = started + 1
    /\ UNCHANGED <<disk, units, lock, cmd, locals, last, faults>>

StopDaemon(p) == Systemctl(p, "stop", "verify")

Verify(p) ==
    /\ At(p, "verify") /\ config = rec.original
    /\ Goto(p, "exchange")
    /\ want' = rec.original
    /\ UNCHANGED <<disk, journal, units, lock, cmd, rec, temp, restoring, drift, last, started, faults>>

VerifyFails(p) == Objects(p, "verify") /\ config # rec.original

(* Line 237: the published config is still there. *)
Activate(p) == config = System /\ Moves(p, "activate", "start-sockets")

ActivateFails(p) == config # System /\ Objects(p, "activate")

Start(p) ==
    \/ Systemctl(p, "start-sockets", "start-bridge")
    \/ Systemctl(p, "start-bridge", "start-daemon")
    \/ Systemctl(p, "start-daemon", "ready")

(* runtime_readiness, as far as config and units go; another writer's config *)
(* may pass it.                                                            *)
Ready(p) ==
    /\ config \notin Legacies /\ \A u \in Units : units[u]
    /\ Moves(p, "ready", "applied")

ReadyFails(p) ==
    /\ config # System \/ \E u \in Units : ~units[u]
    /\ Objects(p, "ready")

(* Mutant: a status nobody knows. *)
AppliedUnknown(p) ==
    /\ At(p, "applied")
    /\ journal' = [rec EXCEPT !.status = "complete"]
    /\ Finish(p)
    /\ UNCHANGED <<config, archive, retained, units, last, started, faults>>

Applied(p) ==
    /\ At(p, "applied")
    /\ journal' = [rec EXCEPT !.status = "applied"]
    /\ Finish(p)
    /\ UNCHANGED <<config, archive, retained, units, last, started, faults>>

(* Mutant: restore whatever went wrong. *)
HandleAlways(p) ==
    /\ At(p, "handle")
    /\ config \in Known(rec)
    /\ Goto(p, "restore-stop") /\ restoring' = TRUE
    /\ UNCHANGED <<disk, journal, units, lock, cmd, rec, want, temp, drift, last, started, faults>>

(* The except of apply: restore, unless another config was displaced or is  *)
(* live.                                                                   *)
Handle(p) ==
    /\ At(p, "handle")
    /\ IF ~drift /\ config \in Known(rec)
       THEN /\ Goto(p, "restore-stop") /\ restoring' = TRUE
            /\ UNCHANGED rec
       ELSE /\ Goto(p, "save")
            /\ rec' = [rec EXCEPT !.status = "recovery-required", !.recovery = drift]
            /\ UNCHANGED restoring
    /\ UNCHANGED <<disk, journal, units, lock, cmd, want, temp, drift, last, started, faults>>

----------------------------------------------------------------------------
(* conditional_config_write *)

(* Mutant: an ordinary rename. *)
ExchangeOverwrites(p) ==
    /\ At(p, "exchange") /\ Goto(p, "compare")
    /\ temp' = want /\ config' = Published
    /\ UNCHANGED <<archive, retained, strays, journal, units, lock, cmd, rec, want, restoring,
                   drift, last, started, faults>>

Exchange(p) ==
    /\ At(p, "exchange") /\ Goto(p, "compare")
    /\ temp' = config /\ config' = Published
    /\ UNCHANGED <<archive, retained, strays, journal, units, lock, cmd, rec, want, restoring,
                   drift, last, started, faults>>

Compare(p) == Moves(p, "compare", IF temp = want THEN "recheck" ELSE "retain")

(* An edit right after the exchange. *)
Recheck(p) == Moves(p, "recheck", IF config = Published THEN "unlink" ELSE "retain")

Unlink(p) ==
    /\ At(p, "unlink") /\ Goto(p, IF restoring THEN "restore-sockets" ELSE "activate")
    /\ temp' = NoFile
    /\ UNCHANGED <<disk, journal, units, lock, cmd, rec, want, restoring, drift, last, started, faults>>

(* The displaced file moves to the journal directory: PublicationDrift. *)
Retain(p) ==
    /\ At(p, "retain") /\ Raise(p, TRUE)
    /\ retained' = retained \cup {temp} /\ temp' = NoFile
    /\ UNCHANGED <<config, archive, strays, journal, units, lock, cmd, want, restoring, last, started, faults>>

(* It cannot be moved (another file system), or was moved and the directory *)
(* cannot be synced: an OSError like any other.                            *)
RetainFails(p) ==
    /\ At(p, "retain") /\ Fault("retain") /\ Raise(p, FALSE)
    /\ temp' = NoFile
    /\ \/ strays' = strays \cup {temp} /\ UNCHANGED retained
       \/ retained' = retained \cup {temp} /\ UNCHANGED strays
    /\ UNCHANGED <<config, archive, journal, units, lock, cmd, want, restoring, last, started>>

----------------------------------------------------------------------------
(* restore and rollback *)

(* Mutant: only a completed migration is rolled back. *)
AcceptsApplied(j) ==
    Open(j) /\ j.status = "applied" /\ ~j.recovery /\ config \in Known(j)

(* What rollback requires of the journal and the live config. *)
Accepts(j) == Open(j) /\ ~j.recovery /\ config \in Known(j)

RollbackRefused(p) ==
    ~Accepts(journal) /\ Refuses(p, "rollback-check") /\ UNCHANGED faults

RollbackCheck(p) ==
    /\ At(p, "rollback-check") /\ Goto(p, "restore-stop")
    /\ Accepts(journal)
    /\ rec' = journal /\ restoring' = TRUE
    /\ UNCHANGED <<disk, journal, units, lock, cmd, want, temp, drift, last, started, faults>>

RestoreStop(p) == Systemctl(p, "restore-stop", "restore-read")

RestoreRead(p) ==
    /\ At(p, "restore-read") /\ config \in Known(rec)
    /\ Goto(p, "exchange")
    /\ want' = config
    /\ UNCHANGED <<disk, journal, units, lock, cmd, rec, temp, restoring, drift, last, started, faults>>

RestoreReadFails(p) == Objects(p, "restore-read") /\ config \notin Known(rec)

(* Sockets, bridge, daemon, as far as the baseline has them active. *)
RestoreStart(p) ==
    \/ Systemctl(p, "restore-sockets", "restore-bridge")
    \/ Systemctl(p, "restore-bridge", "restore-daemon")
    \/ Systemctl(p, "restore-daemon", "restore-verify")

RestoreVerify(p) ==
    /\ At(p, "restore-verify") /\ units = rec.base
    /\ Goto(p, "save")
    /\ rec' = [rec EXCEPT !.status = IF cmd[p] = "apply" THEN "failed-restored" ELSE "rolled-back"]
    /\ UNCHANGED <<disk, journal, units, lock, cmd, want, temp, restoring, drift, last, started, faults>>

RestoreVerifyFails(p) == Objects(p, "restore-verify") /\ units # rec.base

Save(p) ==
    /\ At(p, "save")
    /\ journal' = rec
    /\ Finish(p)
    /\ UNCHANGED <<config, archive, retained, units, last, started, faults>>

----------------------------------------------------------------------------
(* Failures *)

(* Where an exception is caught, and where it leaves the helper. *)
Caught == {"verify", "exchange", "activate", "ready", "applied", "restore-read",
           "restore-verify"} \cup Calling
Exchanged == {"compare", "recheck", "unlink"}
Uncaught == {"check", "capture", "archive", "prepare", "handle", "rollback-check", "save"}

(* systemctl fails or times out, whatever it has done until then. *)
SystemctlFails(p) ==
    /\ pc[p] \in Calling
    /\ Fault("systemctl") /\ Raise(p, drift)
    /\ \E done \in SUBSET Target(pc[p]) : Reach(pc[p], done)
    /\ UNCHANGED <<disk, journal, lock, cmd, want, temp, restoring, last, started>>

(* Another check refuses: a legacy bridge, an override, changed enablement, *)
(* a unit in transition, an account or listener that is not ready.          *)
Conflict(p) ==
    /\ Fault("conflict")
    /\ \/ \E l \in {"check", "capture", "rollback-check"} : Refuses(p, l)
       \/ /\ pc[p] \in {"verify", "ready", "restore-verify"} /\ Raise(p, drift)
          /\ UNCHANGED <<disk, journal, units, lock, cmd, want, temp, restoring, last, started>>

(* An I/O error or SIGINT.  Once exchanged, the finally of the write retains *)
(* the displaced file.                                                     *)
Fails(p) ==
    /\ Fault("io")
    /\ \/ /\ pc[p] \in Caught /\ Raise(p, drift)
          /\ UNCHANGED <<disk, journal, units, lock, cmd, want, temp, restoring, last, started>>
       \/ /\ pc[p] \in Exchanged /\ Goto(p, "retain")
          /\ UNCHANGED <<disk, journal, units, lock, cmd, locals, last, started>>
       \/ \E l \in Uncaught : Refuses(p, l)

(* A file is written or removed, and then the directory cannot be synced.   *)
SyncFails(p) ==
    /\ Fault("io")
    /\ \/ /\ At(p, "prepare") /\ Finish(p)
          /\ journal' = rec /\ started' = started + 1
          /\ UNCHANGED <<config, archive, retained, units, last>>
       \/ /\ At(p, "applied") /\ Raise(p, drift)
          /\ journal' = [rec EXCEPT !.status = "applied"]
          /\ UNCHANGED <<disk, units, lock, cmd, want, temp, restoring, last, started>>
       \/ /\ At(p, "unlink") /\ Raise(p, drift)
          /\ temp' = NoFile
          /\ UNCHANGED <<disk, journal, units, lock, cmd, want, restoring, last, started>>

(* SIGINT after renameat2 returned and before exchanged is set: the finally *)
(* unlinks the file it displaced.                                          *)
InterruptedExchange(p) ==
    /\ At(p, "exchange") /\ Fault("interrupt") /\ Raise(p, drift)
    /\ config' = Published
    /\ UNCHANGED <<archive, retained, strays, journal, units, lock, cmd, want, temp, restoring, last, started>>

(* SIGKILL, SIGTERM, power loss. *)
Kill(p) ==
    /\ ~At(p, "idle") /\ Fault("kill") /\ Finish(p)
    /\ UNCHANGED <<config, archive, retained, journal, units, last, started>>

(* Root edits the config without the lock. *)
Edit(c) ==
    /\ Fault("edit") /\ c # config
    /\ config' = c /\ last' = c
    /\ UNCHANGED <<archive, retained, strays, journal, units, lock, pc, cmd, locals, started>>

(* A unit dies, or somebody starts or stops it. *)
UnitChanges(u) ==
    /\ Fault("unit")
    /\ units' = [units EXCEPT ![u] = ~units[u]]
    /\ UNCHANGED <<disk, journal, lock, pc, cmd, locals, last, started>>

----------------------------------------------------------------------------
Init ==
    /\ config \in Legacies /\ last = config
    /\ journal = NoRecord /\ archive = {} /\ retained = {} /\ strays = {}
    /\ units \in [Units -> BOOLEAN]
    /\ lock = Nobody
    /\ pc = [p \in Operators |-> "idle"] /\ cmd = [p \in Operators |-> "none"]
    /\ rec = NoRecord /\ want = NoFile /\ temp = NoFile /\ restoring = FALSE /\ drift = FALSE
    /\ started = 0 /\ faults = 0

Step(p) ==
    \/ Acquire(p) \/ Busy(p)
    \/ CheckRefused(p) \/ Check(p) \/ CaptureRefused(p) \/ Capture(p) \/ Archive(p) \/ Prepare(p)
    \/ StopDaemon(p) \/ Verify(p) \/ VerifyFails(p) \/ Activate(p) \/ ActivateFails(p)
    \/ Start(p) \/ Ready(p) \/ ReadyFails(p) \/ Applied(p) \/ Handle(p)
    \/ Exchange(p) \/ Compare(p) \/ Recheck(p) \/ Unlink(p) \/ Retain(p)
    \/ RollbackRefused(p) \/ RollbackCheck(p)
    \/ RestoreStop(p) \/ RestoreRead(p) \/ RestoreReadFails(p) \/ RestoreStart(p)
    \/ RestoreVerify(p) \/ RestoreVerifyFails(p) \/ Save(p)

Failure(p) ==
    \/ RetainFails(p) \/ SystemctlFails(p) \/ Conflict(p) \/ Fails(p)
    \/ SyncFails(p) \/ InterruptedExchange(p) \/ Kill(p)

Commands == {"apply", "rollback"}

Next ==
    \/ \E p \in Operators, c \in Commands : Invoke(p, c)
    \/ \E p \in Operators : Step(p) \/ Failure(p)
    \/ \E c \in Contents : Edit(c)
    \/ \E u \in Units : UnitChanges(u)

Spec == Init /\ [][Next]_vars

(* A started command runs on: every call it makes has a timeout. *)
FairSpec == Spec /\ \A p \in Operators : WF_vars(Step(p))

----------------------------------------------------------------------------
(* Properties *)

HeldLabels == Caught \cup Exchanged \cup Uncaught \cup {"retain"}

(* Every variable has its type. *)
TypeOK ==
    /\ config \in Contents /\ last \in Contents
    /\ journal \in Records \cup {NoRecord} /\ archive \subseteq 1..MaxTransactions
    /\ retained \subseteq Contents /\ strays \subseteq Contents
    /\ units \in [Units -> BOOLEAN]
    /\ lock \in Operators \cup {Nobody}
    /\ pc \in [Operators -> HeldLabels \cup {"idle", "lock"}]
    /\ cmd \in [Operators -> Commands \cup {"none"}]
    /\ rec \in Records \cup {NoRecord}
    /\ want \in Contents \cup {NoFile} /\ temp \in Contents \cup {NoFile}
    /\ restoring \in BOOLEAN /\ drift \in BOOLEAN
    /\ started \in 0..MaxTransactions /\ faults \in 0..MaxFaults

(* The config root last put in place is never destroyed, whatever fails and  *)
(* whenever it was written: it is live, or an open journal holds it as the  *)
(* baseline, or the exchange displaced it into a file that is kept.         *)
OperatorConfigSurvives ==
    \/ last \in {config, temp, System} \cup retained \cup strays
    \/ Open(journal) /\ journal.original = last

(* The system config the helper wrote is never live without an open journal *)
(* from which rollback can restore the baseline.                           *)
SystemIsJournaled ==
    config = System /\ last # System => Open(journal)

(* Root's latest config was displaced, and is kept beside the live one. *)
Displaced ==
    /\ last # System /\ last # config /\ last \in retained \cup strays
    /\ Open(journal) /\ journal.original # last

(* Once an edit of root was displaced, the helper does not start the daemon  *)
(* on another config: it stays stopped for manual recovery.                 *)
DaemonStopsOnDrift ==
    [][~units["opensnitch"] /\ units'["opensnitch"] /\ UNCHANGED faults => ~Displaced]_vars

(* A transaction is open and neither it nor the config asks for manual work. *)
Resumable == Open(journal) /\ ~journal.recovery /\ config \in Known(journal)

(* Nothing that fails half way makes rollback impossible: if root retries    *)
(* often enough, an open transaction does not stay so: it is closed, or a   *)
(* drift was met that root has to resolve by hand.                         *)
RollbackCompletes ==
    []<>(\E p \in Operators : At(p, "rollback-check")) => (Resumable ~> ~Resumable)

=============================================================================
