-------------------------- MODULE DenyTrialProofs --------------------------
(***************************************************************************)
(* Proofs about the deny trial, for every value of the constants.  Three    *)
(* layers: who is where and holds the lock (Control), what the variables    *)
(* and the holder's locals are (TypeOK, LocalsInv), and what the holder may *)
(* rely on (HolderInv, StaleInv and the safety properties).                 *)
(***************************************************************************)
EXTENDS DenyTrial, TLAPS

Labels == LockedLabels \cup {"idle", "lock", "lock-bad", "look"}

AllCommands == Commands \cup {"none", "boot"}

Control ==
    /\ pc \in [Procs -> Labels] /\ cmd \in [Procs -> AllCommands]
    /\ lock \in Procs \cup {Nobody}
    /\ guard \in {"inactive", "running", "active", "failed"}
    /\ LockInv

(* The holder goes on inside its critical section. *)
LEMMA DoesControl ==
    ASSUME Control, NEW p \in Procs, NEW from, NEW to \in LockedLabels, Does(p, from, to),
           from \in LockedLabels,
           p = Guard => to \in GuardLabels,
           to \in GuardOnly => p = Guard
    PROVE  Control'
<1>1. pc' \in [Procs -> Labels] /\ UNCHANGED <<cmd, lock, guard>>
  BY DEF Does, Goto, Control, Labels, units
<1>2. pc[p] = from /\ pc'[p] = to /\ \A q \in Procs \ {p} : pc'[q] = pc[q]
  BY DEF Does, Goto, At, Control
<1>3. Guard \in Procs
  BY DEF Procs
<1>4. "idle" \notin LockedLabels
  BY DEF LockedLabels, OnLabels, OnTry, ConfirmLabels, RestoreLabels, QuarantineLabels
<1>5. LockInv'
  BY <1>1, <1>2, <1>3, <1>4 DEF LockInv, Control
<1>. QED
  BY <1>1, <1>5 DEF Control

(* A process ends, holding the lock or not. *)
LEMMA FinishControl ==
    ASSUME Control, NEW p \in Procs, NEW ok, Finish(p, ok)
    PROVE  Control'
<1>1. "idle" \notin LockedLabels /\ "idle" \notin GuardOnly /\ "idle" \in GuardLabels /\ "idle" \in Labels
  BY DEF LockedLabels, OnLabels, OnTry, ConfirmLabels, RestoreLabels, QuarantineLabels,
         GuardOnly, GuardLabels, Labels
<1>2. /\ pc' \in [Procs -> Labels] /\ cmd' \in [Procs -> AllCommands]
      /\ pc'[p] = "idle" /\ cmd'[p] = "none"
      /\ \A q \in Procs \ {p} : pc'[q] = pc[q] /\ cmd'[q] = cmd[q]
  BY <1>1 DEF Finish, Control, AllCommands
<1>3. /\ lock' = IF lock = p THEN Nobody ELSE lock
      /\ guard' = IF p = Guard THEN IF ok THEN "active" ELSE "failed" ELSE guard
  BY DEF Finish
<1>4. Guard \in Procs /\ Nobody \notin Procs
  BY ProcessAssumption DEF Procs
<1>5. LockInv'
  BY <1>1, <1>2, <1>3, <1>4 DEF LockInv, Control
<1>. QED
  BY <1>2, <1>3, <1>5 DEF Control

(* A start job is queued by a process that stays on its side of the lock. *)
LEMMA StartJobControl ==
    ASSUME Control, NEW procs \in [Procs -> Labels], StartJob(procs), UNCHANGED lock,
           \A q \in Procs : procs[q] \in LockedLabels <=> lock = q,
           \A q \in Procs : procs[q] \in GuardOnly => q = Guard,
           procs[Guard] = pc[Guard]
    PROVE  Control'
<1>1. "look" \notin LockedLabels /\ "look" \in Labels /\ "look" \in GuardOnly /\ "look" \in GuardLabels
  BY DEF LockedLabels, OnLabels, OnTry, ConfirmLabels, RestoreLabels, QuarantineLabels,
         GuardOnly, GuardLabels, Labels
<1>2. Guard \in Procs
  BY DEF Procs
<1>3. CASE GuardWanted
  <2>1. /\ guard' = "running" /\ pc' \in [Procs -> Labels] /\ cmd' \in [Procs -> AllCommands]
        /\ pc'[Guard] = "look" /\ cmd'[Guard] = "boot"
        /\ \A q \in Procs \ {Guard} : pc'[q] = procs[q]
    BY <1>1, <1>2, <1>3 DEF StartJob, Control, AllCommands
  <2>2. lock # Guard
    BY <1>2, <1>3 DEF GuardWanted, Control, LockInv, LockedLabels, OnLabels, OnTry,
       ConfirmLabels, RestoreLabels, QuarantineLabels
  <2>3. LockInv'
    BY <1>1, <1>2, <2>1, <2>2 DEF LockInv, Control
  <2>. QED
    BY <2>1, <2>3 DEF Control
<1>4. CASE ~GuardWanted
  <2>1. /\ pc' = procs /\ UNCHANGED cmd
        /\ guard' = IF guard = "failed" THEN "inactive" ELSE guard
    BY <1>4 DEF StartJob
  <2>2. LockInv'
    BY <1>2, <2>1 DEF LockInv, Control
  <2>. QED
    BY <2>1, <2>2 DEF Control
<1>. QED
  BY <1>3, <1>4

(* Every step keeps Control. *)
LEMMA ControlStep ==
    ASSUME Control, [Next]_vars
    PROVE  Control'
<1>. USE DEF LockedLabels, OnLabels, OnTry, ConfirmLabels, RestoreLabels, QuarantineLabels,
             GuardOnly, GuardLabels
<1>0. Guard \in Procs /\ Timer \in Procs /\ Operators \subseteq Procs /\ Nobody \notin Procs
      /\ Timer # Guard /\ Guard \notin Operators
  BY ProcessAssumption DEF Procs
<1>1. ASSUME NEW p \in Operators, NEW c \in Commands, Invoke(p, c) PROVE Control'
  <2>1. p \in Procs /\ p # Guard
    BY <1>0
  <2>2. pc'[p] = "lock" /\ pc[p] = "idle" /\ (\A q \in Procs \ {p} : pc'[q] = pc[q] /\ cmd'[q] = cmd[q])
    BY <1>1, <2>1 DEF Invoke, Goto, At, Control
  <2>. QED
    BY <1>0, <1>1, <2>1, <2>2 DEF Invoke, Goto, Control, LockInv, Labels, AllCommands, units
<1>2. ASSUME NEW p \in Procs, Acquire(p) PROVE Control'
  <2>1. Entry(p) \in LockedLabels /\ (p = Guard => Entry(p) \in GuardLabels)
        /\ (Entry(p) \in GuardOnly => p = Guard)
    BY <1>0, <1>2 DEF Entry, At, Control, LockInv, AllCommands, Commands
  <2>2. /\ pc[p] \in {"lock", "lock-bad"} /\ pc'[p] = Entry(p) /\ lock = Nobody /\ lock' = p
        /\ \A q \in Procs \ {p} : pc'[q] = pc[q]
        /\ pc' \in [Procs -> Labels] /\ UNCHANGED <<cmd, guard>>
    BY <1>2, <2>1 DEF Acquire, Goto, Control, Labels, units
  <2>3. LockInv'
    BY <1>0, <2>1, <2>2 DEF Control, LockInv
  <2>. QED
    BY <2>2, <2>3 DEF Control
<1>3. ASSUME NEW p \in Procs, Busy(p) \/ LockTimeout(p) \/ OnRefused(p) \/ ConfirmRefused(p) \/ ConfirmFails(p)
             \/ OffRefused(p) \/ RevertNothing(p) \/ PublishSnapshot(p) \/ Kill(p)
      PROVE Control'
  BY <1>3, FinishControl DEF Busy, LockTimeout, OnRefused, ConfirmRefused, ConfirmFails, OffRefused, RevertNothing, PublishSnapshot, Kill
<1>4. ASSUME NEW p \in Procs, OnCheck(p) PROVE Control'
  <2>1. pc[p] = "on-check" /\ pc'[p] = "on-backup" /\ (\A q \in Procs \ {p} : pc'[q] = pc[q])
    BY <1>4 DEF OnCheck, Goto, At, Control
  <2>. QED
    BY <1>0, <1>4, <2>1 DEF OnCheck, Goto, Control, LockInv, Labels, units
<1>5. ASSUME NEW p \in Procs,
             \/ OnBackup(p) \/ OnState(p) \/ OnVerify(p) \/ OnReplace(p)
             \/ OnAwait(p) \/ ConfirmLate(p) \/ ConfirmCheck(p) \/ ConfirmMarker(p)
             \/ ConfirmState(p) \/ OffCheck(p) \/ RevertCheck(p) \/ RestoreRead(p)
             \/ RestoreVerify(p) \/ DropMarker(p) \/ DropState(p) \/ Await(p)
      PROVE Control'
  <2>1. p = Guard => pc[p] \in GuardLabels
    BY DEF Control, LockInv
  <2>2. CASE OnBackup(p)
    BY <2>1, <2>2, DoesControl DEF OnBackup, Does, At
  <2>3. CASE OnState(p)
    BY <2>1, <2>3, DoesControl DEF OnState, Does, At
  <2>4. CASE OnVerify(p)
    BY <2>1, <2>4, DoesControl DEF OnVerify, Does, At
  <2>5. CASE OnReplace(p)
    BY <2>1, <2>5, DoesControl DEF OnReplace, Does, At
  <2>6. CASE OnAwait(p)
    BY <2>1, <2>6, DoesControl DEF OnAwait, Does, At
  <2>7. CASE ConfirmLate(p)
    BY <2>1, <2>7, DoesControl DEF ConfirmLate, Does, At
  <2>8. CASE ConfirmCheck(p)
    BY <2>1, <2>8, DoesControl DEF ConfirmCheck, Does, At
  <2>9. CASE ConfirmMarker(p)
    BY <2>1, <2>9, DoesControl DEF ConfirmMarker, Does, At
  <2>10. CASE ConfirmState(p)
    BY <2>1, <2>10, DoesControl DEF ConfirmState, Does, At
  <2>11. CASE OffCheck(p)
    BY <2>1, <2>11, DoesControl DEF OffCheck, Does, At
  <2>12. CASE RevertCheck(p)
    BY <2>1, <2>12, DoesControl DEF RevertCheck, Does, At
  <2>13. CASE RestoreRead(p)
    BY <2>1, <2>13, DoesControl DEF RestoreRead, Does, At
  <2>14. CASE RestoreVerify(p)
    BY <2>1, <2>14, DoesControl DEF RestoreVerify, Does, At
  <2>15. CASE DropMarker(p)
    BY <2>1, <2>15, DoesControl DEF DropMarker, Does, At
  <2>16. CASE DropState(p)
    BY <2>1, <2>16, DoesControl DEF DropState, Does, At
  <2>17. CASE Await(p)
    BY <2>1, <2>17, DoesControl DEF Await, Does, At
  <2>. QED
    BY <1>5, <2>2, <2>3, <2>4, <2>5, <2>6, <2>7, <2>8, <2>9, <2>10, <2>11, <2>12, <2>13, <2>14, <2>15, <2>16, <2>17
<1>6. ASSUME NEW p \in Procs, RestoreAlready(p) \/ RestoreReplace(p) PROVE Control'
  <2>1. AfterRestore(p) \in LockedLabels /\ AfterRestore(p) \in GuardLabels
        /\ (AfterRestore(p) \in GuardOnly => p = Guard)
    BY DEF AfterRestore
  <2>. QED
    BY <1>6, <2>1, DoesControl DEF RestoreAlready, RestoreReplace
<1>7. ASSUME NEW p \in Procs, DropBackup(p) PROVE Control'
  <2>. DEFINE to == IF cmd[p] # "on" \/ invoked THEN "stop" ELSE IF changed THEN "restart" ELSE "snapshot"
  <2>1. to \in LockedLabels /\ to \notin GuardOnly /\ (p = Guard => to \in GuardLabels)
    BY DEF Control, LockInv
  <2>2. Does(p, "drop-backup", to)
    BY <1>7 DEF DropBackup
  <2>. QED
    BY <2>1, <2>2, DoesControl
<1>8. ASSUME NEW p \in Procs, p # Guard, NEW to \in LockedLabels \ GuardOnly, pc[p] \in LockedLabels,
             Goto(p, to), UNCHANGED <<lock, cmd, guard>>
      PROVE Control'
  <2>1. pc'[p] = to /\ (\A q \in Procs \ {p} : pc'[q] = pc[q]) /\ pc' \in [Procs -> Labels]
    BY <1>8 DEF Goto, Control, Labels
  <2>. QED
    BY <1>0, <1>8, <2>1 DEF Control, LockInv
<1>9. ASSUME NEW p \in Procs, RestoreFails(p) PROVE Control'
  <2>1. CASE p = Guard
    BY <1>9, <2>1, FinishControl DEF RestoreFails
  <2>2. CASE p # Guard
    <3>. DEFINE to == IF cmd[p] # "on" THEN "snapshot" ELSE IF invoked THEN "stop" ELSE "restart"
    <3>1. Goto(p, to) /\ UNCHANGED <<lock, cmd, guard>> /\ pc[p] \in LockedLabels
      BY <1>9, <2>2 DEF RestoreFails, At
    <3>2. to \in LockedLabels \ GuardOnly
      OBVIOUS
    <3>. QED
      BY <1>8, <2>2, <3>1, <3>2
  <2>. QED
    BY <2>1, <2>2
<1>10. ASSUME NEW p \in Procs, StopTimer(p) \/ StopFails(p) PROVE Control'
  <2>1. CASE p = Guard
    BY <1>10, <2>1, FinishControl DEF StopTimer, StopFails
  <2>2. CASE p # Guard
    <3>1. PICK to \in {"restart", "snapshot"} : Goto(p, to)
      BY <1>10, <2>2 DEF StopTimer, StopFails, AfterStop
    <3>2. UNCHANGED <<lock, cmd, guard>> /\ pc[p] \in LockedLabels
      BY <1>10, <2>2 DEF StopTimer, StopFails, At
    <3>. QED
      BY <1>8, <2>2, <3>1, <3>2
  <2>. QED
    BY <2>1, <2>2
<1>11. ASSUME NEW p \in Procs, OnTimer(p) \/ OnFails(p) \/ OnUnsynced(p) \/ RestartFails(p) PROVE Control'
  <2>1. pc[p] \in LockedLabels /\ p # Guard
    BY <1>11 DEF OnTimer, OnFails, OnUnsynced, RestartFails, At, Control, LockInv
  <2>2. PICK to \in {"restore", "on-verify", "snapshot"} : Goto(p, to)
    BY <1>11 DEF OnTimer, OnFails, OnUnsynced, RestartFails
  <2>3. UNCHANGED <<lock, cmd, guard>>
    BY <1>11 DEF OnTimer, OnFails, OnUnsynced, RestartFails, units
  <2>. QED
    BY <1>8, <2>1, <2>2, <2>3
<1>12. ASSUME NEW p \in Procs, RestartDaemon(p) PROVE Control'
  <2>1. PICK to \in {"on-await", "await"} : StartJob([pc EXCEPT ![p] = to])
    BY <1>12 DEF RestartDaemon
  <2>2. pc[p] \in LockedLabels /\ p # Guard /\ lock = p /\ UNCHANGED lock
    BY <1>12 DEF RestartDaemon, At, Control, LockInv
  <2>. DEFINE procs == [pc EXCEPT ![p] = to]
  <2>3. procs \in [Procs -> Labels] /\ procs[p] = to /\ (\A q \in Procs \ {p} : procs[q] = pc[q])
    BY DEF Control, Labels
  <2>4. /\ \A q \in Procs : procs[q] \in LockedLabels <=> lock = q
        /\ \A q \in Procs : procs[q] \in GuardOnly => q = Guard
        /\ procs[Guard] = pc[Guard]
    BY <1>0, <2>2, <2>3 DEF Control, LockInv
  <2>. HIDE DEF procs
  <2>. QED
    BY <2>1, <2>2, <2>3, <2>4, StartJobControl DEF procs
<1>13. ASSUME GuardLook PROVE Control'
  <2>1. CASE Finish(Guard, TRUE)
    BY <1>0, <2>1, FinishControl
  <2>2. CASE \E to \in {"lock", "lock-bad"} : Goto(Guard, to) /\ UNCHANGED <<units, lock, cmd>>
    <3>1. PICK to \in {"lock", "lock-bad"} : Goto(Guard, to) /\ UNCHANGED <<guard, lock, cmd>>
      BY <2>2 DEF units
    <3>2. pc[Guard] = "look" /\ pc'[Guard] = to /\ (\A q \in Procs \ {Guard} : pc'[q] = pc[q])
          /\ pc' \in [Procs -> Labels]
      BY <1>0, <1>13, <3>1 DEF GuardLook, Goto, At, Control, Labels
    <3>. QED
      BY <1>0, <3>1, <3>2 DEF Control, LockInv
  <2>. QED
    BY <1>13, <2>1, <2>2 DEF GuardLook
<1>14. ASSUME NEW from \in LockedLabels, NEW to \in LockedLabels \cap GuardLabels,
             pc[Guard] = from, Goto(Guard, to), UNCHANGED <<lock, cmd, guard>>
      PROVE Control'
  <2>1. pc'[Guard] = to /\ (\A q \in Procs \ {Guard} : pc'[q] = pc[q]) /\ pc' \in [Procs -> Labels]
    BY <1>0, <1>14 DEF Goto, Control, Labels
  <2>. QED
    BY <1>0, <1>14, <2>1 DEF Control, LockInv
<1>15. ASSUME GuardReread \/ SetAside \/ DropOptIn PROVE Control'
  <2>1. pc[Guard] \in {"reread", "set-aside", "drop-opt-in"}
    BY <1>15 DEF GuardReread, SetAside, DropOptIn, Does, At
  <2>2. CASE Finish(Guard, TRUE)
    BY <1>0, <2>2, FinishControl
  <2>3. CASE \E to \in {"revert-check", "restore", "drop-opt-in", "stop-revert"} :
               Goto(Guard, to) /\ UNCHANGED <<lock, cmd, guard>>
    BY <1>14, <2>1, <2>3
  <2>. QED
    BY <1>15, <2>2, <2>3 DEF GuardReread, SetAside, DropOptIn, Does, units
<1>16. ASSUME QuarantineFails \/ StopRevert PROVE Control'
  BY <1>0, <1>16, FinishControl DEF QuarantineFails, StopRevert
<1>17. ASSUME NEW t \in Triggers, Elapse(t) PROVE Control'
  <2>1. CASE At(Timer, "idle")
    <3>1. /\ pc[Timer] = "idle" /\ pc'[Timer] = "lock" /\ (\A q \in Procs \ {Timer} : pc'[q] = pc[q] /\ cmd'[q] = cmd[q])
          /\ pc' \in [Procs -> Labels] /\ cmd' \in [Procs -> AllCommands] /\ UNCHANGED <<lock, guard>>
      BY <1>0, <1>17, <2>1 DEF Elapse, Goto, At, Control, Labels, AllCommands, Commands
    <3>. QED
      BY <1>0, <3>1 DEF Control, LockInv
  <2>2. CASE ~At(Timer, "idle")
    BY <1>17, <2>2 DEF Elapse, Control, LockInv
  <2>. QED
    BY <2>1, <2>2
<1>18. ASSUME DaemonStart PROVE Control'
  BY <1>18, StartJobControl DEF DaemonStart, Control, LockInv
<1>19. ASSUME Reboot PROVE Control'
  <2>1. /\ pc' \in [Procs -> Labels] /\ cmd' \in [Procs -> AllCommands] /\ lock' = Nobody
        /\ \A q \in Procs \ {Guard} : pc'[q] = "idle"
        /\ pc'[Guard] = IF state # NoState THEN "look" ELSE "idle"
        /\ cmd'[Guard] = IF state # NoState THEN "boot" ELSE "none"
        /\ guard' = IF state = NoState THEN "inactive" ELSE "running"
    BY <1>0, <1>19 DEF Reboot, Labels, AllCommands
  <2>2. "idle" \notin LockedLabels \cup GuardOnly /\ "look" \notin LockedLabels
        /\ {"idle", "look"} \subseteq GuardLabels
    OBVIOUS
  <2>. HIDE DEF LockedLabels, GuardOnly, GuardLabels
  <2>. QED
    BY <1>0, <2>1, <2>2 DEF Control, LockInv
<1>20. ASSUME DaemonUp \/ DaemonDies \/ Edit \/ Corrupt \/ (\E i \in 1..MaxTrials : Deadline(i)) \/ UNCHANGED vars
      PROVE Control'
  BY <1>20 DEF DaemonUp, DaemonDies, Edit, Corrupt, Deadline, vars, units, Control, LockInv
<1>. QED
  BY <1>1, <1>2, <1>3, <1>4, <1>5, <1>6, <1>7, <1>8, <1>9, <1>10, <1>11, <1>12, <1>13, <1>14, <1>15, <1>16, <1>17, <1>18, <1>19, <1>20
     DEF Next, Step, Failure, GuardStep, Environment

----------------------------------------------------------------------------
(* The second layer: the types of the other variables, and LocalsInv. *)

Snapshots == [action : Actions, pending : BOOLEAN, optIn : BOOLEAN]

DataOK ==
    /\ config \in Configs /\ backup \in Bodies \cup {NoBackup}
    /\ state \in Trials \cup {NoState, BadState} /\ marker \in 0..MaxTrials
    /\ snapshot \in Snapshots \cup {NoSnapshot}
    /\ timer \subseteq Triggers /\ armedFor \in 0..MaxTrials
    /\ daemon \in Actions \cup {"down", "starting"}
    /\ seen \in Configs \cup {NoConfig} /\ rec \in Trials \cup {NoState, BadState}
    /\ boot \in 1..MaxBoots /\ trials \in 0..MaxTrials
    /\ late \subseteq 1..MaxTrials /\ faults \in 0..MaxFaults

FlagsOK == changed \in BOOLEAN /\ invoked \in BOOLEAN

Data == DataOK /\ FlagsOK /\ LocalsInv

(* Nothing is claimed of a process that is not past acquiring the lock. *)
LEMMA OutsideLocals ==
    ASSUME NEW q, pc'[q] \notin LockedLabels
    PROVE  LocalsAt(q)' /\ HolderAt(q)'
BY DEF LocalsAt, HolderAt, At, LockedLabels, OnLabels, OnTry, ConfirmLabels, RestoreLabels, QuarantineLabels

(* After a step that leaves the lock with p, only p matters. *)
LEMMA HolderLocals ==
    ASSUME Control', NEW p \in Procs, lock' = p
    PROVE  /\ LocalsAt(p)' => LocalsInv'
           /\ HolderAt(p)' => HolderInv'
<1>1. \A q \in Procs \ {p} : pc'[q] \notin LockedLabels
  BY DEF Control, LockInv
<1>. QED
  BY <1>1, OutsideLocals DEF LocalsInv, HolderInv

(* After a step that frees the lock, nobody does. *)
LEMMA FreeLocals ==
    ASSUME Control', lock' = Nobody
    PROVE  LocalsInv' /\ HolderInv'
<1>1. \A q \in Procs : pc'[q] \notin LockedLabels
  BY ProcessAssumption DEF Control, LockInv, Procs
<1>. QED
  BY <1>1, OutsideLocals DEF LocalsInv, HolderInv

(* A process that ends keeps Data if it leaves the rest alone. *)
LEMMA FinishData ==
    ASSUME Control, Control', Data, NEW p \in Procs, NEW ok, Finish(p, ok)
    PROVE  /\ daemon' \in Actions \cup {"down", "starting"}
           /\ seen' \in Configs \cup {NoConfig} /\ rec' \in Trials \cup {NoState, BadState}
           /\ FlagsOK'
           /\ LocalsInv'
<1>1. pc'[p] = "idle" /\ \A q \in Procs \ {p} : pc'[q] = pc[q]
  BY DEF Finish, Control
<1>2. daemon' \in Actions \cup {"down", "starting"}
  BY DEF Finish, Data, DataOK
<1>3. CASE lock = p
  BY <1>2, <1>3, FreeLocals DEF Finish, FlagsOK
<1>4. CASE lock # p
  <2>1. UNCHANGED <<seen, rec, changed, invoked>>
    BY <1>4 DEF Finish, locals
  <2>2. LocalsInv'
    BY <1>1, <2>1 DEF LocalsInv, LocalsAt, Data, OnTry
  <2>3. FlagsOK'
    BY <2>1 DEF Data, FlagsOK
  <2>. QED
    BY <1>2, <2>1, <2>2, <2>3 DEF Data, DataOK
<1>. QED
  BY <1>3, <1>4

(* A step inside the critical section keeps the types and the locals. *)
LEMMA DoesData ==
    ASSUME Control, Control', Data, NEW p \in Procs,
           \/ OnBackup(p) \/ OnState(p) \/ OnVerify(p) \/ OnReplace(p)
           \/ OnAwait(p) \/ ConfirmLate(p) \/ ConfirmCheck(p) \/ ConfirmMarker(p)
           \/ ConfirmState(p) \/ OffCheck(p) \/ RevertCheck(p) \/ RestoreAlready(p)
           \/ RestoreRead(p) \/ RestoreVerify(p) \/ RestoreReplace(p) \/ DropMarker(p)
           \/ DropState(p) \/ DropBackup(p) \/ Await(p)
    PROVE  Data'
<1>0. LocalsAt(p) /\ DataOK /\ changed \in BOOLEAN /\ invoked \in BOOLEAN /\ pc \in [Procs -> Labels]
  BY DEF Data, FlagsOK, LocalsInv, Control
<1>. DEFINE Frame == UNCHANGED <<snapshot, timer, armedFor, daemon, lock, boot, trials, late, faults>>
<1>1. ASSUME Frame, lock = p, FlagsOK', LocalsAt(p)',
             config' \in Configs, backup' \in Bodies \cup {NoBackup},
             state' \in Trials \cup {NoState, BadState}, marker' \in 0..MaxTrials,
             seen' \in Configs \cup {NoConfig}, rec' \in Trials \cup {NoState, BadState}
      PROVE  Data'
  <2>1. LocalsInv'
    BY <1>1, HolderLocals
  <2>. QED
    BY <1>0, <1>1, <2>1 DEF Data, DataOK
<1>2. ASSUME NEW from, NEW to, Does(p, from, to), from \in LockedLabels
      PROVE  Frame /\ lock = p /\ pc[p] = from /\ pc'[p] = to
  BY <1>0, <1>2 DEF Does, At, Goto, units, arming, world, Control, LockInv
<1>3. CASE OnBackup(p)
  <2>. DEFINE to == "on-state"
  <2>1. Frame /\ lock = p /\ pc[p] = "on-backup" /\ pc'[p] = to
    <3>1. Does(p, "on-backup", to) /\ "on-backup" \in LockedLabels
      BY <1>3 DEF OnBackup, LockedLabels, OnLabels, OnTry, ConfirmLabels, RestoreLabels, QuarantineLabels
    <3>. HIDE DEF to, Frame
    <3>. QED
      BY <1>2, <3>1
  <2>2. FlagsOK'
    BY <1>0, <1>3 DEF OnBackup, locals, FlagsOK
  <2>3. LocalsAt(p)'
    BY <1>0, <1>3, <2>1 DEF OnBackup, locals, LocalsAt, OnTry, DataOK, Configs
  <2>4. /\ config' \in Configs /\ backup' \in Bodies \cup {NoBackup}
        /\ state' \in Trials \cup {NoState, BadState} /\ marker' \in 0..MaxTrials
        /\ seen' \in Configs \cup {NoConfig} /\ rec' \in Trials \cup {NoState, BadState}
    BY BoundsAssumption, <1>0, <1>3, <2>1 DEF OnBackup, files, locals, LocalsAt, OnTry, DataOK, Configs, Trials, Actions
  <2>. HIDE DEF to, Frame
  <2>. QED
    BY <1>1, <2>1, <2>2, <2>3, <2>4
<1>4. CASE OnState(p)
  <2>. DEFINE to == "on-timer"
  <2>1. Frame /\ lock = p /\ pc[p] = "on-state" /\ pc'[p] = to
    <3>1. Does(p, "on-state", to) /\ "on-state" \in LockedLabels
      BY <1>4 DEF OnState, LockedLabels, OnLabels, OnTry, ConfirmLabels, RestoreLabels, QuarantineLabels
    <3>. HIDE DEF to, Frame
    <3>. QED
      BY <1>2, <3>1
  <2>2. FlagsOK'
    BY <1>0, <1>4 DEF OnState, locals, FlagsOK
  <2>3. LocalsAt(p)'
    BY <1>0, <1>4, <2>1 DEF OnState, locals, LocalsAt, OnTry, DataOK, Configs
  <2>4. /\ config' \in Configs /\ backup' \in Bodies \cup {NoBackup}
        /\ state' \in Trials \cup {NoState, BadState} /\ marker' \in 0..MaxTrials
        /\ seen' \in Configs \cup {NoConfig} /\ rec' \in Trials \cup {NoState, BadState}
    BY BoundsAssumption, <1>0, <1>4, <2>1 DEF OnState, files, locals, LocalsAt, OnTry, DataOK, Configs, Trials, Actions
  <2>. HIDE DEF to, Frame
  <2>. QED
    BY <1>1, <2>1, <2>2, <2>3, <2>4
<1>5. CASE OnVerify(p)
  <2>. DEFINE to == IF config = seen THEN "on-replace" ELSE "restore"
  <2>1. Frame /\ lock = p /\ pc[p] = "on-verify" /\ pc'[p] = to
    <3>1. Does(p, "on-verify", to) /\ "on-verify" \in LockedLabels
      BY <1>5 DEF OnVerify, LockedLabels, OnLabels, OnTry, ConfirmLabels, RestoreLabels, QuarantineLabels
    <3>. HIDE DEF to, Frame
    <3>. QED
      BY <1>2, <3>1
  <2>2. FlagsOK'
    BY <1>0, <1>5 DEF OnVerify, locals, FlagsOK
  <2>3. LocalsAt(p)'
    BY <1>0, <1>5, <2>1 DEF OnVerify, locals, LocalsAt, OnTry, DataOK, Configs
  <2>4. /\ config' \in Configs /\ backup' \in Bodies \cup {NoBackup}
        /\ state' \in Trials \cup {NoState, BadState} /\ marker' \in 0..MaxTrials
        /\ seen' \in Configs \cup {NoConfig} /\ rec' \in Trials \cup {NoState, BadState}
    BY BoundsAssumption, <1>0, <1>5, <2>1 DEF OnVerify, files, locals, LocalsAt, OnTry, DataOK, Configs, Trials, Actions
  <2>. HIDE DEF to, Frame
  <2>. QED
    BY <1>1, <2>1, <2>2, <2>3, <2>4
<1>6. CASE OnReplace(p)
  <2>. DEFINE to == "on-restart"
  <2>1. Frame /\ lock = p /\ pc[p] = "on-replace" /\ pc'[p] = to
    <3>1. Does(p, "on-replace", to) /\ "on-replace" \in LockedLabels
      BY <1>6 DEF OnReplace, LockedLabels, OnLabels, OnTry, ConfirmLabels, RestoreLabels, QuarantineLabels
    <3>. HIDE DEF to, Frame
    <3>. QED
      BY <1>2, <3>1
  <2>2. FlagsOK'
    BY <1>0, <1>6 DEF OnReplace, locals, FlagsOK
  <2>3. LocalsAt(p)'
    BY <1>0, <1>6, <2>1 DEF OnReplace, locals, LocalsAt, OnTry, DataOK, Configs
  <2>4. /\ config' \in Configs /\ backup' \in Bodies \cup {NoBackup}
        /\ state' \in Trials \cup {NoState, BadState} /\ marker' \in 0..MaxTrials
        /\ seen' \in Configs \cup {NoConfig} /\ rec' \in Trials \cup {NoState, BadState}
    BY BoundsAssumption, <1>0, <1>6, <2>1 DEF OnReplace, files, locals, LocalsAt, OnTry, DataOK, Configs, Trials, Actions
  <2>. HIDE DEF to, Frame
  <2>. QED
    BY <1>1, <2>1, <2>2, <2>3, <2>4
<1>7. CASE OnAwait(p)
  <2>. DEFINE to == IF ServiceActive THEN "snapshot" ELSE "restore"
  <2>1. Frame /\ lock = p /\ pc[p] = "on-await" /\ pc'[p] = to
    <3>1. Does(p, "on-await", to) /\ "on-await" \in LockedLabels
      BY <1>7 DEF OnAwait, LockedLabels, OnLabels, OnTry, ConfirmLabels, RestoreLabels, QuarantineLabels
    <3>. HIDE DEF to, Frame
    <3>. QED
      BY <1>2, <3>1
  <2>2. FlagsOK'
    BY <1>0, <1>7 DEF OnAwait, locals, FlagsOK
  <2>3. LocalsAt(p)'
    BY <1>0, <1>7, <2>1 DEF OnAwait, locals, LocalsAt, OnTry, DataOK, Configs
  <2>4. /\ config' \in Configs /\ backup' \in Bodies \cup {NoBackup}
        /\ state' \in Trials \cup {NoState, BadState} /\ marker' \in 0..MaxTrials
        /\ seen' \in Configs \cup {NoConfig} /\ rec' \in Trials \cup {NoState, BadState}
    BY BoundsAssumption, <1>0, <1>7, <2>1 DEF OnAwait, files, locals, LocalsAt, OnTry, DataOK, Configs, Trials, Actions
  <2>. HIDE DEF to, Frame
  <2>. QED
    BY <1>1, <2>1, <2>2, <2>3, <2>4
<1>8. CASE ConfirmLate(p)
  <2>. DEFINE to == "off-check"
  <2>1. Frame /\ lock = p /\ pc[p] = "confirm-check" /\ pc'[p] = to
    <3>1. Does(p, "confirm-check", to) /\ "confirm-check" \in LockedLabels
      BY <1>8 DEF ConfirmLate, LockedLabels, OnLabels, OnTry, ConfirmLabels, RestoreLabels, QuarantineLabels
    <3>. HIDE DEF to, Frame
    <3>. QED
      BY <1>2, <3>1
  <2>2. FlagsOK'
    BY <1>0, <1>8 DEF ConfirmLate, locals, FlagsOK
  <2>3. LocalsAt(p)'
    BY <1>0, <1>8, <2>1 DEF ConfirmLate, locals, LocalsAt, OnTry, DataOK, Configs
  <2>4. /\ config' \in Configs /\ backup' \in Bodies \cup {NoBackup}
        /\ state' \in Trials \cup {NoState, BadState} /\ marker' \in 0..MaxTrials
        /\ seen' \in Configs \cup {NoConfig} /\ rec' \in Trials \cup {NoState, BadState}
    BY BoundsAssumption, <1>0, <1>8, <2>1 DEF ConfirmLate, files, locals, LocalsAt, OnTry, DataOK, Configs, Trials, Actions
  <2>. HIDE DEF to, Frame
  <2>. QED
    BY <1>1, <2>1, <2>2, <2>3, <2>4
<1>9. CASE ConfirmCheck(p)
  <2>. DEFINE to == "confirm-marker"
  <2>1. Frame /\ lock = p /\ pc[p] = "confirm-check" /\ pc'[p] = to
    <3>1. Does(p, "confirm-check", to) /\ "confirm-check" \in LockedLabels
      BY <1>9 DEF ConfirmCheck, LockedLabels, OnLabels, OnTry, ConfirmLabels, RestoreLabels, QuarantineLabels
    <3>. HIDE DEF to, Frame
    <3>. QED
      BY <1>2, <3>1
  <2>2. FlagsOK'
    BY <1>0, <1>9 DEF ConfirmCheck, locals, FlagsOK
  <2>3. LocalsAt(p)'
    BY <1>0, <1>9, <2>1 DEF ConfirmCheck, locals, LocalsAt, OnTry, DataOK, Configs, Pending, Recorded
  <2>4. /\ config' \in Configs /\ backup' \in Bodies \cup {NoBackup}
        /\ state' \in Trials \cup {NoState, BadState} /\ marker' \in 0..MaxTrials
        /\ seen' \in Configs \cup {NoConfig} /\ rec' \in Trials \cup {NoState, BadState}
    BY BoundsAssumption, <1>0, <1>9, <2>1 DEF ConfirmCheck, files, locals, LocalsAt, OnTry, DataOK, Configs, Trials, Actions
  <2>. HIDE DEF to, Frame
  <2>. QED
    BY <1>1, <2>1, <2>2, <2>3, <2>4
<1>10. CASE ConfirmMarker(p)
  <2>. DEFINE to == "confirm-state"
  <2>1. Frame /\ lock = p /\ pc[p] = "confirm-marker" /\ pc'[p] = to
    <3>1. Does(p, "confirm-marker", to) /\ "confirm-marker" \in LockedLabels
      BY <1>10 DEF ConfirmMarker, LockedLabels, OnLabels, OnTry, ConfirmLabels, RestoreLabels, QuarantineLabels
    <3>. HIDE DEF to, Frame
    <3>. QED
      BY <1>2, <3>1
  <2>2. FlagsOK'
    BY <1>0, <1>10 DEF ConfirmMarker, locals, FlagsOK
  <2>3. LocalsAt(p)'
    BY <1>0, <1>10, <2>1 DEF ConfirmMarker, locals, LocalsAt, OnTry, DataOK, Configs
  <2>4. /\ config' \in Configs /\ backup' \in Bodies \cup {NoBackup}
        /\ state' \in Trials \cup {NoState, BadState} /\ marker' \in 0..MaxTrials
        /\ seen' \in Configs \cup {NoConfig} /\ rec' \in Trials \cup {NoState, BadState}
    BY BoundsAssumption, <1>0, <1>10, <2>1 DEF ConfirmMarker, files, locals, LocalsAt, OnTry, DataOK, Configs, Trials, Actions
  <2>. HIDE DEF to, Frame
  <2>. QED
    BY <1>1, <2>1, <2>2, <2>3, <2>4
<1>11. CASE ConfirmState(p)
  <2>. DEFINE to == "stop"
  <2>1. Frame /\ lock = p /\ pc[p] = "confirm-state" /\ pc'[p] = to
    <3>1. Does(p, "confirm-state", to) /\ "confirm-state" \in LockedLabels
      BY <1>11 DEF ConfirmState, LockedLabels, OnLabels, OnTry, ConfirmLabels, RestoreLabels, QuarantineLabels
    <3>. HIDE DEF to, Frame
    <3>. QED
      BY <1>2, <3>1
  <2>2. FlagsOK'
    BY <1>0, <1>11 DEF ConfirmState, locals, FlagsOK
  <2>3. LocalsAt(p)'
    BY <1>0, <1>11, <2>1 DEF ConfirmState, locals, LocalsAt, OnTry, DataOK, Configs
  <2>4. /\ config' \in Configs /\ backup' \in Bodies \cup {NoBackup}
        /\ state' \in Trials \cup {NoState, BadState} /\ marker' \in 0..MaxTrials
        /\ seen' \in Configs \cup {NoConfig} /\ rec' \in Trials \cup {NoState, BadState}
    BY BoundsAssumption, <1>0, <1>11, <2>1 DEF ConfirmState, files, locals, LocalsAt, OnTry, DataOK, Configs, Trials, Actions
  <2>. HIDE DEF to, Frame
  <2>. QED
    BY <1>1, <2>1, <2>2, <2>3, <2>4
<1>12. CASE OffCheck(p)
  <2>. DEFINE to == "restore"
  <2>1. Frame /\ lock = p /\ pc[p] = "off-check" /\ pc'[p] = to
    <3>1. Does(p, "off-check", to) /\ "off-check" \in LockedLabels
      BY <1>12 DEF OffCheck, LockedLabels, OnLabels, OnTry, ConfirmLabels, RestoreLabels, QuarantineLabels
    <3>. HIDE DEF to, Frame
    <3>. QED
      BY <1>2, <3>1
  <2>2. FlagsOK'
    BY <1>0, <1>12 DEF OffCheck, locals, FlagsOK
  <2>3. LocalsAt(p)'
    BY <1>0, <1>12, <2>1 DEF OffCheck, locals, LocalsAt, OnTry, DataOK, Configs
  <2>4. /\ config' \in Configs /\ backup' \in Bodies \cup {NoBackup}
        /\ state' \in Trials \cup {NoState, BadState} /\ marker' \in 0..MaxTrials
        /\ seen' \in Configs \cup {NoConfig} /\ rec' \in Trials \cup {NoState, BadState}
    BY BoundsAssumption, <1>0, <1>12, <2>1 DEF OffCheck, files, locals, LocalsAt, OnTry, DataOK, Configs, Trials, Actions
  <2>. HIDE DEF to, Frame
  <2>. QED
    BY <1>1, <2>1, <2>2, <2>3, <2>4
<1>13. CASE RevertCheck(p)
  <2>. DEFINE to == "restore"
  <2>1. Frame /\ lock = p /\ pc[p] = "revert-check" /\ pc'[p] = to
    <3>1. Does(p, "revert-check", to) /\ "revert-check" \in LockedLabels
      BY <1>13 DEF RevertCheck, LockedLabels, OnLabels, OnTry, ConfirmLabels, RestoreLabels, QuarantineLabels
    <3>. HIDE DEF to, Frame
    <3>. QED
      BY <1>2, <3>1
  <2>2. FlagsOK'
    BY <1>0, <1>13 DEF RevertCheck, locals, FlagsOK
  <2>3. LocalsAt(p)'
    BY <1>0, <1>13, <2>1 DEF RevertCheck, locals, LocalsAt, OnTry, DataOK, Configs
  <2>4. /\ config' \in Configs /\ backup' \in Bodies \cup {NoBackup}
        /\ state' \in Trials \cup {NoState, BadState} /\ marker' \in 0..MaxTrials
        /\ seen' \in Configs \cup {NoConfig} /\ rec' \in Trials \cup {NoState, BadState}
    BY BoundsAssumption, <1>0, <1>13, <2>1 DEF RevertCheck, files, locals, LocalsAt, OnTry, DataOK, Configs, Trials, Actions
  <2>. HIDE DEF to, Frame
  <2>. QED
    BY <1>1, <2>1, <2>2, <2>3, <2>4
<1>14. CASE RestoreAlready(p)
  <2>. DEFINE to == AfterRestore(p)
  <2>1. Frame /\ lock = p /\ pc[p] = "restore" /\ pc'[p] = to
    <3>1. Does(p, "restore", to) /\ "restore" \in LockedLabels
      BY <1>14 DEF RestoreAlready, LockedLabels, OnLabels, OnTry, ConfirmLabels, RestoreLabels, QuarantineLabels
    <3>. HIDE DEF to, Frame
    <3>. QED
      BY <1>2, <3>1
  <2>2. FlagsOK'
    BY <1>0, <1>14 DEF RestoreAlready, locals, FlagsOK
  <2>3. LocalsAt(p)'
    BY <1>0, <1>14, <2>1 DEF RestoreAlready, locals, LocalsAt, OnTry, DataOK, Configs, AfterRestore
  <2>4. /\ config' \in Configs /\ backup' \in Bodies \cup {NoBackup}
        /\ state' \in Trials \cup {NoState, BadState} /\ marker' \in 0..MaxTrials
        /\ seen' \in Configs \cup {NoConfig} /\ rec' \in Trials \cup {NoState, BadState}
    BY BoundsAssumption, <1>0, <1>14, <2>1 DEF RestoreAlready, files, locals, LocalsAt, OnTry, DataOK, Configs, Trials, Actions, AfterRestore
  <2>. HIDE DEF to, Frame
  <2>. QED
    BY <1>1, <2>1, <2>2, <2>3, <2>4
<1>15. CASE RestoreRead(p)
  <2>. DEFINE to == "restore-verify"
  <2>1. Frame /\ lock = p /\ pc[p] = "restore" /\ pc'[p] = to
    <3>1. Does(p, "restore", to) /\ "restore" \in LockedLabels
      BY <1>15 DEF RestoreRead, LockedLabels, OnLabels, OnTry, ConfirmLabels, RestoreLabels, QuarantineLabels
    <3>. HIDE DEF to, Frame
    <3>. QED
      BY <1>2, <3>1
  <2>2. FlagsOK'
    BY <1>0, <1>15 DEF RestoreRead, locals, FlagsOK
  <2>3. LocalsAt(p)'
    BY <1>0, <1>15, <2>1 DEF RestoreRead, locals, LocalsAt, OnTry, DataOK, Configs
  <2>4. /\ config' \in Configs /\ backup' \in Bodies \cup {NoBackup}
        /\ state' \in Trials \cup {NoState, BadState} /\ marker' \in 0..MaxTrials
        /\ seen' \in Configs \cup {NoConfig} /\ rec' \in Trials \cup {NoState, BadState}
    BY BoundsAssumption, <1>0, <1>15, <2>1 DEF RestoreRead, files, locals, LocalsAt, OnTry, DataOK, Configs, Trials, Actions
  <2>. HIDE DEF to, Frame
  <2>. QED
    BY <1>1, <2>1, <2>2, <2>3, <2>4
<1>16. CASE RestoreVerify(p)
  <2>. DEFINE to == "restore-replace"
  <2>1. Frame /\ lock = p /\ pc[p] = "restore-verify" /\ pc'[p] = to
    <3>1. Does(p, "restore-verify", to) /\ "restore-verify" \in LockedLabels
      BY <1>16 DEF RestoreVerify, LockedLabels, OnLabels, OnTry, ConfirmLabels, RestoreLabels, QuarantineLabels
    <3>. HIDE DEF to, Frame
    <3>. QED
      BY <1>2, <3>1
  <2>2. FlagsOK'
    BY <1>0, <1>16 DEF RestoreVerify, locals, FlagsOK
  <2>3. LocalsAt(p)'
    BY <1>0, <1>16, <2>1 DEF RestoreVerify, locals, LocalsAt, OnTry, DataOK, Configs
  <2>4. /\ config' \in Configs /\ backup' \in Bodies \cup {NoBackup}
        /\ state' \in Trials \cup {NoState, BadState} /\ marker' \in 0..MaxTrials
        /\ seen' \in Configs \cup {NoConfig} /\ rec' \in Trials \cup {NoState, BadState}
    BY BoundsAssumption, <1>0, <1>16, <2>1 DEF RestoreVerify, files, locals, LocalsAt, OnTry, DataOK, Configs, Trials, Actions
  <2>. HIDE DEF to, Frame
  <2>. QED
    BY <1>1, <2>1, <2>2, <2>3, <2>4
<1>17. CASE RestoreReplace(p)
  <2>. DEFINE to == AfterRestore(p)
  <2>1. Frame /\ lock = p /\ pc[p] = "restore-replace" /\ pc'[p] = to
    <3>1. Does(p, "restore-replace", to) /\ "restore-replace" \in LockedLabels
      BY <1>17 DEF RestoreReplace, LockedLabels, OnLabels, OnTry, ConfirmLabels, RestoreLabels, QuarantineLabels
    <3>. HIDE DEF to, Frame
    <3>. QED
      BY <1>2, <3>1
  <2>2. FlagsOK'
    BY <1>0, <1>17 DEF RestoreReplace, locals, FlagsOK
  <2>3. LocalsAt(p)'
    BY <1>0, <1>17, <2>1 DEF RestoreReplace, locals, LocalsAt, OnTry, DataOK, Configs, AfterRestore, Restored, UsesBackup
  <2>4. /\ config' \in Configs /\ backup' \in Bodies \cup {NoBackup}
        /\ state' \in Trials \cup {NoState, BadState} /\ marker' \in 0..MaxTrials
        /\ seen' \in Configs \cup {NoConfig} /\ rec' \in Trials \cup {NoState, BadState}
    BY BoundsAssumption, <1>0, <1>17, <2>1 DEF RestoreReplace, files, locals, LocalsAt, OnTry, DataOK, Configs, Trials, Actions, AfterRestore, Restored, UsesBackup
  <2>. HIDE DEF to, Frame
  <2>. QED
    BY <1>1, <2>1, <2>2, <2>3, <2>4
<1>18. CASE DropMarker(p)
  <2>. DEFINE to == "drop-state"
  <2>1. Frame /\ lock = p /\ pc[p] = "drop-marker" /\ pc'[p] = to
    <3>1. Does(p, "drop-marker", to) /\ "drop-marker" \in LockedLabels
      BY <1>18 DEF DropMarker, LockedLabels, OnLabels, OnTry, ConfirmLabels, RestoreLabels, QuarantineLabels
    <3>. HIDE DEF to, Frame
    <3>. QED
      BY <1>2, <3>1
  <2>2. FlagsOK'
    BY <1>0, <1>18 DEF DropMarker, locals, FlagsOK
  <2>3. LocalsAt(p)'
    BY <1>0, <1>18, <2>1 DEF DropMarker, locals, LocalsAt, OnTry, DataOK, Configs
  <2>4. /\ config' \in Configs /\ backup' \in Bodies \cup {NoBackup}
        /\ state' \in Trials \cup {NoState, BadState} /\ marker' \in 0..MaxTrials
        /\ seen' \in Configs \cup {NoConfig} /\ rec' \in Trials \cup {NoState, BadState}
    BY BoundsAssumption, <1>0, <1>18, <2>1 DEF DropMarker, files, locals, LocalsAt, OnTry, DataOK, Configs, Trials, Actions
  <2>. HIDE DEF to, Frame
  <2>. QED
    BY <1>1, <2>1, <2>2, <2>3, <2>4
<1>19. CASE DropState(p)
  <2>. DEFINE to == "drop-backup"
  <2>1. Frame /\ lock = p /\ pc[p] = "drop-state" /\ pc'[p] = to
    <3>1. Does(p, "drop-state", to) /\ "drop-state" \in LockedLabels
      BY <1>19 DEF DropState, LockedLabels, OnLabels, OnTry, ConfirmLabels, RestoreLabels, QuarantineLabels
    <3>. HIDE DEF to, Frame
    <3>. QED
      BY <1>2, <3>1
  <2>2. FlagsOK'
    BY <1>0, <1>19 DEF DropState, locals, FlagsOK
  <2>3. LocalsAt(p)'
    BY <1>0, <1>19, <2>1 DEF DropState, locals, LocalsAt, OnTry, DataOK, Configs
  <2>4. /\ config' \in Configs /\ backup' \in Bodies \cup {NoBackup}
        /\ state' \in Trials \cup {NoState, BadState} /\ marker' \in 0..MaxTrials
        /\ seen' \in Configs \cup {NoConfig} /\ rec' \in Trials \cup {NoState, BadState}
    BY BoundsAssumption, <1>0, <1>19, <2>1 DEF DropState, files, locals, LocalsAt, OnTry, DataOK, Configs, Trials, Actions
  <2>. HIDE DEF to, Frame
  <2>. QED
    BY <1>1, <2>1, <2>2, <2>3, <2>4
<1>20. CASE DropBackup(p)
  <2>. DEFINE to == IF cmd[p] # "on" \/ invoked THEN "stop" ELSE IF changed THEN "restart" ELSE "snapshot"
  <2>1. Frame /\ lock = p /\ pc[p] = "drop-backup" /\ pc'[p] = to
    <3>1. Does(p, "drop-backup", to) /\ "drop-backup" \in LockedLabels
      BY <1>20 DEF DropBackup, LockedLabels, OnLabels, OnTry, ConfirmLabels, RestoreLabels, QuarantineLabels
    <3>. HIDE DEF to, Frame
    <3>. QED
      BY <1>2, <3>1
  <2>2. FlagsOK'
    BY <1>0, <1>20 DEF DropBackup, locals, FlagsOK
  <2>3. LocalsAt(p)'
    BY <1>0, <1>20, <2>1 DEF DropBackup, locals, LocalsAt, OnTry, DataOK, Configs
  <2>4. /\ config' \in Configs /\ backup' \in Bodies \cup {NoBackup}
        /\ state' \in Trials \cup {NoState, BadState} /\ marker' \in 0..MaxTrials
        /\ seen' \in Configs \cup {NoConfig} /\ rec' \in Trials \cup {NoState, BadState}
    BY BoundsAssumption, <1>0, <1>20, <2>1 DEF DropBackup, files, locals, LocalsAt, OnTry, DataOK, Configs, Trials, Actions
  <2>. HIDE DEF to, Frame
  <2>. QED
    BY <1>1, <2>1, <2>2, <2>3, <2>4
<1>21. CASE Await(p)
  <2>. DEFINE to == "snapshot"
  <2>1. Frame /\ lock = p /\ pc[p] = "await" /\ pc'[p] = to
    <3>1. Does(p, "await", to) /\ "await" \in LockedLabels
      BY <1>21 DEF Await, LockedLabels, OnLabels, OnTry, ConfirmLabels, RestoreLabels, QuarantineLabels
    <3>. HIDE DEF to, Frame
    <3>. QED
      BY <1>2, <3>1
  <2>2. FlagsOK'
    BY <1>0, <1>21 DEF Await, locals, FlagsOK
  <2>3. LocalsAt(p)'
    BY <1>0, <1>21, <2>1 DEF Await, locals, LocalsAt, OnTry, DataOK, Configs
  <2>4. /\ config' \in Configs /\ backup' \in Bodies \cup {NoBackup}
        /\ state' \in Trials \cup {NoState, BadState} /\ marker' \in 0..MaxTrials
        /\ seen' \in Configs \cup {NoConfig} /\ rec' \in Trials \cup {NoState, BadState}
    BY BoundsAssumption, <1>0, <1>21, <2>1 DEF Await, files, locals, LocalsAt, OnTry, DataOK, Configs, Trials, Actions
  <2>. HIDE DEF to, Frame
  <2>. QED
    BY <1>1, <2>1, <2>2, <2>3, <2>4
<1>. QED
  BY <1>3, <1>4, <1>5, <1>6, <1>7, <1>8, <1>9, <1>10, <1>11, <1>12, <1>13, <1>14, <1>15, <1>16, <1>17, <1>18, <1>19, <1>20, <1>21

(* Every step keeps the types and the locals. *)
LEMMA DataStep ==
    ASSUME Control, Control', Data, [Next]_vars
    PROVE  Data'
<1>0. DataOK /\ FlagsOK /\ LocalsInv /\ Guard \in Procs
  BY DEF Data, Procs
<1>1. ASSUME NEW kind, Fault(kind) PROVE faults' \in 0..MaxFaults
  BY BoundsAssumption, <1>0, <1>1 DEF Fault, DataOK
<1>2. ASSUME UNCHANGED <<seen, rec>>, NEW p \in Procs,
             \A q \in Procs \ {p} : pc'[q] = pc[q],
             pc'[p] \in OnTry \cup {"restore-verify", "restore-replace", "confirm-marker", "confirm-state"} =>
                 pc'[p] = pc[p] \/ {pc[p], pc'[p]} \subseteq OnTry
      PROVE  LocalsInv'
  BY <1>0, <1>2 DEF LocalsInv, LocalsAt, OnTry
<1>3. ASSUME NEW p \in Operators, NEW c \in Commands, Invoke(p, c) PROVE Data'
  <2>1. LocalsInv'
    BY <1>2, <1>3 DEF Invoke, Goto, Control, Procs, OnTry, locals
  <2>. QED
    BY <1>0, <1>3, <2>1 DEF Invoke, Data, DataOK, FlagsOK, files, units, arming, locals, world
<1>4. ASSUME NEW p \in Procs, Acquire(p) PROVE Data'
  <2>1. Entry(p) \in {"reread", "on-check", "confirm-check", "off-check", "snapshot", "revert-check"}
    BY DEF Entry
  <2>2. LocalsInv'
    BY <1>2, <1>4, <2>1 DEF Acquire, Goto, Control, OnTry, locals
  <2>. QED
    BY <1>0, <1>4, <2>2 DEF Acquire, Data, DataOK, FlagsOK, files, units, arming, locals, world
<1>5. ASSUME NEW p \in Procs, NEW ok, Finish(p, ok), UNCHANGED <<files, world, armedFor>>,
             snapshot' \in Snapshots \cup {NoSnapshot}, timer' \subseteq Triggers,
             faults' \in 0..MaxFaults
      PROVE  Data'
  BY <1>0, <1>5, FinishData DEF Data, DataOK, files, world
<1>6. ASSUME NEW p \in Procs, Busy(p) \/ LockTimeout(p) \/ OnRefused(p) \/ ConfirmRefused(p)
             \/ OffRefused(p) \/ RevertNothing(p)
      PROVE  Data'
  BY <1>0, <1>5, <1>6 DEF Busy, LockTimeout, OnRefused, ConfirmRefused, OffRefused, RevertNothing, DataOK, arming
<1>7. ASSUME NEW p \in Procs, ConfirmFails(p) \/ Kill(p) \/ QuarantineFails PROVE Data'
  BY <1>0, <1>1, <1>5, <1>7 DEF ConfirmFails, Kill, QuarantineFails, DataOK, arming
<1>8. ASSUME NEW p \in Procs, PublishSnapshot(p) PROVE Data'
  <2>1. Report \in Snapshots
    BY <1>0 DEF Report, Snapshots, DataOK, Configs, Pending, DenyOptIn, Recorded, Trials
  <2>. QED
    BY <1>0, <1>1, <1>5, <1>8, <2>1 DEF PublishSnapshot, DataOK, arming
<1>9. ASSUME NEW p \in Procs, OnCheck(p) PROVE Data'
  <2>1. lock' = p /\ pc'[p] = "on-backup"
    BY <1>9 DEF OnCheck, At, Goto, Control, LockInv, LockedLabels, OnLabels
  <2>2. rec' \in Trials /\ seen' \in Configs /\ trials' \in 0..MaxTrials
    BY BoundsAssumption, <1>0, <1>9 DEF OnCheck, DataOK, Trials, Configs
  <2>3. LocalsInv'
    BY <2>1, <2>2, HolderLocals DEF LocalsAt
  <2>. QED
    BY <1>0, <1>9, <2>2, <2>3 DEF OnCheck, Data, DataOK, FlagsOK, files, units, arming
<1>10. ASSUME NEW p \in Procs, OnTimer(p) \/ OnFails(p) \/ OnUnsynced(p) PROVE Data'
  <2>1. pc[p] \in OnTry /\ pc'[p] \in {"restore", "on-verify"} /\ (\A q \in Procs \ {p} : pc'[q] = pc[q])
        /\ (pc'[p] = "on-verify" => pc[p] = "on-timer") /\ UNCHANGED <<files, snapshot, daemon, seen, rec, changed, world>>
        /\ invoked' \in {invoked, FALSE}
    BY <1>10 DEF OnTimer, OnFails, OnUnsynced, At, Goto, Control, OnTry, locals, units
  <2>2. rec \in Trials
    BY <1>0, <2>1 DEF LocalsInv, LocalsAt
  <2>3. armedFor' \in 0..MaxTrials /\ timer' \subseteq Triggers /\ faults' \in 0..MaxFaults
    BY BoundsAssumption, <1>0, <1>1, <1>10, <2>2 DEF OnTimer, OnFails, OnUnsynced, DataOK, Trials, arming, units
  <2>4. LocalsInv'
    BY <1>2, <2>1 DEF OnTry, locals
  <2>. QED
    BY <1>0, <2>1, <2>3, <2>4 DEF Data, DataOK, FlagsOK, files, locals, world
<1>11. ASSUME NEW procs, StartJob(procs), procs \in [Procs -> Labels], NEW p \in Procs,
             \A q \in Procs \ {p} : procs[q] = pc[q], UNCHANGED <<files, snapshot, arming, locals, world, faults>>,
             procs[p] = pc[p] \/ procs[p] \in {"await"} \/ {procs[p], pc[p]} \subseteq OnTry
      PROVE  Data'
  <2>1. \A q \in Procs : pc'[q] = "look" \/ pc'[q] = procs[q]
    BY <1>0, <1>11 DEF StartJob
  <2>2. UNCHANGED <<seen, rec>>
    BY <1>11 DEF locals
  <2>3. LocalsInv'
    BY <1>0, <1>11, <2>1, <2>2 DEF LocalsInv, LocalsAt, OnTry
  <2>. QED
    BY <1>0, <1>11, <2>3 DEF StartJob, Data, DataOK, FlagsOK, files, arming, locals, world
<1>12. ASSUME NEW p \in Procs, RestartDaemon(p) PROVE Data'
  <2>1. PICK to \in {"on-await", "await"} : StartJob([pc EXCEPT ![p] = to])
            /\ (to = "on-await" => pc[p] = "on-restart")
    BY <1>12 DEF RestartDaemon, At
  <2>. DEFINE procs == [pc EXCEPT ![p] = to]
  <2>2. procs \in [Procs -> Labels] /\ procs[p] = to /\ (\A q \in Procs \ {p} : procs[q] = pc[q])
    BY DEF Control, Labels, LockedLabels, OnLabels, OnTry
  <2>3. to = "await" \/ {to, pc[p]} \subseteq OnTry
    BY <2>1 DEF OnTry
  <2>4. UNCHANGED <<files, snapshot, arming, locals, world, faults>>
    BY <1>12 DEF RestartDaemon
  <2>5. StartJob(procs)
    BY <2>1
  <2>. HIDE DEF procs
  <2>. QED
    BY <1>11, <2>2, <2>3, <2>4, <2>5
<1>13. ASSUME DaemonStart PROVE Data'
  <2>1. pc \in [Procs -> Labels]
    BY DEF Control
  <2>. QED
    BY <1>0, <1>11, <1>13, <2>1 DEF DaemonStart
<1>14. ASSUME NEW p \in Procs, RestoreFails(p) PROVE Data'
  <2>1. faults' \in 0..MaxFaults
    BY <1>0, <1>1, <1>14 DEF RestoreFails, DataOK
  <2>2. CASE p = Guard
    BY <1>0, <1>5, <1>14, <2>1, <2>2 DEF RestoreFails, arming, DataOK
  <2>3. CASE p # Guard
    <3>1. /\ pc'[p] \in {"snapshot", "stop", "restart"} /\ \A q \in Procs \ {p} : pc'[q] = pc[q]
          /\ UNCHANGED <<files, snapshot, arming, world, daemon, seen, rec, invoked>> /\ changed' = TRUE
      BY <1>14, <2>3 DEF RestoreFails, Goto, Control
    <3>2. LocalsInv'
      BY <1>2, <3>1 DEF OnTry
    <3>. QED
      BY <1>0, <2>1, <3>1, <3>2 DEF Data, DataOK, FlagsOK, files, arming, world
  <2>. QED
    BY <2>2, <2>3
<1>15. ASSUME NEW p \in Procs, StopTimer(p) \/ StopFails(p) PROVE Data'
  <2>1. faults' \in 0..MaxFaults /\ timer' \subseteq Triggers
    BY <1>0, <1>1, <1>15 DEF StopTimer, StopFails, DataOK
  <2>2. CASE p = Guard
    BY <1>0, <1>5, <1>15, <2>1, <2>2 DEF StopTimer, StopFails, DataOK
  <2>3. CASE p # Guard
    <3>1. /\ pc'[p] \in {"snapshot", "restart"} /\ \A q \in Procs \ {p} : pc'[q] = pc[q]
          /\ UNCHANGED <<files, snapshot, armedFor, world, daemon, locals>>
      BY <1>15, <2>3 DEF StopTimer, StopFails, AfterStop, Goto, Control
    <3>2. LocalsInv'
      BY <1>2, <3>1 DEF OnTry, locals
    <3>. QED
      BY <1>0, <2>1, <3>1, <3>2 DEF Data, DataOK, FlagsOK, files, world, locals
  <2>. QED
    BY <2>2, <2>3
<1>16. ASSUME NEW p \in Procs, RestartFails(p) PROVE Data'
  <2>1. LocalsInv'
    BY <1>2, <1>16 DEF RestartFails, Goto, Control, OnTry, locals
  <2>. QED
    BY <1>0, <1>1, <1>16, <2>1 DEF RestartFails, Data, DataOK, FlagsOK, files, units, arming, locals, world
<1>17. ASSUME GuardLook PROVE Data'
  <2>1. faults' \in 0..MaxFaults
    BY <1>0, <1>1, <1>17 DEF GuardLook, ReadFails, DataOK
  <2>2. CASE Finish(Guard, TRUE) /\ UNCHANGED arming
    BY <1>0, <1>5, <1>17, <2>1, <2>2 DEF GuardLook, arming, DataOK
  <2>3. CASE \E to \in {"lock", "lock-bad"} : Goto(Guard, to) /\ UNCHANGED <<units, locals>>
    <3>1. LocalsInv'
      BY <1>0, <1>2, <2>3 DEF Goto, Control, OnTry, locals
    <3>. QED
      BY <1>0, <1>17, <2>1, <2>3, <3>1 DEF GuardLook, Data, DataOK, FlagsOK, files, units, arming, locals, world
  <2>. QED
    BY <1>17, <2>2, <2>3 DEF GuardLook
<1>18. ASSUME GuardReread PROVE Data'
  <2>1. faults' \in 0..MaxFaults
    BY <1>0, <1>1, <1>18 DEF GuardReread, ReadFails, DataOK
  <2>2. CASE Finish(Guard, TRUE) /\ UNCHANGED arming
    BY <1>0, <1>5, <1>18, <2>1, <2>2 DEF GuardReread, arming, DataOK
  <2>3. CASE \E to \in {"revert-check", "restore"} :
               Goto(Guard, to) /\ rec' \in {rec, BadState} /\ UNCHANGED <<units, lock, seen, changed, invoked>>
    <3>1. lock' = Guard /\ pc'[Guard] \in {"revert-check", "restore"}
      BY <1>0, <1>18, <2>3 DEF GuardReread, At, Goto, Control, LockInv, LockedLabels
    <3>2. LocalsInv'
      BY <1>0, <3>1, HolderLocals DEF LocalsAt, OnTry
    <3>. QED
      BY <1>0, <1>18, <2>1, <2>3, <3>2 DEF GuardReread, Data, DataOK, FlagsOK, files, units, arming, world
  <2>. QED
    BY <1>18, <2>2, <2>3 DEF GuardReread, locals
<1>19. ASSUME SetAside \/ DropOptIn PROVE Data'
  <2>1. pc'[Guard] \in {"drop-opt-in", "stop-revert"} /\ (\A q \in Procs \ {Guard} : pc'[q] = pc[q])
    BY <1>0, <1>19 DEF SetAside, DropOptIn, Does, Goto, Control
  <2>2. LocalsInv'
    BY <1>0, <1>2, <1>19, <2>1 DEF SetAside, DropOptIn, OnTry, locals
  <2>3. FlagsOK'
    BY <1>0, <1>19 DEF SetAside, DropOptIn, FlagsOK, locals
  <2>4. state' \in {state, NoState} /\ marker' \in 0..MaxTrials
    BY BoundsAssumption, <1>0, <1>19 DEF SetAside, DropOptIn, DataOK
  <2>5. UNCHANGED <<config, backup, snapshot, timer, armedFor, daemon, seen, rec, boot, trials, late, faults>>
    BY <1>19 DEF SetAside, DropOptIn, Does, units, arming, locals, world
  <2>. QED
    BY <1>0, <2>2, <2>3, <2>4, <2>5 DEF Data, DataOK
<1>20. ASSUME StopRevert PROVE Data'
  BY <1>0, <1>1, <1>5, <1>20 DEF StopRevert, DataOK
<1>21. ASSUME NEW t \in Triggers, Elapse(t) PROVE Data'
  <2>1. Timer \in Procs
    BY DEF Procs
  <2>2. LocalsInv'
    BY <1>2, <1>21, <2>1 DEF Elapse, Goto, Control, OnTry, locals
  <2>. QED
    BY <1>0, <1>21, <2>2 DEF Elapse, Data, DataOK, FlagsOK, files, locals, world
<1>22. ASSUME UNCHANGED <<pc, seen, rec>> PROVE LocalsInv'
  BY <1>0, <1>22 DEF LocalsInv, LocalsAt
<1>23. ASSUME NEW i \in 1..MaxTrials, Deadline(i) PROVE Data'
  BY <1>0, <1>22, <1>23 DEF Deadline, Data, DataOK, FlagsOK, files, units, arming, locals
<1>24. ASSUME DaemonUp \/ DaemonDies PROVE Data'
  <2>1. daemon' \in Actions \cup {"down", "starting"}
    BY <1>0, <1>24 DEF DaemonUp, DaemonDies, DataOK, Configs
  <2>. QED
    BY <1>0, <1>1, <1>22, <1>24, <2>1 DEF DaemonUp, DaemonDies, Data, DataOK, FlagsOK, files, arming, locals, world
<1>25. ASSUME Edit PROVE Data'
  <2>1. config' \in Configs
    BY <1>0, <1>25 DEF Edit, DataOK, Configs, Actions
  <2>. QED
    BY <1>0, <1>1, <1>22, <1>25, <2>1 DEF Edit, Data, DataOK, FlagsOK, units, arming, locals, world
<1>26. ASSUME Corrupt PROVE Data'
  BY <1>0, <1>1, <1>22, <1>26 DEF Corrupt, Data, DataOK, FlagsOK, units, arming, locals, world
<1>27. ASSUME Reboot PROVE Data'
  <2>1. LocalsInv'
    BY <1>27, FreeLocals DEF Reboot
  <2>2. boot' \in 1..MaxBoots
    BY BoundsAssumption, <1>0, <1>27 DEF Reboot, DataOK
  <2>. QED
    BY <1>0, <1>27, <2>1, <2>2 DEF Reboot, Data, DataOK, FlagsOK, files
<1>28. ASSUME UNCHANGED vars PROVE Data'
  BY <1>0, <1>22, <1>28 DEF vars, Data, DataOK, FlagsOK, files, units, arming, locals, world
<1>. QED
  BY DoesData, <1>0, <1>3, <1>4, <1>6, <1>7, <1>8, <1>9, <1>10, <1>12, <1>13, <1>14, <1>15, <1>16, <1>17, <1>18,
     <1>19, <1>20, <1>21, <1>23, <1>24, <1>25, <1>26, <1>27, <1>28
     DEF Next, Step, Failure, GuardStep, Environment

----------------------------------------------------------------------------
(* The third layer: what the holder may rely on, the guard and the trial it *)
(* has to take back, and the safety properties themselves.                 *)

Rest == HolderInv /\ StaleInv /\ DenyRecorded /\ MarkerOfThisTrial

(* A process that ends keeps Rest; the guard succeeds only when no trial of *)
(* an earlier boot is pending.                                             *)
LEMMA FinishRest ==
    ASSUME Control, Control', Data, Rest, NEW p \in Procs, NEW ok, Finish(p, ok),
           UNCHANGED <<files, boot>>, p = Guard /\ ok => ~ShouldRevert
    PROVE  Rest'
<1>1. pc'[p] = "idle" /\ \A q \in Procs \ {p} : pc'[q] = pc[q]
  BY DEF Finish, Control
<1>2. UNCHANGED <<config, backup, state, marker, boot>>
  BY DEF files
<1>3. HolderInv'
  <2>1. CASE lock = p
    BY <2>1, FreeLocals DEF Finish
  <2>2. CASE lock # p
    <3>1. UNCHANGED rec
      BY <2>2 DEF Finish, locals
    <3>. QED
      BY <1>1, <1>2, <3>1 DEF Rest, HolderInv, HolderAt, At, Recorded
  <2>. QED
    BY <2>1, <2>2
<1>4. StaleInv'
  <2>1. ShouldRevert' <=> ShouldRevert
    BY <1>2 DEF ShouldRevert, Pending, Recorded
  <2>2. ASSUME ShouldRevert PROVE /\ guard' \in {"running", "failed"} /\ daemon' \in {"down", "starting"}
                                  /\ guard' = "failed" => daemon' = "down"
    BY <2>2 DEF Finish, Rest, StaleInv, ServiceActive
  <2>. QED
    BY <2>1, <2>2 DEF StaleInv, ServiceActive
<1>. QED
  BY <1>2, <1>3, <1>4 DEF Rest, DenyRecorded, MarkerOfThisTrial, Recorded

(* A step inside the critical section keeps Rest. *)
LEMMA DoesRest ==
    ASSUME Control, Control', Data, Rest, NEW p \in Procs,
           \/ OnBackup(p) \/ OnState(p) \/ OnVerify(p) \/ OnReplace(p)
           \/ OnAwait(p) \/ ConfirmLate(p) \/ ConfirmCheck(p) \/ ConfirmMarker(p)
           \/ ConfirmState(p) \/ OffCheck(p) \/ RevertCheck(p) \/ RestoreAlready(p)
           \/ RestoreRead(p) \/ RestoreVerify(p) \/ RestoreReplace(p) \/ DropMarker(p)
           \/ DropState(p) \/ DropBackup(p) \/ Await(p)
    PROVE  Rest'
<1>0. /\ LocalsAt(p) /\ HolderAt(p) /\ StaleInv /\ DenyRecorded /\ MarkerOfThisTrial
      /\ p = Guard => pc[p] \in GuardLabels /\ cmd[p] # "on"
  BY DEF Data, LocalsInv, Rest, HolderInv, Control, LockInv
<1>1. ASSUME NEW from \in LockedLabels, NEW to, Does(p, from, to)
      PROVE  /\ lock' = p /\ pc[p] = from /\ pc'[p] = to
             /\ UNCHANGED <<daemon, guard, boot>>
  BY <1>1 DEF Does, At, Goto, units, world, Control, LockInv
<1>2. ASSUME UNCHANGED <<daemon, guard, boot>>, state' = state \/ ~ShouldRevert' PROVE StaleInv'
  BY <1>0, <1>2 DEF StaleInv, ShouldRevert, Pending, Recorded, ServiceActive
<1>3. ASSUME UNCHANGED <<config, state, marker>> PROVE DenyRecorded' /\ MarkerOfThisTrial'
  BY <1>0, <1>3 DEF DenyRecorded, MarkerOfThisTrial, Recorded
<1>4. CASE OnBackup(p)
  <2>. DEFINE to == "on-state"
  <2>1. lock' = p /\ pc[p] = "on-backup" /\ pc'[p] = to /\ UNCHANGED <<daemon, guard, boot>>
    <3>1. Does(p, "on-backup", to) /\ "on-backup" \in LockedLabels
      BY <1>4 DEF OnBackup, LockedLabels, OnLabels, OnTry, ConfirmLabels, RestoreLabels, QuarantineLabels
    <3>. HIDE DEF to
    <3>. QED
      BY <1>1, <3>1
  <2>2. HolderAt(p)'
    BY <1>0, <1>4, <2>1 DEF OnBackup, files, locals, HolderAt, At, LocalsAt, OnTry, Pending, Recorded
  <2>3. UNCHANGED state
    BY <1>4 DEF OnBackup, files
  <2>4. DenyRecorded' /\ MarkerOfThisTrial'
    BY <1>3, <1>4 DEF OnBackup, files
  <2>. HIDE DEF to
  <2>. QED
    BY <1>2, <2>1, <2>2, <2>3, <2>4, HolderLocals DEF Rest
<1>5. CASE OnState(p)
  <2>. DEFINE to == "on-timer"
  <2>1. lock' = p /\ pc[p] = "on-state" /\ pc'[p] = to /\ UNCHANGED <<daemon, guard, boot>>
    <3>1. Does(p, "on-state", to) /\ "on-state" \in LockedLabels
      BY <1>5 DEF OnState, LockedLabels, OnLabels, OnTry, ConfirmLabels, RestoreLabels, QuarantineLabels
    <3>. HIDE DEF to
    <3>. QED
      BY <1>1, <3>1
  <2>2. HolderAt(p)'
    BY AbsentAssumption, <1>0, <1>5, <2>1 DEF OnState, files, locals, HolderAt, At, LocalsAt, OnTry, Pending, Recorded
  <2>3. ~ShouldRevert'
    BY <1>0, <1>5, <2>1 DEF OnState, LocalsAt, HolderAt, OnTry, ShouldRevert, Pending, Recorded, Trials, locals
  <2>4. DenyRecorded' /\ MarkerOfThisTrial'
    BY AbsentAssumption, <1>0, <1>5, <2>1 DEF OnState, DenyRecorded, MarkerOfThisTrial, HolderAt, LocalsAt, OnTry, At, Recorded, Trials
  <2>. HIDE DEF to
  <2>. QED
    BY <1>2, <2>1, <2>2, <2>3, <2>4, HolderLocals DEF Rest
<1>6. CASE OnVerify(p)
  <2>. DEFINE to == IF config = seen THEN "on-replace" ELSE "restore"
  <2>1. lock' = p /\ pc[p] = "on-verify" /\ pc'[p] = to /\ UNCHANGED <<daemon, guard, boot>>
    <3>1. Does(p, "on-verify", to) /\ "on-verify" \in LockedLabels
      BY <1>6 DEF OnVerify, LockedLabels, OnLabels, OnTry, ConfirmLabels, RestoreLabels, QuarantineLabels
    <3>. HIDE DEF to
    <3>. QED
      BY <1>1, <3>1
  <2>2. HolderAt(p)'
    BY <1>0, <1>6, <2>1 DEF OnVerify, files, locals, HolderAt, At, LocalsAt, OnTry, Pending, Recorded
  <2>3. UNCHANGED state
    BY <1>6 DEF OnVerify, files
  <2>4. DenyRecorded' /\ MarkerOfThisTrial'
    BY <1>3, <1>6 DEF OnVerify, files
  <2>. HIDE DEF to
  <2>. QED
    BY <1>2, <2>1, <2>2, <2>3, <2>4, HolderLocals DEF Rest
<1>7. CASE OnReplace(p)
  <2>. DEFINE to == "on-restart"
  <2>1. lock' = p /\ pc[p] = "on-replace" /\ pc'[p] = to /\ UNCHANGED <<daemon, guard, boot>>
    <3>1. Does(p, "on-replace", to) /\ "on-replace" \in LockedLabels
      BY <1>7 DEF OnReplace, LockedLabels, OnLabels, OnTry, ConfirmLabels, RestoreLabels, QuarantineLabels
    <3>. HIDE DEF to
    <3>. QED
      BY <1>1, <3>1
  <2>2. HolderAt(p)'
    BY <1>0, <1>7, <2>1 DEF OnReplace, files, locals, HolderAt, At, LocalsAt, OnTry, Pending, Recorded
  <2>3. UNCHANGED state
    BY <1>7 DEF OnReplace, files
  <2>4. DenyRecorded' /\ MarkerOfThisTrial'
    BY AbsentAssumption, <1>0, <1>7, <2>1 DEF OnReplace, DenyRecorded, MarkerOfThisTrial, HolderAt, LocalsAt, OnTry, At, Recorded, Trials
  <2>. HIDE DEF to
  <2>. QED
    BY <1>2, <2>1, <2>2, <2>3, <2>4, HolderLocals DEF Rest
<1>8. CASE OnAwait(p)
  <2>. DEFINE to == IF ServiceActive THEN "snapshot" ELSE "restore"
  <2>1. lock' = p /\ pc[p] = "on-await" /\ pc'[p] = to /\ UNCHANGED <<daemon, guard, boot>>
    <3>1. Does(p, "on-await", to) /\ "on-await" \in LockedLabels
      BY <1>8 DEF OnAwait, LockedLabels, OnLabels, OnTry, ConfirmLabels, RestoreLabels, QuarantineLabels
    <3>. HIDE DEF to
    <3>. QED
      BY <1>1, <3>1
  <2>2. HolderAt(p)'
    BY <1>0, <1>8, <2>1 DEF OnAwait, files, locals, HolderAt, At, LocalsAt, OnTry, Pending, Recorded
  <2>3. UNCHANGED state
    BY <1>8 DEF OnAwait, files
  <2>4. DenyRecorded' /\ MarkerOfThisTrial'
    BY <1>3, <1>8 DEF OnAwait, files
  <2>. HIDE DEF to
  <2>. QED
    BY <1>2, <2>1, <2>2, <2>3, <2>4, HolderLocals DEF Rest
<1>9. CASE ConfirmLate(p)
  <2>. DEFINE to == "off-check"
  <2>1. lock' = p /\ pc[p] = "confirm-check" /\ pc'[p] = to /\ UNCHANGED <<daemon, guard, boot>>
    <3>1. Does(p, "confirm-check", to) /\ "confirm-check" \in LockedLabels
      BY <1>9 DEF ConfirmLate, LockedLabels, OnLabels, OnTry, ConfirmLabels, RestoreLabels, QuarantineLabels
    <3>. HIDE DEF to
    <3>. QED
      BY <1>1, <3>1
  <2>2. HolderAt(p)'
    BY <1>0, <1>9, <2>1 DEF ConfirmLate, files, locals, HolderAt, At, LocalsAt, OnTry, Pending, Recorded
  <2>3. UNCHANGED state
    BY <1>9 DEF ConfirmLate, files
  <2>4. DenyRecorded' /\ MarkerOfThisTrial'
    BY <1>3, <1>9 DEF ConfirmLate, files
  <2>. HIDE DEF to
  <2>. QED
    BY <1>2, <2>1, <2>2, <2>3, <2>4, HolderLocals DEF Rest
<1>10. CASE ConfirmCheck(p)
  <2>. DEFINE to == "confirm-marker"
  <2>1. lock' = p /\ pc[p] = "confirm-check" /\ pc'[p] = to /\ UNCHANGED <<daemon, guard, boot>>
    <3>1. Does(p, "confirm-check", to) /\ "confirm-check" \in LockedLabels
      BY <1>10 DEF ConfirmCheck, LockedLabels, OnLabels, OnTry, ConfirmLabels, RestoreLabels, QuarantineLabels
    <3>. HIDE DEF to
    <3>. QED
      BY <1>1, <3>1
  <2>2. HolderAt(p)'
    BY <1>0, <1>10, <2>1 DEF ConfirmCheck, files, locals, HolderAt, At, LocalsAt, OnTry, Pending, Recorded
  <2>3. UNCHANGED state
    BY <1>10 DEF ConfirmCheck, files
  <2>4. DenyRecorded' /\ MarkerOfThisTrial'
    BY <1>3, <1>10 DEF ConfirmCheck, files
  <2>. HIDE DEF to
  <2>. QED
    BY <1>2, <2>1, <2>2, <2>3, <2>4, HolderLocals DEF Rest
<1>11. CASE ConfirmMarker(p)
  <2>. DEFINE to == "confirm-state"
  <2>1. lock' = p /\ pc[p] = "confirm-marker" /\ pc'[p] = to /\ UNCHANGED <<daemon, guard, boot>>
    <3>1. Does(p, "confirm-marker", to) /\ "confirm-marker" \in LockedLabels
      BY <1>11 DEF ConfirmMarker, LockedLabels, OnLabels, OnTry, ConfirmLabels, RestoreLabels, QuarantineLabels
    <3>. HIDE DEF to
    <3>. QED
      BY <1>1, <3>1
  <2>2. HolderAt(p)'
    BY <1>0, <1>11, <2>1 DEF ConfirmMarker, files, locals, HolderAt, At, LocalsAt, OnTry, Pending, Recorded
  <2>3. UNCHANGED state
    BY <1>11 DEF ConfirmMarker, files
  <2>4. DenyRecorded' /\ MarkerOfThisTrial'
    BY AbsentAssumption, <1>0, <1>11, <2>1 DEF ConfirmMarker, DenyRecorded, MarkerOfThisTrial, HolderAt, LocalsAt, OnTry, At, Recorded, Trials
  <2>. HIDE DEF to
  <2>. QED
    BY <1>2, <2>1, <2>2, <2>3, <2>4, HolderLocals DEF Rest
<1>12. CASE ConfirmState(p)
  <2>. DEFINE to == "stop"
  <2>1. lock' = p /\ pc[p] = "confirm-state" /\ pc'[p] = to /\ UNCHANGED <<daemon, guard, boot>>
    <3>1. Does(p, "confirm-state", to) /\ "confirm-state" \in LockedLabels
      BY <1>12 DEF ConfirmState, LockedLabels, OnLabels, OnTry, ConfirmLabels, RestoreLabels, QuarantineLabels
    <3>. HIDE DEF to
    <3>. QED
      BY <1>1, <3>1
  <2>2. HolderAt(p)'
    BY <1>0, <1>12, <2>1 DEF ConfirmState, files, locals, HolderAt, At, LocalsAt, OnTry, Pending, Recorded, GuardLabels, GuardOnly, RestoreLabels, QuarantineLabels
  <2>3. ~ShouldRevert'
    BY <1>0, <1>12, <2>1 DEF ConfirmState, LocalsAt, HolderAt, OnTry, ShouldRevert, Pending, Recorded, Trials, locals
  <2>4. DenyRecorded' /\ MarkerOfThisTrial'
    BY AbsentAssumption, <1>0, <1>12, <2>1 DEF ConfirmState, DenyRecorded, MarkerOfThisTrial, HolderAt, LocalsAt, OnTry, At, Recorded, Trials
  <2>. HIDE DEF to
  <2>. QED
    BY <1>2, <2>1, <2>2, <2>3, <2>4, HolderLocals DEF Rest
<1>13. CASE OffCheck(p)
  <2>. DEFINE to == "restore"
  <2>1. lock' = p /\ pc[p] = "off-check" /\ pc'[p] = to /\ UNCHANGED <<daemon, guard, boot>>
    <3>1. Does(p, "off-check", to) /\ "off-check" \in LockedLabels
      BY <1>13 DEF OffCheck, LockedLabels, OnLabels, OnTry, ConfirmLabels, RestoreLabels, QuarantineLabels
    <3>. HIDE DEF to
    <3>. QED
      BY <1>1, <3>1
  <2>2. HolderAt(p)'
    BY <1>0, <1>13, <2>1 DEF OffCheck, files, locals, HolderAt, At, LocalsAt, OnTry, Pending, Recorded
  <2>3. UNCHANGED state
    BY <1>13 DEF OffCheck, files
  <2>4. DenyRecorded' /\ MarkerOfThisTrial'
    BY <1>3, <1>13 DEF OffCheck, files
  <2>. HIDE DEF to
  <2>. QED
    BY <1>2, <2>1, <2>2, <2>3, <2>4, HolderLocals DEF Rest
<1>14. CASE RevertCheck(p)
  <2>. DEFINE to == "restore"
  <2>1. lock' = p /\ pc[p] = "revert-check" /\ pc'[p] = to /\ UNCHANGED <<daemon, guard, boot>>
    <3>1. Does(p, "revert-check", to) /\ "revert-check" \in LockedLabels
      BY <1>14 DEF RevertCheck, LockedLabels, OnLabels, OnTry, ConfirmLabels, RestoreLabels, QuarantineLabels
    <3>. HIDE DEF to
    <3>. QED
      BY <1>1, <3>1
  <2>2. HolderAt(p)'
    BY <1>0, <1>14, <2>1 DEF RevertCheck, files, locals, HolderAt, At, LocalsAt, OnTry, Pending, Recorded
  <2>3. UNCHANGED state
    BY <1>14 DEF RevertCheck, files
  <2>4. DenyRecorded' /\ MarkerOfThisTrial'
    BY <1>3, <1>14 DEF RevertCheck, files
  <2>. HIDE DEF to
  <2>. QED
    BY <1>2, <2>1, <2>2, <2>3, <2>4, HolderLocals DEF Rest
<1>15. CASE RestoreAlready(p)
  <2>. DEFINE to == AfterRestore(p)
  <2>1. lock' = p /\ pc[p] = "restore" /\ pc'[p] = to /\ UNCHANGED <<daemon, guard, boot>>
    <3>1. Does(p, "restore", to) /\ "restore" \in LockedLabels
      BY <1>15 DEF RestoreAlready, LockedLabels, OnLabels, OnTry, ConfirmLabels, RestoreLabels, QuarantineLabels
    <3>. HIDE DEF to
    <3>. QED
      BY <1>1, <3>1
  <2>2. HolderAt(p)'
    BY <1>0, <1>15, <2>1 DEF RestoreAlready, files, locals, HolderAt, At, LocalsAt, OnTry, Pending, Recorded, AfterRestore, Restored
  <2>3. UNCHANGED state
    BY <1>15 DEF RestoreAlready, files
  <2>4. DenyRecorded' /\ MarkerOfThisTrial'
    BY <1>3, <1>15 DEF RestoreAlready, files
  <2>. HIDE DEF to
  <2>. QED
    BY <1>2, <2>1, <2>2, <2>3, <2>4, HolderLocals DEF Rest
<1>16. CASE RestoreRead(p)
  <2>. DEFINE to == "restore-verify"
  <2>1. lock' = p /\ pc[p] = "restore" /\ pc'[p] = to /\ UNCHANGED <<daemon, guard, boot>>
    <3>1. Does(p, "restore", to) /\ "restore" \in LockedLabels
      BY <1>16 DEF RestoreRead, LockedLabels, OnLabels, OnTry, ConfirmLabels, RestoreLabels, QuarantineLabels
    <3>. HIDE DEF to
    <3>. QED
      BY <1>1, <3>1
  <2>2. HolderAt(p)'
    BY <1>0, <1>16, <2>1 DEF RestoreRead, files, locals, HolderAt, At, LocalsAt, OnTry, Pending, Recorded, AfterRestore, Restored
  <2>3. UNCHANGED state
    BY <1>16 DEF RestoreRead, files
  <2>4. DenyRecorded' /\ MarkerOfThisTrial'
    BY <1>3, <1>16 DEF RestoreRead, files
  <2>. HIDE DEF to
  <2>. QED
    BY <1>2, <2>1, <2>2, <2>3, <2>4, HolderLocals DEF Rest
<1>17. CASE RestoreVerify(p)
  <2>. DEFINE to == "restore-replace"
  <2>1. lock' = p /\ pc[p] = "restore-verify" /\ pc'[p] = to /\ UNCHANGED <<daemon, guard, boot>>
    <3>1. Does(p, "restore-verify", to) /\ "restore-verify" \in LockedLabels
      BY <1>17 DEF RestoreVerify, LockedLabels, OnLabels, OnTry, ConfirmLabels, RestoreLabels, QuarantineLabels
    <3>. HIDE DEF to
    <3>. QED
      BY <1>1, <3>1
  <2>2. HolderAt(p)'
    BY <1>0, <1>17, <2>1 DEF RestoreVerify, files, locals, HolderAt, At, LocalsAt, OnTry, Pending, Recorded, AfterRestore, Restored
  <2>3. UNCHANGED state
    BY <1>17 DEF RestoreVerify, files
  <2>4. DenyRecorded' /\ MarkerOfThisTrial'
    BY <1>3, <1>17 DEF RestoreVerify, files
  <2>. HIDE DEF to
  <2>. QED
    BY <1>2, <2>1, <2>2, <2>3, <2>4, HolderLocals DEF Rest
<1>18. CASE RestoreReplace(p)
  <2>. DEFINE to == AfterRestore(p)
  <2>1. lock' = p /\ pc[p] = "restore-replace" /\ pc'[p] = to /\ UNCHANGED <<daemon, guard, boot>>
    <3>1. Does(p, "restore-replace", to) /\ "restore-replace" \in LockedLabels
      BY <1>18 DEF RestoreReplace, LockedLabels, OnLabels, OnTry, ConfirmLabels, RestoreLabels, QuarantineLabels
    <3>. HIDE DEF to
    <3>. QED
      BY <1>1, <3>1
  <2>2. HolderAt(p)'
    BY <1>0, <1>18, <2>1 DEF RestoreReplace, files, locals, HolderAt, At, LocalsAt, OnTry, Pending, Recorded, AfterRestore, Restored
  <2>3. UNCHANGED state
    BY <1>18 DEF RestoreReplace, files
  <2>4. DenyRecorded' /\ MarkerOfThisTrial'
    BY AbsentAssumption, <1>0, <1>18, <2>1 DEF RestoreReplace, DenyRecorded, MarkerOfThisTrial, HolderAt, LocalsAt, OnTry, At, Recorded, Trials, AfterRestore, Restored
  <2>. HIDE DEF to
  <2>. QED
    BY <1>2, <2>1, <2>2, <2>3, <2>4, HolderLocals DEF Rest
<1>19. CASE DropMarker(p)
  <2>. DEFINE to == "drop-state"
  <2>1. lock' = p /\ pc[p] = "drop-marker" /\ pc'[p] = to /\ UNCHANGED <<daemon, guard, boot>>
    <3>1. Does(p, "drop-marker", to) /\ "drop-marker" \in LockedLabels
      BY <1>19 DEF DropMarker, LockedLabels, OnLabels, OnTry, ConfirmLabels, RestoreLabels, QuarantineLabels
    <3>. HIDE DEF to
    <3>. QED
      BY <1>1, <3>1
  <2>2. HolderAt(p)'
    BY <1>0, <1>19, <2>1 DEF DropMarker, files, locals, HolderAt, At, LocalsAt, OnTry, Pending, Recorded
  <2>3. UNCHANGED state
    BY <1>19 DEF DropMarker, files
  <2>4. DenyRecorded' /\ MarkerOfThisTrial'
    BY AbsentAssumption, <1>0, <1>19, <2>1 DEF DropMarker, DenyRecorded, MarkerOfThisTrial, HolderAt, LocalsAt, OnTry, At, Recorded, Trials
  <2>. HIDE DEF to
  <2>. QED
    BY <1>2, <2>1, <2>2, <2>3, <2>4, HolderLocals DEF Rest
<1>20. CASE DropState(p)
  <2>. DEFINE to == "drop-backup"
  <2>1. lock' = p /\ pc[p] = "drop-state" /\ pc'[p] = to /\ UNCHANGED <<daemon, guard, boot>>
    <3>1. Does(p, "drop-state", to) /\ "drop-state" \in LockedLabels
      BY <1>20 DEF DropState, LockedLabels, OnLabels, OnTry, ConfirmLabels, RestoreLabels, QuarantineLabels
    <3>. HIDE DEF to
    <3>. QED
      BY <1>1, <3>1
  <2>2. HolderAt(p)'
    BY <1>0, <1>20, <2>1 DEF DropState, files, locals, HolderAt, At, LocalsAt, OnTry, Pending, Recorded
  <2>3. ~ShouldRevert'
    BY <1>0, <1>20, <2>1 DEF DropState, LocalsAt, HolderAt, OnTry, ShouldRevert, Pending, Recorded, Trials, locals
  <2>4. DenyRecorded' /\ MarkerOfThisTrial'
    BY AbsentAssumption, <1>0, <1>20, <2>1 DEF DropState, DenyRecorded, MarkerOfThisTrial, HolderAt, LocalsAt, OnTry, At, Recorded, Trials
  <2>. HIDE DEF to
  <2>. QED
    BY <1>2, <2>1, <2>2, <2>3, <2>4, HolderLocals DEF Rest
<1>21. CASE DropBackup(p)
  <2>. DEFINE to == IF cmd[p] # "on" \/ invoked THEN "stop" ELSE IF changed THEN "restart" ELSE "snapshot"
  <2>1. lock' = p /\ pc[p] = "drop-backup" /\ pc'[p] = to /\ UNCHANGED <<daemon, guard, boot>>
    <3>1. Does(p, "drop-backup", to) /\ "drop-backup" \in LockedLabels
      BY <1>21 DEF DropBackup, LockedLabels, OnLabels, OnTry, ConfirmLabels, RestoreLabels, QuarantineLabels
    <3>. HIDE DEF to
    <3>. QED
      BY <1>1, <3>1
  <2>2. HolderAt(p)'
    BY <1>0, <1>21, <2>1 DEF DropBackup, files, locals, HolderAt, At, LocalsAt, OnTry, Pending, Recorded
  <2>3. UNCHANGED state
    BY <1>21 DEF DropBackup, files
  <2>4. DenyRecorded' /\ MarkerOfThisTrial'
    BY <1>3, <1>21 DEF DropBackup, files
  <2>. HIDE DEF to
  <2>. QED
    BY <1>2, <2>1, <2>2, <2>3, <2>4, HolderLocals DEF Rest
<1>22. CASE Await(p)
  <2>. DEFINE to == "snapshot"
  <2>1. lock' = p /\ pc[p] = "await" /\ pc'[p] = to /\ UNCHANGED <<daemon, guard, boot>>
    <3>1. Does(p, "await", to) /\ "await" \in LockedLabels
      BY <1>22 DEF Await, LockedLabels, OnLabels, OnTry, ConfirmLabels, RestoreLabels, QuarantineLabels
    <3>. HIDE DEF to
    <3>. QED
      BY <1>1, <3>1
  <2>2. HolderAt(p)'
    BY <1>0, <1>22, <2>1 DEF Await, files, locals, HolderAt, At, LocalsAt, OnTry, Pending, Recorded
  <2>3. UNCHANGED state
    BY <1>22 DEF Await, files
  <2>4. DenyRecorded' /\ MarkerOfThisTrial'
    BY <1>3, <1>22 DEF Await, files
  <2>. HIDE DEF to
  <2>. QED
    BY <1>2, <2>1, <2>2, <2>3, <2>4, HolderLocals DEF Rest
<1>. QED
  BY <1>4, <1>5, <1>6, <1>7, <1>8, <1>9, <1>10, <1>11, <1>12, <1>13, <1>14, <1>15, <1>16, <1>17, <1>18, <1>19, <1>20, <1>21, <1>22

(* Every step keeps Rest. *)
LEMMA RestStep ==
    ASSUME Control, Control', Data, Rest, [Next]_vars
    PROVE  Rest'
<1>0. /\ HolderInv /\ StaleInv /\ DenyRecorded /\ MarkerOfThisTrial /\ LocalsInv /\ DataOK
      /\ Guard \in Procs /\ Timer \in Procs /\ Operators \subseteq Procs
      /\ pc \in [Procs -> Labels] /\ pc[Guard] \in GuardLabels
  BY DEF Data, Rest, Procs, Control, LockInv
<1>1. ASSUME UNCHANGED <<config, backup, state, marker, rec, boot>>,
             \A q \in Procs : pc'[q] = pc[q] \/ pc'[q] \notin LockedLabels
      PROVE  HolderInv'
  <2>1. ASSUME NEW q \in Procs, pc'[q] = pc[q] PROVE HolderAt(q)'
    BY <1>0, <1>1, <2>1 DEF HolderInv, HolderAt, At, Recorded
  <2>. QED
    BY <1>1, <2>1, OutsideLocals DEF HolderInv
<1>2. ASSUME UNCHANGED <<config, state, marker>> PROVE DenyRecorded' /\ MarkerOfThisTrial'
  BY <1>0, <1>2 DEF DenyRecorded, MarkerOfThisTrial, Recorded
<1>3. ASSUME UNCHANGED <<daemon, guard, boot, state>> PROVE StaleInv'
  BY <1>0, <1>3 DEF StaleInv, ShouldRevert, Pending, Recorded, ServiceActive
<1>4. "lock" \notin LockedLabels /\ "lock-bad" \notin LockedLabels /\ "look" \notin LockedLabels
  BY DEF LockedLabels, OnLabels, OnTry, ConfirmLabels, RestoreLabels, QuarantineLabels
<1>5. ASSUME NEW p \in Operators, NEW c \in Commands, Invoke(p, c) PROVE Rest'
  <2>1. \A q \in Procs : pc'[q] = pc[q] \/ pc'[q] = "lock"
    BY <1>0, <1>5 DEF Invoke, Goto
  <2>. QED
    BY <1>1, <1>2, <1>3, <1>4, <1>5, <2>1 DEF Invoke, Rest, files, units, locals, world
<1>6. ASSUME NEW p \in Procs, Acquire(p) PROVE Rest'
  <2>1. pc'[p] \in {"reread", "on-check", "confirm-check", "off-check", "snapshot", "revert-check"} /\ lock' = p
    BY <1>0, <1>6 DEF Acquire, Goto, Entry
  <2>2. HolderInv'
    BY <2>1, HolderLocals DEF HolderAt, At
  <2>. QED
    BY <1>2, <1>3, <1>6, <2>2 DEF Acquire, Rest, files, units, world
<1>7. ASSUME NEW p \in Procs,
             \/ Busy(p) \/ LockTimeout(p) \/ OnRefused(p) \/ ConfirmRefused(p) \/ ConfirmFails(p)
             \/ OffRefused(p) \/ RevertNothing(p) \/ PublishSnapshot(p) \/ Kill(p)
      PROVE  Rest'
  <2>1. CASE Finish(p, FALSE) /\ UNCHANGED <<files, world>>
    BY <2>1, FinishRest DEF world
  <2>2. CASE OffRefused(p) \/ PublishSnapshot(p)
    <3>1. p # Guard
      BY <1>0, <2>2 DEF OffRefused, PublishSnapshot, At, GuardLabels, GuardOnly, RestoreLabels, QuarantineLabels
    <3>. QED
      BY <2>2, <3>1, FinishRest DEF OffRefused, PublishSnapshot, world
  <2>3. CASE RevertNothing(p)
    <3>1. ~ShouldRevert
      BY <2>3 DEF RevertNothing, ShouldRevert
    <3>. QED
      BY <2>3, <3>1, FinishRest DEF RevertNothing, world
  <2>. QED
    BY <1>7, <2>1, <2>2, <2>3 DEF Busy, LockTimeout, OnRefused, ConfirmRefused, ConfirmFails, Kill
<1>8. ASSUME NEW p \in Procs, OnCheck(p) PROVE Rest'
  <2>1. lock' = p /\ pc'[p] = "on-backup"
    BY <1>8 DEF OnCheck, At, Goto, Control, LockInv, LockedLabels, OnLabels
  <2>2. rec'.boot = boot /\ boot' = boot
    BY <1>8 DEF OnCheck
  <2>3. marker = 0 /\ marker' = marker
    BY <1>0, <1>8 DEF OnCheck, CanEnable, DenyOptIn, Pending, Recorded, MarkerOfThisTrial, files
  <2>4. HolderInv'
    BY <2>1, <2>2, <2>3, HolderLocals DEF HolderAt, At
  <2>. QED
    BY <1>2, <1>3, <1>8, <2>4 DEF OnCheck, Rest, files, units
<1>9. ASSUME NEW p \in Procs, OnTimer(p) \/ OnFails(p) \/ OnUnsynced(p) PROVE Rest'
  <2>1. lock' = p /\ pc'[p] \in {"restore", "on-verify"} /\ (pc'[p] = "on-verify" => pc[p] = "on-timer")
        /\ UNCHANGED <<files, daemon, guard, world>>
    BY <1>0, <1>9 DEF OnTimer, OnFails, OnUnsynced, At, Goto, Control, LockInv, LockedLabels, OnLabels, OnTry, units
  <2>2. HolderInv'
    BY <1>0, <2>1, HolderLocals DEF HolderInv, HolderAt, At, files
  <2>. QED
    BY <1>2, <1>3, <2>1, <2>2 DEF Rest, files, world
<1>10. ASSUME NEW procs, StartJob(procs), UNCHANGED <<files, boot>>, UNCHANGED rec,
             \A q \in Procs : procs[q] = pc[q] \/ procs[q] \in {"await", "on-await"},
             procs \in [Procs -> Labels]
      PROVE  Rest'
  <2>1. \A q \in Procs : pc'[q] = pc[q] \/ pc'[q] \in {"await", "on-await", "look"}
    BY <1>0, <1>10 DEF StartJob
  <2>2. ASSUME NEW q \in Procs PROVE HolderAt(q)'
    BY <1>0, <1>10, <2>1 DEF HolderInv, HolderAt, At, Recorded, files
  <2>3. StaleInv'
    BY <1>0, <1>10 DEF StartJob, GuardWanted, StaleInv, ShouldRevert, Pending, Recorded, ServiceActive, files
  <2>. QED
    BY <1>2, <1>10, <2>2, <2>3 DEF Rest, HolderInv, files
<1>11. ASSUME NEW p \in Procs, RestartDaemon(p) PROVE Rest'
  <2>1. PICK to \in {"on-await", "await"} : StartJob([pc EXCEPT ![p] = to])
    BY <1>11 DEF RestartDaemon
  <2>. DEFINE procs == [pc EXCEPT ![p] = to]
  <2>2. procs \in [Procs -> Labels] /\ \A q \in Procs : procs[q] = pc[q] \/ procs[q] \in {"await", "on-await"}
    BY <1>0 DEF Labels, LockedLabels, OnLabels, OnTry
  <2>3. StartJob(procs) /\ UNCHANGED <<files, boot>> /\ UNCHANGED rec
    BY <1>11, <2>1 DEF RestartDaemon, world, locals
  <2>. HIDE DEF procs
  <2>. QED
    BY <1>10, <2>2, <2>3
<1>12. ASSUME DaemonStart PROVE Rest'
  BY <1>0, <1>10, <1>12 DEF DaemonStart, world, locals
<1>13. ASSUME NEW p \in Procs, RestoreFails(p) PROVE Rest'
  <2>1. CASE p = Guard
    BY <1>13, <2>1, FinishRest DEF RestoreFails, world
  <2>2. CASE p # Guard
    <3>1. /\ pc'[p] \in {"snapshot", "stop", "restart"} /\ lock' = p
          /\ UNCHANGED <<files, daemon, guard, world>>
      BY <1>0, <1>13, <2>2 DEF RestoreFails, Goto, At, Control, LockInv, LockedLabels, RestoreLabels
    <3>2. HolderInv'
      BY <2>2, <3>1, HolderLocals DEF HolderAt, At
    <3>. QED
      BY <1>2, <1>3, <3>1, <3>2 DEF Rest, files, world
  <2>. QED
    BY <2>1, <2>2
<1>14. ASSUME NEW p \in Procs, StopTimer(p) \/ StopFails(p) PROVE Rest'
  <2>1. At(p, "stop") /\ UNCHANGED <<files, world>>
    BY <1>14 DEF StopTimer, StopFails
  <2>2. CASE p = Guard
    <3>1. ~ShouldRevert
      BY <1>0, <2>1, <2>2 DEF HolderInv, HolderAt, At, ShouldRevert, Pending, Recorded
    <3>2. PICK ok \in BOOLEAN : Finish(p, ok)
      BY <1>14, <2>2 DEF StopTimer, StopFails
    <3>. QED
      BY <2>1, <3>1, <3>2, FinishRest DEF world
  <2>3. CASE p # Guard
    <3>1. pc'[p] \in {"snapshot", "restart"} /\ lock' = p /\ UNCHANGED <<daemon, guard>>
      BY <1>0, <1>14, <2>1, <2>3 DEF StopTimer, StopFails, AfterStop, Goto, At, Control, LockInv, LockedLabels
    <3>2. HolderInv'
      BY <3>1, HolderLocals DEF HolderAt, At
    <3>. QED
      BY <1>2, <1>3, <2>1, <3>1, <3>2 DEF Rest, files, world
  <2>. QED
    BY <2>2, <2>3
<1>15. ASSUME NEW p \in Procs, RestartFails(p) PROVE Rest'
  <2>1. pc'[p] = "snapshot" /\ lock' = p /\ UNCHANGED <<files, daemon, guard, world>>
    BY <1>0, <1>15 DEF RestartFails, Goto, units, Control, LockInv, LockedLabels
  <2>2. HolderInv'
    BY <2>1, HolderLocals DEF HolderAt, At
  <2>. QED
    BY <1>2, <1>3, <2>1, <2>2 DEF Rest, files, world
<1>16. ASSUME GuardLook \/ GuardReread PROVE Rest'
  <2>1. UNCHANGED <<files, world>>
    BY <1>16 DEF GuardLook, GuardReread
  <2>2. CASE Finish(Guard, TRUE) /\ ~ShouldRevert
    BY <1>0, <2>1, <2>2, FinishRest DEF world
  <2>3. CASE \E to \in {"lock", "lock-bad"} : Goto(Guard, to) /\ UNCHANGED <<units, locals>>
    <3>1. \A q \in Procs : pc'[q] = pc[q] \/ pc'[q] \in {"lock", "lock-bad"}
      BY <1>0, <2>3 DEF Goto
    <3>. QED
      BY <1>1, <1>2, <1>3, <1>4, <2>1, <2>3, <3>1 DEF Rest, files, units, locals, world
  <2>4. CASE \E to \in {"revert-check", "restore"} :
               At(Guard, "reread") /\ Goto(Guard, to) /\ UNCHANGED <<units, lock>>
    <3>1. pc'[Guard] \in {"revert-check", "restore"} /\ lock' = Guard /\ UNCHANGED units
      BY <1>0, <2>4 DEF Goto, At, Control, LockInv, LockedLabels
    <3>2. HolderInv'
      BY <1>0, <3>1, HolderLocals DEF HolderAt, At
    <3>. QED
      BY <1>2, <1>3, <2>1, <3>1, <3>2 DEF Rest, files, units, world
  <2>. QED
    BY <1>16, <2>2, <2>3, <2>4 DEF GuardLook, GuardReread
<1>17. ASSUME SetAside \/ DropOptIn PROVE Rest'
  <2>1. lock' = Guard /\ UNCHANGED <<config, daemon, guard, boot>>
    BY <1>0, <1>17 DEF SetAside, DropOptIn, Does, At, units, world, Control, LockInv, LockedLabels, QuarantineLabels
  <2>2. CASE SetAside
    <3>1. pc[Guard] = "set-aside" /\ pc'[Guard] = "drop-opt-in" /\ state' = NoState /\ marker' = marker
      BY <1>0, <2>2 DEF SetAside, Does, At, Goto
    <3>2. config.action # "deny"
      BY <1>0, <3>1 DEF HolderInv, HolderAt
    <3>3. HolderInv'
      BY <1>0, <2>1, <3>1, HolderLocals DEF HolderAt, At
    <3>4. ~ShouldRevert' /\ ~Recorded(state)'
      BY <3>1 DEF ShouldRevert, Pending, Recorded
    <3>. QED
      BY <2>1, <3>2, <3>3, <3>4 DEF Rest, StaleInv, DenyRecorded, MarkerOfThisTrial
  <2>3. CASE DropOptIn
    <3>1. pc[Guard] = "drop-opt-in" /\ pc'[Guard] = "stop-revert" /\ state' = state /\ marker' = 0
      BY <1>0, <2>3 DEF DropOptIn, Does, At, Goto
    <3>2. HolderInv'
      BY <1>0, <2>1, <3>1, HolderLocals DEF HolderInv, HolderAt, At
    <3>. QED
      BY <1>0, <1>3, <2>1, <3>1, <3>2 DEF Rest, DenyRecorded, MarkerOfThisTrial
  <2>. QED
    BY <1>17, <2>2, <2>3
<1>18. ASSUME QuarantineFails \/ StopRevert PROVE Rest'
  <2>1. CASE QuarantineFails
    BY <1>0, <2>1, FinishRest DEF QuarantineFails, world
  <2>2. CASE StopRevert
    <3>1. ~ShouldRevert
      BY <1>0, <2>2 DEF StopRevert, HolderInv, HolderAt, At, ShouldRevert, Pending, Recorded
    <3>2. PICK ok \in BOOLEAN : Finish(Guard, ok)
      BY <2>2 DEF StopRevert
    <3>. QED
      BY <1>0, <2>2, <3>1, <3>2, FinishRest DEF StopRevert, world
  <2>. QED
    BY <1>18, <2>1, <2>2
<1>19. ASSUME NEW t \in Triggers, Elapse(t) PROVE Rest'
  <2>1. \A q \in Procs : pc'[q] = pc[q] \/ pc'[q] = "lock"
    BY <1>0, <1>19 DEF Elapse, Goto
  <2>. QED
    BY <1>1, <1>2, <1>3, <1>4, <1>19, <2>1 DEF Elapse, Rest, files, locals, world
<1>20. ASSUME (\E i \in 1..MaxTrials : Deadline(i)) \/ UNCHANGED vars PROVE Rest'
  BY <1>1, <1>2, <1>3, <1>20 DEF Deadline, vars, Rest, files, units, locals, world
<1>21. ASSUME DaemonUp \/ DaemonDies PROVE Rest'
  <2>1. ~ShouldRevert /\ UNCHANGED <<files, pc, locals, world>>
    BY <1>0, <1>21 DEF DaemonUp, DaemonDies, StaleInv, ServiceActive
  <2>2. StaleInv'
    BY <2>1 DEF StaleInv, ShouldRevert, Pending, Recorded, files, world
  <2>. QED
    BY <1>1, <1>2, <2>1, <2>2 DEF Rest, files, locals, world
<1>22. ASSUME Edit PROVE Rest'
  <2>1. /\ UNCHANGED <<backup, state, marker, daemon, guard, pc, rec, boot>>
        /\ config'.action = "deny" => config.action = "deny"
    BY <1>0, <1>22 DEF Edit, units, locals, world
  <2>2. HolderInv'
    BY <1>0, <2>1 DEF HolderInv, HolderAt, At, Recorded
  <2>. QED
    BY <1>0, <1>3, <2>1, <2>2 DEF Rest, DenyRecorded, MarkerOfThisTrial, Recorded
<1>23. ASSUME Corrupt PROVE Rest'
  <2>1. /\ UNCHANGED <<config, backup, marker, daemon, guard, pc, rec, boot>>
        /\ state' = BadState /\ Recorded(state) /\ ~Recorded(state)' /\ state # NoState /\ state' # NoState
    BY AbsentAssumption, <1>23 DEF Corrupt, Recorded, units, locals, world
  <2>2. HolderInv'
    BY <1>0, <2>1 DEF HolderInv, HolderAt, At
  <2>. QED
    BY <2>1, <2>2 DEF Rest, StaleInv, ShouldRevert, Pending, DenyRecorded, MarkerOfThisTrial
<1>24. ASSUME Reboot PROVE Rest'
  <2>1. HolderInv'
    BY <1>24, FreeLocals DEF Reboot
  <2>2. StaleInv'
    BY <1>24 DEF Reboot, StaleInv, ShouldRevert, Pending, Recorded, ServiceActive, files
  <2>. QED
    BY <1>2, <1>24, <2>1, <2>2 DEF Reboot, Rest, files
<1>. QED
  BY DoesRest, <1>5, <1>6, <1>7, <1>8, <1>9, <1>11, <1>12, <1>13, <1>14, <1>15, <1>16, <1>17, <1>18,
     <1>19, <1>20, <1>21, <1>22, <1>23, <1>24
     DEF Next, Step, Failure, GuardStep, Environment

----------------------------------------------------------------------------
(* The theorems. *)

(* The three layers together: TypeOK and TrialInv. *)
Inv == Control /\ Data /\ Rest

LEMMA InvInit == Init => Inv
<1>. SUFFICES ASSUME Init PROVE Inv
  OBVIOUS
<1>1. "idle" \in Labels /\ "idle" \notin LockedLabels /\ "idle" \notin GuardOnly /\ "idle" \in GuardLabels
  BY DEF Labels, LockedLabels, OnLabels, OnTry, ConfirmLabels, RestoreLabels, QuarantineLabels,
         GuardOnly, GuardLabels
<1>2. Control
  <2>1. Guard \in Procs /\ Nobody \notin Procs
    BY ProcessAssumption DEF Procs
  <2>. QED
    BY <1>1, <2>1 DEF Init, Control, LockInv, AllCommands
<1>3. \A p \in Procs : pc[p] = "idle"
  BY DEF Init
<1>4. LocalsInv /\ HolderInv
  BY <1>3 DEF LocalsInv, HolderInv, LocalsAt, HolderAt, At, OnTry
<1>5. DataOK
  BY BoundsAssumption DEF Init, DataOK, Configs, Actions
<1>6. FlagsOK
  BY DEF Init, FlagsOK
<1>7. StaleInv /\ DenyRecorded /\ MarkerOfThisTrial
  BY DEF Init, StaleInv, ShouldRevert, Pending, Recorded, DenyRecorded, MarkerOfThisTrial
<1>. QED
  BY <1>2, <1>4, <1>5, <1>6, <1>7 DEF Inv, Data, Rest

LEMMA InvAlways == Spec => []Inv
<1>1. Inv /\ [Next]_vars => Inv'
  BY ControlStep, DataStep, RestStep DEF Inv
<1>. QED
  BY <1>1, InvInit, PTL DEF Spec

(* Type correctness: whatever the helper, systemd, root and the machine do,  *)
(* in any order, every variable keeps its type.                             *)
THEOREM TypeCorrect == Spec => []TypeOK
<1>1. Inv => TypeOK
  BY DEF Inv, Control, Data, DataOK, FlagsOK, TypeOK, Labels, AllCommands, Snapshots
<1>. QED
  BY <1>1, InvAlways, PTL

(* turn_on records a trial before it writes deny and every way back restores *)
(* allow before it discards the record, so a config that says deny always   *)
(* has a state file, for any number of operators, trials, boots and faults. *)
THEOREM DenyIsRecorded == Spec => []DenyRecorded
<1>1. Inv => DenyRecorded
  BY DEF Inv, Rest
<1>. QED
  BY <1>1, InvAlways, PTL

(* The boot guard and the ordering of opensnitch.service behind it: the     *)
(* daemon never enforces an unconfirmed trial of an earlier boot.           *)
THEOREM StaleDenyIsNotEnforced == Spec => []NoStaleDeny
<1>1. Inv => NoStaleDeny
  BY DEF Inv, Rest, StaleInv, NoStaleDeny, ShouldRevert, ServiceActive
<1>. QED
  BY <1>1, InvAlways, PTL

(* confirm publishes the marker of the trial it then confirms, and a new    *)
(* trial only starts without a marker: it never vouches for another trial.  *)
THEOREM MarkerIsOfThisTrial == Spec => []MarkerOfThisTrial
<1>1. Inv => MarkerOfThisTrial
  BY DEF Inv, Rest
<1>. QED
  BY <1>1, InvAlways, PTL

=============================================================================
