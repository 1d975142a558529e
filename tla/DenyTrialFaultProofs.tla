----------------------- MODULE DenyTrialFaultProofs -----------------------
(***************************************************************************)
(* What the deny trial keeps beyond DenyTrialProofs, and under which         *)
(* failures.  Two properties need no restriction: the guard spares the       *)
(* trial of this boot and the timer reverts its own trial.  The others hold  *)
(* only while certain kinds of failure do not happen; each theorem names     *)
(* them in its hypotheses.                                                   *)
(***************************************************************************)
EXTENDS DenyTrialProofs

(* The steps of on after it recorded the trial. *)
Trying == {"on-timer", "on-verify", "on-replace", "on-restart", "on-await"}

(* What turn_on may rely on: its record is of this boot and pending; nothing *)
(* is pending before it writes the record, nothing else is recorded after;   *)
(* deny is not written before the timer is armed for this very trial.        *)
TryAt(p) ==
    /\ pc[p] \in OnTry => rec.pending /\ rec.boot = boot
    /\ pc[p] \in {"on-backup", "on-state"} => ~Pending(state)
    /\ pc[p] \in Trying => state \in {rec, BadState}
    /\ pc[p] \in OnTry \ {"on-restart", "on-await"} => config.action # "deny"
    /\ pc[p] \in Trying \ {"on-timer"} => rec.id = armedFor

TryInv == \A p \in Procs : TryAt(p)

(* opensnitch.service waits for a running guard. *)
RunningInv == guard = "running" => daemon = "starting"

(* A guard that decided to revert without the lock finds no trial of this    *)
(* boot when it gets it, and none is about to be recorded.                   *)
GuardInv ==
    /\ pc[Guard] \in {"lock", "revert-check"} =>
          /\ ~(Pending(state) /\ state.boot = boot)
          /\ \A p \in Procs : pc[p] \notin {"on-backup", "on-state"}
    /\ lock = Nobody => rec = NoState
    /\ GuardSparesThisBoot

(* The timer was armed for the trial that a deny in the config belongs to. *)
ArmedForInv ==
    config.action = "deny" =>
        /\ Recorded(state) => state.id = armedFor
        /\ Recorded(rec) => rec.id = armedFor

(* Where a state that cannot be read comes from. *)
BadInv ==
    /\ At(Guard, "lock-bad") => "io" \in Faults \/ "corrupt" \in Faults
    /\ state = BadState => "corrupt" \in Faults

Care == TryInv /\ RunningInv /\ GuardInv /\ ArmedForInv /\ BadInv

----------------------------------------------------------------------------
(* The shape of the steps. *)

(* A step inside the critical section. *)
LEMMA Within ==
    ASSUME Control, NEW p \in Procs, NEW from \in LockedLabels, NEW to, Does(p, from, to)
    PROVE  /\ lock = p /\ lock' = p /\ pc[p] = from /\ pc'[p] = to
           /\ UNCHANGED <<snapshot, timer, armedFor, daemon, guard, cmd, boot, trials, late, faults>>
           /\ \A q \in Procs \ {p} : pc'[q] = pc[q] /\ pc[q] \notin LockedLabels
BY DEF Does, At, Goto, units, arming, world, Control, LockInv

(* Nothing is claimed of a process outside turn_on. *)
LEMMA OutsideTry ==
    ASSUME NEW q, pc'[q] \notin OnTry
    PROVE  TryAt(q)'
BY DEF TryAt, OnTry, Trying

(* After a step that leaves the lock with p, only p matters. *)
LEMMA HolderTry ==
    ASSUME Control', NEW p \in Procs, lock' = p, TryAt(p)'
    PROVE  TryInv'
<1>1. \A q \in Procs \ {p} : pc'[q] \notin OnTry
  BY DEF Control, LockInv, LockedLabels, OnLabels
<1>. QED
  BY <1>1, OutsideTry DEF TryInv

(* A step that leaves the files alone, starts no trial and gives the guard   *)
(* nothing to decide.                                                        *)
LEMMA CareFrame ==
    ASSUME Control, Control', Care,
           UNCHANGED <<config, state, armedFor, boot>>,
           rec' = NoState \/ (rec' = rec /\ lock' = lock),
           \A q \in Procs : (pc'[q] = pc[q] /\ rec' = rec) \/ pc'[q] \notin OnTry,
           pc'[Guard] \in {"lock", "revert-check"} => pc[Guard] \in {"lock", "revert-check"},
           pc'[Guard] = "lock-bad" => pc[Guard] = "lock-bad",
           RunningInv'
    PROVE  Care'
<1>1. ASSUME NEW q \in Procs PROVE TryAt(q)'
  <2>1. CASE pc'[q] \notin OnTry
    BY <2>1, OutsideTry
  <2>2. CASE pc'[q] = pc[q] /\ rec' = rec
    BY <2>2 DEF Care, TryInv, TryAt, Pending, Recorded
  <2>. QED
    BY <2>1, <2>2
<1>2. GuardInv'
  BY DEF Care, GuardInv, GuardSparesThisBoot, Pending, Recorded, OnTry
<1>3. ArmedForInv'
  BY DEF Care, ArmedForInv, Recorded
<1>4. BadInv'
  BY DEF Care, BadInv, At
<1>. QED
  BY <1>1, <1>2, <1>3, <1>4 DEF Care, TryInv

(* A step inside the critical section keeps Care. *)
LEMMA CareWithin ==
    ASSUME Inv, Inv', Care, NEW p \in Procs,
           \/ OnBackup(p) \/ OnState(p) \/ OnVerify(p) \/ OnReplace(p)
           \/ OnAwait(p) \/ ConfirmLate(p) \/ ConfirmCheck(p) \/ ConfirmMarker(p)
           \/ ConfirmState(p) \/ OffCheck(p) \/ RevertCheck(p) \/ RestoreAlready(p)
           \/ RestoreRead(p) \/ RestoreVerify(p) \/ RestoreReplace(p) \/ DropMarker(p)
           \/ DropState(p) \/ DropBackup(p) \/ Await(p)
    PROVE  Care'
<1>0. /\ TryAt(p) /\ RunningInv /\ GuardInv /\ ArmedForInv /\ BadInv /\ Control /\ Control'
      /\ DataOK /\ LocalsAt(p) /\ Guard \in Procs /\ Nobody \notin Procs
      /\ pc[Guard] \in GuardLabels
  BY ProcessAssumption DEF Care, TryInv, Inv, Data, LocalsInv, Procs, Control, LockInv
<1>. DEFINE Frame == UNCHANGED <<armedFor, daemon, guard, boot>>
            Moves(from, to) == /\ lock = p /\ lock' = p /\ pc[p] = from /\ pc'[p] = to
                               /\ \A q \in Procs \ {p} : pc'[q] = pc[q] /\ pc[q] \notin LockedLabels
<1>1. ASSUME NEW from \in LockedLabels, NEW to, Does(p, from, to) PROVE Frame /\ Moves(from, to)
  BY <1>0, <1>1, Within
<1>2. ASSUME TryAt(p)', Frame, GuardInv', ArmedForInv', BadInv', lock' = p PROVE Care'
  BY <1>0, <1>2, HolderTry DEF Care, RunningInv
<1>3. ASSUME NEW from \in LockedLabels, NEW to, Does(p, from, to), to \notin OnTry \cup {"revert-check"},
             UNCHANGED <<config, state, rec>>
      PROVE  Care'
  <2>1. Frame /\ Moves(from, to)
    BY <1>1, <1>3
  <2>2. pc'[Guard] = pc[Guard] \/ pc'[Guard] \notin {"lock", "lock-bad", "revert-check"}
    BY <1>0, <1>3, <2>1 DEF Control, LockInv, LockedLabels, OnLabels, OnTry, ConfirmLabels, RestoreLabels,
       QuarantineLabels
  <2>3. RunningInv' /\ (\A q \in Procs : pc'[q] = pc[q] \/ pc'[q] \notin OnTry)
    BY <1>0, <1>3, <2>1 DEF RunningInv
  <2>. QED
    BY <1>0, <1>3, <2>1, <2>2, <2>3, CareFrame
<1>4. CASE \/ OnAwait(p) \/ ConfirmLate(p) \/ ConfirmMarker(p) \/ RestoreAlready(p) \/ RestoreRead(p)
            \/ RestoreVerify(p) \/ DropMarker(p) \/ DropBackup(p) \/ Await(p)
  BY <1>3, <1>4 DEF OnAwait, ConfirmLate, ConfirmMarker, RestoreAlready, RestoreRead, RestoreVerify, DropMarker,
     DropBackup, Await, AfterRestore, files, locals, LockedLabels, OnLabels, OnTry, ConfirmLabels, RestoreLabels
<1>5. CASE OnBackup(p)
  <2>1. Frame /\ Moves("on-backup", "on-state")
    BY <1>1, <1>5 DEF OnBackup, LockedLabels, OnLabels, OnTry
  <2>2. TryAt(p)'
    BY <1>0, <1>5, <2>1 DEF OnBackup, TryAt, OnTry, Trying, Pending, Recorded, locals
  <2>3. GuardInv'
    BY <1>0, <1>5, <2>1 DEF OnBackup, GuardInv, GuardSparesThisBoot, GuardLabels, GuardOnly, RestoreLabels,
       QuarantineLabels, Pending, Recorded, locals
  <2>4. ArmedForInv'
    BY <1>0, <1>5, <2>1 DEF OnBackup, ArmedForInv, Recorded, locals
  <2>5. BadInv'
    BY <1>0, <1>5, <2>1 DEF OnBackup, BadInv, At
  <2>. QED
    BY <1>2, <2>1, <2>2, <2>3, <2>4, <2>5
<1>6. CASE OnState(p)
  <2>1. Frame /\ Moves("on-state", "on-timer")
    BY <1>1, <1>6 DEF OnState, LockedLabels, OnLabels, OnTry
  <2>2. TryAt(p)'
    BY <1>0, <1>6, <2>1 DEF OnState, TryAt, OnTry, Trying
  <2>3. GuardInv'
    BY <1>0, <1>6, <2>1 DEF OnState, GuardInv, GuardSparesThisBoot, GuardLabels, GuardOnly, RestoreLabels,
       QuarantineLabels
  <2>4. ArmedForInv'
    BY <1>0, <1>6, <2>1 DEF OnState, ArmedForInv, TryAt, OnTry
  <2>5. BadInv'
    BY AbsentAssumption, <1>0, <1>6, <2>1 DEF OnState, BadInv, At, LocalsAt, OnTry
  <2>. QED
    BY <1>2, <2>1, <2>2, <2>3, <2>4, <2>5
<1>7. CASE OnVerify(p)
  <2>1. Frame /\ Moves("on-verify", IF config = seen THEN "on-replace" ELSE "restore")
    BY <1>1, <1>7 DEF OnVerify, LockedLabels, OnLabels, OnTry
  <2>2. TryAt(p)'
    BY <1>0, <1>7, <2>1 DEF OnVerify, TryAt, OnTry, Trying, files, locals
  <2>3. GuardInv'
    BY <1>0, <1>7, <2>1 DEF OnVerify, GuardInv, GuardSparesThisBoot, GuardLabels, GuardOnly, RestoreLabels,
       QuarantineLabels, Pending, Recorded, files, locals
  <2>4. ArmedForInv'
    BY <1>0, <1>7, <2>1 DEF OnVerify, ArmedForInv, Recorded, files, locals
  <2>5. BadInv'
    BY <1>0, <1>7, <2>1 DEF OnVerify, BadInv, At, files
  <2>. QED
    BY <1>2, <2>1, <2>2, <2>3, <2>4, <2>5
<1>8. CASE OnReplace(p)
  <2>1. Frame /\ Moves("on-replace", "on-restart")
    BY <1>1, <1>8 DEF OnReplace, LockedLabels, OnLabels, OnTry
  <2>2. TryAt(p)'
    BY <1>0, <1>8, <2>1 DEF OnReplace, TryAt, OnTry, Trying, locals
  <2>3. GuardInv'
    BY <1>0, <1>8, <2>1 DEF OnReplace, GuardInv, GuardSparesThisBoot, GuardLabels, GuardOnly, RestoreLabels,
       QuarantineLabels, Pending, Recorded, locals
  <2>4. ArmedForInv'
    BY <1>0, <1>8, <2>1 DEF OnReplace, ArmedForInv, TryAt, OnTry, Trying, Recorded, locals
  <2>5. BadInv'
    BY <1>0, <1>8, <2>1 DEF OnReplace, BadInv, At
  <2>. QED
    BY <1>2, <2>1, <2>2, <2>3, <2>4, <2>5
<1>9. CASE ConfirmCheck(p)
  <2>1. Frame /\ Moves("confirm-check", "confirm-marker")
    BY <1>1, <1>9 DEF ConfirmCheck, LockedLabels, ConfirmLabels
  <2>2. TryAt(p)'
    BY <2>1 DEF TryAt, OnTry, Trying
  <2>3. GuardInv'
    BY <1>0, <1>9, <2>1 DEF ConfirmCheck, GuardInv, GuardSparesThisBoot, GuardLabels, GuardOnly, RestoreLabels,
       QuarantineLabels, Pending, Recorded, files
  <2>4. ArmedForInv'
    BY <1>0, <1>9, <2>1 DEF ConfirmCheck, ArmedForInv, Recorded, files
  <2>5. BadInv'
    BY <1>0, <1>9, <2>1 DEF ConfirmCheck, BadInv, At, files
  <2>. QED
    BY <1>2, <2>1, <2>2, <2>3, <2>4, <2>5
<1>10. CASE ConfirmState(p)
  <2>1. Frame /\ Moves("confirm-state", "stop")
    BY <1>1, <1>10 DEF ConfirmState, LockedLabels, ConfirmLabels
  <2>2. TryAt(p)'
    BY <2>1 DEF TryAt, OnTry, Trying
  <2>3. GuardInv'
    BY <1>0, <1>10, <2>1 DEF ConfirmState, GuardInv, GuardSparesThisBoot, GuardLabels, GuardOnly, RestoreLabels,
       QuarantineLabels, LocalsAt, Trials, Pending, locals
  <2>4. ArmedForInv'
    BY AbsentAssumption, <1>0, <1>10, <2>1 DEF ConfirmState, ArmedForInv, LocalsAt, Recorded, Trials, locals
  <2>5. BadInv'
    BY AbsentAssumption, <1>0, <1>10, <2>1 DEF ConfirmState, BadInv, At, LocalsAt, Trials
  <2>. QED
    BY <1>2, <2>1, <2>2, <2>3, <2>4, <2>5
<1>11. CASE OffCheck(p)
  <2>1. Frame /\ Moves("off-check", "restore")
    BY <1>1, <1>11 DEF OffCheck, LockedLabels
  <2>2. TryAt(p)'
    BY <2>1 DEF TryAt, OnTry, Trying
  <2>3. GuardInv'
    BY <1>0, <1>11, <2>1 DEF OffCheck, GuardInv, GuardSparesThisBoot, GuardLabels, GuardOnly, RestoreLabels,
       QuarantineLabels, Pending, Recorded, files
  <2>4. ArmedForInv'
    BY <1>0, <1>11, <2>1 DEF OffCheck, ArmedForInv, Recorded, files
  <2>5. BadInv'
    BY <1>0, <1>11, <2>1 DEF OffCheck, BadInv, At, files
  <2>. QED
    BY <1>2, <2>1, <2>2, <2>3, <2>4, <2>5
<1>12. CASE RevertCheck(p)
  <2>1. Frame /\ Moves("revert-check", "restore")
    BY <1>1, <1>12 DEF RevertCheck, LockedLabels
  <2>2. TryAt(p)'
    BY <2>1 DEF TryAt, OnTry, Trying
  <2>3. GuardInv'
    BY <1>0, <1>12, <2>1 DEF RevertCheck, GuardInv, GuardSparesThisBoot, Pending, Recorded, files
  <2>4. ArmedForInv'
    BY <1>0, <1>12, <2>1 DEF RevertCheck, ArmedForInv, Recorded, files
  <2>5. BadInv'
    BY <1>0, <1>12, <2>1 DEF RevertCheck, BadInv, At, files
  <2>. QED
    BY <1>2, <2>1, <2>2, <2>3, <2>4, <2>5
<1>13. CASE RestoreReplace(p)
  <2>1. Frame /\ Moves("restore-replace", AfterRestore(p))
    BY <1>1, <1>13 DEF RestoreReplace, LockedLabels, RestoreLabels
  <2>2. TryAt(p)'
    BY <2>1 DEF TryAt, OnTry, Trying, AfterRestore
  <2>3. GuardInv'
    BY <1>0, <1>13, <2>1 DEF RestoreReplace, GuardInv, GuardSparesThisBoot, AfterRestore, Pending, Recorded
  <2>4. ArmedForInv'
    BY <1>13 DEF RestoreReplace, ArmedForInv, Restored
  <2>5. BadInv'
    BY <1>0, <1>13, <2>1 DEF RestoreReplace, BadInv, At, AfterRestore
  <2>. QED
    BY <1>2, <2>1, <2>2, <2>3, <2>4, <2>5
<1>14. CASE DropState(p)
  <2>1. Frame /\ Moves("drop-state", "drop-backup")
    BY <1>1, <1>14 DEF DropState, LockedLabels, RestoreLabels
  <2>2. TryAt(p)'
    BY <2>1 DEF TryAt, OnTry, Trying
  <2>3. GuardInv'
    BY <1>0, <1>14, <2>1 DEF DropState, GuardInv, GuardSparesThisBoot, Pending, Recorded, locals
  <2>4. ArmedForInv'
    BY <1>0, <1>14, <2>1 DEF DropState, ArmedForInv, Recorded, locals
  <2>5. BadInv'
    BY AbsentAssumption, <1>0, <1>14, <2>1 DEF DropState, BadInv, At
  <2>. QED
    BY <1>2, <2>1, <2>2, <2>3, <2>4, <2>5
<1>. QED
  BY <1>4, <1>5, <1>6, <1>7, <1>8, <1>9, <1>10, <1>11, <1>12, <1>13, <1>14

(* Every step keeps Care. *)
LEMMA CareStep ==
    ASSUME Inv, Inv', Care, [Next]_vars
    PROVE  Care'
<1>0. /\ TryInv /\ RunningInv /\ GuardInv /\ ArmedForInv /\ BadInv /\ Control /\ Control' /\ DataOK
      /\ StaleInv /\ Guard \in Procs /\ Timer \in Procs /\ Operators \subseteq Procs /\ Nobody \notin Procs
      /\ Guard # Timer /\ Guard \notin Operators
      /\ pc \in [Procs -> Labels] /\ pc[Guard] \in GuardLabels
  BY ProcessAssumption DEF Care, Inv, Data, Rest, Procs, Control, LockInv
<1>1. ASSUME NEW p \in Procs, NEW ok, Finish(p, ok), UNCHANGED <<files, armedFor, world>> PROVE Care'
  <2>1. pc'[p] = "idle" /\ (\A q \in Procs \ {p} : pc'[q] = pc[q])
    BY <1>0, <1>1 DEF Finish
  <2>2. (lock = p /\ lock' = Nobody /\ rec' = NoState) \/ (lock # p /\ lock' = lock /\ rec' = rec)
    BY <1>1 DEF Finish, locals
  <2>3. RunningInv'
    BY <1>0, <1>1 DEF Finish, RunningInv
  <2>4. \A q \in Procs : (pc'[q] = pc[q] /\ rec' = rec) \/ pc'[q] \notin OnTry
    BY <1>0, <2>1, <2>2 DEF Control, LockInv, LockedLabels, OnLabels, OnTry
  <2>. QED
    BY <1>0, <1>1, <2>1, <2>2, <2>3, <2>4, CareFrame DEF files, world
<1>2. ASSUME NEW p \in Procs,
             \/ Busy(p) \/ LockTimeout(p) \/ OnRefused(p) \/ ConfirmRefused(p) \/ ConfirmFails(p)
             \/ OffRefused(p) \/ RevertNothing(p) \/ PublishSnapshot(p) \/ Kill(p)
      PROVE  Care'
  BY <1>1, <1>2 DEF Busy, LockTimeout, OnRefused, ConfirmRefused, ConfirmFails, OffRefused,
     RevertNothing, PublishSnapshot, Kill, arming
<1>3. ASSUME QuarantineFails \/ StopRevert PROVE Care'
  BY <1>0, <1>1, <1>3 DEF QuarantineFails, StopRevert, arming
<1>4. ASSUME NEW p \in Operators, NEW c \in Commands, Invoke(p, c) PROVE Care'
  <2>1. pc'[p] = "lock" /\ (\A q \in Procs \ {p} : pc'[q] = pc[q])
    BY <1>0, <1>4 DEF Invoke, Goto
  <2>2. RunningInv' /\ UNCHANGED <<config, state, armedFor, boot, rec, lock>>
    BY <1>0, <1>4 DEF Invoke, RunningInv, files, units, arming, world, locals
  <2>. QED
    BY <1>0, <2>1, <2>2, CareFrame DEF OnTry
<1>5. ASSUME NEW p \in Procs, Acquire(p) PROVE Care'
  <2>1. /\ pc[p] \in {"lock", "lock-bad"} /\ pc'[p] \notin OnTry
        /\ (p = Guard => pc'[p] = "reread" \/ (pc[p] = "lock" /\ pc'[p] = "revert-check"))
        /\ \A q \in Procs \ {p} : pc'[q] = pc[q]
    BY <1>0, <1>5 DEF Acquire, Goto, Entry, At, OnTry, Control, LockInv
  <2>2. RunningInv' /\ UNCHANGED <<config, state, armedFor, boot, rec>> /\ rec = NoState
    BY <1>0, <1>5 DEF Acquire, RunningInv, GuardInv, files, units, arming, world, locals
  <2>. QED
    BY <1>0, <2>1, <2>2, CareFrame
<1>6. ASSUME NEW p \in Procs, p # Guard, NEW to \in {"restore", "stop", "restart", "snapshot"}, Goto(p, to),
             UNCHANGED <<config, state, armedFor, boot, rec, lock, daemon, guard>>
      PROVE  Care'
  <2>1. pc'[p] = to /\ (\A q \in Procs \ {p} : pc'[q] = pc[q])
    BY <1>0, <1>6 DEF Goto
  <2>. QED
    BY <1>0, <1>6, <2>1, CareFrame DEF RunningInv, OnTry
<1>7. ASSUME NEW p \in Procs, RestoreFails(p) \/ StopTimer(p) \/ StopFails(p) \/ RestartFails(p) PROVE Care'
  <2>1. CASE p = Guard
    BY <1>0, <1>1, <1>7, <2>1 DEF RestoreFails, StopTimer, StopFails, RestartFails, arming,
       GuardLabels, GuardOnly, RestoreLabels, QuarantineLabels
  <2>2. CASE p # Guard
    BY <1>6, <1>7, <2>2 DEF RestoreFails, StopTimer, StopFails, RestartFails, AfterStop,
       files, units, arming, world, locals
  <2>. QED
    BY <2>1, <2>2
<1>8. ASSUME NEW p \in Procs, OnCheck(p) PROVE Care'
  <2>1. /\ lock' = p /\ pc'[p] = "on-backup" /\ p # Guard
        /\ \A q \in Procs \ {p} : pc'[q] = pc[q]
    BY <1>0, <1>8 DEF OnCheck, At, Goto, Control, LockInv, LockedLabels, OnLabels,
       GuardLabels, GuardOnly, RestoreLabels, QuarantineLabels
  <2>2. /\ rec' = [id |-> trials + 1, pending |-> TRUE, boot |-> boot, body |-> config.body]
        /\ UNCHANGED <<config, state, armedFor, boot, daemon, guard>>
        /\ config.action = "allow" /\ ~Pending(state) /\ ServiceActive
    BY <1>8 DEF OnCheck, CanEnable, files, units, arming
  <2>3. TryAt(p)'
    BY <2>1, <2>2 DEF TryAt, OnTry, Trying, Pending, Recorded
  <2>4. guard # "running"
    BY <1>0, <2>2 DEF RunningInv, ServiceActive
  <2>5. pc'[Guard] = "idle"
    BY <1>0, <2>1, <2>4 DEF Control, LockInv
  <2>6. GuardInv' /\ BadInv'
    BY <1>0, <2>1, <2>2, <2>5 DEF GuardInv, GuardSparesThisBoot, BadInv, At
  <2>7. ArmedForInv' /\ RunningInv'
    BY <1>0, <2>2 DEF ArmedForInv, RunningInv
  <2>. QED
    BY <1>0, <2>1, <2>3, <2>6, <2>7, HolderTry DEF Care
<1>9. ASSUME NEW p \in Procs, OnTimer(p) \/ OnFails(p) \/ OnUnsynced(p) PROVE Care'
  <2>1. /\ lock = p /\ lock' = lock /\ p # Guard
        /\ \A q \in Procs \ {p} : pc'[q] = pc[q]
        /\ UNCHANGED <<config, state, rec, boot, daemon, guard>>
    BY <1>0, <1>9 DEF OnTimer, OnFails, OnUnsynced, units, At, Goto, Control, LockInv, LockedLabels, OnLabels, OnTry,
       GuardLabels, GuardOnly, RestoreLabels, QuarantineLabels, files, world, locals
  <2>2. CASE pc'[p] = "restore" /\ UNCHANGED armedFor
    BY <1>0, <2>1, <2>2, CareFrame DEF RunningInv, OnTry
  <2>3. CASE pc[p] = "on-timer" /\ armedFor' = rec.id /\ pc'[p] \in {"restore", "on-verify"}
    <3>1. TryAt(p)'
      BY <1>0, <2>1, <2>3 DEF TryInv, TryAt, OnTry, Trying
    <3>2. config.action # "deny"
      BY <1>0, <2>3 DEF TryInv, TryAt, OnTry
    <3>3. ArmedForInv' /\ RunningInv' /\ BadInv'
      BY <1>0, <2>1, <3>2 DEF ArmedForInv, RunningInv, BadInv, At
    <3>4. GuardInv'
      BY <1>0, <2>1, <2>3 DEF GuardInv, GuardSparesThisBoot, Pending, Recorded
    <3>. QED
      BY <1>0, <2>1, <3>1, <3>3, <3>4, HolderTry DEF Care
  <2>. QED
    BY <1>0, <1>9, <2>2, <2>3 DEF OnTimer, OnFails, OnUnsynced, units, Goto, At, arming
<1>10. ASSUME NEW procs, StartJob(procs), procs \in [Procs -> Labels],
             UNCHANGED <<config, state, armedFor, boot, rec, lock>>,
             \A q \in Procs : procs[q] = pc[q] \/ (q # Guard /\ procs[q] = "await")
                              \/ (q # Guard /\ procs[q] = "on-await" /\ pc[q] = "on-restart")
      PROVE  Care'
  <2>1. \A q \in Procs : \/ pc'[q] = pc[q]
                         \/ q # Guard /\ pc'[q] = "await"
                         \/ q # Guard /\ pc'[q] = "on-await" /\ pc[q] = "on-restart"
                         \/ pc'[q] = "look"
    BY <1>0, <1>10 DEF StartJob
  <2>2. ASSUME NEW q \in Procs PROVE TryAt(q)'
    BY <1>0, <1>10, <2>1 DEF TryInv, TryAt, OnTry, Trying, Pending, Recorded
  <2>3. RunningInv'
    BY <1>10 DEF StartJob, RunningInv
  <2>4. GuardInv' /\ ArmedForInv' /\ BadInv'
    BY <1>0, <1>10, <2>1 DEF GuardInv, GuardSparesThisBoot, ArmedForInv, BadInv, At, Pending, Recorded
  <2>. QED
    BY <2>2, <2>3, <2>4 DEF Care, TryInv
<1>11. ASSUME NEW p \in Procs, RestartDaemon(p) PROVE Care'
  <2>1. PICK to \in {"on-await", "await"} :
          StartJob([pc EXCEPT ![p] = to]) /\ (to = "on-await" => pc[p] = "on-restart")
    BY <1>11 DEF RestartDaemon, At
  <2>. DEFINE procs == [pc EXCEPT ![p] = to]
  <2>2. p # Guard
    BY <1>0, <1>11 DEF RestartDaemon, At, GuardLabels, GuardOnly, RestoreLabels, QuarantineLabels
  <2>3. /\ procs \in [Procs -> Labels]
        /\ \A q \in Procs : procs[q] = pc[q] \/ (q # Guard /\ procs[q] = "await")
                            \/ (q # Guard /\ procs[q] = "on-await" /\ pc[q] = "on-restart")
    BY <1>0, <2>1, <2>2 DEF Labels, LockedLabels, OnLabels, OnTry
  <2>4. StartJob(procs) /\ UNCHANGED <<config, state, armedFor, boot, rec, lock>>
    BY <1>11, <2>1 DEF RestartDaemon, files, arming, world, locals
  <2>. HIDE DEF procs
  <2>. QED
    BY <1>10, <2>3, <2>4
<1>12. ASSUME DaemonStart PROVE Care'
  BY <1>0, <1>10, <1>12 DEF DaemonStart, files, arming, world, locals
<1>13. ASSUME GuardLook PROVE Care'
  <2>1. UNCHANGED <<files, world>> /\ pc[Guard] = "look"
    BY <1>13 DEF GuardLook, At
  <2>2. CASE Finish(Guard, TRUE) /\ UNCHANGED arming
    BY <1>0, <1>1, <2>1, <2>2 DEF arming
  <2>3. CASE \/ ShouldRevert /\ Goto(Guard, "lock") /\ UNCHANGED <<units, lock, locals>>
             \/ ReadFails /\ Goto(Guard, "lock-bad") /\ UNCHANGED <<units, lock, locals>>
    <3>1. UNCHANGED <<config, state, armedFor, boot, rec, lock, daemon, guard>>
      BY <2>1, <2>3 DEF files, world, units, arming, locals
    <3>2. \A q \in Procs \ {Guard} : pc'[q] = pc[q]
      BY <1>0, <2>3 DEF Goto
    <3>3. pc'[Guard] \in {"lock", "lock-bad"} /\ (pc'[Guard] = "lock" => ShouldRevert)
          /\ (pc'[Guard] = "lock-bad" => ReadFails)
      BY <1>0, <2>3 DEF Goto
    <3>4. ASSUME NEW q \in Procs PROVE TryAt(q)'
      BY <1>0, <3>1, <3>2, <3>3 DEF TryInv, TryAt, OnTry, Trying, Pending, Recorded
    <3>5. BadInv'
      BY <1>0, <3>1, <3>3 DEF BadInv, At, ReadFails, Fault
    <3>6. GuardInv'
      BY <1>0, <3>1, <3>2, <3>3 DEF GuardInv, GuardSparesThisBoot, ShouldRevert, Pending, Recorded, TryInv, TryAt
    <3>7. RunningInv' /\ ArmedForInv'
      BY <1>0, <3>1 DEF RunningInv, ArmedForInv, Recorded
    <3>. QED
      BY <3>4, <3>5, <3>6, <3>7 DEF Care, TryInv
  <2>. QED
    BY <1>13, <2>2, <2>3 DEF GuardLook
<1>14. ASSUME GuardReread PROVE Care'
  <2>1. UNCHANGED <<files, world>> /\ pc[Guard] = "reread" /\ lock = Guard
    BY <1>0, <1>14 DEF GuardReread, At, Control, LockInv, LockedLabels
  <2>2. CASE Finish(Guard, TRUE) /\ UNCHANGED arming
    BY <1>0, <1>1, <2>1, <2>2 DEF arming
  <2>3. CASE \/ ShouldRevert /\ Goto(Guard, "revert-check") /\ UNCHANGED <<units, lock, rec>>
             \/ Goto(Guard, "restore") /\ rec' = BadState /\ UNCHANGED <<units, lock>>
    <3>1. UNCHANGED <<config, state, armedFor, boot, lock, daemon, guard>>
      BY <2>1, <2>3 DEF files, world, units, arming
    <3>2. \/ ShouldRevert /\ pc'[Guard] = "revert-check" /\ rec' = rec
          \/ pc'[Guard] = "restore" /\ rec' = BadState
      BY <1>0, <2>3 DEF Goto
    <3>3. \A q \in Procs \ {Guard} : pc'[q] = pc[q] /\ pc[q] \notin LockedLabels
      BY <1>0, <2>1, <2>3 DEF Goto, Control, LockInv
    <3>4. TryAt(Guard)'
      BY <3>2 DEF TryAt, OnTry, Trying
    <3>5. GuardInv'
      BY <1>0, <2>1, <3>1, <3>2, <3>3 DEF GuardInv, GuardSparesThisBoot, ShouldRevert, Pending, Recorded,
         LockedLabels, OnLabels, OnTry
    <3>6. RunningInv' /\ ArmedForInv' /\ BadInv'
      BY <1>0, <3>1, <3>2 DEF RunningInv, ArmedForInv, BadInv, At, Recorded
    <3>. QED
      BY <1>0, <2>1, <3>1, <3>4, <3>5, <3>6, HolderTry DEF Care
  <2>. QED
    BY <1>14, <2>2, <2>3 DEF GuardReread, locals
<1>15. ASSUME SetAside \/ DropOptIn PROVE Care'
  <2>1. /\ lock = Guard /\ lock' = Guard /\ pc'[Guard] \in {"drop-opt-in", "stop-revert"}
        /\ UNCHANGED <<config, armedFor, boot, daemon, guard, rec>>
        /\ state' = state \/ state' = NoState
    BY <1>0, <1>15 DEF SetAside, DropOptIn, Does, At, Goto, units, arming, world, locals, Control, LockInv,
       LockedLabels, QuarantineLabels
  <2>2. TryAt(Guard)'
    BY <2>1 DEF TryAt, OnTry, Trying
  <2>3. GuardInv' /\ RunningInv' /\ ArmedForInv' /\ BadInv'
    BY AbsentAssumption, <1>0, <2>1 DEF GuardInv, GuardSparesThisBoot, RunningInv, ArmedForInv, BadInv, At, Recorded
  <2>. QED
    BY <1>0, <2>1, <2>2, <2>3, HolderTry DEF Care
<1>16. ASSUME NEW t \in Triggers, Elapse(t) PROVE Care'
  <2>1. \A q \in Procs : pc'[q] = pc[q] \/ (q = Timer /\ pc'[q] = "lock")
    BY <1>0, <1>16 DEF Elapse, Goto
  <2>2. RunningInv' /\ UNCHANGED <<config, state, armedFor, boot, rec, lock>>
    BY <1>0, <1>16 DEF Elapse, RunningInv, files, world, locals
  <2>. QED
    BY <1>0, <2>1, <2>2, CareFrame DEF OnTry
<1>17. ASSUME DaemonUp \/ DaemonDies \/ (\E i \in 1..MaxTrials : Deadline(i)) \/ UNCHANGED vars PROVE Care'
  <2>1. UNCHANGED <<config, state, armedFor, boot, rec, lock, pc>>
    BY <1>17 DEF DaemonUp, DaemonDies, Deadline, vars, files, units, arming, world, locals
  <2>2. RunningInv'
    BY <1>0, <1>17 DEF DaemonUp, DaemonDies, Deadline, vars, units, RunningInv, ServiceActive
  <2>. QED
    BY <1>0, <2>1, <2>2, CareFrame
<1>18. ASSUME Edit PROVE Care'
  <2>1. /\ UNCHANGED <<state, armedFor, boot, rec, lock, pc, daemon, guard>>
        /\ config'.action = "deny" => config.action = "deny"
    BY <1>18 DEF Edit, units, arming, world, locals
  <2>2. ASSUME NEW q \in Procs PROVE TryAt(q)'
    BY <1>0, <2>1 DEF TryInv, TryAt, Pending, Recorded
  <2>. QED
    BY <1>0, <2>1, <2>2 DEF Care, TryInv, RunningInv, GuardInv, GuardSparesThisBoot, ArmedForInv, BadInv,
       At, Pending, Recorded
<1>19. ASSUME Corrupt PROVE Care'
  <2>1. /\ UNCHANGED <<config, armedFor, boot, rec, lock, pc, daemon, guard>>
        /\ state' = BadState /\ "corrupt" \in Faults
    BY <1>19 DEF Corrupt, Fault, units, arming, world, locals
  <2>2. ASSUME NEW q \in Procs PROVE TryAt(q)'
    BY <1>0, <2>1 DEF TryInv, TryAt, Pending, Recorded
  <2>. QED
    BY <1>0, <2>1, <2>2 DEF Care, TryInv, RunningInv, GuardInv, GuardSparesThisBoot, ArmedForInv, BadInv,
       At, Pending, Recorded
<1>20. ASSUME Reboot PROVE Care'
  <2>1. /\ UNCHANGED <<config, state, armedFor>> /\ lock' = Nobody /\ rec' = NoState /\ daemon' = "starting"
        /\ \A q \in Procs : pc'[q] \in {"idle", "look"}
    BY <1>20 DEF Reboot, files
  <2>2. ASSUME NEW q \in Procs PROVE TryAt(q)'
    BY <2>1 DEF TryAt, OnTry, Trying
  <2>. QED
    BY <1>0, <2>1, <2>2 DEF Care, TryInv, RunningInv, GuardInv, GuardSparesThisBoot, ArmedForInv, BadInv,
       At, Recorded
<1>. QED
  BY CareWithin, <1>2, <1>3, <1>4, <1>5, <1>7, <1>8, <1>9, <1>11, <1>12, <1>13, <1>14, <1>15, <1>16,
     <1>17, <1>18, <1>19, <1>20
     DEF Next, Step, Failure, GuardStep, Environment

LEMMA CareAlways == Spec => []Care
<1>1. Init => Care
  <2>. SUFFICES ASSUME Init PROVE Care
    OBVIOUS
  <2>1. Guard \in Procs /\ \A p \in Procs : pc[p] = "idle"
    BY DEF Init, Procs
  <2>2. TryInv
    BY <2>1 DEF TryInv, TryAt, OnTry, Trying
  <2>. QED
    BY AbsentAssumption, <2>1, <2>2 DEF Init, Care, RunningInv, GuardInv, GuardSparesThisBoot, ArmedForInv,
       BadInv, At, Recorded
<1>2. Inv /\ Inv' /\ Care /\ [Next]_vars => Care'
  BY CareStep
<1>. QED
  BY <1>1, <1>2, InvAlways, PTL DEF Spec

(* boot_guard decides without the lock whether to revert, and still never    *)
(* takes back the trial whose daemon restart called it: a trial is only      *)
(* started while the daemon is active, and that excludes a running guard.    *)
THEOREM GuardNeverRevertsThisBoot == Spec => []GuardSparesThisBoot
<1>1. Care => GuardSparesThisBoot
  BY DEF Care, GuardInv
<1>. QED
  BY <1>1, CareAlways, PTL

(* The deny that revert_if_pending takes back belongs to the trial its timer *)
(* was armed for: turn_on writes deny only once systemd-run accepted the     *)
(* unit for this very record.                                                *)
THEOREM TimerRevertsOnlyItsTrial == Spec => []TimerRevertsItsTrial
<1>1. Care => TimerRevertsItsTrial
  BY DEF Care, ArmedForInv, TimerRevertsItsTrial
<1>. QED
  BY <1>1, CareAlways, PTL

(* While turn_on waits for the daemon it restarted, the guard that the       *)
(* restart pulls in does not wait for the lock turn_on holds, as long as     *)
(* state.json stays readable.                                                *)
THEOREM RestartNeverDeadlocks ==
    ASSUME {"io", "corrupt"} \cap Faults = {}
    PROVE  Spec => []NoRestartDeadlock
<1>1. Inv /\ Care => NoRestartDeadlock
  <2>. SUFFICES ASSUME Inv, Care, NEW p \in Procs, pc[p] = "on-await" PROVE pc[Guard] \notin {"lock", "lock-bad"}
    BY DEF NoRestartDeadlock, At
  <2>1. pc[Guard] # "lock-bad" /\ state # BadState
    BY DEF Care, BadInv, At
  <2>2. rec \in Trials /\ state = rec /\ rec.pending /\ rec.boot = boot
    BY <2>1 DEF Inv, Data, LocalsInv, LocalsAt, Care, TryInv, TryAt, OnTry, Trying
  <2>. QED
    BY AbsentAssumption, <2>1, <2>2 DEF Care, GuardInv, Pending, Recorded
<1>. QED
  BY <1>1, InvAlways, CareAlways, PTL

----------------------------------------------------------------------------
(* Without I/O errors, SIGINT and edits by others, restore_allow succeeds and *)
(* a trial of this boot that is enforced stays armed.                        *)

Undisturbed == {"io", "interrupt", "edit"} \cap Faults = {}

Armed(i) == "on-calendar" \in timer \/ i \in late

KeptAt(p) ==
    /\ pc[p] \in OnTry => seen.body \notin AmbiguousBodies
    /\ At(p, "restore-verify") => config = seen
    /\ pc[p] \in {"on-verify", "on-replace"} => Armed(rec.id)
    /\ At(p, "stop") => config.action # "deny" \/ ~Pending(state)

(* The config is one that set_action can edit whenever it does not say allow. *)
ConfigInv ==
    /\ config.action # "other"
    /\ config.action = "deny" => config.body \notin AmbiguousBodies

(* No record is of a boot to come. *)
BootInv ==
    /\ Recorded(state) => state.boot <= boot
    /\ Recorded(rec) => rec.boot <= boot

ArmedInv ==
    config.action = "deny" /\ Pending(state) /\ state.boot = boot => Armed(state.id)

Kept == (\A p \in Procs : KeptAt(p)) /\ ConfigInv /\ BootInv /\ ArmedInv

LEMMA HolderKept ==
    ASSUME Control', NEW p \in Procs, lock' = p, KeptAt(p)'
    PROVE  \A q \in Procs : KeptAt(q)'
<1>1. ASSUME NEW q \in Procs \ {p} PROVE KeptAt(q)'
  <2>1. pc'[q] \notin LockedLabels
    BY DEF Control, LockInv
  <2>. QED
    BY <2>1 DEF KeptAt, At, LockedLabels, OnLabels, OnTry, RestoreLabels
<1>. QED
  BY <1>1

(* restore_allow finds what it expects: it does not fail. *)
LEMMA RestoreSucceeds ==
    ASSUME Undisturbed, DataOK, Kept, NEW p \in Procs
    PROVE  ~RestoreFails(p)
BY DEF Undisturbed, DataOK, Configs, Actions, Kept, KeptAt, ConfigInv, RestoreFails, Fault, Editable, At

(* A step that leaves the files alone and disarms nothing. *)
LEMMA KeptFrame ==
    ASSUME Kept, UNCHANGED <<config, state, boot>>,
           timer' = timer, late \subseteq late',
           Recorded(rec)' => rec'.boot <= boot,
           \A q \in Procs :
              \/ pc'[q] = pc[q] /\ seen' = seen /\ rec' = rec
              \/ pc[q] \in OnTry /\ pc'[q] \in OnTry \ {"on-verify", "on-replace"} /\ seen' = seen
              \/ pc'[q] \notin OnTry \cup {"restore-verify", "stop"}
    PROVE  Kept'
<1>1. ASSUME NEW q \in Procs PROVE KeptAt(q)'
  BY DEF Kept, KeptAt, Armed, At, OnTry, Pending, Recorded
<1>. QED
  BY <1>1 DEF Kept, ConfigInv, BootInv, ArmedInv, Armed, Pending, Recorded

(* Every step keeps Kept. *)
LEMMA KeptStep ==
    ASSUME Undisturbed, Inv, Inv', Care, Kept, [Next]_vars
    PROVE  Kept'
<1>0. /\ Control /\ Control' /\ DataOK /\ LocalsInv /\ HolderInv /\ TryInv /\ ArmedForInv
      /\ (\A p \in Procs : KeptAt(p)) /\ ConfigInv /\ BootInv /\ ArmedInv
      /\ Guard \in Procs /\ Timer \in Procs /\ Operators \subseteq Procs /\ pc \in [Procs -> Labels]
      /\ Recorded(rec) => rec.boot <= boot
  BY DEF Inv, Data, Rest, Care, Kept, BootInv, Procs, Control
<1>1. ASSUME NEW p \in Procs, NEW ok, Finish(p, ok), UNCHANGED <<files, arming, world>> PROVE Kept'
  <2>1. pc'[p] = "idle" /\ (\A q \in Procs \ {p} : pc'[q] = pc[q])
    BY <1>0, <1>1 DEF Finish
  <2>2. \/ seen' = seen /\ rec' = rec
        \/ lock = p /\ rec' = NoState
    BY <1>1 DEF Finish, locals
  <2>3. \A q \in Procs : (pc'[q] = pc[q] /\ seen' = seen /\ rec' = rec)
                         \/ pc'[q] \notin OnTry \cup {"restore-verify", "stop"}
    BY <1>0, <2>1, <2>2 DEF Control, LockInv, LockedLabels, OnLabels, OnTry, RestoreLabels
  <2>4. Recorded(rec)' => rec'.boot <= boot
    BY <1>0, <2>2 DEF BootInv, Recorded
  <2>. QED
    BY <1>1, <2>3, <2>4, KeptFrame DEF files, arming, world
<1>2. ASSUME NEW p \in Procs,
             \/ Busy(p) \/ LockTimeout(p) \/ OnRefused(p) \/ ConfirmRefused(p) \/ ConfirmFails(p)
             \/ OffRefused(p) \/ RevertNothing(p) \/ PublishSnapshot(p) \/ Kill(p)
      PROVE  Kept'
  BY <1>1, <1>2 DEF Busy, LockTimeout, OnRefused, ConfirmRefused, ConfirmFails, OffRefused,
     RevertNothing, PublishSnapshot, Kill
<1>3. ASSUME NEW p \in Operators, NEW c \in Commands, Invoke(p, c) PROVE Kept'
  <2>1. \A q \in Procs : pc'[q] = pc[q] \/ pc'[q] = "lock"
    BY <1>0, <1>3 DEF Invoke, Goto
  <2>. QED
    BY <1>0, <1>3, <2>1, KeptFrame DEF Invoke, BootInv, OnTry, files, units, arming, world, locals, Recorded
<1>4. ASSUME NEW p \in Procs, Acquire(p) PROVE Kept'
  <2>1. \A q \in Procs : pc'[q] = pc[q]
           \/ pc'[q] \in {"reread", "on-check", "confirm-check", "off-check", "snapshot", "revert-check"}
    BY <1>0, <1>4 DEF Acquire, Goto, Entry
  <2>. QED
    BY <1>0, <1>4, <2>1, KeptFrame DEF Acquire, BootInv, OnTry, files, units, arming, world, locals, Recorded
<1>5. ASSUME NEW p \in Procs, NEW from \in LockedLabels, NEW to, Does(p, from, to),
             UNCHANGED <<config, state>>, Recorded(rec)' => rec'.boot <= boot,
             \/ from \in OnTry /\ to \in OnTry \ {"on-verify", "on-replace"} /\ seen' = seen
             \/ to \notin OnTry \cup {"restore-verify", "stop"}
      PROVE  Kept'
  <2>1. /\ pc[p] = from /\ pc'[p] = to /\ UNCHANGED <<timer, late, boot>>
        /\ \A q \in Procs \ {p} : pc'[q] = pc[q] /\ pc[q] \notin LockedLabels
    BY <1>0, <1>5, Within
  <2>2. \A q \in Procs \ {p} : pc'[q] \notin OnTry \cup {"restore-verify", "stop"}
    BY <2>1 DEF LockedLabels, OnLabels, RestoreLabels
  <2>. QED
    BY <1>5, <2>1, <2>2, KeptFrame
<1>6. ASSUME NEW p \in Procs,
             \/ OnBackup(p) \/ OnAwait(p) \/ ConfirmLate(p) \/ ConfirmCheck(p) \/ ConfirmMarker(p)
             \/ OffCheck(p) \/ RevertCheck(p) \/ RestoreAlready(p) \/ RestoreVerify(p)
             \/ DropMarker(p) \/ Await(p)
      PROVE  Kept'
  <2>1. UNCHANGED <<config, state>> /\ (rec' = rec \/ rec' = state)
    BY <1>6 DEF OnBackup, OnAwait, ConfirmLate, ConfirmCheck, ConfirmMarker, OffCheck, RevertCheck,
       RestoreAlready, RestoreVerify, DropMarker, Await, files, locals
  <2>2. Recorded(rec)' => rec'.boot <= boot
    BY <1>0, <2>1 DEF BootInv, Recorded
  <2>3. CASE OnBackup(p)
    BY <1>5, <2>1, <2>2, <2>3 DEF OnBackup, locals, OnTry, LockedLabels, OnLabels
  <2>4. CASE ~OnBackup(p)
    BY <1>5, <1>6, <2>1, <2>2, <2>4 DEF OnAwait, ConfirmLate, ConfirmCheck, ConfirmMarker, OffCheck,
       RevertCheck, RestoreAlready, RestoreVerify, DropMarker, Await, AfterRestore,
       OnTry, LockedLabels, OnLabels, ConfirmLabels, RestoreLabels
  <2>. QED
    BY <2>3, <2>4
<1>7. ASSUME NEW p \in Procs, lock' = p, KeptAt(p)', ConfigInv', BootInv', ArmedInv'
      PROVE  Kept'
  BY <1>0, <1>7, HolderKept DEF Kept
<1>8. ASSUME NEW p \in Procs, OnCheck(p) PROVE Kept'
  <2>1. lock' = p /\ pc[p] = "on-check" /\ pc'[p] = "on-backup"
    BY <1>0, <1>8 DEF OnCheck, At, Goto, Control, LockInv, LockedLabels, OnLabels
  <2>2. /\ seen' = config /\ rec'.boot = boot /\ UNCHANGED <<config, state, boot, timer, late>>
        /\ config.body \notin AmbiguousBodies
    BY <1>8 DEF OnCheck, CanEnable, Editable, files, units, arming
  <2>3. KeptAt(p)'
    BY <2>1, <2>2 DEF KeptAt, At
  <2>4. ConfigInv' /\ BootInv' /\ ArmedInv'
    BY <1>0, <2>2 DEF ConfigInv, BootInv, ArmedInv, Armed, DataOK, Pending, Recorded
  <2>. QED
    BY <1>7, <2>1, <2>3, <2>4
<1>9. ASSUME NEW p \in Procs, OnState(p) \/ OnVerify(p) \/ OnReplace(p) PROVE Kept'
  <2>1. /\ pc[p] \in OnTry /\ KeptAt(p) /\ TryAt(p) /\ rec \in Trials /\ rec \notin {NoState, BadState}
        /\ seen \in Configs
    BY AbsentAssumption, <1>0, <1>9 DEF OnState, OnVerify, OnReplace, Does, At, OnTry, TryInv, LocalsInv, LocalsAt
  <2>2. lock' = p /\ UNCHANGED <<seen, rec, boot, timer, late, armedFor>>
    BY <1>0, <1>9, Within DEF OnState, OnVerify, OnReplace, locals, LockedLabels, OnLabels, OnTry
  <2>3. BootInv'
    BY <1>0, <1>9, <2>1, <2>2 DEF OnState, OnVerify, OnReplace, BootInv, TryAt, Recorded, files
  <2>4. CASE OnState(p)
    <3>1. pc'[p] = "on-timer" /\ config' = config /\ state' = rec /\ config.action # "deny"
      BY <1>0, <2>1, <2>4 DEF OnState, Does, At, Goto, TryAt, OnTry
    <3>2. KeptAt(p)' /\ ConfigInv' /\ ArmedInv'
      BY <1>0, <2>1, <2>2, <3>1 DEF KeptAt, At, ConfigInv, ArmedInv
    <3>. QED
      BY <1>7, <2>1, <2>2, <2>3, <3>2
  <2>5. CASE OnVerify(p)
    <3>1. pc[p] = "on-verify" /\ pc'[p] \in {"on-replace", "restore"} /\ UNCHANGED <<config, state>>
      BY <1>0, <2>5 DEF OnVerify, Does, At, Goto, files
    <3>2. KeptAt(p)' /\ ConfigInv' /\ ArmedInv'
      BY <1>0, <2>1, <2>2, <3>1 DEF KeptAt, At, ConfigInv, ArmedInv, Armed, Pending, Recorded
    <3>. QED
      BY <1>7, <2>1, <2>2, <2>3, <3>2
  <2>6. CASE OnReplace(p)
    <3>1. /\ pc[p] = "on-replace" /\ pc'[p] = "on-restart" /\ state' = state
          /\ config' = [action |-> "deny", body |-> seen.body]
      BY <1>0, <2>6 DEF OnReplace, Does, At, Goto
    <3>2. Armed(rec.id) /\ state \in {rec, BadState} /\ seen.body \notin AmbiguousBodies
      BY <2>1, <3>1 DEF KeptAt, TryAt, Trying, OnTry
    <3>3. KeptAt(p)' /\ ConfigInv' /\ ArmedInv'
      BY <2>2, <3>1, <3>2 DEF KeptAt, At, ConfigInv, ArmedInv, Armed, Pending, Recorded
    <3>. QED
      BY <1>7, <2>1, <2>2, <2>3, <3>3
  <2>. QED
    BY <1>9, <2>4, <2>5, <2>6
<1>10. ASSUME NEW p \in Procs, OnTimer(p) \/ OnFails(p) \/ OnUnsynced(p) PROVE Kept'
  <2>1. /\ pc[p] \in OnTry /\ lock' = p /\ pc'[p] \in {"restore", "on-verify"}
        /\ pc'[p] = "on-verify" => pc[p] = "on-timer" /\ timer' = Triggers
        /\ timer' = timer \/ timer' = Triggers
        /\ UNCHANGED <<config, state, boot, late, seen, rec>>
    BY <1>0, <1>10 DEF OnTimer, OnFails, OnUnsynced, units, At, Goto, Control, LockInv, LockedLabels, OnLabels, OnTry,
       files, arming, world, locals
  <2>2. KeptAt(p)' /\ ConfigInv' /\ BootInv' /\ ArmedInv'
    BY <1>0, <2>1 DEF KeptAt, At, ConfigInv, BootInv, ArmedInv, Armed, Triggers, OnTry, Pending, Recorded
  <2>. QED
    BY <1>7, <2>1, <2>2
<1>11. ASSUME NEW p \in Procs,
              ConfirmState(p) \/ RestoreRead(p) \/ RestoreReplace(p) \/ DropState(p) \/ DropBackup(p)
      PROVE  Kept'
  <2>1. /\ pc[p] \in {"confirm-state", "restore", "restore-replace", "drop-state", "drop-backup"}
        /\ lock' = p /\ UNCHANGED <<rec, boot, timer, late>>
    BY <1>0, <1>11, Within DEF ConfirmState, RestoreRead, RestoreReplace, DropState, DropBackup, locals,
       LockedLabels, ConfirmLabels, RestoreLabels
  <2>2. BootInv'
    BY AbsentAssumption, <1>0, <1>11, <2>1 DEF ConfirmState, RestoreRead, RestoreReplace, DropState, DropBackup,
       BootInv, Recorded, LocalsInv, LocalsAt, Does, At, Trials, files
  <2>3. CASE ConfirmState(p)
    <3>1. pc'[p] = "stop" /\ config' = config /\ ~Pending(state)'
      BY <1>0, <2>3 DEF ConfirmState, Does, At, Goto, LocalsInv, LocalsAt, Trials, Pending
    <3>2. KeptAt(p)' /\ ConfigInv' /\ ArmedInv'
      BY <1>0, <2>1, <3>1 DEF KeptAt, At, OnTry, ConfigInv, ArmedInv
    <3>. QED
      BY <1>7, <2>1, <2>2, <3>2
  <2>4. CASE RestoreRead(p)
    <3>1. pc'[p] = "restore-verify" /\ seen' = config /\ UNCHANGED <<config, state>>
      BY <1>0, <2>4 DEF RestoreRead, Does, At, Goto, files
    <3>2. KeptAt(p)' /\ ConfigInv' /\ ArmedInv'
      BY <1>0, <2>1, <3>1 DEF KeptAt, At, OnTry, ConfigInv, ArmedInv, Armed, Pending, Recorded
    <3>. QED
      BY <1>7, <2>1, <2>2, <3>2
  <2>5. CASE RestoreReplace(p)
    <3>1. pc'[p] \in {"set-aside", "drop-marker"} /\ config'.action = "allow"
      BY <1>0, <2>5 DEF RestoreReplace, Does, At, Goto, AfterRestore, Restored
    <3>2. KeptAt(p)' /\ ConfigInv' /\ ArmedInv'
      BY <2>1, <3>1 DEF KeptAt, At, OnTry, ConfigInv, ArmedInv
    <3>. QED
      BY <1>7, <2>1, <2>2, <3>2
  <2>6. CASE DropState(p)
    <3>1. pc'[p] = "drop-backup" /\ config' = config /\ state' = NoState
      BY <1>0, <2>6 DEF DropState, Does, At, Goto
    <3>2. KeptAt(p)' /\ ConfigInv' /\ ArmedInv'
      BY <1>0, <2>1, <3>1 DEF KeptAt, At, OnTry, ConfigInv, ArmedInv, Pending, Recorded
    <3>. QED
      BY <1>7, <2>1, <2>2, <3>2
  <2>7. CASE DropBackup(p)
    <3>1. pc'[p] \in {"stop", "restart", "snapshot"} /\ UNCHANGED <<config, state>> /\ config.action # "deny"
      BY <1>0, <2>7 DEF DropBackup, Does, At, Goto, HolderInv, HolderAt
    <3>2. KeptAt(p)' /\ ConfigInv' /\ ArmedInv'
      BY <1>0, <2>1, <3>1 DEF KeptAt, At, OnTry, ConfigInv, ArmedInv
    <3>. QED
      BY <1>7, <2>1, <2>2, <3>2
  <2>. QED
    BY <1>11, <2>3, <2>4, <2>5, <2>6, <2>7
<1>12. ASSUME NEW p \in Procs, lock = p, pc'[p] \in {"idle", "restart", "snapshot"},
              \A q \in Procs \ {p} : pc'[q] = pc[q],
              UNCHANGED <<config, state, boot, late>>, rec' \in {rec, NoState},
              config.action # "deny" \/ ~Pending(state)
      PROVE  Kept'
  <2>1. \A q \in Procs : pc'[q] \notin OnTry \cup {"restore-verify", "stop"}
    BY <1>0, <1>12 DEF Control, LockInv, LockedLabels, OnLabels, OnTry, RestoreLabels
  <2>2. \A q \in Procs : KeptAt(q)'
    BY <2>1 DEF KeptAt, At, OnTry
  <2>. QED
    BY <1>0, <1>12, <2>2 DEF Kept, ConfigInv, BootInv, ArmedInv, Pending, Recorded
<1>13. ASSUME NEW p \in Procs, StopTimer(p) \/ StopFails(p) \/ StopRevert, StopRevert => p = Guard PROVE Kept'
  <2>1. lock = p /\ (config.action # "deny" \/ ~Pending(state))
    BY <1>0, <1>13 DEF StopTimer, StopFails, StopRevert, At, KeptAt, HolderInv, HolderAt, Pending, Recorded,
       Control, LockInv, LockedLabels, QuarantineLabels
  <2>2. /\ pc'[p] \in {"idle", "restart", "snapshot"} /\ rec' \in {rec, NoState}
        /\ \A q \in Procs \ {p} : pc'[q] = pc[q]
    BY <1>0, <1>13 DEF StopTimer, StopFails, StopRevert, Finish, Goto, AfterStop, locals
  <2>3. UNCHANGED <<config, state, boot, late>>
    BY <1>13 DEF StopTimer, StopFails, StopRevert, files, world
  <2>. QED
    BY <1>12, <2>1, <2>2, <2>3
<1>14. ASSUME NEW procs \in [Procs -> Labels], StartJob(procs),
              UNCHANGED <<files, arming, world, locals>>,
              \A q \in Procs : \/ procs[q] = pc[q]
                               \/ procs[q] = "await"
                               \/ procs[q] = "on-await" /\ pc[q] = "on-restart"
      PROVE  Kept'
  <2>1. \A q \in Procs : \/ pc'[q] = pc[q]
                         \/ pc[q] \in OnTry /\ pc'[q] \in OnTry \ {"on-verify", "on-replace"}
                         \/ pc'[q] \notin OnTry \cup {"restore-verify", "stop"}
    BY <1>0, <1>14 DEF StartJob, OnTry
  <2>. QED
    BY <1>0, <1>14, <2>1, KeptFrame DEF files, arming, world, locals, Recorded
<1>15. ASSUME NEW p \in Procs, RestartDaemon(p) PROVE Kept'
  <2>1. PICK to \in {"on-await", "await"} :
          StartJob([pc EXCEPT ![p] = to]) /\ (to = "on-await" => pc[p] = "on-restart")
    BY <1>15 DEF RestartDaemon, At
  <2>. DEFINE procs == [pc EXCEPT ![p] = to]
  <2>2. /\ procs \in [Procs -> Labels]
        /\ \A q \in Procs : \/ procs[q] = pc[q]
                            \/ procs[q] = "await"
                            \/ procs[q] = "on-await" /\ pc[q] = "on-restart"
    BY <1>0, <2>1 DEF Labels, LockedLabels, OnLabels, OnTry
  <2>3. StartJob(procs) /\ UNCHANGED <<files, arming, world, locals>>
    BY <1>15, <2>1 DEF RestartDaemon
  <2>. HIDE DEF procs
  <2>. QED
    BY <1>14, <2>2, <2>3
<1>16. ASSUME DaemonStart PROVE Kept'
  BY <1>0, <1>14, <1>16 DEF DaemonStart
<1>17. ASSUME NEW p \in Procs, NEW to \in {"snapshot", "lock", "lock-bad", "revert-check", "restore"},
              Goto(p, to), UNCHANGED <<files, arming, world>>,
              UNCHANGED <<seen, rec>> \/ (lock = p /\ rec' = BadState)
      PROVE  Kept'
  <2>1. \A q \in Procs : \/ pc'[q] = pc[q] /\ seen' = seen /\ rec' = rec
                         \/ pc'[q] \notin OnTry \cup {"restore-verify", "stop"}
    BY <1>0, <1>17 DEF Goto, OnTry, Control, LockInv, LockedLabels, OnLabels, RestoreLabels
  <2>. QED
    BY <1>0, <1>17, <2>1, KeptFrame DEF files, arming, world, Recorded
<1>18. ASSUME NEW p \in Procs, RestartFails(p) PROVE Kept'
  BY <1>17, <1>18 DEF RestartFails, units, locals
<1>19. ASSUME GuardLook \/ GuardReread PROVE Kept'
  <2>1. CASE Finish(Guard, TRUE) /\ UNCHANGED arming
    BY <1>0, <1>1, <1>19, <2>1 DEF GuardLook, GuardReread
  <2>2. CASE \E to \in {"lock", "lock-bad", "revert-check"} : Goto(Guard, to) /\ UNCHANGED <<units, locals>>
    BY <1>0, <1>17, <1>19, <2>2 DEF GuardLook, GuardReread, units, locals
  <2>3. CASE At(Guard, "reread") /\ Goto(Guard, "restore") /\ rec' = BadState /\ UNCHANGED units
    <3>1. lock = Guard
      BY <1>0, <2>3 DEF At, Control, LockInv, LockedLabels
    <3>. QED
      BY <1>0, <1>17, <1>19, <2>3, <3>1 DEF GuardLook, GuardReread, units
  <2>. QED
    BY <1>19, <2>1, <2>2, <2>3 DEF GuardLook, GuardReread
<1>20. ASSUME SetAside \/ DropOptIn PROVE Kept'
  <2>1. /\ lock' = Guard /\ pc'[Guard] \in {"drop-opt-in", "stop-revert"}
        /\ UNCHANGED <<config, boot, timer, late, rec>> /\ state' \in {state, NoState}
    BY <1>0, <1>20 DEF SetAside, DropOptIn, Does, At, Goto, units, arming, world, locals, Control, LockInv,
       LockedLabels, QuarantineLabels
  <2>2. KeptAt(Guard)' /\ ConfigInv' /\ BootInv' /\ ArmedInv'
    BY <1>0, <2>1 DEF KeptAt, At, OnTry, ConfigInv, BootInv, ArmedInv, Armed, Pending, Recorded
  <2>. QED
    BY <1>0, <1>7, <2>1, <2>2
<1>21. ASSUME QuarantineFails PROVE Kept'
  BY <1>0, <1>1, <1>21 DEF QuarantineFails
<1>22. ASSUME NEW t \in Triggers, Elapse(t) PROVE Kept'
  <2>1. /\ UNCHANGED <<config, state, boot, late, rec, seen, armedFor>>
        /\ \A q \in Procs : pc'[q] = pc[q] \/ pc'[q] = "lock"
    BY <1>0, <1>22 DEF Elapse, Goto, files, world, locals
  <2>2. Armed(armedFor) => Armed(armedFor)'
    BY <1>22, <2>1 DEF Elapse, Armed, Triggers
  <2>3. ASSUME NEW q \in Procs PROVE KeptAt(q)'
    BY <1>0, <2>1, <2>2 DEF KeptAt, At, OnTry, TryInv, TryAt, Trying, Armed, Pending, Recorded
  <2>4. ConfigInv' /\ BootInv' /\ ArmedInv'
    BY <1>0, <2>1, <2>2 DEF ConfigInv, BootInv, ArmedInv, ArmedForInv, Armed, Pending, Recorded
  <2>. QED
    BY <2>3, <2>4 DEF Kept
<1>23. ASSUME DaemonUp \/ DaemonDies \/ (\E i \in 1..MaxTrials : Deadline(i)) \/ UNCHANGED vars PROVE Kept'
  <2>1. UNCHANGED <<config, state, boot, timer, rec, seen, pc>> /\ late \subseteq late'
    BY <1>23 DEF DaemonUp, DaemonDies, Deadline, vars, files, units, arming, world, locals
  <2>. QED
    BY <1>0, <2>1, KeptFrame DEF Recorded
<1>24. ASSUME Corrupt PROVE Kept'
  <2>1. UNCHANGED <<config, boot, timer, late, rec, seen, pc>> /\ state' = BadState
    BY <1>24 DEF Corrupt, units, arming, world, locals
  <2>2. ASSUME NEW q \in Procs PROVE KeptAt(q)'
    BY <1>0, <2>1 DEF KeptAt, At, Armed, Pending, Recorded
  <2>. QED
    BY <1>0, <2>1, <2>2 DEF Kept, ConfigInv, BootInv, ArmedInv, Pending, Recorded
<1>25. ASSUME Reboot PROVE Kept'
  <2>1. /\ UNCHANGED <<config, state>> /\ boot' = boot + 1 /\ rec' = NoState
        /\ \A q \in Procs : pc'[q] \in {"idle", "look"}
    BY <1>25 DEF Reboot, files
  <2>2. ASSUME NEW q \in Procs PROVE KeptAt(q)'
    BY <2>1 DEF KeptAt, At, OnTry
  <2>3. boot \in Nat /\ (Recorded(state) => state.boot \in Nat)
    BY <1>0 DEF DataOK, Trials, Recorded
  <2>. QED
    BY <1>0, <2>1, <2>2, <2>3 DEF Kept, ConfigInv, BootInv, ArmedInv, Pending, Recorded
<1>26. ~Edit /\ \A p \in Procs : ~RestoreFails(p)
  BY <1>0, RestoreSucceeds DEF Edit, Fault, Undisturbed
<1>. QED
  BY <1>0, <1>2, <1>3, <1>4, <1>6, <1>8, <1>9, <1>10, <1>11, <1>13, <1>15, <1>16, <1>18, <1>19, <1>20, <1>21,
     <1>22, <1>23, <1>24, <1>25, <1>26
     DEF Next, Step, Failure, GuardStep, Environment

LEMMA KeptAlways ==
    ASSUME Undisturbed
    PROVE  Spec => []Kept
<1>1. Init => Kept
  <2>. SUFFICES ASSUME Init PROVE Kept
    OBVIOUS
  <2>1. \A p \in Procs : pc[p] = "idle"
    BY DEF Init
  <2>2. \A p \in Procs : KeptAt(p)
    BY <2>1 DEF KeptAt, At, OnTry
  <2>. QED
    BY <2>2 DEF Init, Kept, ConfigInv, BootInv, ArmedInv, Recorded
<1>2. Inv /\ Inv' /\ Care /\ Kept /\ [Next]_vars => Kept'
  BY KeptStep
<1>. QED
  BY <1>1, <1>2, InvAlways, CareAlways, PTL DEF Spec

(* A trial of this boot that the config enforces is never left without its   *)
(* wall-clock trigger before its deadline, however commands are killed,      *)
(* refused or time out.  Hypotheses: no I/O error, no SIGINT and no edit of  *)
(* the config by others, which is when the rollback of turn_on can stop the  *)
(* timer with deny still in place.                                           *)
THEOREM EnforcedTrialIsArmed ==
    ASSUME {"io", "interrupt", "edit"} \cap Faults = {}
    PROVE  Spec => []TrialIsArmed
<1>1. Kept => TrialIsArmed
  BY DEF Kept, ArmedInv, Armed, TrialIsArmed
<1>. QED
  BY <1>1, KeptAlways, PTL DEF Undisturbed

----------------------------------------------------------------------------
(* Without kills and failing systemctl calls either, a daemon that enforces  *)
(* deny under a config that says allow is about to be restarted.             *)

Completing ==
    {"io", "interrupt", "edit", "kill", "stop-timer", "stop-timeout", "restart"} \cap Faults = {}

(* The labels between restore_allow and the restart it calls for. *)
Owing == {"drop-marker", "drop-state", "drop-backup", "stop", "restart"}

Owed == lock \in Procs \ {Guard} /\ changed /\ pc[lock] \in Owing

LingerInv == daemon = "deny" /\ config.action = "allow" => Owed

(* A step that leaves config and daemon alone keeps LingerInv if the holder  *)
(* does not lose what it owes.                                               *)
LEMMA LingerFrame ==
    ASSUME LingerInv, UNCHANGED <<config, daemon>>, Owed => Owed'
    PROVE  LingerInv'
BY DEF LingerInv

(* Every step keeps LingerInv. *)
LEMMA LingerStep ==
    ASSUME Completing, Inv, Inv', Care, Kept, LingerInv, [Next]_vars
    PROVE  LingerInv'
<1>0. /\ Control /\ DataOK /\ RunningInv /\ FlagsOK
      /\ Guard \in Procs /\ Timer \in Procs /\ Operators \subseteq Procs /\ Nobody \notin Procs
      /\ pc \in [Procs -> Labels]
  BY ProcessAssumption DEF Inv, Data, Care, Procs, Control
<1>1. pc[Guard] # "idle" => daemon = "starting"
  BY <1>0 DEF Control, LockInv, RunningInv
<1>2. ASSUME NEW p \in Procs, NEW ok, Finish(p, ok), UNCHANGED files, pc[p] \notin Owing \/ p = Guard
      PROVE  LingerInv'
  <2>1. daemon' = "deny" => daemon = "deny"
    BY <1>2 DEF Finish
  <2>2. Owed => Owed'
    BY <1>0, <1>2 DEF Owed, Finish, locals
  <2>. QED
    BY <1>2, <2>1, <2>2 DEF LingerInv, files
<1>3. ASSUME NEW p \in Procs,
             \/ Busy(p) \/ LockTimeout(p) \/ OnRefused(p) \/ ConfirmRefused(p) \/ ConfirmFails(p)
             \/ OffRefused(p) \/ RevertNothing(p) \/ PublishSnapshot(p)
      PROVE  LingerInv'
  BY <1>2, <1>3 DEF Busy, LockTimeout, OnRefused, ConfirmRefused, ConfirmFails, OffRefused,
     RevertNothing, PublishSnapshot, At, Owing
<1>4. ASSUME QuarantineFails \/ StopRevert PROVE LingerInv'
  BY <1>0, <1>2, <1>4 DEF QuarantineFails, StopRevert
<1>5. ASSUME NEW p \in Procs, \A q \in Procs \ {p} : pc'[q] = pc[q], p # lock,
             UNCHANGED <<config, daemon, changed>>, lock' = lock \/ lock = Nobody
      PROVE  LingerInv'
  BY <1>0, <1>5, LingerFrame DEF Owed
<1>6. ASSUME NEW p \in Operators, NEW c \in Commands, Invoke(p, c) PROVE LingerInv'
  <2>1. p # lock /\ (\A q \in Procs \ {p} : pc'[q] = pc[q])
    BY <1>0, <1>6 DEF Invoke, At, Goto, Control, LockInv, LockedLabels, OnLabels, OnTry, ConfirmLabels,
       RestoreLabels, QuarantineLabels
  <2>. QED
    BY <1>0, <1>5, <1>6, <2>1 DEF Invoke, files, units, locals
<1>7. ASSUME NEW p \in Procs, Acquire(p) PROVE LingerInv'
  BY <1>0, <1>5, <1>7 DEF Acquire, Goto, files, units, locals
<1>8. ASSUME NEW p \in Procs, pc[p] \in LockedLabels \ Owing, UNCHANGED <<config, daemon, lock>>
      PROVE  LingerInv'
  BY <1>0, <1>8, LingerFrame DEF Owed, Control, LockInv
<1>9. ASSUME NEW p \in Procs,
             \/ OnCheck(p) \/ OnBackup(p) \/ OnState(p) \/ OnTimer(p) \/ OnVerify(p) \/ OnAwait(p)
             \/ OnFails(p) \/ OnUnsynced(p)
             \/ ConfirmLate(p) \/ ConfirmCheck(p) \/ ConfirmMarker(p) \/ ConfirmState(p)
             \/ OffCheck(p) \/ RevertCheck(p) \/ RestoreAlready(p) \/ RestoreRead(p) \/ RestoreVerify(p)
             \/ Await(p)
      PROVE  LingerInv'
  <2>1. UNCHANGED <<config, daemon, lock>>
    BY <1>9 DEF OnCheck, OnBackup, OnState, OnTimer, OnVerify, OnAwait, OnFails, OnUnsynced, ConfirmLate, ConfirmCheck,
       ConfirmMarker, ConfirmState, OffCheck, RevertCheck, RestoreAlready, RestoreRead, RestoreVerify, Await,
       Does, files, units
  <2>2. pc[p] \in LockedLabels \ Owing
    BY <1>9 DEF OnCheck, OnBackup, OnState, OnTimer, OnVerify, OnAwait, OnFails, OnUnsynced, ConfirmLate, ConfirmCheck,
       ConfirmMarker, ConfirmState, OffCheck, RevertCheck, RestoreAlready, RestoreRead, RestoreVerify, Await,
       Does, At, LockedLabels, OnLabels, OnTry, ConfirmLabels, RestoreLabels, Owing
  <2>. QED
    BY <1>8, <2>1, <2>2
<1>10. ASSUME NEW p \in Procs, OnReplace(p) PROVE LingerInv'
  BY <1>10 DEF OnReplace, LingerInv
<1>11. ASSUME NEW p \in Procs, RestoreReplace(p) PROVE LingerInv'
  <2>1. pc[p] = "restore-replace" /\ lock' = p /\ daemon' = daemon /\ changed' /\ pc'[p] = AfterRestore(p)
    BY <1>0, <1>11, Within DEF RestoreReplace, LockedLabels, RestoreLabels
  <2>2. CASE p = Guard
    BY <1>1, <2>1, <2>2 DEF LingerInv
  <2>3. CASE p # Guard
    BY <2>1, <2>3 DEF LingerInv, Owed, Owing, AfterRestore
  <2>. QED
    BY <2>2, <2>3
<1>12. ASSUME NEW p \in Procs, DropMarker(p) \/ DropState(p) PROVE LingerInv'
  <2>1. lock = p /\ lock' = p /\ UNCHANGED <<config, daemon, changed>> /\ pc'[p] \in Owing
    BY <1>0, <1>12, Within DEF DropMarker, DropState, locals, LockedLabels, RestoreLabels, Owing
  <2>. QED
    BY <2>1, LingerFrame DEF Owed
<1>13. ASSUME NEW p \in Procs, DropBackup(p) PROVE LingerInv'
  <2>1. lock = p /\ lock' = p /\ UNCHANGED <<config, daemon, changed>> /\ (changed => pc'[p] \in Owing)
    BY <1>0, <1>13, Within DEF DropBackup, locals, LockedLabels, RestoreLabels, Owing
  <2>. QED
    BY <2>1, LingerFrame DEF Owed
<1>14. ASSUME NEW p \in Procs, StopTimer(p) PROVE LingerInv'
  <2>1. CASE p = Guard
    BY <1>2, <1>14, <2>1 DEF StopTimer
  <2>2. CASE p # Guard
    <3>1. UNCHANGED <<config, daemon, changed, lock>> /\ lock = p /\ (changed => pc'[p] = "restart")
      BY <1>0, <1>14, <2>2 DEF StopTimer, AfterStop, Goto, At, files, locals, Control, LockInv, LockedLabels
    <3>. QED
      BY <3>1, LingerFrame DEF Owed, Owing
  <2>. QED
    BY <2>1, <2>2
<1>15. ASSUME (\E p \in Procs : RestartDaemon(p)) \/ DaemonStart \/ Reboot PROVE LingerInv'
  BY <1>15 DEF RestartDaemon, DaemonStart, StartJob, Reboot, LingerInv
<1>16. ASSUME GuardLook \/ GuardReread \/ SetAside \/ DropOptIn PROVE LingerInv'
  <2>1. pc[Guard] # "idle"
    BY <1>16 DEF GuardLook, GuardReread, SetAside, DropOptIn, Does, At
  <2>2. daemon' # "deny"
    BY <1>1, <1>16, <2>1 DEF GuardLook, GuardReread, SetAside, DropOptIn, Does, Finish, units
  <2>. QED
    BY <2>2 DEF LingerInv
<1>17. ASSUME NEW t \in Triggers, Elapse(t) PROVE LingerInv'
  <2>1. UNCHANGED <<config, daemon, lock, changed>>
    BY <1>17 DEF Elapse, files, locals
  <2>2. CASE At(Timer, "idle")
    <3>1. Timer # lock
      BY <1>0, <2>2 DEF At, Control, LockInv, LockedLabels, OnLabels, OnTry, ConfirmLabels, RestoreLabels,
         QuarantineLabels
    <3>. QED
      BY <1>0, <1>5, <1>17, <2>1, <2>2, <3>1 DEF Elapse, Goto
  <2>3. CASE ~At(Timer, "idle")
    BY <1>17, <2>1, <2>3, LingerFrame DEF Elapse, Owed
  <2>. QED
    BY <2>2, <2>3
<1>18. ASSUME DaemonUp \/ DaemonDies PROVE LingerInv'
  BY <1>18 DEF DaemonUp, DaemonDies, LingerInv, files
<1>19. ASSUME Corrupt \/ (\E i \in 1..MaxTrials : Deadline(i)) \/ UNCHANGED vars PROVE LingerInv'
  BY <1>19, LingerFrame DEF Corrupt, Deadline, vars, files, units, locals, Owed
<1>20. /\ ~Edit
       /\ \A p \in Procs : ~RestoreFails(p) /\ ~StopFails(p) /\ ~RestartFails(p) /\ ~Kill(p)
  <2>1. Undisturbed
    BY DEF Completing, Undisturbed
  <2>. QED
    BY <1>0, <2>1, RestoreSucceeds DEF Edit, StopFails, RestartFails, Kill, Fault, Completing
<1>. QED
  BY <1>3, <1>4, <1>6, <1>7, <1>9, <1>10, <1>11, <1>12, <1>13, <1>14, <1>15, <1>16, <1>17, <1>18, <1>19, <1>20
     DEF Next, Step, Failure, GuardStep, Environment

(* Once every command is through, a daemon that still enforces deny does so  *)
(* under a config that says deny: whoever restores allow restarts it, also   *)
(* after a SIGTERM, a refused systemd-run, lock timeouts or a reboot.        *)
(* Hypotheses: the command is not killed, its systemctl calls succeed, its   *)
(* writes succeed and nobody else edits the config.                          *)
THEOREM DenyDoesNotLinger ==
    ASSUME {"io", "interrupt", "edit", "kill", "stop-timer", "stop-timeout", "restart"} \cap Faults = {}
    PROVE  Spec => []DenyNeverLingers
<1>1. Init => LingerInv
  BY DEF Init, LingerInv
<1>2. Inv /\ Inv' /\ Care /\ Kept /\ LingerInv /\ [Next]_vars => LingerInv'
  BY LingerStep DEF Completing
<1>3. Spec => []Kept
  BY KeptAlways DEF Undisturbed
<1>4. Inv /\ LingerInv => DenyNeverLingers
  BY DEF LingerInv, Owed, Owing, DenyNeverLingers, Quiet, At
<1>. QED
  BY <1>1, <1>2, <1>3, <1>4, InvAlways, CareAlways, PTL DEF Spec

----------------------------------------------------------------------------
(* Within one boot, without kills, I/O errors and changes by others, every    *)
(* command publishes what it leaves behind.                                  *)

Published ==
    MaxBoots = 1 /\ {"io", "edit", "corrupt", "kill", "snapshot"} \cap Faults = {}

(* The labels at which a command has changed nothing and may still refuse. *)
Checking == {"on-check", "confirm-check", "off-check", "revert-check"}

Unchanged == lock = Nobody \/ pc[lock] \in Checking

SnapshotInv ==
    /\ Unchanged => snapshot \in {NoSnapshot, Report}
    /\ pc[Guard] \in {"idle", "look"}

LEMMA SameReport ==
    ASSUME UNCHANGED files
    PROVE  Report' = Report
BY DEF Report, Pending, DenyOptIn, Recorded, files

(* Every step keeps SnapshotInv. *)
LEMMA SnapshotStep ==
    ASSUME Published, Inv, Inv', Care, SnapshotInv, [Next]_vars
    PROVE  SnapshotInv'
<1>0. /\ Control /\ Control' /\ DataOK /\ pc[Guard] \in {"idle", "look"}
      /\ Guard \in Procs /\ Timer \in Procs /\ Operators \subseteq Procs /\ Nobody \notin Procs
      /\ Guard # Timer /\ Guard \notin Operators /\ pc \in [Procs -> Labels] /\ lock \in Procs \cup {Nobody}
  BY ProcessAssumption DEF Inv, Data, Care, Procs, Control, SnapshotInv
<1>1. state # BadState /\ ~ShouldRevert /\ boot = 1
  <2>1. state # BadState
    BY DEF Care, BadInv, Published
  <2>2. boot = 1 /\ (Recorded(state) => state.boot = 1)
    BY <1>0 DEF DataOK, Published, Trials, Recorded
  <2>. QED
    BY <2>1, <2>2 DEF ShouldRevert, Pending
<1>2. lock # Guard
  BY <1>0 DEF Control, LockInv, LockedLabels, OnLabels, OnTry, ConfirmLabels, RestoreLabels, QuarantineLabels
<1>3. ASSUME UNCHANGED <<files, snapshot>>, Unchanged' => Unchanged, pc'[Guard] \in {"idle", "look"}
      PROVE  SnapshotInv'
  BY <1>3, SameReport DEF SnapshotInv
<1>4. ASSUME NEW p \in Procs, NEW ok, Finish(p, ok), UNCHANGED <<files, snapshot>>,
             lock = p => pc[p] \in Checking
      PROVE  SnapshotInv'
  <2>1. pc'[p] = "idle" /\ (\A q \in Procs \ {p} : pc'[q] = pc[q]) /\ (lock # p => lock' = lock)
    BY <1>0, <1>4 DEF Finish
  <2>2. Unchanged' => Unchanged
    BY <1>0, <1>4, <2>1 DEF Unchanged
  <2>. QED
    BY <1>0, <1>3, <1>4, <2>1, <2>2
<1>5. ASSUME NEW p \in Procs,
             \/ Busy(p) \/ LockTimeout(p) \/ OnRefused(p) \/ ConfirmRefused(p) \/ OffRefused(p) \/ RevertNothing(p)
      PROVE  SnapshotInv'
  <2>1. lock = p => pc[p] \in Checking
    BY <1>0, <1>5 DEF Busy, LockTimeout, OnRefused, ConfirmRefused, OffRefused, RevertNothing, At, Checking,
       Control, LockInv, LockedLabels, OnLabels, OnTry, ConfirmLabels, RestoreLabels, QuarantineLabels
  <2>. QED
    BY <1>4, <1>5, <2>1 DEF Busy, LockTimeout, OnRefused, ConfirmRefused, OffRefused, RevertNothing
<1>6. ASSUME NEW p \in Procs, PublishSnapshot(p) PROVE SnapshotInv'
  <2>1. snapshot' = Report /\ UNCHANGED files /\ p # Guard /\ pc'[Guard] = pc[Guard]
    BY <1>0, <1>1, <1>6 DEF PublishSnapshot, Finish, Fault, At, Published
  <2>. QED
    BY <1>0, <2>1, SameReport DEF SnapshotInv
<1>7. ASSUME NEW p \in Procs, NEW c \in Commands, Invoke(p, c), p \in Operators PROVE SnapshotInv'
  <2>1. pc[p] = "idle" /\ pc'[p] = "lock" /\ (\A q \in Procs \ {p} : pc'[q] = pc[q]) /\ lock' = lock
    BY <1>0, <1>7 DEF Invoke, Goto, At
  <2>2. Unchanged' => Unchanged
    BY <1>0, <2>1 DEF Unchanged, Checking
  <2>. QED
    BY <1>0, <1>3, <1>7, <2>1, <2>2 DEF Invoke
<1>8. ASSUME NEW p \in Procs, Acquire(p) PROVE SnapshotInv'
  <2>1. p # Guard /\ lock = Nobody /\ pc'[Guard] = pc[Guard] /\ UNCHANGED <<files, snapshot>>
    BY <1>0, <1>8 DEF Acquire, Goto
  <2>. QED
    BY <1>0, <1>3, <2>1 DEF Unchanged
<1>9. ASSUME NEW p \in Procs, p # Guard, lock' = p, pc'[p] \notin Checking, pc'[Guard] \in {"idle", "look"}
      PROVE  SnapshotInv'
  BY <1>0, <1>9 DEF SnapshotInv, Unchanged
<1>10. ASSUME NEW p \in Procs,
             \/ OnBackup(p) \/ OnState(p) \/ OnVerify(p) \/ OnReplace(p) \/ OnAwait(p)
             \/ ConfirmCheck(p) \/ ConfirmMarker(p) \/ ConfirmState(p) \/ OffCheck(p) \/ RevertCheck(p)
             \/ RestoreAlready(p) \/ RestoreRead(p) \/ RestoreVerify(p) \/ RestoreReplace(p)
             \/ DropMarker(p) \/ DropState(p) \/ DropBackup(p) \/ Await(p)
      PROVE  SnapshotInv'
  <2>1. PICK from \in LockedLabels, to \in LockedLabels \ Checking : Does(p, from, to)
    BY <1>10 DEF OnBackup, OnState, OnVerify, OnReplace, OnAwait, ConfirmCheck, ConfirmMarker, ConfirmState,
       OffCheck, RevertCheck, RestoreAlready, RestoreRead, RestoreVerify, RestoreReplace, DropMarker, DropState,
       DropBackup, Await, AfterRestore, Checking, LockedLabels, OnLabels, OnTry, ConfirmLabels, RestoreLabels,
       QuarantineLabels
  <2>2. lock = p /\ lock' = p /\ pc'[p] = to /\ (\A q \in Procs \ {p} : pc'[q] = pc[q])
    BY <1>0, <2>1, Within
  <2>. QED
    BY <1>0, <1>2, <1>9, <2>1, <2>2
<1>11. ASSUME NEW p \in Procs, ConfirmLate(p) PROVE SnapshotInv'
  <2>1. /\ lock = p /\ pc[p] = "confirm-check" /\ snapshot' = snapshot
        /\ \A q \in Procs \ {p} : pc'[q] = pc[q]
    BY <1>0, <1>11, Within DEF ConfirmLate, LockedLabels, ConfirmLabels
  <2>. QED
    BY <1>0, <1>2, <1>3, <1>11, <2>1 DEF ConfirmLate, Unchanged, Checking
<1>12. ASSUME NEW p \in Procs,
              \/ OnCheck(p) \/ OnTimer(p) \/ OnFails(p) \/ OnUnsynced(p) \/ RestoreFails(p)
              \/ StopTimer(p) \/ StopFails(p) \/ RestartFails(p)
      PROVE  SnapshotInv'
  <2>1. pc[p] \in LockedLabels
    BY <1>12 DEF OnCheck, OnTimer, OnFails, OnUnsynced, RestoreFails, StopTimer, StopFails, RestartFails, At, LockedLabels,
       OnLabels, OnTry, RestoreLabels
  <2>2. lock = p /\ p # Guard
    BY <1>0, <1>2, <2>1 DEF Control, LockInv
  <2>3. lock' = lock /\ \E to \in LockedLabels \ Checking : Goto(p, to)
    BY <1>12, <2>2 DEF OnCheck, OnTimer, OnFails, OnUnsynced, RestoreFails, StopTimer, StopFails, RestartFails, AfterStop,
       Checking, LockedLabels, OnLabels, OnTry, RestoreLabels
  <2>. QED
    BY <1>0, <1>9, <2>2, <2>3 DEF Goto
<1>13. ASSUME NEW p \in Procs, RestartDaemon(p) PROVE SnapshotInv'
  <2>1. lock = p /\ lock' = p /\ p # Guard
    BY <1>0, <1>2, <1>13 DEF RestartDaemon, At, Control, LockInv, LockedLabels, OnLabels, OnTry
  <2>2. pc'[p] \in {"on-await", "await"} /\ pc'[Guard] \in {pc[Guard], "look"}
    BY <1>0, <1>13, <2>1 DEF RestartDaemon, StartJob
  <2>. QED
    BY <1>0, <1>9, <2>1, <2>2 DEF Checking
<1>14. ASSUME DaemonStart PROVE SnapshotInv'
  <2>1. (\A q \in Procs \ {Guard} : pc'[q] = pc[q]) /\ pc'[Guard] \in {pc[Guard], "look"}
    BY <1>0, <1>14 DEF DaemonStart, StartJob
  <2>2. lock' = lock /\ UNCHANGED <<files, snapshot>>
    BY <1>14 DEF DaemonStart
  <2>3. Unchanged' => Unchanged
    BY <1>0, <1>2, <2>1, <2>2 DEF Unchanged
  <2>. QED
    BY <1>0, <1>3, <2>1, <2>2, <2>3
<1>15. ASSUME GuardLook PROVE SnapshotInv'
  <2>1. Finish(Guard, TRUE) /\ UNCHANGED <<files, snapshot>>
    BY <1>1, <1>15 DEF GuardLook, ReadFails, Fault, Published
  <2>. QED
    BY <1>0, <1>2, <1>4, <2>1
<1>16. ASSUME NEW t \in Triggers, Elapse(t) PROVE SnapshotInv'
  <2>1. lock' = lock /\ UNCHANGED <<files, snapshot>>
    BY <1>16 DEF Elapse
  <2>2. \A q \in Procs : pc'[q] = pc[q] \/ (q = Timer /\ pc'[q] = "lock")
    BY <1>0, <1>16 DEF Elapse, Goto
  <2>3. Unchanged' => Unchanged
    BY <1>0, <2>1, <2>2 DEF Unchanged, Checking
  <2>. QED
    BY <1>0, <1>3, <2>1, <2>2, <2>3
<1>17. ASSUME DaemonUp \/ DaemonDies \/ (\E i \in 1..MaxTrials : Deadline(i)) \/ UNCHANGED vars PROVE SnapshotInv'
  BY <1>0, <1>3, <1>17 DEF DaemonUp, DaemonDies, Deadline, vars, Unchanged
<1>18. ~Edit /\ ~Corrupt /\ ~Reboot
  BY <1>1 DEF Edit, Corrupt, Reboot, Fault, Published
<1>19. ~QuarantineFails /\ \A p \in Procs : ~Kill(p) /\ ~ConfirmFails(p)
  BY DEF QuarantineFails, Kill, ConfirmFails, Fault, Published
<1>20. ~GuardReread /\ ~SetAside /\ ~DropOptIn /\ ~StopRevert
  BY <1>0 DEF GuardReread, SetAside, DropOptIn, StopRevert, Does, At
<1>. QED
  BY <1>0, <1>5, <1>6, <1>7, <1>8, <1>10, <1>11, <1>12, <1>13, <1>14, <1>15, <1>16, <1>17, <1>18, <1>19, <1>20
     DEF Next, Step, Failure, GuardStep, Environment

(* Once every command is through, deny-status.json tells what the files say: *)
(* every path that changes them ends in publish_snapshot, and a command that *)
(* refuses has changed nothing.  Hypotheses: one boot (the boot guard does   *)
(* not publish), the commands are not killed, their writes succeed and       *)
(* nobody else touches the files.                                            *)
THEOREM SnapshotTellsTheTruth ==
    ASSUME MaxBoots = 1, {"io", "edit", "corrupt", "kill", "snapshot"} \cap Faults = {}
    PROVE  Spec => []SnapshotIsCurrent
<1>1. Init => SnapshotInv
  BY DEF Init, SnapshotInv, Procs
<1>2. Inv /\ Inv' /\ Care /\ SnapshotInv /\ [Next]_vars => SnapshotInv'
  BY SnapshotStep DEF Published
<1>3. Inv /\ SnapshotInv => SnapshotIsCurrent
  <2>. SUFFICES ASSUME Inv, SnapshotInv, Quiet PROVE snapshot \in {NoSnapshot, Report}
    BY DEF SnapshotIsCurrent
  <2>1. lock = Nobody
    BY DEF Inv, Control, LockInv, Quiet, At, LockedLabels, OnLabels, OnTry, ConfirmLabels, RestoreLabels,
       QuarantineLabels
  <2>. QED
    BY <2>1 DEF SnapshotInv, Unchanged
<1>. QED
  BY <1>1, <1>2, <1>3, InvAlways, CareAlways, PTL DEF Spec

=============================================================================
