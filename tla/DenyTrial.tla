----------------------------- MODULE DenyTrial -----------------------------
(***************************************************************************)
(* The deny trial of bazzite-tower: an operator may switch OpenSnitch from  *)
(* DefaultAction=allow to deny for a limited time.  The helper             *)
(* usr/libexec/bazzite-tower-snitchwatch-deny changes the live config,     *)
(* records the trial, arms a transient systemd timer that takes it back,   *)
(* and a boot guard takes back what a reboot interrupted.                  *)
(*                                                                         *)
(* One action is one durable effect of the helper (a file published or     *)
(* unlinked, a systemctl call), so a kill, a signal, a reboot or another   *)
(* process can come between any two of them.                               *)
(***************************************************************************)
EXTENDS Naturals, FiniteSets

CONSTANTS
    Operators,        \* shells in which root runs the helper
    Timer,            \* the service the revert timer starts
    Guard,            \* bazzite-tower-snitchwatch-deny-guard.service
    Nobody,           \* the policy lock is free
    Bodies,           \* what default-config.json says besides DefaultAction
    SystemBodies,     \* the ones of the system profile with ProcMonitorMethod=proc
    AmbiguousBodies,  \* the ones whose DefaultAction key cannot be edited safely
    NoState,          \* no state.json
    BadState,         \* state.json is present and load_state refuses it
    NoBackup,         \* no config.backup
    NoConfig,         \* the running command has read no config yet
    NoSnapshot,       \* no deny-status.json
    Faults,           \* the kinds of failure that may happen
    MaxFaults,        \* bound: failures in a behaviour
    MaxTrials,        \* bound: trials started in a behaviour
    MaxBoots          \* bound: boots in a behaviour

FaultKinds == {"kill", "term", "interrupt", "io", "snapshot", "systemd-run", "stop-timer",
               "stop-timeout", "restart", "lock-timeout", "daemon", "edit", "corrupt"}

ASSUME BoundsAssumption ==
    /\ MaxTrials \in Nat /\ MaxBoots \in Nat \ {0} /\ MaxFaults \in Nat
    /\ Faults \subseteq FaultKinds

ASSUME BodiesAssumption ==
    SystemBodies \subseteq Bodies /\ AmbiguousBodies \subseteq Bodies

ASSUME ProcessAssumption ==
    /\ Timer # Guard /\ Timer \notin Operators /\ Guard \notin Operators
    /\ Nobody \notin Operators \cup {Timer, Guard}

Procs == Operators \cup {Timer, Guard}

(* The two triggers of the transient timer. *)
Triggers == {"on-active", "on-calendar"}

Actions == {"allow", "deny", "other"}

(* default-config.json: current_action and everything else. *)
Configs == [action : Actions, body : Bodies]

(* state.json; backupSha256 and denySha256 are determined by the body the   *)
(* trial started from.                                                     *)
Trials == [id : 1..MaxTrials, pending : BOOLEAN, boot : 1..MaxBoots, body : Bodies]

ASSUME AbsentAssumption ==
    /\ NoState \notin Trials /\ BadState \notin Trials /\ NoState # BadState
    /\ NoBackup \notin Bodies /\ NoConfig \notin Configs
    /\ NoSnapshot \notin [action : Actions, pending : BOOLEAN, optIn : BOOLEAN]

VARIABLES
    config,      \* /etc/opensnitchd/default-config.json
    backup,      \* body of config.backup (its action is allow), or NoBackup
    state,       \* state.json
    marker,      \* id in the opt-in marker, 0 when there is none
    snapshot,    \* /run/snitchwatch/deny-status.json, the fields of the trial
    timer,       \* triggers of the transient timer that have not elapsed yet
    armedFor,    \* the trial the timer was armed for
    daemon,      \* opensnitch.service: the action it loaded, "down" or "starting"
    guard,       \* the guard unit: inactive, running, active or failed
    lock,        \* holder of the policy lock
    pc,          \* where each process is
    cmd,         \* which command each process runs
    seen,        \* locals of the command that holds the lock: the config it read,
    rec,         \*   the trial record it works on,
    changed,     \*   whether the daemon must be restarted,
    invoked,     \*   whether systemd-run was called
    boot,        \* boot_id
    trials,      \* trials started so far; the id of the last one
    late,        \* trials whose expiresAt has passed
    faults       \* failures so far

files   == <<config, backup, state, marker>>
arming  == <<timer, armedFor>>
units   == <<arming, daemon, guard>>
locals  == <<seen, rec, changed, invoked>>
world   == <<boot, trials, late>>
vars    == <<files, snapshot, units, lock, pc, cmd, locals, world, faults>>

----------------------------------------------------------------------------
(* What the files say. *)

Recorded(s) == s \notin {NoState, BadState}

Pending(s) == Recorded(s) /\ s.pending

(* common.deny_opt_in: the marker counts without a state file, or with the  *)
(* confirmed state of the same trial.                                      *)
DenyOptIn ==
    /\ marker # 0
    /\ \/ state = NoState
       \/ Recorded(state) /\ ~state.pending /\ state.id = marker

ServiceActive == daemon \notin {"down", "starting"}

(* set_action refuses a config whose key is absent, repeated or no string. *)
Editable(c) == c.action \in {"allow", "deny"} /\ c.body \notin AmbiguousBodies

(* Mutant: an opted-in deny is not asked about. *)
CanEnableOptedIn ==
    /\ config.action = "allow" /\ config.body \in SystemBodies
    /\ ServiceActive
    /\ state # BadState /\ ~Pending(state)
    /\ Editable(config)

(* inspect and the blockers of turn_on. *)
CanEnable ==
    /\ config.action = "allow" /\ config.body \in SystemBodies
    /\ ServiceActive
    /\ state # BadState /\ ~Pending(state) /\ ~DenyOptIn
    /\ Editable(config)

(* build_report, as far as the trial goes. *)
Report == [action |-> config.action, pending |-> Pending(state), optIn |-> DenyOptIn]

(* restore_allow: the exact backup when both digests match, else the key.   *)
UsesBackup(c) ==
    /\ Recorded(rec)
    /\ backup = rec.body
    /\ c = [action |-> "deny", body |-> rec.body]

Restored(c) ==
    [action |-> "allow", body |-> IF UsesBackup(c) THEN backup ELSE c.body]

----------------------------------------------------------------------------
(* Building blocks of the actions. *)

Fault(kind) ==
    /\ kind \in Faults /\ faults < MaxFaults
    /\ faults' = faults + 1

At(p, label) == pc[p] = label

Goto(p, label) == pc' = [pc EXCEPT ![p] = label]

(* The holder of the lock goes on, touching only the files and its locals. *)
Does(p, from, to) ==
    /\ At(p, from) /\ Goto(p, to)
    /\ UNCHANGED <<snapshot, units, lock, cmd, world, faults>>

(* A process ends.  The lock goes with its file descriptor; a guard that    *)
(* fails takes the start job of opensnitch.service with it (Requires=).     *)
Finish(p, ok) ==
    /\ pc' = [pc EXCEPT ![p] = "idle"]
    /\ cmd' = [cmd EXCEPT ![p] = "none"]
    /\ IF lock = p
       THEN /\ lock' = Nobody
            /\ seen' = NoConfig /\ rec' = NoState
            /\ changed' = FALSE /\ invoked' = FALSE
       ELSE UNCHANGED <<lock, locals>>
    /\ IF p = Guard
       THEN /\ guard' = IF ok THEN "active" ELSE "failed"
            /\ daemon' = IF ~ok /\ daemon = "starting" THEN "down" ELSE daemon
       ELSE UNCHANGED <<guard, daemon>>

(* A start job of opensnitch.service pulls in the guard unless it already   *)
(* ran in this boot (RemainAfterExit) or there is no state.json             *)
(* (ConditionPathExists).  procs is the program counter after the step but  *)
(* for the guard's.                                                        *)
GuardWanted == guard \in {"inactive", "failed"} /\ state # NoState

StartJob(procs) ==
    /\ daemon' = "starting"
    /\ IF GuardWanted
       THEN /\ guard' = "running"
            /\ pc' = [procs EXCEPT ![Guard] = "look"]
            /\ cmd' = [cmd EXCEPT ![Guard] = "boot"]
       ELSE /\ guard' = IF guard = "failed" THEN "inactive" ELSE guard
            /\ pc' = procs
            /\ UNCHANGED cmd

----------------------------------------------------------------------------
(* The policy lock. *)

Waits(p) == cmd[p] \in {"off", "revert", "boot"}

Entry(p) ==
    IF At(p, "lock-bad") THEN "reread"
    ELSE CASE cmd[p] = "on"      -> "on-check"
           [] cmd[p] = "confirm" -> "confirm-check"
           [] cmd[p] = "off"     -> "off-check"
           [] cmd[p] = "publish" -> "snapshot"
           [] OTHER              -> "revert-check"

(* Root runs a subcommand. *)
Invoke(p, c) ==
    /\ At(p, "idle")
    /\ Goto(p, "lock")
    /\ cmd' = [cmd EXCEPT ![p] = c]
    /\ UNCHANGED <<files, snapshot, units, lock, locals, world, faults>>

Acquire(p) ==
    /\ pc[p] \in {"lock", "lock-bad"}
    /\ lock = Nobody
    /\ lock' = p
    /\ Goto(p, Entry(p))
    /\ UNCHANGED <<files, snapshot, units, cmd, locals, world, faults>>

(* LOCK_NB: on, confirm and publish-status do not wait. *)
Busy(p) ==
    /\ At(p, "lock") /\ ~Waits(p) /\ lock # Nobody
    /\ Finish(p, FALSE)
    /\ UNCHANGED <<files, snapshot, arming, world, faults>>

(* Mutant: the guard waits for the lock without a bound. *)
LockTimeoutNotGuard(p) ==
    /\ At(p, "lock") /\ Waits(p) /\ lock # Nobody /\ p # Guard
    /\ "lock-timeout" \in Faults
    /\ Finish(p, FALSE)
    /\ UNCHANGED <<files, snapshot, arming, world, faults>>

(* off, revert-if-pending and the guard give up after LOCK_TIMEOUT.  Any     *)
(* number of them may: this one is not counted.                            *)
LockTimeout(p) ==
    /\ pc[p] \in {"lock", "lock-bad"} /\ Waits(p) /\ lock # Nobody
    /\ "lock-timeout" \in Faults
    /\ Finish(p, FALSE)
    /\ UNCHANGED <<files, snapshot, arming, world, faults>>

----------------------------------------------------------------------------
(* on: turn_on *)

OnRefused(p) ==
    /\ At(p, "on-check")
    /\ ~CanEnable \/ trials = MaxTrials
    /\ Finish(p, FALSE)
    /\ UNCHANGED <<files, snapshot, arming, world, faults>>

OnCheck(p) ==
    /\ At(p, "on-check")
    /\ CanEnable /\ trials < MaxTrials
    /\ seen' = config
    /\ trials' = trials + 1
    /\ rec' = [id |-> trials + 1, pending |-> TRUE, boot |-> boot, body |-> config.body]
    /\ Goto(p, "on-backup")
    /\ UNCHANGED <<files, snapshot, units, lock, cmd, changed, invoked, boot, late, faults>>

(* Mutant: the wrong part of the config is kept. *)
OnBackupAction(p) ==
    /\ Does(p, "on-backup", "on-state")
    /\ backup' = seen.action
    /\ UNCHANGED <<config, state, marker, locals>>

OnBackup(p) ==
    /\ Does(p, "on-backup", "on-state")
    /\ backup' = seen.body
    /\ UNCHANGED <<config, state, marker, locals>>

(* Mutant: the timer is left for later. *)
OnStateNoTimer(p) ==
    /\ Does(p, "on-state", "on-verify")
    /\ state' = rec
    /\ invoked' = TRUE
    /\ UNCHANGED <<config, backup, marker, seen, rec, changed>>

OnState(p) ==
    /\ Does(p, "on-state", "on-timer")
    /\ state' = rec
    /\ invoked' = TRUE
    /\ UNCHANGED <<config, backup, marker, seen, rec, changed>>

(* systemd-run refuses a unit name that is still loaded: a timer with a     *)
(* trigger left, or its service still running.                             *)
TimerLoaded == timer # {} \/ ~At(Timer, "idle")

(* Mutant: a unit that is still loaded passes for the timer of this trial. *)
OnTimerReused(p) ==
    /\ At(p, "on-timer") /\ Goto(p, "on-verify")
    /\ IF TimerLoaded
       THEN UNCHANGED arming
       ELSE timer' = Triggers /\ armedFor' = rec.id
    /\ UNCHANGED <<files, snapshot, daemon, guard, lock, cmd, locals, world, faults>>

OnTimer(p) ==
    /\ At(p, "on-timer")
    /\ IF TimerLoaded
       THEN /\ Goto(p, "restore")
            /\ UNCHANGED arming
       ELSE /\ Goto(p, "on-verify")
            /\ timer' = Triggers /\ armedFor' = rec.id
    /\ UNCHANGED <<files, snapshot, daemon, guard, lock, cmd, locals, world, faults>>

(* publish with expected: re-read, then rename.  Another writer can come    *)
(* between the two.                                                        *)
OnVerify(p) ==
    /\ Does(p, "on-verify", IF config = seen THEN "on-replace" ELSE "restore")
    /\ UNCHANGED <<files, locals>>

OnReplace(p) ==
    /\ Does(p, "on-replace", "on-restart")
    /\ config' = [action |-> "deny", body |-> seen.body]
    /\ UNCHANGED <<backup, state, marker, locals>>

(* systemctl restart: the old daemon stops at once, the call returns when   *)
(* the start job is done.                                                  *)
RestartDaemon(p) ==
    /\ \/ At(p, "on-restart") /\ StartJob([pc EXCEPT ![p] = "on-await"])
       \/ At(p, "restart") /\ StartJob([pc EXCEPT ![p] = "await"])
    /\ UNCHANGED <<files, snapshot, arming, lock, locals, world, faults>>

OnAwait(p) ==
    /\ Does(p, "on-await", IF ServiceActive THEN "snapshot" ELSE "restore")
    /\ daemon # "starting"
    /\ UNCHANGED <<files, locals>>

OnTry == {"on-backup", "on-state", "on-timer", "on-verify", "on-replace",
          "on-restart", "on-await"}

(* A step of on raises: an I/O error (one after the rename, in the          *)
(* directory sync, is an error of the next label; see OnUnsynced for the    *)
(* state's), SIGTERM or SIGHUP (terminated), SIGINT, or a failing command.  *)
(* systemd-run may fail with the timer started.                             *)
OnFails(p) ==
    /\ pc[p] \in OnTry
    /\ \/ Fault("io") /\ pc[p] \notin {"on-timer", "on-await"}
       \/ Fault("term") \/ Fault("interrupt")
       \/ Fault("restart") /\ pc[p] \in {"on-restart", "on-await"}
       \/ Fault("systemd-run") /\ At(p, "on-timer")
    /\ Goto(p, "restore")
    /\ \/ UNCHANGED arming
       \/ /\ At(p, "on-timer") /\ ~TimerLoaded
          /\ timer' = Triggers /\ armedFor' = rec.id
    /\ UNCHANGED <<files, snapshot, daemon, guard, lock, cmd, locals, world>>

(* save_state raises after the rename, in the directory sync, or a signal    *)
(* comes before systemd-run: the state stands and no timer was asked for.   *)
OnUnsynced(p) ==
    /\ At(p, "on-timer") /\ Goto(p, "restore")
    /\ Fault("io") \/ Fault("term") \/ Fault("interrupt")
    /\ invoked' = FALSE
    /\ UNCHANGED <<files, snapshot, units, lock, cmd, seen, rec, changed, world>>

----------------------------------------------------------------------------
(* confirm *)

(* Nothing pending, live action not deny, or daemon not active. *)
ConfirmRefused(p) ==
    /\ At(p, "confirm-check")
    /\ Pending(state) =>
          state.id \notin late /\ (config.action # "deny" \/ ~ServiceActive)
    /\ Finish(p, FALSE)
    /\ UNCHANGED <<files, snapshot, arming, world, faults>>

(* Past the deadline confirm turns the trial off. *)
ConfirmLate(p) ==
    /\ Does(p, "confirm-check", "off-check")
    /\ Pending(state) /\ state.id \in late
    /\ UNCHANGED <<files, locals>>

ConfirmCheck(p) ==
    /\ Does(p, "confirm-check", "confirm-marker")
    /\ Pending(state) /\ state.id \notin late
    /\ config.action = "deny" /\ ServiceActive
    /\ rec' = state
    /\ UNCHANGED <<files, seen, changed, invoked>>

ConfirmMarker(p) ==
    /\ Does(p, "confirm-marker", "confirm-state")
    /\ marker' = rec.id
    /\ UNCHANGED <<config, backup, state, locals>>

ConfirmState(p) ==
    /\ Does(p, "confirm-state", "stop")
    /\ state' = [rec EXCEPT !.pending = FALSE]
    /\ UNCHANGED <<config, backup, marker, locals>>

ConfirmFails(p) ==
    /\ pc[p] \in {"confirm-marker", "confirm-state"}
    /\ Fault("io")
    /\ Finish(p, FALSE)
    /\ UNCHANGED <<files, snapshot, arming, world>>

----------------------------------------------------------------------------
(* off and revert-if-pending: turn_off, revert_if_pending *)

OffRefused(p) ==
    /\ At(p, "off-check")
    /\ \/ state = BadState
       \/ state = NoState /\ marker = 0 /\ config.action = "allow"
    /\ Finish(p, state # BadState)
    /\ UNCHANGED <<files, snapshot, arming, world, faults>>

(* Mutant: the record is discarded before allow is restored. *)
OffCheckDiscards(p) ==
    /\ Does(p, "off-check", "restore")
    /\ state # BadState
    /\ rec' = state /\ state' = NoState
    /\ UNCHANGED <<config, backup, marker, seen, changed, invoked>>

OffCheck(p) ==
    /\ Does(p, "off-check", "restore")
    /\ state # BadState
    /\ state # NoState \/ marker # 0 \/ config.action # "allow"
    /\ rec' = state
    /\ UNCHANGED <<files, seen, changed, invoked>>

RevertNothing(p) ==
    /\ At(p, "revert-check")
    /\ ~Pending(state)
    /\ Finish(p, state # BadState)
    /\ UNCHANGED <<files, snapshot, arming, world, faults>>

RevertCheck(p) ==
    /\ Does(p, "revert-check", "restore")
    /\ Pending(state)
    /\ rec' = state
    /\ UNCHANGED <<files, seen, changed, invoked>>

RestoreLabels == {"restore", "restore-verify", "restore-replace",
                  "drop-marker", "drop-state", "drop-backup"}

(* restore_allow.  After it turn_on and turn_off discard, and the guard     *)
(* quarantines a state it could not load (rec is BadState).                 *)
AfterRestore(p) == IF p = Guard /\ rec = BadState THEN "set-aside" ELSE "drop-marker"

RestoreAlready(p) ==
    /\ Does(p, "restore", AfterRestore(p))
    /\ config.action = "allow"
    /\ changed' = FALSE
    /\ UNCHANGED <<files, seen, rec, invoked>>

RestoreRead(p) ==
    /\ Does(p, "restore", "restore-verify")
    /\ config.action # "allow" /\ (UsesBackup(config) \/ Editable(config))
    /\ seen' = config
    /\ UNCHANGED <<files, rec, changed, invoked>>

RestoreVerify(p) ==
    /\ Does(p, "restore-verify", "restore-replace")
    /\ config = seen
    /\ UNCHANGED <<files, locals>>

RestoreReplace(p) ==
    /\ Does(p, "restore-replace", AfterRestore(p))
    /\ config' = Restored(seen)
    /\ changed' = TRUE
    /\ UNCHANGED <<backup, state, marker, seen, rec, invoked>>

(* discard: the marker, then the state, then the backup. *)
DropMarker(p) ==
    /\ Does(p, "drop-marker", "drop-state")
    /\ marker' = 0
    /\ UNCHANGED <<config, backup, state, locals>>

DropState(p) ==
    /\ Does(p, "drop-state", "drop-backup")
    /\ state' = NoState
    /\ UNCHANGED <<config, backup, marker, locals>>

(* The rollback of on stops the timer only once systemd-run was invoked. *)
DropBackup(p) ==
    /\ Does(p, "drop-backup", IF cmd[p] # "on" \/ invoked THEN "stop"
               ELSE IF changed THEN "restart" ELSE "snapshot")
    /\ backup' = NoBackup
    /\ UNCHANGED <<config, state, marker, locals>>

(* restore_allow or discard raises: an I/O error, SIGINT (the rollback of on *)
(* ignores SIGTERM and SIGHUP only), a config that cannot be edited or has  *)
(* drifted.  The rollback notes it and goes on to the timer and the daemon; *)
(* off publishes the snapshot and gives up; the guard fails.                *)
RestoreFails(p) ==
    /\ \/ pc[p] \in RestoreLabels /\ (Fault("io") \/ Fault("interrupt"))
       \/ /\ At(p, "restore") /\ UNCHANGED faults
          /\ config.action # "allow" /\ ~UsesBackup(config) /\ ~Editable(config)
       \/ /\ At(p, "restore-verify") /\ config # seen /\ UNCHANGED faults
    /\ IF p = Guard
       THEN Finish(p, FALSE)
       ELSE /\ Goto(p, IF cmd[p] # "on" THEN "snapshot"
                       ELSE IF invoked THEN "stop" ELSE "restart")
            /\ changed' = TRUE
            /\ UNCHANGED <<daemon, guard, lock, cmd, seen, rec, invoked>>
    /\ UNCHANGED <<files, snapshot, arming, world>>

(* stop_timer.  turn_off restarts the daemon only if it wrote the config;    *)
(* the guard and confirm never do.                                          *)
AfterStop == IF changed THEN "restart" ELSE "snapshot"

(* Mutant: the daemon is never restarted. *)
StopTimerOnly(p) ==
    /\ At(p, "stop")
    /\ timer' = {}
    /\ IF p = Guard
       THEN Finish(p, TRUE)
       ELSE Goto(p, "snapshot") /\ UNCHANGED <<daemon, guard, lock, cmd, locals>>
    /\ UNCHANGED <<files, snapshot, armedFor, world, faults>>

StopTimer(p) ==
    /\ At(p, "stop")
    /\ timer' = {}
    /\ IF p = Guard
       THEN Finish(p, TRUE)
       ELSE /\ Goto(p, AfterStop)
            /\ UNCHANGED <<daemon, guard, lock, cmd, locals>>
    /\ UNCHANGED <<files, snapshot, armedFor, world, faults>>

(* systemctl stop fails or times out, with the timer stopped or not.  The    *)
(* rollback of on suppresses that; off and confirm skip what is left.       *)
StopFails(p) ==
    /\ At(p, "stop")
    /\ Fault("stop-timer") \/ Fault("stop-timeout")
    /\ timer' \in {timer, {}}
    /\ IF p = Guard
       THEN Finish(p, FALSE)
       ELSE /\ Goto(p, IF cmd[p] = "on" THEN AfterStop ELSE "snapshot")
            /\ UNCHANGED <<daemon, guard, lock, cmd, locals>>
    /\ UNCHANGED <<files, snapshot, armedFor, world>>

(* Mutant: a command that restarted the daemon publishes nothing. *)
AwaitSilently(p) ==
    /\ At(p, "await") /\ daemon # "starting"
    /\ Finish(p, TRUE)
    /\ UNCHANGED <<files, snapshot, arming, world, faults>>

Await(p) ==
    /\ Does(p, "await", "snapshot")
    /\ daemon # "starting"
    /\ UNCHANGED <<files, locals>>

RestartFails(p) ==
    /\ pc[p] \in {"restart", "await"}
    /\ Fault("restart")
    /\ Goto(p, "snapshot")
    /\ UNCHANGED <<files, snapshot, units, lock, cmd, locals, world>>

(* publish_snapshot is the last thing a command does.  A bad state or a     *)
(* failed write only warns.                                                *)
PublishSnapshot(p) ==
    /\ At(p, "snapshot")
    /\ \/ /\ state # BadState /\ snapshot' = Report
          /\ UNCHANGED faults
       \/ state = BadState /\ UNCHANGED <<snapshot, faults>>
       \/ Fault("snapshot") /\ UNCHANGED snapshot
    /\ Finish(p, TRUE)
    /\ UNCHANGED <<files, arming, world>>

----------------------------------------------------------------------------
(* revert-if-pending --boot: boot_guard *)

(* Mutants: every pending trial is the guard's business; only this boot's. *)
ShouldRevertAny == Pending(state)

ShouldRevertThisBoot == Pending(state) /\ state.boot = boot

(* guard_should_revert, without the lock. *)
ShouldRevert == Pending(state) /\ state.boot # boot

(* load_state raises: the file is bad, or the read itself failed. *)
ReadFails ==
    \/ state = BadState /\ UNCHANGED faults
    \/ Recorded(state) /\ Fault("io")

(* The first, unlocked read.  A read error proves nothing yet. *)
GuardLook ==
    /\ At(Guard, "look")
    /\ \/ /\ state # BadState /\ ~ShouldRevert
          /\ Finish(Guard, TRUE)
          /\ UNCHANGED <<arming, faults>>
       \/ /\ ShouldRevert
          /\ Goto(Guard, "lock")
          /\ UNCHANGED <<units, lock, cmd, locals, faults>>
       \/ /\ ReadFails
          /\ Goto(Guard, "lock-bad")
          /\ UNCHANGED <<units, lock, cmd, locals>>
    /\ UNCHANGED <<files, snapshot, world>>

(* The second read, under the lock. *)
GuardReread ==
    /\ At(Guard, "reread")
    /\ \/ /\ state # BadState /\ ~ShouldRevert
          /\ Finish(Guard, TRUE)
          /\ UNCHANGED <<arming, faults>>
       \/ /\ ShouldRevert
          /\ Goto(Guard, "revert-check")
          /\ UNCHANGED <<units, lock, cmd, locals, faults>>
       \/ /\ ReadFails
          /\ Goto(Guard, "restore")
          /\ rec' = BadState
          /\ UNCHANGED <<units, lock, cmd, seen, changed, invoked>>
    /\ UNCHANGED <<files, snapshot, world>>

(* recover_bad_state, after restore_allow(ctx, None). *)
SetAside ==
    /\ Does(Guard, "set-aside", "drop-opt-in")
    /\ state' = NoState
    /\ UNCHANGED <<config, backup, marker, locals>>

DropOptIn ==
    /\ Does(Guard, "drop-opt-in", "stop-revert")
    /\ marker' = 0
    /\ UNCHANGED <<config, backup, state, locals>>

QuarantineFails ==
    /\ pc[Guard] \in {"set-aside", "drop-opt-in"}
    /\ Fault("io")
    /\ Finish(Guard, FALSE)
    /\ UNCHANGED <<files, snapshot, arming, world>>

(* A failing systemctl is a note (Refusal); one that exceeds its timeout     *)
(* raises TimeoutExpired, which nothing here catches.                       *)
StopRevert ==
    /\ At(Guard, "stop-revert")
    /\ \/ timer' = {} /\ Finish(Guard, TRUE) /\ UNCHANGED faults
       \/ timer' = timer /\ Finish(Guard, TRUE) /\ Fault("stop-timer")
       \/ timer' \in {timer, {}} /\ Finish(Guard, FALSE) /\ Fault("stop-timeout")
    /\ UNCHANGED <<files, snapshot, armedFor, world>>

----------------------------------------------------------------------------
(* systemd, the clock, and what else happens to the machine *)

(* A trigger of the timer elapses.  The wall-clock one is the deadline; the  *)
(* monotonic one stalls in suspend and the wall clock may be set, so its    *)
(* place in the order is open.                                             *)
Elapse(t) ==
    /\ t \in timer
    /\ t = "on-calendar" => armedFor \in late
    /\ timer' = timer \ {t}
    /\ IF At(Timer, "idle")
       THEN Goto(Timer, "lock") /\ cmd' = [cmd EXCEPT ![Timer] = "revert"]
       ELSE UNCHANGED <<pc, cmd>>
    /\ UNCHANGED <<files, snapshot, armedFor, daemon, guard, lock, locals, world, faults>>

(* expiresAt of a trial passes. *)
Deadline(i) ==
    /\ i \in 1..trials \ late
    /\ late' = late \cup {i}
    /\ UNCHANGED <<files, snapshot, units, lock, pc, cmd, locals, boot, trials, faults>>

(* The start job runs once the guard is through; the daemon reads its config *)
(* only here.                                                              *)
DaemonUp ==
    /\ daemon = "starting" /\ guard # "running"
    /\ \/ daemon' = config.action /\ UNCHANGED faults
       \/ daemon' = "down" /\ Fault("daemon")
    /\ UNCHANGED <<files, snapshot, arming, guard, lock, pc, cmd, locals, world>>

DaemonDies ==
    /\ ServiceActive /\ Fault("daemon")
    /\ daemon' = "down"
    /\ UNCHANGED <<files, snapshot, arming, guard, lock, pc, cmd, locals, world>>

(* Someone starts opensnitch.service again. *)
DaemonStart ==
    /\ daemon = "down" /\ guard # "running"
    /\ StartJob(pc)
    /\ UNCHANGED <<files, snapshot, arming, lock, locals, world, faults>>

(* SIGKILL by root or the OOM killer; the guard that exceeds                *)
(* TimeoutStartSec is ended by systemd.                                     *)
Kill(p) ==
    /\ ~At(p, "idle") /\ Fault("kill")
    /\ Finish(p, FALSE)
    /\ UNCHANGED <<files, snapshot, arming, world>>

(* Another root process edits the config; it never turns deny on by hand. *)
Edit ==
    /\ Fault("edit")
    /\ config' \in [action : {config.action, "allow", "other"}, body : Bodies] \ {config}
    /\ UNCHANGED <<backup, state, marker, snapshot, units, lock, pc, cmd, locals, world>>

(* state.json is damaged or made unsafe. *)
Corrupt ==
    /\ Recorded(state) /\ Fault("corrupt")
    /\ state' = BadState
    /\ UNCHANGED <<config, backup, marker, snapshot, units, lock, pc, cmd, locals, world>>

(* The machine goes down at any point and comes up: /run and every process  *)
(* are gone, opensnitch.service is started again after the guard.           *)
Reboot ==
    /\ boot < MaxBoots
    /\ boot' = boot + 1
    /\ snapshot' = NoSnapshot
    /\ timer' = {}
    /\ daemon' = "starting"
    /\ lock' = Nobody
    /\ seen' = NoConfig /\ rec' = NoState /\ changed' = FALSE /\ invoked' = FALSE
    /\ guard' = IF state = NoState THEN "inactive" ELSE "running"
    /\ pc' = [p \in Procs |-> IF p = Guard /\ state # NoState THEN "look" ELSE "idle"]
    /\ cmd' = [p \in Procs |-> IF p = Guard /\ state # NoState THEN "boot" ELSE "none"]
    /\ UNCHANGED <<files, armedFor, trials, late, faults>>

----------------------------------------------------------------------------
(* The image ships allow; the machine has booted. *)
Init ==
    /\ config \in [action : {"allow"}, body : Bodies]
    /\ backup = NoBackup /\ state = NoState /\ marker = 0
    /\ snapshot = NoSnapshot
    /\ timer = {} /\ armedFor = 0
    /\ daemon = "allow" /\ guard = "inactive"
    /\ lock = Nobody
    /\ pc = [p \in Procs |-> "idle"] /\ cmd = [p \in Procs |-> "none"]
    /\ seen = NoConfig /\ rec = NoState /\ changed = FALSE /\ invoked = FALSE
    /\ boot = 1 /\ trials = 0 /\ late = {} /\ faults = 0

(* The next step of a running command, failures aside. *)
Step(p) ==
    \/ Acquire(p) \/ Busy(p)
    \/ OnRefused(p) \/ OnCheck(p) \/ OnBackup(p) \/ OnState(p) \/ OnTimer(p)
    \/ OnVerify(p) \/ OnReplace(p) \/ RestartDaemon(p) \/ OnAwait(p)
    \/ ConfirmRefused(p) \/ ConfirmLate(p) \/ ConfirmCheck(p)
    \/ ConfirmMarker(p) \/ ConfirmState(p)
    \/ OffRefused(p) \/ OffCheck(p) \/ RevertNothing(p) \/ RevertCheck(p)
    \/ RestoreAlready(p) \/ RestoreRead(p) \/ RestoreVerify(p) \/ RestoreReplace(p)
    \/ DropMarker(p) \/ DropState(p) \/ DropBackup(p)
    \/ StopTimer(p) \/ Await(p) \/ PublishSnapshot(p)

GuardStep == GuardLook \/ GuardReread \/ SetAside \/ DropOptIn \/ StopRevert

Failure(p) ==
    \/ LockTimeout(p) \/ OnFails(p) \/ OnUnsynced(p) \/ ConfirmFails(p) \/ RestoreFails(p)
    \/ StopFails(p) \/ RestartFails(p) \/ Kill(p)

Commands == {"on", "confirm", "off", "revert", "publish"}

Environment ==
    \/ \E t \in Triggers : Elapse(t)
    \/ \E i \in 1..MaxTrials : Deadline(i)
    \/ DaemonUp \/ DaemonDies \/ DaemonStart
    \/ Edit \/ Corrupt \/ Reboot

Next ==
    \/ \E p \in Operators, c \in Commands : Invoke(p, c)
    \/ \E p \in Procs : Step(p) \/ Failure(p)
    \/ GuardStep \/ QuarantineFails
    \/ Environment

Spec == Init /\ [][Next]_vars

(* A started command runs on: root does not stop it and each systemctl call *)
(* has a timeout.  Commands that wait for the lock poll it until they get   *)
(* it or, where the run allows that, time out.  Time passes, armed triggers *)
(* elapse, and systemd works off its start jobs.  Nothing makes root type a *)
(* command.                                                                *)
Fairness ==
    /\ \A p \in Procs : SF_vars(Step(p) \/ RestoreFails(p))
    /\ \A p \in Procs : WF_vars(LockTimeout(p))
    /\ WF_vars(GuardStep)
    /\ \A t \in Triggers : WF_vars(Elapse(t))
    /\ \A i \in 1..MaxTrials : WF_vars(Deadline(i))
    /\ WF_vars(DaemonUp)

FairSpec == Spec /\ Fairness

----------------------------------------------------------------------------
(* Properties *)

OnLabels == {"on-check"} \cup OnTry
ConfirmLabels == {"confirm-check", "confirm-marker", "confirm-state"}
QuarantineLabels == {"set-aside", "drop-opt-in", "stop-revert"}
LockedLabels == OnLabels \cup ConfirmLabels \cup RestoreLabels \cup QuarantineLabels
    \cup {"reread", "off-check", "revert-check", "stop", "restart", "await", "snapshot"}

(* Every variable has its type. *)
TypeOK ==
    /\ config \in Configs
    /\ backup \in Bodies \cup {NoBackup}
    /\ state \in Trials \cup {NoState, BadState}
    /\ marker \in 0..MaxTrials
    /\ snapshot \in [action : Actions, pending : BOOLEAN, optIn : BOOLEAN] \cup {NoSnapshot}
    /\ timer \subseteq Triggers /\ armedFor \in 0..MaxTrials
    /\ daemon \in Actions \cup {"down", "starting"}
    /\ guard \in {"inactive", "running", "active", "failed"}
    /\ lock \in Procs \cup {Nobody}
    /\ pc \in [Procs -> LockedLabels \cup {"idle", "lock", "lock-bad", "look"}]
    /\ cmd \in [Procs -> Commands \cup {"none", "boot"}]
    /\ seen \in Configs \cup {NoConfig}
    /\ rec \in Trials \cup {NoState, BadState}
    /\ changed \in BOOLEAN /\ invoked \in BOOLEAN
    /\ boot \in 1..MaxBoots /\ trials \in 0..MaxTrials
    /\ late \subseteq 1..MaxTrials /\ faults \in 0..MaxFaults

(* A config that says deny is always accounted for by a state file, so off,  *)
(* the timer and the boot guard find it: turn_on records the trial before   *)
(* it writes deny, turn_off restores allow before it discards the record.   *)
DenyRecorded == config.action = "deny" => state # NoState

(* An unconfirmed trial of an earlier boot is never enforced: the daemon     *)
(* only starts behind the guard, which reverts it first.                    *)
NoStaleDeny == daemon = "deny" /\ Pending(state) => state.boot = boot

(* The opt-in marker never vouches for another trial than the recorded one. *)
MarkerOfThisTrial == marker # 0 /\ Recorded(state) => state.id = marker

(* The guard takes back trials of earlier boots only, never the one whose    *)
(* daemon restart called it, although it decides that without the lock.     *)
GuardSparesThisBoot == lock = Guard /\ Recorded(rec) => rec.boot # boot

(* The timer of one trial never takes a deny back that a later trial wrote:  *)
(* systemd-run refuses a second trial while the first one's units live.      *)
TimerRevertsItsTrial ==
    lock = Timer /\ Recorded(rec) /\ config.action = "deny" => rec.id = armedFor

(* While on waits for the daemon it restarted, the guard that this restart   *)
(* runs does not wait for the lock on holds.                                *)
NoRestartDeadlock ==
    \A p \in Procs : At(p, "on-await") => pc[Guard] \notin {"lock", "lock-bad"}

(* The inductive invariant behind DenyRecorded, NoStaleDeny and              *)
(* MarkerOfThisTrial.  The lock is held by exactly the process that is past *)
(* acquiring it; the guard runs the guard's code and nobody else does.      *)
GuardOnly == {"look", "lock-bad", "reread"} \cup QuarantineLabels

GuardLabels == {"idle", "lock", "revert-check", "stop"} \cup RestoreLabels \cup GuardOnly

LockInv ==
    /\ \A p \in Procs : pc[p] \in LockedLabels <=> lock = p
    /\ \A p \in Procs : pc[p] \in GuardOnly => p = Guard
    /\ pc[Guard] \in GuardLabels
    /\ cmd[Guard] \in {"none", "boot"}
    /\ guard = "running" <=> pc[Guard] # "idle"

(* The holder has read a config and has a trial to work on where it needs   *)
(* them; only the guard works without one.                                 *)
LocalsAt(p) ==
    /\ pc[p] \in OnTry \cup {"restore-verify", "restore-replace"} => seen \in Configs
    /\ pc[p] \in OnTry \cup {"confirm-marker", "confirm-state"} => rec \in Trials

LocalsInv == \A p \in Procs : LocalsAt(p)

(* What the holder may rely on at each label. *)
HolderAt(p) ==
    /\ pc[p] \in {"on-backup", "on-state"} => rec.boot = boot /\ marker = 0
    /\ pc[p] \in {"on-timer", "on-verify", "on-replace"} => state # NoState
    /\ pc[p] \in {"confirm-marker", "confirm-state"} =>
          state # NoState /\ (Recorded(state) => state.id = rec.id)
    /\ At(p, "confirm-state") => marker = rec.id
    /\ pc[p] \in {"drop-marker", "drop-state", "drop-backup", "set-aside"} =>
          config.action # "deny"
    /\ p = Guard /\ pc[p] \in {"drop-backup", "stop", "drop-opt-in", "stop-revert"} =>
          state = NoState

HolderInv == \A p \in Procs : HolderAt(p)

(* While a trial of an earlier boot is pending the guard is at work, or it   *)
(* has failed and the daemon is down.                                       *)
StaleInv ==
    ShouldRevert =>
        /\ guard \in {"running", "failed"} /\ ~ServiceActive
        /\ guard = "failed" => daemon = "down"

TrialInv ==
    LockInv /\ LocalsInv /\ HolderInv /\ StaleInv /\ DenyRecorded /\ MarkerOfThisTrial

Quiet == \A p \in Procs : At(p, "idle")

(* A trial of this boot that is left alone has a trigger to come, or its     *)
(* deadline has passed and status calls it expired.                         *)
TrialIsArmed ==
    Quiet /\ config.action = "deny" /\ Pending(state) /\ state.boot = boot =>
        timer # {} \/ state.id \in late

(* With no command running, a config taken back to allow is what the daemon  *)
(* enforces too.                                                           *)
DenyNeverLingers ==
    Quiet /\ config.action = "allow" => daemon # "deny"

(* With no command running, the snapshot tells the truth about the trial. *)
SnapshotIsCurrent == Quiet => snapshot \in {NoSnapshot, Report}

(* A trial that is enforced comes to an end: it is confirmed, or the timer,  *)
(* root or the rollback of on takes it back and the daemon follows.         *)
TrialEnds ==
    daemon = "deny" /\ Pending(state) ~>
        daemon # "deny" \/ (Recorded(state) /\ ~state.pending)

(* A start job of opensnitch.service comes to an end, although it waits for  *)
(* the guard, the guard for the lock, and the holder of the lock perhaps    *)
(* for the start job.                                                      *)
StartJobEnds == daemon = "starting" ~> daemon # "starting"

=============================================================================
