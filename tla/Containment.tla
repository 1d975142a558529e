---------------------------- MODULE Containment ----------------------------
(* Running one command as the unprivileged build uid and getting rid of all   *)
(* it leaves behind: `run` of snitchwatch-system-unpriv.py, which reads the   *)
(* drop of the privileges back before the exec, and run_unprivileged of       *)
(* snitchwatch-system-stage.py, which does not but has a time limit; the      *)
(* clean-up is the same. Root is a child subreaper: an orphan of the command  *)
(* becomes its child, unless a process of the command has made itself a       *)
(* subreaper too. The command may fork at any moment, the moments between two *)
(* reads of /proc included.                                                   *)
EXTENDS Naturals, FiniteSets

CONSTANTS
  Pids,           \* process ids
  Root,           \* the process of root that runs the command
  Rounds,         \* scans before kill_leftovers gives up (50 in the code)
  None            \* nothing

ASSUME ContainmentAssumption ==
  Rounds \in Nat \ {0} /\ Root \notin Pids /\ None \notin Pids \union {Root}

VARIABLES
  phase,          \* what root is doing
  main,           \* the process root forked
  dropped,        \* the privilege drop took effect in it
  failed,         \* the command ended with an error, or its time was up
  state, parent,  \* state[p], parent[p]: the process table
  names, left,    \* kill_leftovers: processes still to look at, children found
  round           \* kill_leftovers: scans that found something

table == <<state, parent>>
contained == <<phase, main, dropped, failed, state, parent, names, left, round>>

Phases == {"idle", "running", "scan", "read", "kill", "clean", "refused"}

Alive == {p \in Pids : state[p] = "alive"}
(* The command's processes; a stranger is a process of somebody else.         *)
Descendants == {p \in Pids : state[p] \in {"alive", "zombie"}}

ContainmentTypeOK ==
  /\ phase \in Phases
  /\ main \in Pids \union {None}
  /\ dropped \in BOOLEAN /\ failed \in BOOLEAN
  /\ state \in [Pids -> {"free", "alive", "zombie", "stranger"}]
  /\ parent \in [Pids -> Pids \union {Root, None}]
  /\ names \subseteq Pids /\ left \subseteq Pids
  /\ round \in 0..Rounds

---------------------------------------------------------------------------
(* Root.                                                                      *)

(* The drop takes effect, or one of its steps fails, or every step succeeds   *)
(* and yet something is left (capabilities that securebits keep across the    *)
(* change of the uid).                                                        *)
Drops == {"taken", "failed", "void"}

(* A step that fails aborts the exec. A drop that is void is found only by a  *)
(* child that looks into /proc/self/status.                                   *)
AnyUnfailed(looks, drop) == drop # "failed"
Executes(looks, drop) == drop = "taken" \/ (drop = "void" /\ ~looks)

Spawn(looks) ==
  /\ phase = "idle"
  /\ \E drop \in Drops :
       IF Executes(looks, drop)
         THEN \E p \in Pids :
                /\ state[p] = "free"
                /\ state' = [state EXCEPT ![p] = "alive"]
                /\ parent' = [parent EXCEPT ![p] = Root]
                /\ main' = p
                /\ dropped' = (drop = "taken")
                /\ phase' = "running"
         ELSE /\ phase' = "refused"
              /\ UNCHANGED <<table, main, dropped>>
  /\ failed' = FALSE
  /\ UNCHANGED <<names, left, round>>

(* Who is in every set that holds p and the parents of its members.           *)
Ancestors(p) ==
  {a \in Pids \ {p} :
     \A S \in SUBSET Pids : p \in S /\ (\A x \in S : parent[x] \in S \union {Root, None}) => a \in S}

(* A process ends: its children go to the nearest of its ancestors that is a  *)
(* subreaper, root at the latest.                                             *)
Dies(p) ==
  /\ state' = [state EXCEPT ![p] = "zombie"]
  /\ \E heir \in {Root} \union Ancestors(p) :
       parent' = [q \in Pids |-> IF parent[q] = p THEN heir ELSE parent[q]]

(* subprocess.run kills a command that exceeds its time (stage.py only).      *)
TimedOut ==
  /\ phase = "running" /\ state[main] = "alive"
  /\ Dies(main)
  /\ failed' = TRUE
  /\ UNCHANGED <<phase, main, dropped, names, left, round>>

(* child.wait returns, with an error or without.                              *)
Ended ==
  /\ phase = "running" /\ state[main] = "zombie"
  /\ state' = [state EXCEPT ![main] = "free"]
  /\ parent' = [parent EXCEPT ![main] = None]
  /\ failed' \in {failed, TRUE}
  /\ main' = None
  /\ round' = 0
  /\ phase' = "scan"
  /\ UNCHANGED <<dropped, names, left>>

(* children: list /proc, then read one stat file after the other.             *)
Scan ==
  /\ phase = "scan"
  /\ names' = {p \in Pids : state[p] # "free"}
  /\ left' = {}
  /\ phase' = "read"
  /\ UNCHANGED <<table, main, dropped, failed, round>>

AnyProcess(p) == state[p] # "free"
IsChild(p) == state[p] # "free" /\ parent[p] = Root

Read(p) ==
  /\ phase = "read" /\ p \in names
  /\ names' = names \ {p}
  /\ left' = IF IsChild(p) THEN left \union {p} ELSE left
  /\ UNCHANGED <<phase, table, main, dropped, failed, round>>

ReadAll ==
  /\ phase = "read" /\ names = {}
  /\ phase' = IF left = {} THEN "clean" ELSE "kill"
  /\ UNCHANGED <<table, main, dropped, failed, names, left, round>>

Kill(p) ==
  /\ phase = "kill" /\ p \in left \intersect Alive
  /\ Dies(p)
  /\ UNCHANGED <<phase, main, dropped, failed, names, left, round>>

(* waitpid on every process found.                                            *)
Reaped ==
  /\ state' = [p \in Pids |-> IF p \in left THEN "free" ELSE state[p]]
  /\ parent' = [p \in Pids |-> IF p \in left THEN None ELSE parent[p]]

(* waitpid has returned for all of them: scan again, or give up.              *)
ReapOnce ==
  /\ phase = "kill" /\ left \intersect Alive = {}
  /\ Reaped
  /\ round' = round + 1
  /\ phase' = "clean"
  /\ UNCHANGED <<main, dropped, failed, names, left>>

ReapLate ==
  /\ phase = "kill" /\ left \intersect Alive = {}
  /\ Reaped
  /\ round' = round + 1
  /\ phase' = IF round = Rounds THEN "refused" ELSE "scan"
  /\ UNCHANGED <<main, dropped, failed, names, left>>

ReapForever ==
  /\ phase = "kill" /\ left \intersect Alive = {}
  /\ Reaped
  /\ phase' = "scan"
  /\ UNCHANGED <<main, dropped, failed, names, left, round>>

Reap ==
  /\ phase = "kill" /\ left \intersect Alive = {}
  /\ Reaped
  /\ round' = round + 1
  /\ phase' = IF round + 1 = Rounds THEN "refused" ELSE "scan"
  /\ UNCHANGED <<main, dropped, failed, names, left>>

(* The caller goes on with its next command.                                  *)
Again == phase = "clean" /\ phase' = "idle"

---------------------------------------------------------------------------
(* The command's processes, and other people's.                               *)

Elsewhere == UNCHANGED <<phase, main, dropped, failed, names, left, round>>

Fork(p, q) ==
  /\ state[p] = "alive" /\ state[q] = "free"
  /\ state' = [state EXCEPT ![q] = "alive"]
  /\ parent' = [parent EXCEPT ![q] = p]
  /\ Elsewhere

Exit(p) ==
  /\ state[p] = "alive"
  /\ Dies(p)
  /\ Elsewhere

Collect(p, q) ==
  /\ state[p] = "alive" /\ state[q] = "zombie" /\ parent[q] = p
  /\ state' = [state EXCEPT ![q] = "free"]
  /\ parent' = [parent EXCEPT ![q] = None]
  /\ Elsewhere

(* A freed pid may be taken by a process that has nothing to do with root.    *)
Arrive(p) ==
  /\ state[p] = "free"
  /\ state' = [state EXCEPT ![p] = "stranger"]
  /\ Elsewhere /\ UNCHANGED parent

Leave(p) ==
  /\ state[p] = "stranger"
  /\ state' = [state EXCEPT ![p] = "free"]
  /\ Elsewhere /\ UNCHANGED parent

---------------------------------------------------------------------------
ContainmentInit ==
  /\ phase = "idle" /\ main = None /\ dropped = FALSE /\ failed = FALSE
  /\ state = [p \in Pids |-> "free"] /\ parent = [p \in Pids |-> None]
  /\ names = {} /\ left = {} /\ round = 0

CleansUp == Ended \/ Scan \/ ReadAll \/ Reap \/ \E p \in Pids : Read(p) \/ Kill(p)
Runs(looks) == Spawn(looks) \/ CleansUp
Forks == \E p, q \in Pids : Fork(p, q) \/ Collect(p, q)
Exits == \E p \in Pids : Exit(p)
Strangers == \E p \in Pids : Arrive(p) \/ Leave(p)

ContainmentNext ==
  \/ \E looks \in BOOLEAN : Runs(looks)
  \/ TimedOut \/ Forks \/ Exits \/ Strangers
  \/ Again /\ UNCHANGED <<main, dropped, failed, table, names, left, round>>

ContainmentSpec == ContainmentInit /\ [][ContainmentNext]_contained

(* The kernel runs root, delivers SIGKILL and lets waitpid return; nothing is *)
(* assumed of the command.                                                    *)
FairContainment == ContainmentSpec /\ WF_contained(\E looks \in BOOLEAN : Runs(looks))

---------------------------------------------------------------------------
(* Properties.                                                                *)

(* When run returns, no process of the command is left, not even a zombie,    *)
(* whatever was forked, orphaned or re-parented while /proc was being read:   *)
(* root's next steps look at the scratch directories by name and rely on it   *)
(* (unpriv.py kill_leftovers, scanner-stage.sh "every uid 65534 process is    *)
(* gone").                                                                    *)
NothingSurvives == phase \in {"idle", "clean"} => Descendants = {}

(* Whoever is about to be killed is a child of root and stays one until the   *)
(* signal: it is never a process that took over a pid, nor one that only      *)
(* shows the same uid (unpriv.py docstring "Only descendants").               *)
StrangersAreSpared == phase = "kill" => \A p \in left : state[p] # "stranger" /\ parent[p] = Root

(* Once the command has ended the clean-up ends too, with a clean table or a  *)
(* refusal, however fast its processes fork (the bound on the rounds of       *)
(* kill_leftovers).                                                           *)
CleanUpEnds == phase = "scan" ~> phase \in {"clean", "refused"}

=============================================================================
