---------------------------- MODULE Forwarding ----------------------------
(* usr/local/libexec/docker-libvirt-forwarding, which keeps one pair of       *)
(* ACCEPT rules in DOCKER-USER for every address of an active libvirt NAT     *)
(* network, and its callers: docker.service after its start, the service that *)
(* the path unit and the timer start, and NetworkManager's dispatcher, which  *)
(* leaves the helper running in the background. They overlap; a lock on the   *)
(* script serialises them. Rules without this helper's comment are never      *)
(* candidates and are left out.                                               *)
EXTENDS Naturals, Sequences

CONSTANTS
  Networks,       \* libvirt NAT networks, each with a bridge of its own
  Cidrs,          \* addresses a bridge may have
  Links,          \* interfaces the default route may use
  Dispatchers,    \* helpers the dispatcher may have running at once
  Off, Bare,      \* the network is not active; its bridge has no address
  NoLink, Nobody,
  MaxChanges,     \* bound on what happens to networks, routes, docker and chain
  MaxFaults       \* bound on failing commands

ASSUME ForwardingAssumption ==
  /\ {Off, Bare} \intersect Cidrs = {} /\ Off # Bare
  /\ NoLink \notin Links /\ Nobody \notin Dispatchers \union {"docker", "unit"}
  /\ {"docker", "unit"} \intersect Dispatchers = {}
  /\ MaxChanges \in Nat /\ MaxFaults \in Nat

VARIABLES
  nets, uplink,   \* nets[n]: Off, Bare or the address; the default route
  daemon,         \* virtnetworkd runs
  docker,         \* docker.service
  unit,           \* docker-libvirt-forwarding.service
  rules,          \* rules[r]: how often r stands in DOCKER-USER
  lock, pc,       \* who holds the lock; each helper's place
  local,          \* each helper's variables
  steady,         \* history: nothing changed since the lock was taken
  changes, faults,
  mistaken        \* history: how often -C failed for a rule that stood

world == <<nets, uplink, daemon, docker>>
count == <<changes, faults, mistaken>>
vars == <<nets, uplink, daemon, docker, unit, rules, lock, pc, local, steady, changes, faults, mistaken>>

Helpers == Dispatchers \union {"docker", "unit"}

(* A comment names bridge, network and uplink; the two rules of a comment     *)
(* accept what guests send, and the replies.                                  *)
Comments == [net : Networks, cidr : Cidrs, link : Links]
Rule(c, way) == [of |-> c, way |-> way]
Rules == {Rule(c, way) : c \in Comments, way \in {"out", "back"}}

Active == {n \in Networks : nets[n] # Off}
Wanted == {c \in Comments : nets[c.net] = c.cidr /\ uplink = c.link}
Standing == {r \in Rules : rules[r] > 0}

---------------------------------------------------------------------------
(* The helper.                                                                *)

At(h, label) == pc[h] = label
Goto(h, label) == pc' = [pc EXCEPT ![h] = label]

(* link: the default interface; names: networks still to look at; desired:    *)
(* desired_comments; work: rules still to ensure; stale[r]: lines of r still  *)
(* to delete; bad: delete_failed; blind (history): an address was overlooked. *)
None == [r \in Rules |-> 0]
Unset ==
  [link |-> NoLink, names |-> {}, desired |-> {}, work |-> <<>>, stale |-> None, bad |-> FALSE, blind |-> FALSE]
Sets(h, field, value) == local' = [local EXCEPT ![h][field] = value]

(* The helper exits. docker.service is up after ExecStartPost=- whatever came *)
(* of it; the service makes its second pass only after a good first one.      *)
Exit(h, ok) ==
  /\ IF h = "unit" /\ unit = "first" /\ ok
       THEN unit' = "second" /\ Goto(h, "lock")
       ELSE unit' = (IF h = "unit" THEN "idle" ELSE unit) /\ Goto(h, "idle")
  /\ docker' = IF h = "docker" /\ docker = "starting" THEN "up" ELSE docker
  /\ lock' = IF lock = h THEN Nobody ELSE lock
  /\ local' = [local EXCEPT ![h] = Unset]

GoesOn == UNCHANGED <<unit, docker, lock>>

(* Mutant: the lock is not waited for. *)
AcquireNoWait(h) ==
  /\ At(h, "lock")
  /\ lock' = h /\ Goto(h, "route") /\ steady' = (lock = Nobody)
  /\ UNCHANGED <<world, unit, rules, local, count>>

Acquire(h) ==
  /\ At(h, "lock") /\ lock = Nobody
  /\ lock' = h /\ Goto(h, "route") /\ steady' = TRUE
  /\ UNCHANGED <<world, unit, rules, local, count>>

(* Mutant: the pass goes on without a default route. *)
RouteUnchecked(h) ==
  /\ At(h, "route")
  /\ Goto(h, "list") /\ Sets(h, "link", uplink) /\ GoesOn
  /\ UNCHANGED <<nets, uplink, daemon, rules, steady, count>>

(* The default route. Without one nothing is changed.                         *)
Route(h) ==
  /\ At(h, "route")
  /\ IF uplink = NoLink
       THEN Exit(h, FALSE)
       ELSE Goto(h, "list") /\ Sets(h, "link", uplink) /\ GoesOn
  /\ UNCHANGED <<nets, uplink, daemon, rules, steady, count>>

(* virsh net-list, which starts virtnetworkd when it does not run.            *)
List(h) ==
  /\ At(h, "list")
  /\ Sets(h, "names", Active) /\ daemon' = TRUE
  /\ Goto(h, "look") /\ GoesOn
  /\ UNCHANGED <<nets, uplink, rules, steady, count>>

(* net-dumpxml and the address of the bridge: both fail for a network that    *)
(* has been stopped since it was listed.                                      *)
Look(h, n) ==
  /\ At(h, "look") /\ n \in local[h].names
  /\ CASE nets[n] = Off -> Exit(h, FALSE)
       [] nets[n] = Bare -> Sets(h, "names", local[h].names \ {n}) /\ GoesOn /\ UNCHANGED pc
       [] OTHER ->
            LET c == [net |-> n, cidr |-> nets[n], link |-> local[h].link]
            IN /\ local' = [local EXCEPT ![h].names = @ \ {n},
                                         ![h].desired = @ \union {c},
                                         ![h].work = <<Rule(c, "out"), Rule(c, "back")>>]
               /\ Goto(h, "check") /\ GoesOn
  /\ UNCHANGED <<nets, uplink, daemon, rules, steady, count>>

(* The loop reads the addresses from a process substitution, whose failure    *)
(* nobody sees: the bridge passes for one without an address.                 *)
Overlook(h, n) ==
  /\ At(h, "look") /\ n \in local[h].names /\ nets[n] \in Cidrs
  /\ faults < MaxFaults /\ faults' = faults + 1
  /\ local' = [local EXCEPT ![h].names = @ \ {n}, ![h].blind = TRUE]
  /\ UNCHANGED <<world, unit, rules, lock, pc, steady, changes, mistaken>>

(* ensure_rule: -C, then -I when -C failed, for whatever reason.              *)
Ensured(h) ==
  /\ Sets(h, "work", Tail(local[h].work))
  /\ Goto(h, IF Len(local[h].work) = 1 THEN "look" ELSE "check")

(* Mutant: the rule is inserted whether it stands or not. *)
CheckNothing(h) ==
  /\ At(h, "check") /\ Goto(h, "insert")
  /\ UNCHANGED <<world, unit, rules, lock, local, steady, count>>

Check(h) ==
  /\ At(h, "check")
  /\ LET found == Head(local[h].work) \in Standing
     IN \/ found /\ Ensured(h) /\ UNCHANGED <<faults, mistaken>>
        \/ ~found /\ Goto(h, "insert") /\ UNCHANGED <<local, faults, mistaken>>
        \/ /\ found /\ faults < MaxFaults /\ faults' = faults + 1 /\ mistaken' = mistaken + 1
           /\ Goto(h, "insert") /\ UNCHANGED local
  /\ UNCHANGED <<world, unit, rules, lock, steady, changes>>

Insert(h) ==
  /\ At(h, "insert")
  /\ rules' = [rules EXCEPT ![Head(local[h].work)] = @ + 1]
  /\ Ensured(h)
  /\ UNCHANGED <<world, unit, lock, steady, count>>

(* reconcile_stale_rules: the chain is listed once, and every line whose      *)
(* comment is not desired is to be deleted.                                   *)
Obsolete(desired) == [r \in Rules |-> IF r.of \in desired THEN 0 ELSE rules[r]]

Listed(h) ==
  /\ At(h, "look") /\ local[h].names = {}
  /\ Sets(h, "stale", Obsolete(local[h].desired))
  /\ Goto(h, "prune")
  /\ UNCHANGED <<world, unit, rules, lock, steady, count>>

(* One -D per line, which takes away the first rule that matches. A -D that   *)
(* fails, or finds none, is remembered and the next line is tried.            *)
Delete(h, r) ==
  /\ At(h, "prune") /\ local[h].stale[r] > 0
  /\ \/ /\ r \in Standing /\ rules' = [rules EXCEPT ![r] = @ - 1]
        /\ local' = [local EXCEPT ![h].stale[r] = @ - 1]
        /\ UNCHANGED faults
     \/ /\ r \notin Standing
        /\ local' = [local EXCEPT ![h].stale[r] = @ - 1, ![h].bad = TRUE]
        /\ UNCHANGED <<rules, faults>>
     \/ /\ faults < MaxFaults /\ faults' = faults + 1
        /\ local' = [local EXCEPT ![h].stale[r] = @ - 1, ![h].bad = TRUE]
        /\ UNCHANGED rules
  /\ UNCHANGED <<world, unit, lock, pc, steady, changes, mistaken>>

Pruned(h) == At(h, "prune") /\ local[h].stale = None

Done(h) ==
  /\ Pruned(h)
  /\ Exit(h, ~local[h].bad)
  /\ UNCHANGED <<nets, uplink, daemon, rules, steady, count>>

(* flock gives up after 30 s, a command fails (set -e and the explicit        *)
(* exits), or the helper is killed.                                           *)
Fails(h) ==
  /\ ~At(h, "idle")
  /\ faults < MaxFaults /\ faults' = faults + 1
  /\ Exit(h, FALSE)
  /\ UNCHANGED <<nets, uplink, daemon, rules, steady, changes, mistaken>>

---------------------------------------------------------------------------
(* The service. The path unit may start it after a change, the timer does so  *)
(* again and again; a change while it runs may start nothing.                 *)

(* Mutant: skipped when no network is active. *)
NetworkActive == docker = "up" /\ daemon /\ Active # {}
(* ExecCondition=: skipped unless docker is up and virtnetworkd is there.     *)
Conditions == docker = "up" /\ daemon

Trigger ==
  /\ unit = "idle"
  /\ unit' = IF Conditions THEN "ready" ELSE "idle"
  /\ UNCHANGED <<world, rules, lock, pc, local, steady, count>>

(* ExecStart=, after a second's sleep.                                        *)
ExecStart ==
  /\ unit = "ready"
  /\ unit' = "first" /\ Goto("unit", "lock")
  /\ UNCHANGED <<world, rules, lock, local, steady, count>>

---------------------------------------------------------------------------
(* What happens around it.                                                    *)

Change ==
  /\ changes < MaxChanges /\ changes' = changes + 1
  /\ steady' = FALSE

(* A network is started or stopped, or its bridge gets another address or     *)
(* none. No network is active without virtnetworkd.                           *)
NetworkChanges(n, value) ==
  /\ Change /\ nets[n] # value
  /\ nets' = [nets EXCEPT ![n] = value] /\ daemon' = TRUE
  /\ UNCHANGED <<uplink, docker, unit, rules, lock, pc, local, faults, mistaken>>

(* The default route changes, whoever is running.                             *)
RouteChanges(value) ==
  /\ Change /\ uplink # value
  /\ uplink' = value
  /\ UNCHANGED <<nets, daemon, docker, unit, rules, lock, pc, local, faults, mistaken>>

(* NetworkManager calls the dispatcher, for a new route and for other events. *)
(* It does nothing while docker is not up.                                    *)
Dispatch(d) ==
  /\ At(d, "idle") /\ docker = "up"
  /\ Goto(d, "lock")
  /\ UNCHANGED <<world, unit, rules, lock, local, steady, count>>

(* virtnetworkd exits when it is idle.                                        *)
DaemonExits ==
  /\ daemon /\ Active = {}
  /\ daemon' = FALSE
  /\ UNCHANGED <<nets, uplink, docker, unit, rules, lock, pc, local, steady, count>>

DockerStarts ==
  /\ Change /\ docker = "down"
  /\ docker' = "starting" /\ Goto("docker", "lock")
  /\ UNCHANGED <<nets, uplink, daemon, unit, rules, lock, local, faults, mistaken>>

DockerStops ==
  /\ Change /\ docker = "up"
  /\ docker' = "down"
  /\ UNCHANGED <<nets, uplink, daemon, unit, rules, lock, pc, local, faults, mistaken>>

(* Another tool flushes the chain.                                            *)
Flush ==
  /\ Change /\ Standing # {}
  /\ rules' = None
  /\ UNCHANGED <<world, unit, lock, pc, local, faults, mistaken>>

---------------------------------------------------------------------------
Init ==
  /\ nets = [n \in Networks |-> Off] /\ uplink \in Links /\ daemon = FALSE
  /\ docker = "down" /\ unit = "idle"
  /\ rules = None
  /\ lock = Nobody /\ pc = [h \in Helpers |-> "idle"]
  /\ local = [h \in Helpers |-> Unset]
  /\ steady = FALSE /\ changes = 0 /\ faults = 0 /\ mistaken = 0

Step(h) ==
  \/ Acquire(h) \/ Route(h) \/ List(h) \/ Check(h) \/ Insert(h) \/ Listed(h) \/ Done(h)
  \/ \E n \in Networks : Look(h, n)
  \/ \E r \in Rules : Delete(h, r)

Next ==
  \/ \E h \in Helpers : Step(h) \/ Fails(h) \/ \E n \in Networks : Overlook(h, n)
  \/ Trigger \/ ExecStart
  \/ \E n \in Networks, value \in Cidrs \union {Off, Bare} : NetworkChanges(n, value)
  \/ \E value \in Links \union {NoLink} : RouteChanges(value)
  \/ \E d \in Dispatchers : Dispatch(d)
  \/ DaemonExits \/ DockerStarts \/ DockerStops \/ Flush

Spec == Init /\ [][Next]_vars

(* A running helper goes on, and the timer starts the service again and again.*)
FairSpec ==
  /\ Spec
  /\ WF_vars(Trigger) /\ WF_vars(ExecStart)
  /\ \A h \in Helpers : WF_vars(Step(h))

---------------------------------------------------------------------------
(* Properties.                                                                *)

(* The variables keep their types: what a helper is about to delete are lines *)
(* of rules, and a rule stands at most once more often than commands failed.  *)
TypeOK ==
  /\ nets \in [Networks -> Cidrs \union {Off, Bare}] /\ uplink \in Links \union {NoLink}
  /\ daemon \in BOOLEAN /\ docker \in {"down", "starting", "up"}
  /\ unit \in {"idle", "ready", "first", "second"}
  /\ rules \in [Rules -> 0..(1 + MaxFaults)]
  /\ lock \in Helpers \union {Nobody}
  /\ pc \in [Helpers -> {"idle", "lock", "route", "list", "look", "check", "insert", "prune"}]
  /\ \A h \in Helpers :
       /\ local[h].link \in Links \union {NoLink} /\ local[h].names \subseteq Networks
       /\ local[h].desired \subseteq Comments /\ local[h].stale \in [Rules -> 0..(1 + MaxFaults)]
       /\ local[h].bad \in BOOLEAN /\ local[h].blind \in BOOLEAN
  /\ changes \in 0..MaxChanges /\ faults \in 0..MaxFaults /\ mistaken \in 0..faults

(* The chain holds both rules of every wanted comment and nothing else.       *)
Exact == Standing = {r \in Rules : r.of \in Wanted}

(* A pass that succeeds while nothing changes leaves exactly the rules the    *)
(* active networks and the default route call for, whatever earlier passes,   *)
(* cut off anywhere, left in the chain: no rule of a stopped network, an old  *)
(* address or an old uplink stays, and none is missing. The exception is the  *)
(* pass that overlooked an address, see FailsLoudly.                          *)
SuccessIsExact ==
  \A h \in Helpers : Pruned(h) /\ ~local[h].bad /\ steady /\ ~local[h].blind => Exact

(* What the helper's test says of it: "Listing a network or a live bridge     *)
(* address must fail loudly rather than be mistaken for an empty desired      *)
(* state (which would otherwise prune good rules)". While nothing changes no  *)
(* pass sets out to prune a wanted rule. Refuted: the failure of the process  *)
(* substitution that splits the addresses is not seen, the pass goes on.      *)
FailsLoudly ==
  \A h \in Helpers : At(h, "prune") /\ steady => \A r \in Rules : local[h].stale[r] > 0 => r.of \notin Wanted

(* -C and -I are two commands: overlapping callers never insert a rule twice, *)
(* only a -C that failed for another reason does, once each time (the lock of *)
(* the script); no other failure, and no pass cut off, leaves a duplicate.    *)
InsertedOnce == \A r \in Rules : rules[r] <= 1 + mistaken

(* Self-healing: when docker, virtnetworkd and a default route stay, the      *)
(* rules become exact and stay so, although events are lost while the service *)
(* runs, passes fail and docker is not "active" while its own pass runs.      *)
Settled == docker = "up" /\ daemon /\ uplink # NoLink
Converges == <>[]Settled => <>[]Exact

=============================================================================
