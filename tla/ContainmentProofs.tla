------------------------- MODULE ContainmentProofs -------------------------
(* Proofs about the containment of an unprivileged command, for every set of  *)
(* process ids and every number of rounds.                                    *)
EXTENDS Containment, TLAPS

---------------------------------------------------------------------------
(* The inductive invariant.                                                   *)

(* Nobody but a descendant is in the family tree; the parent of a descendant  *)
(* is root or a live one: who dies hands over its children.                   *)
Family ==
  /\ \A p \in Pids : p \notin Descendants => parent[p] = None
  /\ \A p \in Descendants : parent[p] \in Alive \union {Root}

(* There is no circle of parents. Said of sets, so that no induction along a  *)
(* chain of processes is needed: in every set of descendants somebody's       *)
(* parent is outside.                                                         *)
Rooted == \A S \in SUBSET Descendants : S # {} => \E d \in S : parent[d] \notin S

(* Root forked main, and only root waits for it.                              *)
MainIsMine ==
  /\ phase = "running" => main \in Descendants /\ parent[main] = Root
  /\ phase # "running" => main = None

(* What a scan has found so far are children of root, none of whom can get    *)
(* away; if anybody is there, a child of root was found or is on the list.    *)
ScanIsSound ==
  /\ phase \in {"read", "kill"} => \A p \in left : p \in Descendants /\ parent[p] = Root
  /\ phase = "read" /\ Descendants # {} =>
       \E p \in names \union left : p \in Descendants /\ parent[p] = Root

RoundsLeft == phase \in {"scan", "read", "kill"} => round < Rounds

ContainmentInv ==
  ContainmentTypeOK /\ Family /\ Rooted /\ MainIsMine /\ ScanIsSound /\ RoundsLeft /\ NothingSurvives

---------------------------------------------------------------------------
(* The process table.                                                         *)

TableOK ==
  /\ state \in [Pids -> {"free", "alive", "zombie", "stranger"}]
  /\ parent \in [Pids -> Pids \union {Root, None}]
  /\ Family /\ Rooted

(* While anybody is there, somebody is a child of root: a scan of root's      *)
(* children cannot miss a family that is not empty.                           *)
LEMMA SomeChildOfRoot ==
  ASSUME TableOK, Descendants # {}
  PROVE  \E p \in Descendants : parent[p] = Root
<1>1. PICK d \in Descendants : parent[d] \notin Descendants
  BY DEF TableOK, Rooted
<1>2. parent[d] \in Alive \union {Root}
  BY DEF TableOK, Family
<1>. QED
  BY <1>1, <1>2 DEF Alive, Descendants

(* A new process, a child of root or of a live process.                       *)
LEMMA BirthKeepsTable ==
  ASSUME TableOK, NEW q \in Pids, state[q] = "free", NEW p \in Alive \union {Root},
         state' = [state EXCEPT ![q] = "alive"], parent' = [parent EXCEPT ![q] = p]
  PROVE  TableOK' /\ Descendants' = Descendants \union {q}
<1>0. Root \notin Pids /\ None \notin Pids /\ None # Root
  BY ContainmentAssumption
<1>1. state' \in [Pids -> {"free", "alive", "zombie", "stranger"}] /\ parent' \in [Pids -> Pids \union {Root, None}]
  BY DEF TableOK, Alive
<1>2. Descendants' = Descendants \union {q} /\ Alive' = Alive \union {q} /\ q \notin Descendants
  BY DEF TableOK, Descendants, Alive
<1>3. Family'
  BY <1>2 DEF Family, TableOK, Descendants
<1>4. ASSUME NEW S \in SUBSET Descendants', S # {}
      PROVE  \E d \in S : parent'[d] \notin S
  <2>1. CASE S \ {q} # {}
    <3>1. S \ {q} \in SUBSET Descendants
      BY <1>2
    <3>2. PICK d \in S \ {q} : parent[d] \notin S \ {q}
      BY <2>1, <3>1 DEF TableOK, Rooted
    <3>3. d \in Pids /\ d # q /\ parent[d] \in Alive \union {Root}
      BY <3>1, <3>2 DEF TableOK, Family, Descendants
    <3>4. parent[d] # q
      BY <1>0, <3>3 DEF Alive
    <3>. QED
      BY <3>2, <3>3, <3>4 DEF TableOK
  <2>2. CASE S \ {q} = {}
    BY <1>0, <1>4, <2>2 DEF TableOK, Alive
  <2>. QED
    BY <2>1, <2>2
<1>5. Rooted'
  BY <1>4 DEF Rooted
<1>. QED
  BY <1>1, <1>2, <1>3, <1>5 DEF TableOK

(* The ancestors of a live process are alive.                                 *)
LEMMA AncestorsLive ==
  ASSUME TableOK, NEW p \in Alive, NEW a \in Ancestors(p)
  PROVE  a \in Alive /\ a # p
<1>1. Alive \in SUBSET Pids /\ p \in Alive
  BY DEF Alive
<1>2. \A x \in Alive : parent[x] \in Alive \union {Root, None}
  BY DEF TableOK, Family, Alive, Descendants
<1>. QED
  BY <1>1, <1>2 DEF Ancestors

(* The way from p up to its ancestor a: a set of descendants in which the     *)
(* parent of everybody but a is in the set again.                             *)
LEMMA WayToAncestor ==
  ASSUME TableOK, NEW p \in Alive, NEW a \in Ancestors(p)
  PROVE  \E D \in SUBSET Descendants : p \in D /\ \A x \in D \ {a} : parent[x] \in D
<1>. DEFINE Closed(S) == \A x \in S : parent[x] \in S \union {Root, None}
            D == {x \in Pids : \A S \in SUBSET Pids : x \in S /\ Closed(S) => a \in S}
<1>0. Root \notin Pids /\ None \notin Pids /\ p \in Pids
  BY ContainmentAssumption DEF Alive
<1>1. p \in D
  BY <1>0 DEF Ancestors
<1>2. ASSUME NEW x \in D, x # a PROVE parent[x] \in D
  <2>1. x \in Pids /\ parent[x] \in Pids \union {Root, None}
    BY DEF TableOK
  <2>2. parent[x] \in Pids
    <3>1. SUFFICES ASSUME parent[x] \in {Root, None} PROVE FALSE
      BY <2>1
    <3>2. Closed({x}) /\ {x} \in SUBSET Pids /\ x \in {x}
      BY <2>1, <3>1
    <3>. HIDE DEF Closed
    <3>3. a \in {x}
      BY <3>2
    <3>. QED
      BY <1>2, <3>3
  <2>3. ASSUME NEW S \in SUBSET Pids, parent[x] \in S, Closed(S) PROVE a \in S
    <3>1. Closed(S \union {x}) /\ S \union {x} \in SUBSET Pids /\ x \in S \union {x}
      BY <2>1, <2>3
    <3>. HIDE DEF Closed
    <3>2. a \in S \union {x}
      BY <3>1
    <3>. QED
      BY <1>2, <3>2
  <2>. HIDE DEF Closed
  <2>. QED
    BY <2>2, <2>3
<1>3. D \subseteq Descendants
  <2>1. a \in Descendants
    BY AncestorsLive DEF Alive, Descendants
  <2>2. ASSUME NEW x \in D, x # a PROVE x \in Descendants
    <3>1. parent[x] \in Pids /\ x \in Pids
      BY <1>2, <2>2
    <3>. QED
      BY <1>0, <3>1 DEF TableOK, Family
  <2>. HIDE DEF D
  <2>. QED
    BY <2>1, <2>2
<1>. HIDE DEF D
<1>. QED
  BY <1>1, <1>2, <1>3

(* A process becomes a zombie and its children change hands: no circle comes  *)
(* of it, whether root or an ancestor that is a subreaper inherits them.      *)
LEMMA DeathKeepsTable ==
  ASSUME TableOK, NEW p \in Alive, Dies(p)
  PROVE  /\ TableOK' /\ Descendants' = Descendants
         /\ \A q \in Pids : parent[q] = Root => parent'[q] = Root
<1>0. Root \notin Pids /\ None \notin Pids /\ None # Root
  BY ContainmentAssumption
<1>1. PICK heir \in {Root} \union Ancestors(p) :
        parent' = [q \in Pids |-> IF parent[q] = p THEN heir ELSE parent[q]]
  BY DEF Dies
<1>2. p \in Pids /\ p \in Descendants /\ state' = [state EXCEPT ![p] = "zombie"]
  BY DEF Dies, Alive, Descendants
<1>3. heir \in (Alive \union {Root}) \ {p}
  BY <1>0, <1>1, <1>2, AncestorsLive
<1>4. state' \in [Pids -> {"free", "alive", "zombie", "stranger"}] /\ parent' \in [Pids -> Pids \union {Root, None}]
  BY <1>1, <1>2, <1>3 DEF TableOK, Alive
<1>5. Descendants' = Descendants /\ Alive' = Alive \ {p}
  BY <1>2 DEF TableOK, Descendants, Alive
<1>6. Family'
  <2>1. \A q \in Pids : q \notin Descendants => parent'[q] = None
    BY <1>0, <1>1, <1>2 DEF TableOK, Family
  <2>2. \A q \in Descendants : parent'[q] \in (Alive \ {p}) \union {Root}
    BY <1>0, <1>1, <1>2, <1>3 DEF TableOK, Family, Descendants
  <2>. QED
    BY <1>5, <2>1, <2>2 DEF Family
<1>7. ASSUME NEW S \in SUBSET Descendants, S # {}
      PROVE  \E d \in S : parent'[d] \notin S
  <2>0. S \subseteq Pids
    BY DEF Descendants
  <2>1. CASE heir \notin S
    <3>1. PICK e \in S : parent[e] \notin S
      BY <1>7 DEF TableOK, Rooted
    <3>. QED
      BY <1>1, <2>0, <2>1, <3>1
  <2>2. CASE heir \in S
    <3>1. heir \in Ancestors(p)
      BY <1>0, <2>0, <2>2
    <3>2. PICK D \in SUBSET Descendants : p \in D /\ \A x \in D \ {heir} : parent[x] \in D
      BY <3>1, WayToAncestor
    <3>3. S \union D \in SUBSET Descendants /\ S \union D # {}
      BY <3>2
    <3>4. PICK d \in S \union D : parent[d] \notin S \union D
      BY <3>3 DEF TableOK, Rooted
    <3>5. d \in S /\ parent[d] # p
      BY <2>2, <3>2, <3>4
    <3>. QED
      BY <1>1, <2>0, <3>4, <3>5
  <2>. QED
    BY <2>1, <2>2
<1>8. Rooted'
  BY <1>5, <1>7 DEF Rooted
<1>9. \A q \in Pids : parent[q] = Root => parent'[q] = Root
  BY <1>0, <1>1, <1>2
<1>. QED
  BY <1>4, <1>5, <1>6, <1>8, <1>9 DEF TableOK

(* Zombies are reaped: nobody is their child.                                 *)
LEMMA ReapKeepsTable ==
  ASSUME TableOK, NEW Z, Z \subseteq Descendants \ Alive,
         state' = [p \in Pids |-> IF p \in Z THEN "free" ELSE state[p]],
         parent' = [p \in Pids |-> IF p \in Z THEN None ELSE parent[p]]
  PROVE  TableOK' /\ Descendants' = Descendants \ Z
<1>1. state' \in [Pids -> {"free", "alive", "zombie", "stranger"}] /\ parent' \in [Pids -> Pids \union {Root, None}]
  BY DEF TableOK
<1>2. Descendants' = Descendants \ Z /\ Alive' = Alive
  BY DEF TableOK, Descendants, Alive
<1>3. Family'
  BY <1>2 DEF TableOK, Family, Descendants
<1>4. ASSUME NEW S \in SUBSET (Descendants \ Z), S # {}
      PROVE  \E d \in S : parent'[d] \notin S
  BY <1>4 DEF TableOK, Rooted, Descendants
<1>5. Rooted'
  BY <1>2, <1>4 DEF Rooted
<1>. QED
  BY <1>1, <1>2, <1>3, <1>5 DEF TableOK

---------------------------------------------------------------------------
(* The steps of Containment. Module NativeBuild takes them too, so what they  *)
(* preserve is a lemma of its own.                                            *)

(* A step that leaves root where it is: the children root has stay its        *)
(* children, and from nobody nobody comes.                                    *)
LEMMA AsideStep ==
  ASSUME ContainmentInv, UNCHANGED <<phase, main, dropped, names, left, round>>, failed' \in BOOLEAN,
         TableOK',
         \A p \in Descendants : parent[p] = Root => p \in Descendants' /\ parent'[p] = Root,
         Descendants = {} => Descendants' = {}
  PROVE  ContainmentInv'
<1>1. ContainmentTypeOK' /\ Family' /\ Rooted' /\ RoundsLeft'
  BY DEF ContainmentInv, ContainmentTypeOK, TableOK, RoundsLeft
<1>2. MainIsMine'
  BY DEF ContainmentInv, MainIsMine
<1>3. ScanIsSound'
  BY DEF ContainmentInv, ScanIsSound
<1>4. NothingSurvives'
  BY DEF ContainmentInv, NothingSurvives
<1>. QED
  BY <1>1, <1>2, <1>3, <1>4 DEF ContainmentInv

(* A death is such a step.                                                    *)
LEMMA DeathStep ==
  ASSUME ContainmentInv, NEW p \in Alive, Dies(p),
         UNCHANGED <<phase, main, dropped, names, left, round>>, failed' \in BOOLEAN
  PROVE  ContainmentInv'
<1>1. TableOK
  BY DEF ContainmentInv, ContainmentTypeOK, TableOK
<1>2. /\ TableOK' /\ Descendants' = Descendants
      /\ \A q \in Pids : parent[q] = Root => parent'[q] = Root
  BY <1>1, DeathKeepsTable
<1>3. Descendants \subseteq Pids
  BY DEF Descendants
<1>. QED
  BY <1>2, <1>3, AsideStep

(* What root does by itself keeps the invariant.                              *)
LEMMA RootStep ==
  ASSUME ContainmentInv,
         \/ \E looks \in BOOLEAN : Runs(looks)
         \/ Again /\ UNCHANGED <<main, dropped, failed, table, names, left, round>>
  PROVE  ContainmentInv'
<1>0. TableOK /\ ContainmentTypeOK
  BY DEF ContainmentInv, ContainmentTypeOK, TableOK
<1>a. Root \notin Pids /\ None \notin Pids /\ None # Root /\ Rounds \in Nat \ {0}
  BY ContainmentAssumption
<1>b. ASSUME UNCHANGED table PROVE TableOK' /\ Descendants' = Descendants
  BY <1>0, <1>b DEF table, TableOK, Family, Rooted, Descendants, Alive
<1>1. ASSUME NEW looks \in BOOLEAN, Spawn(looks) PROVE ContainmentInv'
  <2>1. CASE phase' = "refused" /\ UNCHANGED <<table, main, dropped>>
    <3>1. TableOK'
      BY <1>b, <2>1
    <3>. QED
      BY <1>0, <1>1, <2>1, <3>1 DEF Spawn, ContainmentInv, ContainmentTypeOK, TableOK, MainIsMine, ScanIsSound,
         RoundsLeft, NothingSurvives, Phases
  <2>2. ASSUME NEW p \in Pids, state[p] = "free", state' = [state EXCEPT ![p] = "alive"],
               parent' = [parent EXCEPT ![p] = Root], main' = p, dropped' \in BOOLEAN, phase' = "running"
        PROVE  ContainmentInv'
    <3>1. TableOK' /\ Descendants' = Descendants \union {p} /\ parent'[p] = Root
      BY <1>0, <2>2, BirthKeepsTable DEF TableOK
    <3>2. failed' = FALSE /\ UNCHANGED <<names, left, round>>
      BY <1>1 DEF Spawn
    <3>. QED
      BY <1>0, <2>2, <3>1, <3>2 DEF ContainmentInv, ContainmentTypeOK, TableOK, MainIsMine, ScanIsSound,
         RoundsLeft, NothingSurvives, Phases
  <2>. QED
    BY <1>1, <2>1, <2>2 DEF Spawn, Executes
<1>2. ASSUME Ended PROVE ContainmentInv'
  <2>1. main \in Descendants \ Alive
    BY <1>2 DEF Ended, ContainmentInv, MainIsMine, Alive, Descendants
  <2>2. /\ state' = [p \in Pids |-> IF p \in {main} THEN "free" ELSE state[p]]
        /\ parent' = [p \in Pids |-> IF p \in {main} THEN None ELSE parent[p]]
    BY <1>0, <1>2 DEF Ended, TableOK
  <2>3. TableOK'
    BY <1>0, <2>1, <2>2, ReapKeepsTable
  <2>4. /\ phase' = "scan" /\ round' = 0 /\ main' = None /\ failed' \in BOOLEAN
        /\ UNCHANGED <<dropped, names, left>>
    BY <1>0, <1>2 DEF Ended, ContainmentTypeOK
  <2>. QED
    BY <1>0, <1>a, <2>3, <2>4 DEF ContainmentInv, ContainmentTypeOK, TableOK, MainIsMine, ScanIsSound,
       RoundsLeft, NothingSurvives, Phases
<1>3. ASSUME Scan PROVE ContainmentInv'
  <2>1. TableOK' /\ Descendants' = Descendants /\ parent' = parent
    BY <1>3, <1>b DEF Scan, table
  <2>2. Descendants # {} => \E p \in names' : p \in Descendants /\ parent[p] = Root
    BY <1>0, <1>3, SomeChildOfRoot DEF Scan, Descendants
  <2>3. ScanIsSound'
    BY <1>3, <2>1, <2>2 DEF Scan, ScanIsSound
  <2>4. ContainmentTypeOK' /\ MainIsMine' /\ RoundsLeft' /\ NothingSurvives'
    BY <1>0, <1>3, <2>1 DEF Scan, ContainmentInv, ContainmentTypeOK, TableOK, MainIsMine, RoundsLeft,
       NothingSurvives, Phases
  <2>. QED
    BY <2>1, <2>3, <2>4 DEF ContainmentInv, TableOK
<1>4. ASSUME ReadAll PROVE ContainmentInv'
  <2>1. TableOK' /\ Descendants' = Descendants /\ parent' = parent
    BY <1>4, <1>b DEF ReadAll, table
  <2>2. NothingSurvives'
    BY <1>4, <2>1 DEF ReadAll, ContainmentInv, ScanIsSound, NothingSurvives
  <2>3. ContainmentTypeOK' /\ MainIsMine' /\ RoundsLeft' /\ ScanIsSound'
    BY <1>0, <1>4, <2>1 DEF ReadAll, ContainmentInv, ContainmentTypeOK, TableOK, MainIsMine, RoundsLeft,
       ScanIsSound, Phases
  <2>. QED
    BY <2>1, <2>2, <2>3 DEF ContainmentInv, TableOK
<1>5. ASSUME Reap PROVE ContainmentInv'
  <2>1. left \subseteq Descendants \ Alive
    BY <1>5 DEF Reap, ContainmentInv, ScanIsSound
  <2>2. TableOK'
    BY <1>0, <1>5, <2>1, ReapKeepsTable DEF Reap, Reaped
  <2>3. round < Rounds /\ round \in Nat
    BY <1>0, <1>5 DEF Reap, ContainmentInv, RoundsLeft, ContainmentTypeOK
  <2>4. ContainmentTypeOK' /\ RoundsLeft'
    BY <1>0, <1>5, <1>a, <2>2, <2>3 DEF Reap, ContainmentTypeOK, RoundsLeft, TableOK, Phases
  <2>5. MainIsMine' /\ ScanIsSound' /\ NothingSurvives'
    BY <1>5 DEF Reap, ContainmentInv, MainIsMine, ScanIsSound, NothingSurvives
  <2>. QED
    BY <2>2, <2>4, <2>5 DEF ContainmentInv, TableOK
<1>6. ASSUME NEW p \in Pids, Read(p) PROVE ContainmentInv'
  <2>1. TableOK' /\ Descendants' = Descendants /\ parent' = parent
    BY <1>6, <1>b DEF Read, table
  <2>2. IsChild(p) <=> p \in Descendants /\ parent[p] = Root
    BY <1>0, <1>a DEF IsChild, TableOK, Family, Descendants
  <2>3. ScanIsSound'
    <3>1. \A q \in left' : q \in Descendants /\ parent[q] = Root
      BY <1>6, <2>2 DEF Read, ContainmentInv, ScanIsSound
    <3>2. Descendants # {} => \E q \in names' \union left' : q \in Descendants /\ parent[q] = Root
      BY <1>6, <2>2 DEF Read, ContainmentInv, ScanIsSound
    <3>. QED
      BY <1>6, <2>1, <3>1, <3>2 DEF Read, ScanIsSound
  <2>4. ContainmentTypeOK' /\ MainIsMine' /\ RoundsLeft' /\ NothingSurvives'
    BY <1>0, <1>6, <2>1 DEF Read, ContainmentInv, ContainmentTypeOK, TableOK, MainIsMine, RoundsLeft,
       NothingSurvives
  <2>. QED
    BY <2>1, <2>3, <2>4 DEF ContainmentInv, TableOK
<1>7. ASSUME NEW p \in Pids, Kill(p) PROVE ContainmentInv'
  <2>1. p \in Alive /\ Dies(p) /\ UNCHANGED <<phase, main, dropped, names, left, round>> /\ failed' \in BOOLEAN
    BY <1>0, <1>7 DEF Kill, ContainmentTypeOK
  <2>. QED
    BY <2>1, DeathStep
<1>8. ASSUME Again, UNCHANGED <<main, dropped, failed, table, names, left, round>> PROVE ContainmentInv'
  <2>1. TableOK' /\ Descendants' = Descendants
    BY <1>8, <1>b
  <2>. QED
    BY <1>0, <1>8, <2>1 DEF Again, ContainmentInv, ContainmentTypeOK, TableOK, MainIsMine, RoundsLeft,
       ScanIsSound, NothingSurvives, Phases
<1>. QED
  BY <1>1, <1>2, <1>3, <1>4, <1>5, <1>6, <1>7, <1>8 DEF Runs, CleansUp

(* Every step of root, of the command and of strangers keeps the invariant.   *)
LEMMA ContainmentStep ==
  ASSUME ContainmentInv, ContainmentNext
  PROVE  ContainmentInv'
<1>0. TableOK /\ ContainmentTypeOK
  BY DEF ContainmentInv, ContainmentTypeOK, TableOK
<1>a. Root \notin Pids /\ None \notin Pids /\ None # Root
  BY ContainmentAssumption
<1>1. ASSUME TimedOut PROVE ContainmentInv'
  <2>1. main \in Alive /\ Dies(main) /\ UNCHANGED <<phase, main, dropped, names, left, round>> /\ failed' \in BOOLEAN
    BY <1>1 DEF TimedOut, ContainmentInv, MainIsMine, Alive, Descendants
  <2>. QED
    BY <2>1, DeathStep
<1>2. ASSUME NEW p \in Pids, Exit(p) PROVE ContainmentInv'
  <2>1. p \in Alive /\ Dies(p) /\ UNCHANGED <<phase, main, dropped, names, left, round>> /\ failed' \in BOOLEAN
    BY <1>0, <1>2 DEF Exit, Elsewhere, Alive, ContainmentTypeOK
  <2>. QED
    BY <2>1, DeathStep
<1>3. ASSUME NEW p \in Pids, NEW q \in Pids, Fork(p, q) PROVE ContainmentInv'
  <2>1. p \in Alive /\ p \in Descendants /\ q \notin Descendants
    BY <1>3 DEF Fork, Alive, Descendants
  <2>2. TableOK' /\ Descendants' = Descendants \union {q}
    BY <1>0, <1>3, <2>1, BirthKeepsTable DEF Fork
  <2>3. \A r \in Descendants : parent'[r] = parent[r]
    BY <1>0, <1>3, <2>1 DEF Fork, TableOK, Descendants
  <2>. QED
    BY <1>0, <1>3, <2>1, <2>2, <2>3, AsideStep DEF Fork, Elsewhere, ContainmentTypeOK
<1>4. ASSUME NEW p \in Pids, NEW q \in Pids, Collect(p, q) PROVE ContainmentInv'
  <2>1. q \in Descendants \ Alive /\ parent[q] # Root /\ p \in Descendants \ {q}
    BY <1>4, <1>a DEF Collect, Alive, Descendants
  <2>2. /\ state' = [r \in Pids |-> IF r \in {q} THEN "free" ELSE state[r]]
        /\ parent' = [r \in Pids |-> IF r \in {q} THEN None ELSE parent[r]]
    BY <1>0, <1>4 DEF Collect, TableOK
  <2>3. TableOK' /\ Descendants' = Descendants \ {q}
    BY <1>0, <2>1, <2>2, ReapKeepsTable
  <2>4. \A r \in Descendants : parent[r] = Root => r \in Descendants' /\ parent'[r] = Root
    BY <2>1, <2>2, <2>3 DEF Descendants
  <2>. QED
    BY <1>0, <1>4, <2>1, <2>3, <2>4, AsideStep DEF Collect, Elsewhere, ContainmentTypeOK
<1>5. ASSUME NEW p \in Pids, Arrive(p) \/ Leave(p) PROVE ContainmentInv'
  <2>1. Descendants' = Descendants /\ Alive' = Alive /\ parent' = parent
    BY <1>0, <1>5 DEF Arrive, Leave, Descendants, Alive, TableOK
  <2>2. TableOK'
    BY <1>0, <1>5, <2>1 DEF Arrive, Leave, TableOK, Family, Rooted
  <2>. QED
    BY <1>0, <1>5, <2>1, <2>2, AsideStep DEF Arrive, Leave, Elsewhere, ContainmentTypeOK
<1>. QED
  BY <1>1, <1>2, <1>3, <1>4, <1>5, RootStep DEF ContainmentNext, Forks, Exits, Strangers

(* At the start there are no processes of the command.                        *)
LEMMA ContainmentStart ==
  ASSUME ContainmentInit
  PROVE  ContainmentInv
<1>1. Descendants = {}
  BY DEF ContainmentInit, Descendants
<1>2. Family /\ Rooted
  BY <1>1 DEF ContainmentInit, Family, Rooted
<1>3. ContainmentTypeOK
  <2>1. round \in 0..Rounds
    BY ContainmentAssumption DEF ContainmentInit
  <2>2. /\ state \in [Pids -> {"free", "alive", "zombie", "stranger"}]
        /\ parent \in [Pids -> Pids \union {Root, None}]
    BY DEF ContainmentInit
  <2>. QED
    BY <2>1, <2>2 DEF ContainmentInit, ContainmentTypeOK, Phases
<1>4. MainIsMine /\ ScanIsSound /\ RoundsLeft /\ NothingSurvives
  BY <1>1 DEF ContainmentInit, MainIsMine, ScanIsSound, RoundsLeft, NothingSurvives
<1>. QED
  BY <1>2, <1>3, <1>4 DEF ContainmentInv

---------------------------------------------------------------------------
(* The theorems.                                                              *)

(* The inductive invariant holds in every state of run.                       *)
THEOREM ContainmentInvariant == ContainmentSpec => []ContainmentInv
<1>1. ASSUME ContainmentInv, UNCHANGED contained PROVE ContainmentInv'
  <2>1. Descendants' = Descendants /\ Alive' = Alive /\ parent' = parent
    BY <1>1 DEF contained, Descendants, Alive
  <2>2. Family' /\ Rooted'
    BY <1>1, <2>1 DEF ContainmentInv, Family, Rooted
  <2>. QED
    BY <1>1, <2>1, <2>2 DEF contained, ContainmentInv, ContainmentTypeOK, MainIsMine, ScanIsSound, RoundsLeft,
       NothingSurvives
<1>. QED
  BY <1>1, ContainmentStart, ContainmentStep, PTL DEF ContainmentSpec

(* The variables of run and of the process table keep their types, and        *)
(* kill_leftovers never counts beyond its last round.                         *)
THEOREM ContainmentTypes == ContainmentSpec => []ContainmentTypeOK
<1>1. ContainmentInv => ContainmentTypeOK
  BY DEF ContainmentInv
<1>. QED
  BY <1>1, ContainmentInvariant, PTL

(* When kill_leftovers returns, no process of the command is left, for any    *)
(* number of processes and any tree they form.                                *)
THEOREM NobodySurvives == ContainmentSpec => []NothingSurvives
<1>1. ContainmentInv => NothingSurvives
  BY DEF ContainmentInv
<1>. QED
  BY <1>1, ContainmentInvariant, PTL

(* Whoever is about to be killed is a child of root.                          *)
THEOREM OnlyChildrenAreKilled == ContainmentSpec => []StrangersAreSpared
<1>1. ContainmentInv => StrangersAreSpared
  BY DEF ContainmentInv, ScanIsSound, StrangersAreSpared, Descendants
<1>. QED
  BY <1>1, ContainmentInvariant, PTL

=============================================================================
