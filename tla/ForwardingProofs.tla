------------------------- MODULE ForwardingProofs -------------------------
(* Proofs about the forwarding helper, for any number of networks, addresses, *)
(* links and overlapping callers.                                             *)
EXTENDS Forwarding, TLAPS

---------------------------------------------------------------------------
(* The inductive invariant.                                                   *)

Inside == {"route", "list", "look", "check", "insert", "prune"}
Labels == Inside \union {"idle", "lock"}

(* Who is inside holds the lock. docker.service starts and the service runs   *)
(* exactly as long as their helper does.                                      *)
Control ==
  /\ pc \in [Helpers -> Labels] /\ lock \in Helpers \union {Nobody}
  /\ docker \in {"down", "starting", "up"} /\ unit \in {"idle", "ready", "first", "second"}
  /\ \A h \in Helpers : pc[h] \in Inside <=> lock = h
  /\ pc["docker"] # "idle" <=> docker = "starting"
  /\ pc["unit"] # "idle" <=> unit \in {"first", "second"}

(* What is left of the two rules of a comment.                                *)
Works ==
  {<<>>} \union {<<Rule(c, "back")>> : c \in Comments}
    \union {<<Rule(c, "out"), Rule(c, "back")>> : c \in Comments}
InWork(w) == {w[i] : i \in 1..Len(w)}

Locals ==
  [link : Links \union {NoLink}, names : SUBSET Networks, desired : SUBSET Comments, work : Works,
   stale : [Rules -> 0..(1 + MaxFaults)], bad : BOOLEAN, blind : BOOLEAN]

(* A rule stands once, and once more for every -C that failed by mistake.     *)
Types ==
  /\ nets \in [Networks -> Cidrs \union {Off, Bare}] /\ uplink \in Links \union {NoLink}
  /\ daemon \in BOOLEAN /\ steady \in BOOLEAN
  /\ rules \in [Rules -> Nat] /\ \A r \in Rules : rules[r] <= 1 + mistaken
  /\ local \in [Helpers -> Locals]
  /\ changes \in 0..MaxChanges /\ faults \in 0..MaxFaults /\ mistaken \in Nat /\ mistaken <= faults

(* What a pass knows while nothing around it changes: desired are the wanted  *)
(* comments of the networks it has looked at, their rules stand or are being  *)
(* seen to, and what is to be deleted are all the others.                     *)
PassOK(h) ==
  /\ pc[h] \in Inside \ {"route"} => local[h].link = uplink
  /\ pc[h] \in {"look", "check", "insert", "prune"} =>
       /\ local[h].desired = {c \in Wanted : c.net \notin local[h].names}
       /\ \A r \in Rules : r.of \in local[h].desired => r \in Standing \union InWork(local[h].work)
  /\ pc[h] = "prune" =>
       /\ \A r \in Rules : local[h].stale[r] > 0 => r.of \notin local[h].desired
       /\ ~local[h].bad => \A r \in Rules : r.of \notin local[h].desired => rules[r] <= local[h].stale[r]

HelperOK(h) ==
  /\ pc[h] \in {"idle", "lock", "route"} => local[h] = Unset
  /\ pc[h] = "list" => local[h].desired = {} /\ local[h].work = <<>>
  /\ pc[h] \in Inside \ {"route"} => local[h].link \in Links
  /\ pc[h] \in {"look", "prune"} => local[h].work = <<>>
  /\ pc[h] \in {"check", "insert"} => local[h].work # <<>>
  /\ pc[h] = "insert" => rules[Head(local[h].work)] <= mistaken
  /\ pc[h] = "prune" => local[h].names = {}
  /\ steady /\ ~local[h].blind => PassOK(h)

Inv == Control /\ Types /\ \A h \in Helpers : HelperOK(h)

---------------------------------------------------------------------------
(* Lemmas.                                                                    *)

(* ensure_rule takes the two rules of a comment one after the other.          *)
LEMMA WorkFacts ==
  ASSUME NEW w \in Works, w # <<>>
  PROVE  /\ Head(w) \in Rules /\ Tail(w) \in Works
         /\ (Len(w) = 1 <=> Tail(w) = <<>>)
         /\ InWork(w) = {Head(w)} \union InWork(Tail(w))
<1>1. ASSUME NEW c \in Comments, w = <<Rule(c, "back")>>
      PROVE  /\ Head(w) \in Rules /\ Tail(w) = <<>> /\ Len(w) = 1
             /\ InWork(w) = {Head(w)} /\ InWork(Tail(w)) = {}
  BY <1>1 DEF Rules, InWork
<1>2. ASSUME NEW c \in Comments, w = <<Rule(c, "out"), Rule(c, "back")>>
      PROVE  /\ Head(w) \in Rules /\ Tail(w) = <<Rule(c, "back")>> /\ Len(w) = 2 /\ Tail(w) # <<>>
             /\ InWork(w) = {Head(w), Rule(c, "back")} /\ InWork(Tail(w)) = {Rule(c, "back")}
  BY <1>2 DEF Rules, InWork
<1>. QED
  BY <1>1, <1>2 DEF Works

(* Nothing is left of no work.                                                *)
LEMMA NoWork == InWork(<<>>) = {}
BY DEF InWork

(* The two rules of a comment.                                                *)
LEMMA BothRules ==
  ASSUME NEW c \in Comments
  PROVE  /\ <<Rule(c, "out"), Rule(c, "back")>> \in Works
         /\ <<Rule(c, "out"), Rule(c, "back")>> # <<>>
         /\ \A r \in Rules : r.of = c => r \in InWork(<<Rule(c, "out"), Rule(c, "back")>>)
<1>1. <<Rule(c, "out"), Rule(c, "back")>> \in Works
  BY DEF Works
<1>2. <<Rule(c, "out"), Rule(c, "back")>> # <<>>
  OBVIOUS
<1>3. InWork(<<Rule(c, "out"), Rule(c, "back")>>) = {Rule(c, "out"), Rule(c, "back")}
  BY DEF InWork
<1>4. \A r \in Rules : r.of = c => r \in {Rule(c, "out"), Rule(c, "back")}
  BY DEF Rules, Rule
<1>. QED
  BY <1>1, <1>2, <1>3, <1>4

(* A helper starts with nothing.                                              *)
LEMMA UnsetIsLocal == Unset \in Locals
BY ForwardingAssumption DEF Unset, None, Locals, Works

(* A helper that is not inside knows nothing.                                 *)
LEMMA OutsideIsIdle ==
  ASSUME NEW h \in Helpers, pc[h] \in {"idle", "lock"}, local[h] = Unset
  PROVE  HelperOK(h)
BY DEF HelperOK, PassOK, Inside, Unset

(* The holder goes on inside.                                                 *)
LEMMA InsideStep ==
  ASSUME Inv, NEW h \in Helpers, pc[h] \in Inside,
         NEW l \in Inside, pc' = [pc EXCEPT ![h] = l], UNCHANGED <<unit, docker, lock>>,
         Types', \A k \in Helpers \ {h} : local'[k] = local[k],
         HelperOK(h)'
  PROVE  Inv'
<1>1. "docker" \in Helpers /\ "unit" \in Helpers /\ "idle" \notin Inside
  BY DEF Helpers, Inside
<1>2. pc'[h] = l /\ \A k \in Helpers \ {h} : pc'[k] = pc[k]
  BY DEF Inv, Control
<1>3. Control'
  BY <1>1, <1>2 DEF Inv, Control, Labels
<1>4. ASSUME NEW k \in Helpers \ {h} PROVE HelperOK(k)'
  <2>1. pc[k] \in {"idle", "lock"}
    BY DEF Inv, Control, Labels
  <2>2. local[k] = Unset
    BY <2>1 DEF Inv, HelperOK
  <2>. QED
    BY <1>2, <2>1, <2>2 DEF HelperOK, PassOK, Inside, Unset
<1>. QED
  BY <1>3, <1>4 DEF Inv

(* A helper exits, and the lock is free if it was the holder.                 *)
LEMMA ExitStep ==
  ASSUME Inv, NEW h \in Helpers, NEW ok \in BOOLEAN, pc[h] # "idle", Exit(h, ok),
         UNCHANGED <<nets, uplink, rules, steady, changes, mistaken>>, daemon' \in BOOLEAN,
         faults' \in 0..MaxFaults, faults <= faults'
  PROVE  Inv'
<1>0. /\ "docker" \in Helpers /\ "unit" \in Helpers /\ Nobody \notin Helpers /\ "docker" # "unit"
      /\ "idle" \notin Inside /\ "lock" \notin Inside /\ "idle" \in Labels /\ "lock" \in Labels
  BY ForwardingAssumption DEF Helpers, Inside, Labels
<1>1. /\ pc'[h] \in {"idle", "lock"} /\ pc' \in [Helpers -> Labels]
      /\ \A k \in Helpers \ {h} : pc'[k] = pc[k]
      /\ pc'[h] = "lock" <=> h = "unit" /\ unit = "first" /\ ok
  BY <1>0 DEF Exit, Goto, Inv, Control
<1>2. /\ h = "unit" => unit' = IF pc'[h] = "lock" THEN "second" ELSE "idle"
      /\ h # "unit" => unit' = unit
  BY <1>1 DEF Exit, Goto
<1>3. docker' = IF h = "docker" /\ docker = "starting" THEN "up" ELSE docker
  BY DEF Exit
<1>4. lock' = IF lock = h THEN Nobody ELSE lock
  BY DEF Exit
<1>5. Unset \in Locals
  BY UnsetIsLocal
<1>6. local' \in [Helpers -> Locals] /\ local'[h] = Unset /\ \A k \in Helpers \ {h} : local'[k] = local[k]
  BY <1>5 DEF Exit, Inv, Types
<1>7. Control'
  <2>1. \A k \in Helpers : pc'[k] \in Inside <=> lock' = k
    BY <1>0, <1>1, <1>4 DEF Inv, Control
  <2>2. pc'["docker"] # "idle" <=> docker' = "starting"
    BY <1>0, <1>1, <1>3 DEF Inv, Control
  <2>3. pc'["unit"] # "idle" <=> unit' \in {"first", "second"}
    BY <1>0, <1>1, <1>2 DEF Inv, Control
  <2>. QED
    BY <1>0, <1>1, <1>2, <1>3, <1>4, <2>1, <2>2, <2>3 DEF Inv, Control
<1>8. Types'
  <2>1. mistaken <= faults'
    BY ForwardingAssumption DEF Inv, Types
  <2>. QED
    BY <1>6, <2>1 DEF Inv, Types
<1>9. ASSUME NEW k \in Helpers PROVE HelperOK(k)'
  <2>1. CASE k = h
    BY <1>1, <1>6, <2>1 DEF HelperOK, PassOK, Inside, Unset
  <2>2. CASE k # h
    <3>1. pc'[k] = pc[k] /\ local'[k] = local[k] /\ HelperOK(k)
      BY <1>1, <1>6, <2>2 DEF Inv
    <3>2. steady /\ ~local[k].blind => PassOK(k)'
      BY <3>1 DEF HelperOK, PassOK, Wanted, Standing
    <3>. QED
      BY <3>1, <3>2 DEF HelperOK
  <2>. QED
    BY <2>1, <2>2
<1>. QED
  BY <1>7, <1>8, <1>9 DEF Inv

(* Something changes around the helpers: whatever pass is under way, it is    *)
(* not steady any more.                                                       *)
LEMMA WorldStep ==
  ASSUME Inv, Control', Types', UNCHANGED <<local, mistaken>>, ~steady',
         \A k \in Helpers : pc'[k] = pc[k] \/ (pc[k] = "idle" /\ pc'[k] = "lock"),
         \A r \in Rules : rules'[r] <= rules[r]
  PROVE  Inv'
<1>1. ASSUME NEW k \in Helpers PROVE HelperOK(k)'
  <2>1. CASE pc[k] = "idle" /\ pc'[k] = "lock"
    BY <2>1 DEF Inv, HelperOK, Inside
  <2>2. CASE pc'[k] = pc[k]
    <3>1. HelperOK(k)
      BY DEF Inv
    <3>2. pc[k] = "insert" => rules'[Head(local[k].work)] <= mistaken
      <4>1. SUFFICES ASSUME pc[k] = "insert" PROVE rules'[Head(local[k].work)] <= mistaken
        OBVIOUS
      <4>2. Head(local[k].work) \in Rules
        BY <3>1, <4>1, WorkFacts DEF HelperOK, Inv, Types, Locals
      <4>3. /\ rules[Head(local[k].work)] \in Nat /\ rules'[Head(local[k].work)] \in Nat /\ mistaken \in Nat
            /\ rules'[Head(local[k].work)] <= rules[Head(local[k].work)]
            /\ rules[Head(local[k].work)] <= mistaken
        BY <3>1, <4>1, <4>2, ForwardingAssumption DEF HelperOK, Inv, Types
      <4>. QED
        BY <4>3
    <3>. QED
      BY <2>2, <3>1, <3>2 DEF HelperOK
  <2>. QED
    BY <2>1, <2>2
<1>. QED
  BY <1>1 DEF Inv

---------------------------------------------------------------------------
(* The helper's steps.                                                        *)

(* The lock is taken, the default route read and the networks listed.         *)
LEMMA FirstSteps ==
  ASSUME Inv, NEW h \in Helpers, Acquire(h) \/ Route(h) \/ List(h)
  PROVE  Inv'
<1>0. local[h] \in Locals
  BY DEF Inv, Types
<1>1. CASE Acquire(h)
  <2>0. Nobody \notin Helpers /\ "docker" \in Helpers /\ "unit" \in Helpers
    BY ForwardingAssumption DEF Helpers
  <2>1. /\ pc[h] = "lock" /\ pc'[h] = "route" /\ pc' \in [Helpers -> Labels]
        /\ \A k \in Helpers \ {h} : pc'[k] = pc[k]
    BY <1>1 DEF Acquire, At, Goto, Inv, Control, Labels, Inside
  <2>2. Control'
    BY <1>1, <2>0, <2>1 DEF Acquire, Inv, Control, Inside, world
  <2>3. Types'
    BY <1>1 DEF Acquire, Inv, Types, world, count
  <2>4. ASSUME NEW k \in Helpers PROVE HelperOK(k)'
    <3>1. pc[k] \in {"idle", "lock"}
      BY <1>1, <2>0 DEF Acquire, Inv, Control, Labels
    <3>2. local'[k] = Unset
      BY <1>1, <3>1 DEF Acquire, Inv, HelperOK
    <3>3. pc'[k] \in {"idle", "lock", "route"}
      BY <2>1, <3>1
    <3>. QED
      BY <3>2, <3>3 DEF HelperOK, PassOK, Inside
  <2>. QED
    BY <2>2, <2>3, <2>4 DEF Inv
<1>2. CASE Route(h) /\ uplink = NoLink
  <2>1. Exit(h, FALSE) /\ pc[h] # "idle" /\ UNCHANGED <<nets, uplink, daemon, rules, steady, changes, faults, mistaken>>
    BY <1>2 DEF Route, At, count
  <2>2. daemon \in BOOLEAN /\ faults \in 0..MaxFaults /\ faults <= faults
    BY ForwardingAssumption DEF Inv, Types
  <2>. QED
    BY <2>1, <2>2, ExitStep
<1>3. CASE Route(h) /\ uplink # NoLink
  <2>1. /\ pc[h] = "route" /\ pc' = [pc EXCEPT ![h] = "list"] /\ UNCHANGED <<unit, docker, lock>>
        /\ local' = [local EXCEPT ![h].link = uplink]
        /\ UNCHANGED <<nets, uplink, daemon, rules, steady, changes, faults, mistaken>>
    BY <1>3 DEF Route, At, Goto, Sets, GoesOn, count
  <2>2. uplink \in Links /\ local[h] = Unset
    BY <1>3, <2>1 DEF Inv, Types, HelperOK
  <2>3. local'[h] = [Unset EXCEPT !.link = uplink] /\ pc'[h] = "list" /\ local' \in [Helpers -> Locals]
    BY <2>1, <2>2 DEF Inv, Types, Locals, Unset, Control
  <2>4. Types'
    BY <2>1, <2>3 DEF Inv, Types
  <2>5. HelperOK(h)'
    BY <2>1, <2>2, <2>3 DEF HelperOK, PassOK, Unset
  <2>6. \A k \in Helpers \ {h} : local'[k] = local[k]
    BY <2>1 DEF Inv, Types
  <2>. QED
    BY <2>1, <2>4, <2>5, <2>6, InsideStep DEF Inside
<1>4. CASE List(h)
  <2>1. /\ pc[h] = "list" /\ pc' = [pc EXCEPT ![h] = "look"] /\ UNCHANGED <<unit, docker, lock>>
        /\ local' = [local EXCEPT ![h].names = Active] /\ daemon' = TRUE
        /\ UNCHANGED <<nets, uplink, rules, steady, changes, faults, mistaken>>
    BY <1>4 DEF List, At, Goto, Sets, GoesOn, count
  <2>2. /\ local'[h] = [local[h] EXCEPT !.names = Active] /\ pc'[h] = "look"
        /\ \A k \in Helpers \ {h} : local'[k] = local[k]
    BY <2>1 DEF Inv, Types, Control
  <2>3. local'[h] \in Locals
    BY <1>0, <2>2 DEF Locals, Active
  <2>4. Types'
    BY <2>1, <2>2, <2>3 DEF Inv, Types
  <2>5. \A c \in Wanted : c.net \in Active
    BY ForwardingAssumption DEF Wanted, Active, Comments
  <2>6. /\ local'[h].desired = {} /\ local'[h].work = <<>> /\ local'[h].link = local[h].link
        /\ local'[h].blind = local[h].blind
        /\ local'[h].names = Active /\ local'[h].link \in Links
    BY <1>0, <2>1, <2>2 DEF Inv, HelperOK, Locals, Inside
  <2>7. steady /\ ~local[h].blind => local'[h].link = uplink
    BY <2>1, <2>6 DEF Inv, HelperOK, PassOK, Inside
  <2>8. UNCHANGED <<Wanted, Standing>>
    BY <2>1 DEF Wanted, Standing
  <2>9. HelperOK(h)'
    BY <2>1, <2>2, <2>5, <2>6, <2>7, <2>8 DEF HelperOK, PassOK, Inside
  <2>. QED
    BY <2>1, <2>2, <2>4, <2>9, InsideStep DEF Inside
<1>. QED
  BY <1>1, <1>2, <1>3, <1>4

(* A network is looked at.                                                    *)
LEMMA LookStep ==
  ASSUME Inv, NEW h \in Helpers, NEW n \in Networks, Look(h, n)
  PROVE  Inv'
<1>0. local[h] \in Locals /\ HelperOK(h) /\ pc[h] = "look" /\ n \in local[h].names
  BY DEF Inv, Types, Look, At
<1>1. UNCHANGED <<nets, uplink, daemon, rules, steady, changes, faults, mistaken>>
  BY DEF Look, count
<1>2. CASE nets[n] = Off
  <2>1. Exit(h, FALSE)
    BY <1>2, ForwardingAssumption DEF Look
  <2>2. daemon \in BOOLEAN /\ faults \in 0..MaxFaults /\ faults <= faults
    BY ForwardingAssumption DEF Inv, Types
  <2>. QED
    BY <1>0, <1>1, <2>1, <2>2, ExitStep
<1>3. CASE nets[n] = Bare
  <2>1. /\ pc' = [pc EXCEPT ![h] = "look"] /\ UNCHANGED <<unit, docker, lock>>
        /\ local' = [local EXCEPT ![h].names = local[h].names \ {n}]
    BY <1>0, <1>3, ForwardingAssumption DEF Look, Sets, GoesOn, Inv, Control
  <2>2. /\ local'[h] = [local[h] EXCEPT !.names = local[h].names \ {n}] /\ pc'[h] = "look"
        /\ \A k \in Helpers \ {h} : local'[k] = local[k]
    BY <2>1 DEF Inv, Types, Control
  <2>3. /\ local'[h] \in Locals /\ local'[h].desired = local[h].desired /\ local'[h].work = local[h].work
        /\ local'[h].link = local[h].link /\ local'[h].names = local[h].names \ {n}
        /\ local'[h].blind = local[h].blind
    BY <1>0, <2>2 DEF Locals
  <2>4. Types'
    BY <1>1, <2>1, <2>2, <2>3 DEF Inv, Types
  <2>5. \A c \in Wanted : c.net # n
    BY <1>3, ForwardingAssumption DEF Wanted, Comments
  <2>6. UNCHANGED <<Wanted, Standing>>
    BY <1>1 DEF Wanted, Standing
  <2>7. HelperOK(h)'
    BY <1>0, <1>1, <2>2, <2>3, <2>5, <2>6 DEF HelperOK, PassOK, Inside
  <2>. QED
    BY <1>0, <2>1, <2>2, <2>4, <2>7, InsideStep DEF Inside
<1>4. CASE nets[n] \notin {Off, Bare}
  <2>. DEFINE c == [net |-> n, cidr |-> nets[n], link |-> local[h].link]
              w == <<Rule(c, "out"), Rule(c, "back")>>
  <2>1. /\ pc' = [pc EXCEPT ![h] = "check"] /\ UNCHANGED <<unit, docker, lock>>
        /\ local' = [local EXCEPT ![h].names = @ \ {n}, ![h].desired = @ \union {c}, ![h].work = w]
    BY <1>4 DEF Look, GoesOn, Goto
  <2>2. /\ local'[h] = [local[h] EXCEPT !.names = @ \ {n}, !.desired = @ \union {c}, !.work = w]
        /\ pc'[h] = "check" /\ \A k \in Helpers \ {h} : local'[k] = local[k]
    BY <2>1 DEF Inv, Types, Control
  <2>3. c \in Comments
    BY <1>0, <1>4 DEF Inv, Types, Comments, HelperOK, Inside
  <2>4. /\ w \in Works /\ w # <<>> /\ \A r \in Rules : r.of = c => r \in InWork(w)
    BY <2>3, BothRules
  <2>5. /\ local'[h] \in Locals /\ local'[h].desired = local[h].desired \union {c} /\ local'[h].work = w
        /\ local'[h].link = local[h].link /\ local'[h].names = local[h].names \ {n}
        /\ local'[h].blind = local[h].blind
    <3>. HIDE DEF c, w
    <3>1. /\ local'[h].desired = local[h].desired \union {c} /\ local'[h].work = w
          /\ local'[h].link = local[h].link /\ local'[h].names = local[h].names \ {n}
          /\ local'[h].stale = local[h].stale /\ local'[h].bad = local[h].bad /\ local'[h].blind = local[h].blind
          /\ local'[h] = [link |-> local'[h].link, names |-> local'[h].names, desired |-> local'[h].desired,
                          work |-> local'[h].work, stale |-> local'[h].stale, bad |-> local'[h].bad,
                          blind |-> local'[h].blind]
      BY <1>0, <2>2 DEF Locals
    <3>. QED
      BY <1>0, <2>3, <2>4, <3>1 DEF Locals
  <2>. HIDE DEF w
  <2>6. Types'
    BY <1>1, <2>1, <2>2, <2>5 DEF Inv, Types
  <2>7. UNCHANGED <<Wanted, Standing>>
    BY <1>1 DEF Wanted, Standing
  <2>8. steady /\ ~local[h].blind => \A d \in Wanted : d.net = n <=> d = c
    BY <1>0, <2>3 DEF Wanted, Comments, HelperOK, PassOK, Inside
  <2>9. steady /\ ~local[h].blind => c \in Wanted
    BY <1>0, <2>3 DEF Wanted, HelperOK, PassOK, Inside
  <2>10. ASSUME steady, ~local[h].blind PROVE PassOK(h)'
    <3>1. local[h].desired = {d \in Wanted : d.net \notin local[h].names} /\ local[h].link = uplink
      BY <1>0, <2>10 DEF HelperOK, PassOK, Inside
    <3>2. local'[h].desired = {d \in Wanted : d.net \notin local'[h].names}
      BY <2>10, <2>5, <2>8, <2>9, <3>1
    <3>3. \A r \in Rules : r.of \in local'[h].desired => r \in Standing \union InWork(local'[h].work)
      BY <1>0, <2>10, <2>4, <2>5, NoWork DEF HelperOK, PassOK
    <3>. QED
      BY <1>1, <2>2, <2>5, <2>7, <3>1, <3>2, <3>3 DEF PassOK
  <2>11. HelperOK(h)'
    BY <1>0, <1>1, <2>10, <2>2, <2>4, <2>5 DEF HelperOK, Inside
  <2>. QED
    BY <1>0, <2>1, <2>2, <2>6, <2>11, InsideStep DEF Inside
<1>. QED
  BY <1>2, <1>3, <1>4

(* ensure_rule is done with a rule: it stands, and so do those that stood.    *)
LEMMA EnsuredStep ==
  ASSUME Inv, NEW h \in Helpers, pc[h] \in {"check", "insert"}, Ensured(h),
         rules' \in [Rules -> Nat], \A r \in Rules : rules[r] <= rules'[r] /\ rules'[r] <= 1 + mistaken,
         rules'[Head(local[h].work)] > 0,
         UNCHANGED <<world, unit, lock, steady, changes, faults, mistaken>>
  PROVE  Inv'
<1>0. local[h] \in Locals /\ HelperOK(h)
  BY DEF Inv, Types
<1>. DEFINE w == local[h].work
            l == IF Len(w) = 1 THEN "look" ELSE "check"
<1>1. w \in Works /\ w # <<>>
  BY <1>0 DEF HelperOK, Locals
<1>2. /\ Head(w) \in Rules /\ Tail(w) \in Works
      /\ Len(w) = 1 <=> Tail(w) = <<>>
      /\ InWork(w) = {Head(w)} \union InWork(Tail(w))
  BY <1>1, WorkFacts
<1>3. /\ local' = [local EXCEPT ![h].work = Tail(w)]
      /\ pc' = [pc EXCEPT ![h] = l]
  BY DEF Ensured, Sets, Goto
<1>4. /\ local'[h] = [local[h] EXCEPT !.work = Tail(w)] /\ pc'[h] = l
      /\ \A k \in Helpers \ {h} : local'[k] = local[k]
  BY <1>3 DEF Inv, Types, Control
<1>5. /\ local'[h] \in Locals /\ local'[h].work = Tail(w) /\ local'[h].link = local[h].link
      /\ local'[h].names = local[h].names /\ local'[h].desired = local[h].desired /\ local'[h].blind = local[h].blind
  BY <1>0, <1>2, <1>4 DEF Locals
<1>6. Types'
  BY <1>3, <1>4, <1>5 DEF Inv, Types, world
<1>7. UNCHANGED <<nets, uplink, mistaken, steady>> /\ Wanted' = Wanted
  BY DEF world, Wanted
<1>8. Standing \union {Head(w)} \subseteq Standing'
  <2>1. \A r \in Rules : rules[r] > 0 => rules'[r] > 0
    BY DEF Inv, Types
  <2>. QED
    BY <1>2, <2>1 DEF Standing
<1>9. ASSUME steady, ~local[h].blind PROVE PassOK(h)'
  <2>1. PassOK(h)
    BY <1>0, <1>9 DEF HelperOK
  <2>2. \A r \in Rules : r.of \in local'[h].desired => r \in Standing' \union InWork(local'[h].work)
    BY <1>2, <1>5, <1>8, <2>1 DEF PassOK
  <2>. QED
    BY <1>4, <1>5, <1>7, <2>1, <2>2 DEF PassOK, Inside
<1>10. HelperOK(h)'
  BY <1>0, <1>2, <1>4, <1>5, <1>7, <1>9 DEF HelperOK, Inside
<1>11. l \in Inside /\ pc[h] \in Inside
  BY DEF Inside
<1>. HIDE DEF l, w
<1>. QED
  BY <1>3, <1>4, <1>6, <1>10, <1>11, InsideStep DEF world

(* -C and -I.                                                                 *)
LEMMA EnsureSteps ==
  ASSUME Inv, NEW h \in Helpers, Check(h) \/ Insert(h)
  PROVE  Inv'
<1>0. local[h] \in Locals /\ HelperOK(h) /\ pc[h] \in {"check", "insert"}
  BY DEF Inv, Types, Check, Insert, At
<1>. DEFINE r0 == Head(local[h].work)
<1>1. r0 \in Rules
  BY <1>0, WorkFacts DEF HelperOK, Locals
<1>2. /\ faults \in Nat /\ mistaken \in Nat /\ mistaken <= faults
      /\ rules \in [Rules -> Nat] /\ \A r \in Rules : rules[r] <= 1 + mistaken
  BY ForwardingAssumption DEF Inv, Types
<1>3. CASE Check(h) /\ r0 \in Standing /\ Ensured(h) /\ UNCHANGED <<faults, mistaken>>
  <2>1. UNCHANGED <<world, unit, rules, lock, steady, changes>>
    BY <1>3 DEF Check
  <2>2. rules'[r0] > 0 /\ \A r \in Rules : rules[r] <= rules'[r] /\ rules'[r] <= 1 + mistaken
    BY <1>2, <1>3, <2>1 DEF Standing
  <2>. QED
    BY <1>0, <1>2, <1>3, <2>1, <2>2, EnsuredStep
<1>4. CASE /\ Check(h) /\ Goto(h, "insert") /\ UNCHANGED local
           /\ \/ r0 \notin Standing /\ UNCHANGED <<faults, mistaken>>
              \/ faults < MaxFaults /\ faults' = faults + 1 /\ mistaken' = mistaken + 1
  <2>1. UNCHANGED <<world, unit, rules, lock, steady, changes>> /\ pc[h] = "check" /\ pc' = [pc EXCEPT ![h] = "insert"]
    BY <1>4 DEF Check, At, Goto
  <2>2. /\ rules[r0] <= mistaken' /\ \A r \in Rules : rules[r] <= 1 + mistaken'
        /\ faults' \in 0..MaxFaults /\ mistaken' \in Nat /\ mistaken' <= faults'
    <3>1. CASE r0 \notin Standing /\ UNCHANGED <<faults, mistaken>>
      BY <1>1, <1>2, <3>1 DEF Standing, Inv, Types
    <3>2. CASE faults < MaxFaults /\ faults' = faults + 1 /\ mistaken' = mistaken + 1
      BY <1>1, <1>2, <3>2, ForwardingAssumption
    <3>. QED
      BY <1>4, <3>1, <3>2
  <2>3. Types'
    BY <1>4, <2>1, <2>2 DEF Inv, Types, world
  <2>4. pc'[h] = "insert"
    BY <2>1 DEF Inv, Control
  <2>5. HelperOK(h)'
    BY <1>0, <1>4, <2>1, <2>2, <2>4 DEF HelperOK, PassOK, Inside, world, Wanted, Standing
  <2>. QED
    BY <1>4, <2>1, <2>3, <2>5, InsideStep DEF Inside, world
<1>5. CASE Insert(h)
  <2>1. /\ rules' = [rules EXCEPT ![r0] = @ + 1] /\ UNCHANGED <<world, unit, lock, steady, changes, faults, mistaken>>
        /\ Ensured(h) /\ pc[h] = "insert"
    BY <1>5 DEF Insert, count, At
  <2>2. rules[r0] <= mistaken
    BY <1>0, <2>1 DEF HelperOK
  <2>3. /\ rules' \in [Rules -> Nat] /\ rules'[r0] > 0
        /\ \A r \in Rules : rules[r] <= rules'[r] /\ rules'[r] <= 1 + mistaken
    BY <1>1, <1>2, <2>1, <2>2
  <2>. QED
    BY <1>0, <2>1, <2>3, EnsuredStep
<1>6. ASSUME Check(h) PROVE Inv'
  <2>1. \/ r0 \in Standing /\ Ensured(h) /\ UNCHANGED <<faults, mistaken>>
        \/ r0 \notin Standing /\ Goto(h, "insert") /\ UNCHANGED local /\ UNCHANGED <<faults, mistaken>>
        \/ /\ r0 \in Standing /\ faults < MaxFaults /\ faults' = faults + 1 /\ mistaken' = mistaken + 1
           /\ Goto(h, "insert") /\ UNCHANGED local
    BY <1>6 DEF Check
  <2>2. CASE r0 \in Standing /\ Ensured(h) /\ UNCHANGED <<faults, mistaken>>
    BY <1>3, <1>6, <2>2
  <2>3. CASE r0 \notin Standing /\ Goto(h, "insert") /\ UNCHANGED local /\ UNCHANGED <<faults, mistaken>>
    BY <1>4, <1>6, <2>3
  <2>4. CASE faults < MaxFaults /\ faults' = faults + 1 /\ mistaken' = mistaken + 1 /\ Goto(h, "insert") /\ UNCHANGED local
    BY <1>4, <1>6, <2>4
  <2>. QED
    BY <2>1, <2>2, <2>3, <2>4
<1>. QED
  BY <1>5, <1>6

(* An address is overlooked: from here on the pass claims nothing.            *)
LEMMA OverlookStep ==
  ASSUME Inv, NEW h \in Helpers, NEW n \in Networks, Overlook(h, n)
  PROVE  Inv'
<1>0. local[h] \in Locals /\ HelperOK(h) /\ pc[h] = "look"
  BY DEF Inv, Types, Overlook, At
<1>1. /\ UNCHANGED <<world, unit, rules, lock, steady, changes, mistaken>> /\ pc' = [pc EXCEPT ![h] = "look"]
      /\ pc'[h] = "look" /\ faults < MaxFaults /\ faults' = faults + 1
      /\ local' = [local EXCEPT ![h].names = @ \ {n}, ![h].blind = TRUE]
  BY <1>0 DEF Overlook, Inv, Control
<1>2. /\ local'[h] = [local[h] EXCEPT !.names = @ \ {n}, !.blind = TRUE]
      /\ \A k \in Helpers \ {h} : local'[k] = local[k]
  BY <1>1 DEF Inv, Types
<1>3. /\ local'[h] \in Locals /\ local'[h].work = local[h].work /\ local'[h].link = local[h].link /\ local'[h].blind
  BY <1>0, <1>2 DEF Locals
<1>4. faults' \in 0..MaxFaults /\ mistaken <= faults'
  BY <1>1, ForwardingAssumption DEF Inv, Types
<1>5. Types'
  BY <1>1, <1>2, <1>3, <1>4 DEF Inv, Types, world
<1>6. HelperOK(h)'
  BY <1>0, <1>1, <1>3 DEF HelperOK, Inside
<1>. QED
  BY <1>0, <1>1, <1>2, <1>5, <1>6, InsideStep DEF Inside, world

(* The chain is listed.                                                       *)
LEMMA ListedStep ==
  ASSUME Inv, NEW h \in Helpers, Listed(h)
  PROVE  Inv'
<1>0. local[h] \in Locals /\ HelperOK(h)
  BY DEF Inv, Types
<1>. DEFINE s == Obsolete(local[h].desired)
<1>1. /\ pc[h] = "look" /\ local[h].names = {} /\ pc' = [pc EXCEPT ![h] = "prune"]
      /\ local' = [local EXCEPT ![h].stale = s]
      /\ UNCHANGED <<world, unit, rules, lock, steady, changes, faults, mistaken>>
  BY DEF Listed, At, Goto, Sets, count
<1>2. /\ s \in [Rules -> 0..(1 + MaxFaults)]
      /\ \A r \in Rules : s[r] > 0 => r.of \notin local[h].desired
      /\ \A r \in Rules : r.of \notin local[h].desired => rules[r] <= s[r]
  <2>1. \A r \in Rules : rules[r] \in 0..(1 + MaxFaults)
    BY ForwardingAssumption DEF Inv, Types
  <2>. QED
    BY <2>1, ForwardingAssumption DEF Obsolete
<1>. HIDE DEF s
<1>3. /\ local'[h] = [local[h] EXCEPT !.stale = s] /\ pc'[h] = "prune"
      /\ \A k \in Helpers \ {h} : local'[k] = local[k]
  BY <1>1 DEF Inv, Types, Control
<1>4. /\ local'[h] \in Locals /\ local'[h].work = local[h].work /\ local'[h].link = local[h].link
      /\ local'[h].names = {} /\ local'[h].desired = local[h].desired
      /\ local'[h].stale = s /\ local'[h].blind = local[h].blind
  BY <1>0, <1>1, <1>2, <1>3 DEF Locals
<1>5. Types'
  BY <1>1, <1>3, <1>4 DEF Inv, Types, world
<1>6. UNCHANGED <<Wanted, Standing, rules, uplink, steady>>
  BY <1>1 DEF Wanted, Standing, world
<1>7. HelperOK(h)'
  BY <1>0, <1>1, <1>2, <1>3, <1>4, <1>6 DEF HelperOK, PassOK, Inside
<1>. QED
  BY <1>1, <1>3, <1>5, <1>7, InsideStep DEF Inside, world

(* One line less to delete: its rule goes, or the failure is remembered.      *)
LEMMA DeleteStep ==
  ASSUME Inv, NEW h \in Helpers, NEW r \in Rules, Delete(h, r)
  PROVE  Inv'
<1>0. local[h] \in Locals /\ HelperOK(h)
  BY DEF Inv, Types
<1>1. /\ pc[h] = "prune" /\ local[h].stale[r] > 0 /\ pc' = [pc EXCEPT ![h] = "prune"] /\ pc'[h] = "prune"
      /\ UNCHANGED <<world, unit, lock, steady, changes, mistaken>>
  BY DEF Delete, At, Inv, Control
<1>2. /\ faults \in 0..MaxFaults /\ mistaken \in Nat /\ mistaken <= faults /\ MaxFaults \in Nat
      /\ rules \in [Rules -> Nat] /\ \A q \in Rules : rules[q] <= 1 + mistaken
  BY ForwardingAssumption DEF Inv, Types
<1>. DEFINE s == [local[h].stale EXCEPT ![r] = @ - 1]
<1>3. s \in [Rules -> 0..(1 + MaxFaults)] /\ s[r] = local[h].stale[r] - 1 /\ \A q \in Rules : s[q] <= local[h].stale[q]
  BY <1>0, <1>1, <1>2 DEF Locals
<1>4. \A q \in Rules \ {r} : s[q] = local[h].stale[q]
  BY <1>0 DEF Locals
<1>5. \/ /\ r \in Standing /\ rules' = [rules EXCEPT ![r] = @ - 1] /\ UNCHANGED faults
         /\ local' = [local EXCEPT ![h] = [local[h] EXCEPT !.stale = s]]
      \/ /\ UNCHANGED rules /\ faults' \in {faults, faults + 1} /\ faults' <= MaxFaults
         /\ local' = [local EXCEPT ![h] = [local[h] EXCEPT !.stale = s, !.bad = TRUE]]
  <2>1. CASE /\ r \in Standing /\ rules' = [rules EXCEPT ![r] = @ - 1] /\ UNCHANGED faults
             /\ local' = [local EXCEPT ![h].stale[r] = @ - 1]
    BY <1>0, <2>1 DEF Inv, Types, Locals
  <2>2. CASE /\ UNCHANGED rules /\ faults' \in {faults, faults + 1} /\ faults' <= MaxFaults
             /\ local' = [local EXCEPT ![h].stale[r] = @ - 1, ![h].bad = TRUE]
    BY <1>0, <2>2 DEF Inv, Types, Locals
  <2>. QED
    BY <1>2, <2>1, <2>2 DEF Delete
<1>. HIDE DEF s
<1>6. /\ local'[h] \in Locals /\ \A k \in Helpers \ {h} : local'[k] = local[k]
      /\ local'[h].work = local[h].work /\ local'[h].link = local[h].link
      /\ local'[h].names = local[h].names /\ local'[h].desired = local[h].desired
      /\ local'[h].stale = s /\ local'[h].blind = local[h].blind
      /\ \/ rules' = [rules EXCEPT ![r] = @ - 1] /\ r \in Standing /\ local'[h].bad = local[h].bad
         \/ rules' = rules /\ local'[h].bad = TRUE
  <2>1. CASE /\ r \in Standing /\ rules' = [rules EXCEPT ![r] = @ - 1]
             /\ local' = [local EXCEPT ![h] = [local[h] EXCEPT !.stale = s]]
    BY <1>0, <1>3, <2>1 DEF Inv, Types, Locals
  <2>2. CASE /\ UNCHANGED rules
             /\ local' = [local EXCEPT ![h] = [local[h] EXCEPT !.stale = s, !.bad = TRUE]]
    BY <1>0, <1>3, <2>2 DEF Inv, Types, Locals
  <2>. QED
    BY <1>5, <2>1, <2>2
<1>7. /\ rules' \in [Rules -> Nat] /\ \A q \in Rules : rules'[q] <= rules[q]
      /\ \A q \in Rules \ {r} : rules'[q] = rules[q]
      /\ rules'[r] = rules[r] - 1 \/ local'[h].bad
  <2>1. CASE rules' = [rules EXCEPT ![r] = @ - 1] /\ r \in Standing
    BY <1>2, <2>1 DEF Standing
  <2>2. CASE rules' = rules /\ local'[h].bad = TRUE
    BY <1>2, <2>2
  <2>. QED
    BY <1>6, <2>1, <2>2
<1>8. Types'
  <2>1. faults' \in 0..MaxFaults /\ mistaken' \in Nat /\ mistaken' <= faults'
    BY <1>1, <1>2, <1>5
  <2>2. \A q \in Rules : rules'[q] <= 1 + mistaken'
    BY <1>1, <1>2, <1>7
  <2>3. local' \in [Helpers -> Locals]
    BY <1>5, <1>6 DEF Inv, Types
  <2>. QED
    BY <1>1, <1>7, <2>1, <2>2, <2>3 DEF Inv, Types, world
<1>9. UNCHANGED <<Wanted, uplink, steady>>
  BY <1>1 DEF Wanted, world
<1>10. ASSUME steady, ~local[h].blind PROVE PassOK(h)'
  <2>1. PassOK(h) /\ local[h].work = <<>>
    BY <1>0, <1>1, <1>10 DEF HelperOK
  <2>2. r.of \notin local[h].desired
    BY <1>1, <2>1 DEF PassOK
  <2>3. \A q \in Rules : q.of \in local'[h].desired => q \in Standing' \union InWork(local'[h].work)
    BY <1>1, <1>6, <1>7, <2>1, <2>2 DEF PassOK, Standing
  <2>4. \A q \in Rules : local'[h].stale[q] > 0 => q.of \notin local'[h].desired
    BY <1>0, <1>1, <1>2, <1>3, <1>6, <2>1 DEF PassOK, Locals
  <2>5. ASSUME ~local'[h].bad, NEW q \in Rules, q.of \notin local'[h].desired
        PROVE  rules'[q] <= local'[h].stale[q]
    <3>1. rules[q] <= local[h].stale[q] /\ rules[q] \in Nat /\ local[h].stale[q] \in Nat
      BY <1>0, <1>1, <1>2, <1>6, <2>1, <2>5 DEF PassOK, Locals
    <3>2. CASE q = r
      BY <1>3, <1>6, <1>7, <2>5, <3>1, <3>2
    <3>3. CASE q # r
      BY <1>4, <1>6, <1>7, <3>1, <3>3
    <3>. QED
      BY <3>2, <3>3
  <2>. QED
    BY <1>1, <1>6, <1>9, <2>1, <2>3, <2>4, <2>5 DEF PassOK, Inside
<1>11. HelperOK(h)'
  BY <1>0, <1>1, <1>6, <1>9, <1>10 DEF HelperOK, Inside
<1>. QED
  BY <1>1, <1>6, <1>8, <1>11, InsideStep DEF Inside, world

---------------------------------------------------------------------------
(* Everybody's steps.                                                         *)

(* Every step of a helper, of its callers and of the world keeps the          *)
(* invariant.                                                                 *)
LEMMA ForwardingStep ==
  ASSUME Inv, Next
  PROVE  Inv'
<1>0. Helpers = Dispatchers \union {"docker", "unit"} /\ Nobody \notin Helpers
  BY ForwardingAssumption DEF Helpers
<1>a. faults \in 0..MaxFaults /\ changes \in 0..MaxChanges /\ MaxFaults \in Nat /\ MaxChanges \in Nat
  BY ForwardingAssumption DEF Inv, Types
<1>b. daemon \in BOOLEAN /\ faults <= faults
  BY <1>a DEF Inv, Types
<1>c. ASSUME Change PROVE ~steady' /\ steady' \in BOOLEAN /\ changes' \in 0..MaxChanges
  <2>1. changes < MaxChanges /\ changes' = changes + 1
    BY <1>c DEF Change
  <2>2. changes' \in 0..MaxChanges
    BY <1>a, <2>1
  <2>. QED
    BY <1>c, <2>2 DEF Change
<1>1. ASSUME NEW h \in Helpers, Step(h) PROVE Inv'
  <2>1. CASE Done(h)
    <3>1. /\ Exit(h, ~local[h].bad) /\ pc[h] # "idle"
          /\ UNCHANGED <<nets, uplink, daemon, rules, steady, changes, faults, mistaken>>
      BY <2>1 DEF Done, Pruned, At, count
    <3>2. (~local[h].bad) \in BOOLEAN
      OBVIOUS
    <3>. QED
      BY <1>a, <1>b, <3>1, <3>2, ExitStep
  <2>. QED
    BY <1>1, <2>1, FirstSteps, LookStep, EnsureSteps, ListedStep, DeleteStep DEF Step
<1>2. ASSUME NEW h \in Helpers, Fails(h) PROVE Inv'
  <2>1. /\ Exit(h, FALSE) /\ pc[h] # "idle" /\ UNCHANGED <<nets, uplink, daemon, rules, steady, changes, mistaken>>
        /\ faults' \in 0..MaxFaults /\ faults <= faults'
    <3>1. faults < MaxFaults /\ faults' = faults + 1
      BY <1>2 DEF Fails
    <3>2. faults' \in 0..MaxFaults /\ faults <= faults'
      BY <1>a, <3>1
    <3>. QED
      BY <1>2, <3>2 DEF Fails, At
  <2>. QED
    BY <1>b, <2>1, ExitStep
<1>3. ASSUME Trigger PROVE Inv'
  <2>1. Control'
    BY <1>3 DEF Trigger, Inv, Control, world
  <2>2. Types'
    BY <1>3 DEF Trigger, Inv, Types, world, count
  <2>3. ASSUME NEW h \in Helpers PROVE HelperOK(h)'
    <3>1. HelperOK(h)
      BY DEF Inv
    <3>. QED
      BY <1>3, <3>1 DEF Trigger, HelperOK, PassOK, world, count, Wanted, Standing
  <2>. QED
    BY <2>1, <2>2, <2>3 DEF Inv
<1>4. ASSUME ExecStart PROVE Inv'
  <2>1. pc["unit"] = "idle" /\ pc' = [pc EXCEPT !["unit"] = "lock"] /\ unit' = "first"
    BY <1>4 DEF ExecStart, Inv, Control, Goto
  <2>2. Control'
    BY <1>0, <1>4, <2>1 DEF ExecStart, Inv, Control, Labels, Inside, world
  <2>3. Types'
    BY <1>4 DEF ExecStart, Inv, Types, world, count
  <2>4. ASSUME NEW h \in Helpers PROVE HelperOK(h)'
    <3>1. HelperOK(h)
      BY DEF Inv
    <3>2. CASE h = "unit"
      <4>1. pc'[h] = "lock" /\ local'[h] = Unset
        BY <1>4, <2>1, <3>1, <3>2 DEF Inv, Control, ExecStart, HelperOK
      <4>. QED
        BY <4>1 DEF HelperOK, PassOK, Inside
    <3>3. CASE h # "unit"
      <4>1. pc'[h] = pc[h]
        BY <2>1, <3>3 DEF Inv, Control
      <4>. QED
        BY <1>4, <3>1, <4>1 DEF ExecStart, HelperOK, PassOK, world, count, Wanted, Standing
    <3>. QED
      BY <3>2, <3>3
  <2>. QED
    BY <2>2, <2>3, <2>4 DEF Inv
<1>5. ASSUME NEW n \in Networks, NEW value \in Cidrs \union {Off, Bare}, NetworkChanges(n, value) PROVE Inv'
  <2>1. /\ UNCHANGED <<uplink, docker, unit, rules, lock, pc, local, faults, mistaken>> /\ ~steady' /\ steady' \in BOOLEAN
        /\ changes' \in 0..MaxChanges /\ nets' = [nets EXCEPT ![n] = value] /\ daemon' = TRUE
    BY <1>5, <1>c DEF NetworkChanges
  <2>2. Control' /\ Types' /\ \A r \in Rules : rules'[r] <= rules[r]
    BY <2>1 DEF Inv, Control, Types
  <2>. QED
    BY <2>1, <2>2, WorldStep
<1>6. ASSUME NEW value \in Links \union {NoLink}, RouteChanges(value) PROVE Inv'
  <2>1. /\ UNCHANGED <<nets, daemon, docker, unit, rules, lock, pc, local, faults, mistaken>>
        /\ ~steady' /\ steady' \in BOOLEAN /\ changes' \in 0..MaxChanges /\ uplink' = value
    BY <1>6, <1>c DEF RouteChanges
  <2>2. Control' /\ Types' /\ \A r \in Rules : rules'[r] <= rules[r]
    BY <2>1 DEF Inv, Control, Types
  <2>. QED
    BY <2>1, <2>2, WorldStep
<1>10. ASSUME NEW d \in Dispatchers, Dispatch(d) PROVE Inv'
  <2>1. /\ UNCHANGED <<nets, uplink, daemon, docker, unit, rules, lock, local, steady, changes, faults, mistaken>>
        /\ pc[d] = "idle" /\ pc' = [pc EXCEPT ![d] = "lock"]
    BY <1>10 DEF Dispatch, At, Goto, world, count
  <2>2. d \in Helpers /\ d # "docker" /\ d # "unit"
    BY <1>0, ForwardingAssumption
  <2>3. Control'
    BY <1>0, <2>1, <2>2 DEF Inv, Control, Labels, Inside
  <2>4. Types'
    BY <2>1 DEF Inv, Types
  <2>5. ASSUME NEW k \in Helpers PROVE HelperOK(k)'
    <3>1. HelperOK(k)
      BY DEF Inv
    <3>2. CASE k = d
      BY <2>1, <2>2, <3>1, <3>2 DEF Inv, Control, HelperOK, PassOK, Inside
    <3>3. CASE k # d
      <4>1. pc'[k] = pc[k]
        BY <2>1, <3>3 DEF Inv, Control
      <4>. QED
        BY <2>1, <3>1, <4>1 DEF HelperOK, PassOK, Wanted, Standing
    <3>. QED
      BY <3>2, <3>3
  <2>. QED
    BY <2>3, <2>4, <2>5 DEF Inv
<1>7. ASSUME DaemonExits PROVE Inv'
  <2>1. /\ UNCHANGED <<nets, uplink, docker, unit, rules, lock, pc, local, steady, changes, faults, mistaken>>
        /\ daemon' = FALSE
    BY <1>7 DEF DaemonExits, count
  <2>2. Control' /\ Types'
    BY <2>1 DEF Inv, Control, Types
  <2>3. ASSUME NEW h \in Helpers PROVE HelperOK(h)'
    BY <2>1 DEF Inv, HelperOK, PassOK, Wanted, Standing
  <2>. QED
    BY <2>2, <2>3 DEF Inv
<1>8. ASSUME DockerStarts PROVE Inv'
  <2>1. /\ UNCHANGED <<nets, uplink, daemon, unit, rules, lock, local, faults, mistaken>> /\ ~steady' /\ steady' \in BOOLEAN
        /\ changes' \in 0..MaxChanges /\ docker = "down" /\ docker' = "starting"
        /\ pc' = [pc EXCEPT !["docker"] = "lock"]
    BY <1>8, <1>c DEF DockerStarts, Goto
  <2>2. pc["docker"] = "idle" /\ "docker" # "unit"
    BY <2>1 DEF Inv, Control
  <2>3. Control'
    BY <1>0, <2>1, <2>2 DEF Inv, Control, Labels, Inside
  <2>4. Types' /\ \A r \in Rules : rules'[r] <= rules[r]
    BY <2>1 DEF Inv, Types
  <2>5. \A k \in Helpers : pc'[k] = pc[k] \/ (pc[k] = "idle" /\ pc'[k] = "lock")
    BY <2>1, <2>2 DEF Inv, Control
  <2>. QED
    BY <2>1, <2>3, <2>4, <2>5, WorldStep
<1>9. ASSUME DockerStops \/ Flush PROVE Inv'
  <2>1. /\ UNCHANGED <<nets, uplink, daemon, unit, lock, pc, local, faults, mistaken>> /\ ~steady' /\ steady' \in BOOLEAN
        /\ changes' \in 0..MaxChanges
        /\ docker' = docker \/ (docker = "up" /\ docker' = "down")
        /\ rules' = rules \/ rules' = [r \in Rules |-> 0]
    BY <1>9, <1>c DEF DockerStops, Flush, world, None
  <2>2. Control'
    BY <2>1 DEF Inv, Control
  <2>3. Types' /\ \A r \in Rules : rules'[r] <= rules[r]
    <3>1. rules' \in [Rules -> Nat] /\ \A r \in Rules : rules'[r] <= rules[r] /\ rules'[r] <= 1 + mistaken
      BY <2>1, <1>a DEF Inv, Types
    <3>. QED
      BY <2>1, <3>1 DEF Inv, Types
  <2>. QED
    BY <2>1, <2>2, <2>3, WorldStep
<1>. QED
  BY <1>1, <1>2, <1>3, <1>4, <1>5, <1>6, <1>10, <1>7, <1>8, <1>9, OverlookStep DEF Next

---------------------------------------------------------------------------
(* The theorems.                                                              *)

(* The inductive invariant holds in every state.                              *)
THEOREM ForwardingInvariant == Spec => []Inv
<1>1. ASSUME Init PROVE Inv
  <2>0. Helpers = Dispatchers \union {"docker", "unit"} /\ Nobody \notin Helpers
    BY ForwardingAssumption DEF Helpers
  <2>1. Control
    BY <1>1, <2>0 DEF Init, Control, Labels, Inside
  <2>2. Unset \in Locals
    BY UnsetIsLocal
  <2>3. Types
    <3>1. rules \in [Rules -> Nat] /\ (\A r \in Rules : rules[r] <= 1 + mistaken)
      BY <1>1 DEF Init, None
    <3>2. changes \in 0..MaxChanges /\ faults \in 0..MaxFaults /\ mistaken \in Nat /\ mistaken <= faults
      BY <1>1, ForwardingAssumption DEF Init
    <3>. QED
      BY <1>1, <2>2, <3>1, <3>2 DEF Init, Types
  <2>4. \A h \in Helpers : HelperOK(h)
    BY <1>1, OutsideIsIdle DEF Init
  <2>. QED
    BY <2>1, <2>3, <2>4 DEF Inv
<1>2. ASSUME Inv, UNCHANGED vars PROVE Inv'
  <2>1. Control' /\ Types'
    BY <1>2 DEF Inv, Control, Types, vars
  <2>2. ASSUME NEW h \in Helpers PROVE HelperOK(h)'
    BY <1>2 DEF Inv, HelperOK, PassOK, Wanted, Standing, vars
  <2>. QED
    BY <2>1, <2>2 DEF Inv
<1>. QED
  BY <1>1, <1>2, ForwardingStep, PTL DEF Spec

(* The variables keep their types; a rule stands at most once more often than *)
(* -C failed by mistake, whoever overlaps with whom.                          *)
THEOREM ForwardingTypes == Spec => []TypeOK
<1>1. ASSUME Inv PROVE TypeOK
  <2>1. rules \in [Rules -> 0..(1 + MaxFaults)]
    BY <1>1, ForwardingAssumption DEF Inv, Types
  <2>2. \A h \in Helpers :
          /\ local[h].link \in Links \union {NoLink} /\ local[h].names \subseteq Networks
          /\ local[h].desired \subseteq Comments /\ local[h].stale \in [Rules -> 0..(1 + MaxFaults)]
          /\ local[h].bad \in BOOLEAN /\ local[h].blind \in BOOLEAN
    BY <1>1 DEF Inv, Types, Locals
  <2>. QED
    BY <1>1, <2>1, <2>2 DEF Inv, Control, Types, TypeOK, Labels, Inside
<1>. QED
  BY <1>1, ForwardingInvariant, PTL

(* Overlapping callers never insert a rule twice: every duplicate is the work *)
(* of a -C that failed for a rule that stood.                                 *)
THEOREM NeverTwice == Spec => []InsertedOnce
<1>1. ASSUME Inv PROVE InsertedOnce
  BY <1>1 DEF Inv, Types, InsertedOnce
<1>. QED
  BY <1>1, ForwardingInvariant, PTL

(* A pass that succeeds while nothing changes leaves exactly the wanted rules,*)
(* for any number of networks and whatever was in the chain before.           *)
THEOREM PassIsExact == Spec => []SuccessIsExact
<1>1. ASSUME Inv, NEW h \in Helpers, Pruned(h), ~local[h].bad, steady, ~local[h].blind PROVE Exact
  <2>1. /\ pc[h] = "prune" /\ local[h].stale = None /\ local[h].work = <<>> /\ local[h].names = {} /\ PassOK(h)
    BY <1>1 DEF Pruned, At, Inv, HelperOK
  <2>2. local[h].desired = Wanted
    BY <2>1 DEF PassOK
  <2>3. \A r \in Rules : r.of \in Wanted => r \in Standing
    BY <2>1, <2>2, NoWork DEF PassOK
  <2>4. \A r \in Standing : r.of \in Wanted
    <3>1. \A r \in Rules : r.of \notin Wanted => rules[r] <= 0
      BY <1>1, <2>1, <2>2 DEF PassOK, None
    <3>. QED
      BY <1>1, <3>1 DEF Standing, Inv, Types
  <2>. QED
    BY <2>3, <2>4 DEF Exact, Standing
<1>2. Inv => SuccessIsExact
  BY <1>1 DEF SuccessIsExact
<1>. QED
  BY <1>2, ForwardingInvariant, PTL

=============================================================================
