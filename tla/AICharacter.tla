---------------------------- MODULE AICharacter ----------------------------
(***************************************************************************)
(* One AAICharacter on the authority with the bow it was spawned with: its *)
(* timers, its target and its death (AI/AICharacter.cpp), over the bow of  *)
(* Bow.tla.                                                                *)
(*                                                                         *)
(* A frame ticks the bow and moves every timer on by the same DeltaTime;   *)
(* the timers that fell due then fire in the order they fell due, in any   *)
(* order when they tie, before the next frame.  Timers count the time that *)
(* is left, and may be overdue (below zero) by less than a frame.          *)
(*                                                                         *)
(* Destroying an actor does not clear the pointers to it: the garbage      *)
(* collector does, at some later time (CollectGarbage).  The player is the *)
(* environment: near (within AttackRange), far, or absent, when            *)
(* GetPlayerCharacter(0) returns null.  No player ever comes back.         *)
(***************************************************************************)
EXTENDS Bow

CONSTANTS
    Self, SelfBow,          \* this AI and its EquippedWeapon
    Off,                    \* a timer that is not set
    AttackInterval,         \* the looping attack timer, and its first delay
    FirstDelay,
    DrawDelay,              \* from the aim to the draw
    FireDelay,              \* from the draw to the release
    CooldownDelay,          \* from the release to the next attack
    DestroyDelay            \* from death to Destroy()

ASSUME SelfAssumption == Self \in Character /\ SelfBow \in Bow
ASSUME TimerAssumption ==
    /\ Off \notin Int
    /\ \A d \in {AttackInterval, FirstDelay, DrawDelay, FireDelay, CooldownDelay, DestroyDelay} :
          d \in Nat \ {0}
    /\ \A dt \in FrameTimes : dt <= AttackInterval  \* a loop fires once in a frame

VARIABLES
    ai,      \* bIsDead, bCanAttack, CurrentTarget, and whether Destroy() was called
    timer,   \* the time left of each timer, or Off
    player

vars == <<bow, arrow, ai, timer, player>>

CycleTimers == {"draw", "fire", "cooldown"}
Timers == CycleTimers \cup {"attack", "destroy"}

AITypeOK == /\ TypeOK
            /\ ai \in [dead : BOOLEAN, destroyed : BOOLEAN, canAttack : BOOLEAN,
                       target : BOOLEAN]
            /\ timer \in [Timers -> Int \cup {Off}]
            /\ player \in {"near", "far", "absent"}

\* BeginPlay is over: the weapon is equipped and the attack timer set.
AIInit == /\ bow = [b \in Bow |-> IF b = SelfBow THEN [NewBow EXCEPT !.owner = Self] ELSE NewBow]
          /\ arrow = [a \in Arrow |-> NoFlight]
          /\ ai = [dead |-> FALSE, destroyed |-> FALSE, canAttack |-> TRUE, target |-> FALSE]
          /\ timer = [n \in Timers |-> IF n = "attack" THEN FirstDelay ELSE Off]
          /\ player \in {"near", "far"}

----------------------------------------------------------------------------
(* The frame and the timer manager. *)

Due(n) == timer[n] # Off /\ timer[n] <= 0

Fires(n) == Due(n) /\ \A k \in Timers : Due(k) => timer[n] <= timer[k]

Frame(dt) ==
    /\ \A n \in Timers : ~Due(n)
    /\ timer' = [n \in Timers |-> IF timer[n] = Off THEN Off ELSE timer[n] - dt]
    /\ IF bow[SelfBow].charging THEN Tick(SelfBow, dt) ELSE UNCHANGED bowVars
    /\ UNCHANGED <<ai, player>>

----------------------------------------------------------------------------
(* The attack cycle. *)

\* The target after SearchForTarget: without a player the old one is kept.
SearchForTarget == IF player = "absent" THEN ai.target ELSE player = "near"

\* Mutant: an attack that has begun does not block the next one.
TryAttackUnblocked ==
    /\ Fires("attack")
    /\ LET search == ~ai.dead /\ ai.canAttack
           begin  == search /\ SearchForTarget
       IN  /\ ai' = [ai EXCEPT !.target = IF search THEN SearchForTarget ELSE @]
           /\ timer' = [timer EXCEPT !["attack"] = @ + AttackInterval,
                                     !["draw"] = IF begin THEN DrawDelay ELSE @]
           /\ IF begin THEN StartAim(SelfBow) ELSE UNCHANGED bowVars
    /\ UNCHANGED player

\* BeginAIAim is part of it.
TryAttackTarget ==
    /\ Fires("attack")
    /\ LET search == ~ai.dead /\ ai.canAttack
           begin  == search /\ SearchForTarget
       IN  /\ ai' = [ai EXCEPT !.target = IF search THEN SearchForTarget ELSE @,
                               !.canAttack = @ /\ ~begin]
           /\ timer' = [timer EXCEPT !["attack"] = @ + AttackInterval,
                                     !["draw"] = IF begin THEN DrawDelay ELSE @]
           /\ IF begin THEN StartAim(SelfBow) ELSE UNCHANGED bowVars
    /\ UNCHANGED player

\* Mutant: a dead AI still draws.
BeginAIDrawEvenDead ==
    /\ Fires("draw")
    /\ timer' = [timer EXCEPT !["draw"] = Off, !["fire"] = FireDelay]
    /\ IF CanDraw(SelfBow) THEN StartDraw(SelfBow) ELSE UNCHANGED bowVars
    /\ UNCHANGED <<ai, player>>

\* Mutant: the release comes before the bow can be fully charged.
BeginAIDrawHasty ==
    /\ Fires("draw")
    /\ timer' = [timer EXCEPT !["draw"] = Off, !["fire"] = IF ai.dead THEN @ ELSE 1]
    /\ IF ~ai.dead /\ CanDraw(SelfBow) THEN StartDraw(SelfBow) ELSE UNCHANGED bowVars
    /\ UNCHANGED <<ai, player>>

BeginAIDraw ==
    /\ Fires("draw")
    /\ timer' = [timer EXCEPT !["draw"] = Off, !["fire"] = IF ai.dead THEN @ ELSE FireDelay]
    /\ IF ~ai.dead /\ CanDraw(SelfBow) THEN StartDraw(SelfBow) ELSE UNCHANGED bowVars
    /\ UNCHANGED <<ai, player>>

\* Mutant: the release does not start the cooldown, which alone lets it attack again.
EndAIDrawNoCooldown ==
    /\ Fires("fire")
    /\ timer' = [timer EXCEPT !["fire"] = Off]
    /\ IF ~ai.dead /\ bow[SelfBow].charging THEN EndDraw(SelfBow) ELSE UNCHANGED bowVars
    /\ UNCHANGED <<ai, player>>

EndAIDrawAndFire ==
    /\ Fires("fire")
    /\ timer' = [timer EXCEPT !["fire"] = Off,
                              !["cooldown"] = IF ai.dead THEN @ ELSE CooldownDelay]
    /\ IF ~ai.dead /\ bow[SelfBow].charging THEN EndDraw(SelfBow) ELSE UNCHANGED bowVars
    /\ UNCHANGED <<ai, player>>

ResetAttackCooldown ==
    /\ Fires("cooldown")
    /\ timer' = [timer EXCEPT !["cooldown"] = Off]
    /\ ai' = [ai EXCEPT !.canAttack = TRUE]
    /\ UNCHANGED <<bow, arrow, player>>

----------------------------------------------------------------------------
(* Death. *)

\* Mutant: nothing is scheduled to remove the body.
DieInPlace ==
    /\ ~ai.dead
    /\ ai' = [ai EXCEPT !.dead = TRUE, !.target = FALSE]
    /\ timer' = [timer EXCEPT !["attack"] = Off]
    /\ UNCHANGED <<bow, arrow, player>>

\* GameMode calls Die(), which calls OnDeath() once.  The bow is detached, but neither
\* told of it nor unequipped, and the timers of the attack under way are left set.
Die ==
    /\ ~ai.dead
    /\ ai' = [ai EXCEPT !.dead = TRUE, !.target = FALSE]
    /\ timer' = [timer EXCEPT !["attack"] = Off, !["destroy"] = DestroyDelay]
    /\ UNCHANGED <<bow, arrow, player>>

\* Destroy() takes the actor's timers with it; the bow is an actor of its own and stays.
DestroySelf ==
    /\ Fires("destroy")
    /\ ai' = [ai EXCEPT !.destroyed = TRUE]
    /\ timer' = [n \in Timers |-> Off]
    /\ UNCHANGED <<bow, arrow, player>>

----------------------------------------------------------------------------
(* The environment. *)

PlayerMoves == /\ player # "absent"
               /\ player' \in {"near", "far", "absent"} \ {player}
               /\ UNCHANGED <<bow, arrow, ai, timer>>

\* Pointers to destroyed actors become null.
CollectGarbage ==
    /\ ai.destroyed \/ player = "absent"
    /\ ai' = [ai EXCEPT !.target = @ /\ player # "absent"]
    /\ IF ai.destroyed THEN Collected(Self) ELSE UNCHANGED bowVars
    /\ UNCHANGED <<timer, player>>

ArrowLeaves == \E a \in Arrow : ArrowGone(a) /\ UNCHANGED <<ai, timer, player>>

----------------------------------------------------------------------------
TimerFires == \/ TryAttackTarget
              \/ BeginAIDraw
              \/ EndAIDrawAndFire
              \/ ResetAttackCooldown
              \/ DestroySelf

AINext == \/ \E dt \in FrameTimes : Frame(dt)
          \/ TimerFires
          \/ Die
          \/ PlayerMoves
          \/ CollectGarbage
          \/ ArrowLeaves

AISpec == AIInit /\ [][AINext]_vars

\* The engine goes on ticking, runs the timers that are due, and arrows come to an end.
\* Nothing is assumed of the player, of death or of the garbage collector.
AIFairSpec == /\ AISpec
              /\ WF_vars(\E dt \in FrameTimes : Frame(dt))
              /\ WF_vars(TimerFires)
              /\ WF_vars(ArrowLeaves)

----------------------------------------------------------------------------
(* Safety. *)

Armed(n) == timer[n] # Off

AtRest == /\ ai.canAttack
          /\ ~bow[SelfBow].charging
          /\ \A n \in CycleTimers : ~Armed(n)

AtStage(n) == /\ ~ai.canAttack
              /\ Armed(n)
              /\ \A k \in CycleTimers \ {n} : ~Armed(k)
              /\ n = "draw" => bow[SelfBow].aiming /\ ~bow[SelfBow].charging
              /\ n = "fire" => /\ bow[SelfBow].charging
                               /\ bow[SelfBow].chargeTime + timer["fire"] = FireDelay
              /\ n = "cooldown" => ~bow[SelfBow].charging

\* A living AI is in one stage of one attack, and bCanAttack, the timers and the bow
\* agree on which: free to attack with no timer of the cycle set; or aiming, undrawn,
\* with the draw to come; or drawn, with a charge clock that together with the release
\* timer makes FireDelay; or lowered again with the cooldown running.  The attack timer
\* loops every AttackInterval, in the middle of the cycle and in the instant the
\* cooldown ends, and only bCanAttack keeps a second attack from starting.
StagesAgree == ~ai.dead => AtRest \/ \E n \in CycleTimers : AtStage(n)

\* No arrow the AI drew is left nocked on nobody's bow: it never draws over an arrow it
\* still holds, alive or dead.
NoArrowStranded ==
    \A a \in Arrow : arrow[a].phase = "nocked" => \E b \in Bow : bow[b].prepared = a

\* The AI's delays give its bow time for a full charge: all its arrows fly at top speed,
\* those its bow looses on its own after its death too.
ShotsAreFull ==
    \A a \in Arrow : arrow[a].phase = "loosed" => arrow[a].speed = MaxArrowSpeed

\* After death nothing aims, lowers or draws the bow, though the timers of the attack
\* under way still fire (AICharacter.cpp:70 clears the attack timer only): each handler
\* has to look at bIsDead itself.  So at most one arrow still leaves, the one on the bow
\* at the death, and that ends the draw.
DeadStartsNothing ==
    [][ai.dead =>
        /\ bow'[SelfBow].charging => bow[SelfBow].charging
        /\ bow'[SelfBow].aiming = bow[SelfBow].aiming
        /\ bow'[SelfBow].prepared \in {bow[SelfBow].prepared, NoArrow}
        /\ \A a \in Arrow : arrow'[a].phase = "loosed" /\ arrow[a].phase # "loosed" =>
             /\ bow[SelfBow].charging /\ bow[SelfBow].prepared = a
             /\ ~bow'[SelfBow].charging]_vars

----------------------------------------------------------------------------
(* The inductive invariant behind the safety properties. *)

\* What the attack cycle relies on: an AI that can draw its bow and aim an arrow, and a
\* release that comes after a full charge and, hitches included, before the bow lets go.
DelaysFit == /\ Self \in HasArrowSocket \cap CanSight
             /\ SelfBow \in HasArrowClass
             /\ MaxChargeTime <= FireDelay
             /\ MaxChargeTime <= AutoReleaseTime
             /\ \A dt \in FrameTimes : FireDelay + dt <= AutoReleaseTime

\* Until it dies the AI has its bow, which holds an arrow only while it is drawn.
AliveSound == ~ai.dead => /\ ~ai.destroyed
                          /\ ~Armed("destroy")
                          /\ bow[SelfBow].owner = Self
                          /\ bow[SelfBow].prepared # NoArrow => bow[SelfBow].charging

AIInv == /\ AITypeOK
         /\ DelaysFit => /\ AliveSound
                         /\ StagesAgree
                         /\ NoArrowStranded
                         /\ ShotsAreFull

----------------------------------------------------------------------------
(* Liveness. *)

\* A draw for which no arrow could be spawned.
DrawsNothing == bow'[SelfBow].charging /\ bow'[SelfBow].prepared = NoArrow

\* A living AI with the player in range keeps shooting, unless its arrows keep failing to
\* spawn; a spawn that failed does not end the attack cycle (AICharacter.cpp:155-173).
KeepsShooting ==
    <>[](player = "near" /\ ~ai.dead) =>
        []<>(\E a \in Arrow : arrow[a].phase = "loosed") \/ []<><<DrawsNothing>>_vars

\* A dead AI is removed.
DeadIsRemoved == ai.dead ~> ai.destroyed

----------------------------------------------------------------------------
(* What the comments say of a dead AI. *)

\* "AI's rotation, attack and other logic stops" (AICharacter.cpp:86), and the bow "is no
\* longer this AI's weapon" (:83): once it is dead, none of its arrows is loosed.
DeadNeverShoots ==
    [][ai.dead => \A a \in Arrow : arrow'[a].phase = "loosed" => arrow[a].phase = "loosed"]_vars
=============================================================================
