--------------------------- MODULE UserCharacter ---------------------------
(***************************************************************************)
(* One locally controlled AUserCharacter with authority (a standalone game *)
(* or the host of a listen server) and its bow: the keys, what the input   *)
(* bindings do, rolling and death (Character/UserCharacter.cpp and         *)
(* UserCharacterAnimInstance.cpp), over the bow of Bow.tla.                *)
(*                                                                         *)
(* Enhanced Input reports Started when a key goes down and Completed when  *)
(* it comes up, and nothing once the character's input is disabled.  The   *)
(* roll montage calls OnRollEnd from its animation; which other animations *)
(* call SetCanMove is in assets, so it may be called at any time when      *)
(* AnimationsStop is TRUE.                                                 *)
(***************************************************************************)
EXTENDS Bow

CONSTANTS Self, SelfBow,    \* this player's character and its EquippedWeapon
          AnimationsStop    \* whether some animation calls SetCanMove

ASSUME SelfAssumption == Self \in Character /\ SelfBow \in Bow
ASSUME AnimationAssumption == AnimationsStop \in BOOLEAN

VARIABLES
    user,   \* the fields of AUserCharacter and its movement component
    keys    \* the keys that are down

vars == <<bow, arrow, user, keys>>

Keys == {"aim", "shoot", "walk"}

\* yaw is bUseControllerRotationYaw.  (bOrientRotationToMovement is set to its opposite with it.)
UserTypeOK == /\ TypeOK
              /\ user \in [dead : BOOLEAN, destroyed : BOOLEAN, canMove : BOOLEAN,
                           rolling : BOOLEAN, speed : {"Normal", "Walk"}, yaw : BOOLEAN]
              /\ keys \subseteq Keys

\* yaw starts as the character's blueprint has it; the engine's default is TRUE, and no
\* constructor or BeginPlay of the game changes it.
UserInit == /\ bow = [b \in Bow |-> IF b = SelfBow THEN [NewBow EXCEPT !.owner = Self] ELSE NewBow]
            /\ arrow = [a \in Arrow |-> NoFlight]
            /\ user \in [dead : {FALSE}, destroyed : {FALSE}, canMove : {TRUE},
                         rolling : {FALSE}, speed : {"Normal"}, yaw : BOOLEAN]
            /\ keys = {}

----------------------------------------------------------------------------
(* Keys. *)

Down(k) == k \notin keys /\ keys' = keys \cup {k}
Up(k)   == k \in keys /\ keys' = keys \ {k}

InputOn == ~user.dead

\* The bow does nothing on a call it returns from early.
Call(guard, operation) == IF InputOn /\ guard THEN operation ELSE UNCHANGED bowVars

StartAiming ==
    /\ Down("aim")
    /\ IF InputOn /\ user.canMove
       THEN user' = [user EXCEPT !.speed = "Walk", !.yaw = TRUE]
       ELSE UNCHANGED user
    /\ Call(user.canMove, StartAim(SelfBow))

\* Mutant: a roll also blocks the release of the key.
StopAimingIfMovable ==
    /\ Up("aim")
    /\ IF InputOn /\ user.canMove
       THEN user' = [user EXCEPT !.speed = "Normal", !.yaw = FALSE]
       ELSE UNCHANGED user
    /\ Call(user.canMove, StopAim(SelfBow))

StopAiming ==
    /\ Up("aim")
    /\ IF InputOn
       THEN user' = [user EXCEPT !.speed = "Normal", !.yaw = FALSE]
       ELSE UNCHANGED user
    /\ Call(TRUE, StopAim(SelfBow))

StartCharging == /\ Down("shoot")
                 /\ Call(CanDraw(SelfBow), StartDraw(SelfBow))
                 /\ UNCHANGED user

\* Mutant: a release is ignored while rolling.
ReleaseArrowIfMovable ==
    /\ Up("shoot")
    /\ Call(user.canMove /\ bow[SelfBow].charging, EndDraw(SelfBow))
    /\ UNCHANGED user

ReleaseArrow == /\ Up("shoot")
                /\ Call(bow[SelfBow].charging, EndDraw(SelfBow))
                /\ UNCHANGED user

OnWalkSlowStarted == /\ Down("walk")
                     /\ user' = [user EXCEPT !.speed = IF InputOn THEN "Walk" ELSE @]
                     /\ UNCHANGED bowVars

OnWalkSlowEnded == /\ Up("walk")
                   /\ user' = [user EXCEPT !.speed = IF InputOn THEN "Normal" ELSE @]
                   /\ UNCHANGED bowVars

----------------------------------------------------------------------------
(* Rolling. *)

Roll == /\ InputOn /\ ~user.rolling /\ user.canMove
        /\ user' = [user EXCEPT !.rolling = TRUE, !.canMove = FALSE]
        /\ UNCHANGED <<bow, arrow, keys>>

\* The end of the roll montage.
OnRollEnd == /\ user.rolling /\ ~user.destroyed
             /\ user' = [user EXCEPT !.rolling = FALSE, !.canMove = TRUE]
             /\ UNCHANGED <<bow, arrow, keys>>

SetCanMove == /\ AnimationsStop
              /\ ~user.destroyed
              /\ user' = [user EXCEPT !.canMove = ~@]
              /\ UNCHANGED <<bow, arrow, keys>>

----------------------------------------------------------------------------
(* The frame: the character and its bow tick in either order. *)

\* Mutant: the bow is put into its aim whether or not it is aiming.
UserTickAims ==
    /\ ~user.destroyed
    /\ bow[SelfBow].prepared = NoArrow
    /\ StartAim(SelfBow)
    /\ UNCHANGED <<user, keys>>

\* Mutant: the test of PreparedArrow is the wrong way round.
UserTickHeld ==
    /\ ~user.destroyed
    /\ bow[SelfBow].aiming /\ bow[SelfBow].prepared # NoArrow
    /\ StartAim(SelfBow)
    /\ UNCHANGED <<user, keys>>

\* Between shots an aiming bow is put back into its aim.
UserTick ==
    /\ ~user.destroyed
    /\ bow[SelfBow].aiming /\ bow[SelfBow].prepared = NoArrow
    /\ StartAim(SelfBow)
    /\ UNCHANGED <<user, keys>>

BowTick == \E dt \in FrameTimes : Tick(SelfBow, dt) /\ UNCHANGED <<user, keys>>

----------------------------------------------------------------------------
(* Death.  OnDeath leaves the bow as it is. *)

Die == /\ ~user.dead
       /\ user' = [user EXCEPT !.dead = TRUE]
       /\ UNCHANGED <<bow, arrow, keys>>

\* The timer OnDeath set.
DestroySelf == /\ user.dead /\ ~user.destroyed
               /\ user' = [user EXCEPT !.destroyed = TRUE]
               /\ UNCHANGED <<bow, arrow, keys>>

CollectGarbage == /\ user.destroyed
                  /\ Collected(Self)
                  /\ UNCHANGED <<user, keys>>

ArrowLeaves == \E a \in Arrow : ArrowGone(a) /\ UNCHANGED <<user, keys>>

----------------------------------------------------------------------------
Handlers == \/ StartAiming \/ StopAiming
            \/ StartCharging \/ ReleaseArrow
            \/ OnWalkSlowStarted \/ OnWalkSlowEnded
            \/ Roll \/ OnRollEnd \/ SetCanMove

UserNext == \/ Handlers
            \/ UserTick \/ BowTick
            \/ Die \/ DestroySelf \/ CollectGarbage
            \/ ArrowLeaves

UserSpec == UserInit /\ [][UserNext]_vars

\* Frames go on for the character and for its bow.  Nothing is assumed of the player's
\* hands, of the animations, of death or of the garbage collector.
UserFairSpec == /\ UserSpec
                /\ WF_vars(UserTick)
                /\ WF_vars(BowTick)

----------------------------------------------------------------------------
(* Safety. *)

\* The camera turns a living player's character only while the aim key is down.
YawNeedsAimKey == user.yaw /\ ~user.dead => "aim" \in keys

\* However the character starts, once the player has pressed the aim key the camera turns him
\* only while he holds it: no order of keys, rolls and stops leaves it turning
\* (UserCharacter.cpp:106, :153).
CameraLetsGo == []("aim" \in keys => []YawNeedsAimKey)

\* A living player's bow is drawn only while the shoot key is down, so releasing the key
\* always ends the draw: there is no way to be left with a drawn bow but to die.
DrawNeedsShootKey == bow[SelfBow].charging /\ ~user.dead => "shoot" \in keys

\* No arrow is left nocked on nobody's bow: the player never draws over an arrow.
NoArrowStranded ==
    \A a \in Arrow : arrow[a].phase = "nocked" => \E b \in Bow : bow[b].prepared = a

\* The aim is only ever taken up with the aim key, alive.  (It may outlast the key: StopAim
\* ignores a drawn bow, so after a draw during which the key came up the bow still aims, and
\* can be drawn again; UserTick must not be what takes the aim up.)
AimNeedsAimKey ==
    [][bow'[SelfBow].aiming /\ ~bow[SelfBow].aiming => "aim" \in keys' /\ ~user.dead]_vars

----------------------------------------------------------------------------
(* The inductive invariant behind the safety properties. *)

\* While the player lives the bow is his, and one that is not drawn holds no arrow: every
\* release of a character with a camera gives the arrow away.
HandsSound == ~user.dead => /\ ~user.destroyed
                            /\ bow[SelfBow].owner = Self
                            /\ bow[SelfBow].prepared # NoArrow => bow[SelfBow].charging

UserInv == /\ UserTypeOK
           /\ DrawNeedsShootKey
           /\ Self \in CanSight => NoArrowStranded /\ HandsSound

----------------------------------------------------------------------------
(* Liveness. *)

\* Whatever the player does with the keys, and also if he dies, a draw ends.
BowLetsGo == bow[SelfBow].charging ~> ~bow[SelfBow].charging

\* A stale BowState heals while the player lives: an undrawn bow that aims shows "Aim"
\* again after a shot ("Idle", Bow.cpp:163) or a draw without an arrow ("Charging", :155),
\* unless it is drawn or lowered first.
AimStateHeals ==
    bow[SelfBow].aiming /\ ~bow[SelfBow].charging ~>
        \/ bow[SelfBow].state = "Aim"
        \/ bow[SelfBow].charging
        \/ ~bow[SelfBow].aiming
        \/ user.destroyed
=============================================================================
