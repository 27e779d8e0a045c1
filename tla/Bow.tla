-------------------------------- MODULE Bow --------------------------------
(***************************************************************************)
(* The bow on the authority: ABow (Weapon/Bow.cpp) with the part of        *)
(* AWeapon (Weapon/Weapon.cpp) that ties it to a character.                *)
(*                                                                         *)
(* The game thread runs one handler at a time, and a Server RPC called     *)
(* where the actor has authority runs in place, so StartDraw and EndDraw   *)
(* are their _Implementation here.  Whoever holds the bow may call its     *)
(* public operations in any order; AICharacter and UserCharacter narrow    *)
(* the callers to the program's own.  A call that the code returns from    *)
(* early leaves the state alone.                                           *)
(*                                                                         *)
(* An arrow is an identity: "none" (not spawned, or destroyed and free to  *)
(* be spawned again), "nocked" (spawned by a draw, collision and movement  *)
(* off) or "loosed" (detached, flying or stuck).  `age` is an auxiliary    *)
(* field: the time its bow ticked while drawing it.                        *)
(***************************************************************************)
EXTENDS Integers, FiniteSets

CONSTANTS
    Bow, Arrow, Character,  \* actors of the three kinds
    NoArrow, NoCharacter,   \* the null pointers
    HasArrowClass,          \* bows whose ArrowProjectileClass is set
    HasArrowSocket,         \* characters whose mesh has an Arrow_Socket
    CanSight,               \* characters that are AI controlled or have a camera
    MaxChargeTime,          \* draw time that gives full power
    AutoReleaseTime,        \* draw time after which the bow lets go
    MinArrowSpeed, MaxArrowSpeed,
    FrameTimes,             \* the frame lengths DeltaTime may take
    SpawnCanFail            \* whether SpawnActor may return null

ASSUME NullAssumption == NoArrow \notin Arrow /\ NoCharacter \notin Character
ASSUME AssetAssumption == /\ HasArrowClass \subseteq Bow
                          /\ HasArrowSocket \subseteq Character
                          /\ CanSight \subseteq Character
ASSUME TimeAssumption == /\ MaxChargeTime \in Nat \ {0}
                         /\ AutoReleaseTime \in Nat \ {0}
                         /\ FrameTimes \subseteq Nat \ {0}
ASSUME SpawnAssumption == SpawnCanFail \in BOOLEAN
ASSUME SpeedAssumption == /\ MinArrowSpeed \in Nat
                          /\ MaxArrowSpeed \in Nat
                          /\ MinArrowSpeed <= MaxArrowSpeed

VARIABLES
    bow,    \* Bow -> the fields of ABow
    arrow   \* Arrow -> the arrow's phase, its owner and what it left with

bowVars == <<bow, arrow>>

EBowState == {"Idle", "Aim", "Charging"}

BowRecord == [owner      : Character \cup {NoCharacter},
              aiming     : BOOLEAN,
              charging   : BOOLEAN,
              chargeTime : Nat,
              state      : EBowState,
              prepared   : Arrow \cup {NoArrow}]

ArrowRecord == [phase   : {"none", "nocked", "loosed"},
                shooter : Character \cup {NoCharacter},
                age     : Nat,
                speed   : {0} \cup (MinArrowSpeed .. MaxArrowSpeed)]

NewBow == [owner |-> NoCharacter, aiming |-> FALSE, charging |-> FALSE,
           chargeTime |-> 0, state |-> "Idle", prepared |-> NoArrow]

NoFlight == [phase |-> "none", shooter |-> NoCharacter, age |-> 0, speed |-> 0]

TypeOK == /\ bow \in [Bow -> BowRecord]
          /\ arrow \in [Arrow -> ArrowRecord]

\* Bows as they are made, and equipped already or not.
Init == /\ bow \in [Bow -> {[NewBow EXCEPT !.owner = c] : c \in Character \cup {NoCharacter}}]
        /\ arrow = [a \in Arrow |-> NoFlight]

----------------------------------------------------------------------------
(* The owner pointer. *)

OnEquip(b, c) == /\ bow' = [bow EXCEPT ![b].owner = c]
                 /\ UNCHANGED arrow

OnUnequip(b) == /\ bow' = [bow EXCEPT ![b].owner = NoCharacter]
                /\ UNCHANGED arrow

\* The garbage collector: pointers to a destroyed character become null.
Collected(c) ==
    /\ bow' = [b \in Bow |-> [bow[b] EXCEPT !.owner = IF @ = c THEN NoCharacter ELSE @]]
    /\ arrow' = [a \in Arrow |-> [arrow[a] EXCEPT !.shooter = IF @ = c THEN NoCharacter ELSE @]]

----------------------------------------------------------------------------
(* Aiming: both calls are ignored while the bow is drawn. *)

StartAim(b) ==
    /\ bow' = [bow EXCEPT ![b] =
                 IF @.charging THEN @
                 ELSE [@ EXCEPT !.aiming = TRUE, !.state = "Aim"]]
    /\ UNCHANGED arrow

\* Mutant: an aim may be lowered in the middle of a draw.
StopAimAnyTime(b) ==
    /\ bow' = [bow EXCEPT ![b].aiming = FALSE, ![b].state = "Idle"]
    /\ UNCHANGED arrow

StopAim(b) ==
    /\ bow' = [bow EXCEPT ![b] =
                 IF @.charging THEN @
                 ELSE [@ EXCEPT !.aiming = FALSE, !.state = "Idle"]]
    /\ UNCHANGED arrow

----------------------------------------------------------------------------
(* Drawing. *)

CanDraw(b) == /\ bow[b].aiming
              /\ bow[b].owner \in HasArrowSocket
              /\ b \in HasArrowClass

\* Mutant: the charge clock is not reset by a draw.
DrawnOnOldClock(w, a) == [w EXCEPT !.charging = TRUE, !.state = "Charging", !.prepared = a]

Drawn(w, a) == [w EXCEPT !.charging = TRUE, !.chargeTime = 0,
                         !.state = "Charging", !.prepared = a]

\* A draw overwrites PreparedArrow, whatever it pointed to.
Nock(b, a) ==
    /\ CanDraw(b)
    /\ arrow[a].phase = "none"
    /\ bow' = [bow EXCEPT ![b] = Drawn(@, a)]
    /\ arrow' = [arrow EXCEPT ![a] = [phase |-> "nocked", age |-> 0, speed |-> 0,
                                      shooter |-> bow[b].owner]]

\* SpawnActor returned null: the bow is drawn with no arrow on it.
NockFails(b) ==
    /\ SpawnCanFail
    /\ CanDraw(b)
    /\ bow' = [bow EXCEPT ![b] = Drawn(@, NoArrow)]
    /\ UNCHANGED arrow

StartDraw(b) == NockFails(b) \/ \E a \in Arrow : Nock(b, a)

----------------------------------------------------------------------------
(* Releasing. *)

\* Mutant: the charge is not clamped.
SpeedUnclamped(t) ==
    MinArrowSpeed + ((MaxArrowSpeed - MinArrowSpeed) * t) \div MaxChargeTime

\* Lerp(MinArrowSpeed, MaxArrowSpeed, Clamp(t / MaxChargeTime, 0, 1))
SpeedAt(t) ==
    LET full == IF t < MaxChargeTime THEN t ELSE MaxChargeTime
    IN  MinArrowSpeed + ((MaxArrowSpeed - MinArrowSpeed) * full) \div MaxChargeTime

CanFire(b) == bow[b].owner \in CanSight

\* Mutant: FireArrow keeps its pointer to the arrow it looses.
LetAndKeep(w, t) ==
    IF w.prepared = NoArrow
    THEN [w EXCEPT !.charging = FALSE, !.chargeTime = t]
    ELSE [w EXCEPT !.charging = FALSE, !.chargeTime = 0, !.state = "Idle"]

\* Mutant: the state is reset by FireArrow, and so not when FireArrow returns early.
LetStateLast(w, t) ==
    IF w.prepared = NoArrow
    THEN [w EXCEPT !.charging = FALSE, !.chargeTime = t]
    ELSE IF w.owner \in CanSight
    THEN [w EXCEPT !.charging = FALSE, !.chargeTime = 0, !.state = "Idle", !.prepared = NoArrow]
    ELSE [w EXCEPT !.charging = FALSE, !.chargeTime = 0]

Let(w, t) ==
    IF w.prepared = NoArrow
    THEN [w EXCEPT !.charging = FALSE, !.chargeTime = t]
    ELSE [w EXCEPT !.charging = FALSE, !.chargeTime = 0, !.state = "Idle",
                   !.prepared = IF w.owner \in CanSight THEN NoArrow ELSE @]

\* Mutant: FireArrow asks an AI for a camera too, and returns early.
ReleaseNeedsCamera(b, t, aged) ==
    /\ bow' = [bow EXCEPT ![b] = [@ EXCEPT !.charging = FALSE, !.chargeTime = 0, !.state = "Idle"]]
    /\ arrow' = aged

\* ServerEndDraw with t on the charge clock, FireArrow included; `aged` are the
\* arrows as the frame leaves them before the release.
Release(b, t, aged) ==
    /\ bow' = [bow EXCEPT ![b] = Let(@, t)]
    /\ arrow' = IF CanFire(b) /\ bow[b].prepared # NoArrow
                THEN [aged EXCEPT ![bow[b].prepared].phase = "loosed",
                                  ![bow[b].prepared].speed = SpeedAt(t)]
                ELSE aged

\* Mutant: a release is accepted from a bow that is not drawn.
EndDrawUndrawn(b) == Release(b, bow[b].chargeTime, arrow)

EndDraw(b) == /\ bow[b].charging
              /\ Release(b, bow[b].chargeTime, arrow)

----------------------------------------------------------------------------
(* The frame: a drawn bow charges, and lets go by itself in the end. *)

Aged(b, dt) == IF bow[b].prepared = NoArrow THEN arrow
               ELSE [arrow EXCEPT ![bow[b].prepared].age = @ + dt]

\* Mutant: the automatic release comes one comparison too late.
TickPastRelease(b, dt) ==
    LET t == bow[b].chargeTime + dt
    IN  /\ bow[b].charging
        /\ IF t > AutoReleaseTime
           THEN Release(b, t, Aged(b, dt))
           ELSE /\ bow' = [bow EXCEPT ![b].chargeTime = t]
                /\ arrow' = Aged(b, dt)

\* Mutant: no automatic release, the clock stops at the end.
TickHolds(b, dt) ==
    /\ bow[b].charging
    /\ bow[b].chargeTime < AutoReleaseTime
    /\ bow' = [bow EXCEPT ![b].chargeTime = @ + dt]
    /\ arrow' = Aged(b, dt)

Tick(b, dt) ==
    LET t == bow[b].chargeTime + dt
    IN  /\ bow[b].charging
        /\ IF t >= AutoReleaseTime
           THEN Release(b, t, Aged(b, dt))
           ELSE /\ bow' = [bow EXCEPT ![b].chargeTime = t]
                /\ arrow' = Aged(b, dt)

\* A loosed arrow is destroyed, or nothing refers to it any more.
ArrowGone(a) == /\ arrow[a].phase = "loosed"
                /\ arrow' = [arrow EXCEPT ![a] = NoFlight]
                /\ UNCHANGED bow

----------------------------------------------------------------------------
Next == \/ \E b \in Bow : \/ \E c \in Character : OnEquip(b, c)
                          \/ OnUnequip(b)
                          \/ StartAim(b)
                          \/ StopAim(b)
                          \/ StartDraw(b)
                          \/ EndDraw(b)
                          \/ \E dt \in FrameTimes : Tick(b, dt)
        \/ \E a \in Arrow : ArrowGone(a)
        \/ \E c \in Character : Collected(c)

Spec == Init /\ [][Next]_bowVars

----------------------------------------------------------------------------
(* Safety. *)

\* A drawn bow is always an aiming bow: StopAim cannot lower a bow that
\* ServerStartDraw let draw only because it was aiming, whatever was called in
\* between (Bow.cpp:50-57 against :78).
ChargingIsAiming == \A b \in Bow : bow[b].charging => bow[b].aiming

\* PreparedArrow is a nocked arrow, never one in flight, and no two bows share
\* one: FireArrow forgets the arrow it looses (Bow.cpp:286), so a later draw or
\* release cannot act on an arrow that is already away.
HeldArrowIsOurs ==
    \A b \in Bow : bow[b].prepared # NoArrow =>
        /\ arrow[bow[b].prepared].phase = "nocked"
        /\ \A d \in Bow \ {b} : bow[d].prepared # bow[b].prepared

\* No frame ends with an arrow drawn for AutoReleaseTime or more: the automatic
\* release (Bow.cpp:170-176) cannot be put off by the length of a frame.
DrawIsBounded ==
    \A b \in Bow : bow[b].charging => bow[b].chargeTime < AutoReleaseTime

\* An arrow leaves with the speed of the time its own draw lasted: no time of an
\* earlier draw, of a draw that had no arrow or of a release that failed is ever
\* added to it (Bow.cpp:97, :158-162), and none is lost in the frame that lets go.
SpeedIsEarned ==
    \A a \in Arrow : arrow[a].phase = "loosed" => arrow[a].speed = SpeedAt(arrow[a].age)

\* The replicated BowState can be trusted for a bow that holds an arrow: "Charging"
\* exactly while it is drawn.  (Without an arrow it cannot: ServerEndDraw returns at
\* Bow.cpp:152-156 before it resets the state.)
StateAgrees ==
    \A b \in Bow :
        /\ bow[b].charging => bow[b].state = "Charging"
        /\ bow[b].prepared # NoArrow /\ bow[b].state = "Charging" => bow[b].charging

\* The charge clock of a drawn bow is the age of the draw of the arrow on it; a
\* clock left running by a release without an arrow (Bow.cpp:152-156) is not.
ClockIsAge ==
    \A b \in Bow : bow[b].charging /\ bow[b].prepared # NoArrow =>
        arrow[bow[b].prepared].age = bow[b].chargeTime

\* The inductive invariant behind the properties above.
BowInv == /\ TypeOK
          /\ ChargingIsAiming
          /\ HeldArrowIsOurs
          /\ DrawIsBounded
          /\ ClockIsAge
          /\ SpeedIsEarned
          /\ StateAgrees

----------------------------------------------------------------------------
(* What the bow promises, abstractly (DrawCycle.tla). *)

DC == INSTANCE DrawCycle WITH
        drawing <- {b \in Bow : bow[b].charging},
        held    <- [b \in Bow |-> bow[b].prepared],
        away    <- {a \in Arrow : arrow[a].phase = "loosed"}

\* Every behaviour of the bow, whatever the order of calls, is one of the draw
\* cycle: an arrow is loosed only by ending a draw of the bow that holds it, once,
\* and it leaves a bow in no other way than that or a new draw.
ImplementsDrawCycle == DC!Spec
=============================================================================
