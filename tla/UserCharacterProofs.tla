------------------------ MODULE UserCharacterProofs ------------------------
(***************************************************************************)
(* Proofs about UserCharacter.tla: the bow is drawn, and from the first    *)
(* aim on the camera turns, only while the player holds the key, for any   *)
(* number of bows, arrows and characters and every value of the tuning     *)
(* constants.                                                              *)
(***************************************************************************)
EXTENDS UserCharacter, BowProofs

LEMMA UserInitInv == UserInit => UserInv
<1> SUFFICES ASSUME UserInit PROVE UserInv
  OBVIOUS
<1> DEFINE held == [NewBow EXCEPT !.owner = Self]
<1>1. /\ NewBow \in BowRecord /\ held \in BowRecord /\ NoFlight \in ArrowRecord
      /\ ~NewBow.charging /\ ~held.charging /\ held.owner = Self /\ held.prepared = NoArrow
      /\ NoFlight.phase = "none"
  BY SpeedAssumption, SelfAssumption DEF NewBow, NoFlight, BowRecord, ArrowRecord, EBowState
<1> HIDE DEF held
<1>2. /\ bow = [b \in Bow |-> IF b = SelfBow THEN held ELSE NewBow]
      /\ arrow = [a \in Arrow |-> NoFlight]
      /\ bow[SelfBow] = held
  BY SelfAssumption DEF UserInit, held
<1>3. TypeOK
  BY <1>1, <1>2 DEF TypeOK
<1>4. NoArrowStranded
  BY <1>1, <1>2 DEF NoArrowStranded
<1> QED
  BY <1>1, <1>2, <1>3, <1>4
     DEF UserInit, UserInv, UserTypeOK, DrawNeedsShootKey, HandsSound

\* What of the bow UserInv needs to be kept.
BowKept == /\ bow'[SelfBow].charging => bow[SelfBow].charging
           /\ bow'[SelfBow].owner = bow[SelfBow].owner
           /\ NoArrowStranded => NoArrowStranded'
           /\ Self \in CanSight /\ HandsSound /\ ~user.dead =>
                (bow'[SelfBow].prepared # NoArrow => bow'[SelfBow].charging)

\* Operations that do not draw the bow.
LEMMA BowCalls ==
    ASSUME UserInv,
           \/ UNCHANGED bowVars
           \/ StartAim(SelfBow)
           \/ StopAim(SelfBow)
           \/ EndDraw(SelfBow)
           \/ \E dt \in FrameTimes : Tick(SelfBow, dt)
           \/ \E a \in Arrow : ArrowGone(a)
    PROVE  TypeOK' /\ BowKept
<1>0. /\ TypeOK
      /\ Self \in CanSight /\ HandsSound /\ ~user.dead =>
            CanFire(SelfBow) /\ (bow[SelfBow].prepared # NoArrow => bow[SelfBow].charging)
  BY DEF UserInv, UserTypeOK, HandsSound, CanFire
<1>1. CASE UNCHANGED bowVars
  BY <1>0, <1>1 DEF bowVars, TypeOK, BowKept, NoArrowStranded
<1>2. CASE StartAim(SelfBow) \/ StopAim(SelfBow)
  BY <1>0, <1>2, AimCall, SelfAssumption DEF BowKept, NoArrowStranded, NoneStranded, OnlyBow
<1>3. CASE EndDraw(SelfBow)
  <2>1. bow[SelfBow].charging
    BY <1>3 DEF EndDraw
  <2> QED
    BY <1>0, <1>3, <2>1, EndCall, SelfAssumption
       DEF BowKept, NoArrowStranded, NoneStranded, OnlyBow
<1>4. ASSUME NEW dt \in FrameTimes, Tick(SelfBow, dt) PROVE TypeOK' /\ BowKept
  BY <1>0, <1>4, TickCall, SelfAssumption DEF BowKept, NoArrowStranded, NoneStranded, OnlyBow
<1>5. ASSUME NEW a \in Arrow, ArrowGone(a) PROVE TypeOK' /\ BowKept
  BY <1>0, <1>5, GoneCall DEF BowKept, NoArrowStranded, NoneStranded
<1> QED
  BY <1>1, <1>2, <1>3, <1>4, <1>5

\* A step that keeps the bow, and brings no one back, keeps the rest with its keys.
LEMMA KeptInv ==
    ASSUME UserInv, UserTypeOK', BowKept, DrawNeedsShootKey',
           ~user'.dead => ~user.dead /\ user'.destroyed = user.destroyed
    PROVE  UserInv'
BY DEF UserInv, BowKept, HandsSound

UserRecord == [dead : BOOLEAN, destroyed : BOOLEAN, canMove : BOOLEAN,
               rolling : BOOLEAN, speed : {"Normal", "Walk"}, yaw : BOOLEAN]

\* What StartAiming, StopAiming and the other handlers of keys do to the character.
LEMMA AimKeysInv ==
    ASSUME UserInv, StartAiming \/ StopAiming
    PROVE  UserInv'
<1>0. user \in UserRecord /\ keys \subseteq Keys
  BY DEF UserInv, UserTypeOK, UserRecord
<1>1. TypeOK' /\ BowKept
  BY BowCalls DEF StartAiming, StopAiming, Call
<1>2. /\ user' \in UserRecord
      /\ user'.dead = user.dead /\ user'.destroyed = user.destroyed
  BY <1>0 DEF StartAiming, StopAiming, Down, InputOn, UserRecord
<1>3. keys' \subseteq Keys /\ ("shoot" \in keys => "shoot" \in keys')
  BY <1>0 DEF StartAiming, StopAiming, Down, Up, Keys
<1>4. UserTypeOK'
  BY <1>1, <1>2, <1>3 DEF UserTypeOK, UserRecord, Keys
<1>5. DrawNeedsShootKey'
  BY <1>1, <1>2, <1>3 DEF UserInv, DrawNeedsShootKey, BowKept
<1> QED
  BY <1>1, <1>2, <1>4, <1>5, KeptInv

LEMMA DrawKeyInv ==
    ASSUME UserInv, StartCharging
    PROVE  UserInv'
<1>0. user \in UserRecord /\ keys \subseteq Keys /\ TypeOK
  BY DEF UserInv, UserTypeOK, UserRecord
<1>1. /\ user' = user /\ keys' \subseteq Keys
      /\ "shoot" \in keys'
  BY <1>0 DEF StartCharging, Down, Keys
<1>2. CASE UNCHANGED bowVars
  <2>1. TypeOK' /\ BowKept
    BY <1>2, BowCalls
  <2> QED
    BY <1>0, <1>1, <2>1, KeptInv
       DEF UserInv, UserTypeOK, UserRecord, DrawNeedsShootKey
<1>3. CASE InputOn /\ CanDraw(SelfBow) /\ StartDraw(SelfBow)
  <2>0. ~bow[SelfBow].charging \/ "shoot" \in keys
    BY <1>3 DEF UserInv, DrawNeedsShootKey, InputOn
  <2>1. ~bow[SelfBow].charging
    BY <2>0 DEF StartCharging, Down
  <2>2. /\ TypeOK' /\ OnlyBow(SelfBow) /\ bow'[SelfBow].charging
        /\ NoneStranded /\ bow[SelfBow].prepared = NoArrow => NoneStranded'
    BY <1>0, <1>3, DrawCall, SelfAssumption
  <2>3. Self \in CanSight => NoArrowStranded' /\ HandsSound'
    <3> SUFFICES ASSUME Self \in CanSight PROVE NoArrowStranded' /\ HandsSound'
      OBVIOUS
    <3>1. HandsSound /\ NoneStranded /\ bow[SelfBow].prepared = NoArrow
      BY <1>3, <2>1 DEF UserInv, HandsSound, InputOn, NoArrowStranded, NoneStranded
    <3> QED
      BY <1>1, <2>2, <3>1 DEF HandsSound, NoArrowStranded, NoneStranded, OnlyBow
  <2> QED
    BY <1>0, <1>1, <2>2, <2>3
       DEF UserInv, UserTypeOK, UserRecord, DrawNeedsShootKey
<1> QED
  BY <1>2, <1>3 DEF StartCharging, Call

LEMMA ReleaseKeyInv ==
    ASSUME UserInv, ReleaseArrow
    PROVE  UserInv'
<1>0. user \in UserRecord /\ keys \subseteq Keys /\ TypeOK
  BY DEF UserInv, UserTypeOK, UserRecord
<1>1. user' = user /\ keys' \subseteq Keys
  BY <1>0 DEF ReleaseArrow, Up, Keys
<1>2. TypeOK' /\ BowKept
  BY BowCalls DEF ReleaseArrow, Call
<1>3. ~user.dead => ~bow'[SelfBow].charging
  <2>1. CASE EndDraw(SelfBow)
    BY <1>0, <2>1, EndCall, SelfAssumption
  <2>2. CASE ~user.dead /\ UNCHANGED bowVars /\ ~bow[SelfBow].charging
    BY <2>2 DEF bowVars
  <2> QED
    BY <2>1, <2>2 DEF ReleaseArrow, Call, InputOn
<1> QED
  BY <1>0, <1>1, <1>2, <1>3, KeptInv
     DEF UserInv, UserTypeOK, UserRecord, DrawNeedsShootKey

\* Walking, rolling, the animations and death touch the character's own fields only.
LEMMA BodyInv ==
    ASSUME UserInv,
           \/ OnWalkSlowStarted \/ OnWalkSlowEnded \/ Roll \/ OnRollEnd \/ SetCanMove
           \/ Die \/ DestroySelf
    PROVE  UserInv'
<1>0. user \in UserRecord /\ keys \subseteq Keys
  BY DEF UserInv, UserTypeOK, UserRecord
<1>1. UNCHANGED bowVars
  BY DEF OnWalkSlowStarted, OnWalkSlowEnded, Roll, OnRollEnd, SetCanMove, Die, DestroySelf,
         bowVars
<1>2. TypeOK' /\ BowKept
  BY <1>1, BowCalls
<1>3. /\ user' \in UserRecord
      /\ ~user'.dead => ~user.dead /\ user'.destroyed = user.destroyed
  BY <1>0 DEF OnWalkSlowStarted, OnWalkSlowEnded, Roll, OnRollEnd, SetCanMove, Die, DestroySelf,
              UserRecord
<1>4. /\ keys' \subseteq Keys
      /\ "shoot" \in keys => "shoot" \in keys'
  BY <1>0 DEF OnWalkSlowStarted, OnWalkSlowEnded, Roll, OnRollEnd, SetCanMove, Die, DestroySelf,
              Down, Up, Keys
<1>5. UserTypeOK'
  BY <1>2, <1>3, <1>4 DEF UserTypeOK, UserRecord, Keys
<1> QED
  BY <1>2, <1>3, <1>4, <1>5, KeptInv DEF UserInv, DrawNeedsShootKey, BowKept

LEMMA FrameInv ==
    ASSUME UserInv, UserTick \/ BowTick \/ ArrowLeaves \/ UNCHANGED vars
    PROVE  UserInv'
<1>1. TypeOK' /\ BowKept /\ UNCHANGED <<user, keys>>
  BY BowCalls DEF UserTick, BowTick, ArrowLeaves, vars, bowVars
<1> QED
  BY <1>1, KeptInv DEF UserInv, UserTypeOK, DrawNeedsShootKey, BowKept

LEMMA CollectInv ==
    ASSUME UserInv, CollectGarbage
    PROVE  UserInv'
<1>0. TypeOK
  BY DEF UserInv, UserTypeOK
<1>1. Collected(Self) /\ UNCHANGED <<user, keys>> /\ user.destroyed
  BY DEF CollectGarbage
<1>2. TypeOK' /\ bow'[SelfBow].charging = bow[SelfBow].charging /\ (NoneStranded => NoneStranded')
  BY <1>0, <1>1, CollectedKeeps, CollectedCall, SelfAssumption
<1>3. Self \in CanSight => user.dead
  BY <1>1 DEF UserInv, HandsSound
<1> QED
  BY <1>1, <1>2, <1>3 DEF UserInv, UserTypeOK, DrawNeedsShootKey, HandsSound,
                          NoArrowStranded, NoneStranded

LEMMA UserNextInv == UserInv /\ [UserNext]_vars => UserInv'
BY AimKeysInv, DrawKeyInv, ReleaseKeyInv, BodyInv, FrameInv, CollectInv DEF UserNext, Handlers

\* What keeps the bow in the player's hands.
THEOREM UserInvariance == UserSpec => []UserInv
<1>1. UserInit => UserInv
  BY UserInitInv
<1>2. UserInv /\ [UserNext]_vars => UserInv'
  BY UserNextInv
<1> QED
  BY <1>1, <1>2, PTL DEF UserSpec

----------------------------------------------------------------------------
(* What the invariant says. *)

\* Types.
THEOREM UserTypeCorrect == UserSpec => []UserTypeOK
<1>1. UserInv => UserTypeOK
  BY DEF UserInv
<1> QED
  BY <1>1, UserInvariance, PTL

\* Once the camera is in the player's hand, every step leaves it there.
LEMMA CameraStep ==
    ASSUME UserInv, YawNeedsAimKey, [UserNext]_vars
    PROVE  YawNeedsAimKey'
<1>0. user \in UserRecord
  BY DEF UserInv, UserTypeOK, UserRecord
<1>1. CASE StartAiming
  BY <1>1 DEF StartAiming, Down, YawNeedsAimKey
<1>2. CASE StopAiming
  BY <1>0, <1>2 DEF StopAiming, InputOn, YawNeedsAimKey, UserRecord
<1>3. CASE ~StartAiming /\ ~StopAiming
  <2>1. user'.yaw = user.yaw /\ (~user'.dead => ~user.dead) /\ ("aim" \in keys => "aim" \in keys')
    BY <1>0, <1>3 DEF UserNext, Handlers, StartCharging, ReleaseArrow, OnWalkSlowStarted,
       OnWalkSlowEnded, Roll, OnRollEnd, SetCanMove, UserTick, BowTick, Die, DestroySelf,
       CollectGarbage, ArrowLeaves, Down, Up, UserRecord, vars
  <2> QED
    BY <2>1 DEF YawNeedsAimKey
<1> QED
  BY <1>1, <1>2, <1>3

\* From the first time the aim key is down, the camera turns a living player's character only
\* while it is down (StartAiming, StopAiming).
THEOREM CameraInHand == UserSpec => CameraLetsGo
<1>1. "aim" \in keys => YawNeedsAimKey
  BY DEF YawNeedsAimKey
<1>2. UserInv /\ YawNeedsAimKey /\ [UserNext]_vars => YawNeedsAimKey'
  BY CameraStep
<1> QED
  BY <1>1, <1>2, UserInvariance, PTL DEF UserSpec, CameraLetsGo

\* A living player's bow is drawn only with the shoot key down.
THEOREM DrawInHand == UserSpec => []DrawNeedsShootKey
<1>1. UserInv => DrawNeedsShootKey
  BY DEF UserInv
<1> QED
  BY <1>1, UserInvariance, PTL

\* A player who has a camera never draws over an arrow.
THEOREM PlayerStrandsNone ==
    ASSUME Self \in CanSight
    PROVE  UserSpec => []NoArrowStranded
<1>1. UserInv => NoArrowStranded
  BY DEF UserInv
<1> QED
  BY <1>1, UserInvariance, PTL

\* The aim is taken up by the aim key alone.
THEOREM AimInHand == UserSpec => AimNeedsAimKey
<1>1. ASSUME UserInv, [UserNext]_vars, bow'[SelfBow].aiming, ~bow[SelfBow].aiming
      PROVE  "aim" \in keys' /\ ~user.dead
  <2>0. TypeOK
    BY <1>1 DEF UserInv, UserTypeOK
  <2>1. ASSUME StopAim(SelfBow) PROVE FALSE
    BY <1>1, <2>0, <2>1, AimCall, SelfAssumption
  <2>2. ASSUME EndDraw(SelfBow) PROVE FALSE
    BY <1>1, <2>0, <2>2, EndCall, SelfAssumption
  <2>3. ASSUME StartDraw(SelfBow) PROVE FALSE
    BY <1>1, <2>0, <2>3, DrawCall, SelfAssumption
  <2>4. ASSUME NEW dt \in FrameTimes, Tick(SelfBow, dt) PROVE FALSE
    BY <1>1, <2>0, <2>4, TickCall, SelfAssumption
  <2>5. ASSUME NEW a \in Arrow, ArrowGone(a) PROVE FALSE
    BY <1>1, <2>0, <2>5, GoneCall
  <2>6. ASSUME CollectGarbage PROVE FALSE
    BY <1>1, <2>0, <2>6, CollectedKeeps, SelfAssumption DEF CollectGarbage
  <2>7. CASE StartAiming
    BY <1>1, <2>7 DEF StartAiming, Down, Call, InputOn, bowVars
  <2>8. CASE bow' = bow
    BY <1>1, <2>8
  <2>9. CASE UserTick
    BY <1>1, <2>9 DEF UserTick
  <2> QED
    BY <1>1, <2>1, <2>2, <2>3, <2>4, <2>5, <2>6, <2>7, <2>8, <2>9
       DEF UserNext, Handlers, StopAiming, StartCharging, ReleaseArrow, Call, OnWalkSlowStarted,
           OnWalkSlowEnded, Roll, OnRollEnd, SetCanMove, BowTick, Die, DestroySelf, ArrowLeaves,
           bowVars, vars
<1>2. UserInv /\ [UserNext]_vars =>
        [bow'[SelfBow].aiming /\ ~bow[SelfBow].aiming => "aim" \in keys' /\ ~user.dead]_vars
  BY <1>1
<1> QED
  BY <1>2, UserInvariance, PTL DEF UserSpec, AimNeedsAimKey

----------------------------------------------------------------------------
(* A player's bow is a bow: what holds of bows in general holds of his. *)

LEMMA UserInitBow == UserInit => Init
<1> SUFFICES ASSUME UserInit PROVE Init
  OBVIOUS
<1> DEFINE BowOf(c) == [NewBow EXCEPT !.owner = c]
           Hands == {BowOf(c) : c \in Character \cup {NoCharacter}}
<1>1. NewBow = BowOf(NoCharacter)
  BY NewIsUnowned
<1>2. NewBow \in Hands
  BY <1>1
<1>3. BowOf(Self) \in Hands
  BY SelfAssumption
<1> HIDE DEF Hands
<1>4. bow \in [Bow -> Hands]
  BY <1>2, <1>3 DEF UserInit
<1> QED
  BY <1>4 DEF UserInit, Init, Hands

\* Keys, frames, death and garbage collection reach the bow only through its operations.
LEMMA UserStepBow == [UserNext]_vars => [Next]_bowVars
<1> SUFFICES ASSUME [UserNext]_vars PROVE Next \/ UNCHANGED bowVars
  OBVIOUS
<1>1. CASE \/ StartAim(SelfBow) \/ StopAim(SelfBow) \/ StartDraw(SelfBow) \/ EndDraw(SelfBow)
           \/ \E dt \in FrameTimes : Tick(SelfBow, dt)
           \/ \E a \in Arrow : ArrowGone(a)
           \/ Collected(Self)
  BY <1>1, SelfAssumption DEF Next
<1> QED
  BY <1>1, Zenon
     DEF UserNext, Handlers, StartAiming, StopAiming, StartCharging, ReleaseArrow, Call,
         OnWalkSlowStarted, OnWalkSlowEnded, Roll, OnRollEnd, SetCanMove, UserTick, BowTick, Die,
         DestroySelf, CollectGarbage, ArrowLeaves, bowVars, vars

\* A player's bow, seen by itself, is a bow of Bow.tla.
THEOREM UserBowIsABow == UserSpec => Spec
BY UserInitBow, UserStepBow, PTL DEF UserSpec, Spec

\* So its arrows are its own, its draws end in time and its arrows fly as fast as they were
\* drawn, also when the player dies with a drawn bow and is removed (UserCharacter.cpp:168).
THEOREM UserBowSound == UserSpec => []BowInv
BY UserBowIsABow, Invariance, PTL

\* And it keeps the draw cycle: no key, roll, death or collection makes it loose an arrow that
\* no draw put on it.
THEOREM UserDrawCycle == UserSpec => ImplementsDrawCycle
BY UserBowIsABow, Refinement, PTL
=============================================================================
