------------------------- MODULE AICharacterProofs -------------------------
(***************************************************************************)
(* Proofs about AICharacter.tla: the stages of an attack, its timers and   *)
(* the bow agree, and every arrow leaves at top speed, for every delay and *)
(* every length of the frames that fit together (DelaysFit).               *)
(***************************************************************************)
EXTENDS AICharacter, BowProofs

AIRecord == [dead : BOOLEAN, destroyed : BOOLEAN, canAttack : BOOLEAN, target : BOOLEAN]

\* The invariant, conjunct by conjunct.
LEMMA AIFacts ==
    ASSUME AIInv
    PROVE  /\ TypeOK /\ ai \in AIRecord
           /\ timer \in [Timers -> Int \cup {Off}]
           /\ player \in {"near", "far", "absent"}
           /\ bow[SelfBow] \in BowRecord
           /\ DelaysFit => AliveSound /\ StagesAgree /\ NoneStranded /\ ShotsAreFull
BY SelfAssumption
   DEF AIInv, AITypeOK, AIRecord, TypeOK, NoArrowStranded, NoneStranded

LEMMA AIInitInv == AIInit => AIInv
<1> SUFFICES ASSUME AIInit PROVE AIInv
  OBVIOUS
<1> DEFINE held == [NewBow EXCEPT !.owner = Self]
<1>1. /\ NewBow \in BowRecord /\ held \in BowRecord /\ NoFlight \in ArrowRecord
      /\ ~held.charging /\ held.owner = Self /\ held.prepared = NoArrow
      /\ NoFlight.phase = "none"
  BY SpeedAssumption, SelfAssumption DEF NewBow, NoFlight, BowRecord, ArrowRecord, EBowState
<1> HIDE DEF held
<1>2. /\ bow = [b \in Bow |-> IF b = SelfBow THEN held ELSE NewBow]
      /\ arrow = [a \in Arrow |-> NoFlight]
      /\ bow[SelfBow] = held
  BY SelfAssumption DEF AIInit, held
<1>3. TypeOK
  BY <1>1, <1>2 DEF TypeOK
<1>4. NoArrowStranded /\ ShotsAreFull
  BY <1>1, <1>2 DEF NoArrowStranded, ShotsAreFull
<1>5. timer \in [Timers -> Int \cup {Off}] /\ \A n \in CycleTimers \cup {"destroy"} : timer[n] = Off
  BY TimerAssumption DEF AIInit, Timers, CycleTimers
<1>6. AITypeOK
  BY <1>3, <1>5 DEF AIInit, AITypeOK
<1>7. StagesAgree /\ AliveSound
  <2>1. ~ai.dead /\ ~ai.destroyed /\ ai.canAttack
    BY DEF AIInit
  <2>2. AtRest
    BY <1>1, <1>2, <1>5, <2>1 DEF AtRest, Armed
  <2>3. AliveSound
    BY <1>1, <1>2, <1>5, <2>1 DEF AliveSound, Armed
  <2> QED
    BY <2>2, <2>3 DEF StagesAgree
<1> QED
  BY <1>4, <1>6, <1>7 DEF AIInv

----------------------------------------------------------------------------
(* The bow in the hands of an AI. *)

\* What an operation that does not draw keeps: it strands no arrow, and an arrow it
\* looses is at top speed.
BowKept == /\ NoneStranded => NoneStranded'
           /\ ShotsAreFull => ShotsAreFull'

LEMMA BowRests ==
    ASSUME TypeOK, UNCHANGED bowVars
    PROVE  TypeOK' /\ BowKept
BY DEF bowVars, TypeOK, BowKept, NoneStranded, ShotsAreFull

LEMMA BowAims ==
    ASSUME TypeOK, StartAim(SelfBow)
    PROVE  TypeOK' /\ BowKept
BY AimCall, SelfAssumption DEF BowKept, ShotsAreFull

LEMMA BowDraws ==
    ASSUME TypeOK, StartDraw(SelfBow)
    PROVE  /\ TypeOK'
           /\ NoneStranded /\ bow[SelfBow].prepared = NoArrow => NoneStranded'
           /\ ShotsAreFull => ShotsAreFull'
BY DrawCall, SelfAssumption DEF ShotsAreFull

LEMMA BowReleases ==
    ASSUME TypeOK, EndDraw(SelfBow), bow[SelfBow].chargeTime >= MaxChargeTime
    PROVE  TypeOK' /\ BowKept
<1>1. bow[SelfBow].chargeTime \in Nat
  BY SelfAssumption DEF TypeOK, BowRecord
<1>2. SpeedAt(bow[SelfBow].chargeTime) = MaxArrowSpeed
  BY <1>1, FullSpeed
<1> QED
  BY <1>2, EndCall, SelfAssumption DEF BowKept, ShotsAreFull

LEMMA BowTicks ==
    ASSUME TypeOK, NEW dt \in FrameTimes, Tick(SelfBow, dt), MaxChargeTime <= AutoReleaseTime
    PROVE  TypeOK' /\ BowKept
<1> DEFINE t == bow[SelfBow].chargeTime + dt
<1>1. t \in Nat
  BY TimeAssumption, SelfAssumption DEF TypeOK, BowRecord
<1> HIDE DEF t
<1>2. t >= AutoReleaseTime => t >= MaxChargeTime
  BY <1>1, TimeAssumption
<1>3. t >= AutoReleaseTime => SpeedAt(t) = MaxArrowSpeed
  BY <1>1, <1>2, FullSpeed
<1> QED
  BY <1>3, TickCall, SelfAssumption DEF BowKept, ShotsAreFull, t

----------------------------------------------------------------------------
(* The steps. *)

LEMMA Combined ==
    ASSUME TypeOK', ai' \in AIRecord, timer' \in [Timers -> Int \cup {Off}],
           player' \in {"near", "far", "absent"},
           DelaysFit => AliveSound' /\ StagesAgree' /\ NoneStranded' /\ ShotsAreFull'
    PROVE  AIInv'
BY DEF AIInv, AITypeOK, AIRecord, NoArrowStranded, NoneStranded

\* A living AI whose cycle timer n is set is at that stage, and at no other.
LEMMA StageOf ==
    ASSUME AIInv, DelaysFit, ~ai.dead, NEW n \in CycleTimers, timer[n] # Off
    PROVE  AtStage(n)
BY AIFacts DEF StagesAgree, AtRest, AtStage, Armed

\* Anything that happens to a dead AI leaves the living's invariants alone.
LEMMA DeadStep ==
    ASSUME ai.dead, ai'.dead
    PROVE  AliveSound' /\ StagesAgree'
BY DEF AliveSound, StagesAgree

LEMMA FrameInv ==
    ASSUME AIInv, NEW dt \in FrameTimes, Frame(dt)
    PROVE  AIInv'
<1> DEFINE w == bow[SelfBow]
<1>0. /\ TypeOK /\ ai \in AIRecord /\ timer \in [Timers -> Int \cup {Off}]
      /\ player \in {"near", "far", "absent"} /\ w \in BowRecord
      /\ DelaysFit => AliveSound /\ StagesAgree /\ NoneStranded /\ ShotsAreFull
  BY AIFacts
<1>1. /\ UNCHANGED <<ai, player>>
      /\ timer' = [n \in Timers |-> IF timer[n] = Off THEN Off ELSE timer[n] - dt]
      /\ \A n \in Timers : timer[n] = Off \/ ~(timer[n] <= 0)
      /\ w.charging => Tick(SelfBow, dt)
      /\ ~w.charging => UNCHANGED bowVars
  BY DEF Frame, Due
<1>2. dt \in Nat \ {0} /\ Off \notin Int
  BY TimeAssumption, TimerAssumption
<1>3. /\ timer' \in [Timers -> Int \cup {Off}]
      /\ \A n \in Timers : timer'[n] = Off <=> timer[n] = Off
      /\ \A n \in Timers : timer[n] # Off => timer'[n] = timer[n] - dt
  <2>1. \A n \in Timers : timer[n] # Off => timer[n] \in Int /\ timer[n] - dt \in Int
    BY <1>0, <1>2
  <2>2. \A n \in Timers : timer'[n] = IF timer[n] = Off THEN Off ELSE timer[n] - dt
    BY <1>1
  <2>3. \A n \in Timers : timer'[n] \in Int \cup {Off}
    BY <2>1, <2>2
  <2>4. timer' = [n \in Timers |-> timer'[n]]
    BY <1>1
  <2>5. timer' \in [Timers -> Int \cup {Off}]
    BY <2>3, <2>4
  <2> QED
    BY <1>2, <2>1, <2>2, <2>5
<1>4. TypeOK'
  BY <1>0, <1>1, BowRests, TickCall, SelfAssumption
<1>5. ASSUME DelaysFit PROVE AliveSound' /\ StagesAgree' /\ NoneStranded' /\ ShotsAreFull'
  <2>1. NoneStranded' /\ ShotsAreFull'
    BY <1>0, <1>1, <1>5, BowRests, BowTicks DEF DelaysFit, BowKept
  <2>2. CASE ai.dead
    BY <1>1, <2>1, <2>2, DeadStep
  <2>3. CASE ~ai.dead /\ ~w.charging
    <3>1. bow'[SelfBow] = w /\ ai' = ai
      BY <1>1, <2>3 DEF bowVars
    <3>2. /\ \A n \in CycleTimers \cup {"destroy"} : timer'[n] = Off <=> timer[n] = Off
          /\ CycleTimers \subseteq Timers
      BY <1>3 DEF Timers, CycleTimers
    <3>3. AliveSound'
      BY <1>0, <1>5, <2>3, <3>1, <3>2 DEF AliveSound, Armed
    <3>4. StagesAgree'
      BY <1>0, <1>5, <2>3, <3>1, <3>2 DEF StagesAgree, AtRest, AtStage, Armed
    <3> QED
      BY <2>1, <3>3, <3>4
  <2>4. CASE ~ai.dead /\ w.charging
    <3>1. AtStage("fire")
      BY <1>0, <1>5, <2>4 DEF StagesAgree, AtRest, AtStage, CycleTimers
    <3>2. /\ timer["fire"] \in Int /\ ~(timer["fire"] <= 0)
          /\ w.chargeTime + timer["fire"] = FireDelay
          /\ timer'["fire"] = timer["fire"] - dt
          /\ w.chargeTime \in Nat
      BY <1>0, <1>1, <1>3, <3>1 DEF AtStage, Armed, Timers, CycleTimers, BowRecord
    <3>3. w.chargeTime + dt < AutoReleaseTime
      BY <1>2, <1>5, <3>2, TimeAssumption, TimerAssumption DEF DelaysFit
    <3>4. /\ OnlyBow(SelfBow) /\ bow'[SelfBow].charging
          /\ bow'[SelfBow].chargeTime = w.chargeTime + dt
      BY <1>0, <1>1, <2>4, <3>3, TickCall, SelfAssumption
    <3>5. bow'[SelfBow].chargeTime + timer'["fire"] = FireDelay
      <4> HIDE DEF w
      <4> QED
        BY <1>2, <3>2, <3>4
    <3>6. /\ \A n \in CycleTimers \cup {"destroy"} : timer'[n] = Off <=> timer[n] = Off
          /\ ai' = ai
      BY <1>1, <1>3 DEF Timers, CycleTimers
    <3>7. AtStage("fire")'
      BY <3>1, <3>4, <3>5, <3>6 DEF AtStage, Armed, CycleTimers
    <3>8. StagesAgree'
      BY <3>7 DEF StagesAgree, CycleTimers
    <3>9. AliveSound'
      BY <1>0, <1>5, <2>4, <3>4, <3>6 DEF AliveSound, Armed, OnlyBow
    <3> QED
      BY <2>1, <3>8, <3>9
  <2> QED
    BY <2>2, <2>3, <2>4
<1> QED
  BY <1>0, <1>1, <1>3, <1>4, <1>5, Combined

\* What a timer that fires says of its own time.
LEMMA FiresFacts ==
    ASSUME AIInv, NEW n \in Timers, Fires(n)
    PROVE  timer[n] # Off /\ timer[n] \in Int /\ timer[n] <= 0
BY AIFacts DEF Fires, Due

LEMMA AttackInv ==
    ASSUME AIInv, TryAttackTarget
    PROVE  AIInv'
<1> DEFINE w == bow[SelfBow]
           search == ~ai.dead /\ ai.canAttack
           begin == search /\ SearchForTarget
<1>0. /\ TypeOK /\ ai \in AIRecord /\ timer \in [Timers -> Int \cup {Off}]
      /\ player \in {"near", "far", "absent"} /\ w \in BowRecord
      /\ DelaysFit => AliveSound /\ StagesAgree /\ NoneStranded /\ ShotsAreFull
  BY AIFacts
<1>1. /\ ai' = [ai EXCEPT !.target = IF search THEN SearchForTarget ELSE @,
                          !.canAttack = @ /\ ~begin]
      /\ timer' = [timer EXCEPT !["attack"] = @ + AttackInterval,
                                !["draw"] = IF begin THEN DrawDelay ELSE @]
      /\ begin => StartAim(SelfBow)
      /\ ~begin => UNCHANGED bowVars
      /\ player' = player
  BY DEF TryAttackTarget
<1>2. timer["attack"] \in Int /\ "attack" \in Timers /\ Off \notin Int
      /\ AttackInterval \in Int /\ DrawDelay \in Int
  BY FiresFacts, TimerAssumption DEF TryAttackTarget, Timers
<1>3. SearchForTarget \in BOOLEAN
  BY <1>0 DEF SearchForTarget, AIRecord
<1>4. /\ ai' \in AIRecord /\ ai'.dead = ai.dead /\ ai'.destroyed = ai.destroyed
      /\ ai'.canAttack = (ai.canAttack /\ ~begin)
  BY <1>0, <1>1, <1>3 DEF AIRecord
<1>5. /\ timer' \in [Timers -> Int \cup {Off}]
      /\ \A n \in {"fire", "cooldown", "destroy"} : timer'[n] = timer[n]
      /\ timer'["draw"] = IF begin THEN DrawDelay ELSE timer["draw"]
  BY <1>0, <1>1, <1>2 DEF Timers, CycleTimers
<1> HIDE DEF begin, search
<1>6. TypeOK' /\ BowKept
  BY <1>0, <1>1, BowAims, BowRests
<1>7. ASSUME DelaysFit PROVE AliveSound' /\ StagesAgree' /\ NoneStranded' /\ ShotsAreFull'
  <2>0. NoneStranded' /\ ShotsAreFull'
    BY <1>0, <1>6, <1>7 DEF BowKept
  <2>1. CASE ai.dead
    BY <1>4, <2>0, <2>1, DeadStep
  <2>2. CASE ~ai.dead /\ ~begin
    <3>1. /\ bow'[SelfBow] = w /\ ai'.canAttack = ai.canAttack
          /\ \A n \in CycleTimers \cup {"destroy"} : timer'[n] = timer[n]
      <4>1. bow'[SelfBow] = w
        BY <1>1, <2>2 DEF bowVars
      <4>2. ai'.canAttack = ai.canAttack
        BY <1>0, <1>4, <2>2 DEF AIRecord
      <4>3. \A n \in CycleTimers \cup {"destroy"} : timer'[n] = timer[n]
        BY <1>5, <2>2 DEF CycleTimers
      <4> QED
        BY <4>1, <4>2, <4>3
    <3>2. AliveSound'
      BY <1>0, <1>4, <1>7, <2>2, <3>1 DEF AliveSound, Armed
    <3>3. StagesAgree'
      BY <1>0, <1>4, <1>7, <2>2, <3>1 DEF StagesAgree, AtRest, AtStage, Armed, CycleTimers
    <3> QED
      BY <2>0, <3>2, <3>3
  <2>3. CASE ~ai.dead /\ begin
    <3>1. AtRest
      BY <1>0, <1>7, <2>3 DEF StagesAgree, AtStage, begin, search
    <3>2. /\ OnlyBow(SelfBow) /\ bow'[SelfBow].aiming /\ ~bow'[SelfBow].charging
          /\ bow'[SelfBow].prepared = w.prepared
      BY <1>0, <1>1, <2>3, <3>1, AimCall, SelfAssumption DEF AtRest
    <3>3. timer'["draw"] # Off /\ ~ai'.canAttack
      BY <1>2, <1>4, <1>5, <2>3
    <3>4. AtStage("draw")'
      BY <1>5, <3>1, <3>2, <3>3 DEF AtRest, AtStage, Armed, CycleTimers
    <3>5. AliveSound'
      BY <1>0, <1>4, <1>5, <1>7, <2>3, <3>1, <3>2 DEF AliveSound, Armed, OnlyBow, AtRest
    <3> QED
      BY <2>0, <3>4, <3>5 DEF StagesAgree, CycleTimers
  <2> QED
    BY <2>1, <2>2, <2>3
<1> QED
  BY <1>0, <1>1, <1>4, <1>5, <1>6, <1>7, Combined

LEMMA DrawInv ==
    ASSUME AIInv, BeginAIDraw
    PROVE  AIInv'
<1> DEFINE w == bow[SelfBow]
<1>0. /\ TypeOK /\ ai \in AIRecord /\ timer \in [Timers -> Int \cup {Off}]
      /\ player \in {"near", "far", "absent"} /\ w \in BowRecord
      /\ DelaysFit => AliveSound /\ StagesAgree /\ NoneStranded /\ ShotsAreFull
  BY AIFacts
<1>1. /\ timer' = [timer EXCEPT !["draw"] = Off, !["fire"] = IF ai.dead THEN @ ELSE FireDelay]
      /\ ~ai.dead /\ CanDraw(SelfBow) => StartDraw(SelfBow)
      /\ ~(~ai.dead /\ CanDraw(SelfBow)) => UNCHANGED bowVars
      /\ UNCHANGED <<ai, player>>
  BY DEF BeginAIDraw
<1>2. timer["draw"] # Off /\ Off \notin Int /\ FireDelay \in Nat \ {0}
  BY FiresFacts, TimerAssumption DEF BeginAIDraw, Timers, CycleTimers
<1>3. /\ timer' \in [Timers -> Int \cup {Off}]
      /\ \A n \in {"cooldown", "destroy"} : timer'[n] = timer[n]
      /\ timer'["draw"] = Off
      /\ ~ai.dead => timer'["fire"] = FireDelay
  BY <1>0, <1>1, <1>2 DEF Timers, CycleTimers
<1>4. TypeOK'
  BY <1>0, <1>1, BowDraws, BowRests
<1>5. ASSUME DelaysFit PROVE AliveSound' /\ StagesAgree' /\ NoneStranded' /\ ShotsAreFull'
  <2>1. CASE ai.dead
    BY <1>0, <1>1, <1>5, <2>1, DeadStep, BowRests DEF BowKept
  <2>2. CASE ~ai.dead
    <3>1. AtStage("draw")
      BY <1>2, <1>5, <2>2, StageOf DEF CycleTimers
    <3>2. CanDraw(SelfBow) /\ w.prepared = NoArrow
      BY <1>0, <1>5, <2>2, <3>1 DEF AliveSound, AtStage, CanDraw, DelaysFit
    <3>3. /\ OnlyBow(SelfBow) /\ bow'[SelfBow].charging /\ bow'[SelfBow].chargeTime = 0
          /\ NoneStranded' /\ ShotsAreFull'
      BY <1>0, <1>1, <1>5, <2>2, <3>2, DrawCall, BowDraws, SelfAssumption
    <3>4. bow'[SelfBow].chargeTime + timer'["fire"] = FireDelay
      BY <1>2, <1>3, <2>2, <3>3
    <3>5. timer'["fire"] # Off
      BY <1>2, <1>3, <2>2
    <3>6. AtStage("fire")'
      BY <1>1, <1>3, <3>1, <3>3, <3>4, <3>5 DEF AtStage, Armed, CycleTimers
    <3>7. AliveSound'
      BY <1>0, <1>1, <1>3, <1>5, <2>2, <3>3 DEF AliveSound, Armed, OnlyBow
    <3> QED
      BY <3>3, <3>6, <3>7 DEF StagesAgree, CycleTimers
  <2> QED
    BY <2>1, <2>2
<1> QED
  BY <1>0, <1>1, <1>3, <1>4, <1>5, Combined

LEMMA FireInv ==
    ASSUME AIInv, EndAIDrawAndFire
    PROVE  AIInv'
<1> DEFINE w == bow[SelfBow]
<1>0. /\ TypeOK /\ ai \in AIRecord /\ timer \in [Timers -> Int \cup {Off}]
      /\ player \in {"near", "far", "absent"} /\ w \in BowRecord
      /\ DelaysFit => AliveSound /\ StagesAgree /\ NoneStranded /\ ShotsAreFull
  BY AIFacts
<1>1. /\ timer' = [timer EXCEPT !["fire"] = Off,
                                !["cooldown"] = IF ai.dead THEN @ ELSE CooldownDelay]
      /\ ~ai.dead /\ w.charging => EndDraw(SelfBow)
      /\ ~(~ai.dead /\ w.charging) => UNCHANGED bowVars
      /\ UNCHANGED <<ai, player>>
  BY DEF EndAIDrawAndFire
<1>2. /\ timer["fire"] # Off /\ timer["fire"] \in Int /\ timer["fire"] <= 0
      /\ Off \notin Int /\ CooldownDelay \in Int
  BY FiresFacts, TimerAssumption DEF EndAIDrawAndFire, Timers, CycleTimers
<1>3. /\ timer' \in [Timers -> Int \cup {Off}]
      /\ \A n \in {"draw", "destroy"} : timer'[n] = timer[n]
      /\ timer'["fire"] = Off
      /\ ~ai.dead => timer'["cooldown"] = CooldownDelay
  BY <1>0, <1>1, <1>2 DEF Timers, CycleTimers
<1>4. TypeOK'
  BY <1>0, <1>1, EndCall, BowRests, SelfAssumption
<1>5. ASSUME DelaysFit PROVE AliveSound' /\ StagesAgree' /\ NoneStranded' /\ ShotsAreFull'
  <2>1. CASE ai.dead
    BY <1>0, <1>1, <1>5, <2>1, DeadStep, BowRests DEF BowKept
  <2>2. CASE ~ai.dead
    <3>1. AtStage("fire")
      BY <1>2, <1>5, <2>2, StageOf DEF CycleTimers
    <3>2. w.charging /\ w.chargeTime + timer["fire"] = FireDelay /\ w.chargeTime \in Nat
      BY <1>0, <3>1 DEF AtStage, BowRecord
    <3>3. w.chargeTime >= MaxChargeTime
      <4> DEFINE t == w.chargeTime
      <4> HIDE DEF t
      <4>1. t + timer["fire"] = FireDelay /\ t \in Nat
        BY <3>2 DEF t
      <4>2. MaxChargeTime <= FireDelay /\ MaxChargeTime \in Nat /\ FireDelay \in Nat
        BY <1>5, TimeAssumption, TimerAssumption DEF DelaysFit
      <4>3. t >= MaxChargeTime
        BY <1>2, <4>1, <4>2
      <4> QED
        BY <4>3 DEF t
    <3>4. CanFire(SelfBow)
      BY <1>0, <1>5, <2>2 DEF AliveSound, CanFire, DelaysFit
    <3>5. /\ OnlyBow(SelfBow) /\ ~bow'[SelfBow].charging /\ bow'[SelfBow].prepared = NoArrow
          /\ NoneStranded' /\ ShotsAreFull'
      BY <1>0, <1>1, <1>5, <2>2, <3>2, <3>3, <3>4, EndCall, BowReleases, SelfAssumption
         DEF BowKept
    <3>6. timer'["cooldown"] # Off
      BY <1>2, <1>3, <2>2
    <3>7. AtStage("cooldown")'
      BY <1>1, <1>3, <3>1, <3>5, <3>6 DEF AtStage, Armed, CycleTimers
    <3>8. AliveSound'
      BY <1>0, <1>1, <1>3, <1>5, <2>2, <3>5 DEF AliveSound, Armed, OnlyBow
    <3> QED
      BY <3>5, <3>7, <3>8 DEF StagesAgree, CycleTimers
  <2> QED
    BY <2>1, <2>2
<1> QED
  BY <1>0, <1>1, <1>3, <1>4, <1>5, Combined

LEMMA CooldownInv ==
    ASSUME AIInv, ResetAttackCooldown
    PROVE  AIInv'
<1>0. /\ TypeOK /\ ai \in AIRecord /\ timer \in [Timers -> Int \cup {Off}]
      /\ player \in {"near", "far", "absent"}
      /\ DelaysFit => AliveSound /\ StagesAgree /\ NoneStranded /\ ShotsAreFull
  BY AIFacts
<1>1. /\ timer' = [timer EXCEPT !["cooldown"] = Off]
      /\ ai' = [ai EXCEPT !.canAttack = TRUE]
      /\ UNCHANGED bowVars /\ player' = player
      /\ timer["cooldown"] # Off
  BY FiresFacts DEF ResetAttackCooldown, bowVars, Timers, CycleTimers
<1>2. TypeOK' /\ BowKept
  BY <1>0, <1>1, BowRests
<1>3. /\ timer' \in [Timers -> Int \cup {Off}]
      /\ \A n \in {"draw", "fire", "destroy"} : timer'[n] = timer[n]
      /\ timer'["cooldown"] = Off
  BY <1>0, <1>1 DEF Timers, CycleTimers
<1>4. ai' \in AIRecord /\ ai'.canAttack /\ ai'.dead = ai.dead /\ ai'.destroyed = ai.destroyed
  BY <1>0, <1>1 DEF AIRecord
<1>5. ASSUME DelaysFit PROVE AliveSound' /\ StagesAgree' /\ NoneStranded' /\ ShotsAreFull'
  <2>1. CASE ai.dead
    BY <1>0, <1>2, <1>4, <1>5, <2>1, DeadStep DEF BowKept
  <2>2. CASE ~ai.dead
    <3>1. AtStage("cooldown")
      BY <1>1, <1>5, <2>2, StageOf DEF CycleTimers
    <3>2. AtRest'
      BY <1>1, <1>3, <1>4, <3>1 DEF AtStage, AtRest, Armed, CycleTimers, bowVars
    <3>3. AliveSound'
      BY <1>0, <1>1, <1>3, <1>4, <1>5, <2>2 DEF AliveSound, Armed, bowVars
    <3> QED
      BY <1>0, <1>2, <1>5, <3>2, <3>3 DEF StagesAgree, BowKept
  <2> QED
    BY <2>1, <2>2
<1> QED
  BY <1>0, <1>1, <1>2, <1>3, <1>4, <1>5, Combined

\* The steps of the death and of the environment.
LEMMA DieInv ==
    ASSUME AIInv, Die \/ DestroySelf
    PROVE  AIInv'
<1>0. /\ TypeOK /\ ai \in AIRecord /\ timer \in [Timers -> Int \cup {Off}]
      /\ player \in {"near", "far", "absent"}
      /\ DelaysFit => AliveSound /\ StagesAgree /\ NoneStranded /\ ShotsAreFull
  BY AIFacts
<1>1. UNCHANGED bowVars /\ player' = player
  BY DEF Die, DestroySelf, bowVars
<1>2. TypeOK' /\ BowKept
  BY <1>0, <1>1, BowRests
<1>3. ai' \in AIRecord
  BY <1>0 DEF Die, DestroySelf, AIRecord
<1>4. timer' \in [Timers -> Int \cup {Off}]
  BY <1>0, TimerAssumption DEF Die, DestroySelf, Timers, CycleTimers
<1>5. ASSUME DelaysFit PROVE ai'.dead
  <2>1. CASE Die
    BY <1>0, <2>1 DEF Die, AIRecord
  <2>2. CASE DestroySelf
    <3>1. timer["destroy"] # Off
      BY <2>2, FiresFacts DEF DestroySelf, Timers, CycleTimers
    <3> QED
      BY <1>0, <1>5, <2>2, <3>1 DEF DestroySelf, AliveSound, Armed, AIRecord
  <2> QED
    BY <2>1, <2>2
<1>6. DelaysFit => AliveSound' /\ StagesAgree'
  BY <1>5 DEF AliveSound, StagesAgree
<1> QED
  BY <1>0, <1>1, <1>2, <1>3, <1>4, <1>6, Combined DEF BowKept

LEMMA OutsideInv ==
    ASSUME AIInv, PlayerMoves \/ ArrowLeaves \/ UNCHANGED vars
    PROVE  AIInv'
<1>0. /\ TypeOK /\ ai \in AIRecord /\ timer \in [Timers -> Int \cup {Off}]
      /\ player \in {"near", "far", "absent"}
      /\ DelaysFit => AliveSound /\ StagesAgree /\ NoneStranded /\ ShotsAreFull
  BY AIFacts
<1>1. UNCHANGED <<ai, timer, bow>> /\ player' \in {"near", "far", "absent"}
  BY <1>0 DEF PlayerMoves, ArrowLeaves, ArrowGone, vars
<1>2. TypeOK' /\ BowKept
  <2>1. ASSUME NEW a \in Arrow, ArrowGone(a) PROVE TypeOK' /\ BowKept
    BY <1>0, <2>1, GoneCall DEF BowKept, ShotsAreFull
  <2>2. CASE UNCHANGED bowVars
    BY <1>0, <2>2, BowRests
  <2> QED
    BY <2>1, <2>2 DEF PlayerMoves, ArrowLeaves, vars, bowVars
<1>3. DelaysFit => AliveSound' /\ StagesAgree'
  BY <1>0, <1>1 DEF AliveSound, StagesAgree, AtRest, AtStage, Armed
<1> QED
  BY <1>0, <1>1, <1>2, <1>3, Combined DEF BowKept

LEMMA CollectInv ==
    ASSUME AIInv, CollectGarbage
    PROVE  AIInv'
<1> DEFINE w == bow[SelfBow]
<1>0. /\ TypeOK /\ ai \in AIRecord /\ timer \in [Timers -> Int \cup {Off}]
      /\ player \in {"near", "far", "absent"}
      /\ DelaysFit => AliveSound /\ StagesAgree /\ NoneStranded /\ ShotsAreFull
  BY AIFacts
<1>1. /\ IF ai.destroyed THEN Collected(Self) ELSE UNCHANGED bowVars
      /\ ai' = [ai EXCEPT !.target = @ /\ player # "absent"]
      /\ UNCHANGED <<timer, player>>
  BY DEF CollectGarbage
<1>3. /\ TypeOK'
      /\ bow'[SelfBow].charging = w.charging /\ bow'[SelfBow].chargeTime = w.chargeTime
      /\ bow'[SelfBow].aiming = w.aiming /\ bow'[SelfBow].prepared = w.prepared
      /\ ~ai.destroyed => bow'[SelfBow] = w
      /\ NoneStranded => NoneStranded'
      /\ \A a \in Arrow : arrow'[a].phase = arrow[a].phase /\ arrow'[a].speed = arrow[a].speed
  <2>1. CASE ai.destroyed
    BY <1>0, <1>1, <2>1, CollectedKeeps, CollectedCall, SelfAssumption
  <2>2. CASE ~ai.destroyed
    BY <1>0, <1>1, <2>2, BowRests DEF bowVars, BowKept
  <2> QED
    BY <2>1, <2>2
<1>4. /\ ai' \in AIRecord /\ ai'.dead = ai.dead /\ ai'.destroyed = ai.destroyed
      /\ ai'.canAttack = ai.canAttack
  BY <1>0, <1>1 DEF AIRecord
<1>5. DelaysFit => AliveSound'
  BY <1>0, <1>1, <1>3, <1>4 DEF AliveSound, Armed
<1>6. DelaysFit => StagesAgree'
  BY <1>0, <1>1, <1>3, <1>4 DEF StagesAgree, AtRest, AtStage, Armed
<1>7. ShotsAreFull => ShotsAreFull'
  BY <1>3 DEF ShotsAreFull
<1> QED
  BY <1>0, <1>1, <1>3, <1>4, <1>5, <1>6, <1>7, Combined

LEMMA AINextInv == AIInv /\ [AINext]_vars => AIInv'
BY FrameInv, AttackInv, DrawInv, FireInv, CooldownInv, DieInv, OutsideInv, CollectInv
   DEF AINext, TimerFires

\* What keeps the AI's timers, its flags and its bow together.
THEOREM AIInvariance == AISpec => []AIInv
<1>1. AIInit => AIInv
  BY AIInitInv
<1>2. AIInv /\ [AINext]_vars => AIInv'
  BY AINextInv
<1> QED
  BY <1>1, <1>2, PTL DEF AISpec

----------------------------------------------------------------------------
(* What the invariant says. *)

\* Types, without any condition on the delays.
THEOREM AITypeCorrect == AISpec => []AITypeOK
<1>1. AIInv => AITypeOK
  BY DEF AIInv
<1> QED
  BY <1>1, AIInvariance, PTL

\* The stages of the attack cycle, for all delays that fit (AICharacter.cpp:138-180).
THEOREM AttackStagesAgree ==
    ASSUME DelaysFit
    PROVE  AISpec => []StagesAgree
<1>1. AIInv => StagesAgree
  BY DEF AIInv
<1> QED
  BY <1>1, AIInvariance, PTL

\* No draw over an arrow the AI still holds.
THEOREM AIStrandsNone ==
    ASSUME DelaysFit
    PROVE  AISpec => []NoArrowStranded
<1>1. AIInv => NoArrowStranded
  BY DEF AIInv
<1> QED
  BY <1>1, AIInvariance, PTL

\* Every arrow of an AI leaves at top speed.
THEOREM AIShotsFull ==
    ASSUME DelaysFit
    PROVE  AISpec => []ShotsAreFull
<1>1. AIInv => ShotsAreFull
  BY DEF AIInv
<1> QED
  BY <1>1, AIInvariance, PTL

\* A dead AI's timers neither aim, lower nor draw the bow, and it shoots at most the arrow it
\* died with.
THEOREM DeadTimersIdle == AISpec => DeadStartsNothing
<1> DEFINE w == bow[SelfBow]
           Idle == /\ bow'[SelfBow].charging => w.charging
                   /\ bow'[SelfBow].aiming = w.aiming
                   /\ bow'[SelfBow].prepared \in {w.prepared, NoArrow}
           Last(a) == w.charging /\ w.prepared = a /\ ~bow'[SelfBow].charging
           LastOnly == \A a \in Arrow :
                         arrow'[a].phase = "loosed" /\ arrow[a].phase # "loosed" => Last(a)
<1>1. ASSUME AIInv, AINext, ai.dead PROVE Idle /\ LastOnly
  <2>0. TypeOK /\ ai \in AIRecord
    BY <1>1, AIFacts
  <2>1. CASE UNCHANGED bowVars
    BY <2>1 DEF bowVars
  <2>2. ASSUME NEW dt \in FrameTimes, Tick(SelfBow, dt) PROVE Idle /\ LastOnly
    <3>1. Idle
      BY <2>0, <2>2, TickCall, SelfAssumption
    <3>2. LastOnly
      BY <2>0, <2>2, LooseCall, SelfAssumption
    <3> QED
      BY <3>1, <3>2
  <2>3. CASE CollectGarbage
    <3>1. CASE Collected(Self)
      BY <2>0, <3>1, CollectedKeeps, SelfAssumption
    <3> QED
      BY <2>1, <2>3, <3>1 DEF CollectGarbage
  <2>4. CASE ArrowLeaves
    BY <2>0, <2>4, GoneCall DEF ArrowLeaves
  <2> HIDE DEF Idle, LastOnly
  <2> QED
    BY <1>1, <2>1, <2>2, <2>3, <2>4
       DEF AINext, TimerFires, Frame, TryAttackTarget, BeginAIDraw, EndAIDrawAndFire,
           ResetAttackCooldown, DestroySelf, Die, PlayerMoves, bowVars
<1>2. AIInv /\ [AINext]_vars => [ai.dead => Idle /\ LastOnly]_vars
  BY <1>1
<1>3. [ai.dead => Idle /\ LastOnly]_vars =>
        [ai.dead =>
           /\ bow'[SelfBow].charging => bow[SelfBow].charging
           /\ bow'[SelfBow].aiming = bow[SelfBow].aiming
           /\ bow'[SelfBow].prepared \in {bow[SelfBow].prepared, NoArrow}
           /\ \A a \in Arrow : arrow'[a].phase = "loosed" /\ arrow[a].phase # "loosed" =>
                /\ bow[SelfBow].charging /\ bow[SelfBow].prepared = a
                /\ ~bow'[SelfBow].charging]_vars
  OBVIOUS
<1> QED
  BY <1>2, <1>3, AIInvariance, PTL DEF AISpec, DeadStartsNothing

----------------------------------------------------------------------------
(* An AI's bow is a bow: what holds of bows in general holds of its. *)

LEMMA AIInitBow == AIInit => Init
<1> SUFFICES ASSUME AIInit PROVE Init
  OBVIOUS
<1> DEFINE BowOf(c) == [NewBow EXCEPT !.owner = c]
           Hands == {BowOf(c) : c \in Character \cup {NoCharacter}}
<1>1. NewBow = BowOf(NoCharacter)
  BY NewIsUnowned
<1>2. NewBow \in Hands
  BY <1>1
<1>3. BowOf(Self) \in Hands
  BY SelfAssumption
<1> HIDE DEF Hands
<1>4. bow \in [Bow -> Hands]
  BY <1>2, <1>3 DEF AIInit
<1> QED
  BY <1>4 DEF AIInit, Init, Hands

\* Frames, timers, death and garbage collection reach the bow only through its operations.
LEMMA AIStepBow == [AINext]_vars => [Next]_bowVars
<1> SUFFICES ASSUME [AINext]_vars PROVE Next \/ UNCHANGED bowVars
  OBVIOUS
<1>1. CASE \/ StartAim(SelfBow) \/ StartDraw(SelfBow) \/ EndDraw(SelfBow)
           \/ \E dt \in FrameTimes : Tick(SelfBow, dt)
           \/ \E a \in Arrow : ArrowGone(a)
           \/ Collected(Self)
  BY <1>1, SelfAssumption DEF Next
<1> QED
  BY <1>1, Zenon
     DEF AINext, TimerFires, Frame, TryAttackTarget, BeginAIDraw, EndAIDrawAndFire,
         ResetAttackCooldown, DestroySelf, Die, PlayerMoves, CollectGarbage, ArrowLeaves,
         bowVars, vars

\* An AI's bow, seen by itself, is a bow of Bow.tla.
THEOREM AIBowIsABow == AISpec => Spec
BY AIInitBow, AIStepBow, PTL DEF AISpec, Spec

\* So its arrows are its own, its draws end in time and its arrows fly as fast as they were
\* drawn, also after the death that leaves the bow drawn (AICharacter.cpp:83), whatever the
\* AI's delays.
THEOREM AIBowSound == AISpec => []BowInv
BY AIBowIsABow, Invariance, PTL

\* And it keeps the draw cycle, the shot after the AI's death included.
THEOREM AIDrawCycle == AISpec => ImplementsDrawCycle
BY AIBowIsABow, Refinement, PTL
=============================================================================
