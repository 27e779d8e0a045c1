----------------------------- MODULE BowProofs -----------------------------
(***************************************************************************)
(* Proofs about Bow.tla, for every set of bows, arrows and characters and  *)
(* every value of the tuning constants.                                    *)
(***************************************************************************)
EXTENDS Bow, TLAPS

----------------------------------------------------------------------------
(* The speed of a shot. *)

\* Dividing a multiple of a part by the whole gives at most the multiple.
LEMMA PartOfWhole ==
    ASSUME NEW d \in Nat, NEW m \in Nat \ {0}, NEW x \in 0 .. m
    PROVE  (d * x) \div m \in 0 .. d
<1> DEFINE q == (d * x) \div m
<1>1. d * x \in Nat /\ d * x <= d * m
  OBVIOUS
<1>2. q \in Int /\ m * q <= d * x /\ d * x < m * q + m
  BY <1>1
<1>3. q >= 0
  BY <1>1, <1>2
<1>4. q <= d
  BY <1>1, <1>2
<1> QED
  BY <1>2, <1>3, <1>4

\* Whatever the charge, a shot is never slower than MinArrowSpeed nor faster than
\* MaxArrowSpeed (the clamp of Bow.cpp:158 and the Lerp of :226).
THEOREM SpeedAtRange ==
    ASSUME NEW t \in Nat
    PROVE  SpeedAt(t) \in MinArrowSpeed .. MaxArrowSpeed
<1> DEFINE full == IF t < MaxChargeTime THEN t ELSE MaxChargeTime
           d == MaxArrowSpeed - MinArrowSpeed
<1>1. full \in 0 .. MaxChargeTime
  BY TimeAssumption
<1>2. d \in Nat
  BY SpeedAssumption
<1>3. (d * full) \div MaxChargeTime \in 0 .. d
  BY <1>1, <1>2, PartOfWhole, TimeAssumption
<1> QED
  BY <1>2, <1>3, SpeedAssumption DEF SpeedAt

\* A full charge gives top speed.
LEMMA FullSpeed ==
    ASSUME NEW t \in Nat, t >= MaxChargeTime
    PROVE  SpeedAt(t) = MaxArrowSpeed
<1> DEFINE d == MaxArrowSpeed - MinArrowSpeed
           m == MaxChargeTime
           q == (d * m) \div m
<1>1. d \in Nat /\ m \in Nat \ {0}
  BY SpeedAssumption, TimeAssumption
<1>2. q \in 0 .. d
  BY <1>1, PartOfWhole
<1>3. SpeedAt(t) = MinArrowSpeed + q
  BY <1>1 DEF SpeedAt
<1>4. q >= d
  <2>1. d * m \in Nat /\ d * m < m * q + m
    BY <1>1, <1>2
  <2> HIDE DEF q, d, m
  <2>2. CASE q + 1 <= d
    <3>1. m * (q + 1) <= m * d
      BY <1>1, <1>2, <2>2
    <3> QED
      BY <1>1, <1>2, <2>1, <3>1
  <2> QED
    BY <1>1, <1>2, <2>2
<1> HIDE DEF q
<1>5. q = d
  BY <1>1, <1>2, <1>4
<1> QED
  BY <1>3, <1>5, SpeedAssumption

----------------------------------------------------------------------------
(* Types. *)

\* A new bow is nobody's.
LEMMA NewIsUnowned == NewBow = [NewBow EXCEPT !.owner = NoCharacter]
<1>1. ASSUME NEW w, w = [NewBow EXCEPT !.owner = NoCharacter] PROVE w = NewBow
  BY <1>1 DEF NewBow
<1> QED
  BY <1>1

\* A bow at first: in somebody's hands or nobody's, and undrawn.
LEMMA AtFirst ==
    ASSUME Init
    PROVE  /\ \A b \in Bow : /\ bow[b] \in BowRecord
                             /\ ~bow[b].charging /\ ~bow[b].aiming
                             /\ bow[b].state = "Idle" /\ bow[b].prepared = NoArrow
           /\ \A a \in Arrow : arrow[a] \in ArrowRecord /\ arrow[a].phase = "none"
           /\ TypeOK
<1>1. ASSUME NEW b \in Bow
      PROVE  /\ bow[b] \in BowRecord
             /\ ~bow[b].charging /\ ~bow[b].aiming
             /\ bow[b].state = "Idle" /\ bow[b].prepared = NoArrow
  <2>1. PICK c \in Character \cup {NoCharacter} : bow[b] = [NewBow EXCEPT !.owner = c]
    BY DEF Init
  <2>2. bow[b] = [owner |-> c, aiming |-> FALSE, charging |-> FALSE, chargeTime |-> 0,
                  state |-> "Idle", prepared |-> NoArrow]
    BY <2>1 DEF NewBow
  <2>3. bow[b] \in BowRecord
    BY <2>2 DEF BowRecord, EBowState
  <2> QED
    BY <2>2, <2>3
<1>2. \A a \in Arrow : arrow[a] \in ArrowRecord /\ arrow[a].phase = "none"
  BY SpeedAssumption DEF Init, NoFlight, ArrowRecord
<1>3. bow = [b \in Bow |-> bow[b]] /\ arrow = [a \in Arrow |-> arrow[a]]
  BY DEF Init
<1>4. TypeOK
  BY <1>1, <1>2, <1>3 DEF TypeOK
<1> QED
  BY <1>1, <1>2, <1>4

LEMMA InitTypeOK == Init => TypeOK
BY AtFirst

\* The release, by itself or at the end of a frame, keeps the types when the arrows
\* it is given have theirs.
LEMMA ReleaseTypeOK ==
    ASSUME TypeOK, NEW b \in Bow, NEW t \in Nat, NEW aged \in [Arrow -> ArrowRecord],
           Release(b, t, aged)
    PROVE  TypeOK'
<1>1. Let(bow[b], t) \in BowRecord
  BY NullAssumption DEF TypeOK, Let, BowRecord, EBowState
<1>2. bow' \in [Bow -> BowRecord]
  BY <1>1 DEF Release, TypeOK
<1>3. arrow' \in [Arrow -> ArrowRecord]
  <2>1. CASE CanFire(b) /\ bow[b].prepared # NoArrow
    <3> DEFINE a == bow[b].prepared
    <3>1. a \in Arrow
      BY <2>1 DEF TypeOK, BowRecord
    <3>2. SpeedAt(t) \in MinArrowSpeed .. MaxArrowSpeed
      BY SpeedAtRange
    <3>3. [aged[a] EXCEPT !.phase = "loosed", !.speed = SpeedAt(t)] \in ArrowRecord
      BY <3>1, <3>2 DEF ArrowRecord
    <3> QED
      BY <2>1, <3>1, <3>3 DEF Release
  <2>2. CASE ~(CanFire(b) /\ bow[b].prepared # NoArrow)
    BY <2>2 DEF Release
  <2> QED
    BY <2>1, <2>2
<1> QED
  BY <1>2, <1>3 DEF TypeOK

LEMMA AgedType ==
    ASSUME TypeOK, NEW b \in Bow, NEW dt \in FrameTimes
    PROVE  Aged(b, dt) \in [Arrow -> ArrowRecord]
BY TimeAssumption DEF TypeOK, Aged, ArrowRecord, BowRecord

\* The garbage collector changes who owns a bow and who shot an arrow, and nothing else.
LEMMA CollectedKeeps ==
    ASSUME TypeOK, NEW c, Collected(c)
    PROVE  /\ TypeOK'
           /\ \A b \in Bow : /\ bow'[b].charging = bow[b].charging
                             /\ bow'[b].chargeTime = bow[b].chargeTime
                             /\ bow'[b].aiming = bow[b].aiming
                             /\ bow'[b].state = bow[b].state
                             /\ bow'[b].prepared = bow[b].prepared
           /\ \A a \in Arrow : /\ arrow'[a].phase = arrow[a].phase
                               /\ arrow'[a].speed = arrow[a].speed
                               /\ arrow'[a].age = arrow[a].age
<1>1. /\ bow' = [b \in Bow |-> bow'[b]]
      /\ \A b \in Bow : bow'[b] = [bow[b] EXCEPT !.owner = IF @ = c THEN NoCharacter ELSE @]
  BY DEF Collected
<1>2. \A b \in Bow : /\ bow'[b] \in BowRecord
                     /\ bow'[b].charging = bow[b].charging
                     /\ bow'[b].chargeTime = bow[b].chargeTime
                     /\ bow'[b].aiming = bow[b].aiming
                     /\ bow'[b].state = bow[b].state
                     /\ bow'[b].prepared = bow[b].prepared
  BY <1>1 DEF TypeOK, BowRecord
<1>3. /\ arrow' = [a \in Arrow |-> arrow'[a]]
      /\ \A a \in Arrow : arrow'[a] = [arrow[a] EXCEPT !.shooter = IF @ = c THEN NoCharacter ELSE @]
  BY DEF Collected
<1>4. \A a \in Arrow : /\ arrow'[a] \in ArrowRecord
                       /\ arrow'[a].phase = arrow[a].phase
                       /\ arrow'[a].speed = arrow[a].speed
                       /\ arrow'[a].age = arrow[a].age
  BY <1>3 DEF TypeOK, ArrowRecord
<1>5. TypeOK'
  BY <1>1, <1>2, <1>3, <1>4 DEF TypeOK
<1> QED
  BY <1>2, <1>4, <1>5

LEMMA NextTypeOK == TypeOK /\ [Next]_bowVars => TypeOK'
<1> SUFFICES ASSUME TypeOK, [Next]_bowVars PROVE TypeOK'
  OBVIOUS
<1>1. ASSUME NEW b \in Bow, NEW c \in Character, OnEquip(b, c) PROVE TypeOK'
  BY <1>1 DEF OnEquip, TypeOK, BowRecord
<1>2. ASSUME NEW b \in Bow, OnUnequip(b) PROVE TypeOK'
  BY <1>2 DEF OnUnequip, TypeOK, BowRecord
<1>3. ASSUME NEW b \in Bow, StartAim(b) PROVE TypeOK'
  BY <1>3 DEF StartAim, TypeOK, BowRecord, EBowState
<1>4. ASSUME NEW b \in Bow, StopAim(b) PROVE TypeOK'
  BY <1>4 DEF StopAim, TypeOK, BowRecord, EBowState
<1>5. ASSUME NEW b \in Bow, NEW a \in Arrow, Nock(b, a) PROVE TypeOK'
  <2>1. Drawn(bow[b], a) \in BowRecord
    BY DEF Drawn, TypeOK, BowRecord, EBowState
  <2>2. bow[b].owner \in Character \cup {NoCharacter}
    BY DEF TypeOK, BowRecord
  <2> QED
    BY <1>5, <2>1, <2>2 DEF Nock, TypeOK, ArrowRecord
<1>6. ASSUME NEW b \in Bow, NockFails(b) PROVE TypeOK'
  BY <1>6 DEF NockFails, Drawn, TypeOK, BowRecord, EBowState
<1>7. ASSUME NEW b \in Bow, EndDraw(b) PROVE TypeOK'
  <2>1. bow[b].chargeTime \in Nat
    BY DEF TypeOK, BowRecord
  <2>2. arrow \in [Arrow -> ArrowRecord]
    BY DEF TypeOK
  <2> QED
    BY <1>7, <2>1, <2>2, ReleaseTypeOK DEF EndDraw
<1>8. ASSUME NEW b \in Bow, NEW dt \in FrameTimes, Tick(b, dt) PROVE TypeOK'
  <2> DEFINE t == bow[b].chargeTime + dt
  <2>1. t \in Nat
    BY TimeAssumption DEF TypeOK, BowRecord
  <2>2. Aged(b, dt) \in [Arrow -> ArrowRecord]
    BY AgedType
  <2>3. CASE t >= AutoReleaseTime
    BY <1>8, <2>1, <2>2, <2>3, ReleaseTypeOK DEF Tick
  <2>4. CASE ~(t >= AutoReleaseTime)
    BY <1>8, <2>1, <2>2, <2>4 DEF Tick, TypeOK, BowRecord
  <2> QED
    BY <2>3, <2>4
<1>9. ASSUME NEW a \in Arrow, ArrowGone(a) PROVE TypeOK'
  BY <1>9 DEF ArrowGone, NoFlight, TypeOK, ArrowRecord
<1>10. ASSUME NEW c \in Character, Collected(c) PROVE TypeOK'
  BY <1>10, CollectedKeeps
<1>11. CASE UNCHANGED bowVars
  BY <1>11 DEF bowVars, TypeOK
<1> QED
  BY <1>1, <1>2, <1>3, <1>4, <1>5, <1>6, <1>7, <1>8, <1>9, <1>10, <1>11 DEF Next, StartDraw

\* Type correctness: in particular every arrow's speed is within the bow's range.
THEOREM TypeCorrect == Spec => []TypeOK
<1>1. Init => TypeOK
  BY InitTypeOK
<1>2. TypeOK /\ [Next]_bowVars => TypeOK'
  BY NextTypeOK
<1> QED
  BY <1>1, <1>2, PTL DEF Spec

----------------------------------------------------------------------------
(* The inductive invariant.  SpeedIsEarned needs ClockIsAge, which needs that no   *)
(* two bows share an arrow; DrawIsBounded and the rest stand beside them because   *)
(* each reads fields the same actions write.                                       *)

\* What `aged` is allowed to be when the release of b begins with t on its clock.
AgedBy(b, t, aged) ==
    /\ aged \in [Arrow -> ArrowRecord]
    /\ \A a \in Arrow : /\ aged[a].phase = arrow[a].phase
                        /\ a # bow[b].prepared => aged[a] = arrow[a]
                        /\ a = bow[b].prepared => aged[a].age = t

LEMMA InitInv == Init => BowInv
<1> SUFFICES ASSUME Init PROVE BowInv
  OBVIOUS
<1> QED
  BY AtFirst DEF BowInv, ChargingIsAiming, HeldArrowIsOurs, DrawIsBounded,
                 ClockIsAge, SpeedIsEarned, StateAgrees

\* Ending a draw keeps the invariant, whether an arrow leaves or not.
LEMMA ReleaseInv ==
    ASSUME BowInv, NEW b \in Bow, bow[b].charging, NEW t \in Nat, NEW aged,
           AgedBy(b, t, aged), Release(b, t, aged)
    PROVE  BowInv'
<1> DEFINE p == bow[b].prepared
           fires == CanFire(b) /\ p # NoArrow
<1> USE DEF BowInv
<1>0. TypeOK'
  BY ReleaseTypeOK DEF AgedBy
<1>1. /\ bow'[b] = Let(bow[b], t)
      /\ \A d \in Bow \ {b} : bow'[d] = bow[d]
  BY DEF Release, TypeOK
<1>2. /\ ~bow'[b].charging
      /\ bow'[b].aiming = bow[b].aiming
      /\ bow'[b].prepared = IF fires THEN NoArrow ELSE p
      /\ p # NoArrow => bow'[b].state = "Idle"
  BY <1>1 DEF Let, CanFire, TypeOK, BowRecord
<1>3. \A a \in Arrow : ~(fires /\ a = p) => arrow'[a] = aged[a]
  BY DEF Release, AgedBy
<1>4. fires => /\ p \in Arrow
               /\ arrow'[p].phase = "loosed"
               /\ arrow'[p].speed = SpeedAt(t)
               /\ arrow'[p].age = t
  BY DEF Release, AgedBy, TypeOK, BowRecord, ArrowRecord
<1>5. ChargingIsAiming'
  BY <1>1, <1>2 DEF ChargingIsAiming
<1>6. HeldArrowIsOurs'
  <2> SUFFICES ASSUME NEW d \in Bow, bow'[d].prepared # NoArrow
               PROVE  /\ arrow'[bow'[d].prepared].phase = "nocked"
                      /\ \A e \in Bow \ {d} : bow'[e].prepared # bow'[d].prepared
    BY DEF HeldArrowIsOurs
  <2>1. \A e \in Bow : bow'[e].prepared \in {bow[e].prepared, NoArrow}
    BY <1>1, <1>2
  <2>2. bow'[d].prepared = bow[d].prepared /\ bow[d].prepared \in Arrow
    BY <2>1 DEF TypeOK, BowRecord
  <2>3. ~(fires /\ bow[d].prepared = p)
    BY <1>1, <1>2, <2>2 DEF HeldArrowIsOurs
  <2>4. arrow'[bow[d].prepared].phase = "nocked"
    BY <1>3, <2>2, <2>3 DEF AgedBy, HeldArrowIsOurs
  <2> QED
    BY <2>1, <2>2, <2>4 DEF HeldArrowIsOurs
<1>7. DrawIsBounded'
  BY <1>1, <1>2 DEF DrawIsBounded
<1>8. ClockIsAge'
  <2> SUFFICES ASSUME NEW d \in Bow, bow'[d].charging, bow'[d].prepared # NoArrow
               PROVE  arrow'[bow'[d].prepared].age = bow'[d].chargeTime
    BY DEF ClockIsAge
  <2>1. d # b /\ bow'[d] = bow[d]
    BY <1>1, <1>2
  <2>2. bow[d].prepared \in Arrow /\ bow[d].prepared # p
    BY <2>1 DEF TypeOK, BowRecord, HeldArrowIsOurs
  <2> QED
    BY <1>3, <2>1, <2>2 DEF AgedBy, ClockIsAge
<1>9. SpeedIsEarned'
  <2> SUFFICES ASSUME NEW a \in Arrow, arrow'[a].phase = "loosed"
               PROVE  arrow'[a].speed = SpeedAt(arrow'[a].age)
    BY DEF SpeedIsEarned, SpeedAt
  <2>1. CASE fires /\ a = p
    BY <1>4, <2>1
  <2>2. CASE ~(fires /\ a = p)
    <3>1. arrow[a].phase = "loosed"
      BY <1>3, <2>2 DEF AgedBy
    <3>2. a # p
      BY <3>1, NullAssumption DEF HeldArrowIsOurs
    <3> QED
      BY <1>3, <3>1, <3>2 DEF AgedBy, SpeedIsEarned
  <2> QED
    BY <2>1, <2>2
<1>10. StateAgrees'
  BY <1>1, <1>2 DEF StateAgrees
<1> QED
  BY <1>0, <1>5, <1>6, <1>7, <1>8, <1>9, <1>10

\* Equipping, aiming and lowering the bow change nothing the invariant reads of the
\* arrows, nor the draw itself.
LEMMA HandlingInv ==
    ASSUME BowInv, TypeOK', UNCHANGED arrow,
           \A b \in Bow : /\ bow'[b].charging = bow[b].charging
                          /\ bow'[b].prepared = bow[b].prepared
                          /\ bow'[b].chargeTime = bow[b].chargeTime
                          /\ bow[b].charging => /\ bow'[b].aiming = bow[b].aiming
                                                /\ bow'[b].state = bow[b].state
                          /\ bow'[b].state \in {bow[b].state, "Idle", "Aim"}
    PROVE  BowInv'
BY DEF BowInv, ChargingIsAiming, HeldArrowIsOurs, DrawIsBounded, ClockIsAge, SpeedIsEarned,
       StateAgrees, SpeedAt

LEMMA NockInv ==
    ASSUME BowInv, TypeOK', NEW b \in Bow, NEW a \in Arrow, Nock(b, a)
    PROVE  BowInv'
<1> USE DEF BowInv
<1>1. /\ bow'[b].charging /\ bow'[b].aiming
      /\ bow'[b].chargeTime = 0
      /\ bow'[b].state = "Charging"
      /\ bow'[b].prepared = a
      /\ \A d \in Bow \ {b} : bow'[d] = bow[d]
  BY DEF Nock, CanDraw, Drawn, TypeOK, BowRecord
<1>2. /\ arrow[a].phase = "none"
      /\ arrow'[a].phase = "nocked"
      /\ arrow'[a].age = 0
      /\ \A x \in Arrow \ {a} : arrow'[x] = arrow[x]
  BY DEF Nock, TypeOK
<1>3. \A d \in Bow : bow[d].prepared # a /\ (bow[d].prepared # NoArrow => bow[d].prepared \in Arrow)
  BY <1>2, NullAssumption DEF HeldArrowIsOurs, TypeOK, BowRecord
<1>4. ChargingIsAiming'
  BY <1>1 DEF ChargingIsAiming
<1>5. HeldArrowIsOurs'
  BY <1>1, <1>2, <1>3 DEF HeldArrowIsOurs
<1>6. DrawIsBounded'
  BY <1>1, TimeAssumption DEF DrawIsBounded
<1>7. ClockIsAge'
  BY <1>1, <1>2, <1>3 DEF ClockIsAge
<1>8. SpeedIsEarned'
  BY <1>2 DEF SpeedIsEarned, SpeedAt
<1>9. StateAgrees'
  BY <1>1 DEF StateAgrees
<1> QED
  BY <1>4, <1>5, <1>6, <1>7, <1>8, <1>9

LEMMA NockFailsInv ==
    ASSUME BowInv, TypeOK', NEW b \in Bow, NockFails(b)
    PROVE  BowInv'
<1> USE DEF BowInv
<1>1. /\ bow'[b].charging /\ bow'[b].aiming
      /\ bow'[b].chargeTime = 0
      /\ bow'[b].state = "Charging"
      /\ bow'[b].prepared = NoArrow
      /\ \A d \in Bow \ {b} : bow'[d] = bow[d]
      /\ arrow' = arrow
  BY DEF NockFails, CanDraw, Drawn, TypeOK, BowRecord
<1>2. DrawIsBounded'
  BY <1>1, TimeAssumption DEF DrawIsBounded
<1>3. HeldArrowIsOurs'
  BY <1>1 DEF HeldArrowIsOurs
<1>4. ClockIsAge'
  BY <1>1 DEF ClockIsAge
<1> QED
  BY <1>1, <1>2, <1>3, <1>4 DEF ChargingIsAiming, SpeedIsEarned, StateAgrees, SpeedAt

LEMMA AgedByTick ==
    ASSUME BowInv, NEW b \in Bow, bow[b].charging, NEW dt \in FrameTimes
    PROVE  AgedBy(b, bow[b].chargeTime + dt, Aged(b, dt))
<1> DEFINE t == bow[b].chargeTime + dt
           p == bow[b].prepared
<1> USE DEF BowInv
<1>1. Aged(b, dt) \in [Arrow -> ArrowRecord]
  BY AgedType
<1>2. ASSUME NEW a \in Arrow, a # p PROVE Aged(b, dt)[a] = arrow[a]
  BY <1>2 DEF Aged, TypeOK
<1>3. ASSUME NEW a \in Arrow, a = p
      PROVE  Aged(b, dt)[a].age = t /\ Aged(b, dt)[a].phase = arrow[a].phase
  <2>1. a # NoArrow /\ arrow[a].age = bow[b].chargeTime
    BY <1>3, NullAssumption DEF ClockIsAge
  <2> QED
    BY <1>3, <2>1 DEF Aged, TypeOK, ArrowRecord
<1> QED
  BY <1>1, <1>2, <1>3 DEF AgedBy

LEMMA TickInv ==
    ASSUME BowInv, TypeOK', NEW b \in Bow, NEW dt \in FrameTimes, Tick(b, dt)
    PROVE  BowInv'
<1> DEFINE t == bow[b].chargeTime + dt
           p == bow[b].prepared
<1> USE DEF BowInv
<1>1. t \in Nat
  BY TimeAssumption DEF TypeOK, BowRecord
<1>2. bow[b].charging
  BY DEF Tick
<1>3. AgedBy(b, t, Aged(b, dt))
  BY <1>2, AgedByTick
<1>4. CASE t >= AutoReleaseTime
  BY <1>1, <1>2, <1>3, <1>4, ReleaseInv DEF Tick
<1>5. CASE ~(t >= AutoReleaseTime)
  <2>1. /\ bow'[b].chargeTime = t /\ bow'[b].charging
        /\ bow'[b].aiming = bow[b].aiming
        /\ bow'[b].state = bow[b].state
        /\ \A d \in Bow : bow'[d].prepared = bow[d].prepared
        /\ \A d \in Bow \ {b} : bow'[d] = bow[d]
    BY <1>2, <1>5 DEF Tick, TypeOK, BowRecord
  <2>2. \A a \in Arrow : /\ arrow'[a].phase = arrow[a].phase
                         /\ a # p => arrow'[a] = arrow[a]
                         /\ a = p => arrow'[a].age = t
    BY <1>3, <1>5 DEF Tick, AgedBy
  <2>3. \A d \in Bow : bow[d].prepared # NoArrow => bow[d].prepared \in Arrow
    BY DEF TypeOK, BowRecord
  <2>4. ChargingIsAiming' /\ StateAgrees'
    BY <1>2, <2>1 DEF ChargingIsAiming, StateAgrees
  <2>5. HeldArrowIsOurs'
    BY <2>1, <2>2, <2>3 DEF HeldArrowIsOurs
  <2>6. DrawIsBounded'
    BY <1>1, <1>5, <2>1, TimeAssumption DEF DrawIsBounded
  <2>7. ClockIsAge'
    BY <2>1, <2>2, <2>3 DEF ClockIsAge, HeldArrowIsOurs
  <2>8. SpeedIsEarned'
    <3> SUFFICES ASSUME NEW a \in Arrow, arrow'[a].phase = "loosed"
                 PROVE  arrow'[a].speed = SpeedAt(arrow'[a].age)
      BY DEF SpeedIsEarned, SpeedAt
    <3>1. arrow[a].phase = "loosed"
      BY <2>2
    <3>2. a # p
      BY <3>1, NullAssumption DEF HeldArrowIsOurs
    <3> QED
      BY <2>2, <3>1, <3>2 DEF SpeedIsEarned
  <2> QED
    BY <2>4, <2>5, <2>6, <2>7, <2>8
<1> QED
  BY <1>4, <1>5

\* The invariant says nothing of who owns a bow or shot an arrow.
LEMMA CollectedInv ==
    ASSUME BowInv, NEW c, Collected(c)
    PROVE  BowInv'
<1>1. /\ TypeOK'
      /\ \A b \in Bow : /\ bow'[b].charging = bow[b].charging
                        /\ bow'[b].chargeTime = bow[b].chargeTime
                        /\ bow'[b].aiming = bow[b].aiming
                        /\ bow'[b].state = bow[b].state
                        /\ bow'[b].prepared = bow[b].prepared
      /\ \A a \in Arrow : /\ arrow'[a].phase = arrow[a].phase
                          /\ arrow'[a].speed = arrow[a].speed
                          /\ arrow'[a].age = arrow[a].age
  BY CollectedKeeps DEF BowInv
<1>2. \A b \in Bow : bow[b].prepared # NoArrow => bow[b].prepared \in Arrow
  BY DEF BowInv, TypeOK, BowRecord
<1>3. HeldArrowIsOurs' /\ ClockIsAge'
  BY <1>1, <1>2 DEF BowInv, HeldArrowIsOurs, ClockIsAge
<1>4. SpeedIsEarned'
  BY <1>1 DEF BowInv, SpeedIsEarned, SpeedAt
<1> QED
  BY <1>1, <1>3, <1>4 DEF BowInv, ChargingIsAiming, DrawIsBounded, StateAgrees

LEMMA NextInv == BowInv /\ [Next]_bowVars => BowInv'
<1> SUFFICES ASSUME BowInv, [Next]_bowVars PROVE BowInv'
  OBVIOUS
<1>0. TypeOK /\ TypeOK'
  BY NextTypeOK DEF BowInv
<1>1. ASSUME NEW b \in Bow, NEW c \in Character, OnEquip(b, c) PROVE BowInv'
  BY <1>0, <1>1, HandlingInv DEF OnEquip, TypeOK, BowRecord
<1>2. ASSUME NEW b \in Bow, OnUnequip(b) PROVE BowInv'
  BY <1>0, <1>2, HandlingInv DEF OnUnequip, TypeOK, BowRecord
<1>3. ASSUME NEW b \in Bow, StartAim(b) PROVE BowInv'
  BY <1>0, <1>3, HandlingInv DEF StartAim, TypeOK, BowRecord
<1>4. ASSUME NEW b \in Bow, StopAim(b) PROVE BowInv'
  BY <1>0, <1>4, HandlingInv DEF StopAim, TypeOK, BowRecord
<1>5. ASSUME NEW b \in Bow, StartDraw(b) PROVE BowInv'
  BY <1>0, <1>5, NockInv, NockFailsInv DEF StartDraw
<1>6. ASSUME NEW b \in Bow, EndDraw(b) PROVE BowInv'
  <2>1. bow[b].charging /\ bow[b].chargeTime \in Nat
    BY <1>0, <1>6 DEF EndDraw, TypeOK, BowRecord
  <2>2. AgedBy(b, bow[b].chargeTime, arrow)
    BY <1>0, <2>1, NullAssumption DEF AgedBy, TypeOK, BowInv, ClockIsAge
  <2> QED
    BY <1>6, <2>1, <2>2, ReleaseInv DEF EndDraw
<1>7. ASSUME NEW b \in Bow, NEW dt \in FrameTimes, Tick(b, dt) PROVE BowInv'
  BY <1>0, <1>7, TickInv
<1>8. ASSUME NEW a \in Arrow, ArrowGone(a) PROVE BowInv'
  <2>1. /\ bow' = bow
        /\ arrow'[a].phase = "none"
        /\ \A x \in Arrow \ {a} : arrow'[x] = arrow[x]
    BY <1>0, <1>8 DEF ArrowGone, NoFlight, TypeOK
  <2>2. \A b \in Bow : /\ bow[b].prepared # NoArrow => bow[b].prepared \in Arrow
                       /\ bow[b].prepared # a
    BY <1>0, <1>8, NullAssumption DEF ArrowGone, BowInv, HeldArrowIsOurs, TypeOK, BowRecord
  <2>3. HeldArrowIsOurs' /\ ClockIsAge'
    BY <2>1, <2>2 DEF BowInv, HeldArrowIsOurs, ClockIsAge
  <2>4. SpeedIsEarned'
    BY <2>1 DEF BowInv, SpeedIsEarned, SpeedAt
  <2> QED
    BY <1>0, <2>1, <2>3, <2>4 DEF BowInv, ChargingIsAiming, DrawIsBounded, StateAgrees
<1>9. ASSUME NEW c \in Character, Collected(c) PROVE BowInv'
  BY <1>0, <1>9, CollectedInv
<1>10. CASE UNCHANGED bowVars
  BY <1>0, <1>10, HandlingInv DEF bowVars
<1> QED
  BY <1>1, <1>2, <1>3, <1>4, <1>5, <1>6, <1>7, <1>8, <1>9, <1>10 DEF Next

THEOREM Invariance == Spec => []BowInv
<1>1. Init => BowInv
  BY InitInv
<1>2. BowInv /\ [Next]_bowVars => BowInv'
  BY NextInv
<1> QED
  BY <1>1, <1>2, PTL DEF Spec

----------------------------------------------------------------------------
(* What the invariant says, property by property. *)

\* A drawn bow is an aiming bow, in every order of calls.
THEOREM DrawnBowsAim == Spec => []ChargingIsAiming
<1>1. BowInv => ChargingIsAiming
  BY DEF BowInv
<1> QED
  BY <1>1, Invariance, PTL

\* A bow's PreparedArrow is nocked and on that bow alone.
THEOREM ArrowsNotShared == Spec => []HeldArrowIsOurs
<1>1. BowInv => HeldArrowIsOurs
  BY DEF BowInv
<1> QED
  BY <1>1, Invariance, PTL

\* No draw outlasts AutoReleaseTime, whatever the frame times.
THEOREM DrawsBounded == Spec => []DrawIsBounded
<1>1. BowInv => DrawIsBounded
  BY DEF BowInv
<1> QED
  BY <1>1, Invariance, PTL

\* Every loosed arrow has the speed of its own draw.
THEOREM SpeedsEarned == Spec => []SpeedIsEarned
<1>1. BowInv => SpeedIsEarned
  BY DEF BowInv
<1> QED
  BY <1>1, Invariance, PTL

\* BowState agrees with the draw while there is an arrow on the bow.
THEOREM StatesAgree == Spec => []StateAgrees
<1>1. BowInv => StateAgrees
  BY DEF BowInv
<1> QED
  BY <1>1, Invariance, PTL

----------------------------------------------------------------------------
(* The bow implements the draw cycle. *)

\* The abstract state, as functions of the bow's.
Drawing == {b \in Bow : bow[b].charging}
Held == [b \in Bow |-> bow[b].prepared]
Away == {a \in Arrow : arrow[a].phase = "loosed"}

LEMMA InitRefines == Init => DC!Init
BY AtFirst DEF DC!Init

\* Steps that leave every draw, every held arrow and every loosed one as they are.
LEMMA StutterRefines ==
    ASSUME \A b \in Bow : /\ bow'[b].charging = bow[b].charging
                          /\ bow'[b].prepared = bow[b].prepared,
           \A a \in Arrow : (arrow'[a].phase = "loosed") = (arrow[a].phase = "loosed")
    PROVE  UNCHANGED DC!vars
<1>1. Drawing' = Drawing /\ Held' = Held /\ Away' = Away
  BY DEF Drawing, Held, Away
<1> QED
  BY <1>1 DEF DC!vars, Drawing, Held, Away

LEMMA NockRefines ==
    ASSUME BowInv, NEW b \in Bow, NEW a \in Arrow, Nock(b, a)
    PROVE  DC!Draw(b, a)
<1> USE DEF BowInv
<1>1. /\ bow'[b].charging /\ bow'[b].prepared = a
      /\ \A d \in Bow \ {b} : bow'[d] = bow[d]
  BY DEF Nock, Drawn, TypeOK, BowRecord
<1>2. /\ arrow[a].phase = "none" /\ arrow'[a].phase = "nocked"
      /\ \A x \in Arrow \ {a} : arrow'[x] = arrow[x]
  BY DEF Nock, TypeOK
<1>3. a \notin {Held[d] : d \in Bow} /\ a \notin Away
  BY <1>2, NullAssumption DEF HeldArrowIsOurs, Held, Away
<1>4. /\ Drawing' = Drawing \cup {b}
      /\ Held' = [Held EXCEPT ![b] = a]
      /\ Away' = Away
  BY <1>1, <1>2 DEF Drawing, Held, Away
<1> QED
  BY <1>3, <1>4 DEF DC!Draw, DC!OnABow, Drawing, Held, Away

LEMMA NockFailsRefines ==
    ASSUME BowInv, NEW b \in Bow, NockFails(b)
    PROVE  DC!DrawEmpty(b)
<1>1. /\ bow'[b].charging /\ bow'[b].prepared = NoArrow
      /\ \A d \in Bow \ {b} : bow'[d] = bow[d]
      /\ arrow' = arrow
  BY DEF NockFails, Drawn, BowInv, TypeOK, BowRecord
<1>2. /\ Drawing' = Drawing \cup {b}
      /\ Held' = [Held EXCEPT ![b] = NoArrow]
      /\ Away' = Away
  BY <1>1 DEF Drawing, Held, Away
<1> QED
  BY <1>2 DEF DC!DrawEmpty, Drawing, Held, Away

LEMMA ReleaseRefines ==
    ASSUME BowInv, NEW b \in Bow, bow[b].charging, NEW t \in Nat, NEW aged,
           AgedBy(b, t, aged), Release(b, t, aged)
    PROVE  DC!Loose(b) \/ DC!Slacken(b)
<1> DEFINE p == bow[b].prepared
           fires == CanFire(b) /\ p # NoArrow
<1> USE DEF BowInv
<1>1. /\ ~bow'[b].charging
      /\ bow'[b].prepared = IF fires THEN NoArrow ELSE p
      /\ \A d \in Bow \ {b} : bow'[d] = bow[d]
  BY DEF Release, Let, CanFire, TypeOK, BowRecord
<1>2. b \in Drawing /\ Drawing' = Drawing \ {b}
  BY <1>1 DEF Drawing
<1>3. CASE fires
  <2>1. p \in Arrow
    BY <1>3 DEF TypeOK, BowRecord
  <2>2. \A x \in Arrow : arrow'[x].phase = "loosed" <=> (x = p \/ arrow[x].phase = "loosed")
    BY <1>3, <2>1 DEF Release, AgedBy, ArrowRecord
  <2>3. /\ Held' = [Held EXCEPT ![b] = NoArrow]
        /\ Away' = Away \cup {Held[b]}
        /\ Held[b] # NoArrow
    BY <1>1, <1>3, <2>1, <2>2 DEF Held, Away
  <2> QED
    BY <1>2, <2>3 DEF DC!Loose, Drawing, Held, Away
<1>4. CASE ~fires
  <2>1. Held' = Held
    BY <1>1, <1>4 DEF Held
  <2>2. Away' = Away
    BY <1>4 DEF Release, AgedBy, Away
  <2> QED
    BY <1>2, <2>1, <2>2 DEF DC!Slacken, Drawing, Held, Away
<1> QED
  BY <1>3, <1>4

LEMMA NextRefines == BowInv /\ [Next]_bowVars => [DC!Next]_(DC!vars)
<1> SUFFICES ASSUME BowInv, [Next]_bowVars PROVE DC!Next \/ UNCHANGED DC!vars
  BY DEF DC!vars
<1>0. TypeOK
  BY DEF BowInv
<1>1. ASSUME NEW b \in Bow, NEW c \in Character, OnEquip(b, c) PROVE UNCHANGED DC!vars
  BY <1>0, <1>1, StutterRefines DEF OnEquip, TypeOK, BowRecord
<1>2. ASSUME NEW b \in Bow, OnUnequip(b) PROVE UNCHANGED DC!vars
  BY <1>0, <1>2, StutterRefines DEF OnUnequip, TypeOK, BowRecord
<1>3. ASSUME NEW b \in Bow, StartAim(b) PROVE UNCHANGED DC!vars
  BY <1>0, <1>3, StutterRefines DEF StartAim, TypeOK, BowRecord
<1>4. ASSUME NEW b \in Bow, StopAim(b) PROVE UNCHANGED DC!vars
  BY <1>0, <1>4, StutterRefines DEF StopAim, TypeOK, BowRecord
<1>5. ASSUME NEW b \in Bow, StartDraw(b) PROVE DC!Next
  BY <1>5, NockRefines, NockFailsRefines DEF StartDraw, DC!Next
<1>6. ASSUME NEW b \in Bow, EndDraw(b) PROVE DC!Next
  <2>1. bow[b].charging /\ bow[b].chargeTime \in Nat
    BY <1>0, <1>6 DEF EndDraw, TypeOK, BowRecord
  <2>2. AgedBy(b, bow[b].chargeTime, arrow)
    BY <1>0, <2>1, NullAssumption DEF AgedBy, TypeOK, BowInv, ClockIsAge
  <2>3. DC!Loose(b) \/ DC!Slacken(b)
    BY <1>6, <2>1, <2>2, ReleaseRefines DEF EndDraw
  <2> QED
    BY <2>3 DEF DC!Next
<1>7. ASSUME NEW b \in Bow, NEW dt \in FrameTimes, Tick(b, dt)
      PROVE  DC!Next \/ UNCHANGED DC!vars
  <2> DEFINE t == bow[b].chargeTime + dt
  <2>1. bow[b].charging /\ t \in Nat
    BY <1>0, <1>7, TimeAssumption DEF Tick, TypeOK, BowRecord
  <2>2. AgedBy(b, t, Aged(b, dt))
    BY <2>1, AgedByTick
  <2>3. CASE t >= AutoReleaseTime
    <3>1. DC!Loose(b) \/ DC!Slacken(b)
      BY <1>7, <2>1, <2>2, <2>3, ReleaseRefines DEF Tick
    <3> QED
      BY <3>1 DEF DC!Next
  <2>4. CASE ~(t >= AutoReleaseTime)
    <3>1. \A d \in Bow : bow'[d].charging = bow[d].charging /\ bow'[d].prepared = bow[d].prepared
      BY <1>0, <1>7, <2>4 DEF Tick, TypeOK, BowRecord
    <3>2. \A a \in Arrow : arrow'[a].phase = arrow[a].phase
      BY <1>7, <2>2, <2>4 DEF Tick, AgedBy
    <3> QED
      BY <3>1, <3>2, StutterRefines
  <2> QED
    BY <2>3, <2>4
<1>8. ASSUME NEW a \in Arrow, ArrowGone(a) PROVE DC!Next
  <2>1. a \in Away /\ Away' = Away \ {a} /\ Drawing' = Drawing /\ Held' = Held
    BY <1>0, <1>8 DEF ArrowGone, NoFlight, TypeOK, Away, Drawing, Held
  <2>2. DC!Gone(a)
    BY <2>1 DEF DC!Gone, Away, Drawing, Held
  <2> QED
    BY <2>2 DEF DC!Next
<1>9. ASSUME NEW c \in Character, Collected(c) PROVE UNCHANGED DC!vars
  BY <1>0, <1>9, CollectedKeeps, StutterRefines
<1>10. CASE UNCHANGED bowVars
  BY <1>10, StutterRefines DEF bowVars
<1> QED
  BY <1>1, <1>2, <1>3, <1>4, <1>5, <1>6, <1>7, <1>8, <1>9, <1>10 DEF Next

\* Every behaviour of the bow is a behaviour of the draw cycle.
THEOREM Refinement == Spec => ImplementsDrawCycle
<1>1. Init => DC!Init
  BY InitRefines
<1>2. BowInv /\ [Next]_bowVars => [DC!Next]_(DC!vars)
  BY NextRefines
<1> QED
  BY <1>1, <1>2, Invariance, PTL DEF Spec, ImplementsDrawCycle, DC!Spec

----------------------------------------------------------------------------
(* The operations, for the modules that call them. *)

\* Every nocked arrow is on a bow.
NoneStranded == \A a \in Arrow : arrow[a].phase = "nocked" => \E b \in Bow : bow[b].prepared = a

\* What an operation on b leaves alone.
OnlyBow(b) == /\ bow'[b].owner = bow[b].owner
              /\ \A d \in Bow \ {b} : bow'[d] = bow[d]

\* Taking up or lowering the aim.
LEMMA AimCall ==
    ASSUME TypeOK, NEW b \in Bow, StartAim(b) \/ StopAim(b)
    PROVE  /\ TypeOK' /\ OnlyBow(b) /\ arrow' = arrow
           /\ bow'[b].charging = bow[b].charging
           /\ bow'[b].chargeTime = bow[b].chargeTime
           /\ bow'[b].prepared = bow[b].prepared
           /\ StartAim(b) /\ ~bow[b].charging => bow'[b].aiming
           /\ StopAim(b) /\ bow'[b].aiming => bow[b].aiming
           /\ bow[b].charging => bow'[b] = bow[b]
           /\ NoneStranded => NoneStranded'
<1>1. TypeOK'
  BY NextTypeOK DEF Next
<1>2. /\ OnlyBow(b) /\ arrow' = arrow
      /\ bow'[b].charging = bow[b].charging
      /\ bow'[b].chargeTime = bow[b].chargeTime
      /\ bow'[b].prepared = bow[b].prepared
      /\ StartAim(b) /\ ~bow[b].charging => bow'[b].aiming
      /\ StopAim(b) /\ bow'[b].aiming => bow[b].aiming
      /\ bow[b].charging => bow'[b] = bow[b]
  BY DEF StartAim, StopAim, OnlyBow, TypeOK, BowRecord
<1>3. \A d \in Bow : bow'[d].prepared = bow[d].prepared
  BY <1>2 DEF OnlyBow
<1> QED
  BY <1>1, <1>2, <1>3 DEF NoneStranded

\* A draw of a bow that holds no arrow strands none.
LEMMA DrawCall ==
    ASSUME TypeOK, NEW b \in Bow, StartDraw(b)
    PROVE  /\ TypeOK' /\ OnlyBow(b)
           /\ bow'[b].charging /\ bow'[b].chargeTime = 0
           /\ bow'[b].aiming = bow[b].aiming
           /\ \A a \in Arrow : arrow[a].phase = "loosed" => arrow'[a] = arrow[a]
           /\ \A a \in Arrow : arrow'[a].phase = "loosed" => arrow'[a] = arrow[a]
           /\ NoneStranded /\ bow[b].prepared = NoArrow => NoneStranded'
<1>1. TypeOK'
  BY NextTypeOK DEF Next
<1>2. \A a \in Arrow \cup {NoArrow} :
        /\ Drawn(bow[b], a).charging /\ Drawn(bow[b], a).chargeTime = 0
        /\ Drawn(bow[b], a).aiming = bow[b].aiming
        /\ Drawn(bow[b], a).owner = bow[b].owner
        /\ Drawn(bow[b], a).prepared = a
  BY DEF Drawn, TypeOK, BowRecord
<1>3. CASE NockFails(b)
  <2>1. /\ bow'[b] = Drawn(bow[b], NoArrow) /\ arrow' = arrow
        /\ \A d \in Bow \ {b} : bow'[d] = bow[d]
    BY <1>3 DEF NockFails, TypeOK
  <2>2. ASSUME NoneStranded, bow[b].prepared = NoArrow PROVE NoneStranded'
    <3> SUFFICES ASSUME NEW a \in Arrow, arrow[a].phase = "nocked"
                 PROVE  \E d \in Bow : bow'[d].prepared = a
      BY <2>1 DEF NoneStranded
    <3>1. PICK d \in Bow : bow[d].prepared = a
      BY <2>2 DEF NoneStranded
    <3>2. d # b
      BY <2>2, <3>1, NullAssumption
    <3> QED
      BY <2>1, <3>1, <3>2
  <2> QED
    BY <1>1, <1>2, <2>1, <2>2 DEF OnlyBow
<1>4. ASSUME NEW a \in Arrow, Nock(b, a)
      PROVE  /\ OnlyBow(b)
             /\ bow'[b].charging /\ bow'[b].chargeTime = 0
             /\ bow'[b].aiming = bow[b].aiming
             /\ \A x \in Arrow : arrow[x].phase = "loosed" => arrow'[x] = arrow[x]
             /\ \A x \in Arrow : arrow'[x].phase = "loosed" => arrow'[x] = arrow[x]
             /\ NoneStranded /\ bow[b].prepared = NoArrow => NoneStranded'
  <2>1. /\ bow'[b] = Drawn(bow[b], a)
        /\ arrow[a].phase = "none" /\ arrow'[a].phase = "nocked"
        /\ \A d \in Bow \ {b} : bow'[d] = bow[d]
        /\ \A x \in Arrow \ {a} : arrow'[x] = arrow[x]
    BY <1>4 DEF Nock, TypeOK
  <2>2. ASSUME NoneStranded, bow[b].prepared = NoArrow PROVE NoneStranded'
    <3> SUFFICES ASSUME NEW x \in Arrow, arrow'[x].phase = "nocked"
                 PROVE  \E d \in Bow : bow'[d].prepared = x
      BY DEF NoneStranded
    <3>1. CASE x = a
      BY <1>2, <2>1, <3>1
    <3>2. CASE x # a
      <4>1. PICK d \in Bow : bow[d].prepared = x
        BY <2>1, <2>2, <3>2 DEF NoneStranded
      <4>2. d # b
        BY <2>2, <4>1, NullAssumption
      <4> QED
        BY <2>1, <4>1, <4>2
    <3> QED
      BY <3>1, <3>2
  <2> QED
    BY <1>2, <2>1, <2>2 DEF OnlyBow
<1> QED
  BY <1>1, <1>3, <1>4 DEF StartDraw

\* A release, by itself or at the end of a frame, looses the arrow if its holder can sight.
LEMMA ReleaseCall ==
    ASSUME TypeOK, NEW b \in Bow, NEW t \in Nat, NEW aged \in [Arrow -> ArrowRecord],
           \A a \in Arrow : aged[a].phase = arrow[a].phase /\ aged[a].speed = arrow[a].speed,
           Release(b, t, aged)
    PROVE  /\ OnlyBow(b) /\ ~bow'[b].charging /\ bow'[b].aiming = bow[b].aiming
           /\ bow'[b].prepared \in {bow[b].prepared, NoArrow}
           /\ CanFire(b) => bow'[b].prepared = NoArrow
           /\ NoneStranded => NoneStranded'
           /\ \A a \in Arrow : arrow'[a].phase = "loosed" =>
                \/ arrow[a].phase = "loosed" /\ arrow'[a].speed = arrow[a].speed
                \/ arrow'[a].speed = SpeedAt(t)
<1>1. /\ bow'[b] = Let(bow[b], t)
      /\ \A d \in Bow \ {b} : bow'[d] = bow[d]
  BY DEF Release, TypeOK
<1>2. /\ ~Let(bow[b], t).charging /\ Let(bow[b], t).owner = bow[b].owner
      /\ Let(bow[b], t).aiming = bow[b].aiming
      /\ Let(bow[b], t).prepared = IF CanFire(b) THEN NoArrow ELSE bow[b].prepared
  BY DEF Let, CanFire, TypeOK, BowRecord
<1>3. ASSUME NEW a \in Arrow
      PROVE  /\ arrow'[a].phase = "nocked" =>
                    arrow[a].phase = "nocked" /\ ~(CanFire(b) /\ bow[b].prepared = a)
             /\ arrow'[a].phase = "loosed" =>
                    \/ arrow[a].phase = "loosed" /\ arrow'[a].speed = arrow[a].speed
                    \/ arrow'[a].speed = SpeedAt(t)
  <2>1. CASE CanFire(b) /\ bow[b].prepared # NoArrow
    <3> DEFINE p == bow[b].prepared
    <3>1. p \in Arrow
      BY <2>1 DEF TypeOK, BowRecord
    <3>2. arrow' = [aged EXCEPT ![p].phase = "loosed", ![p].speed = SpeedAt(t)]
      BY <2>1 DEF Release
    <3> HIDE DEF p
    <3>3. /\ arrow'[p].phase = "loosed" /\ arrow'[p].speed = SpeedAt(t)
          /\ \A x \in Arrow \ {p} : arrow'[x] = aged[x]
      BY <3>1, <3>2 DEF ArrowRecord
    <3> QED
      BY <3>3 DEF p
  <2>2. CASE ~(CanFire(b) /\ bow[b].prepared # NoArrow)
    <3>1. arrow' = aged
      BY <2>2 DEF Release
    <3> QED
      BY <2>2, <3>1, NullAssumption
  <2> QED
    BY <2>1, <2>2
<1>4. ASSUME NoneStranded PROVE NoneStranded'
  <2> SUFFICES ASSUME NEW a \in Arrow, arrow'[a].phase = "nocked"
               PROVE  \E d \in Bow : bow'[d].prepared = a
    BY DEF NoneStranded
  <2>1. arrow[a].phase = "nocked" /\ ~(CanFire(b) /\ bow[b].prepared = a)
    BY <1>3
  <2>2. PICK d \in Bow : bow[d].prepared = a
    BY <1>4, <2>1 DEF NoneStranded
  <2> QED
    BY <1>1, <1>2, <2>1, <2>2
<1> QED
  BY <1>1, <1>2, <1>3, <1>4 DEF OnlyBow

\* Ending a draw.
LEMMA EndCall ==
    ASSUME TypeOK, NEW b \in Bow, EndDraw(b)
    PROVE  /\ TypeOK' /\ OnlyBow(b) /\ ~bow'[b].charging /\ bow'[b].aiming = bow[b].aiming
           /\ bow'[b].prepared \in {bow[b].prepared, NoArrow}
           /\ CanFire(b) => bow'[b].prepared = NoArrow
           /\ NoneStranded => NoneStranded'
           /\ \A a \in Arrow : arrow'[a].phase = "loosed" =>
                \/ arrow[a].phase = "loosed" /\ arrow'[a].speed = arrow[a].speed
                \/ arrow'[a].speed = SpeedAt(bow[b].chargeTime)
<1>1. TypeOK'
  BY NextTypeOK DEF Next
<1>2. bow[b].chargeTime \in Nat /\ arrow \in [Arrow -> ArrowRecord]
  BY DEF TypeOK, BowRecord
<1> QED
  BY <1>1, <1>2, ReleaseCall DEF EndDraw

\* A frame of a drawn bow.
LEMMA TickCall ==
    ASSUME TypeOK, NEW b \in Bow, NEW dt \in FrameTimes, Tick(b, dt)
    PROVE  /\ TypeOK' /\ OnlyBow(b) /\ bow[b].charging
           /\ bow'[b].aiming = bow[b].aiming
           /\ bow'[b].prepared \in {bow[b].prepared, NoArrow}
           /\ bow'[b].charging => /\ bow'[b].prepared = bow[b].prepared
                                  /\ bow'[b].chargeTime = bow[b].chargeTime + dt
           /\ bow[b].chargeTime + dt < AutoReleaseTime => bow'[b].charging
           /\ ~bow'[b].charging /\ CanFire(b) => bow'[b].prepared = NoArrow
           /\ NoneStranded => NoneStranded'
           /\ \A a \in Arrow : arrow'[a].phase = "loosed" =>
                \/ arrow[a].phase = "loosed" /\ arrow'[a].speed = arrow[a].speed
                \/ /\ bow[b].chargeTime + dt >= AutoReleaseTime
                   /\ arrow'[a].speed = SpeedAt(bow[b].chargeTime + dt)
<1> DEFINE t == bow[b].chargeTime + dt
           aged == Aged(b, dt)
<1>1. TypeOK'
  BY NextTypeOK DEF Next
<1>2. /\ t \in Nat /\ dt \in Nat /\ bow[b].chargeTime \in Nat /\ AutoReleaseTime \in Nat
      /\ bow[b].charging
  BY TimeAssumption DEF TypeOK, BowRecord, Tick
<1>3. /\ aged \in [Arrow -> ArrowRecord]
      /\ \A a \in Arrow : aged[a].phase = arrow[a].phase /\ aged[a].speed = arrow[a].speed
  <2>1. aged \in [Arrow -> ArrowRecord]
    BY AgedType
  <2> QED
    BY <2>1 DEF TypeOK, Aged, ArrowRecord, BowRecord
<1> HIDE DEF aged
<1>4. CASE t >= AutoReleaseTime
  <2>1. Release(b, t, aged)
    BY <1>4 DEF Tick, aged
  <2>2. /\ OnlyBow(b) /\ ~bow'[b].charging /\ bow'[b].aiming = bow[b].aiming
        /\ bow'[b].prepared \in {bow[b].prepared, NoArrow}
        /\ CanFire(b) => bow'[b].prepared = NoArrow
        /\ NoneStranded => NoneStranded'
        /\ \A a \in Arrow : arrow'[a].phase = "loosed" =>
             \/ arrow[a].phase = "loosed" /\ arrow'[a].speed = arrow[a].speed
             \/ arrow'[a].speed = SpeedAt(t)
    BY <1>2, <1>3, <2>1, ReleaseCall
  <2>3. ~(t < AutoReleaseTime)
    BY <1>2, <1>4
  <2> QED
    BY <1>1, <1>2, <1>4, <2>2, <2>3
<1>5. CASE ~(t >= AutoReleaseTime)
  <2>1. bow' = [bow EXCEPT ![b].chargeTime = t] /\ arrow' = aged
    BY <1>5 DEF Tick, aged
  <2>2. /\ bow'[b].charging /\ bow'[b].chargeTime = t
        /\ bow'[b].aiming = bow[b].aiming /\ bow'[b].prepared = bow[b].prepared
        /\ bow'[b].owner = bow[b].owner
        /\ \A d \in Bow \ {b} : bow'[d] = bow[d]
    BY <1>2, <2>1 DEF TypeOK, BowRecord
  <2>3. \A d \in Bow : bow'[d].prepared = bow[d].prepared
    BY <2>2
  <2>4. NoneStranded => NoneStranded'
    BY <1>3, <2>1, <2>3 DEF NoneStranded
  <2> QED
    BY <1>1, <1>2, <1>3, <2>1, <2>2, <2>4 DEF OnlyBow
<1> QED
  BY <1>4, <1>5

\* Only the arrow on the bow leaves, and only at the end of the draw.
LEMMA LooseCall ==
    ASSUME TypeOK, NEW b \in Bow, EndDraw(b) \/ \E dt \in FrameTimes : Tick(b, dt),
           NEW a \in Arrow, arrow'[a].phase = "loosed", arrow[a].phase # "loosed"
    PROVE  bow[b].charging /\ bow[b].prepared = a /\ ~bow'[b].charging
<1>1. ASSUME NEW t, NEW aged \in [Arrow -> ArrowRecord], Release(b, t, aged),
             aged[a].phase = arrow[a].phase
      PROVE  bow[b].prepared = a /\ ~bow'[b].charging
  <2>1. ~bow'[b].charging
    BY <1>1 DEF Release, Let, TypeOK, BowRecord
  <2>2. ASSUME bow[b].prepared # a PROVE arrow'[a] = aged[a]
    BY <1>1, <2>2 DEF Release
  <2> QED
    BY <1>1, <2>1, <2>2
<1>2. CASE EndDraw(b)
  BY <1>1, <1>2 DEF EndDraw, TypeOK
<1>3. ASSUME NEW dt \in FrameTimes, Tick(b, dt)
      PROVE  bow[b].charging /\ bow[b].prepared = a /\ ~bow'[b].charging
  <2>1. Aged(b, dt) \in [Arrow -> ArrowRecord]
    BY AgedType
  <2>2. Aged(b, dt)[a].phase = arrow[a].phase
    BY <2>1 DEF Aged, TypeOK, ArrowRecord
  <2>3. arrow' # Aged(b, dt)
    BY <2>2
  <2> QED
    BY <1>1, <1>3, <2>1, <2>2, <2>3 DEF Tick
<1> QED
  BY <1>2, <1>3

\* An arrow that comes to its end.
LEMMA GoneCall ==
    ASSUME TypeOK, NEW a \in Arrow, ArrowGone(a)
    PROVE  /\ TypeOK' /\ bow' = bow
           /\ \A x \in Arrow : arrow'[x].phase = "loosed" => arrow'[x] = arrow[x]
           /\ NoneStranded => NoneStranded'
<1>1. TypeOK'
  BY NextTypeOK DEF Next
<1>2. /\ bow' = bow /\ arrow'[a].phase = "none"
      /\ \A x \in Arrow \ {a} : arrow'[x] = arrow[x]
  BY DEF ArrowGone, NoFlight, TypeOK
<1> QED
  BY <1>1, <1>2 DEF NoneStranded

\* The garbage collector strands no arrow.
LEMMA CollectedCall ==
    ASSUME TypeOK, NEW c, Collected(c), NoneStranded
    PROVE  NoneStranded'
BY CollectedKeeps DEF NoneStranded
=============================================================================
