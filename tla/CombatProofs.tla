---------------------------- MODULE CombatProofs ----------------------------
(***************************************************************************)
(* Proofs about Combat.tla, for every set of characters, every finite set  *)
(* of arrows, and every amount of health and damage.                       *)
(***************************************************************************)
EXTENDS Combat, FiniteSetTheorems, TLAPS

----------------------------------------------------------------------------
(* The chain of calls that a hit starts, on the record of the one it hits. *)

\* OnDeath runs on a character that has just died, and leaves it sound.
LEMMA DieSound ==
    ASSUME NEW w \in BodyRecord, w.health <= 0,
           w.deaths = (IF w.dead THEN 1 ELSE 0), w.removal = "none" <=> ~w.dead,
           w.dead => ~w.input /\ ~w.capsule
    PROVE  /\ Die(w) \in BodyRecord
           /\ Die(w).dead
           /\ Die(w).health = w.health
           /\ BodySound(Die(w))
<1>1. CASE w.dead
  BY <1>1 DEF Die, BodySound, BodyRecord
<1>2. CASE ~w.dead
  <2> DEFINE u == [w EXCEPT !.dead = TRUE]
             v == [u EXCEPT !.capsule = FALSE, !.input = FALSE]
  <2>1. PlayMontage(u, "death") = u
    BY DEF PlayMontage, BodyRecord
  <2>2. Die(w) = OnDeath(v)
    BY <1>2, <2>1 DEF Die, OnRep_IsDead
  <2>3. /\ OnDeath(v) \in BodyRecord
        /\ OnDeath(v).dead /\ ~OnDeath(v).input /\ ~OnDeath(v).capsule
        /\ OnDeath(v).health = w.health
        /\ OnDeath(v).removal = "scheduled"
        /\ OnDeath(v).deaths = 1
    <3>1. /\ v \in BodyRecord
          /\ v.dead /\ ~v.input /\ ~v.capsule
          /\ v.health = w.health /\ v.deaths = 0
      BY <1>2 DEF BodyRecord
    <3> DEFINE d == OnDeath(v)
    <3> HIDE DEF v
    <3>2. d = [v EXCEPT !.input = FALSE, !.removal = "scheduled", !.deaths = 1]
      BY <3>1 DEF OnDeath, BodyRecord
    <3> HIDE DEF d
    <3>3. /\ d \in BodyRecord
          /\ d.dead /\ ~d.input /\ ~d.capsule
          /\ d.health = w.health /\ d.removal = "scheduled" /\ d.deaths = 1
      BY <3>1, <3>2 DEF BodyRecord
    <3> QED
      BY <3>3 DEF d
  <2> QED
    BY <2>2, <2>3 DEF BodySound, BodyRecord
<1> QED
  BY <1>1, <1>2

\* One hit takes Damage, whatever else it sets off, and leaves its victim sound.
LEMMA DamageTakenSound ==
    ASSUME NEW c \in Character, NEW w \in BodyRecord, BodySound(w)
    PROVE  /\ DamageTaken(c, w) \in BodyRecord
           /\ DamageTaken(c, w).health = w.health - Damage
           /\ BodySound(DamageTaken(c, w))
<1> DEFINE u == [w EXCEPT !.health = @ - Damage]
           h == OnRep_Health(u)
<1>1. /\ h \in BodyRecord
      /\ h.health = w.health - Damage
      /\ h.dead = w.dead /\ h.deaths = w.deaths /\ h.removal = w.removal
      /\ h.input = w.input /\ h.capsule = w.capsule
  <2>1. /\ u \in BodyRecord
        /\ u.health = w.health - Damage
        /\ u.dead = w.dead /\ u.deaths = w.deaths /\ u.removal = w.removal
        /\ u.input = w.input /\ u.capsule = w.capsule
    BY CombatAssumption DEF BodyRecord
  <2> QED
    BY <2>1 DEF OnRep_Health, PlayMontage, BodyRecord
<1>2. CASE h.health <= 0 /\ GameModeFound
  <2>1. DamageTaken(c, w) = ActorDied(c, h)
    BY <1>2 DEF DamageTaken
  <2>2. /\ Die(h) \in BodyRecord /\ Die(h).dead /\ Die(h).health = h.health
        /\ BodySound(Die(h))
    BY <1>1, <1>2, DieSound DEF BodySound
  <2>3. ASSUME NEW d \in BodyRecord, d.dead, BodySound(d)
        PROVE  /\ SetPlayerEnabledState(d, FALSE) \in BodyRecord
               /\ SetPlayerEnabledState(d, FALSE).health = d.health
               /\ BodySound(SetPlayerEnabledState(d, FALSE))
    BY <2>3 DEF SetPlayerEnabledState, BodySound, BodyRecord
  <2> QED
    BY <1>1, <2>1, <2>2, <2>3 DEF ActorDied
<1>3. CASE ~(h.health <= 0 /\ GameModeFound)
  <2>1. DamageTaken(c, w) = h
    BY <1>3 DEF DamageTaken
  <2>2. GameModeFound => (h.dead <=> h.health <= 0)
    BY <1>1, <1>3, CombatAssumption DEF BodySound, BodyRecord
  <2> QED
    BY <1>1, <2>1, <2>2 DEF BodySound
<1> QED
  BY <1>2, <1>3

----------------------------------------------------------------------------
(* Counting wounds. *)

\* Adding one arrow to the wounds of c adds one.
LEMMA OneMoreWound ==
    ASSUME NEW S \in SUBSET Arrow, NEW a \in Arrow \ S
    PROVE  /\ Cardinality(S) \in Nat
           /\ Cardinality(S \cup {a}) = Cardinality(S) + 1
<1>1. IsFiniteSet(S)
  BY FS_Subset, CombatAssumption
<1> QED
  BY <1>1, FS_AddElement, FS_CardinalityType

----------------------------------------------------------------------------
(* The inductive invariant. *)

LEMMA InitInv == Init => CombatInv
<1> SUFFICES ASSUME Init PROVE CombatInv
  OBVIOUS
<1>1. TypeOK
  BY CombatAssumption DEF Init, TypeOK, BodyRecord, ShotRecord
<1>2. \A c \in Character : BodySound(body[c])
  BY CombatAssumption DEF Init, BodySound
<1>3. \A a \in Arrow : ShotSound(shot[a])
  BY DEF Init, ShotSound
<1>4. HealthAccount
  <2>1. \A c \in Character : Wounds(c) = {}
    BY CombatAssumption DEF Init, Wounds
  <2>2. Cardinality({}) = 0
    BY FS_EmptySet
  <2>3. \A c \in Character : body[c].health = MaxHealth
    BY DEF Init
  <2>4. MaxHealth - Damage * 0 = MaxHealth
    BY CombatAssumption
  <2> QED
    BY <2>1, <2>2, <2>3, <2>4 DEF HealthAccount
<1> QED
  BY <1>1, <1>2, <1>3, <1>4 DEF CombatInv

\* Steps that hurt nobody: they leave health, death and victims as they are.
LEMMA HarmlessInv ==
    ASSUME CombatInv, TypeOK',
           \A c \in Character : body'[c].health = body[c].health /\ BodySound(body'[c]),
           \A a \in Arrow : shot'[a].victim = shot[a].victim /\ ShotSound(shot'[a])
    PROVE  CombatInv'
<1>1. \A c \in Character : Wounds(c)' = Wounds(c)
  BY DEF Wounds
<1>2. HealthAccount'
  BY <1>1 DEF CombatInv, HealthAccount
<1>3. \A c \in Character : BodySound(body[c])'
  BY DEF BodySound
<1>4. \A a \in Arrow : ShotSound(shot[a])'
  BY DEF ShotSound
<1> QED
  BY <1>2, <1>3, <1>4 DEF CombatInv

LEMMA HitCharacterInv ==
    ASSUME CombatInv, NEW a \in Arrow, NEW c \in Character, HitCharacter(a, c)
    PROVE  CombatInv'
<1> DEFINE s == [shot[a] EXCEPT !.phase = "destroyed", !.victim = c, !.impacts = @ + 1]
           w == DamageTaken(c, body[c])
<1>0. TypeOK /\ BodySound(body[c]) /\ ShotSound(shot[a])
  BY DEF CombatInv
<1>1. /\ w \in BodyRecord
      /\ w.health = body[c].health - Damage
      /\ BodySound(w)
  BY <1>0, DamageTakenSound DEF TypeOK
<1>2. /\ shot[a].phase = "flying" /\ shot[a].shooter \notin {c, NoCharacter}
      /\ shot[a].victim = NoCharacter /\ shot[a].impacts = 0
      /\ shot[a].firedBy = shot[a].shooter
      /\ shot[a] \in ShotRecord
  BY <1>0 DEF HitCharacter, ShotSound, TypeOK
<1>3. /\ body' \in [Character -> BodyRecord]
      /\ body'[c] = w
      /\ \A d \in Character \ {c} : body'[d] = body[d]
  BY <1>0, <1>1 DEF HitCharacter, TypeOK
<1>4. s \in ShotRecord /\ ShotSound(s) /\ s.victim = c
  <2>1. /\ s.phase = "destroyed" /\ s.victim = c /\ s.impacts = 1
        /\ s.shooter = shot[a].shooter /\ s.firedBy = shot[a].firedBy
        /\ s \in ShotRecord
    <3>1. s = [shot[a] EXCEPT !.phase = "destroyed", !.victim = c, !.impacts = 1]
      BY <1>2 DEF ShotRecord
    <3> HIDE DEF s, w
    <3>2. /\ s.phase = "destroyed" /\ s.victim = c /\ s.impacts = 1
          /\ s.shooter = shot[a].shooter /\ s.firedBy = shot[a].firedBy
      BY <1>2, <3>1 DEF ShotRecord
    <3>3. s \in ShotRecord
      <4>1. s = [phase |-> "destroyed", shooter |-> shot[a].shooter,
                 firedBy |-> shot[a].firedBy, victim |-> c, impacts |-> 1]
        BY <1>2, <3>1 DEF ShotRecord
      <4>2. /\ shot[a].shooter \in Character \cup {NoCharacter}
            /\ shot[a].firedBy \in Character \cup {NoCharacter}
        BY <1>2 DEF ShotRecord
      <4>3. 1 \in 0 .. 1
        OBVIOUS
      <4> QED
        BY <4>1, <4>2, <4>3 DEF ShotRecord
    <3> QED
      BY <3>2, <3>3
  <2> HIDE DEF s
  <2> QED
    BY <1>2, <2>1 DEF ShotSound
<1>5. /\ shot' \in [Arrow -> ShotRecord]
      /\ shot'[a] = s
      /\ \A x \in Arrow \ {a} : shot'[x] = shot[x]
  BY <1>0, <1>4 DEF HitCharacter, TypeOK
<1> HIDE DEF s, w
<1>6. TypeOK'
  BY <1>3, <1>5 DEF TypeOK
<1>7. \A d \in Character : BodySound(body[d])'
  BY <1>1, <1>3 DEF CombatInv, BodySound
<1>8. \A x \in Arrow : ShotSound(shot[x])'
  BY <1>4, <1>5 DEF CombatInv, ShotSound
<1>9. HealthAccount'
  <2>1. /\ Wounds(c)' = Wounds(c) \cup {a}
        /\ a \notin Wounds(c) /\ Wounds(c) \in SUBSET Arrow
    BY <1>2, <1>4, <1>5, CombatAssumption DEF Wounds
  <2>2. \A d \in Character \ {c} : Wounds(d)' = Wounds(d)
    BY <1>2, <1>4, <1>5, CombatAssumption DEF Wounds
  <2>3. Cardinality(Wounds(c))' = Cardinality(Wounds(c)) + 1 /\ Cardinality(Wounds(c)) \in Nat
    BY <2>1, OneMoreWound
  <2>4. body'[c].health = MaxHealth - Damage * Cardinality(Wounds(c))'
    <3>1. body[c].health = MaxHealth - Damage * Cardinality(Wounds(c))
      BY DEF CombatInv, HealthAccount
    <3> QED
      BY <1>1, <1>3, <2>3, <3>1, CombatAssumption
  <2>5. \A d \in Character \ {c} :
           body'[d].health = MaxHealth - Damage * Cardinality(Wounds(d))'
    BY <1>3, <2>2 DEF CombatInv, HealthAccount
  <2> QED
    BY <2>4, <2>5 DEF HealthAccount
<1> QED
  BY <1>6, <1>7, <1>8, <1>9 DEF CombatInv

LEMMA NextInv == CombatInv /\ [Next]_vars => CombatInv'
<1> SUFFICES ASSUME CombatInv, [Next]_vars PROVE CombatInv'
  OBVIOUS
<1>0. /\ TypeOK
      /\ \A c \in Character : BodySound(body[c])
      /\ \A a \in Arrow : ShotSound(shot[a])
  BY DEF CombatInv
<1>1. ASSUME NEW a \in Arrow, NEW c \in Character, Loose(a, c) PROVE CombatInv'
  <2>1. TypeOK' /\ body' = body
    BY <1>0, <1>1, ZenonT(60) DEF Loose, TypeOK, ShotRecord
  <2>2. \A x \in Arrow : shot'[x].victim = shot[x].victim /\ ShotSound(shot'[x])
    BY <1>0, <1>1, CombatAssumption DEF Loose, TypeOK, ShotRecord, ShotSound
  <2> QED
    BY <1>0, <2>1, <2>2, HarmlessInv
<1>2. ASSUME NEW a \in Arrow, NEW c \in Character, HitCharacter(a, c) PROVE CombatInv'
  BY <1>2, HitCharacterInv
<1>3. ASSUME NEW a \in Arrow, HitObject(a) PROVE CombatInv'
  <2>1. TypeOK' /\ body' = body
    BY <1>0, <1>3 DEF HitObject, TypeOK, ShotRecord, ShotSound
  <2>2. \A x \in Arrow : shot'[x].victim = shot[x].victim /\ ShotSound(shot'[x])
    BY <1>0, <1>3 DEF HitObject, TypeOK, ShotRecord, ShotSound
  <2> QED
    BY <1>0, <2>1, <2>2, HarmlessInv
<1>4. ASSUME NEW a \in Arrow, HitOwnerless(a) \/ FliesOff(a) PROVE CombatInv'
  <2>1. TypeOK' /\ body' = body
    BY <1>0, <1>4 DEF HitOwnerless, FliesOff, TypeOK, ShotRecord
  <2>2. \A x \in Arrow : shot'[x].victim = shot[x].victim /\ ShotSound(shot'[x])
    BY <1>0, <1>4 DEF HitOwnerless, FliesOff, TypeOK, ShotRecord, ShotSound
  <2> QED
    BY <1>0, <2>1, <2>2, HarmlessInv
<1>5. ASSUME NEW c \in Character, Remove(c) PROVE CombatInv'
  <2>1. TypeOK' /\ shot' = shot
    BY <1>0, <1>5 DEF Remove, TypeOK, BodyRecord
  <2>2. \A d \in Character : body'[d].health = body[d].health /\ BodySound(body'[d])
    BY <1>0, <1>5 DEF Remove, TypeOK, BodyRecord, BodySound
  <2> QED
    BY <1>0, <2>1, <2>2, HarmlessInv
<1>6. ASSUME NEW c \in Character, CollectGarbage(c) PROVE CombatInv'
  <2>1. TypeOK'
    BY <1>0, <1>6, SMTT(30) DEF CollectGarbage, TypeOK, BodyRecord, ShotRecord
  <2>2. \A d \in Character : body'[d].health = body[d].health /\ BodySound(body'[d])
    BY <1>0, <1>6 DEF CollectGarbage, TypeOK, BodyRecord, BodySound
  <2>3. \A x \in Arrow : shot'[x].victim = shot[x].victim /\ ShotSound(shot'[x])
    BY <1>0, <1>6 DEF CollectGarbage, TypeOK, ShotRecord, ShotSound
  <2> QED
    BY <2>1, <2>2, <2>3, HarmlessInv
<1>7. CASE UNCHANGED vars
  <2>1. TypeOK'
    BY <1>0, <1>7 DEF vars, TypeOK
  <2> QED
    BY <1>0, <1>7, <2>1, HarmlessInv DEF vars
<1> QED
  BY <1>1, <1>2, <1>3, <1>4, <1>5, <1>6, <1>7 DEF Next

THEOREM Invariance == Spec => []CombatInv
<1>1. Init => CombatInv
  BY InitInv
<1>2. CombatInv /\ [Next]_vars => CombatInv'
  BY NextInv
<1> QED
  BY <1>1, <1>2, PTL DEF Spec

----------------------------------------------------------------------------
(* What the invariant says. *)

\* Types; no arrow acts on two hits.
THEOREM TypeCorrect == Spec => []TypeOK
<1>1. CombatInv => TypeOK
  BY DEF CombatInv
<1> QED
  BY <1>1, Invariance, PTL

\* The missing health is Damage for each arrow that hit.
THEOREM HealthAccounted == Spec => []HealthAccount
<1>1. CombatInv => HealthAccount
  BY DEF CombatInv
<1> QED
  BY <1>1, Invariance, PTL

\* Death and health agree.
THEOREM DeathMeansNoHealth == Spec => []DeadIffNoHealth
<1>1. CombatInv => DeadIffNoHealth
  BY DEF CombatInv, BodySound, DeadIffNoHealth
<1> QED
  BY <1>1, Invariance, PTL

\* OnDeath runs once for each dead character.
THEOREM DeathsOnce == Spec => []DiesOnce
<1>1. CombatInv => DiesOnce
  BY DEF CombatInv, BodySound, DiesOnce
<1> QED
  BY <1>1, Invariance, PTL

\* Nobody is hurt by his own arrow.
THEOREM OwnArrowsSpare == Spec => []NoSelfHarm
<1>1. CombatInv => NoSelfHarm
  BY DEF CombatInv, ShotSound, NoSelfHarm
<1> QED
  BY <1>1, Invariance, PTL

\* The dead have no input.
THEOREM DeadInputOff == Spec => []DeadCannotAct
<1>1. CombatInv => DeadCannotAct
  BY DEF CombatInv, BodySound, DeadCannotAct
<1> QED
  BY <1>1, Invariance, PTL

\* A corpse whose mesh lets arrows through loses no more health.
THEOREM CorpsesUnharmed == Spec => CorpseUnharmed
<1>1. ASSUME CombatInv, [Next]_vars, NEW c \in Character \ MeshBlocks, body[c].dead
      PROVE  body'[c].health = body[c].health
  <2>0. TypeOK /\ ~body[c].capsule
    BY <1>1 DEF CombatInv, BodySound
  <2>1. ASSUME NEW a \in Arrow, NEW d \in Character, HitCharacter(a, d)
        PROVE  body'[c].health = body[c].health
    BY <1>1, <2>0, <2>1 DEF HitCharacter, Solid, TypeOK
  <2>2. ASSUME NEW d \in Character, Remove(d) \/ CollectGarbage(d)
        PROVE  body'[c].health = body[c].health
    BY <1>1, <2>0, <2>2 DEF Remove, CollectGarbage, TypeOK, BodyRecord
  <2>3. ASSUME body' = body PROVE body'[c].health = body[c].health
    BY <2>3
  <2> QED
    BY <1>1, <2>1, <2>2, <2>3 DEF Next, vars, Loose, HitObject, HitOwnerless, FliesOff
<1>2. CombatInv /\ [Next]_vars =>
        [\A c \in Character \ MeshBlocks : body[c].dead => body'[c].health = body[c].health]_vars
  BY <1>1
<1> QED
  BY <1>2, Invariance, PTL DEF Spec, CorpseUnharmed
=============================================================================
