------------------------------- MODULE Combat -------------------------------
(***************************************************************************)
(* What a loosed arrow does, on the authority: AArrowProjectile::OnHit,    *)
(* the HealthComponent of what it hits, the GameMode's decision that the   *)
(* victim died, and the death of a character.                              *)
(*                                                                         *)
(* A hit is one call chain on the game thread and so one action here:      *)
(* OnHit -> ApplyDamage -> DamageTaken -> ActorDied -> Die -> OnDeath,     *)
(* back to the arrow.  The functions on body records below are the links   *)
(* of the chain.                                                           *)
(*                                                                         *)
(* Bow.tla models how an arrow comes to be loosed; here a character looses *)
(* one whenever its bow may: that includes a character that is dead or     *)
(* destroyed, as long as the bow's OwnerCharacter still points to it.      *)
(***************************************************************************)
EXTENDS Integers, FiniteSets

CONSTANTS
    Character,
    User,           \* the characters that are AUserCharacter; the others are AAICharacter
    Arrow,
    NoCharacter,    \* the null pointer
    MaxHealth,
    Damage,
    MeshBlocks,     \* characters whose mesh stops arrows even when the capsule does not
    GameModeFound   \* whether the level's GameMode is AArrowGameGameMode

ASSUME CombatAssumption == /\ NoCharacter \notin Character
                           /\ User \subseteq Character
                           /\ MeshBlocks \subseteq Character
                           /\ MaxHealth \in Nat \ {0}
                           /\ Damage \in Nat \ {0}
                           /\ GameModeFound \in BOOLEAN
                           /\ IsFiniteSet(Arrow)

VARIABLES
    body,   \* Character -> its health and death
    shot    \* Arrow -> where it is in its life

vars == <<body, shot>>

\* removal: Destroy() not scheduled, scheduled, done, and the memory reclaimed.
\* deaths is auxiliary: how often OnDeath ran.
BodyRecord == [health  : Int,
               dead    : BOOLEAN,
               capsule : BOOLEAN,
               input   : BOOLEAN,
               montage : {"none", "hit", "death"},
               removal : {"none", "scheduled", "destroyed", "collected"},
               deaths  : Nat]

\* shooter is the arrow's Owner and Instigator, set together when it is spawned.
\* firedBy, victim and impacts are auxiliary: who loosed it, whom ApplyDamage was last
\* called on, and how many hits OnHit acted on.
ShotRecord == [phase   : {"none", "flying", "stuck", "destroyed"},
               shooter : Character \cup {NoCharacter},
               firedBy : Character \cup {NoCharacter},
               victim  : Character \cup {NoCharacter},
               impacts : 0 .. 1]

TypeOK == /\ body \in [Character -> BodyRecord]
          /\ shot \in [Arrow -> ShotRecord]

Init == /\ body = [c \in Character |-> [health |-> MaxHealth, dead |-> FALSE, capsule |-> TRUE,
                                        input |-> c \in User, montage |-> "none",
                                        removal |-> "none", deaths |-> 0]]
        /\ shot = [a \in Arrow |-> [phase |-> "none", shooter |-> NoCharacter,
                                    firedBy |-> NoCharacter, victim |-> NoCharacter,
                                    impacts |-> 0]]

----------------------------------------------------------------------------
(* The death of a character. *)

PlayMontage(w, montage) == IF w.dead THEN w ELSE [w EXCEPT !.montage = montage]

OnDeath(w) == [w EXCEPT !.input = FALSE, !.removal = "scheduled", !.deaths = @ + 1]

\* Mutant: the capsule of the dead stays solid.
OnRep_IsDeadSolid(w) == OnDeath([PlayMontage(w, "death") EXCEPT !.input = FALSE])

OnRep_IsDead(w) ==
    OnDeath([PlayMontage(w, "death") EXCEPT !.capsule = FALSE, !.input = FALSE])

\* Mutant: a character dies again with every hit.
DieAgain(w) == OnRep_IsDead([w EXCEPT !.dead = TRUE])

\* bIsDead is set before the handler that plays the montage runs.
Die(w) == IF w.dead THEN w ELSE OnRep_IsDead([w EXCEPT !.dead = TRUE])

SetPlayerEnabledState(w, enabled) == [w EXCEPT !.input = enabled]

ActorDied(c, w) == IF c \in User THEN SetPlayerEnabledState(Die(w), FALSE) ELSE Die(w)

OnRep_Health(w) == IF w.health > 0 THEN PlayMontage(w, "hit") ELSE w

\* Mutant: death takes a health below zero.
DamageTakenBelowZero(c, w) ==
    LET hurt == OnRep_Health([w EXCEPT !.health = @ - Damage])
    IN  IF hurt.health < 0 /\ GameModeFound THEN ActorDied(c, hurt) ELSE hurt

DamageTaken(c, w) ==
    LET hurt == OnRep_Health([w EXCEPT !.health = @ - Damage])
    IN  IF hurt.health <= 0 /\ GameModeFound THEN ActorDied(c, hurt) ELSE hurt

----------------------------------------------------------------------------
(* The arrow. *)

\* The owner the arrow was spawned with is the owner its bow still points to.
Loose(a, c) ==
    /\ shot[a].phase = "none"
    /\ body[c].removal # "collected"
    /\ shot' = [shot EXCEPT ![a].phase = "flying", ![a].shooter = c, ![a].firedBy = c]
    /\ UNCHANGED body

\* Something an arrow can run into, or that can run into an arrow.
Solid(c) == /\ body[c].removal \in {"none", "scheduled"}
            /\ body[c].capsule \/ c \in MeshBlocks

\* Mutant: the arrow goes on after it has hit a pawn.
HitCharacterThrough(a, c) ==
    /\ shot[a].phase = "flying"
    /\ Solid(c)
    /\ shot[a].shooter \notin {c, NoCharacter}
    /\ body' = [body EXCEPT ![c] = DamageTaken(c, @)]
    /\ shot' = [shot EXCEPT ![a].victim = c, ![a].impacts = @ + 1]

\* Mutant: OnHit does not compare what it hit with the arrow's owner.
HitCharacterOrShooter(a, c) ==
    /\ shot[a].phase = "flying"
    /\ Solid(c)
    /\ shot[a].shooter # NoCharacter
    /\ body' = [body EXCEPT ![c] = DamageTaken(c, @)]
    /\ shot' = [shot EXCEPT ![a].phase = "destroyed", ![a].victim = c, ![a].impacts = @ + 1]

\* OnHit with a character other than the shooter, which it ignores.
HitCharacter(a, c) ==
    /\ shot[a].phase = "flying"
    /\ Solid(c)
    /\ shot[a].shooter \notin {c, NoCharacter}
    /\ body' = [body EXCEPT ![c] = DamageTaken(c, @)]
    /\ shot' = [shot EXCEPT ![a].phase = "destroyed", ![a].victim = c, ![a].impacts = @ + 1]

\* Mutant: an arrow is attached to what it hits without being stopped.
HitObjectMoving(a) ==
    /\ shot[a].phase = "flying"
    /\ shot[a].shooter # NoCharacter
    /\ shot' = [shot EXCEPT ![a].impacts = @ + 1]
    /\ UNCHANGED body

\* OnHit with anything else that has no health: the world, or a body under physics.
HitObject(a) ==
    /\ shot[a].phase = "flying"
    /\ shot[a].shooter # NoCharacter
    /\ shot' = [shot EXCEPT ![a].phase = "stuck", ![a].impacts = @ + 1]
    /\ UNCHANGED body

\* OnHit with anything, once the arrow has no owner.
HitOwnerless(a) ==
    /\ shot[a].phase = "flying"
    /\ shot[a].shooter = NoCharacter
    /\ shot' = [shot EXCEPT ![a].phase = "destroyed"]
    /\ UNCHANGED body

\* The projectile movement destroys what leaves the world.
FliesOff(a) == /\ shot[a].phase = "flying"
               /\ shot' = [shot EXCEPT ![a].phase = "destroyed"]
               /\ UNCHANGED body

----------------------------------------------------------------------------
(* The end of a character. *)

Remove(c) == /\ body[c].removal = "scheduled"
             /\ body' = [body EXCEPT ![c].removal = "destroyed"]
             /\ UNCHANGED shot

CollectGarbage(c) ==
    /\ body[c].removal = "destroyed"
    /\ body' = [body EXCEPT ![c].removal = "collected"]
    /\ shot' = [a \in Arrow |-> IF shot[a].shooter = c
                                THEN [shot[a] EXCEPT !.shooter = NoCharacter] ELSE shot[a]]

----------------------------------------------------------------------------
Next == \/ \E a \in Arrow : \/ \E c \in Character : Loose(a, c) \/ HitCharacter(a, c)
                            \/ HitObject(a)
                            \/ HitOwnerless(a)
                            \/ FliesOff(a)
        \/ \E c \in Character : Remove(c) \/ CollectGarbage(c)

Spec == Init /\ [][Next]_vars

----------------------------------------------------------------------------
(* Safety. *)

\* The arrows that took health from c.
Wounds(c) == {a \in Arrow : shot[a].victim = c}

\* Every point of health that is missing was taken by an arrow, Damage for each, and each
\* arrow took it from one character once: no hit counts twice, none is forgotten, also
\* when a hit kills or comes after death.
HealthAccount ==
    \A c \in Character :
        body[c].health = MaxHealth - Damage * Cardinality(Wounds(c))

\* Death is the GameMode's decision and agrees with health: no living character has none
\* left and no dead one has any.
DeadIffNoHealth == GameModeFound => \A c \in Character : body[c].dead <=> body[c].health <= 0

\* However many arrows hit a dying or dead character, OnDeath runs once, and only the
\* dead are ever scheduled for removal (ArrowCharacter.cpp:59); HealthComponent sends
\* every hit below zero to ActorDied again (HealthComponent.cpp:90).
DiesOnce == \A c \in Character :
    /\ body[c].deaths = IF body[c].dead THEN 1 ELSE 0
    /\ body[c].removal = "none" <=> ~body[c].dead

\* Nobody is hurt by an arrow of his own, also when its owner is collected while it
\* flies: OnHit tells the shooter by that pointer alone (ArrowProjectile.cpp:117).
NoSelfHarm == \A a \in Arrow : shot[a].victim # NoCharacter => shot[a].victim # shot[a].firedBy

\* No dead character's input is ever on again, whichever hits come late.
DeadCannotAct == \A c \in Character : body[c].dead => ~body[c].input

\* A corpse whose mesh lets arrows through is never hit: the capsule is switched off with
\* the death itself (ArrowCharacter.cpp:82-83).
CorpseUnharmed ==
    [][\A c \in Character \ MeshBlocks : body[c].dead => body'[c].health = body[c].health]_vars

----------------------------------------------------------------------------
(* The inductive invariant behind the safety properties. *)

\* What holds of a character between two hits.
BodySound(w) == /\ w.deaths = IF w.dead THEN 1 ELSE 0
                /\ w.removal = "none" <=> ~w.dead
                /\ w.dead => ~w.input /\ ~w.capsule
                /\ GameModeFound => (w.dead <=> w.health <= 0)

\* An arrow has a victim and an impact only once it has stopped, and while it has an
\* owner that owner is who loosed it.
ShotSound(s) == /\ s.phase \in {"none", "flying"} => s.victim = NoCharacter /\ s.impacts = 0
                /\ s.phase = "flying" => s.firedBy # NoCharacter
                /\ s.shooter \in {s.firedBy, NoCharacter}
                /\ s.victim # NoCharacter => s.victim # s.firedBy

CombatInv == /\ TypeOK
             /\ \A c \in Character : BodySound(body[c])
             /\ \A a \in Arrow : ShotSound(shot[a])
             /\ HealthAccount

----------------------------------------------------------------------------
(* What a comment says. *)

\* "Play the death animation" (ArrowCharacter.cpp:76): a dead character shows it.
DeathIsShown == \A c \in Character : body[c].dead => body[c].montage = "death"
=============================================================================
