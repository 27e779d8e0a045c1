# ArrowGame: verification models

TLA+ models of the game code in `src/Source/ArrowGame` (Unreal Engine 5.4, C++), archery combat
between player characters and AI archers, and of the core of the RD framework that the editor
plugin in `src/Plugins/Developer/RiderLink` carries. TLC checks the models on small instances; TLAPS
proves their safety properties for every value of their constants.

Each module is translated from the C++ source; `PROJECT.json` names, for each definition, the source
lines it stands for. Paths of the game are below `src/Source/ArrowGame`, those of the RD framework
below `src/Plugins/Developer/RiderLink/Source/RD/src/rd_framework_cpp/src/main`.

## 1. The system

| Component | State | Operations | Modelled in |
|---|---|---|---|
| Bow (`Weapon/Bow.*`, `Weapon/Weapon.*`) | `OwnerCharacter`, `bIsAiming`, `bIsCharging`, `ChargeTime`, `BowState`, `PreparedArrow` | `OnEquip`, `OnUnequip`, `StartAim`, `StopAim`, `StartDraw`, `EndDraw`, `Tick`/`HandleCharge`, `FireArrow` | `Bow.tla` |
| AI archer (`AI/AICharacter.*`) | `bIsDead`, `bCanAttack`, `CurrentTarget`, four timer handles and the removal timer | `TryAttackTarget`, `SearchForTarget`, `BeginAIAim`, `BeginAIDraw`, `EndAIDrawAndFire`, `ResetAttackCooldown`, `OnDeath` | `AICharacter.tla` over `Bow.tla` |
| Player (`Character/UserCharacter.*`, `UserCharacterAnimInstance.*`) | `bCanMove`, `bIsRolling`, `MaxWalkSpeed`, `bUseControllerRotationYaw`, `bIsDead` | key handlers, `Roll`, `OnRollEnd`, `SetCanMove`, `Tick`, `OnDeath` | `UserCharacter.tla` over `Bow.tla` |
| Arrow (`Weapon/ArrowProjectile.*`) | `bStuck`, owner and instigator, collision | `OnHit`, `StopAndDisable`, `HitPhysicsObject`, `StickIntoWorld` | `Combat.tla` |
| Health (`Component/HealthComponent.*`) | `Health`, the cached GameMode | `DamageTaken`, `OnRep_Health`, `BeginPlay` | `Combat.tla`, `CombatReplication.tla` |
| Character base (`Character/ArrowCharacter.*`) | `bIsDead`, `EquippedWeapon`, capsule collision | `Die`, `OnRep_IsDead`, `PlayMontage`, `BeginPlay`, `EquipWeapon` | `Combat.tla`, `CombatReplication.tla`, `BowReplication.tla` |
| GameMode, PlayerController (`Core/*`) | input enabled | `ActorDied`, `SetPlayerEnabledState` | `Combat.tla` |
| Networking (`GetLifetimeReplicatedProps`, `OnRep_*`, Server RPCs of the above) | each machine's copy of an actor | replication, notifications, RPCs | `CombatReplication.tla`, `BowReplication.tla` |
| RD wire (`wire/ByteBufferAsyncProcessor.*`, `wire/SocketWire.*`) | `data`, `queue`, `pending_queue`, sequence numbers, pauses; the receiver's last sequence number | `put`, `ThreadProc`, `process`, `reprocess`, `pause`, `resume`, `acknowledge`, `read_package` | `Wire.tla` |
| RD properties and maps (`base/RdPropertyBase.h`, `impl/RdMap.h`) | value and `master_version`; entries, `next_version`, `pendingForAck` | local changes, `on_wire_received` | `RdProperty.tla`, `RdMap.tla` |

How they interact. A character's `BeginPlay` spawns its bow and equips it (`OwnerCharacter`). Keys
(player) or timers (AI) call the bow. The bow's own tick advances the charge and, after
`AutoReleaseTime`, calls `EndDraw` itself. A loosed arrow is an actor of its own; `OnHit` calls
`ApplyDamage`, which calls `DamageTaken` on the victim's health component, which calls
`GameMode::ActorDied`, which calls `Die`, `OnRep_IsDead` and `OnDeath`, all in one call chain on the
game thread. `OnDeath` schedules `Destroy()` three seconds later. Destroying an actor leaves
pointers to it in place until the garbage collector clears them. In a networked game the server
runs all of this; the engine sends the registered properties (`Health`, `bIsDead`, the bow's
`bIsCharging`, `PreparedArrow` and `BowState`) to the clients, where the `OnRep_` handlers run.

RiderLink does not touch the game. It joins the editor to an IDE: entities such as properties and
maps live at both ends, send their changes through the wire, and handle what they receive on a
scheduler. The wire keeps every message until it is acknowledged, and sends it again after the
connection broke.

What is hard to test here:

- the order of calls on a bow, which has no protocol of its own beyond a few early returns: draws
  without an owner, failed spawns, releases that cannot fire, a bow that acts by itself;
- five timers per AI that are independent of the bow's charge clock and of each other, moved by
  frames of varying length, and not all cleared by death;
- death in the middle of anything: hits on the dying, arrows of the dead, bows of the dead, actors
  that are destroyed but not yet collected;
- flags set by several handlers (`bCanMove`, `MaxWalkSpeed`, `bUseControllerRotationYaw`) under any
  order of keys and animation callbacks;
- the client's view: packets that are lost, sent again, coalesced and torn apart; clients that join
  late; a second arrow that hits on the client; actors that each machine spawns for itself;
- the wire: two threads and two locks, connections that break anywhere, messages sent twice,
  acknowledgements that are lost with the connection;
- changes of the same property or key made at both ends at once.

`PROJECT.json` lists each hazard at its line with the properties that cover it.

What makes each component correct:

- Bow: an aim cannot be lowered under a draw; an arrow is on one bow, leaves once, and only at the
  end of a draw, with the speed of that draw; a draw is bounded; `BowState` can be trusted.
- AI: one attack at a time; shots at full power; no arrow left on a bow nobody draws; it goes on
  shooting; after death its timers start nothing, and it is removed.
- Player: no order of keys leaves the camera or the bow engaged; a draw always ends.
- Combat: health is exactly accounted for by hits; death and health agree; death runs once;
  corpses and the input of the dead stay dead.
- Networking: a client never shows what has not happened, runs a death once, and catches up.
- Wire: nothing is lost, doubled or reordered on the sender; no message overtakes another; what was
  sent arrives.
- Properties and maps: both ends agree when nothing is under way; no key stays closed.

## 2. The modules

`Bow.tla`. `bow[b]` is a record of the fields of `ABow` that control it; `arrow[a]` is what an arrow
is to a bow: not there, nocked, or loosed. One action per operation, each the whole handler:
`StartDraw` contains `ServerStartDraw_Implementation`, `EndDraw` and the automatic release in
`Tick` contain `ServerEndDraw_Implementation` and `FireArrow` (`Release`). On the authority a Server
RPC runs in place, so these are single steps. Every public operation may be called at any time;
calls that return early leave the state alone. Failures are modelled: the spawn that returns null
(`NockFails`), the owner without a socket (`HasArrowSocket`), `FireArrow` returning early for want of
an owner or a camera (`CanSight`). `Init` covers a bow that has just been made and one that
`EquipWeapon` has already equipped, so that the modules built on `Bow` start in a state of it;
`Collected` is the garbage collector clearing `OwnerCharacter` once the owner is destroyed. `age` is auxiliary: how long the arrow was drawn, kept apart from
`ChargeTime` so that `SpeedIsEarned` can compare the two.

`DrawCycle.tla`. The abstract specification: bows being drawn, the arrow on each, the arrows away.
Draws begin and end; an arrow goes away only by the end of a draw of the bow that holds it. `Bow`
implements it under the mapping `DC` in `Bow.tla`: `drawing` is the set of charging bows, `held` is
`PreparedArrow`, `away` the loosed arrows.

`AICharacter.tla` EXTENDS `Bow` with one AI: `ai` (flags and target), `timer` (the time left of the
attack, draw, fire, cooldown and destroy timers) and `player` (near, far, absent: the environment).
`Frame(dt)` ticks the bow and moves the timers on; then every timer that is due fires, the most
overdue first and ties in any order, before the next frame, as the engine's timer manager does.
`TryAttackTarget` includes `SearchForTarget` and `BeginAIAim`. `Die` is `OnDeath`: it clears the
attack timer and nothing else, and does not touch the bow's own fields. `CollectGarbage` clears
pointers to the destroyed (`Collected`, on the bow).

`UserCharacter.tla` EXTENDS `Bow` with one player: `user` (its flags, walking speed, camera yaw) and
`keys` (the keys that are down). Enhanced Input's Started and Completed are `Down` and `Up`; a dead
character gets neither. `SetCanMove` and `OnRollEnd` come from animations in assets, so they may
come at any time, or never. `UserTick` and `BowTick` are the two actors' ticks, in either order.

`Combat.tla`. `body[c]` is a character's health, death, capsule, input, montage and removal;
`shot[a]` is an arrow's life. The functions on body records (`DamageTaken`, `ActorDied`, `Die`,
`OnRep_IsDead`, `PlayMontage`, `OnDeath`) are the links of the call chain of a hit, composed in the
source's order, and a hit is one action. When an arrow hits what is left to the environment: any arrow
in flight may hit any solid character, an object, or leave the world. `Loose` lets any character whose
actor has not been collected loose an arrow, the dead included, because `AICharacter.tla` shows that
this happens.

`CombatReplication.tla` EXTENDS `Combat` with one remote client. `Serve` is any step of `Combat`, and
marks the registered properties it changes as `dirty`. `copy[c]` is the client's copy of a
character, in the same record as the authority's body, so that the handlers the client runs are
`Combat`'s own operators. A character's channel opens (`Open`, `Arrive`: a client joins at any time)
and closes (`Close`) reliably; in between, `Send` puts the dirty properties, with their values, in a
packet, which may arrive (`Deliver`), be lost (`Lose`), or arrive and be thought lost; when the
authority learns of it (`Nak`) the properties become dirty again. Health and `bIsDead` therefore
arrive together or apart, and repeatedly. `HitOnClient` is the client's replica of an arrow hitting
its copy of a character.

`BowReplication.tla` EXTENDS `Bow` with the question on whose machine a bow is: `HostBow` and
`GuestBow` are the host's bows of the two players, `SpawnedBow` the one that `BeginPlay` spawns on the
guest's machine. The guest's keys act on the bow his machine equipped (`EquippedOnGuest`); a Server
RPC called on a bow the host does not know is dropped. The guest's replicas of the host's bows
(`replica`) get the registered properties, together or apart, or not at all (`LoseUpdate`: the host learns of the loss
and sends them again). A replica's own charge clock is left out.
`BowReplInv`, at its end, is the invariant that explains finding 3: no bow but the host's is ever armed.

`Wire.tla`. One direction of the RD wire. Each action is what one thread does under one lock: a
caller's `Put`; the async thread's `Take` (`lock`, then it lets go), `Process` (`queue_lock`), and one
`SendFirst` per message, `SendFails`, `Processed`; the socket thread's `Attach`, `Resume` (which
contains `reprocess()`, under both locks), `Acknowledge`, `Pause`. `Break` cuts the connection and what is
under way at any point. `Receive` is `read_package`. A message is the number of its put, a package
carries one message, and `pending` is the list of messages whose numbers begin with `seqn.current`.
Message 1 is accepted whenever it comes (the receiver takes it for a counterpart that started
anew). For a repeated package `read_package` returns `true` where it should return a length, which puts
a stray byte into the stream: `rcv.garbled` stands for what is read from then on.

`Channel.tla`. What the wire promises, without threads, connections, numbers or acknowledgements: messages are
`handed` in, come out (`stream`) in that order, and are `forgotten` only once they have come out. Two
weaknesses of `read_package` are part of it: the stream may start over while message 1 is kept, and may be
`spoiled` while there is something to repeat. `Wire` implements it under the mapping `CH` in `Wire.tla`:
`forgotten` is what `reprocess()` has dropped, `stream` what the receiver delivered, `spoiled` is `rcv.garbled`.
Once two writers have `raced` (`ahead` in `Wire`: the async thread wrote to a living connection before `resume()`), the
channel promises less: messages may be left out and forgotten before they come out; what comes out is still in order.

`RdProperty.tla` and `RdMap.tla`. An entity at two ends, `master` and `slave`, over a wire that keeps
the order and loses nothing. The master numbers its changes. A property refuses a value that was set
without knowledge of the master's last change; a map's master waits for an acknowledgement per key,
and refuses the slave's changes of that key until then. `RdReactive.tla` puts both side by side so
that one run checks both. Each has queues of its own, so messages to one and to the other are handled in any
order, that of one wire among them; nothing is claimed about the wire they share.
The master's `remove()` is not modelled: it stores in `pendingForAck` a pointer to a key it then
destroys, and what the acknowledgement finds is undefined.

The modules whose name ends in `Proofs` hold the theorems. Definitions whose comment begins with
"Mutant:" are plausible mistakes: each replaces the definition below it in one model-checking run,
where it must break the property it is paired with in `PROJECT.json`.

## 3. The runs

| Run | Instance | Shows |
|---|---|---|
| `MCBow` | 2 bows, 2 arrows, 2 characters, one of whom cannot sight; full charge 2, release 3, frames 1 or 2 | every interleaving of calls keeps the bow's five safety properties and implements `DrawCycle` |
| `MCAICharacter` | 1 AI, 1 bow, 2 arrows; half-second units, the code's delays; frames 1 or 2; spawns may fail | stages agree, no arrow is stranded, shots are full, a dead AI starts nothing and looses at most the arrow it died with; fair: the AI keeps shooting, the dead are removed |
| `MCAIGhostShot` | the same, spawns succeed | violated: a dead AI shoots (section 6) |
| `MCCombatMontage` | a player and an AI, 4 arrows, 100 health, 50 damage; the AI's mesh stops arrows | violated: no death montage (section 6) |
| `MCUserCharacter` | 1 player, 1 bow, 2 arrows; full charge 2, release 4; spawns may fail | keys, camera, aim and bow agree; fair: a drawn bow lets go, a stale `BowState` heals |
| `MCCombatReplication` | a player and an AI, 3 arrows, 100 health, 50 damage; the AI's mesh stops arrows; the client plays the player; 2 packets under way per character | on the authority the health account, whose arrows hurt whom, and the rules of death under every order of hits; the client is never ahead, gives back nothing it has shown, runs each death once; fair: it catches up |
| `MCBowReplication` | the three bows, 2 arrows; full charge 1, release 2 | fair: replicas catch up with bows that rest |
| `MCRemoteDraw` | the same | violated: a guest's draw does not reach the host (section 6) |
| `MCWire` | 4 messages, 3 broken connections | the sender's order; increasing acknowledgements until the async thread sends ahead of `resume()`; the wire implements `Channel`; fair: what was sent arrives |
| `MCWireLate` | 3 messages, 2 broken connections | violated: a message that was sent ahead is acknowledged twice (section 6) |
| `MCRdReactive` | a property with 3 values and 3 changes, beside a map with 1 key, 2 items and 4 changes | both ends agree at rest, no key is closed for ever |
| `MCRdMap` | the map alone, 3 changes | violated: an unexpected acknowledgement (section 6) |

Why the bounds are enough to meet the interesting cases.

- Arrows: two let an arrow be in flight while another is drawn, and let a bow be drawn again after a
  release that failed; a bow that has used all of them cannot draw until one is gone (in the
  program it always can), which only removes behaviours in which nothing new happens. `Combat` needs
  two arrows to kill and one more to hit the corpse: with three, one character dies and its corpse is
  hit, or the other is wounded, and one arrow may be in flight while its shooter is collected.
- Time: frames of 1 and 2 against a full charge of 2 and a release at 3 make the release land on the
  limit and past it. The AI runs use the code's own delays in half seconds: first attack 1 s,
  interval 3 s, draw after 1 s, release after 2 s, cooldown 3 s, removal 3 s, full charge 1 s,
  automatic release 5 s. In that unit the cooldown ends in the same instant as an attack timer loop,
  so their tie is met; frames of two lengths make timers overdue by different amounts.
- Combat's health and damage are the code's defaults: two hits kill exactly, a third goes below zero.
- Packets: with two under way per character a resent property overtakes nothing but is coalesced with
  a newer one, and one of two can be lost.
- The wire: with four messages and three breaks a message is sent on one connection, sent again on a
  second, its acknowledgement lost, and sent again on a third, while others are first sent between.
- Property and map: three or four changes suffice for the master and the slave to change the same
  thing while the other's change, or its acknowledgement, is under way.
- The runs of `Combat`, `CombatReplication`, `Wire` and the RD entities do not check deadlock: when
  the arrows, messages or changes the bound allows are spent, the model, like a quiet program, has
  nothing left to do.

`MaxFlight`, `MaxPut`, `MaxBreaks`, `MaxSets` and `MaxChanges` are the bounds on counters and queues; the
proofs hold for every value of them. Elsewhere the state is finite without further bounds: `Tick`
cannot pass the automatic release, and timers run from their delays down to less than one frame
overdue.

The async thread may be held up between its two locks for as long as it likes: `ThreadProc` lets go of `lock`
before `process()` asks for `queue_lock`, and `pause()` waits only for a thread that is processing already. If the
connection breaks there, the thread may write to the next one before `resume()` has sent the old messages again.
The auxiliary variable `ahead` says that this has happened. From then on the receiver may skip messages, take
them for repetitions or acknowledge them twice (finding 5). `SenderKeepsOrder` holds in any case;
`AcksIncreaseTillAhead`, `ImplementsChannel` (through `raced` in `Channel`) and `SentArrives` claim what they
claim until then, through any number of breaks.

## 4. Fairness

`AIFairSpec`: weak fairness of `Frame` (the engine's loop goes on), of the timers that are due (the
timer manager runs every due timer before the next frame), and of `ArrowLeaves` (an arrow ends; with
a finite set of arrows this stands for the supply of new ones). Nothing is assumed of the player,
death or the garbage collector. `KeepsShooting` says that an AI that stays alive with its player near
shoots again and again, or else has draws that nock nothing: spawns may fail, and no fairness of
their success is assumed.

`UserFairSpec`: weak fairness of the ticks of the character and its bow. Key presses, animations and
death are not fair.

`ReplFairSpec`: weak fairness of sending what is dirty, of noticing losses, and of a channel's first and last
packet (the engine repeats the reliable ones); strong fairness of delivering each property, since a
connection on which all packets with a property are lost for ever is no connection. Nothing is
assumed of the game: `ClientCatchesUp` relies on there being finitely many arrows.

`BowReplFairSpec`: weak fairness of the host's frames and of sending updates; strong fairness of receiving
them, since packets may be lost (`LoseUpdate`), but not all of a connection for ever.

`WireFairSpec`: weak fairness of the async thread, the socket's thread (which makes connections again
for as long as it runs) and the receiver. `Put` and `Break` are not fair; the bound on breaks stands for a
connection that in the end lasts long enough.

## 5. The proofs

All proofs hold for every value of the constants that the named ASSUMEs of the modules allow. A safety
property is seldom inductive; each module that is proved about states, at its end, the invariant
behind its properties, and TLC has checked it on the run's instance before.

`BowProofs`, for every set of bows, arrows and characters, every subset of them that can draw or sight,
every positive charge and release time, every set of positive frame times, and spawns that may or may
not fail: `TypeCorrect`, `DrawnBowsAim`, `ArrowsNotShared`, `DrawsBounded`, `SpeedsEarned`,
`StatesAgree`, and `Refinement`: `Spec => DC!Spec`, that the bow implements the draw cycle. They rest on
`BowInv`. The speed of a loosed arrow is decided by `ChargeTime`, and only `ClockIsAge` (the clock of a
bow that is drawn with an arrow is that arrow's age) ties it to the draw; and that in turn needs
`HeldArrowIsOurs`, or the frame of one bow would age the arrow of another. A second part of the module
states what each operation does for those who call it (`DrawCall`, `ReleaseCall`, `TickCall`,
`CollectedCall`, ...); the proofs about the archers cite those lemmas and never look inside the bow again.

Whoever holds the bow. `Bow` lets anybody call anything at any time. `UserBowIsABow` (`UserSpec => Spec`),
`AIBowIsABow` (`AISpec => Spec`) and `ReplBowsAreBows` (`BowReplSpec => Spec`) show that a player with his keys, an AI
with its timers, and host and guest with the network between them, do no more than that: every step of theirs is a
step of `Bow` or leaves the bow alone. So `BowInv` and the draw cycle hold for all three (`UserBowSound`,
`UserDrawCycle`, `AIBowSound`, `AIDrawCycle`, `ReplBowsSound`, `ReplDrawCycle`) without another invariant.

`UserCharacterProofs`: `UserTypeCorrect`, `CameraInHand` (`CameraLetsGo`), `DrawInHand`, `AimInHand`, and
`PlayerStrandsNone` for a player who can sight. `UserInv` adds `HandsSound`, which ties the keys that
are down to what the bow is doing. Whether the camera turns the character before the first aim is left open
(the engine's default says yes, a blueprint may say no), so `CameraInHand` claims its rule from the moment the aim key
is first down, and from `UserInv` proves that every step keeps it from then on.

`AICharacterProofs`: `AITypeCorrect` and `DeadTimersIdle` for all constants; `AttackStagesAgree`,
`AIStrandsNone` and `AIShotsFull` under `DelaysFit`: the AI has what it needs to shoot, the bow is fully charged
when the fire timer is due, and does not release itself before. The code's delays (2 s, 1 s, 5 s) satisfy
it for frames of up to 3 s, and so does the checked instance. `AtRest` and `AtStage` say for each stage
of an attack which timers run, what the bow does, and how far its clock is from the fire timer.
`DeadTimersIdle` says of each step after the death that no timer aims, lowers or draws the bow, and that
an arrow leaves it only by ending the draw the AI died in.

`BowReplicationProofs`: `BowReplInvariance`, `GuestIsUnarmed` (on no machine is a bow other than the host's drawn or
nocked, and every arrow is the host's) and `GuestDrawIsLost`: once the guest asks for a draw,
`DrawRequestArrives` fails, whatever anybody does. The counterexample of `MCRemoteDraw` is thus not a matter of an
unlucky order.

`CombatProofs`, for every set of characters, every finite set of arrows and every positive health
and damage: `TypeCorrect`, `HealthAccounted`, `DeathMeansNoHealth`, `DeathsOnce`, `OwnArrowsSpare`,
`DeadInputOff`, `CorpsesUnharmed`. The invariant `CombatInv` adds that an arrow in flight has neither
victim nor impact yet, so that a hit adds a new arrow to its victim's wounds (`OneMoreWound`, by
the theorems on cardinality), and that an arrow's owner is whoever loosed it or null. `DieSound` and
`DamageTakenSound` prove the call chain of a hit on the victim's record alone; the step lemmas cite
them.

`CombatReplicationProofs`: `ReplTypeCorrect`, `ClientBehind` (`ClientNeverAhead`), `CopyDeathsOnce`. `ReplInv`
says that every packet tells a past truth, that no packet forgets a death an earlier one told, and
that `bIsDead` never travels without `Health`: the step that changes the one changes the other, and
whatever is lost is lost with both. That is why a client never shows a corpse with health. `ClientRemembers`
(`ClientNeverForgets`) rests on `OrderInv` besides: packets carry the health of the moment they are sent, so the
flight, resent properties included, tells of it in the order in which it fell, down from what the copy shows.
`AuthorityAlone` is `ReplSpec => Spec`: the connection and the clients do not reach the fight on the authority.

`WireProofs`, in two layers, neither of which assumes anything of the threads. `SenderInvariance`, `TypeCorrect` and
`OrderKept` from `SenderInv`, the sender's counters. `WireInvariance`, `Continuous` (the delivered stream has no
gap), `DroppedWasDelivered` (the sender forgets only what came out), `AcksInOrder` (`AcksIncreaseTillAhead`) and
`WireIsAChannel` (`ImplementsChannel`) from `WireInv`. Of the receiver it says two things that always hold: what is
under way is still kept by the sender, and the receiver counts what it had last. `OrderInv`, the rest, holds until
`ahead`: what is under way, in both directions, is a run of consecutive numbers, and on a living connection the
acknowledged, the acknowledgements and the packages leave no gap. The refinement needs little beside it: of the
wire's actions only `Put`, `Receive`, `Resume` and the `SendFirst` that sets `ahead` are steps of the channel, and what
`WireInv` says of the packages and of the acknowledged gives the guards of `Receive` and `Resume`.

`RdReactiveProofs`. `MasterKeepsIts` (the master's last change wins) from `PropInv`: the master's changes under way
have consecutive versions, the slave's carry versions that never go back, so the master accepts exactly
those that were made with its own in view. For maps `MapInv`: for each key, either the master waits for
nothing and the slave's last word is what counts, or one change of it is under way to the slave, or one
acknowledgement is under way to the master, behind which the slave's last word counts. Both are proved of the
entity alone (`PropInvariance`, `MapInvariance`), and the properties of the run, `ReactiveTypeCorrect`,
`PropertyAgreement`, `MapAgreement` and `NoKeyStaysLocked`, follow: the two have no state in common, and their
composition in `RdReactive` claims nothing.

Only model-checked: the liveness properties `KeepsShooting`, `DeadIsRemoved`, `BowLetsGo`, `AimStateHeals`,
`ClientCatchesUp`, `ReplicaCatchesUp` and `SentArrives` (liveness under fairness and ENABLED are out of the
prover's reach), and the counterexamples of section 6, which are runs. Every invariant, action property and
refinement that a passing run checks is also a theorem. No property needs induction over data, which is
out of reach too; no module declares a RECURSIVE operator.

## 6. Disagreements between the code and what it says

1. A dead AI shoots (`MCAIGhostShot`, `DeadNeverShoots`). `AAICharacter::OnDeath` detaches the bow,
   calls `SetOwner(nullptr)` under the comment "no longer this AI's weapon" (`AI/AICharacter.cpp:83`) and
   says that "the AI's turning, attacking and other logic stops" (`:86`). But the bow uses its own
   `OwnerCharacter`, which only `OnUnequip` clears; if the AI dies during a draw, the bow goes on
   charging and its automatic release looses the arrow five seconds after the draw began, when the
   AI may even have been destroyed.
2. No death animation (`MCCombatMontage`, `DeathIsShown`). `Die` sets `bIsDead` before `OnRep_IsDead` plays
   the death montage ("play the death animation", `Character/ArrowCharacter.cpp:76`), and `PlayMontage`
   returns at once for the dead (`:135-138`).
3. A guest cannot draw (`MCRemoteDraw`, `DrawRequestArrives`). `BeginPlay` spawns and equips a bow on
   every machine (`Character/ArrowCharacter.cpp:44`), and `EquippedWeapon` is not replicated
   (`Character/ArrowCharacter.h:65-66`). A remote player's keys therefore act on a bow of his own
   machine, and the engine drops a Server RPC called on an object the server does not know. Were it
   to arrive, the server would test its own `bIsAiming` (`Weapon/Bow.cpp:78`), which `StartAim` sets on
   the caller's machine only. The comment at `Weapon/Bow.h:61-62` says that the call "matters to
   the game, so it must arrive".
4. An acknowledgement taken for an error (`MCRdMap`, `AcksExpected`). The master records the version it
   waits for with `emplace` (`impl/RdMap.h:116`), which keeps an older one that is still there. When a key
   is changed twice in a row, the first acknowledgement ends the wait for both, and the second is
   reported as "No pending for ... ACK" (`:184`); the comment at `:177` shows that the code expects the
   later version to be the pending one. `MapsAgree` excludes keys that were changed in this way
    (`hurried`).
5. A held-up thread overtakes the resent messages (`MCWireLate`, `AcksIncrease`). `ThreadProc` gives up `lock`
   (`wire/ByteBufferAsyncProcessor.cpp:161`) before `process()` takes `queue_lock` (`:111`), and `pause()`, which
   logs that it "waited for main processing" (`:229`), does not wait for a thread between the two. After a break
   such a thread sends on the next connection before `resume()` does. A message it sent ahead is then sent again
   by `resume()`, acknowledged twice, and `acknowledge()` reports the error "Acknowledge {} called, while next seqn
   MUST BE greater than {}" (`:259`). Worse, with an older message cut off before: the receiver reads and acknowledges
   the younger one and takes the older for a repetition, or never sees it before the next break; then
   `reprocess()` drops both. To see that, check `NothingLost` in place of `AcksIncrease` in `MCWireLate.cfg`: TLC
   finds a message that is lost although the stream is not garbled.

## 7. Not modelled

Of the game: sounds, particles, the camera's field of view, movement and aiming geometry, build files. The
match rules of the repository's `README.md` (roles, time limit, rounds, victory) have no code yet.
Clients are modelled one at a time, which is enough while they do not affect each other; what a
replicated arrow looks like on a client is left to the engine.

Of RiderLink: the message broker, whose accesses outside its lock are data races on containers
without a defined outcome; calls, sets, lists, signals, schedulers, lifetimes and serialization; pings,
stopping, and a counterpart that restarts; the editor modules, which create the connection
and pass on log lines and asset names. About two thirds of the repository's lines are vendored
general-purpose libraries (spdlog with fmt, optional, variant, hash tables, sockets, a thread pool):
they contain none of this system's logic, and are left out for good. They are why the models
cover a small share of all lines.

An aim key released in the middle of a draw is forgotten (`StopAim` returns early), the bow goes on aiming after the
shot, and the next draw needs no aim key. The models reproduce this; nothing in the repository says it should be
otherwise, so no property is about it.

Hazards without a property, with the reason in `PROJECT.json`: a target that stays set when its player is
gone; the walk and aim keys, which overwrite each other's speed; an interrupted roll, which may leave movement
blocked (animation assets decide); stuck arrows, which are never removed; a message that waits in the
queue for the next `put`; two ends that block in `resume()` on full socket buffers; the broker's races.

What would come next: `Combat` composed with the archers, so that `Loose` is a step of a bow and `Die` the
consequence of a hit; an abstract archer (idle, attacking, dead, gone) that `AICharacter` implements;
`RdSet` and `RdList` beside the map; the message broker once its accesses are under its lock.
