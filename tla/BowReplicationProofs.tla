----------------------- MODULE BowReplicationProofs -----------------------
(***************************************************************************)
(* Proofs about BowReplication.tla, for every number of arrows and every   *)
(* value of the tuning constants: the bows of all machines are bows of     *)
(* Bow.tla, and the guest's is never drawn.                                *)
(***************************************************************************)
EXTENDS BowReplication, BowProofs

LEMMA HostBowIsOne == HostBow \in Bow /\ GuestBow \in Bow /\ SpawnedBow \in Bow
BY MachineAssumption

----------------------------------------------------------------------------
(* Every machine's bow is a bow. *)

LEMMA ReplInitBow == BowReplInit => Init
<1> SUFFICES ASSUME BowReplInit PROVE Init
  OBVIOUS
<1> DEFINE BowOf(c) == [NewBow EXCEPT !.owner = c]
           Hands == {BowOf(c) : c \in Character \cup {NoCharacter}}
<1>1. BowOf(Host) \in Hands /\ BowOf(Guest) \in Hands
  BY MachineAssumption
<1> HIDE DEF Hands
<1>2. \A b \in Bow : BowOf(IF b = HostBow THEN Host ELSE Guest) \in Hands
  BY <1>1
<1>3. bow \in [Bow -> Hands]
  BY <1>2 DEF BowReplInit
<1> QED
  BY <1>3 DEF BowReplInit, Init, Hands

\* The players and the frames reach the bows only through their operations, the network does
\* not reach them at all.
LEMMA ReplStepBow == [BowReplNext]_bowReplVars => [Next]_bowVars
<1> SUFFICES ASSUME [BowReplNext]_bowReplVars PROVE Next \/ UNCHANGED bowVars
  OBVIOUS
<1>1. CASE HostPlays
  BY <1>1, HostBowIsOne DEF HostPlays, Next
<1>2. CASE HostFrame
  BY <1>2, HostBowIsOne DEF HostFrame, HostBows, Next
<1>3. CASE ArrowLeaves
  BY <1>3 DEF ArrowLeaves, Next
<1>4. CASE GuestAims
  BY <1>4, HostBowIsOne DEF GuestAims, EquippedOnGuest, Next
<1>5. CASE GuestDraws
  BY <1>5, HostBowIsOne DEF GuestDraws, EquippedOnGuest, Next, bowVars
<1>6. ASSUME NEW b \in HostBows, SendUpdate(b) \/ ReceiveUpdate(b) \/ LoseUpdate(b)
      PROVE  UNCHANGED bowVars
  BY <1>6 DEF SendUpdate, ReceiveUpdate, LoseUpdate, bowVars
<1>7. CASE UNCHANGED bowReplVars
  BY <1>7 DEF bowReplVars, bowVars
<1> QED
  BY <1>1, <1>2, <1>3, <1>4, <1>5, <1>6, <1>7 DEF BowReplNext

\* The bows of the host and the guest, seen by themselves, are bows of Bow.tla.
THEOREM ReplBowsAreBows == BowReplSpec => Spec
BY ReplInitBow, ReplStepBow, PTL DEF BowReplSpec, Spec

\* So their arrows, draws and shots are sound on every machine.
THEOREM ReplBowsSound == BowReplSpec => []BowInv
BY ReplBowsAreBows, Invariance, PTL

\* And they keep the draw cycle.
THEOREM ReplDrawCycle == BowReplSpec => ImplementsDrawCycle
BY ReplBowsAreBows, Refinement, PTL

----------------------------------------------------------------------------
(* Nobody but the host ever draws. *)

\* What is done with b makes no arrow anybody's but its owner's.
LEMMA ShooterOf ==
    ASSUME BowInv, NEW b \in Bow, NEW a \in Arrow, arrow'[a].phase # "none",
           \/ StartAim(b) \/ StopAim(b) \/ StartDraw(b) \/ EndDraw(b)
           \/ \E dt \in FrameTimes : Tick(b, dt)
    PROVE  \/ arrow[a].phase # "none" /\ arrow'[a].shooter = arrow[a].shooter
           \/ arrow'[a].shooter = bow[b].owner
<1>0. TypeOK /\ (bow[b].prepared # NoArrow => arrow[bow[b].prepared].phase = "nocked")
  BY DEF BowInv, HeldArrowIsOurs
<1>1. ASSUME NEW t, NEW aged \in [Arrow -> ArrowRecord], Release(b, t, aged),
             aged[a].phase = arrow[a].phase, aged[a].shooter = arrow[a].shooter
      PROVE  arrow[a].phase # "none" /\ arrow'[a].shooter = arrow[a].shooter
  <2>1. CASE bow[b].prepared = a
    <3>1. arrow[a].phase # "none"
      BY <1>0, <2>1, NullAssumption
    <3>2. arrow'[a].shooter = aged[a].shooter
      BY <1>1, <2>1 DEF Release, ArrowRecord
    <3> QED
      BY <1>1, <3>1, <3>2
  <2>2. CASE bow[b].prepared # a
    <3>1. arrow'[a] = aged[a]
      BY <1>1, <2>2 DEF Release
    <3> QED
      BY <1>1, <3>1
  <2> QED
    BY <2>1, <2>2
<1>2. CASE StartAim(b) \/ StopAim(b)
  BY <1>2 DEF StartAim, StopAim
<1>3. CASE StartDraw(b)
  BY <1>0, <1>3 DEF StartDraw, Nock, NockFails, TypeOK
<1>4. CASE EndDraw(b)
  BY <1>0, <1>1, <1>4 DEF EndDraw, TypeOK
<1>5. ASSUME NEW dt \in FrameTimes, Tick(b, dt)
      PROVE  arrow[a].phase # "none" /\ arrow'[a].shooter = arrow[a].shooter
  <2>1. Aged(b, dt) \in [Arrow -> ArrowRecord]
    BY <1>0, AgedType
  <2>2. Aged(b, dt)[a].phase = arrow[a].phase /\ Aged(b, dt)[a].shooter = arrow[a].shooter
    BY <1>0, <2>1 DEF Aged, TypeOK, ArrowRecord
  <2> QED
    BY <1>1, <1>5, <2>1, <2>2 DEF Tick
<1> QED
  BY <1>2, <1>3, <1>4, <1>5

\* What the host does with his bow leaves the others unarmed.
LEMMA HostBowOnly ==
    ASSUME BowInv, BowReplInv,
           \/ StartAim(HostBow) \/ StopAim(HostBow) \/ StartDraw(HostBow) \/ EndDraw(HostBow)
           \/ \E dt \in FrameTimes : Tick(HostBow, dt),
           UNCHANGED <<netVars, asked>>
    PROVE  BowReplInv'
<1>0. TypeOK /\ HostBow \in Bow /\ bow[HostBow].owner = Host
  BY HostBowIsOne DEF BowReplInv
<1>1. TypeOK' /\ OnlyBow(HostBow)
  BY <1>0, AimCall, DrawCall, EndCall, TickCall
<1>2. NetTypeOK'
  BY DEF BowReplInv, NetTypeOK, netVars
<1>3. \A a \in Arrow : arrow'[a].phase # "none" => arrow'[a].shooter = Host
  BY <1>0, ShooterOf DEF BowReplInv, GuestUnarmed
<1>4. GuestUnarmed'
  BY <1>1, <1>3 DEF BowReplInv, GuestUnarmed, OnlyBow, netVars
<1> QED
  BY <1>0, <1>1, <1>2, <1>4 DEF BowReplInv, OnlyBow

\* A guest's aim is his bow's only.
LEMMA GuestBowAims ==
    ASSUME BowReplInv, GuestAims
    PROVE  BowReplInv'
<1>0. TypeOK /\ SpawnedBow \in Bow /\ SpawnedBow # HostBow /\ HostBow \in Bow
  BY HostBowIsOne, MachineAssumption DEF BowReplInv
<1>1. /\ TypeOK' /\ OnlyBow(SpawnedBow) /\ arrow' = arrow
      /\ bow'[SpawnedBow].charging = bow[SpawnedBow].charging
      /\ bow'[SpawnedBow].prepared = bow[SpawnedBow].prepared
  BY <1>0, AimCall DEF GuestAims, EquippedOnGuest
<1>2. UNCHANGED <<replica, update, sent, asked>>
  BY DEF GuestAims, netVars
<1>3. \A b \in Bow : bow'[b].charging = bow[b].charging /\ bow'[b].prepared = bow[b].prepared
  BY <1>1 DEF OnlyBow
<1>4. bow'[HostBow].owner = Host
  BY <1>0, <1>1 DEF OnlyBow, BowReplInv
<1> QED
  BY <1>1, <1>2, <1>3, <1>4 DEF BowReplInv, NetTypeOK, GuestUnarmed

\* His draw goes nowhere: the host does not have the bow it is called on.
LEMMA GuestDrawIsDropped ==
    ASSUME GuestDraws
    PROVE  UNCHANGED <<bow, arrow, replica, update, sent>>
BY MachineAssumption DEF GuestDraws, EquippedOnGuest, HostBows, netVars

LEMMA RegisteredType ==
    ASSUME TypeOK, NEW b \in Bow
    PROVE  /\ Registered(bow[b]) \in RegisteredRecord
           /\ Registered(bow[b]).charging = bow[b].charging
           /\ Registered(bow[b]).prepared = bow[b].prepared
BY DEF TypeOK, BowRecord, Registered, RegisteredRecord

\* The network brings the guest what is on the host, or part of it, or loses it.
LEMMA NetworkUnarmed ==
    ASSUME BowReplInv, NEW b \in HostBows, SendUpdate(b) \/ ReceiveUpdate(b) \/ LoseUpdate(b)
    PROVE  BowReplInv'
<1>0. /\ TypeOK /\ b \in Bow /\ GuestBow \in HostBows /\ HostBow # GuestBow
      /\ GuestBow \in Bow \ {HostBow}
      /\ {replica, update, sent} \subseteq [HostBows -> RegisteredRecord]
      /\ GuestUnarmed
  BY MachineAssumption DEF BowReplInv, NetTypeOK, HostBows
<1>1. UNCHANGED <<bow, arrow, asked>>
  BY DEF SendUpdate, ReceiveUpdate, LoseUpdate
<1>2. CASE SendUpdate(b)
  <2> DEFINE r == Registered(bow[b])
  <2>1. r \in RegisteredRecord /\ r.charging = bow[b].charging /\ r.prepared = bow[b].prepared
    BY <1>0, RegisteredType
  <2>2. /\ update' = [update EXCEPT ![b] = r] /\ sent' = [sent EXCEPT ![b] = r]
        /\ replica' = replica
    BY <1>2 DEF SendUpdate
  <2> HIDE DEF r
  <2>3. {replica', update', sent'} \subseteq [HostBows -> RegisteredRecord]
    BY <1>0, <2>1, <2>2
  <2>4. ~update'[GuestBow].charging /\ update'[GuestBow].prepared = NoArrow
    BY <1>0, <2>1, <2>2 DEF GuestUnarmed
  <2> QED
    BY <1>0, <1>1, <2>2, <2>3, <2>4 DEF BowReplInv, NetTypeOK, GuestUnarmed, TypeOK
<1>3. CASE ReceiveUpdate(b)
  <2>1. PICK fields \in SUBSET {"charging", "prepared", "state"} :
          replica' = [replica EXCEPT ![b] = [f \in DOMAIN @ |-> IF f \in fields THEN update[b][f]
                                                                            ELSE @[f]]]
    BY <1>3 DEF ReceiveUpdate
  <2> DEFINE merged == [f \in DOMAIN replica[b] |-> IF f \in fields THEN update[b][f]
                                                                  ELSE replica[b][f]]
  <2>2. UNCHANGED <<update, sent>>
    BY <1>3 DEF ReceiveUpdate
  <2>3. replica[b] \in RegisteredRecord /\ update[b] \in RegisteredRecord
    BY <1>0
  <2>4. /\ merged \in RegisteredRecord
        /\ merged.charging \in {replica[b].charging, update[b].charging}
        /\ merged.prepared \in {replica[b].prepared, update[b].prepared}
    BY <2>3 DEF RegisteredRecord
  <2>5. replica' = [replica EXCEPT ![b] = merged]
    BY <2>1
  <2> HIDE DEF merged
  <2>6. {replica', update', sent'} \subseteq [HostBows -> RegisteredRecord]
    BY <1>0, <2>2, <2>4, <2>5
  <2>7. ~replica'[GuestBow].charging /\ replica'[GuestBow].prepared = NoArrow
    BY <1>0, <2>4, <2>5 DEF GuestUnarmed
  <2> QED
    BY <1>0, <1>1, <2>2, <2>6, <2>7 DEF BowReplInv, NetTypeOK, GuestUnarmed, TypeOK
<1>4. CASE LoseUpdate(b)
  <2>1. /\ update' = [update EXCEPT ![b] = replica[b]] /\ sent' = [sent EXCEPT ![b] = replica[b]]
        /\ replica' = replica
    BY <1>4 DEF LoseUpdate
  <2>2. replica[b] \in RegisteredRecord
    BY <1>0
  <2>3. {replica', update', sent'} \subseteq [HostBows -> RegisteredRecord]
    BY <1>0, <2>1, <2>2
  <2>4. ~update'[GuestBow].charging /\ update'[GuestBow].prepared = NoArrow
    BY <1>0, <2>1 DEF GuestUnarmed
  <2> QED
    BY <1>0, <1>1, <2>1, <2>3, <2>4 DEF BowReplInv, NetTypeOK, GuestUnarmed, TypeOK
<1> QED
  BY <1>2, <1>3, <1>4

LEMMA ReplInit == BowReplInit => BowReplInv
<1> SUFFICES ASSUME BowReplInit PROVE BowReplInv
  OBVIOUS
<1>1. Init
  BY ReplInitBow
<1>2. /\ TypeOK
      /\ \A b \in Bow : ~bow[b].charging /\ bow[b].prepared = NoArrow
      /\ \A a \in Arrow : arrow[a].phase = "none"
  BY <1>1, AtFirst
<1>3. bow[HostBow].owner = Host
  BY HostBowIsOne DEF BowReplInit, NewBow
<1> DEFINE r == Registered(NewBow)
<1>4. r \in RegisteredRecord /\ ~r.charging /\ r.prepared = NoArrow
  BY DEF Registered, NewBow, RegisteredRecord, EBowState
<1>5. /\ replica = [b \in HostBows |-> r] /\ update = [b \in HostBows |-> r]
      /\ sent = [b \in HostBows |-> r] /\ asked = FALSE
  BY DEF BowReplInit
<1> HIDE DEF r
<1>6. NetTypeOK
  BY <1>4, <1>5 DEF NetTypeOK
<1>7. GuestUnarmed
  BY <1>2, <1>4, <1>5 DEF GuestUnarmed, HostBows
<1> QED
  BY <1>2, <1>3, <1>6, <1>7 DEF BowReplInv

LEMMA ReplStep ==
    ASSUME BowInv, BowReplInv, [BowReplNext]_bowReplVars
    PROVE  BowReplInv'
<1>1. CASE HostPlays
  BY <1>1, HostBowOnly DEF HostPlays
<1>2. CASE HostFrame
  <2>1. PICK b \in HostBows, dt \in FrameTimes : Tick(b, dt)
    BY <1>2 DEF HostFrame
  <2>2. b = HostBow
    <3>1. bow[b].charging
      BY <2>1 DEF Tick
    <3>2. b \in Bow
      BY HostBowIsOne DEF HostBows
    <3> QED
      BY <3>1, <3>2 DEF BowReplInv, GuestUnarmed
  <2> QED
    BY <1>2, <2>1, <2>2, HostBowOnly DEF HostFrame
<1>3. CASE ArrowLeaves
  <2>1. PICK a \in Arrow : ArrowGone(a)
    BY <1>3 DEF ArrowLeaves
  <2>2. /\ TypeOK' /\ bow' = bow /\ arrow' = [arrow EXCEPT ![a] = NoFlight]
    BY <2>1, GoneCall DEF BowReplInv, ArrowGone
  <2>3. \A x \in Arrow : arrow'[x].phase # "none" => arrow'[x] = arrow[x]
    BY <2>2 DEF BowReplInv, TypeOK, NoFlight
  <2> QED
    BY <1>3, <2>2, <2>3 DEF ArrowLeaves, BowReplInv, NetTypeOK, GuestUnarmed, netVars
<1>4. CASE GuestDraws
  <2>1. UNCHANGED <<bow, arrow, replica, update, sent>> /\ asked' = TRUE
    BY <1>4, GuestDrawIsDropped DEF GuestDraws
  <2> QED
    BY <2>1 DEF BowReplInv, TypeOK, NetTypeOK, GuestUnarmed
<1>5. CASE UNCHANGED bowReplVars
  BY <1>5 DEF bowReplVars, BowReplInv, TypeOK, NetTypeOK, GuestUnarmed
<1> QED
  BY <1>1, <1>2, <1>3, <1>4, <1>5, GuestBowAims, NetworkUnarmed DEF BowReplNext

\* No bow but the host's is ever drawn, and the guest never sees his own drawn.
THEOREM BowReplInvariance == BowReplSpec => []BowReplInv
<1>1. BowReplInit => BowReplInv
  BY ReplInit
<1>2. BowInv /\ BowReplInv /\ [BowReplNext]_bowReplVars => BowReplInv'
  BY ReplStep
<1> QED
  BY <1>1, <1>2, ReplBowsSound, PTL DEF BowReplSpec

\* The guest is unarmed: every arrow in the game is the host's, whatever the guest asks for
\* (AArrowCharacter::BeginPlay, Bow.cpp:59-74).
THEOREM GuestIsUnarmed == BowReplSpec => []GuestUnarmed
<1>1. BowReplInv => GuestUnarmed
  BY DEF BowReplInv
<1> QED
  BY <1>1, BowReplInvariance, PTL

\* The host never sees the guest's bow drawn; so once the guest has asked for it, the promise of
\* Bow.h:61-62 is broken, in every behaviour.
THEOREM GuestDrawIsLost == BowReplSpec => (<>asked => ~DrawRequestArrives)
<1>1. BowReplInv => ~bow[GuestBow].charging
  BY MachineAssumption DEF BowReplInv, GuestUnarmed
<1>2. BowReplSpec => []~bow[GuestBow].charging
  BY <1>1, BowReplInvariance, PTL
<1> QED
  BY <1>2, PTL DEF DrawRequestArrives
=============================================================================
