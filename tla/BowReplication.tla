--------------------------- MODULE BowReplication ---------------------------
(***************************************************************************)
(* Bows between a host and one guest.  Bow.tla is a bow where it is; here  *)
(* bow[b] is the object b on its own machine:                              *)
(*   HostBow    the bow of the host's character, on the host;              *)
(*   GuestBow   the bow of the guest's character, on the host;             *)
(*   SpawnedBow the bow that AArrowCharacter::BeginPlay spawns, and equips,*)
(*              for the guest's character on the guest's own machine.      *)
(* BeginPlay runs on every machine and asks for no authority, and          *)
(* EquippedWeapon is not replicated, so the guest's calls go to            *)
(* SpawnedBow, an object the host does not know: the engine drops the      *)
(* Server RPCs called on it.                                               *)
(*                                                                         *)
(* The guest also has a replica of each bow of the host, of which the      *)
(* engine keeps the registered properties up to date.  A replica that      *)
(* charges ticks and in the end calls EndDraw too; that changes nothing on *)
(* the host, and the replica's clock is left out.                          *)
(***************************************************************************)
EXTENDS Bow

CONSTANTS HostBow, GuestBow, SpawnedBow, Host, Guest

ASSUME MachineAssumption == /\ Bow = {HostBow, GuestBow, SpawnedBow}
                            /\ HostBow # GuestBow
                            /\ SpawnedBow \notin {HostBow, GuestBow}
                            /\ {Host, Guest} \subseteq Character

VARIABLES
    replica,    \* the host's bows -> the registered properties, as the guest has them
    update,     \* the host's bows -> the newest values under way to the guest
    sent,       \* the host's bows -> the values last sent
    asked       \* auxiliary: the guest's player pressed the shoot key while he aimed

bowReplVars == <<bow, arrow, replica, update, sent, asked>>

HostBows == {HostBow, GuestBow}

\* Mutant: BowState is not registered.
RegisteredNoState(w) == [charging |-> w.charging, prepared |-> w.prepared, state |-> "Idle"]

\* bIsAiming and ChargeTime are not registered.
Registered(w) == [charging |-> w.charging, prepared |-> w.prepared, state |-> w.state]

\* The weapon the guest's character has on the guest's machine.
EquippedOnGuest == SpawnedBow

BowReplInit ==
    /\ bow = [b \in Bow |-> [NewBow EXCEPT !.owner = IF b = HostBow THEN Host ELSE Guest]]
    /\ arrow = [a \in Arrow |-> NoFlight]
    /\ replica = [b \in HostBows |-> Registered(NewBow)]
    /\ update = [b \in HostBows |-> Registered(NewBow)]
    /\ sent = [b \in HostBows |-> Registered(NewBow)]
    /\ asked = FALSE

netVars == <<replica, update, sent>>

----------------------------------------------------------------------------
(* On the host. *)

HostPlays == /\ StartAim(HostBow) \/ StopAim(HostBow) \/ StartDraw(HostBow) \/ EndDraw(HostBow)
             /\ UNCHANGED <<netVars, asked>>

HostFrame == /\ \E b \in HostBows, dt \in FrameTimes : Tick(b, dt)
             /\ UNCHANGED <<netVars, asked>>

ArrowLeaves == /\ \E a \in Arrow : ArrowGone(a)
               /\ UNCHANGED <<netVars, asked>>

----------------------------------------------------------------------------
(* On the guest. *)

GuestAims == /\ StartAim(EquippedOnGuest) \/ StopAim(EquippedOnGuest)
             /\ UNCHANGED <<netVars, asked>>

\* StartCharging lets only an aiming bow be drawn; ServerStartDraw runs on the host if the host
\* has the bow it is called on.
GuestDraws == /\ bow[EquippedOnGuest].aiming
              /\ asked' = TRUE
              /\ IF EquippedOnGuest \in HostBows THEN StartDraw(EquippedOnGuest)
                                                 ELSE UNCHANGED <<bow, arrow>>
              /\ UNCHANGED netVars

----------------------------------------------------------------------------
(* The network.  What changed is sent; what is under way may be overtaken by a newer packet, or
   be lost, and is sent again then. *)

SendUpdate(b) == /\ Registered(bow[b]) # sent[b]
                 /\ update' = [update EXCEPT ![b] = Registered(bow[b])]
                 /\ sent' = [sent EXCEPT ![b] = Registered(bow[b])]
                 /\ UNCHANGED <<bow, arrow, replica, asked>>

\* The changed properties arrive together, or apart when those of an earlier packet had to be
\* sent again.
ReceiveUpdate(b) ==
    /\ replica[b] # update[b]
    /\ \E fields \in SUBSET {"charging", "prepared", "state"} :
         /\ fields # {}
         /\ replica' = [replica EXCEPT ![b] = [f \in DOMAIN @ |-> IF f \in fields THEN update[b][f]
                                                                                 ELSE @[f]]]
    /\ replica' # replica
    /\ UNCHANGED <<bow, arrow, update, sent, asked>>

\* The packet is lost, and the host learns of it: of what it carried, the guest has what came
\* with other packets.
LoseUpdate(b) == /\ replica[b] # update[b]
                 /\ update' = [update EXCEPT ![b] = replica[b]]
                 /\ sent' = [sent EXCEPT ![b] = replica[b]]
                 /\ UNCHANGED <<bow, arrow, replica, asked>>

----------------------------------------------------------------------------
BowReplNext == \/ HostPlays \/ HostFrame \/ ArrowLeaves
               \/ GuestAims \/ GuestDraws
               \/ \E b \in HostBows : SendUpdate(b) \/ ReceiveUpdate(b) \/ LoseUpdate(b)

BowReplSpec == BowReplInit /\ [][BowReplNext]_bowReplVars

\* Frames go on, and the connection works: what is sent again and again is not lost every
\* time.  Nothing is assumed of the players.
BowReplFairSpec == /\ BowReplSpec
                   /\ WF_bowReplVars(HostFrame)
                   /\ \A b \in HostBows : /\ WF_bowReplVars(SendUpdate(b))
                                          /\ SF_bowReplVars(ReceiveUpdate(b))

----------------------------------------------------------------------------
(* Properties. *)

\* What the guest sees of a bow catches up with it whenever the bow stays as it is: no
\* registered property is ever left at an old value (Bow.cpp:298-301), also when packets are
\* lost, coalesced or torn.
ReplicaCatchesUp ==
    \A b \in HostBows :
        <>[][bow'[b].charging = bow[b].charging /\ bow'[b].state = bow[b].state
             /\ bow'[b].prepared = bow[b].prepared]_bow
            => <>[](/\ replica[b].charging = bow[b].charging
                    /\ replica[b].state = bow[b].state
                    /\ replica[b].prepared = bow[b].prepared)

\* "Reliable: it matters to the game, so it must arrive" (Bow.h:62, of ServerStartDraw, which
\* "orders the server to start drawing the bow", :61): the guest's draw reaches the host.
DrawRequestArrives == asked ~> bow[GuestBow].charging

----------------------------------------------------------------------------
(* Why it does not arrive: an inductive invariant. *)

RegisteredRecord == [charging : BOOLEAN, prepared : Arrow \cup {NoArrow}, state : EBowState]

NetTypeOK == /\ {replica, update, sent} \subseteq [HostBows -> RegisteredRecord]
             /\ asked \in BOOLEAN

\* Of all bows only the host's is ever drawn or holds an arrow, on any machine, whatever the
\* guest does with his keys: every arrow there is was shot by the host.
GuestUnarmed ==
    /\ \A b \in Bow \ {HostBow} : ~bow[b].charging /\ bow[b].prepared = NoArrow
    /\ \A seen \in {replica[GuestBow], update[GuestBow]} :
          ~seen.charging /\ seen.prepared = NoArrow
    /\ \A a \in Arrow : arrow[a].phase # "none" => arrow[a].shooter = Host

BowReplInv == /\ TypeOK
              /\ NetTypeOK
              /\ bow[HostBow].owner = Host
              /\ GuestUnarmed
=============================================================================
