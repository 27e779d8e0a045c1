------------------------- MODULE CombatReplication -------------------------
(***************************************************************************)
(* Combat seen from a remote client.  The authority runs Combat.tla; the   *)
(* client has a copy of every character, which the engine keeps up to date *)
(* by sending the properties that GetLifetimeReplicatedProps registers,    *)
(* Health and bIsDead, and on which the client runs the same handlers:     *)
(* OnRep_Health and OnRep_IsDead.  Clients do not affect each other, so    *)
(* there is one.                                                           *)
(*                                                                         *)
(* Property updates are unreliable.  A packet carries the properties that  *)
(* changed since they were last sent, with their values at that time; when *)
(* the authority believes a packet lost it sends its properties again,     *)
(* with the values they have then.  The packets that open and close an     *)
(* actor's channel are reliable.                                           *)
(*                                                                         *)
(* The client's own Destroy(), three seconds after it shows a death, is    *)
(* refused by the engine for an actor it has no authority over: a copy     *)
(* goes away when its channel closes.                                      *)
(***************************************************************************)
EXTENDS Combat, Sequences

CONSTANTS
    Own,        \* the character the client's player controls, or NoCharacter
    MaxFlight   \* bound: packets under way for one character

ASSUME ReplicationAssumption == /\ Own \in User \cup {NoCharacter}
                                /\ MaxFlight \in Nat \ {0}

VARIABLES
    copy,       \* Character -> the client's copy of it
    channel,    \* Character -> the life of its actor channel
    dirty,      \* Character -> properties the authority has to send
    flight,     \* Character -> packets under way, oldest first
    lost        \* Character -> properties of packets whose loss the authority has yet to learn

netVars == <<copy, channel, dirty, flight, lost>>
replVars == <<body, shot, copy, channel, dirty, flight, lost>>

Property == {"Health", "bIsDead"}

Packet == [props : SUBSET Property, health : Int, dead : BOOLEAN]

ReplTypeOK == /\ TypeOK
              /\ copy \in [Character -> BodyRecord]
              /\ channel \in [Character -> {"none", "opening", "open", "closed"}]
              /\ dirty \in [Character -> SUBSET Property]
              /\ flight \in [Character -> Seq(Packet)]
              /\ \A c \in Character : Len(flight[c]) <= MaxFlight
              /\ lost \in [Character -> SUBSET Property]

\* An actor the client spawns for a channel: what its constructors set.
NewCopy(c) == [health |-> 0, dead |-> FALSE, capsule |-> TRUE, input |-> c = Own,
               montage |-> "none", removal |-> "none", deaths |-> 0]

ReplInit == /\ Init
            /\ copy = [c \in Character |-> NewCopy(c)]
            /\ channel = [c \in Character |-> "none"]
            /\ dirty = [c \in Character |-> {}]
            /\ flight = [c \in Character |-> <<>>]
            /\ lost = [c \in Character |-> {}]

----------------------------------------------------------------------------
(* The authority. *)

\* Mutant: the component's GetLifetimeReplicatedProps does not register Health.
RegisteredDeathOnly == {"bIsDead"}

Registered == {"Health", "bIsDead"}

\* The registered properties of c that this step changes.
Changed(c) == {p \in Registered : \/ p = "Health" /\ body'[c].health # body[c].health
                                  \/ p = "bIsDead" /\ body'[c].dead # body[c].dead}

Serve == /\ Next
         /\ dirty' = [c \in Character |-> IF channel[c] = "none" THEN {}
                                          ELSE dirty[c] \cup Changed(c)]
         /\ UNCHANGED <<copy, channel, flight, lost>>

PacketOf(c, props) == [props |-> props, health |-> body[c].health, dead |-> body[c].dead]

\* The client joins, or the character comes into its range.
Open(c) == /\ channel[c] = "none"
           /\ body[c].removal \in {"none", "scheduled"}
           /\ channel' = [channel EXCEPT ![c] = "opening"]
           /\ flight' = [flight EXCEPT ![c] = <<PacketOf(c, Registered)>>]
           /\ UNCHANGED <<body, shot, copy, dirty, lost>>

Send(c) == /\ channel[c] = "open"
           /\ body[c].removal \in {"none", "scheduled"}
           /\ dirty[c] # {}
           /\ Len(flight[c]) < MaxFlight
           /\ flight' = [flight EXCEPT ![c] = Append(@, PacketOf(c, dirty[c]))]
           /\ dirty' = [dirty EXCEPT ![c] = {}]
           /\ UNCHANGED <<body, shot, copy, channel, lost>>

\* The authority concludes that packets were lost.
Nak(c) == /\ lost[c] # {}
          /\ dirty' = [dirty EXCEPT ![c] = @ \cup lost[c]]
          /\ lost' = [lost EXCEPT ![c] = {}]
          /\ UNCHANGED <<body, shot, copy, channel, flight>>

----------------------------------------------------------------------------
(* The client. *)

Applied(w, p) == [w EXCEPT !.health = IF "Health" \in p.props THEN p.health ELSE @,
                           !.dead = IF "bIsDead" \in p.props THEN p.dead ELSE @]

NotifyHealth(old, w) == IF w.health # old.health THEN OnRep_Health(w) ELSE w

\* Mutant: the notification runs whether or not the value is a new one.
NotifyDeadAlways(old, w) == IF w.dead THEN OnRep_IsDead(w) ELSE w

NotifyDead(old, w) == IF w.dead /\ ~old.dead THEN OnRep_IsDead(w) ELSE w

\* A packet's values are all in place before the notifications of the changed ones run, the
\* actor's first or its component's first.
Received(old, p) == LET w == Applied(old, p)
                    IN  {NotifyHealth(old, NotifyDead(old, w)), NotifyDead(old, NotifyHealth(old, w))}

\* Mutant: the client initialises Health too.
BeginPlayAnywhere(w, authority) == [w EXCEPT !.health = MaxHealth]

BeginPlay(w, authority) == IF authority THEN [w EXCEPT !.health = MaxHealth] ELSE w

\* The first packet spawns the copy, and its BeginPlay runs after the values arrived.
Arrive(c) == /\ channel[c] = "opening"
             /\ \E w \in Received(NewCopy(c), Head(flight[c])) :
                    copy' = [copy EXCEPT ![c] = BeginPlay(w, FALSE)]
             /\ channel' = [channel EXCEPT ![c] = "open"]
             /\ flight' = [flight EXCEPT ![c] = Tail(@)]
             /\ UNCHANGED <<body, shot, dirty, lost>>

\* A packet arrives; its acknowledgement may be lost, and then it will be believed lost.
Deliver(c) == /\ channel[c] = "open"
              /\ flight[c] # <<>>
              /\ \E w \in Received(copy[c], Head(flight[c])) : copy' = [copy EXCEPT ![c] = w]
              /\ flight' = [flight EXCEPT ![c] = Tail(@)]
              /\ lost' \in {lost, [lost EXCEPT ![c] = @ \cup Head(flight[c]).props]}
              /\ UNCHANGED <<body, shot, channel, dirty>>

Lose(c) == /\ channel[c] = "open"
           /\ flight[c] # <<>>
           /\ flight' = [flight EXCEPT ![c] = Tail(@)]
           /\ lost' = [lost EXCEPT ![c] = @ \cup Head(flight[c]).props]
           /\ UNCHANGED <<body, shot, copy, channel, dirty>>

Close(c) == /\ channel[c] = "open"
            /\ body[c].removal \in {"destroyed", "collected"}
            /\ channel' = [channel EXCEPT ![c] = "closed"]
            /\ copy' = [copy EXCEPT ![c].removal = "destroyed"]
            /\ flight' = [flight EXCEPT ![c] = <<>>]
            /\ dirty' = [dirty EXCEPT ![c] = {}]
            /\ lost' = [lost EXCEPT ![c] = {}]
            /\ UNCHANGED <<body, shot>>

\* Mutant: the client takes health off its copies.
DamageTakenAnywhere(c, w, authority) == DamageTaken(c, w)

DamageTakenOn(c, w, authority) == IF authority THEN DamageTaken(c, w) ELSE w

\* A replicated arrow moves on the client too, and its OnHit calls ApplyDamage there.
HitOnClient(c) == /\ channel[c] = "open"
                  /\ copy[c].capsule \/ c \in MeshBlocks
                  /\ copy' = [copy EXCEPT ![c] = DamageTakenOn(c, @, FALSE)]
                  /\ UNCHANGED <<body, shot, channel, dirty, flight, lost>>

----------------------------------------------------------------------------
ReplNext == \/ Serve
            \/ \E c \in Character : \/ Open(c) \/ Send(c) \/ Nak(c)
                                    \/ Arrive(c) \/ Deliver(c) \/ Lose(c) \/ Close(c)
                                    \/ HitOnClient(c)

ReplSpec == ReplInit /\ [][ReplNext]_replVars

DeliverOf(c, p) == flight[c] # <<>> /\ p \in Head(flight[c]).props /\ Deliver(c)

\* The connection works: dirty properties are sent, losses are noticed, and a property that is
\* sent again and again arrives.  Nothing is assumed of the game.
ReplFairSpec == ReplSpec /\ \A c \in Character : /\ WF_replVars(Send(c))
                                                 /\ WF_replVars(Nak(c))
                                                 /\ WF_replVars(Arrive(c))
                                                 /\ WF_replVars(Close(c))
                                                 /\ \A p \in Property : SF_replVars(DeliverOf(c, p))

----------------------------------------------------------------------------
(* Properties. *)

Shown(c) == channel[c] = "open"

\* The client is behind the authority, never ahead of it: it shows no wound and no death that
\* has not happened, however packets are lost and resent and whatever its own copies of the
\* arrows hit; and a character it shows as dead has no health left on its screen either.  (The
\* other way round may be seen: when the packet of the death is lost, a later hit on the
\* corpse can arrive first, and for a while a living character is shown with no health.)
ClientNeverAhead ==
    \A c \in Character : Shown(c) =>
        /\ copy[c].health >= body[c].health
        /\ copy[c].dead => body[c].dead
        /\ copy[c].dead /\ GameModeFound => copy[c].health <= 0

\* A client runs the death of a character once, although bIsDead may be sent to it several
\* times, and from then on the corpse neither blocks nor obeys.
CopyDiesOnce ==
    \A c \in Character : Shown(c) =>
        /\ copy[c].deaths = IF copy[c].dead THEN 1 ELSE 0
        /\ copy[c].dead => ~copy[c].capsule /\ ~copy[c].input

\* What a client has seen stays seen: while a character is shown to it, no packet, however late,
\* gives the copy back health it had lost or takes back its death.
ClientNeverForgets ==
    [][\A c \in Character : Shown(c) /\ Shown(c)' =>
            /\ copy'[c].health <= copy[c].health
            /\ copy[c].dead => copy'[c].dead]_replVars

\* Once the shooting is over, every copy that stays shows the health and the death of the
\* character, also to a client that joined after the last hit.
ClientCatchesUp ==
    \A c \in Character :
        <>[](Shown(c) => copy[c].health = body[c].health /\ copy[c].dead = body[c].dead)

----------------------------------------------------------------------------
(* The inductive invariant behind the safety properties. *)

\* A death always goes with the loss of health that brought it.
DeathWithHealth(props) == "bIsDead" \in props => "Health" \in props

\* A packet says what was true of the character some time ago.
PacketSound(c, p) == /\ DeathWithHealth(p.props)
                     /\ p.health >= body[c].health
                     /\ p.dead => body[c].dead
                     /\ p.dead /\ GameModeFound => p.health <= 0

\* What is under way for c was sent in the order of the flight f: no packet forgets a death.
FlightSound(c, f) ==
    /\ \A i \in 1 .. Len(f) : PacketSound(c, f[i])
    /\ \A i, j \in 1 .. Len(f) : i <= j /\ f[i].dead => f[j].dead

\* The packet that opens a channel carries everything.
OpeningSound(f) == Len(f) = 1 /\ f[1].props = Property

\* A copy w that is shown is behind the authority, and no packet of f forgets its death.
CopySound(c, w, f) ==
    /\ w.health >= body[c].health
    /\ w.dead => body[c].dead
    /\ w.dead /\ GameModeFound => w.health <= 0
    /\ w.deaths = IF w.dead THEN 1 ELSE 0
    /\ w.dead => ~w.capsule /\ ~w.input
    /\ w.dead => \A i \in 1 .. Len(f) : f[i].dead

LinkSound(c) == /\ DeathWithHealth(dirty[c])
                /\ DeathWithHealth(lost[c])
                /\ FlightSound(c, flight[c])
                /\ channel[c] = "opening" => OpeningSound(flight[c])
                /\ Shown(c) => CopySound(c, copy[c], flight[c])

ReplInv == /\ ReplTypeOK
           /\ CombatInv
           /\ \A c \in Character : LinkSound(c)

\* The packets of a flight tell of health in the order in which it fell, and a copy has not
\* seen less than is still under way to it.
Falling(f) == \A i, j \in 1 .. Len(f) : i <= j => f[j].health <= f[i].health
NotBelow(w, f) == \A i \in 1 .. Len(f) : f[i].health <= w.health

OrderInv == \A c \in Character : /\ Falling(flight[c])
                                 /\ Shown(c) => NotBelow(copy[c], flight[c])
=============================================================================
