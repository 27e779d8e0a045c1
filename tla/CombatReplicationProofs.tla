---------------------- MODULE CombatReplicationProofs ----------------------
(***************************************************************************)
(* Proofs about CombatReplication.tla: a client is never ahead of the      *)
(* authority and shows each death once, for every set of characters, every *)
(* finite set of arrows, any health and damage, and any number of packets  *)
(* under way, however they are lost and sent again.                        *)
(***************************************************************************)
EXTENDS CombatReplication, CombatProofs

----------------------------------------------------------------------------
(* Sequences. *)

LEMMA Appended ==
    ASSUME NEW S, NEW q \in Seq(S), NEW m \in S
    PROVE  /\ Append(q, m) \in Seq(S)
           /\ Len(q) \in Nat /\ Len(Append(q, m)) = Len(q) + 1
           /\ \A i \in 1 .. Len(q) : Append(q, m)[i] = q[i]
           /\ Append(q, m)[Len(q) + 1] = m
OBVIOUS

LEMMA Tailed ==
    ASSUME NEW S, NEW q \in Seq(S), q # <<>>
    PROVE  /\ Tail(q) \in Seq(S) /\ Head(q) \in S
           /\ Len(q) \in Nat \ {0} /\ Len(Tail(q)) = Len(q) - 1
           /\ Head(q) = q[1] /\ 1 \in 1 .. Len(q)
           /\ \A i \in 1 .. Len(q) - 1 : i + 1 \in 1 .. Len(q) /\ Tail(q)[i] = q[i + 1]
OBVIOUS

----------------------------------------------------------------------------
(* The authority: health only falls, and death is for good. *)

\* A hit does not bring anybody back to life.
LEMMA DamageKills ==
    ASSUME NEW c \in Character, NEW w \in BodyRecord, BodySound(w)
    PROVE  /\ w.dead => DamageTaken(c, w).dead
           /\ DamageTaken(c, w).health <= w.health
           /\ DamageTaken(c, w).health # w.health
<1> DEFINE d == DamageTaken(c, w)
<1>1. /\ d \in BodyRecord /\ d.health = w.health - Damage
      /\ BodySound(d)
  BY DamageTakenSound
<1>2. /\ w.health \in Int /\ Damage \in Nat \ {0}
  BY CombatAssumption DEF BodyRecord
<1>3. d.health <= w.health /\ d.health # w.health
  BY <1>1, <1>2
<1>4. w.dead => d.dead
  <2>1. CASE GameModeFound
    <3>1. w.dead => w.health <= 0
      BY <2>1 DEF BodySound
    <3>2. d.health <= 0 => d.dead
      BY <1>1, <2>1 DEF BodySound
    <3>3. w.health <= 0 => d.health <= 0
      BY <1>1, <1>2
    <3> QED
      BY <3>1, <3>2, <3>3
  <2>2. CASE ~GameModeFound
    BY <2>2 DEF DamageTaken, OnRep_Health, PlayMontage, BodyRecord
  <2> QED
    BY <2>1, <2>2
<1> QED
  BY <1>3, <1>4

LEMMA BodyWorsens ==
    ASSUME CombatInv, Next, NEW c \in Character
    PROVE  /\ body'[c].health <= body[c].health
           /\ body[c].dead => body'[c].dead
           /\ body'[c].dead # body[c].dead => body'[c].health # body[c].health
<1>0. /\ TypeOK
      /\ body[c] \in BodyRecord
      /\ BodySound(body[c])
      /\ body[c].health \in Int
  BY DEF CombatInv, TypeOK, BodyRecord
<1>1. ASSUME NEW a \in Arrow, NEW d \in Character, HitCharacter(a, d)
      PROVE  body'[c] = body[c] \/ body'[c] = DamageTaken(c, body[c])
  BY <1>0, <1>1 DEF HitCharacter, TypeOK
<1>2. ASSUME NEW d \in Character, Remove(d) \/ CollectGarbage(d)
      PROVE  body'[c].health = body[c].health /\ body'[c].dead = body[c].dead
  BY <1>0, <1>2 DEF Remove, CollectGarbage, TypeOK, BodyRecord
<1>3. ASSUME body'[c].health = body[c].health, body'[c].dead = body[c].dead
      PROVE  /\ body'[c].health <= body[c].health
             /\ body[c].dead => body'[c].dead
             /\ body'[c].dead # body[c].dead => body'[c].health # body[c].health
  BY <1>0, <1>3
<1>4. ASSUME body'[c] = DamageTaken(c, body[c])
      PROVE  /\ body'[c].health <= body[c].health
             /\ body[c].dead => body'[c].dead
             /\ body'[c].dead # body[c].dead => body'[c].health # body[c].health
  BY <1>0, <1>4, DamageKills
<1> QED
  BY <1>1, <1>2, <1>3, <1>4 DEF Next, Loose, HitObject, HitOwnerless, FliesOff

----------------------------------------------------------------------------
(* The client. *)

\* What a packet does to a copy, in whichever order the notifications run.
LEMMA ReceivedCopy ==
    ASSUME NEW old \in BodyRecord, NEW p \in Packet, NEW w \in Received(old, p)
    PROVE  /\ w \in BodyRecord
           /\ w.health = IF "Health" \in p.props THEN p.health ELSE old.health
           /\ w.dead = IF "bIsDead" \in p.props THEN p.dead ELSE old.dead
           /\ w.dead /\ ~old.dead => w.deaths = old.deaths + 1 /\ ~w.capsule /\ ~w.input
           /\ ~w.dead \/ old.dead => /\ w.deaths = old.deaths /\ w.capsule = old.capsule
                                     /\ w.input = old.input
<1> DEFINE u == Applied(old, p)
<1>1. /\ u \in BodyRecord
      /\ u.health = IF "Health" \in p.props THEN p.health ELSE old.health
      /\ u.dead = IF "bIsDead" \in p.props THEN p.dead ELSE old.dead
      /\ u.deaths = old.deaths /\ u.capsule = old.capsule /\ u.input = old.input
  BY DEF Applied, Packet, BodyRecord
<1>2. ASSUME NEW v \in BodyRecord
      PROVE  /\ NotifyHealth(old, v) \in BodyRecord
             /\ NotifyHealth(old, v).health = v.health
             /\ NotifyHealth(old, v).dead = v.dead
             /\ NotifyHealth(old, v).deaths = v.deaths
             /\ NotifyHealth(old, v).capsule = v.capsule
             /\ NotifyHealth(old, v).input = v.input
  BY DEF NotifyHealth, OnRep_Health, PlayMontage, BodyRecord
<1>3. ASSUME NEW v \in BodyRecord
      PROVE  /\ NotifyDead(old, v) \in BodyRecord
             /\ NotifyDead(old, v).health = v.health
             /\ NotifyDead(old, v).dead = v.dead
             /\ v.dead /\ ~old.dead => /\ NotifyDead(old, v).deaths = v.deaths + 1
                                       /\ ~NotifyDead(old, v).capsule
                                       /\ ~NotifyDead(old, v).input
             /\ ~v.dead \/ old.dead => NotifyDead(old, v) = v
  <2>1. CASE v.dead /\ ~old.dead
    <3> DEFINE s == [v EXCEPT !.capsule = FALSE, !.input = FALSE]
               d == OnDeath(s)
    <3>1. NotifyDead(old, v) = d
      BY <2>1 DEF NotifyDead, OnRep_IsDead, PlayMontage
    <3>2. /\ s \in BodyRecord /\ ~s.capsule /\ ~s.input
          /\ s.health = v.health /\ s.dead = v.dead /\ s.deaths = v.deaths
      BY DEF BodyRecord
    <3> HIDE DEF s
    <3>3. d = [s EXCEPT !.input = FALSE, !.removal = "scheduled", !.deaths = v.deaths + 1]
      BY <3>2 DEF OnDeath, BodyRecord
    <3> HIDE DEF d
    <3>4. v.deaths + 1 \in Nat
      BY DEF BodyRecord
    <3>5. /\ d \in BodyRecord
          /\ d.health = v.health /\ d.dead = v.dead /\ d.deaths = v.deaths + 1
          /\ ~d.capsule /\ ~d.input
      BY <3>2, <3>3, <3>4 DEF BodyRecord
    <3> QED
      BY <2>1, <3>1, <3>5
  <2>2. CASE ~v.dead \/ old.dead
    BY <2>2 DEF NotifyDead
  <2> QED
    BY <2>1, <2>2
<1>4. w = NotifyHealth(old, NotifyDead(old, u)) \/ w = NotifyDead(old, NotifyHealth(old, u))
  BY DEF Received
<1> HIDE DEF u
<1>5. CASE w = NotifyHealth(old, NotifyDead(old, u))
  <2> DEFINE v == NotifyDead(old, u)
  <2>1. /\ v \in BodyRecord /\ v.health = u.health /\ v.dead = u.dead
        /\ u.dead /\ ~old.dead => v.deaths = u.deaths + 1 /\ ~v.capsule /\ ~v.input
        /\ ~u.dead \/ old.dead => v = u
    BY <1>1, <1>3
  <2> HIDE DEF v
  <2>2. /\ w \in BodyRecord /\ w.health = v.health /\ w.dead = v.dead
        /\ w.deaths = v.deaths /\ w.capsule = v.capsule /\ w.input = v.input
    BY <1>2, <1>5, <2>1 DEF v
  <2> QED
    BY <1>1, <2>1, <2>2
<1>6. CASE w = NotifyDead(old, NotifyHealth(old, u))
  <2> DEFINE v == NotifyHealth(old, u)
  <2>1. /\ v \in BodyRecord /\ v.health = u.health /\ v.dead = u.dead
        /\ v.deaths = u.deaths /\ v.capsule = u.capsule /\ v.input = u.input
    BY <1>1, <1>2
  <2> HIDE DEF v
  <2>2. /\ w \in BodyRecord /\ w.health = v.health /\ w.dead = v.dead
        /\ v.dead /\ ~old.dead => w.deaths = v.deaths + 1 /\ ~w.capsule /\ ~w.input
        /\ ~v.dead \/ old.dead => w = v
    BY <1>3, <1>6, <2>1 DEF v
  <2> QED
    BY <1>1, <2>1, <2>2
<1> QED
  BY <1>4, <1>5, <1>6

----------------------------------------------------------------------------
(* A step about one character's connection. *)

\* A client, a connection and its queues that are sound after the step for the character it is
\* about leave the whole invariant as it was.
LEMMA OneCharacter ==
    ASSUME ReplInv, UNCHANGED <<body, shot>>,
           NEW c \in Character, NEW w \in BodyRecord,
           NEW h \in {"none", "opening", "open", "closed"},
           NEW d \in SUBSET Property, NEW f \in Seq(Packet), NEW l \in SUBSET Property,
           copy' = [copy EXCEPT ![c] = w], channel' = [channel EXCEPT ![c] = h],
           dirty' = [dirty EXCEPT ![c] = d], flight' = [flight EXCEPT ![c] = f],
           lost' = [lost EXCEPT ![c] = l],
           DeathWithHealth(d), DeathWithHealth(l), FlightSound(c, f), Len(f) <= MaxFlight,
           h = "opening" => OpeningSound(f),
           h = "open" => CopySound(c, w, f)
    PROVE  ReplInv'
<1>1. ReplTypeOK /\ CombatInv /\ \A e \in Character : LinkSound(e)
  BY DEF ReplInv
<1>2. TypeOK' /\ CombatInv'
  BY <1>1 DEF CombatInv, TypeOK, HealthAccount, Wounds
<1>3. /\ copy'[c] = w /\ channel'[c] = h /\ dirty'[c] = d /\ flight'[c] = f /\ lost'[c] = l
      /\ \A e \in Character \ {c} : /\ copy'[e] = copy[e] /\ channel'[e] = channel[e]
                                    /\ dirty'[e] = dirty[e] /\ flight'[e] = flight[e]
                                    /\ lost'[e] = lost[e]
  BY <1>1 DEF ReplTypeOK
<1>4. ReplTypeOK'
  <2>1. /\ copy' \in [Character -> BodyRecord]
        /\ channel' \in [Character -> {"none", "opening", "open", "closed"}]
        /\ dirty' \in [Character -> SUBSET Property]
        /\ flight' \in [Character -> Seq(Packet)]
        /\ lost' \in [Character -> SUBSET Property]
    BY <1>1 DEF ReplTypeOK
  <2>2. \A e \in Character : Len(flight'[e]) <= MaxFlight
    BY <1>1, <1>3 DEF ReplTypeOK
  <2> QED
    BY <1>2, <2>1, <2>2 DEF ReplTypeOK
<1>5. ASSUME NEW e \in Character PROVE LinkSound(e)'
  <2>1. CASE e = c
    <3>1. FlightSound(c, f)' /\ (h = "open" => CopySound(c, w, f)')
      BY DEF FlightSound, PacketSound, CopySound
    <3> QED
      BY <1>3, <2>1, <3>1 DEF LinkSound, FlightSound, PacketSound, CopySound, Shown, OpeningSound
  <2>2. CASE e # c
    <3>1. LinkSound(e)
      BY <1>1
    <3>2. /\ copy'[e] = copy[e] /\ channel'[e] = channel[e] /\ dirty'[e] = dirty[e]
          /\ flight'[e] = flight[e] /\ lost'[e] = lost[e] /\ body' = body
      BY <1>3, <2>2
    <3> QED
      BY <3>1, <3>2 DEF LinkSound, FlightSound, PacketSound, CopySound, Shown
  <2> QED
    BY <2>1, <2>2
<1> QED
  BY <1>2, <1>4, <1>5 DEF ReplInv

\* What the invariant says of one character.
LEMMA LinkFacts ==
    ASSUME ReplInv, NEW c \in Character
    PROVE  /\ body[c] \in BodyRecord /\ copy[c] \in BodyRecord /\ BodySound(body[c])
           /\ channel[c] \in {"none", "opening", "open", "closed"}
           /\ dirty[c] \in SUBSET Property /\ lost[c] \in SUBSET Property
           /\ flight[c] \in Seq(Packet) /\ Len(flight[c]) <= MaxFlight
           /\ copy \in [Character -> BodyRecord]
           /\ copy = [copy EXCEPT ![c] = copy[c]]
           /\ channel = [channel EXCEPT ![c] = channel[c]]
           /\ dirty = [dirty EXCEPT ![c] = dirty[c]]
           /\ flight = [flight EXCEPT ![c] = flight[c]]
           /\ lost = [lost EXCEPT ![c] = lost[c]]
           /\ DeathWithHealth(dirty[c]) /\ DeathWithHealth(lost[c])
           /\ FlightSound(c, flight[c])
           /\ channel[c] = "opening" => OpeningSound(flight[c])
           /\ channel[c] = "open" => CopySound(c, copy[c], flight[c])
BY DEF ReplInv, ReplTypeOK, CombatInv, TypeOK, LinkSound, Shown

\* A packet made now is sound, and so is a flight that it ends.
LEMMA PacketMade ==
    ASSUME ReplInv, NEW c \in Character, NEW d \in SUBSET Property, DeathWithHealth(d)
    PROVE  /\ PacketOf(c, d) \in Packet
           /\ PacketSound(c, PacketOf(c, d))
           /\ PacketOf(c, d).props = d /\ PacketOf(c, d).dead = body[c].dead
<1>1. body[c] \in BodyRecord /\ BodySound(body[c])
  BY LinkFacts
<1>2. body[c].health \in Int /\ body[c].dead \in BOOLEAN
  BY <1>1 DEF BodyRecord
<1>3. body[c].dead /\ GameModeFound => body[c].health <= 0
  BY <1>1 DEF BodySound
<1>4. body[c].health >= body[c].health
  BY <1>2
<1> QED
  BY <1>2, <1>3, <1>4 DEF PacketOf, Packet, PacketSound

LEMMA FlightTailed ==
    ASSUME NEW c \in Character, NEW f \in Seq(Packet), f # <<>>, FlightSound(c, f)
    PROVE  /\ Head(f) \in Packet /\ PacketSound(c, Head(f))
           /\ Tail(f) \in Seq(Packet) /\ Len(Tail(f)) <= Len(f)
           /\ FlightSound(c, Tail(f))
           /\ Head(f).dead => \A i \in 1 .. Len(Tail(f)) : Tail(f)[i].dead
           /\ (\A i \in 1 .. Len(f) : f[i].dead) =>
                /\ Head(f).dead
                /\ \A i \in 1 .. Len(Tail(f)) : Tail(f)[i].dead
<1> DEFINE t == Tail(f)
           n == Len(f)
<1>1. /\ t \in Seq(Packet) /\ Head(f) \in Packet /\ n \in Nat \ {0} /\ Len(t) = n - 1
      /\ Head(f) = f[1] /\ 1 \in 1 .. n
      /\ \A i \in 1 .. n - 1 : i + 1 \in 1 .. n /\ t[i] = f[i + 1]
  BY Tailed
<1>2. /\ \A i \in 1 .. n : PacketSound(c, f[i])
      /\ \A i, j \in 1 .. n : i <= j /\ f[i].dead => f[j].dead
  BY DEF FlightSound
<1> HIDE DEF t, n
<1>3. \A i \in 1 .. n - 1 : PacketSound(c, t[i])
  BY <1>1, <1>2
<1>4. ASSUME NEW i \in 1 .. n - 1, NEW j \in 1 .. n - 1, i <= j, t[i].dead PROVE t[j].dead
  <2>1. i + 1 \in 1 .. n /\ j + 1 \in 1 .. n /\ i + 1 <= j + 1
    BY <1>1, <1>4
  <2> QED
    BY <1>1, <1>2, <1>4, <2>1
<1>5. ASSUME NEW j \in 1 .. n - 1, f[1].dead PROVE t[j].dead
  <2>1. 1 \in 1 .. n /\ j + 1 \in 1 .. n /\ 1 <= j + 1
    BY <1>1
  <2> QED
    BY <1>1, <1>2, <1>5, <2>1
<1>6. FlightSound(c, t)
  BY <1>1, <1>3, <1>4 DEF FlightSound
<1>7. Len(t) <= n
  BY <1>1
<1> QED
  BY <1>1, <1>2, <1>3, <1>5, <1>6, <1>7 DEF t, n

LEMMA FlightAppended ==
    ASSUME NEW c \in Character, NEW f \in Seq(Packet), FlightSound(c, f), NEW p \in Packet,
           PacketSound(c, p), \A i \in 1 .. Len(f) : f[i].dead => p.dead
    PROVE  Append(f, p) \in Seq(Packet) /\ FlightSound(c, Append(f, p))
<1> DEFINE g == Append(f, p)
           n == Len(f)
<1>1. /\ g \in Seq(Packet) /\ n \in Nat /\ Len(g) = n + 1
      /\ \A i \in 1 .. n : g[i] = f[i]
      /\ g[n + 1] = p
  BY Appended
<1>2. /\ \A i \in 1 .. n : PacketSound(c, f[i]) /\ (f[i].dead => p.dead)
      /\ \A i, j \in 1 .. n : i <= j /\ f[i].dead => f[j].dead
  BY DEF FlightSound
<1> HIDE DEF g, n
<1>3. \A i \in 1 .. n + 1 : i \in 1 .. n \/ i = n + 1
  BY <1>1
<1>4. \A i \in 1 .. n + 1 : PacketSound(c, g[i])
  BY <1>1, <1>2, <1>3
<1>5. ASSUME NEW i \in 1 .. n + 1, NEW j \in 1 .. n + 1, i <= j, g[i].dead PROVE g[j].dead
  <2>1. CASE j \in 1 .. n
    <3>1. i \in 1 .. n
      BY <1>1, <1>5, <2>1
    <3> QED
      BY <1>1, <1>2, <1>5, <2>1, <3>1
  <2>2. CASE j = n + 1
    <3>1. CASE i \in 1 .. n
      BY <1>1, <1>2, <1>5, <2>2, <3>1
    <3>2. CASE i = n + 1
      BY <1>5, <2>2, <3>2
    <3> QED
      BY <1>3, <3>1, <3>2
  <2> QED
    BY <1>3, <2>1, <2>2
<1>6. FlightSound(c, g)
  BY <1>1, <1>4, <1>5 DEF FlightSound
<1> QED
  BY <1>1, <1>6 DEF g

\* A packet brings a copy forward, never past the authority or what is behind the packet.
LEMMA ReceivedSound ==
    ASSUME NEW c \in Character, body[c] \in BodyRecord,
           NEW old \in BodyRecord, NEW p \in Packet, NEW w \in Received(old, p),
           NEW t \in Seq(Packet), PacketSound(c, p),
           p.dead => \A i \in 1 .. Len(t) : t[i].dead,
           \/ p.props = Property /\ ~old.dead /\ old.deaths = 0
           \/ CopySound(c, old, t) /\ (old.dead => p.dead)
    PROVE  w \in BodyRecord /\ CopySound(c, w, t)
<1>1. /\ w \in BodyRecord
      /\ w.health = IF "Health" \in p.props THEN p.health ELSE old.health
      /\ w.dead = IF "bIsDead" \in p.props THEN p.dead ELSE old.dead
      /\ w.dead /\ ~old.dead => w.deaths = old.deaths + 1 /\ ~w.capsule /\ ~w.input
      /\ ~w.dead \/ old.dead => /\ w.deaths = old.deaths /\ w.capsule = old.capsule
                                /\ w.input = old.input
  BY ReceivedCopy
<1>2. /\ "bIsDead" \in p.props => "Health" \in p.props
      /\ p.health >= body[c].health
      /\ p.dead => body[c].dead
      /\ p.dead /\ GameModeFound => p.health <= 0
  BY DEF PacketSound, DeathWithHealth
<1>3. CASE p.props = Property /\ ~old.dead /\ old.deaths = 0
  <2>1. w.health = p.health /\ w.dead = p.dead
    BY <1>1, <1>3 DEF Property
  <2>2. w.dead => w.deaths = 1 /\ ~w.capsule /\ ~w.input
    <3>1. old.deaths + 1 = 1
      BY <1>3
    <3> QED
      BY <1>1, <1>3, <3>1
  <2>3. ~w.dead => w.deaths = 0
    BY <1>1, <1>3
  <2> QED
    BY <1>1, <1>2, <2>1, <2>2, <2>3 DEF CopySound
<1>4. CASE CopySound(c, old, t) /\ (old.dead => p.dead)
  <2>1. /\ old.health >= body[c].health
        /\ old.dead => body[c].dead
        /\ old.dead /\ GameModeFound => old.health <= 0
        /\ old.deaths = IF old.dead THEN 1 ELSE 0
        /\ old.dead => ~old.capsule /\ ~old.input
        /\ old.dead => \A i \in 1 .. Len(t) : t[i].dead
    BY <1>4 DEF CopySound
  <2>2. w.dead => p.dead
    BY <1>1, <1>4
  <2>3. w.health >= body[c].health
    BY <1>1, <1>2, <2>1
  <2>4. w.dead => body[c].dead /\ \A i \in 1 .. Len(t) : t[i].dead
    BY <1>2, <2>2
  <2>5. ASSUME w.dead, GameModeFound PROVE w.health <= 0
    <3>1. CASE "Health" \in p.props
      BY <1>1, <1>2, <2>2, <2>5, <3>1
    <3>2. CASE "Health" \notin p.props
      <4>1. w.health = old.health /\ old.dead
        BY <1>1, <1>2, <2>5, <3>2
      <4> QED
        BY <2>1, <2>5, <4>1
    <3> QED
      BY <3>1, <3>2
  <2>6. w.deaths = IF w.dead THEN 1 ELSE 0
    <3>1. CASE w.dead /\ ~old.dead
      <4>1. old.deaths = 0 /\ 0 + 1 = 1
        BY <2>1, <3>1
      <4> QED
        BY <1>1, <3>1, <4>1
    <3>2. CASE w.dead /\ old.dead
      BY <1>1, <2>1, <3>2
    <3>3. CASE ~w.dead
      <4>1. ~old.dead
        BY <1>1, <1>2, <1>4, <3>3
      <4> QED
        BY <1>1, <2>1, <3>3, <4>1
    <3> QED
      BY <3>1, <3>2, <3>3
  <2>7. w.dead => ~w.capsule /\ ~w.input
    BY <1>1, <2>1
  <2> QED
    BY <1>1, <2>3, <2>4, <2>5, <2>6, <2>7 DEF CopySound
<1> QED
  BY <1>3, <1>4

----------------------------------------------------------------------------
(* The inductive invariant. *)

LEMMA ReplInitInv == ReplInit => ReplInv
<1> SUFFICES ASSUME ReplInit PROVE ReplInv
  OBVIOUS
<1>1. CombatInv /\ TypeOK
  BY InitInv DEF ReplInit, CombatInv
<1>2. \A c \in Character : NewCopy(c) \in BodyRecord
  BY DEF NewCopy, BodyRecord
<1>3. <<>> \in Seq(Packet) /\ Len(<<>>) = 0 /\ 1 .. 0 = {} /\ 0 <= MaxFlight
  BY ReplicationAssumption
<1>4. ReplTypeOK
  BY <1>1, <1>2, <1>3 DEF ReplInit, ReplTypeOK
<1>5. \A c \in Character : FlightSound(c, <<>>)
  BY <1>3 DEF FlightSound
<1>6. \A c \in Character : LinkSound(c)
  BY <1>5 DEF ReplInit, LinkSound, Shown, DeathWithHealth
<1> QED
  BY <1>1, <1>4, <1>6 DEF ReplInv

LEMMA ServeInv ==
    ASSUME ReplInv, Serve
    PROVE  ReplInv'
<1>1. ReplTypeOK /\ CombatInv /\ Next
  BY DEF ReplInv, Serve
<1>2. CombatInv' /\ TypeOK'
  BY <1>1, NextInv DEF CombatInv
<1>3. /\ dirty' = [c \in Character |-> IF channel[c] = "none" THEN {} ELSE dirty[c] \cup Changed(c)]
      /\ UNCHANGED <<copy, channel, flight, lost>>
  BY DEF Serve
<1>4. ReplTypeOK'
  BY <1>1, <1>2, <1>3 DEF ReplTypeOK, Changed, Registered, Property
<1>5. ASSUME NEW c \in Character PROVE LinkSound(c)'
  <2>1. /\ body'[c].health <= body[c].health
        /\ body[c].dead => body'[c].dead
        /\ body'[c].dead # body[c].dead => body'[c].health # body[c].health
    BY <1>1, BodyWorsens
  <2>2. /\ body[c].health \in Int /\ body'[c].health \in Int
        /\ copy[c].health \in Int
    BY <1>1, <1>2, LinkFacts DEF BodyRecord, TypeOK
  <2>3. DeathWithHealth(Changed(c))
    BY <2>1 DEF DeathWithHealth, Changed, Registered
  <2>4. DeathWithHealth(dirty'[c])
    BY <1>3, <2>3, LinkFacts DEF DeathWithHealth
  <2>5. ASSUME NEW p \in Packet, PacketSound(c, p) PROVE PacketSound(c, p)'
    <3>1. p.health \in Int
      BY DEF Packet
    <3>2. p.health >= body'[c].health
      BY <2>1, <2>2, <2>5, <3>1 DEF PacketSound
    <3> QED
      BY <2>1, <2>5, <3>2 DEF PacketSound
  <2>6. FlightSound(c, flight[c])'
    <3>1. FlightSound(c, flight[c]) /\ \A i \in 1 .. Len(flight[c]) : flight[c][i] \in Packet
      BY LinkFacts
    <3> QED
      BY <1>3, <2>5, <3>1 DEF FlightSound
  <2>7. ASSUME channel[c] = "open" PROVE CopySound(c, copy[c], flight[c])'
    <3>1. CopySound(c, copy[c], flight[c])
      BY <2>7, LinkFacts
    <3>2. copy[c].health >= body'[c].health
      BY <2>1, <2>2, <3>1 DEF CopySound
    <3> QED
      BY <1>3, <2>1, <3>1, <3>2 DEF CopySound
  <2> QED
    BY <1>3, <2>4, <2>6, <2>7, LinkFacts DEF LinkSound, Shown, DeathWithHealth
<1> QED
  BY <1>2, <1>4, <1>5 DEF ReplInv

LEMMA SendInv ==
    ASSUME ReplInv, NEW c \in Character, Open(c) \/ Send(c)
    PROVE  ReplInv'
<1> DEFINE b == PacketOf(c, Registered)
           p == PacketOf(c, dirty[c])
<1>0. DeathWithHealth(Registered) /\ Registered \in SUBSET Property /\ DeathWithHealth({})
  BY DEF DeathWithHealth, Registered, Property
<1>1. CASE Open(c)
  <2>1. b \in Packet /\ PacketSound(c, b) /\ b.props = Property
    BY <1>0, PacketMade DEF Registered, Property
  <2> HIDE DEF b
  <2>2. /\ <<b>> \in Seq(Packet) /\ Len(<<b>>) = 1 /\ <<b>>[1] = b
        /\ \A i \in 1 .. 1 : i = 1
    BY <2>1
  <2>3. FlightSound(c, <<b>>) /\ OpeningSound(<<b>>)
    BY <2>1, <2>2 DEF FlightSound, OpeningSound
  <2>4. 1 <= MaxFlight
    BY ReplicationAssumption
  <2>5. /\ UNCHANGED <<body, shot, copy, dirty, lost>>
        /\ channel' = [channel EXCEPT ![c] = "opening"]
        /\ flight' = [flight EXCEPT ![c] = <<b>>]
    BY <1>1 DEF Open, b
  <2>6. "opening" \in {"none", "opening", "open", "closed"} /\ "opening" # "open"
    OBVIOUS
  <2> QED
    BY <2>2, <2>3, <2>4, <2>5, <2>6, LinkFacts, OneCharacter, ZenonT(60)
<1>2. CASE Send(c)
  <2>0. /\ channel[c] = "open" /\ Len(flight[c]) < MaxFlight
        /\ UNCHANGED <<body, shot, copy, channel, lost>>
        /\ flight' = [flight EXCEPT ![c] = Append(flight[c], p)]
        /\ dirty' = [dirty EXCEPT ![c] = {}]
    BY <1>2 DEF Send
  <2>1. p \in Packet /\ PacketSound(c, p) /\ p.dead = body[c].dead
    BY PacketMade, LinkFacts
  <2> HIDE DEF p
  <2>2. \A i \in 1 .. Len(flight[c]) : flight[c][i].dead => p.dead
    BY <2>1, LinkFacts DEF FlightSound, PacketSound
  <2>3. Append(flight[c], p) \in Seq(Packet) /\ FlightSound(c, Append(flight[c], p))
    BY <2>1, <2>2, LinkFacts, FlightAppended
  <2>4. /\ Len(Append(flight[c], p)) = Len(flight[c]) + 1 /\ Len(flight[c]) \in Nat
        /\ \A i \in 1 .. Len(flight[c]) : Append(flight[c], p)[i] = flight[c][i]
        /\ Append(flight[c], p)[Len(flight[c]) + 1] = p
    BY <2>1, LinkFacts, Appended
  <2>5. Len(Append(flight[c], p)) <= MaxFlight
    BY <2>0, <2>4, ReplicationAssumption
  <2>6. CopySound(c, copy[c], Append(flight[c], p))
    <3>1. CopySound(c, copy[c], flight[c])
      BY <2>0, LinkFacts
    <3>2. copy[c].dead => p.dead
      BY <2>1, <3>1 DEF CopySound
    <3>3. \A i \in 1 .. Len(flight[c]) + 1 : i \in 1 .. Len(flight[c]) \/ i = Len(flight[c]) + 1
      BY <2>4
    <3>4. copy[c].dead => \A i \in 1 .. Len(Append(flight[c], p)) : Append(flight[c], p)[i].dead
      BY <2>4, <3>1, <3>2, <3>3 DEF CopySound
    <3> QED
      BY <3>1, <3>4 DEF CopySound
  <2>7. channel[c] # "opening"
    BY <2>0
  <2> QED
    BY <1>0, <2>0, <2>3, <2>5, <2>6, <2>7, LinkFacts, OneCharacter
<1> QED
  BY <1>1, <1>2

LEMMA NakInv ==
    ASSUME ReplInv, NEW c \in Character, Nak(c)
    PROVE  ReplInv'
<1>1. /\ UNCHANGED <<body, shot, copy, channel, flight>>
      /\ dirty' = [dirty EXCEPT ![c] = dirty[c] \cup lost[c]]
      /\ lost' = [lost EXCEPT ![c] = {}]
  BY DEF Nak
<1>2. /\ DeathWithHealth(dirty[c] \cup lost[c]) /\ DeathWithHealth({})
      /\ dirty[c] \cup lost[c] \in SUBSET Property
  BY LinkFacts DEF DeathWithHealth
<1> QED
  BY <1>1, <1>2, LinkFacts, OneCharacter

LEMMA ArriveInv ==
    ASSUME ReplInv, NEW c \in Character, Arrive(c)
    PROVE  ReplInv'
<1> DEFINE f == flight[c]
<1>1. /\ channel[c] = "opening"
      /\ UNCHANGED <<body, shot, dirty, lost>>
      /\ channel' = [channel EXCEPT ![c] = "open"]
      /\ flight' = [flight EXCEPT ![c] = Tail(f)]
  BY DEF Arrive
<1>2. PICK w \in Received(NewCopy(c), Head(f)) : copy' = [copy EXCEPT ![c] = w]
  BY DEF Arrive, BeginPlay
<1>3. /\ f \in Seq(Packet) /\ FlightSound(c, f) /\ Len(f) <= MaxFlight
      /\ Len(f) = 1 /\ f[1].props = Property
  BY <1>1, LinkFacts DEF OpeningSound
<1>4. f # <<>>
  BY <1>3
<1>5. /\ Head(f) \in Packet /\ PacketSound(c, Head(f)) /\ Head(f).props = Property
      /\ Tail(f) \in Seq(Packet) /\ FlightSound(c, Tail(f))
      /\ Head(f).dead => \A i \in 1 .. Len(Tail(f)) : Tail(f)[i].dead
  BY <1>3, <1>4, FlightTailed, Tailed
<1>6. Len(Tail(f)) <= MaxFlight
  <2> DEFINE n == Len(Tail(f))
  <2>1. n = Len(f) - 1 /\ Len(f) = 1
    BY <1>3, <1>4, Tailed
  <2> HIDE DEF n
  <2>2. n = 0
    BY <2>1
  <2>3. n <= MaxFlight
    BY <2>2, ReplicationAssumption
  <2> QED
    BY <2>3 DEF n
<1>7. NewCopy(c) \in BodyRecord /\ ~NewCopy(c).dead /\ NewCopy(c).deaths = 0
  BY DEF NewCopy, BodyRecord
<1>8. w \in BodyRecord /\ CopySound(c, w, Tail(f))
  BY <1>2, <1>5, <1>7, LinkFacts, ReceivedSound
<1> HIDE DEF f
<1>9. "open" \in {"none", "opening", "open", "closed"} /\ "open" # "opening"
  OBVIOUS
<1> QED
  BY <1>1, <1>2, <1>5, <1>6, <1>8, <1>9, LinkFacts, OneCharacter

LEMMA DeliverInv ==
    ASSUME ReplInv, NEW c \in Character, Deliver(c) \/ Lose(c)
    PROVE  ReplInv'
<1> DEFINE f == flight[c]
           p == Head(f)
<1>1. /\ channel[c] = "open" /\ f # <<>>
      /\ UNCHANGED <<body, shot, channel, dirty>>
      /\ flight' = [flight EXCEPT ![c] = Tail(f)]
  BY DEF Deliver, Lose
<1>2. f \in Seq(Packet) /\ FlightSound(c, f) /\ Len(f) <= MaxFlight /\ CopySound(c, copy[c], f)
  BY <1>1, LinkFacts
<1>3. /\ p \in Packet /\ PacketSound(c, p)
      /\ Tail(f) \in Seq(Packet) /\ Len(Tail(f)) <= Len(f) /\ FlightSound(c, Tail(f))
      /\ p.dead => \A i \in 1 .. Len(Tail(f)) : Tail(f)[i].dead
      /\ copy[c].dead => p.dead /\ \A i \in 1 .. Len(Tail(f)) : Tail(f)[i].dead
  BY <1>1, <1>2, FlightTailed DEF CopySound
<1>4. Len(Tail(f)) <= MaxFlight
  <2>1. Len(f) \in Nat /\ Len(Tail(f)) \in Nat
    BY <1>2, <1>3
  <2> QED
    BY <1>2, <1>3, <2>1, ReplicationAssumption
<1>5. CopySound(c, copy[c], Tail(f))
  BY <1>2, <1>3 DEF CopySound
<1>6. /\ lost[c] \cup p.props \in SUBSET Property
      /\ DeathWithHealth(lost[c] \cup p.props)
  BY <1>3, LinkFacts DEF Packet, PacketSound, DeathWithHealth
<1>7. PICK w \in BodyRecord : CopySound(c, w, Tail(f)) /\ copy' = [copy EXCEPT ![c] = w]
  <2>1. CASE Deliver(c)
    <3>1. PICK w \in Received(copy[c], p) : copy' = [copy EXCEPT ![c] = w]
      BY <2>1 DEF Deliver
    <3>2. w \in BodyRecord /\ CopySound(c, w, Tail(f))
      BY <1>3, <1>5, <3>1, LinkFacts, ReceivedSound
    <3> QED
      BY <3>1, <3>2
  <2>2. CASE Lose(c)
    BY <1>5, <2>2, LinkFacts DEF Lose
  <2> QED
    BY <2>1, <2>2
<1>8. PICK l \in SUBSET Property : DeathWithHealth(l) /\ lost' = [lost EXCEPT ![c] = l]
  <2>1. \/ lost' = [lost EXCEPT ![c] = lost[c]]
        \/ lost' = [lost EXCEPT ![c] = lost[c] \cup p.props]
    BY LinkFacts DEF Deliver, Lose
  <2> QED
    BY <1>6, <2>1, LinkFacts
<1>9. channel[c] # "opening"
  BY <1>1
<1> HIDE DEF f, p
<1> QED
  BY <1>1, <1>3, <1>4, <1>7, <1>8, <1>9, LinkFacts, OneCharacter

LEMMA CloseInv ==
    ASSUME ReplInv, NEW c \in Character, Close(c) \/ HitOnClient(c)
    PROVE  ReplInv'
<1>1. CASE Close(c)
  <2> DEFINE w == [copy[c] EXCEPT !.removal = "destroyed"]
  <2>1. /\ UNCHANGED <<body, shot>>
        /\ copy' = [copy EXCEPT ![c] = w]
        /\ channel' = [channel EXCEPT ![c] = "closed"]
        /\ flight' = [flight EXCEPT ![c] = <<>>]
        /\ dirty' = [dirty EXCEPT ![c] = {}]
        /\ lost' = [lost EXCEPT ![c] = {}]
    BY <1>1 DEF Close
  <2>2. w \in BodyRecord
    <3>1. copy[c] \in BodyRecord
      BY LinkFacts
    <3> QED
      BY <3>1 DEF BodyRecord
  <2>3. /\ <<>> \in Seq(Packet) /\ Len(<<>>) = 0 /\ 1 .. 0 = {} /\ 0 <= MaxFlight
    BY ReplicationAssumption
  <2>4. FlightSound(c, <<>>) /\ DeathWithHealth({}) /\ {} \in SUBSET Property
    BY <2>3 DEF FlightSound, DeathWithHealth
  <2>5. /\ "closed" \in {"none", "opening", "open", "closed"}
        /\ "closed" # "opening" /\ "closed" # "open"
    OBVIOUS
  <2> HIDE DEF w
  <2>6. Len(<<>>) <= MaxFlight
    BY <2>3
  <2> QED
    BY <2>1, <2>2, <2>3, <2>4, <2>5, <2>6, OneCharacter
<1>2. CASE HitOnClient(c)
  <2>1. /\ UNCHANGED <<body, shot, channel, dirty, flight, lost>>
        /\ copy' = [copy EXCEPT ![c] = copy[c]]
    BY <1>2 DEF HitOnClient, DamageTakenOn
  <2> QED
    BY <2>1, LinkFacts, OneCharacter, ZenonT(60)
<1> QED
  BY <1>1, <1>2

LEMMA ReplNextInv == ReplInv /\ [ReplNext]_replVars => ReplInv'
<1> SUFFICES ASSUME ReplInv, [ReplNext]_replVars PROVE ReplInv'
  OBVIOUS
<1>1. CASE Serve
  BY <1>1, ServeInv
<1>2. CASE \E c \in Character : \/ Open(c) \/ Send(c) \/ Nak(c)
                                \/ Arrive(c) \/ Deliver(c) \/ Lose(c) \/ Close(c)
                                \/ HitOnClient(c)
  BY <1>2, SendInv, NakInv, ArriveInv, DeliverInv, CloseInv
<1>3. CASE UNCHANGED replVars
  BY <1>3 DEF replVars, ReplInv, ReplTypeOK, CombatInv, TypeOK, HealthAccount, Wounds, LinkSound,
              FlightSound, PacketSound, CopySound, Shown
<1> QED
  BY <1>1, <1>2, <1>3 DEF ReplNext

\* What keeps a client behind the authority and its deaths single, whatever is lost and resent.
THEOREM ReplInvariance == ReplSpec => []ReplInv
<1>1. ReplInit => ReplInv
  BY ReplInitInv
<1>2. ReplInv /\ [ReplNext]_replVars => ReplInv'
  BY ReplNextInv
<1> QED
  BY <1>1, <1>2, PTL DEF ReplSpec

----------------------------------------------------------------------------
(* What the invariant says. *)

\* Types; no more packets under way than fit.
THEOREM ReplTypeCorrect == ReplSpec => []ReplTypeOK
<1>1. ReplInv => ReplTypeOK
  BY DEF ReplInv
<1> QED
  BY <1>1, ReplInvariance, PTL

\* No client shows a wound or a death that has not happened (HealthComponent.cpp:100-105).
THEOREM ClientBehind == ReplSpec => []ClientNeverAhead
<1>1. ReplInv => ClientNeverAhead
  BY DEF ReplInv, LinkSound, CopySound, ClientNeverAhead, Shown
<1> QED
  BY <1>1, ReplInvariance, PTL

\* A client runs each death once (ArrowCharacter.cpp:73-88).
THEOREM CopyDeathsOnce == ReplSpec => []CopyDiesOnce
<1>1. ReplInv => CopyDiesOnce
  BY DEF ReplInv, LinkSound, CopySound, CopyDiesOnce, Shown
<1> QED
  BY <1>1, ReplInvariance, PTL

----------------------------------------------------------------------------
(* What a client has seen stays seen. *)

\* A step about c's connection that keeps c's packets in order keeps all in order.
LEMMA OneFalling ==
    ASSUME ReplTypeOK, OrderInv, NEW c \in Character, NEW w, NEW h, NEW f,
           copy' = [copy EXCEPT ![c] = w], channel' = [channel EXCEPT ![c] = h],
           flight' = [flight EXCEPT ![c] = f],
           Falling(f), h = "open" => NotBelow(w, f)
    PROVE  OrderInv'
<1>1. /\ copy'[c] = w /\ channel'[c] = h /\ flight'[c] = f
      /\ \A e \in Character \ {c} : /\ copy'[e] = copy[e] /\ channel'[e] = channel[e]
                                    /\ flight'[e] = flight[e]
  BY DEF ReplTypeOK
<1>2. ASSUME NEW e \in Character
      PROVE  Falling(flight'[e]) /\ (channel'[e] = "open" => NotBelow(copy'[e], flight'[e]))
  <2>1. CASE e = c
    BY <1>1, <2>1
  <2>2. CASE e # c
    BY <1>1, <2>2 DEF OrderInv, Shown
  <2> QED
    BY <2>1, <2>2
<1> QED
  BY <1>2 DEF OrderInv, Shown, Falling, NotBelow

LEMMA FallingTailed ==
    ASSUME NEW f \in Seq(Packet), f # <<>>, Falling(f)
    PROVE  /\ Falling(Tail(f))
           /\ NotBelow(Head(f), Tail(f))
           /\ \A w : NotBelow(w, f) => Head(f).health <= w.health /\ NotBelow(w, Tail(f))
<1> DEFINE t == Tail(f)
           n == Len(f)
<1>1. /\ n \in Nat \ {0} /\ Len(t) = n - 1 /\ Head(f) = f[1] /\ 1 \in 1 .. n
      /\ \A i \in 1 .. n - 1 : i + 1 \in 1 .. n /\ t[i] = f[i + 1]
  BY Tailed
<1>2. \A i, j \in 1 .. n : i <= j => f[j].health <= f[i].health
  BY DEF Falling
<1> HIDE DEF t, n
<1>3. ASSUME NEW i \in 1 .. n - 1, NEW j \in 1 .. n - 1, i <= j
      PROVE  t[j].health <= t[i].health
  <2>1. i + 1 \in 1 .. n /\ j + 1 \in 1 .. n /\ i + 1 <= j + 1
    BY <1>1, <1>3
  <2> QED
    BY <1>1, <1>2, <2>1
<1>4. ASSUME NEW j \in 1 .. n - 1 PROVE t[j].health <= Head(f).health
  <2>1. 1 \in 1 .. n /\ j + 1 \in 1 .. n /\ 1 <= j + 1
    BY <1>1
  <2> QED
    BY <1>1, <1>2, <2>1
<1>5. ASSUME NEW w, \A i \in 1 .. n : f[i].health <= w.health
      PROVE  /\ Head(f).health <= w.health
             /\ \A i \in 1 .. n - 1 : t[i].health <= w.health
  BY <1>1, <1>5
<1> QED
  BY <1>1, <1>3, <1>4, <1>5 DEF Falling, NotBelow, t, n

\* A packet sent now tells of no more health than any before it.
LEMMA SendFalls ==
    ASSUME ReplInv, OrderInv, NEW c \in Character, Open(c) \/ Send(c)
    PROVE  OrderInv'
<1>0. ReplTypeOK /\ body[c].health \in Int
  BY LinkFacts DEF ReplInv, BodyRecord
<1>1. CASE Open(c)
  <2> DEFINE p == PacketOf(c, Registered)
  <2>1. /\ copy' = [copy EXCEPT ![c] = copy[c]] /\ channel' = [channel EXCEPT ![c] = "opening"]
        /\ flight' = [flight EXCEPT ![c] = <<p>>]
    BY <1>1, LinkFacts DEF Open
  <2>2. p.health = body[c].health
    BY DEF PacketOf
  <2> HIDE DEF p
  <2>3. Len(<<p>>) = 1 /\ <<p>>[1] = p /\ \A i \in 1 .. 1 : i = 1
    OBVIOUS
  <2>4. Falling(<<p>>)
    BY <1>0, <2>2, <2>3 DEF Falling
  <2> QED
    BY <1>0, <2>1, <2>4, OneFalling
<1>2. CASE Send(c)
  <2> DEFINE p == PacketOf(c, dirty[c])
             f == flight[c]
             g == Append(f, p)
             n == Len(f)
  <2>1. /\ channel[c] = "open" /\ copy' = [copy EXCEPT ![c] = copy[c]]
        /\ channel' = [channel EXCEPT ![c] = channel[c]] /\ flight' = [flight EXCEPT ![c] = g]
    BY <1>2, LinkFacts DEF Send
  <2>2. p \in Packet /\ p.health = body[c].health
    BY LinkFacts, PacketMade DEF PacketOf
  <2>3. /\ \A i \in 1 .. n : body[c].health <= f[i].health /\ f[i].health \in Int
        /\ body[c].health <= copy[c].health
    <3>1. /\ \A i \in 1 .. n : f[i].health >= body[c].health /\ f[i] \in Packet
          /\ copy[c].health >= body[c].health /\ copy[c] \in BodyRecord
      BY <2>1, LinkFacts DEF FlightSound, PacketSound, CopySound
    <3> QED
      BY <1>0, <3>1 DEF Packet, BodyRecord
  <2>4. /\ \A i, j \in 1 .. n : i <= j => f[j].health <= f[i].health
        /\ \A i \in 1 .. n : f[i].health <= copy[c].health
    BY <2>1 DEF OrderInv, Shown, Falling, NotBelow
  <2>5. /\ n \in Nat /\ Len(g) = n + 1 /\ g[n + 1] = p
        /\ \A i \in 1 .. n : g[i] = f[i]
    BY <2>2, LinkFacts, Appended
  <2> HIDE DEF p, f, g, n
  <2>6. \A i \in 1 .. n + 1 : i \in 1 .. n \/ i = n + 1
    BY <2>5
  <2>7. ASSUME NEW i \in 1 .. n + 1, NEW j \in 1 .. n + 1, i <= j
        PROVE  g[j].health <= g[i].health
    <3>1. CASE j \in 1 .. n
      <4>1. i \in 1 .. n
        BY <2>5, <2>7, <3>1
      <4> QED
        BY <2>4, <2>5, <2>7, <3>1, <4>1
    <3>2. CASE j = n + 1
      <4>1. CASE i \in 1 .. n
        BY <2>2, <2>3, <2>5, <3>2, <4>1
      <4>2. CASE i = n + 1
        BY <1>0, <2>2, <2>5, <3>2, <4>2
      <4> QED
        BY <2>6, <4>1, <4>2
    <3> QED
      BY <2>6, <3>1, <3>2
  <2>8. \A i \in 1 .. n + 1 : g[i].health <= copy[c].health
    BY <2>2, <2>3, <2>4, <2>5, <2>6
  <2>9. Falling(g) /\ NotBelow(copy[c], g)
    BY <2>5, <2>7, <2>8 DEF Falling, NotBelow
  <2> QED
    BY <1>0, <2>1, <2>9, OneFalling
<1> QED
  BY <1>1, <1>2

\* A packet that arrives leaves behind it only packets that tell of no more than it did.
LEMMA ArriveFalls ==
    ASSUME ReplInv, OrderInv, NEW c \in Character, Arrive(c)
    PROVE  OrderInv'
<1> DEFINE f == flight[c]
<1>0. ReplTypeOK
  BY DEF ReplInv
<1>1. channel[c] = "opening" /\ OpeningSound(f) /\ f \in Seq(Packet)
  BY LinkFacts DEF Arrive
<1>2. f # <<>> /\ Falling(f) /\ Head(f) \in Packet /\ Head(f).props = Property
  <2>1. Len(f) = 1 /\ f[1].props = Property
    BY <1>1 DEF OpeningSound
  <2>2. f # <<>>
    BY <2>1
  <2> QED
    BY <1>1, <2>1, <2>2, Tailed DEF OrderInv
<1>3. PICK w \in Received(NewCopy(c), Head(f)) : copy' = [copy EXCEPT ![c] = w]
  BY DEF Arrive, BeginPlay
<1>4. NewCopy(c) \in BodyRecord
  BY DEF NewCopy, BodyRecord
<1>5. w.health = Head(f).health
  BY <1>2, <1>3, <1>4, ReceivedCopy DEF Property
<1>6. Falling(Tail(f)) /\ NotBelow(w, Tail(f))
  BY <1>1, <1>2, <1>5, FallingTailed DEF NotBelow
<1>7. channel' = [channel EXCEPT ![c] = "open"] /\ flight' = [flight EXCEPT ![c] = Tail(f)]
  BY DEF Arrive
<1> HIDE DEF f
<1> QED
  BY <1>0, <1>3, <1>6, <1>7, OneFalling

\* A packet delivered to a copy takes health from it, if anything, and leaves the dead dead.
LEMMA DeliverFalls ==
    ASSUME ReplInv, OrderInv, NEW c \in Character, Deliver(c) \/ Lose(c)
    PROVE  /\ OrderInv'
           /\ copy'[c].health <= copy[c].health
           /\ copy[c].dead => copy'[c].dead
           /\ \A e \in Character \ {c} : copy'[e] = copy[e]
<1> DEFINE f == flight[c]
           p == Head(f)
<1>0. ReplTypeOK /\ copy \in [Character -> BodyRecord]
  BY DEF ReplInv, ReplTypeOK
<1>1. /\ channel[c] = "open" /\ f # <<>> /\ f \in Seq(Packet)
      /\ channel' = [channel EXCEPT ![c] = "open"] /\ flight' = [flight EXCEPT ![c] = Tail(f)]
  <2>1. channel = [channel EXCEPT ![c] = channel[c]]
    BY LinkFacts
  <2> QED
    BY <2>1, LinkFacts DEF Deliver, Lose
<1>2. Falling(f) /\ NotBelow(copy[c], f)
  BY <1>1 DEF OrderInv, Shown
<1>3. /\ p \in Packet /\ Falling(Tail(f)) /\ NotBelow(p, Tail(f))
      /\ p.health <= copy[c].health /\ NotBelow(copy[c], Tail(f))
  BY <1>1, <1>2, FallingTailed, Tailed
<1>4. copy[c].dead => p.dead
  BY <1>1, LinkFacts, FlightTailed DEF CopySound
<1> HIDE DEF f, p
<1>5. PICK w : /\ copy' = [copy EXCEPT ![c] = w]
               /\ copy[c].dead => w.dead
               /\ w.health = p.health \/ w.health = copy[c].health
  <2>1. copy[c].health \in Int /\ copy = [copy EXCEPT ![c] = copy[c]]
    BY <1>0 DEF BodyRecord
  <2>2. CASE Deliver(c)
    <3>1. PICK w \in Received(copy[c], p) : copy' = [copy EXCEPT ![c] = w]
      BY <2>2 DEF Deliver, f, p
    <3>2. /\ w.health = IF "Health" \in p.props THEN p.health ELSE copy[c].health
          /\ w.dead = IF "bIsDead" \in p.props THEN p.dead ELSE copy[c].dead
      BY <1>0, <1>3, <3>1, ReceivedCopy
    <3>3. (copy[c].dead => w.dead) /\ (w.health = p.health \/ w.health = copy[c].health)
      BY <1>4, <3>2
    <3> QED
      BY <3>1, <3>3
  <2>3. CASE Lose(c)
    <3>1. copy' = [copy EXCEPT ![c] = copy[c]]
      BY <2>1, <2>3 DEF Lose
    <3> QED
      BY <3>1, Zenon
  <2> QED
    BY <2>2, <2>3
<1>6. NotBelow(w, Tail(f)) /\ w.health <= copy[c].health
  <2>1. copy[c].health \in Int
    BY <1>0 DEF BodyRecord
  <2> QED
    BY <1>3, <1>5, <2>1 DEF NotBelow
<1>7. OrderInv'
  BY <1>0, <1>1, <1>3, <1>5, <1>6, OneFalling
<1> QED
  BY <1>0, <1>5, <1>6, <1>7

LEMMA CloseFalls ==
    ASSUME ReplInv, OrderInv, NEW c \in Character, Close(c)
    PROVE  /\ OrderInv' /\ ~Shown(c)'
           /\ \A e \in Character \ {c} : copy'[e] = copy[e]
<1> DEFINE w == [copy[c] EXCEPT !.removal = "destroyed"]
<1>1. /\ copy' = [copy EXCEPT ![c] = w] /\ channel' = [channel EXCEPT ![c] = "closed"]
      /\ flight' = [flight EXCEPT ![c] = <<>>]
  BY DEF Close
<1>2. ReplTypeOK
  BY DEF ReplInv
<1>3. Falling(<<>>)
  BY DEF Falling
<1> HIDE DEF w
<1>4. OrderInv'
  BY <1>1, <1>2, <1>3, OneFalling
<1> QED
  BY <1>1, <1>2, <1>4 DEF ReplTypeOK, Shown

LEMMA OthersFall ==
    ASSUME ReplInv, OrderInv, UNCHANGED <<copy, channel, flight>>
    PROVE  OrderInv'
BY DEF OrderInv, Shown, Falling, NotBelow

LEMMA StepFalls ==
    ASSUME ReplInv, OrderInv, [ReplNext]_replVars
    PROVE  /\ OrderInv'
           /\ \A c \in Character : Shown(c) /\ Shown(c)' =>
                /\ copy'[c].health <= copy[c].health
                /\ copy[c].dead => copy'[c].dead
<1>0. \A e \in Character : copy[e].health <= copy[e].health
  BY LinkFacts DEF BodyRecord
<1>1. CASE Serve \/ UNCHANGED replVars
  BY <1>0, <1>1, OthersFall DEF Serve, replVars
<1>2. ASSUME NEW c \in Character, Open(c) \/ Send(c)
      PROVE  OrderInv' /\ copy' = copy
  BY <1>2, SendFalls DEF Open, Send
<1>3. ASSUME NEW c \in Character, Nak(c)
      PROVE  OrderInv' /\ copy' = copy
  BY <1>3, OthersFall DEF Nak
<1>4. ASSUME NEW c \in Character, HitOnClient(c)
      PROVE  OrderInv' /\ copy' = copy
  <2>1. copy' = copy
    BY <1>4, LinkFacts DEF HitOnClient, DamageTakenOn
  <2> QED
    BY <1>4, <2>1, OthersFall DEF HitOnClient
<1>5. ASSUME NEW c \in Character, Arrive(c)
      PROVE  OrderInv' /\ ~Shown(c) /\ \A e \in Character \ {c} : copy'[e] = copy[e]
  <2>1. copy \in [Character -> BodyRecord]
    BY DEF ReplInv, ReplTypeOK
  <2> QED
    BY <1>5, <2>1, ArriveFalls DEF Arrive, Shown
<1> QED
  BY <1>0, <1>1, <1>2, <1>3, <1>4, <1>5, DeliverFalls, CloseFalls DEF ReplNext

LEMMA InitFalls == ReplInit => OrderInv
BY DEF ReplInit, OrderInv, Falling, Shown

\* Packets of a character's health arrive in the order in which it fell: nothing resent is old.
THEOREM OrderInvariance == ReplSpec => []OrderInv
<1>1. ReplInv /\ OrderInv /\ [ReplNext]_replVars => OrderInv'
  BY StepFalls
<1> QED
  BY <1>1, InitFalls, ReplInvariance, PTL DEF ReplSpec

\* What a client has seen stays seen (HealthComponent.cpp:80-105, ArrowCharacter.cpp:73-88).
THEOREM ClientRemembers == ReplSpec => ClientNeverForgets
<1>1. ReplInv /\ OrderInv /\ [ReplNext]_replVars =>
        [\A c \in Character : Shown(c) /\ Shown(c)' =>
            /\ copy'[c].health <= copy[c].health
            /\ copy[c].dead => copy'[c].dead]_replVars
  BY StepFalls
<1> QED
  BY <1>1, ReplInvariance, OrderInvariance, PTL DEF ReplSpec, ClientNeverForgets

----------------------------------------------------------------------------
(* The authority under replication. *)

\* Whatever clients join, lose or hit, the authority's fight is one of Combat.tla: nothing that
\* happens on the connection or on a client reaches it.
THEOREM AuthorityAlone == ReplSpec => Spec
<1>1. ReplInit => Init
  BY DEF ReplInit
<1>2. [ReplNext]_replVars => [Next]_vars
  BY DEF ReplNext, Serve, Open, Send, Nak, Arrive, Deliver, Lose, Close, HitOnClient,
         replVars, vars
<1> QED
  BY <1>1, <1>2, PTL DEF ReplSpec, Spec
=============================================================================
