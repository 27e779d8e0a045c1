-------------------------- MODULE RdReactiveProofs --------------------------
(***************************************************************************)
(* The two ends of a property agree when nothing is under way, and so do   *)
(* the two ends of a map, key by key: for every set of values, keys and    *)
(* items, and any number of changes.  First the property, then the map,    *)
(* key by key on the two queues, and last both side by side.               *)
(***************************************************************************)
EXTENDS RdReactive, TLAPS

----------------------------------------------------------------------------
(* The property. *)

\* The two queues have two ends.
LEMMA TheOther == \A e \in End : Other(e) \in End /\ Other(e) # e
BY DEF End, Other

LEMMA PropInitInv == PropInit => PropInv
<1> SUFFICES ASSUME PropInit PROVE PropInv
  OBVIOUS
<1> USE PropertyAssumption
<1>1. PropTypeOK
  BY DEF PropInit, PropTypeOK, RdPropertyRecord, End
<1>2. inbox["slave"] = <<>> /\ inbox["master"] = <<>>
  BY DEF PropInit, End
<1>3. /\ prop["slave"].version = 0 /\ prop["master"].version = 0
      /\ prop["slave"].value = Default /\ prop["master"].value = Default
  BY DEF PropInit, End
<1> QED
  BY <1>1, <1>2, <1>3 DEF PropInv, MasterAhead, SlaveBehind, MasterWins, SlaveKnows

\* What is under way, part by part: the form in which the provers use the type invariant.
LEMMA Shapes ==
    ASSUME PropTypeOK
    PROVE  /\ prop["master"] \in RdPropertyRecord /\ prop["slave"] \in RdPropertyRecord
           /\ inbox["master"] \in Seq(RdPropertyRecord) /\ inbox["slave"] \in Seq(RdPropertyRecord)
BY DEF PropTypeOK, End

\* A change of type RdPropertyRecord keeps the types.
LEMMA SetTypes ==
    ASSUME PropTypeOK, NEW e \in End, NEW v \in Value, Set(e, v)
    PROVE  PropTypeOK'
<1> DEFINE changed == [value |-> v, version |-> Numbered(e)]
<1>1. changed \in RdPropertyRecord
  BY DEF PropTypeOK, RdPropertyRecord, Numbered, End
<1>2. Other(e) \in End
  BY TheOther
<1>3. /\ prop' = [prop EXCEPT ![e] = changed]
      /\ inbox' = [inbox EXCEPT ![Other(e)] = Append(@, changed)]
      /\ sets < MaxSets /\ sets' = sets + 1
  BY DEF Set
<1>4. Append(inbox[Other(e)], changed) \in Seq(RdPropertyRecord)
  BY <1>1, <1>2 DEF PropTypeOK
<1>5. sets' \in 0 .. MaxSets
  BY <1>3, PropertyAssumption DEF PropTypeOK
<1>6. prop' \in [End -> RdPropertyRecord]
  BY <1>1, <1>3 DEF PropTypeOK
<1>7. inbox' \in [End -> Seq(RdPropertyRecord)]
  BY <1>2, <1>3, <1>4 DEF PropTypeOK
<1> QED
  BY <1>5, <1>6, <1>7 DEF PropTypeOK

\* The master sets the property: its change goes to the back of the slave's queue.
LEMMA MasterSets ==
    ASSUME PropInv, NEW v \in Value, Set("master", v)
    PROVE  PropInv'
<1> DEFINE changed == [value |-> v, version |-> prop["master"].version + 1]
<1>1. PropTypeOK
  BY DEF PropInv
<1>2. changed \in RdPropertyRecord
  BY <1>1, Shapes DEF RdPropertyRecord
<1>3. /\ prop'["master"] = changed /\ prop'["slave"] = prop["slave"]
      /\ inbox'["slave"] = Append(inbox["slave"], changed)
      /\ inbox'["master"] = inbox["master"]
  BY <1>1 DEF PropTypeOK, Set, Numbered, Other, End
<1>4. PropTypeOK'
  BY <1>1, SetTypes DEF End
<1>5. MasterAhead'
  <2> DEFINE q == inbox["slave"]
  <2>1. q \in Seq(RdPropertyRecord) /\ Len(q) \in Nat /\ prop["slave"].version \in Nat
    BY <1>1, Shapes DEF RdPropertyRecord
  <2>2. /\ Len(Append(q, changed)) = Len(q) + 1
        /\ \A i \in 1 .. Len(q) : Append(q, changed)[i] = q[i]
        /\ Append(q, changed)[Len(q) + 1] = changed
    BY <1>2, <2>1
  <2>3. changed.version = prop["slave"].version + (Len(q) + 1)
    BY <2>1 DEF PropInv, MasterAhead
  <2> QED
    BY <1>3, <2>1, <2>2, <2>3 DEF PropInv, MasterAhead
<1>6. SlaveBehind'
  BY <1>3 DEF PropInv, SlaveBehind
<1>7. MasterWins' /\ SlaveKnows'
  BY <1>1, <1>2, <1>3, Shapes DEF PropInv, MasterWins, SlaveKnows
<1> QED
  BY <1>4, <1>5, <1>6, <1>7 DEF PropInv

\* The slave sets the property, and tells the master which of its changes it knew.
LEMMA SlaveSets ==
    ASSUME PropInv, NEW v \in Value, Set("slave", v)
    PROVE  PropInv'
<1> DEFINE changed == [value |-> v, version |-> prop["slave"].version]
<1>1. PropTypeOK
  BY DEF PropInv
<1>2. changed \in RdPropertyRecord
  BY <1>1, Shapes DEF RdPropertyRecord
<1>3. /\ prop'["slave"] = changed /\ prop'["master"] = prop["master"]
      /\ inbox'["master"] = Append(inbox["master"], changed)
      /\ inbox'["slave"] = inbox["slave"]
  BY <1>1 DEF PropTypeOK, Set, Numbered, Other, End
<1>4. PropTypeOK'
  BY <1>1, SetTypes DEF End
<1>5. MasterAhead' /\ MasterWins'
  BY <1>3 DEF PropInv, MasterAhead, MasterWins
<1>6. SlaveBehind'
  BY <1>1, <1>2, <1>3, Shapes, SMTT(30) DEF PropInv, SlaveBehind, RdPropertyRecord
<1>7. SlaveKnows'
  BY <1>1, <1>2, <1>3, Shapes DEF SlaveKnows
<1> QED
  BY <1>4, <1>5, <1>6, <1>7 DEF PropInv

\* The slave takes the master's oldest change under way.
LEMMA SlaveReceives ==
    ASSUME PropInv, Receive("slave")
    PROVE  PropInv'
<1> DEFINE q == inbox["slave"]
<1>1. PropTypeOK /\ q # <<>>
  BY DEF PropInv, Receive
<1>2. /\ Head(q) \in RdPropertyRecord /\ Tail(q) \in Seq(RdPropertyRecord)
      /\ Len(Tail(q)) = Len(q) - 1 /\ Len(q) \in Nat \ {0}
      /\ \A i \in 1 .. Len(Tail(q)) : Tail(q)[i] = q[i + 1]
      /\ Head(q) = q[1]
  BY <1>1, Shapes
<1>3. /\ prop'["slave"] = Head(q) /\ prop'["master"] = prop["master"]
      /\ inbox'["slave"] = Tail(q) /\ inbox'["master"] = inbox["master"]
  BY <1>1 DEF PropTypeOK, Receive, Rejected, End
<1>4. PropTypeOK'
  BY <1>1, <1>2, <1>3 DEF PropTypeOK, Receive, Rejected, End
<1>5. Head(q).version = prop["slave"].version + 1
  BY <1>2 DEF PropInv, MasterAhead
<1>6. MasterAhead'
  <2>1. prop["slave"].version \in Nat
    BY <1>1, Shapes DEF RdPropertyRecord
  <2>2. \A i \in 1 .. Len(Tail(q)) : Tail(q)[i].version = prop["slave"].version + (i + 1)
    BY <1>2 DEF PropInv, MasterAhead
  <2>3. prop["master"].version = prop["slave"].version + Len(q)
    BY DEF PropInv, MasterAhead
  <2>4. /\ prop'["slave"].version = prop["slave"].version + 1
        /\ Len(inbox'["slave"]) = Len(q) - 1
    BY <1>2, <1>3, <1>5
  <2>5. prop'["master"].version = prop'["slave"].version + Len(inbox'["slave"])
    BY <1>2, <1>3, <2>1, <2>3, <2>4
  <2>6. ASSUME NEW i \in 1 .. Len(inbox'["slave"])
        PROVE  inbox'["slave"][i].version = prop'["slave"].version + i
    <3>1. i \in 1 .. Len(Tail(q)) /\ inbox'["slave"][i].version = prop["slave"].version + (i + 1)
      BY <1>3, <2>2
    <3> QED
      BY <2>1, <2>4, <3>1
  <2> QED
    BY <2>5, <2>6 DEF MasterAhead
<1>7. SlaveBehind'
  <2>1. \A i \in 1 .. Len(inbox["master"]) : inbox["master"][i].version \in Nat
    <3>1. \A i \in 1 .. Len(inbox["master"]) : inbox["master"][i] \in RdPropertyRecord
      BY <1>1, Shapes
    <3> QED
      BY <3>1 DEF RdPropertyRecord
  <2>2. prop["slave"].version \in Nat
    BY <1>1, Shapes DEF RdPropertyRecord
  <2> QED
    BY <1>3, <1>5, <2>1, <2>2 DEF PropInv, SlaveBehind
<1>8. MasterWins'
  BY <1>1, <1>2, <1>3, Shapes DEF PropInv, MasterWins
<1>9. SlaveKnows'
  <2>1. SUFFICES ASSUME Tail(q) = <<>>
                 PROVE  /\ prop'["slave"].value = prop["master"].value
                        /\ inbox["master"] # <<>> =>
                              inbox["master"][Len(inbox["master"])].version # prop'["slave"].version
    BY <1>3 DEF SlaveKnows
  <2>2. Len(q) = 1
    <3>1. Len(Tail(q)) = Len(<<>>)
      BY <2>1, Zenon
    <3>2. Len(<<>>) = 0
      OBVIOUS
    <3> QED
      BY <1>2, <3>1, <3>2
  <2>3. Head(q) = prop["master"]
    BY <1>1, <1>2, <2>2 DEF PropInv, MasterWins
  <2>4. ASSUME inbox["master"] # <<>>
        PROVE  inbox["master"][Len(inbox["master"])].version # prop'["slave"].version
    <3> DEFINE r == inbox["master"]
    <3>1. Len(r) \in 1 .. Len(r) /\ r[Len(r)] \in RdPropertyRecord
      BY <1>1, <2>4, Shapes
    <3>2. r[Len(r)].version <= prop["slave"].version
      BY <3>1 DEF PropInv, SlaveBehind
    <3>3. r[Len(r)].version \in Nat /\ prop["slave"].version \in Nat
      BY <1>1, <3>1, Shapes DEF RdPropertyRecord
    <3> QED
      BY <1>3, <1>5, <3>2, <3>3
  <2> QED
    BY <1>3, <2>3, <2>4
<1> QED
  BY <1>4, <1>6, <1>7, <1>8, <1>9 DEF PropInv

\* The master takes or refuses the slave's oldest change under way.
LEMMA MasterReceives ==
    ASSUME PropInv, Receive("master")
    PROVE  PropInv'
<1> DEFINE q == inbox["master"]
           refused == Head(q).version < prop["master"].version
<1>1. PropTypeOK /\ q # <<>>
  BY DEF PropInv, Receive
<1>2. /\ Head(q) \in RdPropertyRecord /\ Tail(q) \in Seq(RdPropertyRecord)
      /\ Len(Tail(q)) = Len(q) - 1 /\ Len(q) \in Nat \ {0}
      /\ \A i \in 1 .. Len(Tail(q)) : Tail(q)[i] = q[i + 1]
      /\ Head(q) = q[1]
  BY <1>1, Shapes
<1>3. /\ prop'["slave"] = prop["slave"]
      /\ prop'["master"] = IF refused THEN prop["master"] ELSE Head(q)
      /\ inbox'["master"] = Tail(q) /\ inbox'["slave"] = inbox["slave"]
  BY <1>1 DEF PropTypeOK, Receive, Rejected, End
<1>4. PropTypeOK'
  BY <1>1, <1>2, <1>3 DEF PropTypeOK, Receive, Rejected, End
<1>5. Head(q).version <= prop["slave"].version
  BY <1>2 DEF PropInv, SlaveBehind
<1>6. \* It takes one only when the slave knows its last change.
      ~refused => /\ inbox["slave"] = <<>>
                  /\ Head(q).version = prop["master"].version
                  /\ prop["slave"].version = prop["master"].version
  BY <1>1, <1>2, <1>5, Shapes DEF PropInv, MasterAhead, RdPropertyRecord
<1>7. prop'["master"].version = prop["master"].version
  BY <1>3, <1>6
<1>8. MasterAhead'
  BY <1>3, <1>7 DEF PropInv, MasterAhead
<1>9. SlaveBehind'
  BY <1>1, <1>2, <1>3, Shapes DEF PropInv, SlaveBehind, RdPropertyRecord
<1>10. MasterWins'
  BY <1>3, <1>6 DEF PropInv, MasterWins
<1>11. SlaveKnows'
  <2>1. SUFFICES ASSUME inbox["slave"] = <<>>
                 PROVE  prop["slave"].value =
                            IF Tail(q) # <<>> /\ Tail(q)[Len(Tail(q))].version = prop["slave"].version
                            THEN Tail(q)[Len(Tail(q))].value ELSE prop'["master"].value
    BY <1>3 DEF SlaveKnows
  <2>2. prop["slave"].value = IF q[Len(q)].version = prop["slave"].version
                              THEN q[Len(q)].value ELSE prop["master"].value
    BY <1>1, <2>1 DEF PropInv, SlaveKnows
  <2>3. prop["slave"].version = prop["master"].version
    BY <1>1, <2>1, Shapes DEF PropInv, MasterAhead, RdPropertyRecord
  <2>4. CASE Tail(q) = <<>>
    <3>1. Head(q) = q[Len(q)]
      <4>1. Len(Tail(q)) = Len(<<>>)
        BY <2>4, Zenon
      <4>2. Len(<<>>) = 0
        OBVIOUS
      <4> QED
        BY <1>2, <4>1, <4>2
    <3> QED
      BY <1>1, <1>2, <1>3, <1>5, <2>2, <2>3, <2>4, <3>1, Shapes DEF RdPropertyRecord
  <2>5. CASE Tail(q) # <<>>
    <3>1. Tail(q)[Len(Tail(q))] = q[Len(q)] /\ Len(q) \in 1 .. Len(q)
      BY <1>2, <2>5
    <3>2. Head(q).version <= q[Len(q)].version /\ q[Len(q)].version <= prop["slave"].version
      BY <1>1, <1>2, <3>1, Shapes DEF PropInv, SlaveBehind
    <3>3. q[Len(q)] \in RdPropertyRecord
      BY <1>1, <3>1, Shapes
    <3>4. ~refused => q[Len(q)].version = prop["slave"].version
      BY <1>2, <1>6, <3>2, <3>3, <1>1, Shapes DEF RdPropertyRecord
    <3> QED
      BY <1>3, <2>2, <2>5, <3>1, <3>4
  <2> QED
    BY <2>4, <2>5
<1> QED
  BY <1>4, <1>8, <1>9, <1>10, <1>11 DEF PropInv

LEMMA PropStepInv == PropInv /\ [PropNext]_propVars => PropInv'
<1> SUFFICES ASSUME PropInv, [PropNext]_propVars PROVE PropInv'
  OBVIOUS
<1>1. ASSUME NEW v \in Value, NEW e \in End, Set(e, v) PROVE PropInv'
  BY <1>1, MasterSets, SlaveSets DEF End
<1>2. ASSUME NEW e \in End, Receive(e) PROVE PropInv'
  BY <1>2, MasterReceives, SlaveReceives DEF End
<1>3. CASE UNCHANGED propVars
  BY <1>3 DEF propVars, PropInv, PropTypeOK, MasterAhead, SlaveBehind, MasterWins, SlaveKnows
<1> QED
  BY <1>1, <1>2, <1>3 DEF PropNext

----------------------------------------------------------------------------

\* PropInv holds in every state of the property, for every set of values and every bound on
\* the number of changes.
THEOREM PropInvariance == PropSpec => []PropInv
BY PropInitInv, PropStepInv, PTL DEF PropSpec

\* Both ends hold the same value as soon as nothing is under way (RdPropertyBase.h:107: the
\* master refuses what the slave set without knowledge of the master's last change).
THEOREM PropEndsAgree == PropSpec => []PropertyAgrees
<1>1. PropInv => PropertyAgrees
  <2> SUFFICES ASSUME PropInv, \A e \in End : inbox[e] = <<>>
               PROVE  prop["master"].value = prop["slave"].value
    BY DEF PropertyAgrees
  <2>1. inbox["slave"] = <<>> /\ inbox["master"] = <<>>
    BY DEF End
  <2> QED
    BY <2>1 DEF PropInv, SlaveKnows
<1> QED
  BY <1>1, PropInvariance, PTL

\* The master never loses its last change to one the slave made without knowing of it.
THEOREM MasterKeepsIts == PropSpec => []MasterWins
<1>1. PropInv => MasterWins
  BY DEF PropInv
<1> QED
  BY <1>1, PropInvariance, PTL

----------------------------------------------------------------------------
(* The map. *)

LEMMA Appended ==
    ASSUME NEW S, NEW q \in Seq(S), NEW m \in S
    PROVE  /\ Append(q, m) \in Seq(S)
           /\ Len(q) \in Nat /\ Len(Append(q, m)) = Len(q) + 1
           /\ \A i \in 1 .. Len(q) : Append(q, m)[i] = q[i]
           /\ Append(q, m)[Len(q) + 1] = m
OBVIOUS

LEMMA Tailed ==
    ASSUME NEW S, NEW q \in Seq(S), q # <<>>
    PROVE  /\ Tail(q) \in Seq(S) /\ Head(q) \in S
           /\ Len(q) \in Nat \ {0} /\ Len(Tail(q)) = Len(q) - 1
           /\ Head(q) = q[1]
           /\ \A i \in 1 .. Len(q) - 1 : Tail(q)[i] = q[i + 1]
OBVIOUS

----------------------------------------------------------------------------
(* A message about another key changes nothing. *)

LEMMA LastWordAppend ==
    ASSUME NEW q \in Seq(MapMessage), NEW m \in MapMessage, NEW k, m.key # k,
           NEW p \in 0 .. Len(q), NEW x, NEW y, LastWord(q, p, k, x, y)
    PROVE  LastWord(Append(q, m), p, k, x, y)
<1> DEFINE r == Append(q, m)
<1>1. /\ Len(q) \in Nat /\ Len(r) = Len(q) + 1
      /\ \A i \in 1 .. Len(q) : r[i] = q[i]
      /\ r[Len(q) + 1] = m
  BY Appended
<1>2. ~IsChangeOf(r[Len(q) + 1], k)
  BY <1>1 DEF IsChangeOf
<1> HIDE DEF r
<1> QED
  BY <1>1, <1>2 DEF LastWord

LEMMA LastWordTail ==
    ASSUME NEW q \in Seq(MapMessage), q # <<>>, NEW k, Head(q).key # k,
           NEW p \in 0 .. Len(q), NEW x, NEW y, LastWord(q, p, k, x, y)
    PROVE  LastWord(Tail(q), IF p = 0 THEN 0 ELSE p - 1, k, x, y)
<1> DEFINE r == Tail(q)
           o == IF p = 0 THEN 0 ELSE p - 1
<1>1. /\ Len(q) \in Nat \ {0} /\ Len(r) = Len(q) - 1
      /\ \A i \in 1 .. Len(q) - 1 : r[i] = q[i + 1]
      /\ Head(q) = q[1]
  BY Tailed
<1>2. ~IsChangeOf(q[1], k)
  BY <1>1 DEF IsChangeOf
<1> HIDE DEF r
<1>3. \A i \in 1 .. Len(r) : i > o <=> i + 1 > p
  OBVIOUS
<1> HIDE DEF o
<1>4. \A i \in 1 .. Len(q) : i = 1 \/ (i - 1 \in 1 .. Len(r) /\ q[i] = r[i - 1])
  BY <1>1
<1>5. ASSUME \A i \in 1 .. Len(r) : i > o => ~IsChangeOf(r[i], k)
      PROVE  x = y
  <2>1. \A i \in 1 .. Len(q) : i > p => ~IsChangeOf(q[i], k)
    BY <1>1, <1>2, <1>3, <1>4, <1>5
  <2> QED
    BY <2>1 DEF LastWord
<1>6. ASSUME NEW i \in 1 .. Len(r), i > o, IsChangeOf(r[i], k),
             \A j \in 1 .. Len(r) : j > i => ~IsChangeOf(r[j], k)
      PROVE  x = r[i].item
  <2>1. i + 1 \in 1 .. Len(q) /\ i + 1 > p /\ q[i + 1] = r[i]
    BY <1>1, <1>3, <1>6
  <2>2. \A j \in 1 .. Len(q) : j > i + 1 => ~IsChangeOf(q[j], k)
    BY <1>1, <1>4, <1>6
  <2> QED
    BY <1>6, <2>1, <2>2 DEF LastWord
<1>7. LastWord(r, o, k, x, y)
  BY <1>5, <1>6 DEF LastWord
<1> QED
  BY <1>7 DEF r, o

LEMMA AppendOther ==
    ASSUME NEW s \in Seq(MapMessage), NEW q \in Seq(MapMessage), NEW m \in MapMessage,
           NEW k, m.key # k, NEW v, NEW x, NEW y, Settled(s, q, k, v, x, y)
    PROVE  Settled(Append(s, m), q, k, v, x, y) /\ Settled(s, Append(q, m), k, v, x, y)
<1>1. /\ Len(q) \in Nat /\ Len(Append(q, m)) = Len(q) + 1
      /\ \A i \in 1 .. Len(q) : Append(q, m)[i] = q[i]
      /\ Append(q, m)[Len(q) + 1] = m
  BY Appended
<1>2. /\ Len(s) \in Nat /\ Len(Append(s, m)) = Len(s) + 1
      /\ \A i \in 1 .. Len(s) : Append(s, m)[i] = s[i]
      /\ Append(s, m)[Len(s) + 1] = m
  BY Appended
<1>3. SilentOn(s, k) => SilentOn(Append(s, m), k)
  BY <1>2 DEF SilentOn
<1>4. OneChange(s, k, v, y) => OneChange(Append(s, m), k, v, y)
  <2> SUFFICES ASSUME NEW i \in 1 .. Len(s),
                      s[i].key = k, s[i].version = v, s[i].item = y,
                      \A j \in 1 .. Len(s) : s[j].key = k => j = i
               PROVE  OneChange(Append(s, m), k, v, y)
    BY DEF OneChange
  <2>1. i \in 1 .. Len(Append(s, m)) /\ Append(s, m)[i] = s[i]
    BY <1>2
  <2>2. \A j \in 1 .. Len(Append(s, m)) : Append(s, m)[j].key = k => j = i
    BY <1>2
  <2> QED
    BY <2>1, <2>2 DEF OneChange
<1>5. NoAckOf(q, k) => NoAckOf(Append(q, m), k)
  BY <1>1 DEF NoAckOf, IsAckOf
<1>6. LastWord(q, 0, k, x, y) => LastWord(Append(q, m), 0, k, x, y)
  BY <1>1, LastWordAppend
<1>7. OneAck(q, k, v, x, y) => OneAck(Append(q, m), k, v, x, y)
  <2> SUFFICES ASSUME NEW p \in 1 .. Len(q), IsAckOf(q[p], k), q[p].version = v,
                      \A j \in 1 .. Len(q) : IsAckOf(q[j], k) => j = p,
                      LastWord(q, p, k, x, y)
               PROVE  OneAck(Append(q, m), k, v, x, y)
    BY DEF OneAck
  <2>1. p \in 1 .. Len(Append(q, m)) /\ Append(q, m)[p] = q[p]
    BY <1>1
  <2>2. \A j \in 1 .. Len(Append(q, m)) : IsAckOf(Append(q, m)[j], k) => j = p
    BY <1>1 DEF IsAckOf
  <2>3. LastWord(Append(q, m), p, k, x, y)
    BY <1>1, LastWordAppend
  <2> QED
    BY <2>1, <2>2, <2>3 DEF OneAck
<1> QED
  BY <1>3, <1>4, <1>5, <1>6, <1>7 DEF Settled

LEMMA SlaveTailOther ==
    ASSUME NEW s \in Seq(MapMessage), s # <<>>, NEW q, NEW k, Head(s).key # k,
           NEW v, NEW x, NEW y, Settled(s, q, k, v, x, y)
    PROVE  Settled(Tail(s), q, k, v, x, y)
<1> DEFINE r == Tail(s)
<1>1. /\ Len(s) \in Nat \ {0} /\ Len(r) = Len(s) - 1
      /\ \A i \in 1 .. Len(s) - 1 : r[i] = s[i + 1]
      /\ s[1].key # k
  BY Tailed
<1> HIDE DEF r
<1>2. SilentOn(s, k) => SilentOn(r, k)
  BY <1>1 DEF SilentOn
<1>3. OneChange(s, k, v, y) => OneChange(r, k, v, y)
  <2> SUFFICES ASSUME NEW i \in 1 .. Len(s),
                      s[i].key = k, s[i].version = v, s[i].item = y,
                      \A j \in 1 .. Len(s) : s[j].key = k => j = i
               PROVE  OneChange(r, k, v, y)
    BY DEF OneChange
  <2>1. i - 1 \in 1 .. Len(r) /\ r[i - 1] = s[i]
    BY <1>1
  <2>2. \A j \in 1 .. Len(r) : r[j].key = k => j = i - 1
    BY <1>1
  <2> QED
    BY <2>1, <2>2 DEF OneChange
<1> QED
  BY <1>2, <1>3 DEF Settled, r

LEMMA MasterTailOther ==
    ASSUME NEW s, NEW q \in Seq(MapMessage), q # <<>>, NEW k, Head(q).key # k,
           NEW v, NEW x, NEW y, Settled(s, q, k, v, x, y)
    PROVE  Settled(s, Tail(q), k, v, x, y)
<1> DEFINE r == Tail(q)
<1>1. /\ Len(q) \in Nat \ {0} /\ Len(r) = Len(q) - 1
      /\ \A i \in 1 .. Len(q) - 1 : r[i] = q[i + 1]
      /\ q[1].key # k
  BY Tailed
<1>2. NoAckOf(q, k) => NoAckOf(r, k)
  BY <1>1 DEF NoAckOf
<1>3. LastWord(q, 0, k, x, y) => LastWord(r, 0, k, x, y)
  BY <1>1, LastWordTail
<1>4. OneAck(q, k, v, x, y) => OneAck(r, k, v, x, y)
  <2> SUFFICES ASSUME NEW p \in 1 .. Len(q), IsAckOf(q[p], k), q[p].version = v,
                      \A j \in 1 .. Len(q) : IsAckOf(q[j], k) => j = p,
                      LastWord(q, p, k, x, y)
               PROVE  OneAck(r, k, v, x, y)
    BY DEF OneAck
  <2>1. p - 1 \in 1 .. Len(r) /\ r[p - 1] = q[p]
    BY <1>1 DEF IsAckOf
  <2>2. \A j \in 1 .. Len(r) : IsAckOf(r[j], k) => j = p - 1
    BY <1>1
  <2>3. LastWord(r, p - 1, k, x, y)
    BY <1>1, LastWordTail
  <2> QED
    BY <2>1, <2>2, <2>3 DEF OneAck
<1> QED
  BY <1>2, <1>3, <1>4 DEF Settled

----------------------------------------------------------------------------
(* A message about the key itself. *)

\* The master changes a key that is not pending, to the item z.
LEMMA MasterChanges ==
    ASSUME NEW s \in Seq(MapMessage), NEW q \in Seq(MapMessage), NEW m \in MapMessage,
           NEW k, m.key = k, NEW x, NEW y, m.version # 0,
           Settled(s, q, k, 0, x, y)
    PROVE  Settled(Append(s, m), q, k, m.version, x, m.item)
<1> DEFINE r == Append(s, m)
<1>1. /\ Len(s) \in Nat /\ Len(r) = Len(s) + 1
      /\ \A i \in 1 .. Len(s) : r[i] = s[i]
      /\ r[Len(s) + 1] = m
  BY Appended
<1>2. SilentOn(s, k) /\ NoAckOf(q, k)
  BY DEF Settled
<1>3. \A j \in 1 .. Len(r) : r[j].key = k => j = Len(s) + 1
  BY <1>1, <1>2 DEF SilentOn
<1>4. OneChange(r, k, m.version, m.item)
  BY <1>1, <1>3 DEF OneChange
<1> QED
  BY <1>2, <1>4 DEF Settled

\* The slave changes the key, to the item z: its last word, if the master does not wait.
LEMMA SlaveChanges ==
    ASSUME NEW s, NEW q \in Seq(MapMessage), NEW m \in MapMessage,
           NEW k, IsChangeOf(m, k), NEW v, NEW x, NEW y, Settled(s, q, k, v, x, y)
    PROVE  Settled(s, Append(q, m), k, v, m.item, y)
<1> DEFINE r == Append(q, m)
<1>1. /\ Len(q) \in Nat /\ Len(r) = Len(q) + 1
      /\ \A i \in 1 .. Len(q) : r[i] = q[i]
      /\ r[Len(q) + 1] = m
  BY Appended
<1> HIDE DEF r
<1>2. NoAckOf(q, k) => NoAckOf(r, k)
  BY <1>1 DEF NoAckOf, IsAckOf, IsChangeOf
<1>3. ASSUME NEW p \in 0 .. Len(q) PROVE LastWord(r, p, k, m.item, y)
  <2>1. Len(q) + 1 \in 1 .. Len(r) /\ Len(q) + 1 > p /\ IsChangeOf(r[Len(q) + 1], k)
    BY <1>1
  <2>2. ASSUME NEW i \in 1 .. Len(r), \A j \in 1 .. Len(r) : j > i => ~IsChangeOf(r[j], k)
        PROVE  i = Len(q) + 1
    BY <1>1, <2>1, <2>2
  <2> QED
    BY <1>1, <2>1, <2>2 DEF LastWord
<1>4. OneAck(q, k, v, x, y) => OneAck(r, k, v, m.item, y)
  <2> SUFFICES ASSUME NEW p \in 1 .. Len(q), IsAckOf(q[p], k), q[p].version = v,
                      \A j \in 1 .. Len(q) : IsAckOf(q[j], k) => j = p
               PROVE  OneAck(r, k, v, m.item, y)
    BY DEF OneAck
  <2>1. p \in 1 .. Len(r) /\ r[p] = q[p] /\ p \in 0 .. Len(q)
    BY <1>1
  <2>2. \A j \in 1 .. Len(r) : IsAckOf(r[j], k) => j = p
    BY <1>1 DEF IsAckOf, IsChangeOf
  <2> QED
    BY <1>3, <2>1, <2>2 DEF OneAck
<1>5. 0 \in 0 .. Len(q)
  BY <1>1
<1> QED
  BY <1>2, <1>3, <1>4, <1>5 DEF Settled, r

\* The slave takes the master's change and acknowledges it.
LEMMA SlaveTakes ==
    ASSUME NEW s \in Seq(MapMessage), s # <<>>, NEW q \in Seq(MapMessage),
           NEW m \in MapMessage, NEW k, Head(s).key = k,
           IsAckOf(m, k), m.version = Head(s).version,
           NEW v, NEW x, NEW y, Settled(s, q, k, v, x, y)
    PROVE  Settled(Tail(s), Append(q, m), k, v, Head(s).item, y)
<1> DEFINE r == Append(q, m)
           t == Tail(s)
<1>1. /\ Len(q) \in Nat /\ Len(r) = Len(q) + 1
      /\ \A i \in 1 .. Len(q) : r[i] = q[i]
      /\ r[Len(q) + 1] = m
  BY Appended
<1>2. /\ Len(s) \in Nat \ {0} /\ Len(t) = Len(s) - 1
      /\ \A i \in 1 .. Len(s) - 1 : t[i] = s[i + 1]
      /\ Head(s) = s[1] /\ s[1].key = k
  BY Tailed
<1> HIDE DEF r, t
<1>3. ~SilentOn(s, k)
  BY <1>2 DEF SilentOn
<1>4. v # 0 /\ OneChange(s, k, v, y) /\ NoAckOf(q, k)
  BY <1>3 DEF Settled
<1>5. PICK i \in 1 .. Len(s) : /\ s[i].key = k /\ s[i].version = v /\ s[i].item = y
                               /\ \A j \in 1 .. Len(s) : s[j].key = k => j = i
  BY <1>4 DEF OneChange
<1>6. Head(s).version = v /\ Head(s).item = y /\ \A j \in 1 .. Len(s) : s[j].key = k => j = 1
  BY <1>2, <1>5
<1>7. SilentOn(t, k)
  BY <1>2, <1>6 DEF SilentOn
<1>8. OneAck(r, k, v, y, y)
  <2>1. Len(q) + 1 \in 1 .. Len(r) /\ IsAckOf(r[Len(q) + 1], k) /\ r[Len(q) + 1].version = v
    BY <1>1, <1>6
  <2>2. \A j \in 1 .. Len(r) : IsAckOf(r[j], k) => j = Len(q) + 1
    BY <1>1, <1>4 DEF NoAckOf
  <2>3. LastWord(r, Len(q) + 1, k, y, y)
    BY <1>1 DEF LastWord
  <2> QED
    BY <2>1, <2>2, <2>3 DEF OneAck
<1> QED
  BY <1>4, <1>6, <1>7, <1>8 DEF Settled, r, t

\* The master takes the slave's change, if it does not wait.
LEMMA MasterTakes ==
    ASSUME NEW s, NEW q \in Seq(MapMessage), q # <<>>, NEW k, IsChangeOf(Head(q), k),
           NEW v, NEW x, NEW y, Settled(s, q, k, v, x, y)
    PROVE  Settled(s, Tail(q), k, v, x, IF v = 0 THEN Head(q).item ELSE y)
<1> DEFINE r == Tail(q)
<1>1. /\ Len(q) \in Nat \ {0} /\ Len(r) = Len(q) - 1
      /\ \A i \in 1 .. Len(q) - 1 : r[i] = q[i + 1]
      /\ Head(q) = q[1] /\ IsChangeOf(q[1], k)
  BY Tailed
<1> HIDE DEF r
<1>2. \A i \in 1 .. Len(q) : i = 1 \/ (i - 1 \in 1 .. Len(r) /\ q[i] = r[i - 1])
  BY <1>1
<1>3. NoAckOf(q, k) => NoAckOf(r, k)
  BY <1>1 DEF NoAckOf
<1>4. ASSUME NEW p \in 0 .. Len(q), LastWord(q, p, k, x, y),
             NEW i \in 1 .. Len(r), i + 1 > p, IsChangeOf(r[i], k),
             \A j \in 1 .. Len(r) : j > i => ~IsChangeOf(r[j], k)
      PROVE  x = r[i].item
  <2>1. i + 1 \in 1 .. Len(q) /\ q[i + 1] = r[i]
    BY <1>1
  <2>2. \A j \in 1 .. Len(q) : j > i + 1 => ~IsChangeOf(q[j], k)
    BY <1>1, <1>2, <1>4
  <2> QED
    BY <1>4, <2>1, <2>2 DEF LastWord
<1>5. LastWord(q, 0, k, x, y) => LastWord(r, 0, k, x, Head(q).item)
  <2> SUFFICES ASSUME LastWord(q, 0, k, x, y) PROVE LastWord(r, 0, k, x, Head(q).item)
    OBVIOUS
  <2>1. ASSUME \A i \in 1 .. Len(r) : i > 0 => ~IsChangeOf(r[i], k)
        PROVE  x = Head(q).item
    <3>1. \A j \in 1 .. Len(q) : j > 1 => ~IsChangeOf(q[j], k)
      BY <1>1, <1>2, <2>1
    <3>2. 1 \in 1 .. Len(q) /\ 1 > 0
      BY <1>1
    <3> QED
      BY <1>1, <3>1, <3>2 DEF LastWord
  <2>2. ASSUME NEW i \in 1 .. Len(r), i > 0, IsChangeOf(r[i], k),
               \A j \in 1 .. Len(r) : j > i => ~IsChangeOf(r[j], k)
        PROVE  x = r[i].item
    <3>1. 0 \in 0 .. Len(q) /\ i + 1 > 0
      BY <1>1
    <3> QED
      BY <1>4, <2>2, <3>1
  <2> QED
    BY <2>1, <2>2 DEF LastWord
<1>6. OneAck(q, k, v, x, y) => OneAck(r, k, v, x, y)
  <2> SUFFICES ASSUME NEW p \in 1 .. Len(q), IsAckOf(q[p], k), q[p].version = v,
                      \A j \in 1 .. Len(q) : IsAckOf(q[j], k) => j = p,
                      LastWord(q, p, k, x, y)
               PROVE  OneAck(r, k, v, x, y)
    BY DEF OneAck
  <2>1. p # 1
    BY <1>1 DEF IsAckOf, IsChangeOf
  <2>2. p - 1 \in 1 .. Len(r) /\ r[p - 1] = q[p]
    BY <1>1, <2>1
  <2>3. \A j \in 1 .. Len(r) : IsAckOf(r[j], k) => j = p - 1
    BY <1>1
  <2>4. ASSUME \A i \in 1 .. Len(r) : i > p - 1 => ~IsChangeOf(r[i], k)
        PROVE  x = y
    <3>1. \A i \in 1 .. Len(q) : i > p => ~IsChangeOf(q[i], k)
      BY <1>1, <1>2, <2>4
    <3> QED
      BY <3>1 DEF LastWord
  <2>5. ASSUME NEW i \in 1 .. Len(r), i > p - 1, IsChangeOf(r[i], k),
               \A j \in 1 .. Len(r) : j > i => ~IsChangeOf(r[j], k)
        PROVE  x = r[i].item
    <3>1. p \in 0 .. Len(q) /\ i + 1 > p
      BY <1>1, <2>5
    <3> QED
      BY <1>4, <2>5, <3>1
  <2>6. LastWord(r, p - 1, k, x, y)
    BY <2>4, <2>5 DEF LastWord
  <2> QED
    BY <2>2, <2>3, <2>6 DEF OneAck
<1> QED
  BY <1>3, <1>5, <1>6 DEF Settled, r

\* The master gets the acknowledgement it waits for, and no other.
LEMMA MasterIsAcknowledged ==
    ASSUME NEW s, NEW q \in Seq(MapMessage), q # <<>>, NEW k, IsAckOf(Head(q), k),
           NEW v, NEW x, NEW y, Settled(s, q, k, v, x, y)
    PROVE  Head(q).version = v /\ Settled(s, Tail(q), k, 0, x, y)
<1> DEFINE r == Tail(q)
<1>1. /\ Len(q) \in Nat \ {0} /\ Len(r) = Len(q) - 1
      /\ \A i \in 1 .. Len(q) - 1 : r[i] = q[i + 1]
      /\ Head(q) = q[1] /\ IsAckOf(q[1], k)
  BY Tailed
<1>2. ~NoAckOf(q, k)
  BY <1>1 DEF NoAckOf
<1>3. SilentOn(s, k) /\ OneAck(q, k, v, x, y)
  BY <1>2 DEF Settled
<1>4. PICK p \in 1 .. Len(q) : /\ q[p].version = v
                               /\ \A j \in 1 .. Len(q) : IsAckOf(q[j], k) => j = p
                               /\ LastWord(q, p, k, x, y)
  BY <1>3 DEF OneAck
<1>5. p = 1
  BY <1>1, <1>4
<1> HIDE DEF r
<1>6. NoAckOf(r, k)
  BY <1>1, <1>4, <1>5 DEF NoAckOf
<1>7. \A i \in 1 .. Len(q) : i = 1 \/ (i - 1 \in 1 .. Len(r) /\ q[i] = r[i - 1])
  BY <1>1
<1>8. ASSUME \A i \in 1 .. Len(r) : i > 0 => ~IsChangeOf(r[i], k)
      PROVE  x = y
  <2>1. \A i \in 1 .. Len(q) : i > p => ~IsChangeOf(q[i], k)
    BY <1>1, <1>5, <1>7, <1>8
  <2> QED
    BY <1>4, <2>1 DEF LastWord
<1>9. ASSUME NEW i \in 1 .. Len(r), IsChangeOf(r[i], k),
             \A j \in 1 .. Len(r) : j > i => ~IsChangeOf(r[j], k)
      PROVE  x = r[i].item
  <2>1. i + 1 \in 1 .. Len(q) /\ i + 1 > p /\ q[i + 1] = r[i]
    BY <1>1, <1>5
  <2>2. \A j \in 1 .. Len(q) : j > i + 1 => ~IsChangeOf(q[j], k)
    BY <1>1, <1>7, <1>9
  <2> QED
    BY <1>4, <1>9, <2>1, <2>2 DEF LastWord
<1>10. LastWord(r, 0, k, x, y)
  BY <1>8, <1>9 DEF LastWord
<1> QED
  BY <1>1, <1>3, <1>4, <1>5, <1>6, <1>10 DEF Settled, r

----------------------------------------------------------------------------
(* The actions. *)

\* NoKeyLocked, queue by queue.
UnderWay(k, v) == \/ \E i \in 1 .. Len(mapInbox["slave"]) :
                        mapInbox["slave"][i].key = k /\ mapInbox["slave"][i].version = v
                  \/ \E i \in 1 .. Len(mapInbox["master"]) :
                        mapInbox["master"][i].key = k /\ mapInbox["master"][i].version = v

LEMMA NotLocked == NoKeyLocked <=> \A k \in Key : pendingForAck[k] # 0 => UnderWay(k, pendingForAck[k])
BY Zenon DEF NoKeyLocked, UnderWay, MapEnd

LEMMA Types ==
    ASSUME MapTypeOK
    PROVE  /\ mapInbox["slave"] \in Seq(MapMessage) /\ mapInbox["master"] \in Seq(MapMessage)
           /\ nextVersion \in Nat /\ changes \in Nat
           /\ \A k \in Key : /\ pendingForAck[k] \in Nat
                             /\ items["slave"][k] \in Item \cup {NoItem}
                             /\ items["master"][k] \in Item \cup {NoItem}
BY MapAssumption DEF MapTypeOK, MapEnd

LEMMA MapInitInv == MapInit => MapInv
<1> SUFFICES ASSUME MapInit PROVE MapInv
  OBVIOUS
<1>1. MapTypeOK
  BY MapAssumption DEF MapInit, MapTypeOK, MapEnd
<1>2. mapInbox["slave"] = <<>> /\ mapInbox["master"] = <<>>
  BY DEF MapInit, MapEnd
<1>3. Len(<<>>) = 0
  OBVIOUS
<1>4. Versioned
  BY <1>2 DEF Versioned, MapInit
<1>5. NoKeyLocked
  BY DEF NoKeyLocked, MapInit
<1>6. KeysSettled
  <2> SUFFICES ASSUME NEW k \in Key
               PROVE  Settled(<<>>, <<>>, k, 0, NoItem, NoItem)
    BY <1>2 DEF KeysSettled, MapInit, MapEnd
  <2> QED
    BY <1>3 DEF Settled, SilentOn, NoAckOf, LastWord
<1> QED
  BY <1>1, <1>4, <1>5, <1>6 DEF MapInv

LEMMA MasterSetKeeps ==
    ASSUME MapInv, NEW k \in Key, NEW x \in Item, MasterSet(k, x)
    PROVE  MapInv'
<1> DEFINE s == mapInbox["slave"]
           m == Change(nextVersion + 1, k, x)
<1>1. MapTypeOK
  BY DEF MapInv
<1>2. m \in MapMessage /\ m.op = "change" /\ m.key = k /\ m.item = x /\ m.version = nextVersion + 1
  BY <1>1, Types DEF Change, MapMessage
<1>3. /\ items' = [items EXCEPT !["master"][k] = x]
      /\ nextVersion' = nextVersion + 1
      /\ pendingForAck' = Emplaced(k, nextVersion + 1)
      /\ mapInbox' = [mapInbox EXCEPT !["slave"] = Append(@, m)]
      /\ hurried' = IF pendingForAck[k] = 0 THEN hurried ELSE hurried \cup {k}
      /\ changes < MaxChanges /\ changes' = changes + 1
  BY DEF MasterSet, Sent
<1> HIDE DEF m
<1>4. /\ mapInbox'["slave"] = Append(s, m) /\ mapInbox'["master"] = mapInbox["master"]
      /\ items'["slave"] = items["slave"]
      /\ items'["master"] = [items["master"] EXCEPT ![k] = x]
  BY <1>1, <1>3 DEF MapTypeOK, MapEnd
<1>5. /\ Append(s, m) \in Seq(MapMessage) /\ Len(s) \in Nat /\ Len(Append(s, m)) = Len(s) + 1
      /\ \A i \in 1 .. Len(s) : Append(s, m)[i] = s[i]
      /\ Append(s, m)[Len(s) + 1] = m
  BY <1>1, <1>2, Types, Appended
<1>6. nextVersion \in Nat /\ changes \in Nat /\ nextVersion <= changes
  BY <1>1, Types DEF MapInv, Versioned
<1>7. MapTypeOK'
  <2>1. items' \in [MapEnd -> [Key -> Item \cup {NoItem}]]
    BY <1>1, <1>3 DEF MapTypeOK, MapEnd
  <2>2. nextVersion' \in 0 .. MaxChanges /\ changes' \in 0 .. MaxChanges
    BY <1>3, <1>6, MapAssumption
  <2>3. pendingForAck' \in [Key -> 0 .. MaxChanges]
    BY <1>1, <1>3, <2>2 DEF MapTypeOK, Emplaced
  <2>4. mapInbox' \in [MapEnd -> Seq(MapMessage)]
    BY <1>1, <1>3, <1>5 DEF MapTypeOK, MapEnd
  <2>5. hurried' \subseteq Key
    BY <1>1, <1>3 DEF MapTypeOK
  <2> QED
    BY <2>1, <2>2, <2>3, <2>4, <2>5 DEF MapTypeOK
<1>8. Versioned'
  <2>1. nextVersion' <= changes'
    BY <1>3, <1>6
  <2>2. m.version # 0
    BY <1>2, <1>6
  <2>3. ASSUME NEW i \in 1 .. Len(Append(s, m))
        PROVE  Append(s, m)[i].op = "change" /\ Append(s, m)[i].version # 0
    <3>1. CASE i = Len(s) + 1
      BY <1>2, <1>5, <2>2, <3>1
    <3>2. CASE i # Len(s) + 1
      BY <1>5, <3>2 DEF MapInv, Versioned
    <3> QED
      BY <3>1, <3>2
  <2> QED
    BY <1>4, <2>1, <2>3 DEF MapInv, Versioned
<1>9. NoKeyLocked'
  <2> SUFFICES ASSUME NEW l \in Key, pendingForAck'[l] # 0
               PROVE  UnderWay(l, pendingForAck[l])'
    BY Zenon DEF NoKeyLocked, UnderWay, MapEnd
  <2>1. CASE l = k /\ pendingForAck[k] = 0
    <3>1. pendingForAck'[l] = nextVersion + 1
      BY <1>1, <1>3, <2>1 DEF MapTypeOK, Emplaced
    <3>2. Len(s) + 1 \in 1 .. Len(Append(s, m))
      BY <1>5
    <3> QED
      BY <1>2, <1>4, <1>5, <2>1, <3>1, <3>2 DEF UnderWay
  <2>2. CASE ~(l = k /\ pendingForAck[k] = 0)
    <3>1. pendingForAck'[l] = pendingForAck[l]
      BY <1>1, <1>3, <2>2 DEF MapTypeOK, Emplaced
    <3>2. UnderWay(l, pendingForAck[l])
      BY <3>1, NotLocked DEF MapInv
    <3>3. \A i \in 1 .. Len(s) : i \in 1 .. Len(Append(s, m))
      BY <1>5
    <3> QED
      BY <1>4, <1>5, <3>1, <3>2, <3>3 DEF UnderWay
  <2> QED
    BY <2>1, <2>2
<1>10. KeysSettled'
  <2> SUFFICES ASSUME NEW l \in Key \ hurried'
               PROVE  Settled(mapInbox'["slave"], mapInbox'["master"], l, pendingForAck'[l],
                              items'["slave"][l], items'["master"][l])
    BY DEF KeysSettled
  <2>1. l \in Key \ hurried
    BY <1>3
  <2>2. Settled(s, mapInbox["master"], l, pendingForAck[l], items["slave"][l], items["master"][l])
    BY <2>1 DEF MapInv, KeysSettled
  <2>3. CASE l = k
    <3>1. pendingForAck[l] = 0
      BY <1>3, <2>3
    <3>2. pendingForAck'[l] = m.version /\ items'["master"][l] = m.item /\ m.version # 0
      BY <1>1, <1>2, <1>3, <1>4, <1>6, <2>3, <3>1 DEF MapTypeOK, Emplaced, MapEnd
    <3>3. Settled(s, mapInbox["master"], l, 0, items["slave"][l], items["master"][l])
      BY <2>2, <3>1
    <3>4. Settled(Append(s, m), mapInbox["master"], l, m.version, items["slave"][l], m.item)
      BY <1>1, <1>2, <2>3, <3>2, <3>3, Types, MasterChanges
    <3> QED
      BY <1>4, <3>2, <3>4
  <2>4. CASE l # k
    <3>1. pendingForAck'[l] = pendingForAck[l] /\ items'["master"][l] = items["master"][l]
      BY <1>1, <1>3, <1>4, <2>4 DEF MapTypeOK, Emplaced, MapEnd
    <3> QED
      BY <1>1, <1>2, <1>4, <2>2, <2>4, <3>1, Types, AppendOther
  <2> QED
    BY <2>3, <2>4
<1> QED
  BY <1>7, <1>8, <1>9, <1>10 DEF MapInv

LEMMA SlaveSetKeeps ==
    ASSUME MapInv, NEW k \in Key, NEW x \in Item \cup {NoItem}, SlaveSet(k, x)
    PROVE  MapInv'
<1> DEFINE q == mapInbox["master"]
           m == Change(0, k, x)
<1>1. MapTypeOK
  BY DEF MapInv
<1>2. m \in MapMessage /\ m.op = "change" /\ m.key = k /\ m.item = x /\ m.version = 0
  BY DEF Change, MapMessage
<1>3. /\ items' = [items EXCEPT !["slave"][k] = x]
      /\ mapInbox' = [mapInbox EXCEPT !["master"] = Append(@, m)]
      /\ changes < MaxChanges /\ changes' = changes + 1
      /\ UNCHANGED <<nextVersion, pendingForAck, hurried>>
  BY DEF SlaveSet, Sent
<1> HIDE DEF m
<1>4. /\ mapInbox'["master"] = Append(q, m) /\ mapInbox'["slave"] = mapInbox["slave"]
      /\ items'["master"] = items["master"]
      /\ items'["slave"] = [items["slave"] EXCEPT ![k] = x]
  BY <1>1, <1>3 DEF MapTypeOK, MapEnd
<1>5. /\ Append(q, m) \in Seq(MapMessage) /\ Len(q) \in Nat /\ Len(Append(q, m)) = Len(q) + 1
      /\ \A i \in 1 .. Len(q) : Append(q, m)[i] = q[i]
      /\ Append(q, m)[Len(q) + 1] = m
  BY <1>1, <1>2, Types, Appended
<1>6. MapTypeOK'
  <2>1. items' \in [MapEnd -> [Key -> Item \cup {NoItem}]]
    BY <1>1, <1>3 DEF MapTypeOK, MapEnd
  <2>2. changes' \in 0 .. MaxChanges
    BY <1>1, <1>3, Types, MapAssumption
  <2>3. mapInbox' \in [MapEnd -> Seq(MapMessage)]
    BY <1>1, <1>3, <1>5 DEF MapTypeOK, MapEnd
  <2> QED
    BY <1>1, <1>3, <2>1, <2>2, <2>3 DEF MapTypeOK
<1>7. Versioned'
  <2>1. nextVersion' <= changes'
    BY <1>1, <1>3, Types DEF MapInv, Versioned
  <2>2. \A i \in 1 .. Len(Append(q, m)) :
            Append(q, m)[i].op = "change" => Append(q, m)[i].version = 0
    BY <1>2, <1>5 DEF MapInv, Versioned
  <2> QED
    BY <1>4, <2>1, <2>2 DEF MapInv, Versioned
<1>8. NoKeyLocked'
  <2> SUFFICES ASSUME NEW l \in Key, pendingForAck'[l] # 0
               PROVE  UnderWay(l, pendingForAck[l])'
    BY Zenon DEF NoKeyLocked, UnderWay, MapEnd
  <2>1. UnderWay(l, pendingForAck[l])
    BY <1>3, NotLocked DEF MapInv
  <2>2. \A i \in 1 .. Len(q) : i \in 1 .. Len(Append(q, m))
    BY <1>5
  <2> QED
    BY <1>3, <1>4, <1>5, <2>1, <2>2 DEF UnderWay
<1>9. KeysSettled'
  <2> SUFFICES ASSUME NEW l \in Key \ hurried
               PROVE  Settled(mapInbox'["slave"], mapInbox'["master"], l, pendingForAck[l],
                              items'["slave"][l], items'["master"][l])
    BY <1>3 DEF KeysSettled
  <2>1. Settled(mapInbox["slave"], q, l, pendingForAck[l], items["slave"][l], items["master"][l])
    BY DEF MapInv, KeysSettled
  <2>2. CASE l = k
    <3>1. items'["slave"][l] = m.item /\ IsChangeOf(m, l)
      BY <1>1, <1>2, <1>4, <2>2 DEF MapTypeOK, MapEnd, IsChangeOf
    <3> QED
      BY <1>1, <1>2, <1>4, <2>1, <3>1, Types, SlaveChanges
  <2>3. CASE l # k
    <3>1. items'["slave"][l] = items["slave"][l]
      BY <1>1, <1>4, <2>3 DEF MapTypeOK, MapEnd
    <3> QED
      BY <1>1, <1>2, <1>4, <2>1, <2>3, <3>1, Types, AppendOther
  <2> QED
    BY <2>2, <2>3
<1> QED
  BY <1>6, <1>7, <1>8, <1>9 DEF MapInv

\* What a non-empty queue of the map consists of.
LEMMA Queue ==
    ASSUME NEW q \in Seq(MapMessage), q # <<>>
    PROVE  /\ Tail(q) \in Seq(MapMessage) /\ Head(q) \in MapMessage
           /\ Len(q) \in Nat \ {0} /\ Len(Tail(q)) = Len(q) - 1
           /\ Head(q) = q[1]
           /\ \A i \in 1 .. Len(q) - 1 : Tail(q)[i] = q[i + 1]
           /\ \A i \in 1 .. Len(q) : i = 1 \/ (i - 1 \in 1 .. Len(Tail(q)) /\ q[i] = Tail(q)[i - 1])
<1>1. /\ Tail(q) \in Seq(MapMessage) /\ Head(q) \in MapMessage
      /\ Len(q) \in Nat \ {0} /\ Len(Tail(q)) = Len(q) - 1
      /\ Head(q) = q[1]
      /\ \A i \in 1 .. Len(q) - 1 : Tail(q)[i] = q[i + 1]
  BY Tailed
<1> QED
  BY <1>1

LEMMA SlaveReceiveKeeps ==
    ASSUME MapInv, SlaveReceive
    PROVE  MapInv'
<1> DEFINE s == mapInbox["slave"]
           q == mapInbox["master"]
           m == Head(s)
           a == [op |-> "ack", version |-> m.version, key |-> m.key]
           t == Tail(s)
           r == Append(q, a)
<1>1. MapTypeOK /\ s \in Seq(MapMessage) /\ q \in Seq(MapMessage) /\ s # <<>>
  BY Types DEF MapInv, SlaveReceive
<1>2. /\ t \in Seq(MapMessage) /\ m \in MapMessage
      /\ Len(s) \in Nat \ {0} /\ Len(t) = Len(s) - 1
      /\ m = s[1]
      /\ \A i \in 1 .. Len(s) - 1 : t[i] = s[i + 1]
      /\ \A i \in 1 .. Len(s) : i = 1 \/ (i - 1 \in 1 .. Len(t) /\ s[i] = t[i - 1])
  BY <1>1, Queue
<1>3. m.op = "change"
  BY <1>2 DEF MapInv, Versioned
<1>4. m.key \in Key /\ m.item \in Item \cup {NoItem} /\ m.version \in Nat
  BY <1>2, <1>3 DEF MapMessage
<1>5. a \in MapMessage /\ a.op = "ack" /\ a.key = m.key /\ a.version = m.version
  BY <1>4 DEF MapMessage
<1>6. /\ items' = [items EXCEPT !["slave"][m.key] = m.item]
      /\ mapInbox' = [mapInbox EXCEPT !["slave"] = t, !["master"] = r]
      /\ UNCHANGED <<nextVersion, pendingForAck, hurried, changes>>
  BY <1>1 DEF SlaveReceive, Sent, MapTypeOK, MapEnd
<1>7. /\ r \in Seq(MapMessage) /\ Len(q) \in Nat /\ Len(r) = Len(q) + 1
      /\ \A i \in 1 .. Len(q) : r[i] = q[i]
      /\ r[Len(q) + 1] = a
  BY <1>1, <1>5, Appended
<1> HIDE DEF a, t, r, m
<1>8. /\ mapInbox'["slave"] = t /\ mapInbox'["master"] = r
      /\ items'["master"] = items["master"]
      /\ items'["slave"] = [items["slave"] EXCEPT ![m.key] = m.item]
  BY <1>1, <1>6 DEF MapTypeOK, MapEnd
<1>9. MapTypeOK'
  <2>1. items' \in [MapEnd -> [Key -> Item \cup {NoItem}]]
    BY <1>1, <1>4, <1>6 DEF MapTypeOK, MapEnd
  <2>2. mapInbox' \in [MapEnd -> Seq(MapMessage)]
    BY <1>1, <1>2, <1>6, <1>7 DEF MapTypeOK, MapEnd
  <2> QED
    BY <1>1, <1>6, <2>1, <2>2 DEF MapTypeOK
<1>10. Versioned'
  <2>1. \A i \in 1 .. Len(t) : t[i].op = "change" /\ t[i].version # 0
    BY <1>2 DEF MapInv, Versioned
  <2>2. \A i \in 1 .. Len(r) : r[i].op = "change" => r[i].version = 0
    BY <1>5, <1>7 DEF MapInv, Versioned
  <2> QED
    BY <1>6, <1>8, <2>1, <2>2 DEF MapInv, Versioned
<1>11. NoKeyLocked'
  <2> SUFFICES ASSUME NEW l \in Key, pendingForAck'[l] # 0
               PROVE  UnderWay(l, pendingForAck[l])'
    BY Zenon DEF NoKeyLocked, UnderWay, MapEnd
  <2>1. UnderWay(l, pendingForAck[l])
    BY <1>6, NotLocked DEF MapInv
  <2>2. \A i \in 1 .. Len(q) : i \in 1 .. Len(r) /\ r[i] = q[i]
    BY <1>7
  <2>3. Len(q) + 1 \in 1 .. Len(r)
    BY <1>7
  <2>4. ASSUME NEW i \in 1 .. Len(s), s[i].key = l, s[i].version = pendingForAck[l]
        PROVE  UnderWay(l, pendingForAck[l])'
    <3>1. CASE i = 1
      <4>1. m.key = l /\ m.version = pendingForAck[l]
        BY <1>2, <2>4, <3>1
      <4>2. r[Len(q) + 1].key = l /\ r[Len(q) + 1].version = pendingForAck[l]
        BY <1>5, <1>7, <4>1
      <4> QED
        BY <1>6, <1>8, <2>3, <4>2 DEF UnderWay
    <3>2. CASE i # 1
      <4>1. i - 1 \in 1 .. Len(t) /\ t[i - 1] = s[i]
        BY <1>2, <3>2
      <4> QED
        BY <1>6, <1>8, <2>4, <4>1 DEF UnderWay
    <3> QED
      BY <3>1, <3>2
  <2> QED
    BY <1>6, <1>8, <2>1, <2>2, <2>4 DEF UnderWay
<1>12. KeysSettled'
  <2> SUFFICES ASSUME NEW l \in Key \ hurried
               PROVE  Settled(t, r, l, pendingForAck[l], items'["slave"][l], items["master"][l])
    BY <1>6, <1>8 DEF KeysSettled
  <2>1. Settled(s, q, l, pendingForAck[l], items["slave"][l], items["master"][l])
    BY DEF MapInv, KeysSettled
  <2>2. CASE l = m.key
    <3>1. items'["slave"][l] = m.item /\ IsAckOf(a, l)
      BY <1>1, <1>4, <1>5, <1>8, <2>2 DEF MapTypeOK, MapEnd, IsAckOf
    <3> QED
      BY <1>1, <1>5, <2>1, <2>2, <3>1, SlaveTakes DEF m, t, r
  <2>3. CASE l # m.key
    <3>1. items'["slave"][l] = items["slave"][l]
      BY <1>1, <1>4, <1>8, <2>3 DEF MapTypeOK, MapEnd
    <3>2. Settled(t, q, l, pendingForAck[l], items["slave"][l], items["master"][l])
      BY <1>1, <2>1, <2>3, SlaveTailOther DEF m, t
    <3>3. Settled(t, r, l, pendingForAck[l], items["slave"][l], items["master"][l])
      BY <1>1, <1>2, <1>5, <2>3, <3>2, AppendOther DEF r
    <3> QED
      BY <3>1, <3>3
  <2> QED
    BY <2>2, <2>3
<1> QED
  BY <1>9, <1>10, <1>11, <1>12 DEF MapInv

LEMMA MasterReceiveChangeKeeps ==
    ASSUME MapInv, MasterReceiveChange
    PROVE  MapInv'
<1> DEFINE q == mapInbox["master"]
           m == Head(q)
           r == Tail(q)
<1>1. MapTypeOK /\ q \in Seq(MapMessage) /\ q # <<>> /\ m.op = "change"
  BY Types DEF MapInv, MasterReceiveChange
<1>2. /\ r \in Seq(MapMessage) /\ m \in MapMessage
      /\ Len(q) \in Nat \ {0} /\ Len(r) = Len(q) - 1
      /\ m = q[1]
      /\ \A i \in 1 .. Len(q) - 1 : r[i] = q[i + 1]
      /\ \A i \in 1 .. Len(q) : i = 1 \/ (i - 1 \in 1 .. Len(r) /\ q[i] = r[i - 1])
  BY <1>1, Queue
<1>3. m.key \in Key /\ m.item \in Item \cup {NoItem} /\ m.version = 0
  <2>1. m.version = 0
    BY <1>1, <1>2 DEF MapInv, Versioned
  <2> QED
    BY <1>1, <1>2, <2>1 DEF MapMessage
<1>4. /\ items' = IF pendingForAck[m.key] = 0 THEN [items EXCEPT !["master"][m.key] = m.item] ELSE items
      /\ mapInbox' = [mapInbox EXCEPT !["master"] = r]
      /\ UNCHANGED <<nextVersion, pendingForAck, hurried, changes>>
  BY DEF MasterReceiveChange, Taken
<1> HIDE DEF r, m
<1>5. /\ mapInbox'["slave"] = mapInbox["slave"] /\ mapInbox'["master"] = r
      /\ items'["slave"] = items["slave"]
  BY <1>1, <1>4 DEF MapTypeOK, MapEnd
<1>6. MapTypeOK'
  <2>1. items' \in [MapEnd -> [Key -> Item \cup {NoItem}]]
    BY <1>1, <1>3, <1>4 DEF MapTypeOK, MapEnd
  <2>2. mapInbox' \in [MapEnd -> Seq(MapMessage)]
    BY <1>1, <1>2, <1>4 DEF MapTypeOK, MapEnd
  <2> QED
    BY <1>1, <1>4, <2>1, <2>2 DEF MapTypeOK
<1>7. Versioned'
  <2>1. \A i \in 1 .. Len(q) : q[i].op = "change" => q[i].version = 0
    BY DEF MapInv, Versioned
  <2> HIDE DEF q
  <2>2. ASSUME NEW i \in 1 .. Len(r) PROVE r[i].op = "change" => r[i].version = 0
    <3>1. i + 1 \in 1 .. Len(q) /\ r[i] = q[i + 1]
      BY <1>2
    <3> QED
      BY <2>1, <3>1
  <2> QED
    BY <1>4, <1>5, <2>2 DEF MapInv, Versioned
<1>8. NoKeyLocked'
  <2> SUFFICES ASSUME NEW l \in Key, pendingForAck'[l] # 0
               PROVE  UnderWay(l, pendingForAck[l])'
    BY Zenon DEF NoKeyLocked, UnderWay, MapEnd
  <2>1. UnderWay(l, pendingForAck[l]) /\ pendingForAck[l] # 0
    BY <1>4, NotLocked DEF MapInv
  <2>2. \A i \in 1 .. Len(q) : q[i].version = pendingForAck[l] => i - 1 \in 1 .. Len(r) /\ q[i] = r[i - 1]
    BY <1>2, <1>3, <2>1
  <2> QED
    BY <1>4, <1>5, <2>1, <2>2 DEF UnderWay
<1>9. KeysSettled'
  <2> SUFFICES ASSUME NEW l \in Key \ hurried
               PROVE  Settled(mapInbox["slave"], r, l, pendingForAck[l], items["slave"][l], items'["master"][l])
    BY <1>4, <1>5 DEF KeysSettled
  <2>1. Settled(mapInbox["slave"], q, l, pendingForAck[l], items["slave"][l], items["master"][l])
    BY DEF MapInv, KeysSettled
  <2>2. CASE l = m.key
    <3>1. items'["master"][l] = IF pendingForAck[l] = 0 THEN m.item ELSE items["master"][l]
      BY <1>1, <1>3, <1>4, <2>2 DEF MapTypeOK, MapEnd
    <3>2. IsChangeOf(m, l)
      BY <1>1, <2>2 DEF IsChangeOf, m
    <3> QED
      BY <1>1, <2>1, <3>1, <3>2, MasterTakes DEF m, r
  <2>3. CASE l # m.key
    <3>1. items'["master"][l] = items["master"][l]
      BY <1>1, <1>3, <1>4, <2>3 DEF MapTypeOK, MapEnd
    <3> QED
      BY <1>1, <2>1, <2>3, <3>1, MasterTailOther DEF m, r
  <2> QED
    BY <2>2, <2>3
<1> QED
  BY <1>6, <1>7, <1>8, <1>9 DEF MapInv

LEMMA MasterReceiveAckKeeps ==
    ASSUME MapInv, MasterReceiveAck
    PROVE  MapInv'
<1> DEFINE q == mapInbox["master"]
           m == Head(q)
           r == Tail(q)
<1>1. MapTypeOK /\ q \in Seq(MapMessage) /\ q # <<>> /\ m.op = "ack"
  BY Types DEF MapInv, MasterReceiveAck
<1>2. /\ r \in Seq(MapMessage) /\ m \in MapMessage
      /\ Len(q) \in Nat \ {0} /\ Len(r) = Len(q) - 1
      /\ m = q[1]
      /\ \A i \in 1 .. Len(q) - 1 : r[i] = q[i + 1]
      /\ \A i \in 1 .. Len(q) : i = 1 \/ (i - 1 \in 1 .. Len(r) /\ q[i] = r[i - 1])
  BY <1>1, Queue
<1>3. m.key \in Key /\ m.version \in Nat
  BY <1>2 DEF MapMessage
<1>4. /\ pendingForAck' = IF pendingForAck[m.key] = m.version
                          THEN [pendingForAck EXCEPT ![m.key] = 0] ELSE pendingForAck
      /\ mapInbox' = [mapInbox EXCEPT !["master"] = r]
      /\ UNCHANGED <<items, nextVersion, hurried, changes>>
  BY DEF MasterReceiveAck
<1> HIDE DEF r, m
<1>5. mapInbox'["slave"] = mapInbox["slave"] /\ mapInbox'["master"] = r
  BY <1>1, <1>4 DEF MapTypeOK, MapEnd
<1>6. MapTypeOK'
  <2>1. pendingForAck' \in [Key -> 0 .. MaxChanges]
    <3>1. 0 \in 0 .. MaxChanges
      BY MapAssumption
    <3>2. pendingForAck \in [Key -> 0 .. MaxChanges]
      BY <1>1 DEF MapTypeOK
    <3> QED
      BY <1>4, <3>1, <3>2
  <2>2. mapInbox' \in [MapEnd -> Seq(MapMessage)]
    BY <1>1, <1>2, <1>4 DEF MapTypeOK, MapEnd
  <2> QED
    BY <1>1, <1>4, <2>1, <2>2 DEF MapTypeOK
<1>7. Versioned'
  <2>1. \A i \in 1 .. Len(q) : q[i].op = "change" => q[i].version = 0
    BY DEF MapInv, Versioned
  <2> HIDE DEF q
  <2>2. ASSUME NEW i \in 1 .. Len(r) PROVE r[i].op = "change" => r[i].version = 0
    <3>1. i + 1 \in 1 .. Len(q) /\ r[i] = q[i + 1]
      BY <1>2
    <3> QED
      BY <2>1, <3>1
  <2> QED
    BY <1>4, <1>5, <2>2 DEF MapInv, Versioned
<1>8. NoKeyLocked'
  <2> SUFFICES ASSUME NEW l \in Key, pendingForAck'[l] # 0
               PROVE  UnderWay(l, pendingForAck[l])'
    BY <1>1, <1>4, MapAssumption, Zenon DEF NoKeyLocked, UnderWay, MapEnd
  <2>1. pendingForAck'[l] = pendingForAck[l] /\ ~(l = m.key /\ pendingForAck[l] = m.version)
    BY <1>1, <1>4 DEF MapTypeOK
  <2>2. UnderWay(l, pendingForAck[l])
    BY <2>1, NotLocked DEF MapInv
  <2>3. \A i \in 1 .. Len(q) : (q[i].key = l /\ q[i].version = pendingForAck[l]) =>
            i - 1 \in 1 .. Len(r) /\ q[i] = r[i - 1]
    BY <1>2, <2>1
  <2> QED
    BY <1>5, <2>1, <2>2, <2>3 DEF UnderWay
<1>9. KeysSettled'
  <2> SUFFICES ASSUME NEW l \in Key \ hurried
               PROVE  Settled(mapInbox["slave"], r, l, pendingForAck'[l], items["slave"][l], items["master"][l])
    BY <1>4, <1>5 DEF KeysSettled
  <2>1. Settled(mapInbox["slave"], q, l, pendingForAck[l], items["slave"][l], items["master"][l])
    BY DEF MapInv, KeysSettled
  <2>2. CASE l = m.key
    <3>1. IsAckOf(m, l)
      BY <1>1, <2>2 DEF IsAckOf, m
    <3>2. m.version = pendingForAck[l] /\ Settled(mapInbox["slave"], r, l, 0, items["slave"][l], items["master"][l])
      BY <1>1, <2>1, <3>1, MasterIsAcknowledged DEF m, r
    <3>3. pendingForAck'[l] = 0
      BY <1>1, <1>4, <2>2, <3>2 DEF MapTypeOK
    <3> QED
      BY <3>2, <3>3
  <2>3. CASE l # m.key
    <3>1. pendingForAck'[l] = pendingForAck[l]
      BY <1>1, <1>4, <2>3 DEF MapTypeOK
    <3> QED
      BY <1>1, <2>1, <2>3, <3>1, MasterTailOther DEF m, r
  <2> QED
    BY <2>2, <2>3
<1> QED
  BY <1>6, <1>7, <1>8, <1>9 DEF MapInv

LEMMA MapStepInv == MapInv /\ [MapNext]_mapVars => MapInv'
<1> SUFFICES ASSUME MapInv, [MapNext]_mapVars PROVE MapInv'
  OBVIOUS
<1>1. CASE MapNext
  BY <1>1, MasterSetKeeps, SlaveSetKeeps, SlaveReceiveKeeps, MasterReceiveChangeKeeps,
     MasterReceiveAckKeeps DEF MapNext
<1>2. CASE UNCHANGED mapVars
  <2>1. MapTypeOK' /\ Versioned'
    BY <1>2 DEF mapVars, MapInv, MapTypeOK, Versioned
  <2>2. NoKeyLocked' /\ KeysSettled'
    BY <1>2 DEF mapVars, MapInv, NoKeyLocked, KeysSettled
  <2> QED
    BY <2>1, <2>2 DEF MapInv
<1> QED
  BY <1>1, <1>2

----------------------------------------------------------------------------

\* MapInv holds in every state of the map, for all keys, items and bounds.
THEOREM MapInvariance == MapSpec => []MapInv
BY MapInitInv, MapStepInv, PTL DEF MapSpec

\* What the master waits for is always on its way (RdMap.h:116, 178): no key stays closed to
\* the slave.
THEOREM NeverLocked == MapSpec => []NoKeyLocked
<1>1. MapInv => NoKeyLocked
  BY DEF MapInv
<1> QED
  BY <1>1, MapInvariance, PTL

\* Both ends agree on a key about which nothing is under way, unless the master changed it
\* again before its last change was acknowledged (RdMap.h:208: the master refuses what the
\* slave says of a key that is pending).
THEOREM MapEndsAgree == MapSpec => []MapsAgree
<1>1. MapInv => MapsAgree
  <2> SUFFICES ASSUME MapInv, NEW k \in Key \ hurried, MessagesFor(k) = {}
               PROVE  items["master"][k] = items["slave"][k]
    BY DEF MapsAgree
  <2> DEFINE s == mapInbox["slave"]
             q == mapInbox["master"]
  <2>1. /\ \A i \in 1 .. Len(s) : s[i].key # k
        /\ \A i \in 1 .. Len(q) : q[i].key # k
    BY Zenon DEF MessagesFor, MapEnd
  <2>2. ~OneChange(s, k, pendingForAck[k], items["master"][k])
    BY <2>1 DEF OneChange
  <2>3. ~OneAck(q, k, pendingForAck[k], items["slave"][k], items["master"][k])
    BY <2>1 DEF OneAck, IsAckOf
  <2>4. LastWord(q, 0, k, items["slave"][k], items["master"][k])
    BY <2>2, <2>3 DEF MapInv, KeysSettled, Settled
  <2> QED
    BY <2>1, <2>4 DEF LastWord, IsChangeOf
<1> QED
  BY <1>1, MapInvariance, PTL

----------------------------------------------------------------------------
(* Both side by side.  RdReactive gives each its own variables, so what holds of one alone
   holds of it there. *)

\* What the property sees of the two is a behaviour of a property alone.
LEMMA PropertyAlone == ReactiveSpec => PropSpec
<1>1. ReactiveInit => PropInit
  BY DEF ReactiveInit
<1>2. [ReactiveNext]_<<propVars, mapVars>> => [PropNext]_propVars
  BY DEF ReactiveNext
<1> QED
  BY <1>1, <1>2, PTL DEF ReactiveSpec, PropSpec

\* What the map sees of the two is a behaviour of a map alone.
LEMMA MapAlone == ReactiveSpec => MapSpec
<1>1. ReactiveInit => MapInit
  BY DEF ReactiveInit
<1>2. [ReactiveNext]_<<propVars, mapVars>> => [MapNext]_mapVars
  BY DEF ReactiveNext
<1> QED
  BY <1>1, <1>2, PTL DEF ReactiveSpec, MapSpec

\* Types are kept, and the counters stay within their bounds: in particular what the master
\* waits for is a version it has given (RdMap.h:116).
THEOREM ReactiveTypeCorrect == ReactiveSpec => []ReactiveTypeOK
<1>1. PropInv /\ MapInv => ReactiveTypeOK
  BY DEF PropInv, MapInv, ReactiveTypeOK
<1> QED
  BY <1>1, PropertyAlone, MapAlone, PropInvariance, MapInvariance, PTL

\* The ends of the property agree whenever nothing is under way (RdPropertyBase.h:107).
THEOREM PropertyAgreement == ReactiveSpec => []PropertyAgrees
BY PropertyAlone, PropEndsAgree, PTL

\* The ends of the map agree on a settled key (RdMap.h:151-240).
THEOREM MapAgreement == ReactiveSpec => []MapsAgree
BY MapAlone, MapEndsAgree, PTL

\* No key stays closed to the slave (RdMap.h:116, :184).
THEOREM NoKeyStaysLocked == ReactiveSpec => []NoKeyLocked
BY MapAlone, NeverLocked, PTL
=============================================================================
