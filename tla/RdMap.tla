-------------------------------- MODULE RdMap --------------------------------
(***************************************************************************)
(* RdMap<K, V> of the RD framework: a map kept at two ends.  The master's  *)
(* changes carry a version and are acknowledged by the slave; until then   *)
(* the master refuses what the slave says of that key.                     *)
(*                                                                         *)
(* The wire keeps the order and loses nothing (Wire.tla), and both ends    *)
(* are bound and start empty.  remove() on the master is not modelled: it  *)
(* leaves in pendingForAck a pointer to a key that is gone, and what the   *)
(* acknowledgement then finds is undefined.                                *)
(***************************************************************************)
EXTENDS Integers, Sequences

CONSTANTS
    Key, Item,      \* keys and what they map to
    NoItem,         \* not in the map
    MaxChanges      \* bound: changes made

ASSUME MapAssumption == /\ NoItem \notin Item
                        /\ MaxChanges \in Nat

VARIABLES
    items,          \* the map at each end
    nextVersion,    \* the master's next_version
    pendingForAck,  \* the master's pendingForAck; 0: the key is not in it
    mapInbox,       \* what is under way to each end, in order
    hurried,        \* keys the master changed before an earlier change of them was
                    \* acknowledged (auxiliary)
    changes         \* changes made so far (auxiliary)

mapVars == <<items, nextVersion, pendingForAck, mapInbox, hurried, changes>>

MapEnd == {"master", "slave"}

\* A message with an item (or NoItem, for REMOVE) is a change; version 0 is "not versioned".
MapMessage == [op : {"change"}, version : Nat, key : Key, item : Item \cup {NoItem}]
                  \cup [op : {"ack"}, version : Nat, key : Key]

MapTypeOK == /\ items \in [MapEnd -> [Key -> Item \cup {NoItem}]]
             /\ nextVersion \in 0 .. MaxChanges
             /\ pendingForAck \in [Key -> 0 .. MaxChanges]
             /\ mapInbox \in [MapEnd -> Seq(MapMessage)]
             /\ hurried \subseteq Key
             /\ changes \in 0 .. MaxChanges

MapInit == /\ items = [e \in MapEnd |-> [k \in Key |-> NoItem]]
           /\ nextVersion = 0
           /\ pendingForAck = [k \in Key |-> 0]
           /\ mapInbox = [e \in MapEnd |-> <<>>]
           /\ hurried = {}
           /\ changes = 0

----------------------------------------------------------------------------

Sent(inboxes, to, message) == [inboxes EXCEPT ![to] = Append(@, message)]

Change(version, k, x) == [op |-> "change", version |-> version, key |-> k, item |-> x]

\* Mutant: the key waits for the version after the one that was sent.
EmplacedNext(k, version) == IF pendingForAck[k] = 0
                            THEN [pendingForAck EXCEPT ![k] = version + 1] ELSE pendingForAck

\* emplace() adds the key, and leaves a version that is there already as it is.
Emplaced(k, version) == IF pendingForAck[k] = 0
                        THEN [pendingForAck EXCEPT ![k] = version] ELSE pendingForAck

MasterSet(k, x) ==
    /\ changes < MaxChanges
    /\ x # items["master"][k]
    /\ items' = [items EXCEPT !["master"][k] = x]
    /\ nextVersion' = nextVersion + 1
    /\ pendingForAck' = Emplaced(k, nextVersion + 1)
    /\ mapInbox' = Sent(mapInbox, "slave", Change(nextVersion + 1, k, x))
    /\ hurried' = IF pendingForAck[k] = 0 THEN hurried ELSE hurried \cup {k}
    /\ changes' = changes + 1

\* set() and remove(), which is a change to NoItem.
SlaveSet(k, x) ==
    /\ changes < MaxChanges
    /\ x # items["slave"][k]
    /\ items' = [items EXCEPT !["slave"][k] = x]
    /\ mapInbox' = Sent(mapInbox, "master", Change(0, k, x))
    /\ changes' = changes + 1
    /\ UNCHANGED <<nextVersion, pendingForAck, hurried>>

\* Mutant: a change that changes nothing is not acknowledged.
SlaveReceiveQuietly ==
    LET m == Head(mapInbox["slave"])
        rest == [mapInbox EXCEPT !["slave"] = Tail(@)]
    IN  /\ mapInbox["slave"] # <<>>
        /\ items' = [items EXCEPT !["slave"][m.key] = m.item]
        /\ mapInbox' = IF m.item = items["slave"][m.key] THEN rest
                       ELSE Sent(rest, "master", [op |-> "ack", version |-> m.version, key |-> m.key])
        /\ UNCHANGED <<nextVersion, pendingForAck, hurried, changes>>

\* The slave takes every change of the master and acknowledges it.
SlaveReceive ==
    LET m == Head(mapInbox["slave"])
        rest == [mapInbox EXCEPT !["slave"] = Tail(@)]
    IN  /\ mapInbox["slave"] # <<>>
        /\ items' = [items EXCEPT !["slave"][m.key] = m.item]
        /\ mapInbox' = Sent(rest, "master", [op |-> "ack", version |-> m.version, key |-> m.key])
        /\ UNCHANGED <<nextVersion, pendingForAck, hurried, changes>>

\* Mutant: the master takes what the slave says of a key while its own change is pending.
TakenAlways(k) == TRUE

Taken(k) == pendingForAck[k] = 0

MasterReceiveChange ==
    LET m == Head(mapInbox["master"])
    IN  /\ mapInbox["master"] # <<>>
        /\ m.op = "change"
        /\ items' = IF Taken(m.key) THEN [items EXCEPT !["master"][m.key] = m.item] ELSE items
        /\ mapInbox' = [mapInbox EXCEPT !["master"] = Tail(@)]
        /\ UNCHANGED <<nextVersion, pendingForAck, hurried, changes>>

\* An acknowledgement of another version than the pending one changes nothing.
MasterReceiveAck ==
    LET m == Head(mapInbox["master"])
    IN  /\ mapInbox["master"] # <<>>
        /\ m.op = "ack"
        /\ pendingForAck' = IF pendingForAck[m.key] = m.version
                            THEN [pendingForAck EXCEPT ![m.key] = 0] ELSE pendingForAck
        /\ mapInbox' = [mapInbox EXCEPT !["master"] = Tail(@)]
        /\ UNCHANGED <<items, nextVersion, hurried, changes>>

MapNext == \/ \E k \in Key, x \in Item : MasterSet(k, x)
           \/ \E k \in Key, x \in Item \cup {NoItem} : SlaveSet(k, x)
           \/ SlaveReceive
           \/ MasterReceiveChange
           \/ MasterReceiveAck

MapSpec == MapInit /\ [][MapNext]_mapVars

----------------------------------------------------------------------------
(* Properties. *)

MessagesFor(k) == {e \in MapEnd : \E i \in 1 .. Len(mapInbox[e]) : mapInbox[e][i].key = k}

\* Whatever both ends do with a key, they agree on it as soon as nothing about it is under
\* way, unless the master changed it while an earlier change was not yet acknowledged.
MapsAgree == \A k \in Key \ hurried :
    MessagesFor(k) = {} => items["master"][k] = items["slave"][k]

\* No key is closed to the slave for ever: what the master waits for is on its way, as the
\* change to be acknowledged or as its acknowledgement.
NoKeyLocked == \A k \in Key : pendingForAck[k] # 0 =>
    \E e \in MapEnd : \E i \in 1 .. Len(mapInbox[e]) :
        mapInbox[e][i].key = k /\ mapInbox[e][i].version = pendingForAck[k]

----------------------------------------------------------------------------
(* The inductive invariant behind them. *)

IsAckOf(m, k) == m.key = k /\ m.op = "ack"

IsChangeOf(m, k) == m.key = k /\ m.op = "change"

SilentOn(q, k) == \A i \in 1 .. Len(q) : q[i].key # k

NoAckOf(q, k) == \A i \in 1 .. Len(q) : ~IsAckOf(q[i], k)

\* The slave has the item x of the last change it sent after the one at p of its queue to the
\* master, and what the master has, y, if it sent none.
LastWord(q, p, k, x, y) ==
    /\ (\A i \in 1 .. Len(q) : i > p => ~IsChangeOf(q[i], k)) => x = y
    /\ \A i \in 1 .. Len(q) :
          (i > p /\ IsChangeOf(q[i], k) /\ \A j \in 1 .. Len(q) : j > i => ~IsChangeOf(q[j], k))
              => x = q[i].item

\* One change of the key is on its way to the slave, version v to the item y.
OneChange(q, k, v, y) == \E i \in 1 .. Len(q) :
    /\ q[i].key = k /\ q[i].version = v /\ q[i].item = y
    /\ \A j \in 1 .. Len(q) : q[j].key = k => j = i

\* One acknowledgement is on its way to the master; what the slave sent after it will count.
OneAck(q, k, v, x, y) == \E p \in 1 .. Len(q) :
    /\ IsAckOf(q[p], k) /\ q[p].version = v
    /\ \A j \in 1 .. Len(q) : IsAckOf(q[j], k) => j = p
    /\ LastWord(q, p, k, x, y)

\* What the ends, with the queues s to the slave and q to the master, know of a key whose
\* pending version is v; x is the slave's item and y the master's.
Settled(s, q, k, v, x, y) ==
    \/ v = 0 /\ SilentOn(s, k) /\ NoAckOf(q, k) /\ LastWord(q, 0, k, x, y)
    \/ v # 0 /\ OneChange(s, k, v, y) /\ NoAckOf(q, k)
    \/ v # 0 /\ SilentOn(s, k) /\ OneAck(q, k, v, x, y)

KeysSettled == \A k \in Key \ hurried :
    Settled(mapInbox["slave"], mapInbox["master"], k, pendingForAck[k],
            items["slave"][k], items["master"][k])

\* Only the master's changes have versions.
Versioned ==
    /\ nextVersion <= changes
    /\ \A i \in 1 .. Len(mapInbox["slave"]) :
          mapInbox["slave"][i].op = "change" /\ mapInbox["slave"][i].version # 0
    /\ \A i \in 1 .. Len(mapInbox["master"]) :
          mapInbox["master"][i].op = "change" => mapInbox["master"][i].version = 0

MapInv == MapTypeOK /\ Versioned /\ NoKeyLocked /\ KeysSettled

----------------------------------------------------------------------------
(* What the error messages say. *)

\* "No pending for ACK" and "Pending version < ACK version" (RdMap.h:169, 184) are reported
\* as errors: an acknowledgement finds its key pending, with its own or a later version.
AcksExpected ==
    mapInbox["master"] # <<>> =>
        LET m == Head(mapInbox["master"])
        IN  m.op = "ack" => pendingForAck[m.key] # 0 /\ pendingForAck[m.key] >= m.version
=============================================================================
