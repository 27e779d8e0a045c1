----------------------------- MODULE RdProperty -----------------------------
(***************************************************************************)
(* RdPropertyBase<T> of the RD framework: one value kept at two ends, each *)
(* of which may set it at any time and tells the other over the wire.  One *)
(* end is the master: its changes are numbered, and it refuses a value     *)
(* that was set without knowledge of its last change.                      *)
(*                                                                         *)
(* The wire keeps the order and loses nothing (Wire.tla).  An end handles  *)
(* what it receives on its scheduler, one message at a time.  Both ends    *)
(* are bound and start from the same value.                                *)
(***************************************************************************)
EXTENDS Integers, Sequences

CONSTANTS
    Value,          \* values of the property
    Default,        \* the one both ends start from
    MaxSets         \* bound: changes made

ASSUME PropertyAssumption == /\ Default \in Value
                             /\ MaxSets \in Nat

VARIABLES
    prop,           \* the property at each end: its value and its master_version
    inbox,          \* what is under way to each end, in order
    sets            \* changes made so far (auxiliary)

propVars == <<prop, inbox, sets>>

End == {"master", "slave"}

Other(e) == IF e = "master" THEN "slave" ELSE "master"

RdPropertyRecord == [value : Value, version : Nat]

PropTypeOK == /\ prop \in [End -> RdPropertyRecord]
              /\ inbox \in [End -> Seq(RdPropertyRecord)]
              /\ sets \in 0 .. MaxSets

PropInit == /\ prop = [e \in End |-> [value |-> Default, version |-> 0]]
            /\ inbox = [e \in End |-> <<>>]
            /\ sets = 0

----------------------------------------------------------------------------

\* The version a local change is sent with.
Numbered(e) == IF e = "master" THEN prop[e].version + 1 ELSE prop[e].version

\* Setting the value it has already is no change: nothing is sent.
Set(e, v) ==
    LET changed == [value |-> v, version |-> Numbered(e)]
    IN  /\ sets < MaxSets
        /\ v # prop[e].value
        /\ prop' = [prop EXCEPT ![e] = changed]
        /\ inbox' = [inbox EXCEPT ![Other(e)] = Append(@, changed)]
        /\ sets' = sets + 1

\* Mutant: the master takes every value it receives.
RejectedNever(e, version) == FALSE

Rejected(e, version) == e = "master" /\ version < prop[e].version

\* on_wire_received; a value that arrives is not sent back.
Receive(e) ==
    LET m == Head(inbox[e])
    IN  /\ inbox[e] # <<>>
        /\ inbox' = [inbox EXCEPT ![e] = Tail(@)]
        /\ prop' = IF Rejected(e, m.version) THEN prop ELSE [prop EXCEPT ![e] = m]
        /\ UNCHANGED sets

PropNext == \E e \in End : Receive(e) \/ \E v \in Value : Set(e, v)

PropSpec == PropInit /\ [][PropNext]_propVars

----------------------------------------------------------------------------
(* Properties. *)

\* Whatever both ends set, in any order and at the same time, they hold the same value as
\* soon as nothing is under way between them.
PropertyAgrees ==
    (\A e \in End : inbox[e] = <<>>) => prop["master"].value = prop["slave"].value

\* The master's last change wins: while it is under way to the slave, the master keeps it,
\* whatever the slave has sent meanwhile.
MasterWins ==
    inbox["slave"] # <<>> =>
        inbox["slave"][Len(inbox["slave"])] = prop["master"]

----------------------------------------------------------------------------
(* The inductive invariant behind them. *)

\* The master's changes arrive with consecutive versions, the last one being its own.
MasterAhead ==
    /\ \A i \in 1 .. Len(inbox["slave"]) : inbox["slave"][i].version = prop["slave"].version + i
    /\ prop["master"].version = prop["slave"].version + Len(inbox["slave"])

\* The slave's changes carry the version it knew then, which never goes back.
SlaveBehind ==
    /\ \A i \in 1 .. Len(inbox["master"]) :
          inbox["master"][i].version <= prop["slave"].version
    /\ \A i, j \in 1 .. Len(inbox["master"]) :
          i <= j => inbox["master"][i].version <= inbox["master"][j].version

\* With none of the master's changes under way, the slave has its last own change, if the
\* master is going to accept that one, and else the master's value.
SlaveKnows ==
    LET toMaster == inbox["master"]
        last == toMaster[Len(toMaster)]
    IN  inbox["slave"] = <<>> =>
            prop["slave"].value =
                IF toMaster # <<>> /\ last.version = prop["slave"].version
                THEN last.value ELSE prop["master"].value

PropInv == PropTypeOK /\ MasterAhead /\ SlaveBehind /\ MasterWins /\ SlaveKnows
=============================================================================
