----------------------------- MODULE WireProofs -----------------------------
(***************************************************************************)
(* The sender's end of the wire keeps its messages in order, and until the *)
(* async thread writes to a connection ahead of resume(), nothing is lost  *)
(* and nothing overtakes: for any number of messages and of broken         *)
(* connections.                                                            *)
(***************************************************************************)
EXTENDS Wire, SequenceTheorems, TLAPS

----------------------------------------------------------------------------
(* Sequences. *)

LEMMA Appended ==
    ASSUME NEW S, NEW q \in Seq(S), NEW m \in S
    PROVE  /\ Append(q, m) \in Seq(S)
           /\ Len(q) \in Nat /\ Len(Append(q, m)) = Len(q) + 1
           /\ \A i \in 1 .. Len(q) : Append(q, m)[i] = q[i]
           /\ Append(q, m)[Len(q) + 1] = m
           /\ \A i \in 1 .. Len(q) + 1 : i \in 1 .. Len(q) \/ i = Len(q) + 1
OBVIOUS

LEMMA Tailed ==
    ASSUME NEW S, NEW q \in Seq(S), q # <<>>
    PROVE  /\ Tail(q) \in Seq(S) /\ Head(q) \in S
           /\ Len(q) \in Nat \ {0} /\ Len(Tail(q)) = Len(q) - 1
           /\ Head(q) = q[1]
           /\ \A i \in 1 .. Len(q) - 1 : i + 1 \in 1 .. Len(q) /\ Tail(q)[i] = q[i + 1]
OBVIOUS

\* A sequence is empty just when it has no length.
LEMMA Empty ==
    ASSUME NEW S, NEW q \in Seq(S)
    PROVE  Len(q) \in Nat /\ (q = <<>> <=> Len(q) = 0)
OBVIOUS

LEMMA Cut ==
    ASSUME NEW S, NEW q \in Seq(S), NEW r \in Prefixes(q)
    PROVE  /\ r \in Seq(S) /\ Len(r) \in Nat /\ Len(r) <= Len(q)
           /\ \A i \in 1 .. Len(r) : i \in 1 .. Len(q) /\ r[i] = q[i]
<1>1. PICK n \in 0 .. Len(q) : r = SubSeq(q, 1, n)
  BY DEF Prefixes
<1>2. Len(q) \in Nat
  OBVIOUS
<1>3. 1 \in 1 .. Len(q) + 1 /\ n \in 1 - 1 .. Len(q)
  BY <1>2
<1>4. SubSeq(q, 1, n) \in Seq(S) /\ Len(SubSeq(q, 1, n)) = n
      /\ \A i \in 1 .. n : SubSeq(q, 1, n)[i] = q[i]
  BY <1>2, <1>3
<1> QED
  BY <1>1, <1>2, <1>4

LEMMA Joined ==
    ASSUME NEW S, NEW q \in Seq(S), NEW r \in Seq(S)
    PROVE  /\ q \o r \in Seq(S) /\ Len(q) \in Nat /\ Len(r) \in Nat
           /\ Len(q \o r) = Len(q) + Len(r)
           /\ \A i \in 1 .. Len(q) : (q \o r)[i] = q[i]
           /\ \A i \in 1 .. Len(r) : (q \o r)[Len(q) + i] = r[i]
<1>1. /\ q \o r \in Seq(S) /\ Len(q \o r) = Len(q) + Len(r)
      /\ \A i \in 1 .. Len(q) + Len(r) :
            (q \o r)[i] = IF i <= Len(q) THEN q[i] ELSE r[i - Len(q)]
  BY ConcatProperties
<1>2. Len(q) \in Nat /\ Len(r) \in Nat
  OBVIOUS
<1> QED
  BY <1>1, <1>2

LEMMA Kept ==
    ASSUME NEW S, NEW q \in Seq(S), NEW k \in Nat, k <= Len(q)
    PROVE  /\ SubSeq(q, k + 1, Len(q)) \in Seq(S)
           /\ Len(q) \in Nat /\ Len(SubSeq(q, k + 1, Len(q))) = Len(q) - k
           /\ \A i \in 1 .. Len(q) - k : /\ k + i \in 1 .. Len(q)
                                       /\ SubSeq(q, k + 1, Len(q))[i] = q[k + i]
<1>1. Len(q) \in Nat /\ k + 1 \in 1 .. Len(q) + 1 /\ Len(q) \in k .. Len(q)
  OBVIOUS
<1> QED
  BY <1>1, SubSeqProperties

LEMMA RowJoined ==
    ASSUME NEW S, NEW q \in Seq(S), NEW r \in Seq(S), NEW first \in Int,
           InARowFrom(q, first), InARowFrom(r, first + Len(q))
    PROVE  InARowFrom(q \o r, first)
<1>1. Len(q) \in Nat /\ Len(r) \in Nat /\ Len(q \o r) = Len(q) + Len(r)
  BY Joined
<1> SUFFICES ASSUME NEW i \in 1 .. Len(q) + Len(r)
             PROVE  (q \o r)[i] = first + i - 1
  BY <1>1 DEF InARowFrom
<1>2. CASE i <= Len(q)
  <2>1. i \in 1 .. Len(q) /\ (q \o r)[i] = q[i]
    BY <1>1, <1>2, Joined
  <2> QED
    BY <2>1 DEF InARowFrom
<1>3. CASE i > Len(q)
  <2>1. i - Len(q) \in 1 .. Len(r) /\ Len(q) + (i - Len(q)) = i
    BY <1>1, <1>3
  <2>2. (q \o r)[i] = r[i - Len(q)]
    BY <2>1, Joined
  <2>3. r[i - Len(q)] = first + Len(q) + (i - Len(q)) - 1
    BY <2>1 DEF InARowFrom
  <2> QED
    BY <1>1, <2>2, <2>3
<1> QED
  BY <1>1, <1>2, <1>3

LEMMA RowAppended ==
    ASSUME NEW S, NEW q \in Seq(S), NEW first \in Int, NEW m \in S,
           InARowFrom(q, first), m = first + Len(q)
    PROVE  InARowFrom(Append(q, m), first)
BY Appended, SMTT(30) DEF InARowFrom

LEMMA RowTailed ==
    ASSUME NEW S, NEW q \in Seq(S), NEW first \in Int, InARowFrom(q, first), q # <<>>
    PROVE  Head(q) = first /\ InARowFrom(Tail(q), first + 1)
BY Tailed DEF InARowFrom

LEMMA RowKept ==
    ASSUME NEW S, NEW q \in Seq(S), NEW first \in Int, NEW k \in Nat, k <= Len(q),
           InARowFrom(q, first)
    PROVE  InARowFrom(SubSeq(q, k + 1, Len(q)), first + k)
<1> DEFINE kept == SubSeq(q, k + 1, Len(q))
<1>1. Len(q) \in Nat /\ Len(kept) = Len(q) - k
  BY Kept
<1> SUFFICES ASSUME NEW i \in 1 .. Len(q) - k
             PROVE  kept[i] = first + k + i - 1
  BY <1>1 DEF InARowFrom
<1>2. k + i \in 1 .. Len(q) /\ kept[i] = q[k + i]
  BY Kept
<1>3. q[k + i] = first + (k + i) - 1
  BY <1>2 DEF InARowFrom
<1> HIDE DEF kept
<1> QED
  BY <1>1, <1>2, <1>3

LEMMA RowCut ==
    ASSUME NEW S, NEW q \in Seq(S), NEW first \in Int, NEW r \in Prefixes(q),
           InARowFrom(q, first)
    PROVE  InARowFrom(r, first)
BY Cut DEF InARowFrom

----------------------------------------------------------------------------
(* The sender. *)

LEMMA Types ==
    ASSUME WireTypeOK
    PROVE  /\ put \in Nat
           /\ data \in Seq(Message) /\ queue \in Seq(Message) /\ pending \in Seq(Message)
           /\ Len(data) \in Nat /\ Len(queue) \in Nat /\ Len(pending) \in Nat
           /\ seqn.maxSent \in Nat /\ seqn.current \in Nat \ {0} /\ seqn.acked \in Nat
           /\ net \in Seq(Package) /\ acks \in Seq(1 .. MaxPut)
           /\ Len(net) \in Nat /\ Len(acks) \in Nat
           /\ rcv.max \in Nat /\ rcv.delivered \in Seq(Message)
           /\ MaxPut \in Nat /\ MaxBreaks \in Nat
<1>1. MaxPut \in Nat /\ MaxBreaks \in Nat
  BY WireAssumption
<1>2. /\ seqn.maxSent \in 0 .. MaxPut /\ seqn.current \in 1 .. MaxPut + 1
      /\ seqn.acked \in 0 .. MaxPut /\ put \in 0 .. MaxPut
      /\ rcv.max \in 0 .. MaxPut /\ rcv.delivered \in Seq(Message)
  BY DEF WireTypeOK
<1>3. /\ data \in Seq(Message) /\ queue \in Seq(Message) /\ pending \in Seq(Message)
      /\ net \in Seq(Package) /\ acks \in Seq(1 .. MaxPut)
  BY DEF WireTypeOK
<1>4. /\ Len(data) \in Nat /\ Len(queue) \in Nat /\ Len(pending) \in Nat
      /\ Len(net) \in Nat /\ Len(acks) \in Nat
  BY <1>3
<1> QED
  BY <1>1, <1>2, <1>3, <1>4


\* The sender's counters, in their order.
LEMMA Counters ==
    ASSUME SenderInv
    PROVE  /\ seqn.current - 1 <= seqn.acked /\ seqn.acked <= seqn.maxSent
           /\ seqn.maxSent <= put /\ put <= MaxPut
           /\ seqn.maxSent \in Nat /\ seqn.current \in Nat \ {0} /\ seqn.acked \in Nat
           /\ seqn = [maxSent |-> seqn.maxSent, current |-> seqn.current, acked |-> seqn.acked]
           /\ put \in Nat /\ MaxPut \in Nat
<1>1. put \in 0 .. MaxPut /\ seqn = [maxSent |-> seqn.maxSent, current |-> seqn.current,
                                   acked |-> seqn.acked]
  BY DEF SenderInv, WireTypeOK
<1> QED
  BY <1>1, Types DEF SenderInv, SenderSound

LEMMA Lengths ==
    ASSUME SenderInv
    PROVE  /\ Len(data) \in Nat /\ Len(queue) \in Nat /\ Len(pending) \in Nat
           /\ Len(net) \in Nat /\ Len(acks) \in Nat
           /\ Len(pending) = seqn.maxSent - seqn.current + 1
           /\ seqn.maxSent + Len(queue) + Len(data) = put
BY Types DEF SenderInv, SenderKeepsOrder

\* Packages with the messages kept, under the numbers they were sent with.
LEMMA ResentSound ==
    ASSUME NEW kept \in Seq(Message), NEW first \in Nat, InARowFrom(kept, first)
    PROVE  /\ Resent(kept, first) \in Seq(Package)
           /\ Len(Resent(kept, first)) = Len(kept)
           /\ \A i \in 1 .. Len(kept) : /\ Resent(kept, first)[i].seqn = first + i - 1
                                        /\ Resent(kept, first)[i].msg = first + i - 1
<1>1. Len(kept) \in Nat /\ \A i \in 1 .. Len(kept) : kept[i] \in Message
  OBVIOUS
<1>2. \A i \in 1 .. Len(kept) : [seqn |-> first + i - 1, msg |-> kept[i]] \in Package
  BY <1>1 DEF Package
<1>3. /\ [i \in 1 .. Len(kept) |-> [seqn |-> first + i - 1, msg |-> kept[i]]] \in Seq(Package)
      /\ Len([i \in 1 .. Len(kept) |-> [seqn |-> first + i - 1, msg |-> kept[i]]]) = Len(kept)
  BY <1>1, <1>2, IsASeq
<1> QED
  BY <1>3 DEF Resent, InARowFrom

\* Types of what is under way.
LEMMA UnderWay ==
    ASSUME WireTypeOK
    PROVE  /\ \A i \in 1 .. Len(net) : net[i].seqn \in Nat /\ net[i].msg \in Message
           /\ \A i \in 1 .. Len(acks) : acks[i] \in 1 .. MaxPut /\ acks[i] \in Nat
<1>1. net \in Seq(Package) /\ acks \in Seq(1 .. MaxPut) /\ MaxPut \in Nat
  BY Types
<1>2. \A i \in 1 .. Len(net) : net[i] \in Package
  BY <1>1
<1>3. \A i \in 1 .. Len(acks) : acks[i] \in 1 .. MaxPut
  BY <1>1
<1> QED
  BY <1>1, <1>2, <1>3 DEF Package

LEMMA InitSender == WireInit => SenderInv
<1> SUFFICES ASSUME WireInit PROVE SenderInv
  OBVIOUS
<1>1. MaxPut \in Nat /\ MaxBreaks \in Nat
  BY WireAssumption
<1>2. <<>> \in Seq(Message) /\ <<>> \in Seq(Package) /\ <<>> \in Seq(1 .. MaxPut) /\ Len(<<>>) = 0
  OBVIOUS
<1>3. WireTypeOK
  <2>1. ahead \in BOOLEAN
    BY DEF WireInit
  <2> QED
    BY <1>1, <1>2, <2>1 DEF WireInit, WireTypeOK
<1>4. SenderKeepsOrder
  BY <1>2 DEF WireInit, SenderKeepsOrder, InARowFrom
<1>5. SenderSound
  BY <1>2 DEF WireInit, SenderSound
<1> QED
  BY <1>3, <1>4, <1>5 DEF SenderInv

LEMMA PutSender ==
    ASSUME SenderInv, Put
    PROVE  SenderInv'
<1> USE DEF SenderInv
<1>1. put + 1 \in Message /\ put + 1 = seqn.maxSent + Len(queue) + 1 + Len(data)
  BY Counters, Lengths, SMTT(30) DEF Put, Message
<1>2. WireTypeOK'
  BY <1>1, Appended, Types DEF Put, WireTypeOK
<1>3. InARowFrom(data', seqn.maxSent + Len(queue) + 1) /\ Len(data') = Len(data) + 1
  <2>1. data \in Seq(Message) /\ seqn.maxSent + Len(queue) + 1 \in Int
    BY Types
  <2>2. InARowFrom(data, seqn.maxSent + Len(queue) + 1)
    BY DEF SenderKeepsOrder
  <2> QED
    BY <1>1, <2>1, <2>2, RowAppended, Appended DEF Put
<1>4. SenderKeepsOrder'
  <2>1. seqn.maxSent + Len(queue) + Len(data') = put'
    <3>1. put' = put + 1 /\ Len(data') = Len(data) + 1
      BY <1>3 DEF Put
    <3>2. /\ seqn.maxSent \in Nat /\ Len(queue) \in Nat /\ Len(data) \in Nat
          /\ seqn.maxSent + Len(queue) + Len(data) = put
      BY Counters, Lengths
    <3> HIDE DEF SenderInv
    <3> QED
      BY <3>1, <3>2
  <2>2. seqn' = seqn /\ queue' = queue /\ pending' = pending
    BY DEF Put
  <2>3. /\ InARowFrom(pending', seqn'.current) /\ InARowFrom(queue', seqn'.maxSent + 1)
        /\ InARowFrom(data', seqn'.maxSent + Len(queue') + 1)
    BY <1>3, <2>2 DEF SenderKeepsOrder
  <2>4. Len(pending') = seqn'.maxSent - seqn'.current + 1
    BY <2>2 DEF SenderKeepsOrder
  <2> QED
    BY <2>1, <2>2, <2>3, <2>4 DEF SenderKeepsOrder
<1>5. SenderSound'
  BY Counters DEF Put, SenderSound
<1> QED
  BY <1>2, <1>4, <1>5

LEMMA TakeSender ==
    ASSUME SenderInv, Take
    PROVE  SenderInv'
<1> USE DEF SenderInv
<1>1. /\ queue \o data \in Seq(Message) /\ Len(queue \o data) = Len(queue) + Len(data)
      /\ <<>> \in Seq(Message) /\ Len(<<>>) = 0
  BY Joined, Types
<1>2. WireTypeOK'
  BY <1>1 DEF Take, WireTypeOK
<1>3. InARowFrom(queue \o data, seqn.maxSent + 1)
  <2>1. /\ InARowFrom(queue, seqn.maxSent + 1)
        /\ InARowFrom(data, seqn.maxSent + 1 + Len(queue))
    BY Counters, Lengths DEF SenderKeepsOrder, InARowFrom
  <2>2. queue \in Seq(Message) /\ data \in Seq(Message) /\ seqn.maxSent + 1 \in Int
    BY Types
  <2> QED
    BY <2>1, <2>2, RowJoined
<1>4. SenderKeepsOrder'
  <2>1. seqn.maxSent + Len(queue') + Len(data') = put
    BY <1>1, Counters, Lengths DEF Take
  <2>2. InARowFrom(queue', seqn.maxSent + 1)
    BY <1>3 DEF Take
  <2>3. InARowFrom(data', seqn.maxSent + Len(queue') + 1)
    BY <1>1 DEF Take, InARowFrom
  <2> QED
    BY <2>1, <2>2, <2>3 DEF Take, SenderKeepsOrder, InARowFrom
<1>5. SenderSound'
  BY DEF Take, SenderSound
<1> QED
  BY <1>2, <1>4, <1>5

\* Process, SendFails and Processed only move the thread.
LEMMA ThreadSender ==
    ASSUME SenderInv, Process \/ SendFails \/ Processed
    PROVE  SenderInv'
<1>1. /\ thread' \in {"idle", "sending"}
      /\ UNCHANGED <<put, data, queue, pending, seqn, paused, conn, breaks, net, acks, rcv, ahead>>
  BY DEF Process, SendFails, Processed
<1>2. WireTypeOK'
  BY <1>1 DEF SenderInv, WireTypeOK
<1>3. SenderKeepsOrder' /\ SenderSound'
  BY <1>1 DEF SenderInv, SenderKeepsOrder, SenderSound, InARowFrom
<1> QED
  BY <1>2, <1>3 DEF SenderInv

\* What is written to a connection is one of its old packages or one of the new.
LEMMA TransmittedSound ==
    ASSUME net \in Seq(Package), NEW more \in Seq(Package), NEW bound \in Nat,
           \A i \in 1 .. Len(net) : net[i].msg = net[i].seqn /\ net[i].seqn <= bound,
           \A i \in 1 .. Len(more) : more[i].msg = more[i].seqn /\ more[i].seqn <= bound
    PROVE  /\ Transmitted(more) \in Seq(Package)
           /\ \A i \in 1 .. Len(Transmitted(more)) :
                 /\ Transmitted(more)[i].msg = Transmitted(more)[i].seqn
                 /\ Transmitted(more)[i].seqn <= bound
<1>1. CASE ~conn.alive
  BY <1>1 DEF Transmitted
<1>2. CASE conn.alive
  <2>1. Transmitted(more) = net \o more
    BY <1>2 DEF Transmitted
  <2>2. /\ net \o more \in Seq(Package) /\ Len(net \o more) = Len(net) + Len(more)
        /\ Len(net) \in Nat /\ Len(more) \in Nat
    BY Joined
  <2>3. ASSUME NEW i \in 1 .. Len(net) + Len(more)
        PROVE  (net \o more)[i].msg = (net \o more)[i].seqn /\ (net \o more)[i].seqn <= bound
    <3>1. CASE i <= Len(net)
      <4>1. i \in 1 .. Len(net) /\ (net \o more)[i] = net[i]
        BY <2>2, <3>1, Joined
      <4> QED
        BY <4>1
    <3>2. CASE i > Len(net)
      <4>1. i - Len(net) \in 1 .. Len(more) /\ Len(net) + (i - Len(net)) = i
        BY <2>2, <3>2
      <4>2. (net \o more)[i] = more[i - Len(net)]
        BY <4>1, Joined
      <4> QED
        BY <4>1, <4>2
    <3> QED
      BY <2>2, <3>1, <3>2
  <2> QED
    BY <2>1, <2>2, <2>3
<1> QED
  BY <1>1, <1>2

LEMMA SendFirstSender ==
    ASSUME SenderInv, SendFirst
    PROVE  SenderInv'
<1> USE DEF SenderInv
<1> DEFINE n == seqn.maxSent + 1
           package == [seqn |-> n, msg |-> Head(queue)]
<1>1. queue \in Seq(Message) /\ queue # <<>> /\ pending \in Seq(Message) /\ seqn.current \in Int
  BY Types DEF SendFirst
<1>2. /\ Head(queue) = n /\ InARowFrom(Tail(queue), n + 1)
      /\ Head(queue) \in Message /\ Tail(queue) \in Seq(Message)
      /\ Len(queue) \in Nat \ {0} /\ Len(Tail(queue)) = Len(queue) - 1
  <2>1. InARowFrom(queue, n) /\ n \in Int
    BY Counters DEF SenderKeepsOrder
  <2> QED
    BY <1>1, <2>1, RowTailed, Tailed
<1>3. n \in Nat /\ n <= put /\ n \in 0 .. MaxPut
  <2>1. seqn.maxSent \in Nat /\ put \in Nat /\ MaxPut \in Nat /\ put <= MaxPut
    BY Counters
  <2>2. seqn.maxSent + Len(queue) <= put
    BY <2>1, Lengths
  <2>3. n <= put
    BY <1>2, <2>1, <2>2
  <2> QED
    BY <2>1, <2>3
<1>4. /\ seqn'.maxSent = n /\ seqn'.current = seqn.current /\ seqn'.acked = seqn.acked
      /\ seqn' = [maxSent |-> n, current |-> seqn.current, acked |-> seqn.acked]
  BY Counters DEF SendFirst
<1>5. /\ Append(pending, n) \in Seq(Message) /\ Len(Append(pending, n)) = Len(pending) + 1
      /\ InARowFrom(Append(pending, n), seqn.current)
  <2>1. n \in Message /\ n = seqn.current + Len(pending)
    BY <1>2, Counters, Lengths
  <2>2. InARowFrom(pending, seqn.current)
    BY DEF SenderKeepsOrder
  <2> QED
    BY <1>1, <2>1, <2>2, Appended, RowAppended
<1>6. /\ net' \in Seq(Package)
      /\ \A i \in 1 .. Len(net') : net'[i].msg = net'[i].seqn /\ net'[i].seqn <= n
  <2>1. package \in Package /\ package.seqn = n /\ package.msg = n
    BY <1>2, <1>3 DEF Package
  <2>2. <<package>> \in Seq(Package) /\ Len(<<package>>) = 1 /\ <<package>>[1] = package
    BY <2>1
  <2>3. \A i \in 1 .. Len(<<package>>) :
            <<package>>[i].msg = <<package>>[i].seqn /\ <<package>>[i].seqn <= n
    BY <1>3, <2>1, <2>2
  <2>4. net \in Seq(Package)
        /\ \A i \in 1 .. Len(net) : net[i].msg = net[i].seqn /\ net[i].seqn <= n
    <3>1. seqn.maxSent \in Nat /\ net \in Seq(Package)
      BY Types
    <3> QED
      BY <3>1, UnderWay DEF SenderSound
  <2> HIDE DEF package, n
  <2>5. net' = Transmitted(<<package>>)
    BY DEF SendFirst, package, n
  <2> QED
    BY <1>3, <2>2, <2>3, <2>4, <2>5, TransmittedSound
<1> HIDE DEF n, package
<1>7. WireTypeOK'
  <2>1. seqn' \in [maxSent : 0 .. MaxPut, current : 1 .. MaxPut + 1, acked : 0 .. MaxPut]
    BY <1>3, <1>4 DEF WireTypeOK
  <2>2. ahead' \in BOOLEAN
    BY DEF SendFirst
  <2> QED
    BY <1>2, <1>5, <1>6, <2>1, <2>2 DEF SendFirst, WireTypeOK
<1>8. SenderKeepsOrder'
  <2>1. Len(pending') = seqn'.maxSent - seqn'.current + 1
    BY <1>2, <1>4, <1>5, Counters, Lengths, SMTT(30) DEF SendFirst, n
  <2>2. seqn'.maxSent + Len(queue') + Len(data') = put'
    BY <1>2, <1>4, Counters, Lengths DEF SendFirst, n
  <2>3. InARowFrom(data', seqn'.maxSent + Len(queue') + 1)
    <3>1. seqn'.maxSent + Len(queue') + 1 = seqn.maxSent + Len(queue) + 1
      BY <1>2, <1>4, Counters, Lengths DEF SendFirst, n
    <3> QED
      BY <3>1 DEF SendFirst, SenderKeepsOrder
  <2>4. InARowFrom(queue', seqn'.maxSent + 1) /\ InARowFrom(pending', seqn'.current)
    BY <1>2, <1>4, <1>5 DEF SendFirst
  <2> QED
    BY <2>1, <2>2, <2>3, <2>4 DEF SenderKeepsOrder, InARowFrom
<1>9. SenderSound'
  <2>1. /\ seqn'.current - 1 <= seqn'.acked /\ seqn'.acked <= seqn'.maxSent
        /\ seqn'.maxSent <= put' /\ rcv'.max <= seqn'.maxSent
    BY <1>3, <1>4, Counters, Types, SMTT(30) DEF SendFirst, SenderSound, n
  <2>2. \A i \in 1 .. Len(acks) : acks[i] \in Nat /\ acks[i] <= n
    BY UnderWay, Counters DEF SenderSound, n
  <2> QED
    BY <1>4, <1>6, <2>1, <2>2 DEF SendFirst, SenderSound
<1> QED
  BY <1>7, <1>8, <1>9

LEMMA AttachSender ==
    ASSUME SenderInv, Attach
    PROVE  SenderInv'
<1>1. WireTypeOK'
  BY DEF SenderInv, Attach, procVars, WireTypeOK
<1>2. SenderKeepsOrder' /\ SenderSound'
  BY DEF SenderInv, Attach, procVars, SenderKeepsOrder, SenderSound, InARowFrom
<1> QED
  BY <1>1, <1>2 DEF SenderInv

LEMMA ResumeSender ==
    ASSUME SenderInv, Resume
    PROVE  SenderInv'
<1> USE DEF SenderInv
<1> DEFINE k == seqn.acked + 1 - seqn.current
           kept == SubSeq(pending, k + 1, Len(pending))
           first == seqn.acked + 1
<1>1. /\ pending' = kept
      /\ seqn' = [seqn EXCEPT !.current = first]
      /\ net' = Transmitted(Resent(kept, first))
      /\ paused' = paused - 1
      /\ conn' = [conn EXCEPT !.stage = "up"]
      /\ conn.stage = "attached" /\ thread # "sending"
      /\ UNCHANGED <<put, data, queue, thread, breaks, acks, rcv, ahead>>
  <2>1. seqn.acked - seqn.current + 2 = k + 1
    BY Counters
  <2> HIDE DEF k
  <2> QED
    BY <2>1 DEF Resume, DroppedUpTo, Resumed
<1>2. k \in Nat /\ k <= Len(pending) /\ first = seqn.current + k /\ first \in Nat
  BY Counters, Lengths, SMTT(30)
<1>3. pending \in Seq(Message) /\ seqn.current \in Int /\ InARowFrom(pending, seqn.current)
  BY Types DEF SenderKeepsOrder
<1> HIDE DEF k, first
<1>4. /\ kept \in Seq(Message) /\ Len(kept) = Len(pending) - k
      /\ InARowFrom(kept, first)
  <2>1. InARowFrom(kept, seqn.current + k)
    BY <1>2, <1>3, RowKept
  <2> QED
    BY <1>2, <1>3, <2>1, Kept
<1> HIDE DEF kept
<1>5. /\ seqn'.current = first /\ seqn'.maxSent = seqn.maxSent /\ seqn'.acked = seqn.acked
      /\ seqn' = [maxSent |-> seqn.maxSent, current |-> first, acked |-> seqn.acked]
      /\ first = seqn.acked + 1
  BY <1>1, Counters DEF first
<1>6. Len(kept) = seqn.maxSent - first + 1
  BY <1>2, <1>4, Counters, Lengths, SMTT(30)
<1>7. /\ net' \in Seq(Package)
      /\ \A i \in 1 .. Len(net') : net'[i].msg = net'[i].seqn /\ net'[i].seqn <= seqn.maxSent
  <2> DEFINE more == Resent(kept, first)
  <2>1. /\ more \in Seq(Package) /\ Len(more) = Len(kept)
        /\ \A i \in 1 .. Len(kept) : more[i].seqn = first + i - 1 /\ more[i].msg = first + i - 1
    BY <1>2, <1>4, ResentSound
  <2> HIDE DEF more
  <2>2. \A i \in 1 .. Len(more) : more[i].msg = more[i].seqn /\ more[i].seqn <= seqn.maxSent
    <3>1. ASSUME NEW i \in 1 .. Len(kept) PROVE first + i - 1 <= seqn.maxSent
      BY <1>2, <1>6, Counters, SMTT(30)
    <3> QED
      BY <2>1, <3>1
  <2>3. /\ net \in Seq(Package) /\ seqn.maxSent \in Nat
        /\ \A i \in 1 .. Len(net) : net[i].msg = net[i].seqn /\ net[i].seqn <= seqn.maxSent
    BY Types DEF SenderSound
  <2>4. net' = Transmitted(more)
    BY <1>1 DEF more
  <2> QED
    BY <2>1, <2>2, <2>3, <2>4, TransmittedSound
<1>8. paused = 1
  BY <1>1 DEF SenderSound, WireTypeOK
<1>9. WireTypeOK'
  <2>1. first \in 1 .. MaxPut + 1
    BY <1>5, Counters
  <2>2. seqn' \in [maxSent : 0 .. MaxPut, current : 1 .. MaxPut + 1, acked : 0 .. MaxPut]
    BY <1>5, <2>1 DEF WireTypeOK
  <2>3. conn' \in [stage : {"down", "attached", "up"}, alive : BOOLEAN] /\ paused' \in 0 .. 1
    <3>1. conn \in [stage : {"down", "attached", "up"}, alive : BOOLEAN]
      BY DEF WireTypeOK
    <3>2. conn' \in [stage : {"down", "attached", "up"}, alive : BOOLEAN]
      BY <1>1, <3>1
    <3>3. paused' = 0
      BY <1>1, <1>8
    <3> QED
      BY <3>2, <3>3
  <2> QED
    BY <1>1, <1>4, <1>7, <2>2, <2>3 DEF WireTypeOK
<1>10. SenderKeepsOrder'
  BY <1>1, <1>4, <1>5, <1>6 DEF SenderKeepsOrder, InARowFrom
<1>11. SenderSound'
  <2>1. seqn'.current - 1 <= seqn'.acked
    BY <1>5, Counters
  <2>2. conn'.stage = "up" /\ paused' = 0
    BY <1>1, <1>8 DEF WireTypeOK
  <2>3. rcv.max <= seqn.maxSent /\ \A i \in 1 .. Len(acks) : acks[i] <= seqn.maxSent
    BY DEF SenderSound
  <2> QED
    BY <1>1, <1>5, <1>7, <2>1, <2>2, <2>3, Counters DEF SenderSound
<1> QED
  BY <1>9, <1>10, <1>11

LEMMA AcknowledgeSender ==
    ASSUME SenderInv, Acknowledge
    PROVE  SenderInv'
<1> USE DEF SenderInv
<1> DEFINE top == IF Head(acks) > seqn.acked THEN Head(acks) ELSE seqn.acked
<1>1. /\ acks \in Seq(1 .. MaxPut) /\ acks # <<>> /\ Len(acks) \in Nat
      /\ Tail(acks) \in Seq(1 .. MaxPut) /\ Head(acks) \in 1 .. MaxPut /\ Head(acks) = acks[1]
      /\ Len(Tail(acks)) = Len(acks) - 1 /\ 1 \in 1 .. Len(acks)
      /\ \A i \in 1 .. Len(acks) - 1 : i + 1 \in 1 .. Len(acks) /\ Tail(acks)[i] = acks[i + 1]
  <2> DEFINE Number == 1 .. MaxPut
  <2>1. acks \in Seq(Number) /\ acks # <<>>
    BY Types DEF Acknowledge
  <2> HIDE DEF Number
  <2>2. /\ Tail(acks) \in Seq(Number) /\ Head(acks) \in Number /\ Len(acks) \in Nat \ {0}
        /\ Len(Tail(acks)) = Len(acks) - 1 /\ Head(acks) = acks[1]
        /\ \A i \in 1 .. Len(acks) - 1 : i + 1 \in 1 .. Len(acks) /\ Tail(acks)[i] = acks[i + 1]
    BY <2>1, Tailed
  <2>3. 1 \in 1 .. Len(acks)
    BY <2>2
  <2> QED
    BY <2>1, <2>2, <2>3 DEF Number
<1>2. top \in 0 .. MaxPut /\ seqn.acked <= top /\ top <= seqn.maxSent
  <2>1. Head(acks) <= seqn.maxSent
    BY <1>1 DEF SenderSound
  <2> QED
    BY <1>1, <2>1, Counters
<1>3. /\ seqn'.maxSent = seqn.maxSent /\ seqn'.current = seqn.current /\ seqn'.acked = top
      /\ seqn' = [maxSent |-> seqn.maxSent, current |-> seqn.current, acked |-> top]
  BY Counters DEF Acknowledge
<1> HIDE DEF top
<1>4. WireTypeOK'
  BY <1>1, <1>2, <1>3 DEF Acknowledge, WireTypeOK
<1>5. SenderKeepsOrder'
  BY <1>3 DEF Acknowledge, SenderKeepsOrder, InARowFrom
<1>6. SenderSound'
  <2>1. \A i \in 1 .. Len(acks') : acks'[i] <= seqn'.maxSent
    <3>1. \A i \in 1 .. Len(acks) : acks[i] <= seqn.maxSent
      BY DEF SenderSound
    <3> QED
      BY <1>1, <1>3, <3>1 DEF Acknowledge
  <2>2. seqn'.current - 1 <= seqn'.acked /\ seqn'.acked <= seqn'.maxSent /\ seqn'.maxSent <= put'
    BY <1>2, <1>3, Counters DEF Acknowledge
  <2> QED
    BY <1>3, <2>1, <2>2 DEF Acknowledge, SenderSound
<1> QED
  BY <1>4, <1>5, <1>6

LEMMA PauseSender ==
    ASSUME SenderInv, Pause
    PROVE  SenderInv'
<1>1. paused = 0
  BY DEF SenderInv, SenderSound, Pause
<1>2. WireTypeOK'
  <2>1. conn' \in [stage : {"down", "attached", "up"}, alive : BOOLEAN]
    BY DEF SenderInv, Pause, WireTypeOK
  <2>2. paused' \in 0 .. 1
    BY <1>1 DEF Pause
  <2> QED
    BY <2>1, <2>2 DEF SenderInv, Pause, WireTypeOK
<1>3. SenderKeepsOrder'
  BY DEF SenderInv, Pause, SenderKeepsOrder, InARowFrom
<1>4. SenderSound'
  <2>1. conn'.stage = "down" /\ ~conn'.alive /\ paused' = 1
    BY <1>1 DEF Pause, SenderInv, WireTypeOK
  <2> QED
    BY <2>1 DEF SenderInv, Pause, SenderSound
<1> QED
  BY <1>2, <1>3, <1>4 DEF SenderInv

LEMMA BreakSender ==
    ASSUME SenderInv, Break
    PROVE  SenderInv'
<1> USE DEF SenderInv
<1>1. /\ net' \in Seq(Package) /\ \A i \in 1 .. Len(net') : i \in 1 .. Len(net) /\ net'[i] = net[i]
      /\ acks' \in Seq(1 .. MaxPut)
      /\ \A i \in 1 .. Len(acks') : i \in 1 .. Len(acks) /\ acks'[i] = acks[i]
  <2>1. net \in Seq(Package) /\ acks \in Seq(1 .. MaxPut)
    BY Types
  <2>2. net' \in Prefixes(net) /\ acks' \in Prefixes(acks)
    BY DEF Break
  <2> QED
    BY <2>1, <2>2, Cut
<1>2. WireTypeOK'
  <2>1. breaks' \in 0 .. MaxBreaks
    BY WireAssumption DEF Break, WireTypeOK
  <2>2. conn' \in [stage : {"down", "attached", "up"}, alive : BOOLEAN]
    BY DEF Break, WireTypeOK
  <2>3. UNCHANGED <<put, data, queue, pending, seqn, paused, thread, rcv, ahead>>
    BY DEF Break, procVars
  <2>4. net' \in Seq(Package) /\ acks' \in Seq(1 .. MaxPut)
    BY <1>1
  <2>5. WireTypeOK
    OBVIOUS
  <2> HIDE DEF SenderInv
  <2> QED
    BY <2>1, <2>2, <2>3, <2>4, <2>5 DEF WireTypeOK
<1>3. SenderKeepsOrder'
  BY DEF Break, procVars, SenderKeepsOrder, InARowFrom
<1>4. SenderSound'
  <2>1. conn'.stage = conn.stage /\ ~conn'.alive
    BY DEF Break, WireTypeOK
  <2> QED
    BY <1>1, <2>1 DEF Break, procVars, SenderSound
<1> QED
  BY <1>2, <1>3, <1>4

LEMMA ReceiveSender ==
    ASSUME SenderInv, Receive
    PROVE  SenderInv'
<1> USE DEF SenderInv
<1> DEFINE p == Head(net)
<1>1. /\ Tail(net) \in Seq(Package) /\ p = net[1] /\ 1 \in 1 .. Len(net)
      /\ Len(net) \in Nat /\ Len(Tail(net)) = Len(net) - 1
      /\ \A i \in 1 .. Len(net) - 1 : i + 1 \in 1 .. Len(net) /\ Tail(net)[i] = net[i + 1]
  <2>1. net \in Seq(Package) /\ net # <<>>
    BY Types DEF Receive
  <2>2. Len(net) \in Nat \ {0}
    BY <2>1, Tailed
  <2> QED
    BY <2>1, <2>2, Tailed
<1>2. p.seqn \in 1 .. MaxPut /\ p.msg \in Message /\ p.seqn <= seqn.maxSent
  <2>1. p.msg = p.seqn /\ p.seqn <= seqn.maxSent /\ p.msg \in Message
    BY <1>1, UnderWay DEF SenderSound
  <2> QED
    BY <2>1 DEF Message
<1> HIDE DEF p
<1>3. /\ acks' \in Seq(1 .. MaxPut)
      /\ \A i \in 1 .. Len(acks') : acks'[i] <= seqn.maxSent
  <2>1. acks \in Seq(1 .. MaxPut) /\ \A i \in 1 .. Len(acks) : acks[i] <= seqn.maxSent
    BY Types DEF SenderSound
  <2>2. acks' = Append(acks, p.seqn) \/ acks' = acks
    BY DEF Receive, p
  <2>3. CASE acks' = Append(acks, p.seqn)
    <3>1. /\ Append(acks, p.seqn) \in Seq(1 .. MaxPut) /\ Len(Append(acks, p.seqn)) = Len(acks) + 1
          /\ \A i \in 1 .. Len(acks) : Append(acks, p.seqn)[i] = acks[i]
          /\ Append(acks, p.seqn)[Len(acks) + 1] = p.seqn
          /\ \A i \in 1 .. Len(acks) + 1 : i \in 1 .. Len(acks) \/ i = Len(acks) + 1
      BY <1>2, <2>1, Appended
    <3> QED
      BY <1>2, <2>1, <2>3, <3>1
  <2> QED
    BY <2>1, <2>2, <2>3
<1>4. /\ rcv' \in [max : 0 .. MaxPut, delivered : Seq(Message), garbled : BOOLEAN]
      /\ rcv'.max = rcv.max \/ rcv'.max = p.seqn
  <2>1. rcv \in [max : 0 .. MaxPut, delivered : Seq(Message), garbled : BOOLEAN]
    BY DEF WireTypeOK
  <2>2. Append(rcv.delivered, p.msg) \in Seq(Message)
    BY <1>2, <2>1
  <2>3. CASE IsRepeat(p.seqn)
    <3>1. rcv' = [rcv EXCEPT !.garbled = TRUE]
      BY <2>3 DEF Receive, p
    <3> QED
      BY <2>1, <3>1
  <2>4. CASE ~IsRepeat(p.seqn)
    <3> DEFINE d == IF rcv.garbled THEN rcv.delivered ELSE Append(rcv.delivered, p.msg)
               n == p.seqn
    <3>1. rcv' = [rcv EXCEPT !.max = n, !.delivered = d]
      BY <2>4 DEF Receive, p
    <3>2. d \in Seq(Message) /\ n \in 0 .. MaxPut
      BY <1>2, <2>1, <2>2
    <3> HIDE DEF d, n
    <3>3. rcv' = [max |-> n, delivered |-> d, garbled |-> rcv.garbled]
      BY <2>1, <3>1
    <3>4. rcv.garbled \in BOOLEAN
      BY <2>1
    <3>5. rcv' \in [max : 0 .. MaxPut, delivered : Seq(Message), garbled : BOOLEAN]
      BY <3>2, <3>3, <3>4, Zenon
    <3> QED
      BY <3>3, <3>5 DEF n
  <2> QED
    BY <2>3, <2>4
<1>5. UNCHANGED <<put, procVars, conn, breaks, ahead>> /\ net' = Tail(net)
  BY DEF Receive
<1>6. WireTypeOK'
  BY <1>1, <1>3, <1>4, <1>5 DEF procVars, WireTypeOK
<1>7. SenderKeepsOrder'
  BY <1>5 DEF procVars, SenderKeepsOrder, InARowFrom
<1>8. SenderSound'
  BY <1>1, <1>2, <1>3, <1>4, <1>5 DEF procVars, SenderSound
<1> QED
  BY <1>6, <1>7, <1>8

LEMMA SenderStep ==
    ASSUME SenderInv, [WireNext]_vars
    PROVE  SenderInv'
<1>1. CASE WireNext
  BY <1>1, PutSender, TakeSender, ThreadSender, SendFirstSender, AttachSender, ResumeSender,
     AcknowledgeSender, PauseSender, BreakSender, ReceiveSender
     DEF WireNext, AsyncThread, SocketThread
<1>2. CASE UNCHANGED vars
  BY <1>2 DEF vars, SenderInv, WireTypeOK, SenderKeepsOrder, SenderSound, InARowFrom
<1> QED
  BY <1>1, <1>2

\* SenderInv always holds, whatever the async thread writes ahead of resume().
THEOREM SenderInvariance == WireSpec => []SenderInv
<1>1. WireInit => SenderInv
  BY InitSender
<1>2. SenderInv /\ [WireNext]_vars => SenderInv'
  BY SenderStep
<1> QED
  BY <1>1, <1>2, PTL DEF WireSpec

\* Types are kept, whatever breaks.
THEOREM TypeCorrect == WireSpec => []WireTypeOK
<1>1. SenderInv => WireTypeOK
  BY DEF SenderInv
<1> QED
  BY <1>1, SenderInvariance, PTL

\* On the sender nothing is lost, doubled or reordered (put, ThreadProc, process, reprocess),
\* also when the async thread, held up between its locks, writes ahead of resume().
THEOREM OrderKept == WireSpec => []SenderKeepsOrder
<1>1. SenderInv => SenderKeepsOrder
  BY DEF SenderInv
<1> QED
  BY <1>1, SenderInvariance, PTL

----------------------------------------------------------------------------
(* Both ends. *)

\* The steps that leave the connection, what is under way and the receiver alone.
LEMMA QuietStep ==
    ASSUME OrderInv, SenderInv', Put \/ Take \/ Process \/ SendFails \/ Processed
    PROVE  OrderInv'
<1>1. UNCHANGED <<seqn, conn, net, acks, rcv>>
  BY DEF Put, Take, Process, SendFails, Processed
<1>2. InARow' /\ ReceiverSound' /\ NoGap'
  BY <1>1 DEF OrderInv, InARow, InARowFrom, ReceiverSound, Received, NoGap
<1>3. Between'
  BY <1>1 DEF OrderInv, Between
<1> QED
  BY <1>2, <1>3 DEF OrderInv

\* Nothing but this step can be too early.
LEMMA SendFirstStep ==
    ASSUME OrderInv, SenderInv', SendFirst, ~ahead'
    PROVE  OrderInv'
<1> DEFINE package == [seqn |-> seqn.maxSent + 1, msg |-> Head(queue)]
           last == seqn.maxSent
           acked == seqn.acked
           top == rcv.max
<1>1. conn.alive => conn.stage = "up"
  BY DEF OrderInv, SenderInv, SenderSound, WireTypeOK, SendFirst
<1>2. /\ last \in Nat /\ acked \in Nat /\ top \in Nat
      /\ Len(net) \in Nat /\ Len(acks) \in Nat /\ net \in Seq(Package)
      /\ package \in Package /\ package.seqn = last + 1
      /\ net = <<>> <=> Len(net) = 0
  <2>1. WireTypeOK /\ queue # <<>> /\ queue \in Seq(Message)
    BY Types DEF OrderInv, SenderInv, SendFirst
  <2>2. Head(queue) \in Message
    BY <2>1
  <2> QED
    BY <2>1, <2>2, Types, Empty DEF Package
<1>3. UNCHANGED <<conn, acks, rcv>> /\ seqn'.acked = acked /\ seqn'.maxSent = last + 1
  <2>1. SenderInv
    BY DEF OrderInv
  <2> QED
    BY <2>1, Counters DEF SendFirst
<1>4. Between' /\ ReceiverSound' /\ NoGap'
  <2>1. conn.stage = "attached" => net' = net
    BY <1>1 DEF SendFirst, Transmitted
  <2> QED
    BY <1>3, <2>1 DEF OrderInv, Between, ReceiverSound, Received, NoGap
<1>5. InARow'
  <2>1. CASE ~conn.alive
    <3>1. net' = net
      BY <2>1 DEF SendFirst, Transmitted
    <3> QED
      BY <1>3, <2>1, <3>1 DEF OrderInv, InARow, InARowFrom
  <2>2. CASE conn.alive
    <3>1. net' = net \o <<package>>
      BY <2>2 DEF SendFirst, Transmitted
    <3> HIDE DEF package, last, acked, top
    <3>2. /\ Len(net') = Len(net) + 1
          /\ \A i \in 1 .. Len(net) : net'[i] = net[i]
          /\ net'[Len(net) + 1] = package
      <4>1. <<package>> \in Seq(Package) /\ Len(<<package>>) = 1 /\ <<package>>[1] = package
        BY <1>2
      <4> QED
        BY <1>2, <3>1, <4>1, Joined
    <3>3. /\ Len(acks) + Len(net) = last - acked
          /\ net # <<>> => net[1].seqn = acked + Len(acks) + 1
          /\ acked + Len(acks) <= top
          /\ \A i \in 1 .. Len(net) : net[i].seqn = net[1].seqn + i - 1
          /\ net # <<>> => net[1].seqn <= top + 1
      BY <1>1, <2>2 DEF OrderInv, InARow, last, acked, top
    <3>4. \A i \in 1 .. Len(net) : net[i].seqn = acked + Len(acks) + i
      <4>1. ASSUME NEW i \in 1 .. Len(net) PROVE net[i].seqn = acked + Len(acks) + i
        <5>1. net[1].seqn = acked + Len(acks) + 1
          BY <1>2, <3>3
        <5> QED
          BY <1>2, <3>3, <5>1
      <4> QED
        BY <4>1
    <3>5. \A i \in 1 .. Len(net) + 1 : net'[i].seqn = acked + Len(acks) + i
      <4>1. last + 1 = acked + Len(acks) + (Len(net) + 1)
        BY <1>2, <3>3
      <4>2. \A i \in 1 .. Len(net) + 1 : i \in 1 .. Len(net) \/ i = Len(net) + 1
        BY <1>2
      <4> QED
        BY <1>2, <3>2, <3>4, <4>1, <4>2
    <3>6. /\ net'[1].seqn = acked + Len(acks) + 1
          /\ \A i \in 1 .. Len(net') : net'[i].seqn = net'[1].seqn + i - 1
      <4>1. 1 \in 1 .. Len(net) + 1
        BY <1>2
      <4> QED
        BY <1>2, <3>2, <3>5, <4>1
    <3>7. /\ acked + Len(acks) < net'[1].seqn /\ net'[1].seqn <= top + 1
          /\ Len(acks) + Len(net') = (last + 1) - acked
      BY <1>2, <3>2, <3>3, <3>6
    <3> QED
      BY <1>3, <3>3, <3>6, <3>7 DEF OrderInv, InARow, InARowFrom, acked, top
  <2> QED
    BY <2>1, <2>2
<1> QED
  BY <1>4, <1>5 DEF OrderInv

LEMMA AttachStep ==
    ASSUME OrderInv, SenderInv', Attach
    PROVE  OrderInv'
<1>1. /\ conn.stage = "down" /\ net = <<>> /\ acks = <<>>
      /\ conn'.stage = "attached"
      /\ UNCHANGED <<seqn, thread, net, acks, rcv>>
  BY DEF OrderInv, SenderInv, Between, Attach, procVars
<1>2. Between' /\ InARow'
  BY <1>1 DEF OrderInv, Between, InARow, InARowFrom
<1>3. ReceiverSound' /\ NoGap'
  BY <1>1 DEF OrderInv, ReceiverSound, Received, NoGap
<1> QED
  BY <1>2, <1>3 DEF OrderInv

LEMMA ResumeStep ==
    ASSUME OrderInv, SenderInv', Resume
    PROVE  OrderInv'
<1> DEFINE acked == seqn.acked
           kept == SubSeq(pending, acked - seqn.current + 2, Len(pending))
           more == Resent(kept, acked + 1)
<1>1. /\ conn.stage = "attached" /\ net = <<>> /\ acks = <<>>
      /\ conn'.stage = "up" /\ conn'.alive = conn.alive
      /\ seqn'.acked = acked /\ seqn'.maxSent = seqn.maxSent
      /\ net' = Transmitted(more)
      /\ UNCHANGED <<thread, acks, rcv>>
  <2>1. seqn' = [seqn EXCEPT !.current = acked + 1]
        /\ conn' = [conn EXCEPT !.stage = "up"] /\ net' = Transmitted(more)
        /\ conn.stage = "attached" /\ UNCHANGED <<thread, acks, rcv>>
    BY DEF Resume, DroppedUpTo
  <2>2. SenderInv /\ conn \in [stage : {"down", "attached", "up"}, alive : BOOLEAN]
        /\ net = <<>> /\ acks = <<>>
    BY <2>1 DEF OrderInv, SenderInv, WireTypeOK, Between
  <2> QED
    BY <2>1, <2>2, Counters
<1>2. /\ acked \in Nat /\ seqn.maxSent \in Nat /\ rcv.max \in Nat
      /\ acked <= rcv.max
  BY <1>1, Types DEF OrderInv, SenderInv, InARow
<1>3. /\ more \in Seq(Package) /\ Len(more) = seqn.maxSent - acked
      /\ \A i \in 1 .. Len(more) : more[i].seqn = acked + i
  <2> DEFINE k == acked + 1 - seqn.current
  <2>1. SenderInv /\ pending \in Seq(Message) /\ InARowFrom(pending, seqn.current)
    BY Types DEF OrderInv, SenderInv, SenderKeepsOrder
  <2>2. /\ k \in Nat /\ k <= Len(pending) /\ acked - seqn.current + 2 = k + 1
        /\ acked + 1 = seqn.current + k /\ seqn.current \in Int
        /\ Len(pending) - k = seqn.maxSent - acked
    <3>1. /\ seqn.current - 1 <= acked /\ acked <= seqn.maxSent
          /\ seqn.maxSent \in Nat /\ seqn.current \in Nat /\ acked \in Nat
      BY <2>1, Counters
    <3>2. Len(pending) = seqn.maxSent - seqn.current + 1
      BY <2>1, Lengths
    <3> HIDE DEF acked
    <3> QED
      BY <3>1, <3>2, SMTT(30)
  <2> HIDE DEF k, acked
  <2>3. kept \in Seq(Message) /\ Len(kept) = Len(pending) - k /\ InARowFrom(kept, acked + 1)
    <3>1. InARowFrom(SubSeq(pending, k + 1, Len(pending)), seqn.current + k)
      BY <2>1, <2>2, RowKept
    <3> QED
      BY <2>1, <2>2, <3>1, Kept
  <2> HIDE DEF kept
  <2>4. /\ more \in Seq(Package) /\ Len(more) = Len(kept)
        /\ \A i \in 1 .. Len(kept) : more[i].seqn = (acked + 1) + i - 1
    <3>1. acked + 1 \in Nat
      BY <1>2
    <3> QED
      BY <2>3, <3>1, ResentSound
  <2> HIDE DEF more
  <2>5. \A i \in 1 .. Len(kept) : (acked + 1) + i - 1 = acked + i
    BY <1>2
  <2> QED
    BY <2>2, <2>3, <2>4, <2>5
<1> HIDE DEF acked, kept, more
<1>4. net' = IF conn.alive THEN more ELSE <<>>
  <2>1. <<>> \o more = more
    BY <1>3
  <2> QED
    BY <1>1, <2>1 DEF Transmitted
<1>5. Between' /\ ReceiverSound' /\ NoGap'
  BY <1>1 DEF OrderInv, Between, ReceiverSound, Received, NoGap
<1>6. InARow'
  <2>1. Len(acks) = 0 /\ InARowFrom(acks', seqn'.acked + 1)
    BY <1>1 DEF InARowFrom
  <2>2. CASE ~conn.alive
    <3>1. net' = <<>> /\ Len(net') = 0
      BY <1>4, <2>2
    <3> QED
      BY <1>1, <1>2, <2>1, <2>2, <3>1 DEF InARow
  <2>3. CASE conn.alive
    <3>1. net' = more
      BY <1>4, <2>3
    <3>2. Len(more) \in Nat /\ (more = <<>> <=> Len(more) = 0)
      BY <1>3, Empty
    <3>3. more # <<>> => more[1].seqn = acked + 1
      <4>1. more # <<>> => 1 \in 1 .. Len(more)
        BY <3>2
      <4> QED
        BY <1>3, <4>1
    <3>4. \A i \in 1 .. Len(more) : more[i].seqn = more[1].seqn + i - 1
      <4>1. ASSUME NEW i \in 1 .. Len(more) PROVE more[i].seqn = (acked + 1) + i - 1
        BY <1>2, <1>3
      <4>2. \A i \in 1 .. Len(more) : more # <<>>
        BY <3>2
      <4> QED
        BY <3>3, <4>1, <4>2
    <3>5. /\ acked + Len(acks) <= rcv.max
          /\ Len(acks) + Len(more) = seqn.maxSent - acked
          /\ more # <<>> => /\ acked + Len(acks) < more[1].seqn
                            /\ more[1].seqn <= rcv.max + 1
                            /\ more[1].seqn = acked + Len(acks) + 1
      BY <1>2, <1>3, <2>1, <3>2, <3>3
    <3> QED
      BY <1>1, <2>1, <3>1, <3>4, <3>5 DEF InARow
  <2> QED
    BY <2>2, <2>3
<1> QED
  BY <1>5, <1>6 DEF OrderInv

LEMMA AcknowledgeStep ==
    ASSUME OrderInv, SenderInv', Acknowledge
    PROVE  OrderInv'
<1> DEFINE acked == seqn.acked
<1>1. /\ acked \in Nat /\ rcv.max \in Nat /\ seqn.maxSent \in Nat
      /\ acks \in Seq(1 .. MaxPut) /\ acks # <<>> /\ InARowFrom(acks, acked + 1)
      /\ Len(net) \in Nat
  BY Types DEF OrderInv, SenderInv, InARow, Acknowledge
<1>2. /\ Len(acks) \in Nat \ {0} /\ Len(Tail(acks)) = Len(acks) - 1
      /\ Head(acks) = acked + 1 /\ InARowFrom(Tail(acks), (acked + 1) + 1)
  <2> DEFINE Number == 1 .. MaxPut
  <2>1. acks \in Seq(Number) /\ acked + 1 \in Int
    BY <1>1
  <2> HIDE DEF Number, acked
  <2> QED
    BY <1>1, <2>1, Tailed, RowTailed
<1>3. /\ acks' = Tail(acks) /\ seqn'.acked = acked + 1 /\ seqn'.maxSent = seqn.maxSent
      /\ UNCHANGED <<thread, conn, net, rcv>> /\ conn.stage = "up"
  <2>1. Head(acks) > acked
    BY <1>1, <1>2
  <2>2. SenderInv
    BY DEF OrderInv
  <2> QED
    BY <1>2, <2>1, <2>2, Counters DEF Acknowledge
<1>4. Between' /\ ReceiverSound' /\ NoGap'
  BY <1>3 DEF OrderInv, Between, ReceiverSound, Received, NoGap
<1> HIDE DEF acked
<1>5. InARow'
  <2>1. InARowFrom(acks', seqn'.acked + 1)
    BY <1>2, <1>3 DEF InARowFrom
  <2>2. seqn'.acked + Len(acks') = acked + Len(acks)
    BY <1>1, <1>2, <1>3
  <2>3. /\ \A i \in 1 .. Len(net) : net[i].seqn = net[1].seqn + i - 1
        /\ net # <<>> => acked + Len(acks) < net[1].seqn /\ net[1].seqn <= rcv.max + 1
        /\ acked + Len(acks) <= rcv.max
        /\ (conn.alive /\ conn.stage = "up") =>
                /\ Len(acks) + Len(net) = seqn.maxSent - acked
                /\ net # <<>> => net[1].seqn = acked + Len(acks) + 1
    BY DEF OrderInv, InARow, acked
  <2>4. ASSUME conn.alive, conn.stage = "up"
        PROVE  Len(acks') + Len(net) = seqn'.maxSent - seqn'.acked
    <3>1. Len(acks) + Len(net) = seqn.maxSent - acked
      BY <2>3, <2>4
    <3>2. Len(acks') = Len(acks) - 1 /\ Len(acks) \in Nat
      BY <1>2, <1>3
    <3>3. Len(net) \in Nat /\ acked \in Nat /\ seqn.maxSent \in Nat
      BY <1>1 DEF acked
    <3>4. (Len(acks) - 1) + Len(net) = seqn.maxSent - (acked + 1)
      BY <3>1, <3>2, <3>3
    <3> QED
      BY <1>3, <3>2, <3>4
  <2> QED
    BY <1>3, <2>1, <2>2, <2>3, <2>4 DEF InARow
<1> QED
  BY <1>4, <1>5 DEF OrderInv

LEMMA PauseStep ==
    ASSUME OrderInv, SenderInv', Pause
    PROVE  OrderInv'
<1>1. /\ acks = <<>> /\ conn'.stage = "down" /\ ~conn'.alive
      /\ UNCHANGED <<seqn, thread, net, acks, rcv>>
  BY DEF OrderInv, SenderInv, WireTypeOK, Pause
<1>2. Between' /\ ReceiverSound' /\ NoGap'
  BY <1>1 DEF OrderInv, Between, ReceiverSound, Received, NoGap
<1>3. InARow'
  BY <1>1 DEF OrderInv, InARow, InARowFrom
<1> QED
  BY <1>2, <1>3 DEF OrderInv

LEMMA BreakStep ==
    ASSUME OrderInv, SenderInv', Break
    PROVE  OrderInv'
<1>1. /\ ~conn'.alive /\ conn'.stage = conn.stage
      /\ UNCHANGED <<seqn, thread, rcv>>
      /\ net' \in Prefixes(net) /\ acks' \in Prefixes(acks)
  BY DEF OrderInv, SenderInv, WireTypeOK, Break, procVars
<1>2. /\ net \in Seq(Package) /\ acks \in Seq(1 .. MaxPut)
      /\ Len(net) \in Nat /\ Len(acks) \in Nat /\ seqn.acked \in Nat /\ rcv.max \in Nat
  BY Types DEF OrderInv, SenderInv
<1>3. /\ Len(acks') \in Nat /\ Len(acks') <= Len(acks)
      /\ InARowFrom(acks', seqn.acked + 1)
      /\ acks = <<>> => acks' = <<>>
  <2> DEFINE Number == 1 .. MaxPut
  <2>1. acks \in Seq(Number) /\ seqn.acked + 1 \in Int /\ InARowFrom(acks, seqn.acked + 1)
    BY <1>2 DEF OrderInv, InARow
  <2> HIDE DEF Number
  <2>2. acks' \in Seq(Number) /\ Len(acks') \in Nat /\ Len(acks') <= Len(acks)
    BY <1>1, <2>1, Cut
  <2>3. InARowFrom(acks', seqn.acked + 1)
    BY <1>1, <2>1, RowCut
  <2>4. acks = <<>> => Len(acks') = 0
    BY <2>2
  <2> QED
    BY <2>2, <2>3, <2>4, Empty
<1>4. /\ net' \in Seq(Package) /\ Len(net') \in Nat /\ Len(net') <= Len(net)
      /\ \A i \in 1 .. Len(net') : i \in 1 .. Len(net) /\ net'[i] = net[i]
      /\ net' = <<>> <=> Len(net') = 0
      /\ net = <<>> <=> Len(net) = 0
  BY <1>1, <1>2, Cut, Empty
<1>5. Between' /\ ReceiverSound' /\ NoGap'
  <2>1. net = <<>> => net' = <<>>
    BY <1>2, <1>4
  <2> QED
    BY <1>1, <1>3, <2>1 DEF OrderInv, Between, ReceiverSound, Received, NoGap
<1>6. InARow'
  <2>1. net' # <<>> => net # <<>> /\ net'[1] = net[1]
    <3>1. net' # <<>> => 1 \in 1 .. Len(net') /\ Len(net) # 0
      BY <1>2, <1>4
    <3> QED
      BY <1>4, <3>1
  <2>2. \A i \in 1 .. Len(net') : net'[i].seqn = net'[1].seqn + i - 1
    <3>1. \A i \in 1 .. Len(net') : net' # <<>>
      BY <1>4
    <3>2. \A i \in 1 .. Len(net) : net[i].seqn = net[1].seqn + i - 1
      BY DEF OrderInv, InARow
    <3> QED
      BY <1>4, <2>1, <3>1, <3>2
  <2>3. /\ net # <<>> => seqn.acked + Len(acks) < net[1].seqn /\ net[1].seqn <= rcv.max + 1
        /\ seqn.acked + Len(acks) <= rcv.max
    BY DEF OrderInv, InARow
  <2>4. net # <<>> => net[1].seqn \in Nat
    <3>1. net # <<>> => 1 \in 1 .. Len(net)
      BY <1>2, <1>4
    <3>2. WireTypeOK
      BY DEF OrderInv, SenderInv
    <3> QED
      BY <3>1, <3>2, UnderWay
  <2>5. /\ net' # <<>> => seqn.acked + Len(acks') < net'[1].seqn /\ net'[1].seqn <= rcv.max + 1
        /\ seqn.acked + Len(acks') <= rcv.max
    BY <1>2, <1>3, <2>1, <2>3, <2>4
  <2> QED
    BY <1>1, <1>3, <2>2, <2>5 DEF InARow
<1> QED
  BY <1>5, <1>6 DEF OrderInv

\* The package that comes: unless the stream is garbled already, it garbles it, being one the
\* receiver had, or the stream goes on with it.
LEMMA ReceiveAny ==
    ASSUME SenderInv, Receive, NEW n, n = Head(net).seqn, NEW d, d = rcv.delivered
    PROVE  /\ n \in Message /\ n <= put /\ n = net[1].seqn /\ 1 \in 1 .. Len(net)
           /\ d \in Seq(Message)
           /\ \/ /\ rcv'.garbled /\ rcv'.max = rcv.max /\ rcv'.delivered = d
                 /\ n <= rcv.max /\ n # 1
              \/ /\ rcv'.max = n /\ rcv'.garbled = rcv.garbled
                 /\ rcv'.delivered = IF rcv.garbled THEN d ELSE Append(d, n)
                 /\ (n = 1 \/ n > rcv.max)
<1>1. /\ net \in Seq(Package) /\ net # <<>> /\ seqn.maxSent <= put /\ put \in Nat
      /\ seqn.maxSent \in Nat /\ rcv.max \in Nat /\ d \in Seq(Message)
      /\ WireTypeOK
      /\ rcv = [max |-> rcv.max, delivered |-> d, garbled |-> rcv.garbled]
  <2>1. WireTypeOK
    BY DEF SenderInv
  <2> QED
    BY <2>1, Types, Counters DEF Receive, WireTypeOK
<1>2. Head(net) = net[1] /\ 1 \in 1 .. Len(net)
  <2>1. Len(net) \in Nat \ {0}
    BY <1>1, Tailed
  <2> QED
    BY <1>1, <2>1, Tailed
<1>3. Head(net).msg = n /\ n \in Message /\ n \in Nat /\ n <= put
  <2>1. net[1].msg = net[1].seqn /\ net[1].msg \in Message /\ net[1].seqn <= seqn.maxSent
        /\ net[1].seqn \in Nat
    BY <1>1, <1>2, UnderWay DEF SenderInv, SenderSound
  <2> QED
    BY <1>1, <1>2, <2>1
<1>4. CASE IsRepeat(n)
  <2>1. rcv' = [rcv EXCEPT !.garbled = TRUE]
    BY <1>4 DEF Receive
  <2>2. rcv'.garbled /\ rcv'.max = rcv.max /\ rcv'.delivered = d
    BY <1>1, <2>1
  <2> QED
    BY <1>1, <1>2, <1>3, <1>4, <2>2 DEF IsRepeat
<1>5. CASE ~IsRepeat(n)
  <2>1. rcv' = [rcv EXCEPT !.max = n, !.delivered = IF rcv.garbled THEN d ELSE Append(d, n)]
    BY <1>3, <1>5 DEF Receive
  <2>2. n = 1 \/ n > rcv.max
    BY <1>1, <1>3, <1>5 DEF IsRepeat
  <2>3. /\ rcv'.max = n /\ rcv'.garbled = rcv.garbled
        /\ rcv'.delivered = IF rcv.garbled THEN d ELSE Append(d, n)
    BY <1>1, <2>1
  <2> QED
    BY <1>1, <1>2, <1>3, <2>2, <2>3
<1> QED
  BY <1>4, <1>5

\* The same while nothing was written ahead: it is not acknowledged yet, and not beyond the
\* next one.
LEMMA ReceiveTakes ==
    ASSUME OrderInv, Receive, NEW n, n = Head(net).seqn, NEW d, d = rcv.delivered
    PROVE  /\ n \in Message /\ n <= put
           /\ d \in Seq(Message) /\ Len(d) \in Nat
           /\ seqn.acked + Len(acks) < n /\ n <= rcv.max + 1
           /\ \/ /\ rcv'.garbled /\ rcv'.max = rcv.max /\ rcv'.delivered = d
                 /\ n <= rcv.max /\ n # 1
              \/ /\ rcv'.max = n /\ rcv'.garbled = rcv.garbled
                 /\ rcv'.delivered = IF rcv.garbled THEN d ELSE Append(d, n)
                 /\ (n = 1 \/ n = rcv.max + 1)
<1>1. /\ n \in Message /\ n <= put /\ n = net[1].seqn /\ 1 \in 1 .. Len(net)
      /\ d \in Seq(Message)
      /\ \/ /\ rcv'.garbled /\ rcv'.max = rcv.max /\ rcv'.delivered = d
            /\ n <= rcv.max /\ n # 1
         \/ /\ rcv'.max = n /\ rcv'.garbled = rcv.garbled
            /\ rcv'.delivered = IF rcv.garbled THEN d ELSE Append(d, n)
            /\ (n = 1 \/ n > rcv.max)
  <2>1. SenderInv
    BY DEF OrderInv
  <2> QED
    BY <2>1, ReceiveAny
<1>2. net # <<>> /\ rcv.max \in Nat /\ n \in Nat /\ Len(d) \in Nat
  <2>1. net # <<>>
    BY DEF Receive
  <2>2. rcv.max \in Nat
    <3>1. SenderInv
      BY DEF OrderInv
    <3> QED
      BY <3>1, Types DEF SenderInv
  <2>3. n \in Nat
    BY <1>1 DEF Message
  <2>4. Len(d) \in Nat
    BY <1>1
  <2> QED
    BY <2>1, <2>2, <2>3, <2>4
<1>3. seqn.acked + Len(acks) < n /\ n <= rcv.max + 1
  BY <1>1, <1>2 DEF OrderInv, InARow
<1>4. n > rcv.max => n = rcv.max + 1
  BY <1>2, <1>3
<1> QED
  BY <1>1, <1>2, <1>3, <1>4

LEMMA ReceiveStep ==
    ASSUME OrderInv, SenderInv', Receive
    PROVE  OrderInv'
<1> DEFINE p == Head(net)
           n == p.seqn
           sent == seqn.acked + Len(acks)
           d == rcv.delivered
<1>1. /\ net \in Seq(Package) /\ net # <<>> /\ acks \in Seq(1 .. MaxPut)
      /\ Len(acks) \in Nat /\ seqn.acked \in Nat /\ seqn.maxSent \in Nat
      /\ rcv.max \in Nat /\ d \in Seq(Message) /\ Len(d) \in Nat
  <2>1. WireTypeOK
    BY DEF OrderInv, SenderInv
  <2>2. d \in Seq(Message)
    BY <2>1, Types
  <2> QED
    BY <2>1, <2>2, Types DEF Receive
<1>2. /\ Tail(net) \in Seq(Package) /\ p = net[1] /\ 1 \in 1 .. Len(net)
      /\ Len(net) \in Nat \ {0} /\ Len(Tail(net)) = Len(net) - 1
      /\ \A i \in 1 .. Len(net) - 1 : i + 1 \in 1 .. Len(net) /\ Tail(net)[i] = net[i + 1]
  <2>1. Len(net) \in Nat \ {0}
    BY <1>1, Tailed
  <2> QED
    BY <1>1, <2>1, Tailed
<1>3. /\ p.msg = n /\ n \in 1 .. MaxPut /\ n \in Nat \ {0} /\ p.msg \in Message
  <2>1. p.msg = n /\ p.msg \in Message
    BY <1>2, UnderWay DEF OrderInv, SenderInv, SenderSound
  <2> QED
    BY <2>1, WireAssumption DEF Message
<1> HIDE DEF p
<1>4. /\ sent < n /\ n <= rcv.max + 1 /\ sent <= rcv.max
      /\ InARowFrom(acks, seqn.acked + 1)
      /\ \A i \in 1 .. Len(net) : net[i].seqn = n + i - 1
      /\ conn.alive => Len(acks) + Len(net) = seqn.maxSent - seqn.acked /\ n = sent + 1
  <2>1. conn.alive => conn.stage = "up"
    BY <1>1 DEF OrderInv, SenderInv, SenderSound, WireTypeOK, Between
  <2> QED
    BY <1>1, <1>2, <2>1 DEF OrderInv, InARow
<1> HIDE DEF n, sent, d
<1>5. /\ UNCHANGED <<seqn, thread, conn>> /\ net' = Tail(net)
      /\ acks' = IF conn.alive THEN Append(acks, n) ELSE acks
  BY DEF Receive, procVars, n, p
<1>6. /\ Len(acks') = IF conn.alive THEN Len(acks) + 1 ELSE Len(acks)
      /\ InARowFrom(acks', seqn.acked + 1)
  <2> DEFINE Number == 1 .. MaxPut
  <2>1. acks \in Seq(Number) /\ n \in Number /\ seqn.acked + 1 \in Int
    BY <1>1, <1>3
  <2>2. conn.alive => n = (seqn.acked + 1) + Len(acks)
    BY <1>1, <1>4 DEF sent
  <2> HIDE DEF Number
  <2>3. CASE conn.alive
    BY <1>4, <1>5, <2>1, <2>2, <2>3, Appended, RowAppended
  <2>4. CASE ~conn.alive
    BY <1>4, <1>5, <2>4
  <2> QED
    BY <2>3, <2>4
<1>7. Between'
  <2>1. conn.stage = "up" \/ (conn.stage = "down" /\ ~conn.alive)
    BY <1>1 DEF OrderInv, SenderInv, SenderSound, WireTypeOK, Between
  <2> QED
    BY <1>5, <2>1 DEF OrderInv, Between
\* Either what came was had before, or it is the next one.
<1>8. \/ rcv'.garbled /\ rcv'.max = rcv.max /\ rcv'.delivered = d /\ n <= rcv.max
      \/ /\ rcv'.max = n /\ rcv'.garbled = rcv.garbled
         /\ rcv'.delivered = IF rcv.garbled THEN d ELSE Append(d, n)
         /\ (n = 1 \/ n = rcv.max + 1)
  BY ReceiveTakes DEF n, p, d
<1>9. /\ n <= rcv'.max /\ rcv'.max \in Nat
  BY <1>1, <1>3, <1>8
<1>10. InARow'
  <2>1. \A i \in 1 .. Len(net') : net'[i].seqn = n + i
    <3>1. ASSUME NEW i \in 1 .. Len(net) - 1 PROVE Tail(net)[i].seqn = n + i
      <4>1. i + 1 \in 1 .. Len(net) /\ Tail(net)[i] = net[i + 1]
        BY <1>2
      <4>2. net[i + 1].seqn = n + (i + 1) - 1
        BY <1>4, <4>1
      <4> QED
        BY <1>2, <1>3, <4>1, <4>2
    <3> QED
      BY <1>2, <1>5, <3>1
  <2>2. net' # <<>> => net'[1].seqn = n + 1
    <3>1. Len(net') \in Nat /\ (net' = <<>> <=> Len(net') = 0)
      BY <1>2, <1>5, Empty
    <3>2. net' # <<>> => 1 \in 1 .. Len(net')
      BY <3>1
    <3> QED
      BY <2>1, <3>2
  <2>3. \A i \in 1 .. Len(net') : net'[i].seqn = net'[1].seqn + i - 1
    <3>1. \A i \in 1 .. Len(net') : net' # <<>>
      <4>1. Len(net') \in Nat /\ (net' = <<>> <=> Len(net') = 0)
        BY <1>2, <1>5, Empty
      <4> QED
        BY <4>1
    <3>2. \A i \in 1 .. Len(net') : n + i = (n + 1) + i - 1
      BY <1>2, <1>3, <1>5
    <3> QED
      BY <2>1, <2>2, <3>1, <3>2
  <2>4. /\ seqn.acked + Len(acks') <= n
        /\ conn.alive => /\ Len(acks') + Len(net') = seqn.maxSent - seqn.acked
                         /\ n = seqn.acked + Len(acks')
    <3>1. CASE conn.alive
      <4>1. Len(acks') = Len(acks) + 1 /\ Len(net') = Len(net) - 1
        BY <1>2, <1>5, <1>6, <3>1
      <4>2. Len(acks) + Len(net) = seqn.maxSent - seqn.acked /\ n = seqn.acked + Len(acks) + 1
        BY <1>4, <3>1 DEF sent
      <4>3. Len(net) \in Nat /\ Len(acks) \in Nat /\ seqn.acked \in Nat /\ seqn.maxSent \in Nat
        BY <1>1, <1>2
      <4>4. (Len(acks) + 1) + (Len(net) - 1) = seqn.maxSent - seqn.acked
        BY <4>2, <4>3
      <4>5. n = seqn.acked + (Len(acks) + 1) /\ seqn.acked + (Len(acks) + 1) <= n
        BY <1>3, <4>2, <4>3
      <4> QED
        BY <4>1, <4>4, <4>5
    <3>2. CASE ~conn.alive
      <4>1. Len(acks') = Len(acks) /\ seqn.acked + Len(acks) <= n
        BY <1>1, <1>3, <1>4, <1>6, <3>2 DEF sent
      <4> QED
        BY <3>2, <4>1
    <3> QED
      BY <3>1, <3>2
  <2>5. Len(acks') \in Nat
    BY <1>1, <1>6
  <2>6. /\ net' # <<>> => /\ seqn.acked + Len(acks') < net'[1].seqn
                          /\ net'[1].seqn <= rcv'.max + 1
        /\ seqn.acked + Len(acks') <= rcv'.max
        /\ conn.alive => (net' # <<>> => net'[1].seqn = seqn.acked + Len(acks') + 1)
    BY <1>1, <1>3, <1>9, <2>2, <2>4, <2>5
  <2> QED
    BY <1>5, <1>6, <2>3, <2>4, <2>6 DEF InARow
<1>11. ReceiverSound' /\ NoGap'
  <2>1. CASE UNCHANGED d /\ rcv'.garbled
    BY <2>1 DEF OrderInv, ReceiverSound, NoGap, Received, d
  <2>2. CASE /\ ~rcv.garbled /\ rcv'.max = n /\ rcv'.garbled = rcv.garbled
             /\ rcv'.delivered = Append(d, n) /\ (n = 1 \/ n = rcv.max + 1)
    <3>1. /\ Append(d, n) \in Seq(Message) /\ Len(Append(d, n)) = Len(d) + 1
          /\ \A i \in 1 .. Len(d) : Append(d, n)[i] = d[i]
          /\ Append(d, n)[Len(d) + 1] = n
          /\ \A i \in 1 .. Len(d) + 1 : i \in 1 .. Len(d) \/ i = Len(d) + 1
      <4>1. n \in Message
        BY <1>3
      <4> QED
        BY <1>1, <4>1, Appended
    <3>2. /\ \A m \in 1 .. rcv.max : \E i \in 1 .. Len(d) : m = d[i]
          /\ rcv.max = IF d = <<>> THEN 0 ELSE d[Len(d)]
          /\ d = <<>> <=> Len(d) = 0
      BY <1>1, <2>2, Empty DEF OrderInv, ReceiverSound, Received, d
    <3>3. ASSUME NEW m \in 1 .. n PROVE m \in Received'
      <4>1. \E i \in 1 .. Len(d) + 1 : m = Append(d, n)[i]
        <5>1. CASE m <= rcv.max
          <6>1. PICK i \in 1 .. Len(d) : m = d[i]
            BY <1>1, <3>2, <5>1
          <6>2. i \in 1 .. Len(d) + 1
            BY <1>1
          <6> QED
            BY <3>1, <6>1, <6>2
        <5>2. CASE m > rcv.max
          <6>1. m = n /\ Len(d) + 1 \in 1 .. Len(d) + 1
            BY <1>1, <1>3, <1>4, <5>2
          <6> QED
            BY <3>1, <6>1
        <5> QED
          BY <1>1, <1>3, <5>1, <5>2
      <4>2. rcv'.delivered = Append(d, n) /\ Len(rcv'.delivered) = Len(d) + 1
        BY <2>2, <3>1
      <4>3. \E i \in 1 .. Len(rcv'.delivered) : m = rcv'.delivered[i]
        BY <4>1, <4>2
      <4> QED
        BY <4>3 DEF Received
    <3>4. Append(d, n) # <<>> /\ n = Append(d, n)[Len(Append(d, n))]
      BY <1>1, <3>1, Empty
    <3>5. ReceiverSound'
      <4>1. rcv'.max = n /\ rcv'.delivered = Append(d, n)
        BY <2>2
      <4>2. \A m \in 1 .. rcv'.max : m \in Received'
        BY <3>3, <4>1
      <4>3. rcv'.max = IF rcv'.delivered = <<>> THEN 0 ELSE rcv'.delivered[Len(rcv'.delivered)]
        BY <3>4, <4>1
      <4> QED
        BY <4>2, <4>3 DEF ReceiverSound
    <3>6. ASSUME NEW i \in 1 .. Len(d) + 1
          PROVE  \/ Append(d, n)[i] = 1
                 \/ (i > 1 /\ Append(d, n)[i] = Append(d, n)[i - 1] + 1)
      <4>1. CASE i \in 1 .. Len(d)
        <5>1. d[i] = 1 \/ (i > 1 /\ d[i] = d[i - 1] + 1)
          BY <4>1 DEF OrderInv, NoGap, d
        <5>2. i > 1 => i - 1 \in 1 .. Len(d)
          BY <1>1, <4>1
        <5> QED
          BY <3>1, <4>1, <5>1, <5>2
      <4>2. CASE i = Len(d) + 1
        <5>1. n = 1 \/ (Len(d) # 0 /\ n = d[Len(d)] + 1)
          BY <2>2, <3>2
        <5>2. Len(d) # 0 => /\ i > 1 /\ i - 1 = Len(d) /\ Len(d) \in 1 .. Len(d)
          BY <1>1, <4>2
        <5> QED
          BY <3>1, <4>2, <5>1, <5>2
      <4> QED
        BY <3>1, <4>1, <4>2
    <3>7. NoGap'
      <4>1. rcv'.delivered = Append(d, n) /\ Len(rcv'.delivered) = Len(d) + 1
        BY <2>2, <3>1
      <4>2. \A i \in 1 .. Len(rcv'.delivered) :
                \/ rcv'.delivered[i] = 1
                \/ (i > 1 /\ rcv'.delivered[i] = rcv'.delivered[i - 1] + 1)
        BY <3>6, <4>1
      <4> QED
        BY <4>2 DEF NoGap
    <3> QED
      BY <3>5, <3>7
  <2>3. \/ UNCHANGED d /\ rcv'.garbled
        \/ /\ ~rcv.garbled /\ rcv'.max = n /\ rcv'.garbled = rcv.garbled
           /\ rcv'.delivered = Append(d, n) /\ (n = 1 \/ n = rcv.max + 1)
    BY <1>8 DEF d
  <2> QED
    BY <2>1, <2>2, <2>3
<1> QED
  BY <1>7, <1>10, <1>11 DEF OrderInv

LEMMA OrderStep ==
    ASSUME OrderInv, [WireNext]_vars, ~ahead'
    PROVE  OrderInv'
<1>1. SenderInv'
  BY SenderStep DEF OrderInv
<1>2. CASE WireNext
  BY <1>1, <1>2, QuietStep, SendFirstStep, AttachStep, ResumeStep, AcknowledgeStep, PauseStep,
     BreakStep, ReceiveStep DEF WireNext, AsyncThread, SocketThread
<1>3. CASE UNCHANGED vars
  BY <1>1, <1>3 DEF vars, OrderInv, Between, InARow, InARowFrom, ReceiverSound, Received, NoGap
<1> QED
  BY <1>2, <1>3

----------------------------------------------------------------------------
(* Both ends, also when the async thread has written ahead of resume(). *)

LEMMA InitWire == WireInit => WireInv
<1> SUFFICES ASSUME WireInit PROVE WireInv
  OBVIOUS
<1>1. Len(<<>>) = 0
  OBVIOUS
<1>2. Between /\ InARow /\ StillKept
  BY <1>1 DEF WireInit, Between, InARow, InARowFrom, StillKept
<1>3. ReceiverSound /\ NoGap /\ CountsLatest
  BY <1>1 DEF WireInit, ReceiverSound, NoGap, Received, CountsLatest
<1> QED
  BY <1>2, <1>3, InitSender DEF WireInv, OrderInv

\* What is written to a connection is kept, if what was on it is and the new packages are.
LEMMA TransmittedKept ==
    ASSUME net \in Seq(Package), NEW more \in Seq(Package), NEW bound \in Nat,
           \A i \in 1 .. Len(net) : net[i].seqn >= bound,
           \A i \in 1 .. Len(more) : more[i].seqn >= bound
    PROVE  \A i \in 1 .. Len(Transmitted(more)) : Transmitted(more)[i].seqn >= bound
<1>1. CASE ~conn.alive
  BY <1>1 DEF Transmitted
<1>2. CASE conn.alive
  <2>1. Transmitted(more) = net \o more
    BY <1>2 DEF Transmitted
  <2>2. /\ Len(net \o more) = Len(net) + Len(more) /\ Len(net) \in Nat /\ Len(more) \in Nat
    BY Joined
  <2>3. ASSUME NEW i \in 1 .. Len(net) + Len(more)
        PROVE  (net \o more)[i].seqn >= bound
    <3>1. CASE i <= Len(net)
      <4>1. i \in 1 .. Len(net) /\ (net \o more)[i] = net[i]
        BY <2>2, <3>1, Joined
      <4> QED
        BY <4>1
    <3>2. CASE i > Len(net)
      <4>1. i - Len(net) \in 1 .. Len(more) /\ Len(net) + (i - Len(net)) = i
        BY <2>2, <3>2
      <4>2. (net \o more)[i] = more[i - Len(net)]
        BY <4>1, Joined
      <4> QED
        BY <4>1, <4>2
    <3> QED
      BY <2>2, <3>1, <3>2
  <2> QED
    BY <2>1, <2>2, <2>3
<1> QED
  BY <1>1, <1>2

LEMMA SendFirstKept ==
    ASSUME SenderInv, StillKept, SendFirst
    PROVE  StillKept'
<1> DEFINE package == [seqn |-> seqn.maxSent + 1, msg |-> Head(queue)]
<1>1. /\ seqn.maxSent \in Nat /\ seqn.current \in Nat /\ seqn.acked \in Nat
      /\ seqn.current <= seqn.maxSent + 1 /\ seqn.acked + 1 <= seqn.maxSent + 1
      /\ seqn'.current = seqn.current /\ seqn'.acked = seqn.acked
      /\ conn' = conn
  BY Counters DEF SendFirst
<1>2. /\ net \in Seq(Package) /\ <<package>> \in Seq(Package)
      /\ \A i \in 1 .. Len(<<package>>) : <<package>>[i].seqn = seqn.maxSent + 1
      /\ net' = Transmitted(<<package>>)
      /\ \A i \in 1 .. Len(net) : net[i].seqn \in Nat
  <2>1. queue \in Seq(Message) /\ queue # <<>> /\ net \in Seq(Package) /\ WireTypeOK
    BY Types DEF SenderInv, SendFirst
  <2>2. Head(queue) \in Message
    BY <2>1
  <2>3. package \in Package
    BY <1>1, <2>2 DEF Package
  <2> QED
    BY <2>1, <2>3, UnderWay DEF SendFirst
<1> HIDE DEF package
<1>3. \A i \in 1 .. Len(net') : net'[i].seqn >= seqn.current
  <2>1. /\ \A i \in 1 .. Len(net) : net[i].seqn >= seqn.current
        /\ \A i \in 1 .. Len(<<package>>) : <<package>>[i].seqn >= seqn.current
    BY <1>1, <1>2 DEF StillKept
  <2> QED
    BY <1>1, <1>2, <2>1, TransmittedKept
<1>4. ASSUME conn.stage = "attached"
      PROVE  \A i \in 1 .. Len(net') : net'[i].seqn >= seqn.acked + 1
  <2>1. /\ \A i \in 1 .. Len(net) : net[i].seqn >= seqn.acked + 1
        /\ \A i \in 1 .. Len(<<package>>) : <<package>>[i].seqn >= seqn.acked + 1
        /\ seqn.acked + 1 \in Nat
    BY <1>1, <1>2, <1>4 DEF StillKept
  <2> QED
    BY <1>2, <2>1, TransmittedKept
<1>5. \A i \in 1 .. Len(net') : net'[i].seqn \in Nat
  <2>1. WireTypeOK'
    BY SendFirstSender DEF SenderInv
  <2>2. net' \in Seq(Package)
    BY <2>1 DEF WireTypeOK
  <2>3. \A i \in 1 .. Len(net') : net'[i] \in Package
    BY <2>2
  <2> QED
    BY <2>3 DEF Package
<1> QED
  BY <1>1, <1>3, <1>4, <1>5 DEF StillKept

LEMMA ResumeKept ==
    ASSUME SenderInv, StillKept, Resume
    PROVE  StillKept'
<1> DEFINE k == seqn.acked + 1 - seqn.current
           kept == SubSeq(pending, k + 1, Len(pending))
           first == seqn.acked + 1
           more == Resent(kept, first)
<1>1. /\ seqn' = [seqn EXCEPT !.current = first] /\ net' = Transmitted(more)
      /\ conn' = [conn EXCEPT !.stage = "up"] /\ conn.stage = "attached"
  <2>1. seqn.acked - seqn.current + 2 = k + 1
    BY Counters
  <2> HIDE DEF k
  <2> QED
    BY <2>1 DEF Resume, DroppedUpTo
<1>2. k \in Nat /\ k <= Len(pending) /\ first = seqn.current + k /\ first \in Nat
  BY Counters, Lengths, SMTT(30)
<1>3. /\ pending \in Seq(Message) /\ seqn.current \in Int /\ InARowFrom(pending, seqn.current)
      /\ net \in Seq(Package) /\ \A i \in 1 .. Len(net) : net[i].seqn \in Nat
      /\ seqn'.current = first /\ conn'.stage = "up" /\ seqn.acked \in Nat
      /\ first = seqn.acked + 1
  <2>1. WireTypeOK /\ conn \in [stage : {"down", "attached", "up"}, alive : BOOLEAN]
    BY DEF SenderInv, WireTypeOK
  <2>2. seqn'.current = first /\ conn'.stage = "up"
    BY <1>1, <2>1, Counters
  <2>3. pending \in Seq(Message) /\ seqn.current \in Int /\ seqn.acked \in Nat
    BY <2>1, Types
  <2>4. InARowFrom(pending, seqn.current)
    BY DEF SenderInv, SenderKeepsOrder
  <2>5. net \in Seq(Package) /\ \A i \in 1 .. Len(net) : net[i].seqn \in Nat
    BY <2>1, Types, UnderWay
  <2> QED
    BY <2>2, <2>3, <2>4, <2>5
<1> HIDE DEF k, first
<1>4. kept \in Seq(Message) /\ InARowFrom(kept, first)
  <2>1. InARowFrom(kept, seqn.current + k)
    BY <1>2, <1>3, RowKept
  <2> QED
    BY <1>2, <1>3, <2>1, Kept
<1> HIDE DEF kept
<1>5. more \in Seq(Package) /\ \A i \in 1 .. Len(more) : more[i].seqn >= first
  <2>1. /\ more \in Seq(Package) /\ Len(more) = Len(kept)
        /\ \A i \in 1 .. Len(kept) : more[i].seqn = first + i - 1
    BY <1>2, <1>4, ResentSound
  <2> QED
    BY <1>2, <2>1
<1> HIDE DEF more
<1>6. \A i \in 1 .. Len(net) : net[i].seqn >= first
  BY <1>1, <1>3 DEF StillKept
<1>7. \A i \in 1 .. Len(net') : net'[i].seqn >= first
  BY <1>1, <1>2, <1>3, <1>5, <1>6, TransmittedKept
<1> QED
  BY <1>3, <1>7 DEF StillKept

LEMMA KeptStep ==
    ASSUME SenderInv, StillKept, [WireNext]_vars
    PROVE  StillKept'
<1>1. CASE Put \/ Take \/ Process \/ SendFails \/ Processed \/ UNCHANGED vars
  BY <1>1 DEF Put, Take, Process, SendFails, Processed, vars, StillKept
<1>2. CASE Attach
  <2>1. net' = <<>> /\ Len(<<>>) = 0
    BY <1>2 DEF Attach
  <2> QED
    BY <2>1 DEF StillKept
<1>3. CASE Acknowledge
  <2>1. seqn'.current = seqn.current /\ net' = net /\ conn' = conn /\ conn.stage = "up"
    BY <1>3, Counters DEF Acknowledge
  <2> QED
    BY <2>1 DEF StillKept
<1>4. CASE Pause
  <2>1. seqn' = seqn /\ net' = net /\ conn'.stage = "down"
    BY <1>4 DEF Pause, SenderInv, WireTypeOK
  <2> QED
    BY <2>1 DEF StillKept
<1>5. CASE Break
  <2>1. seqn' = seqn /\ conn'.stage = conn.stage /\ net \in Seq(Package) /\ net' \in Prefixes(net)
    BY <1>5, Types DEF Break, procVars, SenderInv, WireTypeOK
  <2>2. \A i \in 1 .. Len(net') : i \in 1 .. Len(net) /\ net'[i] = net[i]
    BY <2>1, Cut
  <2> QED
    BY <2>1, <2>2 DEF StillKept
<1>6. CASE Receive
  <2>1. seqn' = seqn /\ conn' = conn /\ net \in Seq(Package) /\ net # <<>> /\ net' = Tail(net)
    BY <1>6, Types DEF Receive, procVars, SenderInv
  <2>2. \A i \in 1 .. Len(net') : i + 1 \in 1 .. Len(net) /\ net'[i] = net[i + 1]
    BY <2>1, Tailed
  <2> QED
    BY <2>1, <2>2 DEF StillKept
<1> QED
  BY <1>1, <1>2, <1>3, <1>4, <1>5, <1>6, SendFirstKept, ResumeKept
     DEF WireNext, AsyncThread, SocketThread

LEMMA CountsStep ==
    ASSUME SenderInv, CountsLatest, [WireNext]_vars
    PROVE  CountsLatest'
<1>1. CASE Receive
  <2> DEFINE n == Head(net).seqn
             d == rcv.delivered
  <2>1. /\ n \in Message /\ d \in Seq(Message)
        /\ \/ rcv'.garbled
           \/ rcv'.max = n /\ rcv'.garbled = rcv.garbled
              /\ rcv'.delivered = IF rcv.garbled THEN d ELSE Append(d, n)
    BY <1>1, ReceiveAny
  <2> HIDE DEF n, d
  <2>2. Append(d, n) # <<>> /\ Append(d, n)[Len(Append(d, n))] = n
    <3>1. Len(Append(d, n)) = Len(d) + 1 /\ Len(d) \in Nat /\ Append(d, n)[Len(d) + 1] = n
          /\ Append(d, n) \in Seq(Message)
      BY <2>1, Appended
    <3> QED
      BY <3>1, Empty
  <2> QED
    BY <2>1, <2>2 DEF CountsLatest
<1>2. CASE ~Receive
  <2>1. rcv' = rcv
    BY <1>2 DEF WireNext, AsyncThread, SocketThread, vars, Put, Take, Process, SendFirst, SendFails,
       Processed, Attach, Resume, Acknowledge, Pause, Break
  <2> QED
    BY <2>1 DEF CountsLatest
<1> QED
  BY <1>1, <1>2

\* What was written ahead stays written.
LEMMA AheadStays ==
    ASSUME [WireNext]_vars, ahead
    PROVE  ahead'
BY DEF WireNext, AsyncThread, SocketThread, vars, Put, Take, Process, SendFirst, SendFails,
   Processed, Attach, Resume, Acknowledge, Pause, Break, Receive

LEMMA WireStep ==
    ASSUME WireInv, [WireNext]_vars
    PROVE  WireInv'
<1>1. SenderInv' /\ StillKept' /\ CountsLatest'
  BY SenderStep, KeptStep, CountsStep DEF WireInv
<1>2. ahead' \/ OrderInv'
  BY AheadStays, OrderStep DEF WireInv
<1> QED
  BY <1>1, <1>2 DEF WireInv

\* WireInv always holds, wherever the connections break and however long the async thread is
\* held up between its locks.
THEOREM WireInvariance == WireSpec => []WireInv
<1>1. WireInit => WireInv
  BY InitWire
<1>2. WireInv /\ [WireNext]_vars => WireInv'
  BY WireStep
<1> QED
  BY <1>1, <1>2, PTL DEF WireSpec

\* The stream of messages is continuous (read_package, reprocess), or starts over, until the
\* async thread writes ahead of resume().
THEOREM Continuous == WireSpec => [](ahead \/ NoGap)
<1>1. WireInv => ahead \/ NoGap
  BY DEF WireInv, OrderInv
<1> QED
  BY <1>1, WireInvariance, PTL

\* What the sender drops from pending_queue (reprocess) was delivered, until the async thread
\* writes ahead of resume().
THEOREM DroppedWasDelivered == WireSpec => [](ahead \/ NothingLost)
<1>1. ASSUME WireInv, ~ahead PROVE NothingLost
  <2>1. OrderInv
    BY <1>1 DEF WireInv
  <2>2. SenderInv /\ rcv.max \in Nat /\ Len(acks) \in Nat
    BY <2>1, Types DEF OrderInv, SenderInv
  <2>3. seqn.acked + Len(acks) <= rcv.max
    BY <2>1 DEF OrderInv, InARow
  <2>4. \A m \in 1 .. seqn.current - 1 : m \in 1 .. rcv.max
    BY <2>2, <2>3, Counters
  <2> QED
    BY <2>1, <2>4 DEF OrderInv, ReceiverSound, NothingLost
<1>2. WireInv => ahead \/ NothingLost
  BY <1>1
<1> QED
  BY <1>2, WireInvariance, PTL

\* Acknowledgements arrive in increasing order (ByteBufferAsyncProcessor::acknowledge), until
\* the async thread writes ahead of resume().
THEOREM AcksInOrder == WireSpec => []AcksIncreaseTillAhead
<1>1. ASSUME OrderInv PROVE AcksIncrease
  <2>1. acks \in Seq(1 .. MaxPut) /\ seqn.acked \in Nat
    BY <1>1, Types DEF OrderInv, SenderInv
  <2>2. InARowFrom(acks, seqn.acked + 1)
    BY <1>1 DEF OrderInv, InARow
  <2>3. acks # <<>> => Head(acks) = seqn.acked + 1
    <3> DEFINE Number == 1 .. MaxPut
    <3>1. acks \in Seq(Number) /\ seqn.acked + 1 \in Int
      BY <2>1
    <3> HIDE DEF Number
    <3> QED
      BY <2>2, <3>1, RowTailed
  <2> QED
    BY <2>1, <2>3 DEF AcksIncrease
<1>2. WireInv => AcksIncreaseTillAhead
  BY <1>1 DEF WireInv, AcksIncreaseTillAhead
<1> QED
  BY <1>2, WireInvariance, PTL

----------------------------------------------------------------------------
(* The wire implements the channel. *)

\* What the channel sees of a step that hands nothing in, drops nothing and delivers nothing.
LEMMA UnseenStep ==
    ASSUME put' = put, seqn'.current = seqn.current, rcv' = rcv, ahead' = ahead
    PROVE  UNCHANGED CH!vars
BY DEF CH!vars

\* Unless the stream is spoiled, the message that came out last is the one the receiver counts.
LEMMA LatestIsMax ==
    ASSUME WireInv, ~rcv.garbled
    PROVE  CH!Latest = rcv.max
BY DEF WireInv, CountsLatest, CH!Latest

LEMMA InitChannel == WireInit => CH!Init
BY DEF WireInit, CH!Init

LEMMA PutChannel ==
    ASSUME Put
    PROVE  CH!HandIn
BY DEF Put, CH!HandIn

\* Writing ahead of resume() is the race the channel knows of.
LEMMA SendFirstChannel ==
    ASSUME WireInv, SendFirst
    PROVE  CH!Next \/ UNCHANGED CH!vars
<1>1. /\ put' = put /\ rcv' = rcv /\ seqn'.current = seqn.current
      /\ ahead' = (ahead \/ (conn.alive /\ conn.stage = "attached"))
      /\ ahead \in BOOLEAN
  <2>1. SenderInv /\ ahead \in BOOLEAN
    BY DEF WireInv, SenderInv, WireTypeOK
  <2> QED
    BY <2>1, Counters DEF SendFirst
<1>2. CASE ahead'
  <2>1. CH!Races
    BY <1>1, <1>2 DEF CH!Races
  <2> QED
    BY <2>1 DEF CH!Next
<1>3. CASE ~ahead'
  BY <1>1, <1>3, UnseenStep
<1> QED
  BY <1>2, <1>3

\* Resuming drops what was acknowledged, and that had come out, unless there was a race.
LEMMA ResumeChannel ==
    ASSUME WireInv, Resume
    PROVE  CH!Next \/ UNCHANGED CH!vars
<1>1. /\ seqn.acked \in Nat /\ seqn.current \in Nat \ {0} /\ put \in Nat /\ rcv.max \in Nat
      /\ seqn.current - 1 <= seqn.acked /\ seqn.acked <= put
  BY Counters, Types DEF WireInv, SenderInv
<1>2. put' = put /\ rcv' = rcv /\ ahead' = ahead
  BY DEF Resume
<1>3. seqn'.current = seqn.acked + 1
  <2>1. seqn' = [seqn EXCEPT !.current = seqn.acked + 1]
    BY DEF Resume, DroppedUpTo
  <2> QED
    BY <2>1, Counters DEF WireInv
<1>4. ahead \/ seqn.acked <= rcv.max
  <2>1. ASSUME ~ahead PROVE seqn.acked <= rcv.max
    <3>1. Len(acks) \in Nat /\ seqn.acked + Len(acks) <= rcv.max
      BY <2>1, Types DEF WireInv, OrderInv, SenderInv, InARow
    <3> QED
      BY <1>1, <3>1
  <2> QED
    BY <2>1
<1>5. CASE seqn.acked = seqn.current - 1
  BY <1>1, <1>2, <1>3, <1>5, UnseenStep
<1>6. CASE seqn.acked # seqn.current - 1
  <2>1. seqn.acked \in 1 .. put /\ seqn.acked > seqn.current - 1
        /\ seqn'.current - 1 = seqn.acked
    BY <1>1, <1>3, <1>6
  <2>2. rcv.garbled \/ ahead \/ seqn.acked <= CH!Latest
    BY <1>4, LatestIsMax
  <2>3. CH!Forget(seqn.acked)
    BY <1>2, <2>1, <2>2 DEF CH!Forget
  <2> QED
    BY <2>1, <2>3 DEF CH!Next
<1> QED
  BY <1>5, <1>6

\* A package that comes goes on with the stream, starts it over, spoils it, or, after a race,
\* leaves some out.
LEMMA ReceiveChannel ==
    ASSUME WireInv, Receive
    PROVE  CH!Next \/ UNCHANGED CH!vars
<1> DEFINE n == Head(net).seqn
           d == rcv.delivered
<1>1. /\ n \in Nat \ {0} /\ n <= put /\ put \in Nat
      /\ rcv.max \in Nat /\ seqn.current \in Nat \ {0} /\ n >= seqn.current
      /\ \/ /\ rcv'.garbled /\ rcv'.max = rcv.max /\ rcv'.delivered = d
            /\ n <= rcv.max /\ n # 1
         \/ /\ rcv'.max = n /\ rcv'.garbled = rcv.garbled
            /\ rcv'.delivered = IF rcv.garbled THEN d ELSE Append(d, n)
            /\ (n = 1 \/ n > rcv.max)
  <2>1. SenderInv /\ StillKept
    BY DEF WireInv
  <2>2. /\ n \in Nat \ {0} /\ n <= put /\ n = net[1].seqn /\ 1 \in 1 .. Len(net)
        /\ \/ /\ rcv'.garbled /\ rcv'.max = rcv.max /\ rcv'.delivered = d
              /\ n <= rcv.max /\ n # 1
           \/ /\ rcv'.max = n /\ rcv'.garbled = rcv.garbled
              /\ rcv'.delivered = IF rcv.garbled THEN d ELSE Append(d, n)
              /\ (n = 1 \/ n > rcv.max)
    BY <2>1, ReceiveAny DEF Message
  <2>3. n >= seqn.current
    BY <2>1, <2>2 DEF StillKept
  <2>4. put \in Nat /\ rcv.max \in Nat /\ seqn.current \in Nat \ {0}
    BY <2>1, Types DEF SenderInv
  <2> QED
    BY <2>2, <2>3, <2>4
<1>2. ahead \/ n <= rcv.max + 1
  BY ReceiveTakes DEF WireInv
<1>3. seqn' = seqn /\ put' = put /\ ahead' = ahead
  BY DEF Receive, procVars
<1>4. rcv.garbled \in BOOLEAN /\ rcv'.garbled \in BOOLEAN /\ ahead \in BOOLEAN
  <2>1. rcv.garbled \in BOOLEAN /\ ahead \in BOOLEAN
    BY DEF WireInv, SenderInv, WireTypeOK
  <2>2. SenderInv'
    BY ReceiveSender DEF WireInv
  <2> QED
    BY <2>1, <2>2 DEF SenderInv, WireTypeOK
<1> HIDE DEF n, d
<1>5. CASE rcv.garbled
  <2>1. rcv'.garbled = rcv.garbled /\ rcv'.delivered = d
    BY <1>1, <1>4, <1>5
  <2> QED
    BY <1>3, <2>1 DEF CH!vars, d
<1>6. CASE ~rcv.garbled
  <2>1. CH!Latest = rcv.max
    BY <1>6, LatestIsMax
  <2>2. CASE rcv'.garbled /\ rcv'.delivered = d /\ n <= rcv.max /\ n # 1
    <3>1. seqn.current - 1 < CH!Latest
      BY <1>1, <2>1, <2>2
    <3>2. CH!Spoils
      BY <1>3, <1>4, <2>2, <3>1 DEF CH!Spoils, d
    <3> QED
      BY <3>2 DEF CH!Next
  <2>3. CASE /\ rcv'.garbled = rcv.garbled /\ rcv'.delivered = Append(d, n)
             /\ (n = 1 \/ n > rcv.max)
    <3>1. CH!ComesOut(n)
      BY <1>1, <1>3, <1>6, <2>3 DEF CH!ComesOut, d
    <3>2. CASE n = rcv.max + 1
      BY <2>1, <3>1, <3>2 DEF CH!ComesNext, CH!Next
    <3>3. CASE n = 1
      <4>1. seqn.current - 1 = 0
        BY <1>1, <3>3
      <4> QED
        BY <3>1, <3>3, <4>1 DEF CH!StartsOver, CH!Next
    <3>4. CASE n > rcv.max + 1
      <4>1. ahead
        BY <1>1, <1>2, <3>4
      <4>2. n \in 1 .. put /\ n > CH!Latest + 1
        BY <1>1, <2>1, <3>4
      <4> QED
        BY <3>1, <4>1, <4>2 DEF CH!LeavesOut, CH!Next
    <3>5. n = 1 \/ n = rcv.max + 1 \/ n > rcv.max + 1
      BY <1>1, <2>3
    <3> QED
      BY <3>2, <3>3, <3>4, <3>5
  <2> QED
    BY <1>1, <1>6, <2>2, <2>3
<1> QED
  BY <1>5, <1>6

LEMMA StepChannel ==
    ASSUME WireInv, [WireNext]_vars
    PROVE  [CH!Next]_(CH!vars)
<1>1. CASE Put
  BY <1>1, PutChannel DEF CH!Next
<1>2. CASE Take \/ Process \/ SendFails \/ Processed
  BY <1>2, UnseenStep DEF Take, Process, SendFails, Processed
<1>3. CASE SendFirst
  BY <1>3, SendFirstChannel
<1>4. CASE Attach \/ Pause \/ Break
  BY <1>4, UnseenStep DEF Attach, Pause, Break, procVars
<1>5. CASE Resume
  BY <1>5, ResumeChannel
<1>6. CASE Acknowledge
  <2>1. seqn' = [seqn EXCEPT !.acked = IF Head(acks) > @ THEN Head(acks) ELSE @]
        /\ put' = put /\ rcv' = rcv /\ ahead' = ahead
    BY <1>6 DEF Acknowledge
  <2>2. seqn'.current = seqn.current
    BY <2>1, Counters DEF WireInv
  <2> QED
    BY <2>1, <2>2, UnseenStep
<1>7. CASE Receive
  BY <1>7, ReceiveChannel
<1>8. CASE UNCHANGED vars
  BY <1>8, UnseenStep DEF vars
<1> QED
  BY <1>1, <1>2, <1>3, <1>4, <1>5, <1>6, <1>7, <1>8 DEF WireNext, AsyncThread, SocketThread

\* The wire, through all its connections, is a channel.
THEOREM WireIsAChannel == WireSpec => ImplementsChannel
<1>1. WireInit => CH!Init
  BY InitChannel
<1>2. WireInv /\ [WireNext]_vars => [CH!Next]_(CH!vars)
  BY StepChannel
<1> QED
  BY <1>1, <1>2, WireInvariance, PTL DEF WireSpec, ImplementsChannel, CH!Spec
=============================================================================
