-------------------------------- MODULE Wire --------------------------------
(***************************************************************************)
(* One direction of the RD wire of the RiderLink plugin: a sender's        *)
(* ByteBufferAsyncProcessor over its SocketWire, and the SocketWire of the *)
(* counterpart that receives.  A connection breaks and is made again; the  *)
(* sender keeps what is not acknowledged and sends it once more.           *)
(*                                                                         *)
(* The sender's threads: the callers of send(), the async thread           *)
(* (ThreadProc), and the socket's thread, which attaches a new connection, *)
(* resumes the processor, reads acknowledgements until the connection is   *)
(* dead, and pauses the processor.  An action is what a thread does under  *)
(* one lock; reprocess() is one action, because it holds both of them.     *)
(*                                                                         *)
(* A message is the number of its put.  A package carries one message.     *)
(* TCP keeps the order; when it breaks, what is under way is cut off       *)
(* somewhere.  Pings, stopping the wire, and a counterpart that restarts   *)
(* are not modelled.                                                       *)
(***************************************************************************)
EXTENDS Integers, Sequences

CONSTANTS
    MaxPut,     \* bound: messages
    MaxBreaks   \* bound: connections that break

ASSUME WireAssumption == MaxPut \in Nat /\ MaxBreaks \in Nat

VARIABLES
    put,        \* messages put so far (auxiliary)
    data,       \* put, not yet taken by the async thread
    queue,      \* taken, to be sent for the first time
    pending,    \* pending_queue: sent, kept for sending again
    seqn,       \* the processor's sequence numbers
    paused,     \* interrupt_balance
    thread,     \* where the async thread is
    conn,       \* the sender's connection
    breaks,     \* connections broken so far
    net, acks,  \* what is under way: packages, and acknowledgements coming back
    rcv,        \* the receiver
    ahead       \* whether the async thread has ever written to a connection ahead of resume(),
                \* which has yet to send the older messages again (auxiliary)

procVars == <<data, queue, pending, seqn, paused, thread>>
vars == <<put, data, queue, pending, seqn, paused, thread, conn, breaks, net, acks, rcv, ahead>>

Message == 1 .. MaxPut
Package == [seqn : Nat, msg : Message]

WireTypeOK ==
    /\ put \in 0 .. MaxPut
    /\ data \in Seq(Message) /\ queue \in Seq(Message) /\ pending \in Seq(Message)
    /\ seqn \in [maxSent : 0 .. MaxPut, current : 1 .. MaxPut + 1, acked : 0 .. MaxPut]
    /\ paused \in 0 .. 1
    /\ thread \in {"idle", "taken", "sending"}
    /\ conn \in [stage : {"down", "attached", "up"}, alive : BOOLEAN]
    /\ breaks \in 0 .. MaxBreaks
    /\ net \in Seq(Package) /\ acks \in Seq(1 .. MaxPut)
    /\ rcv \in [max : 0 .. MaxPut, delivered : Seq(Message), garbled : BOOLEAN]
    /\ ahead \in BOOLEAN

\* The wire's constructor pauses the processor until there is a connection.
WireInit == /\ put = 0
            /\ data = <<>> /\ queue = <<>> /\ pending = <<>>
            /\ seqn = [maxSent |-> 0, current |-> 1, acked |-> 0]
            /\ paused = 1
            /\ thread = "idle"
            /\ conn = [stage |-> "down", alive |-> FALSE]
            /\ breaks = 0
            /\ net = <<>> /\ acks = <<>>
            /\ rcv = [max |-> 0, delivered |-> <<>>, garbled |-> FALSE]
            /\ ahead = FALSE

----------------------------------------------------------------------------
(* The callers and the async thread. *)

Put == /\ put < MaxPut
       /\ put' = put + 1
       /\ data' = Append(data, put + 1)
       /\ UNCHANGED <<queue, pending, seqn, paused, thread, conn,
                      breaks, net, acks, rcv, ahead>>

\* `lock` is given up here, and process() has yet to ask for the others.
Take == /\ thread = "idle"
        /\ data # <<>>
        /\ paused = 0
        /\ queue' = queue \o data
        /\ data' = <<>>
        /\ thread' = "taken"
        /\ UNCHANGED <<put, pending, seqn, paused, conn, breaks, net, acks, rcv, ahead>>

Process == /\ thread = "taken"
           /\ thread' = "sending"
           /\ UNCHANGED <<put, data, queue, pending, seqn, paused, conn,
                          breaks, net, acks, rcv, ahead>>

\* What is written to a dead connection is lost; the first writes may still seem to succeed.
Transmitted(packages) == IF conn.alive THEN net \o packages ELSE net

SendFirst == /\ thread = "sending"
             /\ queue # <<>>
             /\ net' = Transmitted(<<[seqn |-> seqn.maxSent + 1, msg |-> Head(queue)]>>)
             /\ seqn' = [seqn EXCEPT !.maxSent = @ + 1]
             /\ pending' = Append(pending, Head(queue))
             /\ queue' = Tail(queue)
             /\ ahead' = (ahead \/ (conn.alive /\ conn.stage = "attached"))
             /\ UNCHANGED <<put, data, paused, thread, conn, breaks, acks, rcv>>

\* Mutant: a message that could not be sent is dropped from the queue.
SendFailsAndDrops == /\ thread = "sending"
                     /\ queue # <<>>
                     /\ ~conn.alive
                     /\ queue' = Tail(queue)
                     /\ thread' = "idle"
                     /\ UNCHANGED <<put, data, pending, seqn, paused, conn,
                                    breaks, net, acks, rcv, ahead>>

SendFails == /\ thread = "sending"
             /\ queue # <<>>
             /\ ~conn.alive
             /\ thread' = "idle"
             /\ UNCHANGED <<put, data, queue, pending, seqn, paused, conn,
                            breaks, net, acks, rcv, ahead>>

Processed == /\ thread = "sending"
             /\ queue = <<>>
             /\ thread' = "idle"
             /\ UNCHANGED <<put, data, queue, pending, seqn, paused, conn,
                            breaks, net, acks, rcv, ahead>>

----------------------------------------------------------------------------
(* The socket's thread. *)

\* A new connection is made only when both ends are done with the old one.
Attach == /\ conn.stage = "down"
          /\ net = <<>>
          /\ conn' = [stage |-> "attached", alive |-> TRUE]
          /\ UNCHANGED <<put, procVars, breaks, net, acks, rcv, ahead>>

\* Mutant: what was sent before the connection broke is not sent again.
ResentNone(kept, first) == <<>>

Resent(kept, first) == [i \in 1 .. Len(kept) |-> [seqn |-> first + i - 1, msg |-> kept[i]]]

\* Mutant: a message that is under way is taken for acknowledged.
DroppedUpToOneMore == IF seqn.acked < seqn.maxSent THEN seqn.acked + 1 ELSE seqn.acked

\* Mutant: the last acknowledged message is kept.
DroppedUpToOneLess == IF seqn.acked >= seqn.current THEN seqn.acked - 1 ELSE seqn.acked

\* The last message reprocess() drops.
DroppedUpTo == seqn.acked

\* Mutant: resume() does not take back the pause.
InterruptedStill == paused

Resumed == paused - 1

\* resume() with reprocess(): it waits for process() to end, drops what is acknowledged and
\* sends the rest again.
Resume ==
    LET kept == SubSeq(pending, DroppedUpTo - seqn.current + 2, Len(pending))
    IN  /\ conn.stage = "attached"
        /\ thread # "sending"
        /\ pending' = kept
        /\ seqn' = [seqn EXCEPT !.current = DroppedUpTo + 1]
        /\ net' = Transmitted(Resent(kept, DroppedUpTo + 1))
        /\ paused' = Resumed
        /\ conn' = [conn EXCEPT !.stage = "up"]
        /\ UNCHANGED <<put, data, queue, thread, breaks, acks, rcv, ahead>>

Acknowledge == /\ conn.stage = "up"
               /\ acks # <<>>
               /\ seqn' = [seqn EXCEPT !.acked = IF Head(acks) > @ THEN Head(acks) ELSE @]
               /\ acks' = Tail(acks)
               /\ UNCHANGED <<put, data, queue, pending, paused, thread, conn,
                              breaks, net, rcv, ahead>>

\* The receiver loop finds the connection dead; pause() waits for process(), but not for a
\* thread that is on its way to it, with messages it has taken.
Pause == /\ conn.stage = "up"
         /\ ~conn.alive
         /\ acks = <<>>
         /\ thread # "sending"
         /\ paused' = paused + 1
         /\ conn' = [conn EXCEPT !.stage = "down"]
         /\ UNCHANGED <<put, data, queue, pending, seqn, thread, breaks, net, acks, rcv, ahead>>

----------------------------------------------------------------------------
(* The network and the receiver. *)

Prefixes(s) == {SubSeq(s, 1, n) : n \in 0 .. Len(s)}

Break == /\ conn.alive
         /\ breaks < MaxBreaks
         /\ breaks' = breaks + 1
         /\ conn' = [conn EXCEPT !.alive = FALSE]
         /\ net' \in Prefixes(net)
         /\ acks' \in Prefixes(acks)
         /\ UNCHANGED <<put, procVars, rcv, ahead>>

IsRepeat(n) == n <= rcv.max /\ n # 1

\* read_package().  It acknowledges every package.  For one it has had already it returns
\* `true`, a length of one: a stray byte enters the stream of messages, and from then on none
\* of them is read whole.
Receive ==
    LET p == Head(net)
    IN  /\ net # <<>>
        /\ net' = Tail(net)
        /\ acks' = IF conn.alive THEN Append(acks, p.seqn) ELSE acks
        /\ rcv' = IF IsRepeat(p.seqn) THEN [rcv EXCEPT !.garbled = TRUE]
                  ELSE [rcv EXCEPT !.max = p.seqn,
                                   !.delivered = IF rcv.garbled THEN @ ELSE Append(@, p.msg)]
        /\ UNCHANGED <<put, procVars, conn, breaks, ahead>>

----------------------------------------------------------------------------
AsyncThread == Take \/ Process \/ SendFirst \/ SendFails \/ Processed
SocketThread == Attach \/ Resume \/ Acknowledge \/ Pause

WireNext == Put \/ AsyncThread \/ SocketThread \/ Break \/ Receive

WireSpec == WireInit /\ [][WireNext]_vars

\* The threads run, connections are made again, and the receiver reads.  Nobody has to put
\* anything; connections break, but MaxBreaks times only.
WireFairSpec == /\ WireSpec
                /\ WF_vars(AsyncThread)
                /\ WF_vars(SocketThread)
                /\ WF_vars(Receive)

----------------------------------------------------------------------------
(* Properties. *)

InARowFrom(s, first) == \A i \in 1 .. Len(s) : s[i] = first + i - 1

\* On the sender nothing is ever lost, doubled or reordered: what was put is, in that order,
\* what is kept for sending again, what waits to be sent, and what waits to be taken, behind
\* those that were acknowledged and dropped; and the number a message is kept under, by its
\* place in pending_queue, is the one it was sent with.
SenderKeepsOrder ==
    /\ InARowFrom(pending, seqn.current)
    /\ InARowFrom(queue, seqn.maxSent + 1)
    /\ InARowFrom(data, seqn.maxSent + Len(queue) + 1)
    /\ Len(pending) = seqn.maxSent - seqn.current + 1
    /\ seqn.maxSent + Len(queue) + Len(data) = put

Received == {rcv.delivered[i] : i \in 1 .. Len(rcv.delivered)}

\* A message the sender has dropped was delivered, unless the stream was garbled before.
NothingLost == \A m \in 1 .. seqn.current - 1 : m \in Received \/ rcv.garbled

\* No message is delivered before the one put before it: the stream is continuous, and can
\* only start over from the first message (which is accepted whenever it comes).
NoGap == \A i \in 1 .. Len(rcv.delivered) :
    \/ rcv.delivered[i] = 1
    \/ i > 1 /\ rcv.delivered[i] = rcv.delivered[i - 1] + 1

\* "Acknowledge {} called, while next seqn MUST BE greater than {}"
\* (ByteBufferAsyncProcessor.cpp:259): the next acknowledgement to be read is of a package
\* beyond the last one acknowledged.  The code does not keep to it.
AcksIncrease == acks # <<>> => Head(acks) > seqn.acked

\* The message at ByteBufferAsyncProcessor.cpp:259 is not logged, however often the connection
\* breaks, as long as the async thread, held up between its two locks while pause() goes by
\* (:161, :111), has not written to the next connection ahead of resume().
AcksIncreaseTillAhead == ahead \/ AcksIncrease

\* What was sent once arrives in the end, however often the connection breaks meanwhile,
\* unless the stream is garbled or the async thread writes ahead of resume().  (What was put
\* need not be sent: a message whose first sending failed stays in the queue until another one
\* is put; ByteBufferAsyncProcessor.cpp:144.)
SentArrives ==
    \A m \in Message : seqn.maxSent >= m ~> m \in Received \/ rcv.garbled \/ ahead

----------------------------------------------------------------------------
(* What the wire promises, abstractly (Channel.tla). *)

CH == INSTANCE Channel WITH
        handed    <- put,
        forgotten <- seqn.current - 1,
        stream    <- rcv.delivered,
        spoiled   <- rcv.garbled,
        raced     <- ahead

\* Wherever the connections break, the wire is a channel: what was put comes out in that order,
\* none overtaken, left out or made up; the stream starts over only while the first message is
\* still kept; and what reprocess() drops has come out.  Once the async thread has written
\* ahead of resume(), messages may be left out and dropped before they come out; what comes
\* out is still in order.
ImplementsChannel == CH!Spec

----------------------------------------------------------------------------
(* The inductive invariant behind the safety properties. *)

\* What the sender's counters and its connection have to do with each other, and what under
\* way can be: nothing that was not sent, and nothing that is not kept any more.
SenderSound ==
    /\ seqn.current - 1 <= seqn.acked /\ seqn.acked <= seqn.maxSent /\ seqn.maxSent <= put
    /\ paused = 0 <=> conn.stage = "up"
    /\ conn.alive => conn.stage # "down"
    /\ \A i \in 1 .. Len(net) : net[i].msg = net[i].seqn /\ net[i].seqn <= seqn.maxSent
    /\ \A i \in 1 .. Len(acks) : acks[i] <= seqn.maxSent
    /\ rcv.max <= seqn.maxSent

\* Nothing is under way that the sender does not keep; what goes ahead of resume() was not
\* acknowledged.
StillKept == \A i \in 1 .. Len(net) :
    /\ net[i].seqn >= seqn.current
    /\ conn.stage = "attached" => net[i].seqn > seqn.acked

\* The receiver counts what it had last.
CountsLatest ==
    rcv.garbled \/ rcv.max = IF rcv.delivered = <<>> THEN 0
                             ELSE rcv.delivered[Len(rcv.delivered)]

\* Between two connections nothing is acknowledged, and nothing is sent before resume().
Between == /\ conn.stage # "up" => acks = <<>>
           /\ conn.stage = "attached" => net = <<>>

\* Acknowledgements and packages come in a row; on a living connection nothing is missing
\* between what was acknowledged last and what was sent last.
InARow ==
    /\ InARowFrom(acks, seqn.acked + 1)
    /\ \A i \in 1 .. Len(net) : net[i].seqn = net[1].seqn + i - 1
    /\ net # <<>> => /\ seqn.acked + Len(acks) < net[1].seqn
                     /\ net[1].seqn <= rcv.max + 1
    /\ seqn.acked + Len(acks) <= rcv.max
    /\ (conn.alive /\ conn.stage = "up") =>
            /\ Len(acks) + Len(net) = seqn.maxSent - seqn.acked
            /\ net # <<>> => net[1].seqn = seqn.acked + Len(acks) + 1

\* The receiver has everything up to rcv.max, which it had last.
ReceiverSound ==
    rcv.garbled \/ /\ \A m \in 1 .. rcv.max : m \in Received
                   /\ rcv.max = IF rcv.delivered = <<>> THEN 0
                                ELSE rcv.delivered[Len(rcv.delivered)]

SenderInv == WireTypeOK /\ SenderKeepsOrder /\ SenderSound

\* Both ends, as long as nothing was written ahead of resume().
OrderInv == SenderInv /\ Between /\ InARow /\ ReceiverSound /\ NoGap

WireInv == SenderInv /\ StillKept /\ CountsLatest /\ (ahead \/ OrderInv)
=============================================================================
