-------------------------------- MODULE Stream --------------------------------
(***************************************************************************)
(* TCPSocket::send and TCPSocket::receive over one connection: a frame is  *)
(* a length prefix and a payload, several threads send on one descriptor,  *)
(* the kernel takes and gives any number of bytes at a time.  A byte on    *)
(* the wire is a pair <<m, i>>, the i-th of the frame of message m.        *)
(***************************************************************************)
EXTENDS Naturals, Sequences, FiniteSets, SequencesExt

CONSTANTS
    Messages,      \* the packets to be sent, each by a thread of its own
    Size,          \* Size[m]: bytes of m
    PrefixLen,     \* bytes of the length prefix (4)
    MaxPacketSize, \* MAX_PACKET_SIZE
    Cap,           \* the buffer of the reader
    Stalls         \* can the bytes of a frame come further apart than the
                   \* reader's receive timeout?

Garbage == "garbage"   \* a payload that is no message that was sent

ASSUME StreamSizes ==
    /\ PrefixLen \in Nat \ {0} /\ MaxPacketSize \in Nat \ {0}
    /\ Size \in [Messages -> 1..MaxPacketSize] /\ Garbage \notin Messages
    /\ Cap \in Nat \ {0} /\ Stalls \in BOOLEAN

VARIABLES
    written,   \* written[m]: bytes of the frame of m handed to the kernel
    sending,   \* the messages whose frame is being written
    wire,      \* bytes the kernel has and the reader has not
    part,      \* bytes of the piece being read (recvAll)
    phase,     \* that piece: "prefix", "payload", "sink" or, at the end, "closed"
    need,      \* the length of that piece
    got,       \* what receive has returned
    open,      \* is the connection up?
    order,     \* history: the messages in the order in which they got tx
    done       \* history: the frames received or skipped

vars == <<written, sending, wire, part, phase, need, got, open, order, done>>

Frame(m) == [i \in 1..PrefixLen + Size[m] |-> <<m, i>>]
Prefix(m) == SubSeq(Frame(m), 1, PrefixLen)
Payload(m) == SubSeq(Frame(m), PrefixLen + 1, PrefixLen + Size[m])

Init ==
    /\ written = [m \in Messages |-> 0] /\ sending = {}
    /\ wire = <<>> /\ part = <<>> /\ phase = "prefix" /\ need = PrefixLen
    /\ got = <<>> /\ open = TRUE /\ order = <<>> /\ done = 0

-----------------------------------------------------------------------------
(* The senders *)

(* A thread enters send and gets the lock tx of the connection. *)
Send_unlocked(m) ==
    /\ open /\ m \notin sending /\ written[m] = 0
    /\ sending' = sending \cup {m}
    /\ order' = Append(order, m)
    /\ UNCHANGED <<written, wire, part, phase, need, got, open, done>>

Send(m) ==
    /\ open /\ m \notin sending /\ written[m] = 0
    /\ sending = {}
    /\ sending' = {m}
    /\ order' = Append(order, m)
    /\ UNCHANGED <<written, wire, part, phase, need, got, open, done>>

(* writevAll: the kernel takes a part of what is left of the frame; the    *)
(* rest is tried again, and the lock is released after the last byte.      *)
writevAll(m) ==
    /\ open /\ m \in sending
    /\ \E k \in written[m] + 1..Len(Frame(m)) :
        /\ wire' = wire \o SubSeq(Frame(m), written[m] + 1, k)
        /\ written' = [written EXCEPT ![m] = k]
        /\ sending' = IF k = Len(Frame(m)) THEN sending \ {m} ELSE sending
    /\ UNCHANGED <<part, phase, need, got, open, order, done>>

(* The connection breaks, or the sender dies in the middle of a frame. *)
Break ==
    /\ open
    /\ open' = FALSE
    /\ sending' = {}
    /\ UNCHANGED <<written, wire, part, phase, need, got, order, done>>

-----------------------------------------------------------------------------
(* The reader *)

(* The number that the bytes of a prefix stand for: any, when they are not *)
(* those of one prefix.                                                    *)
Lengths(bytes) ==
    IF \E m \in Messages : bytes = Prefix(m)
    THEN {Size[bytes[1][1]]}
    ELSE 0..MaxPacketSize + 1

NextFrame == part' = <<>> /\ phase' = "prefix" /\ need' = PrefixLen

(* A corrupt length ends the connection; a message that does not fit is    *)
(* consumed, so that the stream stays in step.                             *)
ReadPrefix_notConsumed(bytes) ==
    \E len \in Lengths(bytes) :
        /\ part' = <<>> /\ UNCHANGED <<got, done>>
        /\ IF len <= Cap THEN need' = len /\ phase' = "payload" ELSE NextFrame

ReadPrefix(bytes) ==
    \E len \in Lengths(bytes) :
        /\ part' = <<>> /\ need' = len
        /\ phase' = CASE len = 0 \/ len > MaxPacketSize -> "closed"
                      [] len > Cap -> "sink"
                      [] OTHER -> "payload"
        /\ UNCHANGED <<got, done>>

ReadPayload(bytes) ==
    /\ got' = Append(got, IF \E m \in Messages : bytes = Payload(m) THEN bytes[1][1] ELSE Garbage)
    /\ done' = done + 1
    /\ NextFrame

ReadSink ==
    /\ done' = done + 1
    /\ NextFrame
    /\ UNCHANGED got

(* recvAll takes some of the bytes that are there, up to the end of the    *)
(* piece, and receive goes on to the next piece.                           *)
receive ==
    \E k \in 1..need - Len(part) :
        LET read == part \o SubSeq(wire, 1, k)
        IN  /\ phase # "closed" /\ k <= Len(wire)
            /\ wire' = SubSeq(wire, k + 1, Len(wire))
            /\ IF Len(read) < need
               THEN part' = read /\ UNCHANGED <<phase, need, got, done>>
               ELSE \/ phase = "prefix" /\ ReadPrefix(read)
                    \/ phase = "payload" /\ ReadPayload(read)
                    \/ phase = "sink" /\ ReadSink
            /\ UNCHANGED <<written, sending, open, order>>

(* The receive timeout strikes, between two frames or, if the sender       *)
(* stalls, between two bytes of one: recvAll returns, and what it had read *)
(* is gone.                                                                *)
ReceiveTimeout ==
    /\ phase # "closed" /\ wire = <<>> /\ open
    /\ Stalls \/ (phase = "prefix" /\ part = <<>>)
    /\ NextFrame
    /\ UNCHANGED <<written, sending, wire, got, open, order, done>>

EndOfStream ==
    /\ ~open /\ wire = <<>> /\ phase # "closed"
    /\ phase' = "closed"
    /\ UNCHANGED <<written, sending, wire, part, need, got, open, order, done>>

-----------------------------------------------------------------------------
Next ==
    \/ \E m \in Messages : Send(m) \/ writevAll(m)
    \/ Break \/ receive \/ ReceiveTimeout \/ EndOfStream

Spec ==
    /\ Init /\ [][Next]_vars
    /\ WF_vars(\E m \in Messages : writevAll(m)) /\ WF_vars(receive) /\ WF_vars(EndOfStream)

-----------------------------------------------------------------------------
(* Properties *)

Fits(m) == Size[m] <= Cap

Fifo == INSTANCE PacketFifo WITH
    queue <- IF phase = "closed" THEN <<>> ELSE SubSeq(order, done + 1, Len(order))

(* However the kernel cuts the bytes and the threads take turns, the       *)
(* connection is a queue of whole packets: nothing is mixed, repeated or   *)
(* left out but what does not fit, and everything sent comes out unless    *)
(* the connection breaks (send, "a length prefix followed by somebody      *)
(* else's payload"; receive, "stream kept in sync").                       *)
ImplementsFifo == Fifo!Spec

(* receive, "consume it so the stream stays in step": what the reader      *)
(* returns is a message that was sent.                                     *)
NeverGarbage == Garbage \notin ToSet(got)
==============================================================================
