---------------------------- MODULE Stream_proofs ----------------------------
(***************************************************************************)
(* Proofs about Stream, for any messages of any sizes, any prefix and any  *)
(* buffer: as long as the receive timeout strikes between frames only, the *)
(* reader returns nothing but messages that were sent, and every step of   *)
(* the byte stream is a step of the queue of packets PacketFifo describes, *)
(* or leaves it as it is.                                                  *)
(***************************************************************************)
EXTENDS Stream, SequenceTheorems, TLAPS

Byte == Messages \X Nat
FrameLen(m) == PrefixLen + Size[m]
LastOf(q) == q[Len(q)]

Types ==
    /\ written \in [Messages -> Nat] /\ sending \subseteq Messages
    /\ wire \in Seq(Byte) /\ part \in Seq(Byte)
    /\ phase \in {"prefix", "payload", "sink", "closed"} /\ need \in Nat
    /\ got \in Seq(Messages) /\ open \in BOOLEAN
    /\ order \in Seq(Messages) /\ done \in Nat

(* Only the last message that got the lock is still being written, and as  *)
(* long as the connection is up the lock is free only after its last byte. *)
Writing ==
    /\ \A m \in sending : order # <<>> /\ m = LastOf(order)
    /\ order # <<>> => written[LastOf(order)] <= FrameLen(LastOf(order))
    /\ open /\ order # <<>> /\ sending = {} => written[LastOf(order)] = FrameLen(LastOf(order))

(* The bytes of the frame that come before the piece being read. *)
Before == IF phase = "prefix" THEN 0 ELSE PrefixLen

(* The reader is in the frame of message number done + 1, and what it has  *)
(* is a piece of that frame.                                               *)
Reading ==
    /\ done <= Len(order)
    /\ phase # "prefix" \/ part # <<>> => done < Len(order)
    /\ \A j \in 1..Len(part) : part[j] = <<order[done + 1], Before + j>>
    /\ Len(part) < need
    /\ need = IF phase = "prefix" THEN PrefixLen ELSE Size[order[done + 1]]
    /\ phase = "payload" => need <= Cap
    /\ phase = "sink" => need > Cap

(* off[k] bytes of the stream come before the k-th frame. *)
Offsets(off) ==
    /\ off \in [1..Len(order) + 1 -> Nat]
    /\ off[1] = 0
    /\ \A k \in 1..Len(order) : off[k + 1] = off[k] + FrameLen(order[k])
    /\ \A j, k \in 1..Len(order) + 1 : j <= k => off[j] <= off[k]

(* The wire begins after the bytes the reader has consumed, ends with the  *)
(* last byte that was written, and has the frames in their order.          *)
Consumed(off) == off[done + 1] + Before + Len(part)

OnWire(off) ==
    /\ IF order = <<>> THEN wire = <<>>
       ELSE off[Len(order)] + written[LastOf(order)] = Consumed(off) + Len(wire)
    /\ \A k \in 1..Len(order), p \in 1..Len(wire) :
         \A i \in 1..FrameLen(order[k]) :
            off[k] + i = Consumed(off) + p => wire[p] = <<order[k], i>>

IInv ==
    /\ Types /\ Writing
    /\ phase = "closed" => ~open
    /\ phase # "closed" => Reading /\ \E off : Offsets(off) /\ OnWire(off)

-----------------------------------------------------------------------------
(* Frames *)

(* Sizes are positive. *)
LEMMA SizeType ==
    /\ PrefixLen \in Nat /\ PrefixLen > 0 /\ MaxPacketSize \in Nat /\ Cap \in Nat
    /\ \A m \in Messages : /\ Size[m] \in Nat /\ Size[m] > 0 /\ Size[m] <= MaxPacketSize
                           /\ FrameLen(m) \in Nat /\ FrameLen(m) = PrefixLen + Size[m]
  BY StreamSizes DEF FrameLen

(* The bytes of a frame. *)
LEMMA FrameBytes ==
    ASSUME NEW m \in Messages
    PROVE  /\ Frame(m) \in Seq(Byte) /\ Len(Frame(m)) = FrameLen(m)
           /\ \A i \in 1..FrameLen(m) : Frame(m)[i] = <<m, i>>
  BY SizeType DEF Frame, Byte, FrameLen

(* A piece of a sequence. *)
LEMMA Piece ==
    ASSUME NEW S, NEW s \in Seq(S), NEW a \in Nat \ {0}, NEW b \in Nat, a <= b + 1, b <= Len(s)
    PROVE  /\ SubSeq(s, a, b) \in Seq(S) /\ Len(SubSeq(s, a, b)) = b - a + 1
           /\ \A i \in 1..b - a + 1 : SubSeq(s, a, b)[i] = s[a + i - 1]
  <1>1. \A i \in a..b : s[i] \in S
    OBVIOUS
  <1> QED BY <1>1, SubSeqProperties

(* The prefix and the payload of a message, and nothing else, have its     *)
(* bytes.                                                                  *)
LEMMA PrefixAndPayload ==
    ASSUME NEW m \in Messages, NEW read \in Seq(Byte)
    PROVE  /\ Len(read) = PrefixLen /\ (\A j \in 1..PrefixLen : read[j] = <<m, j>>) =>
                read = Prefix(m)
           /\ Len(read) = Size[m] /\ (\A j \in 1..Size[m] : read[j] = <<m, PrefixLen + j>>) =>
                read = Payload(m)
  <1>1. /\ Prefix(m) \in Seq(Byte) /\ Len(Prefix(m)) = PrefixLen
        /\ \A i \in 1..PrefixLen : Prefix(m)[i] = <<m, i>>
    <2>1. /\ Prefix(m) \in Seq(Byte) /\ Len(Prefix(m)) = PrefixLen - 1 + 1
          /\ \A i \in 1..PrefixLen - 1 + 1 : Prefix(m)[i] = Frame(m)[1 + i - 1]
      BY FrameBytes, SizeType, Piece DEF Prefix
    <2> QED BY <2>1, FrameBytes, SizeType
  <1>2. /\ Payload(m) \in Seq(Byte) /\ Len(Payload(m)) = Size[m]
        /\ \A i \in 1..Size[m] : Payload(m)[i] = <<m, PrefixLen + i>>
    <2>1. PICK a, b : a = PrefixLen + 1 /\ b = PrefixLen + Size[m]
      OBVIOUS
    <2>2. a \in Nat \ {0} /\ b \in Nat /\ a <= b + 1 /\ b <= Len(Frame(m)) /\ b - a + 1 = Size[m]
      BY <2>1, SizeType, FrameBytes
    <2>3. /\ Payload(m) \in Seq(Byte) /\ Len(Payload(m)) = b - a + 1
          /\ \A i \in 1..b - a + 1 : Payload(m)[i] = Frame(m)[a + i - 1]
      BY <2>1, <2>2, FrameBytes, Piece DEF Payload
    <2>4. \A i \in 1..Size[m] : a + i - 1 = PrefixLen + i /\ PrefixLen + i \in 1..FrameLen(m)
      BY <2>1, SizeType
    <2> QED BY <2>2, <2>3, <2>4, FrameBytes
  <1>3. ASSUME Len(read) = PrefixLen, \A j \in 1..PrefixLen : read[j] = <<m, j>>
        PROVE  read = Prefix(m)
    BY <1>1, <1>3, SeqEqual
  <1>4. ASSUME Len(read) = Size[m], \A j \in 1..Size[m] : read[j] = <<m, PrefixLen + j>>
        PROVE  read = Payload(m)
    BY <1>2, <1>4, SeqEqual
  <1> QED BY <1>3, <1>4

-----------------------------------------------------------------------------
(* The senders *)

(* A new frame begins where the last one ends. *)
LEMMA SendStep ==
    ASSUME IInv, NEW m \in Messages, Send(m)
    PROVE  IInv'
  <1>1. PICK n : n = Len(order)
    OBVIOUS
  <1>2. /\ n \in Nat /\ order' = Append(order, m) /\ order' \in Seq(Messages) /\ order' # <<>>
        /\ Len(order') = n + 1 /\ order'[n + 1] = m /\ LastOf(order') = m
        /\ \A k \in 1..n : order'[k] = order[k] /\ order[k] \in Messages
        /\ (order = <<>>) = (n = 0)
    BY <1>1 DEF Send, IInv, Types, LastOf
  <1>3. /\ written[m] = 0 /\ sending = {} /\ sending' = {m} /\ open
        /\ UNCHANGED <<written, wire, part, phase, need, got, open, done>>
    BY DEF Send
  <1>4. Types'
    BY <1>2, <1>3 DEF IInv, Types
  <1>5. Writing'
    BY <1>2, <1>3, SizeType DEF Writing
  <1>6. phase # "closed"
    BY <1>3 DEF IInv
  <1>7. /\ wire \in Seq(Byte) /\ Len(wire) \in Nat /\ part \in Seq(Byte) /\ Len(part) \in Nat
        /\ done \in Nat /\ Before \in Nat
    BY SizeType DEF IInv, Types, Before
  <1>8. Reading /\ Before' = Before
    BY <1>3, <1>6 DEF IInv, Before
  <1>9. Reading'
    <2>1. done <= n /\ (phase # "prefix" \/ part # <<>> => done < n)
      BY <1>1, <1>8 DEF Reading
    <2>2. done' <= Len(order') /\ (phase' # "prefix" \/ part' # <<>> => done' < Len(order'))
      BY <1>2, <1>3, <1>7, <2>1
    <2>3. phase # "prefix" \/ part # <<>> => order'[done + 1] = order[done + 1]
      BY <1>2, <1>7, <2>1
    <2>4. \A j \in 1..Len(part') : part'[j] = <<order'[done' + 1], Before' + j>>
      <3>1. CASE part = <<>>
        BY <1>3, <3>1
      <3>2. CASE part # <<>>
        BY <1>3, <1>8, <2>3, <3>2 DEF Reading
      <3> QED BY <3>1, <3>2
    <2>5. need' = IF phase' = "prefix" THEN PrefixLen ELSE Size[order'[done' + 1]]
      BY <1>3, <1>8, <2>3 DEF Reading
    <2> QED BY <1>3, <1>8, <2>2, <2>4, <2>5 DEF Reading
  <1>10. PICK off : Offsets(off) /\ OnWire(off)
    BY <1>6 DEF IInv
  <1>11. /\ off \in [1..n + 1 -> Nat] /\ off[1] = 0
         /\ \A k \in 1..n : off[k + 1] = off[k] + FrameLen(order[k])
         /\ \A j, k \in 1..n + 1 : j <= k => off[j] <= off[k]
    BY <1>1, <1>10 DEF Offsets
  <1>12. PICK ext : ext = [k \in 1..n + 2 |-> IF k <= n + 1 THEN off[k] ELSE off[n + 1] + FrameLen(m)]
    OBVIOUS
  <1>13. /\ ext \in [1..n + 2 -> Nat] /\ \A k \in 1..n + 1 : ext[k] = off[k]
         /\ ext[n + 2] = off[n + 1] + FrameLen(m) /\ FrameLen(m) \in Nat
    BY <1>2, <1>11, <1>12, SizeType
  <1>14. Offsets(ext)'
    <2>1. ext \in [1..Len(order') + 1 -> Nat] /\ ext[1] = 0
      BY <1>2, <1>11, <1>13
    <2>2. \A k \in 1..Len(order') : ext[k + 1] = ext[k] + FrameLen(order'[k])
      <3> SUFFICES ASSUME NEW k \in 1..n + 1 PROVE ext[k + 1] = ext[k] + FrameLen(order'[k])
        BY <1>2
      <3>1. CASE k = n + 1
        BY <1>2, <1>13, <3>1
      <3>2. CASE k # n + 1
        <4>1. k \in 1..n /\ k + 1 \in 1..n + 1
          BY <1>2, <3>2
        <4> QED BY <1>2, <1>11, <1>13, <4>1
      <3> QED BY <3>1, <3>2
    <2>3. \A j, k \in 1..Len(order') + 1 : j <= k => ext[j] <= ext[k]
      <3> SUFFICES ASSUME NEW j \in 1..n + 2, NEW k \in 1..n + 2, j <= k PROVE ext[j] <= ext[k]
        BY <1>2
      <3>1. CASE k <= n + 1
        BY <1>2, <1>11, <1>13, <3>1
      <3>2. CASE k = n + 2 /\ j <= n + 1
        <4>1. off[j] <= off[n + 1] /\ off[j] \in Nat /\ off[n + 1] \in Nat
          BY <1>2, <1>11, <3>2
        <4> QED BY <1>2, <1>13, <3>2, <4>1
      <3>3. CASE k = n + 2 /\ j = n + 2
        BY <1>2, <1>13, <3>3
      <3> QED BY <1>2, <3>1, <3>2, <3>3
    <2> QED BY <2>1, <2>2, <2>3 DEF Offsets
  <1>15. /\ Consumed(ext)' = Consumed(off) /\ Consumed(off) \in Nat
    <2>1. done + 1 \in 1..n + 1
      BY <1>1, <1>7, <1>8 DEF Reading
    <2> QED BY <1>3, <1>7, <1>8, <1>11, <1>13, <2>1 DEF Consumed
  <1>16. ext[n + 1] + written[m] = Consumed(off) + Len(wire)
    <2>1. CASE n = 0
      <3>1. done = 0 /\ part = <<>> /\ phase = "prefix" /\ wire = <<>>
        BY <1>1, <1>2, <1>7, <1>8, <1>10, <2>1 DEF Reading, OnWire
      <3> QED BY <1>3, <1>11, <1>13, <2>1, <3>1 DEF Consumed, Before
    <2>2. CASE n # 0
      <3>1. off[n] + written[LastOf(order)] = Consumed(off) + Len(wire)
        BY <1>1, <1>2, <1>10, <2>2 DEF OnWire
      <3>2. written[LastOf(order)] = FrameLen(order[n])
        BY <1>1, <1>2, <1>3, <2>2 DEF IInv, Writing, LastOf
      <3>3. off[n + 1] = off[n] + FrameLen(order[n]) /\ off[n + 1] \in Nat
        BY <1>2, <1>11, <2>2
      <3>4. ext[n + 1] = off[n + 1]
        BY <1>2, <1>13
      <3> QED BY <1>3, <3>1, <3>2, <3>3, <3>4
    <2> QED BY <2>1, <2>2
  <1>17. ASSUME NEW k \in 1..n + 1, NEW p \in 1..Len(wire), NEW i \in 1..FrameLen(order'[k]),
                ext[k] + i = Consumed(off) + p
         PROVE  wire[p] = <<order'[k], i>>
    <2>1. CASE k = n + 1
      <3>1. ext[n + 1] \in Nat /\ i \in Nat /\ i > 0 /\ FrameLen(m) \in Nat
        BY <1>2, <1>11, <1>13, <1>17, <2>1
      <3> QED BY <1>3, <1>7, <1>15, <1>16, <1>17, <2>1, <3>1
    <2>2. CASE k # n + 1
      <3>1. k \in 1..n /\ k \in 1..n + 1
        BY <1>2, <2>2
      <3>2. order'[k] = order[k] /\ off[k] + i = Consumed(off) + p
        BY <1>2, <1>13, <1>17, <3>1
      <3> QED BY <1>1, <1>10, <1>17, <3>1, <3>2 DEF OnWire
    <2> QED BY <2>1, <2>2
  <1>18. OnWire(ext)'
    <2>1. ext[Len(order')] + written'[LastOf(order')] = Consumed(ext)' + Len(wire')
      BY <1>2, <1>3, <1>15, <1>16
    <2> QED BY <1>2, <1>3, <1>15, <1>17, <2>1 DEF OnWire
  <1> QED BY <1>3, <1>4, <1>5, <1>6, <1>9, <1>14, <1>18 DEF IInv

(* The kernel takes the next bytes of the frame whose thread has the lock. *)
LEMMA WriteStep ==
    ASSUME IInv, NEW m \in Messages, writevAll(m)
    PROVE  IInv'
  <1>1. PICK k \in written[m] + 1..Len(Frame(m)) :
            /\ wire' = wire \o SubSeq(Frame(m), written[m] + 1, k)
            /\ written' = [written EXCEPT ![m] = k]
            /\ sending' = IF k = Len(Frame(m)) THEN sending \ {m} ELSE sending
    BY DEF writevAll
  <1>2. /\ m \in sending /\ open
        /\ UNCHANGED <<part, phase, need, got, open, order, done>>
    BY DEF writevAll
  <1>3. PICK n, w : n = Len(order) /\ w = written[m]
    OBVIOUS
  <1>4. /\ n \in Nat \ {0} /\ order # <<>> /\ order[n] = m /\ LastOf(order) = m /\ w \in Nat
        /\ \A j \in 1..n : order[j] \in Messages
    BY <1>2, <1>3 DEF IInv, Types, Writing, LastOf
  <1>5. Len(Frame(m)) = FrameLen(m) /\ FrameLen(m) \in Nat /\ k \in Nat /\ w + 1 <= k /\ k <= FrameLen(m)
    BY <1>1, <1>3, <1>4, FrameBytes, SizeType
  <1>6. PICK bytes : bytes = SubSeq(Frame(m), w + 1, k)
    OBVIOUS
  <1>7. /\ bytes \in Seq(Byte) /\ Len(bytes) = k - w
        /\ \A q \in 1..k - w : bytes[q] = <<m, w + q>>
    <2>1. /\ bytes \in Seq(Byte) /\ Len(bytes) = k - (w + 1) + 1
          /\ \A q \in 1..k - (w + 1) + 1 : bytes[q] = Frame(m)[w + 1 + q - 1]
      BY <1>4, <1>5, <1>6, FrameBytes, Piece
    <2>2. k - (w + 1) + 1 = k - w
      BY <1>4, <1>5
    <2>3. \A q \in 1..k - w : w + 1 + q - 1 = w + q /\ w + q \in 1..FrameLen(m)
      BY <1>4, <1>5
    <2> QED BY <2>1, <2>2, <2>3, FrameBytes
  <1>8. /\ wire \in Seq(Byte) /\ Len(wire) \in Nat
        /\ wire' = wire \o bytes
        /\ wire' \in Seq(Byte) /\ Len(wire') = Len(wire) + (k - w)
        /\ \A p \in 1..Len(wire) : wire'[p] = wire[p]
        /\ \A q \in 1..k - w : wire'[Len(wire) + q] = <<m, w + q>>
    <2>1. wire \in Seq(Byte) /\ Len(wire) \in Nat /\ wire' = wire \o bytes
      BY <1>1, <1>3, <1>6 DEF IInv, Types
    <2>2. /\ wire' \in Seq(Byte) /\ Len(wire') = Len(wire) + Len(bytes)
          /\ \A i \in 1..Len(wire) + Len(bytes) : wire'[i] =
                    IF i <= Len(wire) THEN wire[i] ELSE bytes[i - Len(wire)]
      BY <1>7, <2>1, ConcatProperties
    <2>3. \A p \in 1..Len(wire) : wire'[p] = wire[p]
      BY <1>4, <1>5, <1>7, <2>1, <2>2
    <2>4. \A q \in 1..k - w : /\ Len(wire) + q \in 1..Len(wire) + Len(bytes)
                              /\ ~(Len(wire) + q <= Len(wire)) /\ Len(wire) + q - Len(wire) = q
      BY <1>4, <1>5, <1>7, <2>1
    <2> QED BY <1>7, <2>1, <2>2, <2>3, <2>4
  <1>9. written' \in [Messages -> Nat] /\ written'[m] = k
    BY <1>1, <1>5 DEF IInv, Types
  <1>10. Types'
    BY <1>1, <1>2, <1>8, <1>9 DEF IInv, Types
  <1>11. Writing'
    <2>1. sending \subseteq {m}
      BY <1>4 DEF IInv, Writing
    <2>2. sending' = {} => k = FrameLen(m)
      BY <1>1, <1>2, <1>5
    <2>3. sending' \subseteq {m}
      BY <1>1, <2>1
    <2> QED BY <1>2, <1>4, <1>5, <1>9, <2>2, <2>3 DEF Writing
  <1>12. phase # "closed"
    BY <1>2 DEF IInv
  <1>13. Reading'
    BY <1>2, <1>12 DEF IInv, Reading, Before
  <1>14. PICK off : Offsets(off) /\ OnWire(off)
    BY <1>12 DEF IInv
  <1>15. Offsets(off)'
    BY <1>2, <1>14 DEF Offsets
  <1>16. Consumed(off)' = Consumed(off) /\ Consumed(off) \in Nat
    <2>1. done + 1 \in 1..n + 1 /\ off \in [1..n + 1 -> Nat] /\ Before \in Nat /\ Len(part) \in Nat
      BY <1>3, <1>12, <1>14, SizeType DEF IInv, Types, Reading, Offsets, Before
    <2> QED BY <1>2, <2>1 DEF Consumed, Before
  <1>17. off[n] + w = Consumed(off) + Len(wire) /\ off[n] \in Nat
    BY <1>3, <1>4, <1>14 DEF OnWire, Offsets
  <1>18. ASSUME NEW j \in 1..n, NEW p \in 1..Len(wire'), NEW i \in 1..FrameLen(order[j]),
                off[j] + i = Consumed(off) + p
         PROVE  wire'[p] = <<order[j], i>>
    <2>1. CASE p <= Len(wire)
      <3>1. p \in 1..Len(wire)
        BY <1>5, <1>8, <2>1
      <3> QED BY <1>3, <1>8, <1>14, <1>18, <3>1 DEF OnWire
    <2>2. CASE p > Len(wire)
      <3>1. PICK q : q = p - Len(wire)
        OBVIOUS
      <3>2. q \in 1..k - w /\ p = Len(wire) + q
        BY <1>4, <1>5, <1>8, <2>2, <3>1
      <3>3. off[j] \in Nat
        <4>1. off \in [1..n + 1 -> Nat] /\ j \in 1..n + 1
          BY <1>3, <1>4, <1>14 DEF Offsets
        <4> QED BY <4>1
      <3>4. FrameLen(order[j]) \in Nat /\ i \in Nat /\ i <= FrameLen(order[j])
        <4>1. FrameLen(order[j]) \in Nat
          BY <1>4, SizeType
        <4> QED BY <4>1
      <3>5. off[j] + i = off[n] + w + q
        <4>1. PICK c, l, x, y : c = Consumed(off) /\ l = Len(wire) /\ x = off[j] /\ y = off[n]
          OBVIOUS
        <4>2. /\ c \in Nat /\ l \in Nat /\ x \in Nat /\ y \in Nat
              /\ x + i = c + p /\ p = l + q /\ y + w = c + l
          BY <1>8, <1>16, <1>17, <1>18, <3>2, <3>3, <4>1
        <4>3. w \in Nat /\ i \in Nat /\ q \in Int
          BY <1>4, <1>5, <3>2, <3>4
        <4>4. x + i = y + w + q
          BY <4>2, <4>3
        <4> QED BY <4>1, <4>4
      <3>6. j = n
        <4> SUFFICES ASSUME j # n PROVE FALSE
          OBVIOUS
        <4>1. j + 1 \in 1..n + 1 /\ n \in 1..n + 1 /\ j + 1 <= n
          BY <1>4
        <4>2. off[j + 1] = off[j] + FrameLen(order[j]) /\ off[j + 1] <= off[n]
          BY <1>3, <1>14, <4>1 DEF Offsets
        <4>3. PICK x, y, l : x = off[j] /\ y = off[n] /\ l = FrameLen(order[j])
          OBVIOUS
        <4>4. x \in Nat /\ y \in Nat /\ l \in Nat /\ i <= l /\ x + i = y + w + q /\ x + l <= y
          BY <1>17, <3>3, <3>4, <3>5, <4>2, <4>3
        <4>5. w \in Nat /\ i \in Nat /\ q \in Int /\ q > 0
          BY <1>4, <1>5, <3>2, <3>4
        <4> QED BY <4>4, <4>5
      <3>7. i = w + q
        BY <1>4, <1>5, <1>17, <3>2, <3>4, <3>5, <3>6
      <3> QED BY <1>4, <1>8, <3>2, <3>6, <3>7
    <2> QED BY <1>5, <1>8, <2>1, <2>2
  <1>19. off[n] + written'[m] = Consumed(off) + Len(wire')
    <2>1. PICK c, l, y : c = Consumed(off) /\ l = Len(wire) /\ y = off[n]
      OBVIOUS
    <2>2. c \in Nat /\ l \in Nat /\ y \in Nat /\ y + w = c + l
      BY <1>8, <1>16, <1>17, <2>1
    <2>3. y + k = c + (l + (k - w))
      BY <1>4, <1>5, <2>2
    <2> QED BY <1>8, <1>9, <2>1, <2>3
  <1>20. OnWire(off)'
    BY <1>2, <1>3, <1>4, <1>16, <1>18, <1>19 DEF OnWire
  <1> QED BY <1>2, <1>10, <1>11, <1>12, <1>13, <1>15, <1>20 DEF IInv

-----------------------------------------------------------------------------
(* The reader *)

(* What the wire begins with is what comes next of the frame being read. *)
LEMMA NextBytes ==
    ASSUME IInv, phase # "closed", NEW k \in 1..need - Len(part), k <= Len(wire)
    PROVE  /\ done < Len(order) /\ order[done + 1] \in Messages
           /\ \A j \in 1..k : wire[j] = <<order[done + 1], Before + Len(part) + j>>
  <1>1. PICK n, c, l, w : n = Len(order) /\ c = Len(part) /\ l = Len(wire) /\ w = written[LastOf(order)]
    OBVIOUS
  <1>2. /\ n \in Nat /\ c \in Nat /\ l \in Nat /\ done \in Nat /\ Before \in Nat /\ need \in Nat
        /\ \A j \in 1..n : order[j] \in Messages
        /\ (order = <<>>) = (n = 0)
    BY <1>1, SizeType DEF IInv, Types, Before
  <1>3. Reading
    BY DEF IInv
  <1>4. PICK off : Offsets(off) /\ OnWire(off)
    BY DEF IInv
  <1>5. /\ off \in [1..n + 1 -> Nat] /\ done <= n
        /\ \A j \in 1..n : off[j + 1] = off[j] + FrameLen(order[j])
    BY <1>1, <1>3, <1>4 DEF Offsets, Reading
  <1>6. done < n
    <2> SUFFICES ASSUME done = n PROVE FALSE
      BY <1>2, <1>5
    <2>1. phase = "prefix" /\ part = <<>> /\ c = 0 /\ Before = 0
      BY <1>1, <1>2, <1>3 DEF Reading, Before
    <2>2. CASE n = 0
      BY <1>1, <1>2, <1>4, <2>2 DEF OnWire
    <2>3. CASE n # 0
      <3>1. order[n] \in Messages /\ LastOf(order) = order[n]
        BY <1>1, <1>2, <2>3 DEF LastOf
      <3>2. w \in Nat /\ w <= FrameLen(order[n]) /\ FrameLen(order[n]) \in Nat
        BY <1>1, <1>2, <2>3, <3>1, SizeType DEF IInv, Types, Writing
      <3>3. off[n] + w = off[n + 1] + l
        <4>1. off[n] + w = Consumed(off) + l
          BY <1>1, <1>2, <1>4, <2>3 DEF OnWire
        <4>2. Consumed(off) = off[n + 1] + 0 + 0
          BY <1>1, <2>1 DEF Consumed
        <4> QED BY <1>2, <1>5, <4>1, <4>2
      <3>4. off[n + 1] = off[n] + FrameLen(order[n]) /\ off[n] \in Nat
        BY <1>2, <1>5, <2>3
      <3>5. l > 0
        BY <1>1, <1>2
      <3>6. PICK x, f : x = off[n] /\ f = FrameLen(order[n])
        OBVIOUS
      <3>7. x \in Nat /\ f \in Nat /\ w <= f /\ x + w = x + f + l
        BY <3>2, <3>3, <3>4, <3>6
      <3> QED BY <1>2, <3>2, <3>5, <3>7
    <2> QED BY <2>2, <2>3
  <1>7. order[done + 1] \in Messages /\ done + 1 \in 1..n
    BY <1>2, <1>6
  <1>8. PICK f : f = FrameLen(order[done + 1])
    OBVIOUS
  <1>9. f \in Nat /\ f = PrefixLen + Size[order[done + 1]] /\ Size[order[done + 1]] \in Nat /\ PrefixLen \in Nat
    BY <1>7, <1>8, SizeType
  <1>10. Before + need <= f
    <2>1. CASE phase = "prefix"
      BY <1>3, <1>9, <2>1 DEF Reading, Before
    <2>2. CASE phase # "prefix"
      BY <1>3, <1>9, <2>2 DEF Reading, Before
    <2> QED BY <2>1, <2>2
  <1>11. ASSUME NEW j \in 1..k PROVE wire[j] = <<order[done + 1], Before + Len(part) + j>>
    <2>1. PICK i : i = Before + c + j
      OBVIOUS
    <2>2. i \in 1..f /\ j \in 1..l
      BY <1>1, <1>2, <1>9, <1>10, <2>1
    <2>3. off[done + 1] + i = Consumed(off) + j
      <3>1. PICK x : x = off[done + 1]
        OBVIOUS
      <3>2. x \in Nat
        BY <1>2, <1>5, <1>7, <3>1
      <3>3. x + i = x + Before + c + j
        <4>1. PICK b : b = Before
          OBVIOUS
        <4>2. b \in Nat /\ c \in Nat /\ j \in Int /\ i = b + c + j
          BY <1>2, <2>1, <2>2, <4>1
        <4>3. x + i = x + b + c + j
          BY <3>2, <4>2
        <4> QED BY <4>1, <4>3
      <3> QED BY <1>1, <3>1, <3>3 DEF Consumed
    <2>4. wire[j] = <<order[done + 1], i>>
      BY <1>1, <1>4, <1>7, <1>8, <2>2, <2>3 DEF OnWire
    <2> QED BY <1>1, <2>1, <2>4
  <1> QED BY <1>1, <1>6, <1>7, <1>11

(* When the reader has consumed k bytes more, the wire has lost its first  *)
(* k bytes.                                                                *)
LEMMA WireMoves ==
    ASSUME IInv, NEW off, Offsets(off), OnWire(off), NEW k \in 1..Len(wire),
           wire' = SubSeq(wire, k + 1, Len(wire)), UNCHANGED <<order, written>>,
           Consumed(off) \in Nat, Consumed(off)' = Consumed(off) + k
    PROVE  Offsets(off)' /\ OnWire(off)' /\ wire' \in Seq(Byte)
  <1>1. PICK c, l : c = Consumed(off) /\ l = Len(wire)
    OBVIOUS
  <1>2. wire \in Seq(Byte) /\ l \in Nat /\ k \in Nat /\ k <= l /\ c \in Nat
    BY <1>1 DEF IInv, Types
  <1>3. /\ wire' \in Seq(Byte) /\ Len(wire') = l - k
        /\ \A p \in 1..l - k : wire'[p] = wire[p + k]
    <2>1. /\ wire' \in Seq(Byte) /\ Len(wire') = l - (k + 1) + 1
          /\ \A p \in 1..l - (k + 1) + 1 : wire'[p] = wire[k + 1 + p - 1]
      BY <1>1, <1>2, Piece
    <2>2. l - (k + 1) + 1 = l - k /\ \A p \in 1..l - k : k + 1 + p - 1 = p + k
      BY <1>2
    <2> QED BY <2>1, <2>2
  <1>4. Offsets(off)'
    BY DEF Offsets
  <1>5. order # <<>> /\ off[Len(order)] + written[LastOf(order)] = c + l
    BY <1>1, <1>2 DEF OnWire
  <1>6. off[Len(order)] + written[LastOf(order)] = Consumed(off)' + Len(wire')
    <2>1. c + l = c + k + (l - k)
      BY <1>2
    <2> QED BY <1>1, <1>3, <1>5, <2>1
  <1>7. ASSUME NEW j \in 1..Len(order), NEW p \in 1..Len(wire'), NEW i \in 1..FrameLen(order[j]),
               off[j] + i = Consumed(off)' + p
        PROVE  wire'[p] = <<order[j], i>>
    <2>1. p + k \in 1..l /\ wire'[p] = wire[p + k]
      BY <1>2, <1>3
    <2>2. off[j] + i = c + (p + k)
      <3>1. c + k + p = c + (p + k)
        BY <1>2, <1>3
      <3> QED BY <1>1, <1>7, <3>1
    <2> QED BY <1>1, <2>1, <2>2 DEF OnWire
  <1>8. OnWire(off)'
    BY <1>5, <1>6, <1>7 DEF OnWire
  <1> QED BY <1>3, <1>4, <1>8

(* What receive does to the messages: a frame is still being read, or the  *)
(* message it carries is returned or, when it does not fit, left out.      *)
StillReading == UNCHANGED <<done, got>> /\ phase' # "closed"

FrameIsRead ==
    /\ done < Len(order) /\ done' = done + 1 /\ phase' = "prefix"
    /\ got' = IF Fits(order[done + 1]) THEN Append(got, order[done + 1]) ELSE got

(* The pieces the reader puts together are those of the frame it is in. *)
LEMMA ReceiveStep ==
    ASSUME IInv, receive
    PROVE  IInv' /\ (StillReading \/ FrameIsRead)
  <1>1. PICK k \in 1..need - Len(part) :
            LET read == part \o SubSeq(wire, 1, k)
            IN  /\ phase # "closed" /\ k <= Len(wire)
                /\ wire' = SubSeq(wire, k + 1, Len(wire))
                /\ IF Len(read) < need
                   THEN part' = read /\ UNCHANGED <<phase, need, got, done>>
                   ELSE \/ phase = "prefix" /\ ReadPrefix(read)
                        \/ phase = "payload" /\ ReadPayload(read)
                        \/ phase = "sink" /\ ReadSink
                /\ UNCHANGED <<written, sending, open, order>>
    BY DEF receive
  <1>2. PICK read : read = part \o SubSeq(wire, 1, k)
    OBVIOUS
  <1>3. /\ phase # "closed" /\ k <= Len(wire)
        /\ wire' = SubSeq(wire, k + 1, Len(wire))
        /\ UNCHANGED <<written, sending, open, order>>
        /\ Len(read) < need => part' = read /\ UNCHANGED <<phase, need, got, done>>
        /\ ~(Len(read) < need) => \/ phase = "prefix" /\ ReadPrefix(read)
                                  \/ phase = "payload" /\ ReadPayload(read)
                                  \/ phase = "sink" /\ ReadSink
    BY <1>1, <1>2
  <1>4. PICK m, c : m = order[done + 1] /\ c = Len(part)
    OBVIOUS
  <1>5. /\ done < Len(order) /\ m \in Messages /\ done \in Nat
        /\ \A j \in 1..k : wire[j] = <<m, Before + c + j>>
    BY <1>3, <1>4, NextBytes DEF IInv, Types
  <1>6. /\ Reading /\ part \in Seq(Byte) /\ wire \in Seq(Byte) /\ c \in Nat /\ Len(wire) \in Nat
        /\ need \in Nat /\ k \in Nat /\ k > 0 /\ c + k <= need /\ k \in 1..Len(wire) /\ Before \in Nat
    BY <1>3, <1>4, SizeType DEF IInv, Types, Before
  <1>7. /\ read \in Seq(Byte) /\ Len(read) = c + k
        /\ \A j \in 1..c + k : read[j] = <<m, Before + j>>
    <2>1. PICK t : t = SubSeq(wire, 1, k)
      OBVIOUS
    <2>2. /\ t \in Seq(Byte) /\ Len(t) = k - 1 + 1
          /\ \A i \in 1..k - 1 + 1 : t[i] = wire[1 + i - 1]
      BY <1>3, <1>6, <2>1, Piece
    <2>3. Len(t) = k /\ \A i \in 1..k : t[i] = <<m, Before + c + i>>
      <3>1. k - 1 + 1 = k /\ \A i \in 1..k : 1 + i - 1 = i
        BY <1>6
      <3> QED BY <1>5, <2>2, <3>1
    <2>4. /\ read \in Seq(Byte) /\ Len(read) = c + k
          /\ \A i \in 1..c + k : read[i] = IF i <= c THEN part[i] ELSE t[i - c]
      BY <1>2, <1>4, <1>6, <2>1, <2>2, <2>3, ConcatProperties
    <2>5. \A j \in 1..c : part[j] = <<m, Before + j>>
      BY <1>4, <1>6 DEF Reading
    <2>6. ASSUME NEW j \in 1..c + k PROVE read[j] = <<m, Before + j>>
      <3>1. CASE j <= c
        BY <1>6, <2>4, <2>5, <3>1
      <3>2. CASE j > c
        <4>1. PICK b : b = Before
          OBVIOUS
        <4>2. b \in Nat /\ j - c \in 1..k /\ b + c + (j - c) = b + j
          BY <1>6, <3>2, <4>1
        <4>3. read[j] = t[j - c]
          BY <1>6, <2>4, <3>2
        <4>4. t[j - c] = <<m, b + c + (j - c)>>
          BY <2>3, <4>1, <4>2
        <4> QED BY <4>1, <4>2, <4>3, <4>4
      <3> QED BY <1>6, <3>1, <3>2
    <2> QED BY <2>4, <2>6
  <1>8. PICK off : Offsets(off) /\ OnWire(off)
    BY <1>3 DEF IInv
  <1>9. PICK x : x = off[done + 1]
    OBVIOUS
  <1>10. /\ x \in Nat /\ Consumed(off) = x + Before + c /\ Consumed(off) \in Nat
         /\ off[done + 2] = x + FrameLen(m)
    <2>1. off \in [1..Len(order) + 1 -> Nat] /\ Len(order) \in Nat
      BY <1>8 DEF Offsets, IInv, Types
    <2>2. done + 1 \in 1..Len(order) /\ done + 1 \in 1..Len(order) + 1 /\ done + 1 + 1 = done + 2
      BY <1>5, <2>1
    <2>3. x \in Nat
      BY <1>9, <2>1, <2>2
    <2>4. Consumed(off) = x + Before + c
      BY <1>4, <1>9 DEF Consumed
    <2>5. off[done + 1 + 1] = off[done + 1] + FrameLen(order[done + 1])
      BY <1>8, <2>2 DEF Offsets
    <2> QED BY <1>4, <1>6, <1>9, <2>2, <2>3, <2>4, <2>5
  <1>11. Writing'
    BY <1>3 DEF IInv, Writing
  <1>12. ASSUME Reading', phase' \in {"prefix", "payload", "sink"}, part' \in Seq(Byte),
                need' \in Nat, done' \in Nat, got' \in Seq(Messages),
                Consumed(off)' = Consumed(off) + k
         PROVE  IInv'
    <2>1. Offsets(off)' /\ OnWire(off)' /\ wire' \in Seq(Byte)
      BY <1>3, <1>6, <1>8, <1>10, <1>12, WireMoves
    <2>2. Types'
      BY <1>3, <1>12, <2>1 DEF IInv, Types
    <2> QED BY <1>11, <1>12, <2>1, <2>2 DEF IInv
  <1>13. got \in Seq(Messages)
    BY DEF IInv, Types
  <1>14. CASE Len(read) < need
    <2>1. part' = read /\ UNCHANGED <<phase, need, got, done, order>>
      BY <1>3, <1>14
    <2>2. Before' = Before
      BY <2>1 DEF Before
    <2>3. Reading'
      <3>1. \A j \in 1..Len(part') : part'[j] = <<order'[done' + 1], Before' + j>>
        BY <1>4, <1>7, <2>1, <2>2
      <3> QED BY <1>5, <1>6, <1>14, <2>1, <3>1 DEF Reading
    <2>4. Consumed(off)' = x + Before + (c + k)
      BY <1>7, <1>9, <2>1, <2>2 DEF Consumed
    <2>5. Consumed(off)' = Consumed(off) + k
      <3>1. PICK b : b = Before
        OBVIOUS
      <3>2. b \in Nat /\ x + b + (c + k) = x + b + c + k
        BY <1>6, <1>10, <3>1
      <3> QED BY <1>10, <2>4, <3>1, <3>2
    <2>6. phase' \in {"prefix", "payload", "sink"}
      BY <1>3, <2>1 DEF IInv, Types
    <2> QED BY <1>5, <1>6, <1>7, <1>12, <1>13, <2>1, <2>3, <2>5, <2>6 DEF StillReading
  <1>15. CASE ~(Len(read) < need) /\ phase = "prefix"
    <2>1. ReadPrefix(read)
      BY <1>3, <1>15
    <2>2. c + k = PrefixLen /\ Before = 0 /\ Len(read) = PrefixLen
      <3>1. need = PrefixLen /\ Before = 0
        BY <1>6, <1>15 DEF Reading, Before
      <3>2. c + k = need
        BY <1>6, <1>7, <1>15
      <3> QED BY <1>7, <3>1, <3>2
    <2>3. \A j \in 1..PrefixLen : read[j] = <<m, j>>
      BY <1>7, <2>2
    <2>4. read = Prefix(m) /\ read[1][1] = m
      BY <1>5, <1>7, <2>2, <2>3, PrefixAndPayload, SizeType
    <2>5. Lengths(read) = {Size[m]}
      BY <1>5, <2>4 DEF Lengths
    <2>6. Size[m] \in Nat /\ Size[m] > 0 /\ Size[m] <= MaxPacketSize /\ MaxPacketSize \in Nat /\ Cap \in Nat
      BY <1>5, SizeType
    <2>7. /\ part' = <<>> /\ need' = Size[m] /\ UNCHANGED <<got, done>>
          /\ phase' = IF Size[m] > Cap THEN "sink" ELSE "payload"
      BY <2>1, <2>5, <2>6 DEF ReadPrefix
    <2>8. Before' = PrefixLen /\ Len(part') = 0 /\ part' \in Seq(Byte)
      BY <2>7 DEF Before
    <2>9. Reading'
      <3>1. Len(part') < need' /\ done' <= Len(order')
        BY <1>3, <1>6, <2>6, <2>7, <2>8 DEF Reading
      <3>2. \A j \in 1..Len(part') : part'[j] = <<order'[done' + 1], Before' + j>>
        BY <2>8
      <3> QED BY <1>3, <1>4, <1>5, <2>6, <2>7, <3>1, <3>2 DEF Reading
    <2>10. Consumed(off)' = x + PrefixLen + 0
      BY <1>9, <2>7, <2>8 DEF Consumed
    <2>11. Consumed(off)' = Consumed(off) + k
      BY <1>6, <1>10, <2>2, <2>10, SizeType
    <2> QED BY <1>5, <1>12, <1>13, <2>6, <2>7, <2>8, <2>9, <2>11 DEF StillReading
  <1>16. CASE ~(Len(read) < need) /\ phase # "prefix"
    <2>1. /\ NextFrame /\ done' = done + 1
          /\ got' = IF Fits(m) THEN Append(got, m) ELSE got
      <3>1. need = Size[m] /\ Before = PrefixLen /\ Len(read) = Size[m]
        <4>1. need = Size[m] /\ Before = PrefixLen
          BY <1>4, <1>6, <1>16 DEF Reading, Before
        <4>2. c + k = need
          BY <1>6, <1>7, <1>16
        <4> QED BY <1>7, <4>1, <4>2
      <3>2. c + k = Size[m]
        BY <1>7, <3>1
      <3>3. read = Payload(m)
        BY <1>5, <1>7, <3>1, <3>2, PrefixAndPayload
      <3>4. read[1] = <<m, PrefixLen + 1>>
        BY <1>5, <1>7, <3>1, <3>2, SizeType
      <3>5. CASE phase = "payload" /\ ReadPayload(read)
        <4>1. Fits(m)
          BY <1>6, <3>1, <3>5 DEF Reading, Fits
        <4>2. got' = Append(got, m)
          BY <1>5, <3>3, <3>4, <3>5 DEF ReadPayload
        <4> QED BY <3>5, <4>1, <4>2 DEF ReadPayload
      <3>6. CASE phase = "sink" /\ ReadSink
        <4>1. ~Fits(m)
          <5>1. Size[m] > Cap
            BY <1>6, <3>1, <3>6 DEF Reading
          <5>2. Size[m] \in Nat /\ Cap \in Nat
            BY <1>5, SizeType
          <5> QED BY <5>1, <5>2 DEF Fits
        <4> QED BY <3>6, <4>1 DEF ReadSink
      <3> QED BY <1>3, <1>16, <3>5, <3>6
    <2>2. part' = <<>> /\ phase' = "prefix" /\ need' = PrefixLen
      BY <2>1 DEF NextFrame
    <2>3. Before' = 0 /\ Len(part') = 0 /\ part' \in Seq(Byte)
      BY <2>2 DEF Before
    <2>4. Reading'
      <3>1. Len(part') < need' /\ done' <= Len(order')
        BY <1>3, <1>5, <2>1, <2>2, <2>3, SizeType DEF IInv, Types
      <3>2. \A j \in 1..Len(part') : part'[j] = <<order'[done' + 1], Before' + j>>
        BY <2>3
      <3> QED BY <2>2, <3>1, <3>2 DEF Reading
    <2>5. need = Size[m] /\ Before = PrefixLen /\ c + k = Size[m]
      BY <1>4, <1>6, <1>7, <1>16 DEF Reading, Before
    <2>6. Consumed(off)' = off[done + 1 + 1] + 0 + 0
      BY <2>1, <2>3 DEF Consumed
    <2>7. Consumed(off)' = Consumed(off) + k
      <3>1. done + 1 + 1 = done + 2
        BY <1>5
      <3>2. PICK f, a, b : f = FrameLen(m) /\ a = PrefixLen /\ b = Size[m]
        OBVIOUS
      <3>3. f \in Nat /\ a \in Nat /\ b \in Nat /\ f = a + b /\ c + k = b
        BY <1>5, <2>5, <3>2, SizeType
      <3>4. x + f + 0 + 0 = x + a + c + k
        BY <1>6, <1>10, <3>3
      <3> QED BY <1>10, <2>5, <2>6, <3>1, <3>2, <3>4
    <2>8. got' \in Seq(Messages)
      BY <1>5, <1>13, <2>1
    <2>9. IInv'
      BY <1>5, <1>12, <2>1, <2>2, <2>3, <2>4, <2>7, <2>8, SizeType
    <2> QED BY <1>4, <1>5, <2>1, <2>2, <2>9 DEF FrameIsRead
  <1> QED BY <1>14, <1>15, <1>16

-----------------------------------------------------------------------------
(* The other steps *)

(* A timeout between two frames changes nothing. *)
LEMMA TimeoutStep ==
    ASSUME ~Stalls, IInv, ReceiveTimeout
    PROVE  UNCHANGED vars
  <1>1. phase = "prefix" /\ part = <<>> /\ phase # "closed"
    BY DEF ReceiveTimeout
  <1>2. need = PrefixLen
    BY <1>1 DEF IInv, Reading
  <1> QED BY <1>1, <1>2 DEF ReceiveTimeout, NextFrame, vars

(* The connection breaks. *)
LEMMA BreakStep ==
    ASSUME IInv, Break
    PROVE  IInv'
  <1>1. /\ open' = FALSE /\ sending' = {}
        /\ UNCHANGED <<written, wire, part, phase, need, got, order, done>>
    BY DEF Break
  <1>2. Types'
    BY <1>1 DEF IInv, Types
  <1>3. Writing'
    BY <1>1 DEF IInv, Writing
  <1>4. Reading => Reading'
    BY <1>1 DEF Reading, Before
  <1>5. \A off : Offsets(off) /\ OnWire(off) => Offsets(off)' /\ OnWire(off)'
    BY <1>1 DEF Offsets, OnWire, Consumed, Before
  <1>6. phase' # "closed" => Reading' /\ \E off : Offsets(off)' /\ OnWire(off)'
    BY <1>1, <1>4, <1>5 DEF IInv
  <1> QED BY <1>1, <1>2, <1>3, <1>6 DEF IInv

(* The reader learns that the connection is closed. *)
LEMMA EndStep ==
    ASSUME IInv, EndOfStream
    PROVE  IInv'
  <1>1. /\ phase' = "closed" /\ ~open
        /\ UNCHANGED <<written, sending, wire, part, need, got, open, order, done>>
    BY DEF EndOfStream
  <1>2. Types'
    BY <1>1 DEF IInv, Types
  <1>3. Writing'
    BY <1>1 DEF IInv, Writing
  <1> QED BY <1>1, <1>2, <1>3 DEF IInv

(* Nothing changes. *)
LEMMA StutterStep ==
    ASSUME IInv, UNCHANGED vars
    PROVE  IInv'
  <1>1. UNCHANGED <<written, sending, wire, part, phase, need, got, open, order, done>>
    BY DEF vars
  <1>2. Types'
    BY <1>1 DEF IInv, Types
  <1>3. Writing'
    BY <1>1 DEF IInv, Writing
  <1>4. Reading => Reading'
    BY <1>1 DEF Reading, Before
  <1>5. \A off : Offsets(off) /\ OnWire(off) => Offsets(off)' /\ OnWire(off)'
    BY <1>1 DEF Offsets, OnWire, Consumed, Before
  <1>6. phase' # "closed" => Reading' /\ \E off : Offsets(off)' /\ OnWire(off)'
    BY <1>1, <1>4, <1>5 DEF IInv
  <1> QED BY <1>1, <1>2, <1>3, <1>6 DEF IInv

(* Before anything is sent, every frame is where it has to be. *)
LEMMA Start == Init => IInv
  <1> SUFFICES ASSUME Init PROVE IInv
    OBVIOUS
  <1>1. Types
    BY SizeType DEF Init, Types
  <1>2. Writing
    BY DEF Init, Writing
  <1>3. Reading
    BY SizeType DEF Init, Reading
  <1>4. PICK off : off = [k \in 1..1 |-> 0]
    OBVIOUS
  <1>5. order = <<>> /\ Len(order) = 0 /\ wire = <<>>
    BY DEF Init
  <1>6. off \in [1..1 -> Nat] /\ off[1] = 0 /\ 0 + 1 = 1
    BY <1>4
  <1>7. Offsets(off)
    <2>1. \A j, k \in 1..1 : off[j] <= off[k]
      BY <1>6
    <2> QED BY <1>5, <1>6, <2>1 DEF Offsets
  <1>8. OnWire(off)
    BY <1>5 DEF OnWire
  <1> QED BY <1>1, <1>2, <1>3, <1>7, <1>8 DEF IInv, Init

(* Every step of a connection whose frames come without a stall keeps the  *)
(* frames in place.                                                        *)
LEMMA Step ==
    ASSUME ~Stalls
    PROVE  IInv /\ [Next]_vars => IInv'
  <1> SUFFICES ASSUME IInv, [Next]_vars PROVE IInv'
    OBVIOUS
  <1>1. ASSUME NEW m \in Messages, Send(m) PROVE IInv'
    BY <1>1, SendStep
  <1>2. ASSUME NEW m \in Messages, writevAll(m) PROVE IInv'
    BY <1>2, WriteStep
  <1>3. CASE Break
    BY <1>3, BreakStep
  <1>4. CASE receive
    BY <1>4, ReceiveStep
  <1>5. CASE ReceiveTimeout
    BY <1>5, TimeoutStep, StutterStep
  <1>6. CASE EndOfStream
    BY <1>6, EndStep
  <1>7. CASE UNCHANGED vars
    BY <1>7, StutterStep
  <1> QED BY <1>1, <1>2, <1>3, <1>4, <1>5, <1>6, <1>7 DEF Next

(* The layout of the stream is an invariant. *)
THEOREM Invariance ==
    ASSUME ~Stalls
    PROVE  Spec => []IInv
  BY Start, Step, PTL DEF Spec

(* What receive returns is a message that was sent, however the kernel     *)
(* cuts the bytes and the threads take turns, as long as no frame stalls   *)
(* longer than the receive timeout.                                        *)
THEOREM OnlyWhatWasSent ==
    ASSUME ~Stalls
    PROVE  Spec => []NeverGarbage
  <1>1. IInv => NeverGarbage
    <2> SUFFICES ASSUME IInv PROVE NeverGarbage
      OBVIOUS
    <2>1. \A i \in DOMAIN got : got[i] \in Messages
      BY DEF IInv, Types
    <2> QED BY <2>1, StreamSizes DEF NeverGarbage, ToSet
  <1> QED BY Invariance, <1>1, PTL

-----------------------------------------------------------------------------
(* The queue of packets *)

Waiting == IF phase = "closed" THEN <<>> ELSE SubSeq(order, done + 1, Len(order))

(* The queue holds the messages whose frames have not been read. *)
LEMMA WaitingMessages ==
    ASSUME IInv, phase # "closed"
    PROVE  /\ Waiting = SubSeq(order, done + 1, Len(order)) /\ Waiting \in Seq(Messages)
           /\ Len(Waiting) = Len(order) - done /\ Len(order) \in Nat /\ done <= Len(order)
           /\ \A i \in 1..Len(order) - done : Waiting[i] = order[done + i]
  <1>1. order \in Seq(Messages) /\ Len(order) \in Nat /\ done \in Nat /\ done <= Len(order)
    BY DEF IInv, Types, Reading
  <1>2. Waiting = SubSeq(order, done + 1, Len(order))
    BY DEF Waiting
  <1>3. /\ Waiting \in Seq(Messages) /\ Len(Waiting) = Len(order) - (done + 1) + 1
        /\ \A i \in 1..Len(order) - (done + 1) + 1 : Waiting[i] = order[done + 1 + i - 1]
    BY <1>1, <1>2, Piece
  <1>4. /\ Len(order) - (done + 1) + 1 = Len(order) - done
        /\ \A i \in 1..Len(order) - done : done + 1 + i - 1 = done + i
    BY <1>1
  <1> QED BY <1>1, <1>2, <1>3, <1>4

(* A thread that gets the lock puts its packet at the end of the queue. *)
LEMMA SendPuts ==
    ASSUME IInv, IInv', NEW m \in Messages, Send(m)
    PROVE  Waiting' = Append(Waiting, m)
  <1>1. /\ phase # "closed" /\ phase' # "closed" /\ done' = done /\ order' = Append(order, m)
    BY DEF Send, IInv
  <1>2. PICK n, q, r : n = Len(order) /\ q = Waiting /\ r = Waiting'
    OBVIOUS
  <1>3. /\ q \in Seq(Messages) /\ Len(q) = n - done /\ n \in Nat /\ done \in Nat /\ done <= n
        /\ \A i \in 1..n - done : q[i] = order[done + i]
    BY <1>1, <1>2, WaitingMessages DEF IInv, Types
  <1>4. order \in Seq(Messages) /\ order' \in Seq(Messages) /\ Len(order') = n + 1
    BY <1>1, <1>2 DEF IInv, Types
  <1>5. /\ r \in Seq(Messages) /\ Len(r) = n + 1 - done
        /\ \A i \in 1..n + 1 - done : r[i] = order'[done + i]
    <2>1. /\ r = SubSeq(order', done + 1, n + 1)
      BY <1>1, <1>2, <1>4 DEF Waiting
    <2>2. /\ r \in Seq(Messages) /\ Len(r) = n + 1 - (done + 1) + 1
          /\ \A i \in 1..n + 1 - (done + 1) + 1 : r[i] = order'[done + 1 + i - 1]
      BY <1>3, <1>4, <2>1, Piece
    <2>3. /\ n + 1 - (done + 1) + 1 = n + 1 - done
          /\ \A i \in 1..n + 1 - done : done + 1 + i - 1 = done + i
      BY <1>3
    <2> QED BY <2>2, <2>3
  <1>6. \A i \in 1..n - done : r[i] = q[i]
    <2>1. \A i \in 1..n - done : i \in 1..n + 1 - done /\ done + i \in 1..n
      BY <1>3
    <2>2. \A j \in 1..n : order'[j] = order[j]
      BY <1>1, <1>2, <1>4
    <2> QED BY <1>3, <1>5, <2>1, <2>2
  <1>7. r[n + 1 - done] = m
    <2>1. n + 1 - done \in 1..n + 1 - done /\ done + (n + 1 - done) = n + 1
      BY <1>3
    <2>2. order'[n + 1] = m
      BY <1>1, <1>2, <1>4
    <2> QED BY <1>5, <2>1, <2>2
  <1>8. PICK a : a = Append(q, m)
    OBVIOUS
  <1>9. /\ a \in Seq(Messages) /\ Len(a) = n - done + 1
        /\ \A i \in 1..n - done : a[i] = q[i]
        /\ a[n - done + 1] = m
    BY <1>3, <1>8, AppendProperties
  <1>10. n + 1 - done = n - done + 1
    BY <1>3
  <1>11. \A i \in 1..Len(r) : r[i] = a[i]
    <2>1. \A i \in 1..Len(r) : i \in 1..n - done \/ i = n - done + 1
      BY <1>3, <1>5
    <2> QED BY <1>6, <1>7, <1>9, <1>10, <2>1
  <1>12. r = a
    BY <1>5, <1>9, <1>10, <1>11, SeqEqual
  <1> QED BY <1>2, <1>8, <1>12

(* A frame that was read leaves the head of the queue. *)
LEMMA FrameTakes ==
    ASSUME IInv, receive, FrameIsRead
    PROVE  /\ Waiting # <<>> /\ Head(Waiting) = order[done + 1]
           /\ Waiting' = Tail(Waiting)
  <1>1. phase # "closed" /\ phase' = "prefix" /\ done' = done + 1 /\ order' = order /\ done < Len(order)
    BY DEF receive, FrameIsRead
  <1>2. /\ order \in Seq(Messages) /\ Len(order) \in Nat /\ done \in Nat
    BY DEF IInv, Types
  <1>3. Waiting = SubSeq(order, done + 1, Len(order)) /\ Len(Waiting) = Len(order) - done
    BY <1>1, WaitingMessages
  <1>4. done + 1 \in 1..Len(order) /\ Len(order) \in done + 1..Len(order)
    BY <1>1, <1>2
  <1>5. Head(Waiting) = order[done + 1] /\ Tail(Waiting) = SubSeq(order, done + 1 + 1, Len(order))
    BY <1>2, <1>3, <1>4, HeadTailOfSubSeq
  <1>6. Waiting' = SubSeq(order, done + 1 + 1, Len(order))
    BY <1>1 DEF Waiting
  <1>7. Waiting # <<>>
    BY <1>1, <1>2, <1>3
  <1> QED BY <1>5, <1>6, <1>7

(* Every step of the byte stream is one of the queue of packets, or leaves *)
(* the queue, what was returned and the connection as they are.            *)
LEMMA StepOfTheQueue ==
    ASSUME ~Stalls, IInv, [Next]_vars
    PROVE  [Fifo!Next]_(Fifo!vars)
  <1>1. IInv'
    BY Step
  <1>2. ASSUME Waiting' = Waiting, got' = got, open' = open PROVE UNCHANGED Fifo!vars
    BY <1>2 DEF Fifo!vars, Waiting
  <1>3. ASSUME NEW m \in Messages, Send(m) PROVE Fifo!Next
    <2>1. Waiting' = Append(Waiting, m) /\ open /\ UNCHANGED <<got, open>>
      BY <1>1, <1>3, SendPuts DEF Send
    <2> QED BY <2>1 DEF Fifo!Next, Fifo!Put, Waiting
  <1>4. ASSUME NEW m \in Messages, writevAll(m) PROVE UNCHANGED Fifo!vars
    BY <1>2, <1>4 DEF writevAll, Waiting
  <1>5. CASE Break
    <2>1. Waiting' = Waiting /\ got' = got /\ open /\ open' = FALSE
      BY <1>5 DEF Break, Waiting
    <2> QED BY <2>1 DEF Fifo!Next, Fifo!Break, Waiting
  <1>6. CASE receive
    <2>1. UNCHANGED <<order, open>> /\ phase # "closed"
      BY <1>6 DEF receive
    <2>2. CASE StillReading
      BY <1>2, <2>1, <2>2 DEF StillReading, Waiting
    <2>3. CASE FrameIsRead
      <3>1. /\ Waiting # <<>> /\ Waiting' = Tail(Waiting)
            /\ got' = IF Fits(Head(Waiting)) THEN Append(got, Head(Waiting)) ELSE got
        BY <1>6, <2>3, FrameTakes DEF FrameIsRead
      <3> QED BY <2>1, <3>1 DEF Fifo!Next, Fifo!Take, Waiting
    <2> QED BY <1>6, <2>2, <2>3, ReceiveStep
  <1>7. CASE ReceiveTimeout
    BY <1>2, <1>7, TimeoutStep DEF vars, Waiting
  <1>8. CASE EndOfStream
    <2>1. ~open /\ Waiting' = <<>> /\ UNCHANGED <<got, open>>
      BY <1>8 DEF EndOfStream, Waiting
    <2> QED BY <2>1 DEF Fifo!Next, Fifo!Lose, Waiting
  <1>9. CASE UNCHANGED vars
    BY <1>2, <1>9 DEF vars, Waiting
  <1> QED BY <1>3, <1>4, <1>5, <1>6, <1>7, <1>8, <1>9 DEF Next

(* A connection is a queue of whole packets: every behaviour of the byte   *)
(* stream starts as the queue does and takes its steps (send, receive).    *)
(* The fairness of the queue is left to the model checker.                 *)
THEOREM ConnectionIsAQueue ==
    ASSUME ~Stalls
    PROVE  Spec => Fifo!Init /\ [][Fifo!Next]_(Fifo!vars)
  <1>1. Init => Fifo!Init
    <2> SUFFICES ASSUME Init PROVE Fifo!Init
      OBVIOUS
    <2>1. SubSeq(<<>>, 0 + 1, 0) = <<>>
      BY SubSeqEmpty
    <2>2. order = <<>> /\ done = 0 /\ phase = "prefix" /\ got = <<>> /\ open = TRUE /\ Len(order) = 0
      BY DEF Init
    <2> QED BY <2>1, <2>2 DEF Fifo!Init
  <1>2. IInv /\ [Next]_vars => [Fifo!Next]_(Fifo!vars)
    BY StepOfTheQueue
  <1> QED BY <1>1, <1>2, Invariance, PTL DEF Spec
==============================================================================
