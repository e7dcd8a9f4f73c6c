------------------------- MODULE SocketOutputProofs -------------------------
(***************************************************************************)
(* Proofs about SocketOutput, for any packets, sizes and buffers: the flag *)
(* m_OutActive agrees with the reactor whenever the network thread looks   *)
(* at the socket, the client gets whole packets whose headers it can       *)
(* decrypt, and no packet is lost, sent twice, overtaken in the queue or   *)
(* left there with nothing before it.                                      *)
(***************************************************************************)
EXTENDS SocketOutput, SequenceTheorems, TLAPS

-----------------------------------------------------------------------------
(* The inductive invariant. *)

\* What the network thread is doing says how the flag and the reactor differ,
\* and a socket that is not open has neither packets nor a handler.
PhaseInv ==
    /\ opened \in {"no", "opening"} =>
          /\ ~registered /\ ~writeMask /\ ~closing /\ net = Idle
          /\ Stream = <<>> /\ packetQueue = <<>> /\ accepted = <<>> /\ crypt = 0
    /\ opened = "no" => managed = "no"
    /\ opened = "opening" => outActive
    /\ opened = "failed" => closing
    /\ registered => opened = "open"
    /\ net.at = "cancel" => ~outActive
    /\ net.at = "schedule" => outActive
    /\ net.at = "flush" => opened = "open" /\ ~closing /\ outActive = writeMask

IInv == TypeOK /\ PhaseInv /\ FlagMatchesReactor /\ WholeFrames /\ PacketInv

-----------------------------------------------------------------------------
(* Streams. *)

\* WholeFrames, of a stream and a number of headers encrypted
Whole(s, c) ==
    /\ \A i \in 1..Len(s) :
          /\ s[i][2] <= Size[s[i][1]]
          /\ s[i][2] > 1 => i > 1 /\ s[i-1] = <<s[i][1], s[i][2] - 1, s[i][3]>>
          /\ s[i][2] = 1 /\ i = 1 => s[i][3] = 0
          /\ s[i][2] = 1 /\ i > 1 =>
                s[i-1][2] = Size[s[i-1][1]] /\ s[i][3] = s[i-1][3] + 1
    /\ IF s = <<>> THEN c = 0
       ELSE s[Len(s)][2] = Size[s[Len(s)][1]] /\ c = s[Len(s)][3] + 1

LEMMA WholeStream == WholeFrames <=> Whole(Stream, crypt)
BY DEF WholeFrames, Whole

LEMMA FrameType ==
    ASSUME NEW p \in Packets, NEW k \in Nat
    PROVE  /\ Frame(p, k) \in Seq(Unit) /\ Len(Frame(p, k)) = Size[p]
           /\ Size[p] \in 1 .. BufferSize
           /\ \A i \in 1 .. Size[p] : Frame(p, k)[i] = <<p, i, k>>
<1>1. Size[p] \in 1 .. BufferSize /\ BufferSize \in Nat
  BY SocketAssumption
<1>2. \A i \in 1 .. Size[p] : <<p, i, k>> \in Unit
  BY <1>1 DEF Unit
<1>3. Frame(p, k) \in [1 .. Size[p] -> Unit]
  BY <1>2 DEF Frame
<1> QED BY <1>1, <1>3 DEF Frame

\* a packet is put behind what was sent and what is buffered
LEMMA FrameAppended ==
    ASSUME NEW s \in Seq(Unit), NEW c \in Nat, NEW p \in Packets
    PROVE  /\ s \o Frame(p, c) \in Seq(Unit)
           /\ Len(s \o Frame(p, c)) = Len(s) + Size[p]
           /\ \A i \in 1 .. Len(s) : (s \o Frame(p, c))[i] = s[i]
           /\ \A i \in 1 .. Size[p] : (s \o Frame(p, c))[Len(s) + i] = <<p, i, c>>
<1>1. /\ Frame(p, c) \in Seq(Unit) /\ Len(Frame(p, c)) = Size[p] /\ Size[p] \in 1 .. BufferSize
      /\ \A i \in 1 .. Size[p] : Frame(p, c)[i] = <<p, i, c>>
  BY FrameType
<1>2. /\ s \o Frame(p, c) \in Seq(Unit) /\ Len(s \o Frame(p, c)) = Len(s) + Size[p]
      /\ \A i \in 1 .. Len(s) + Size[p] :
            (s \o Frame(p, c))[i] = IF i <= Len(s) THEN s[i] ELSE Frame(p, c)[i - Len(s)]
  BY <1>1, ConcatProperties
<1>3. Len(s) \in Nat /\ Size[p] \in Nat
  BY <1>1, SocketAssumption
<1>4. ASSUME NEW i \in 1 .. Size[p] PROVE (s \o Frame(p, c))[Len(s) + i] = <<p, i, c>>
  BY <1>1, <1>2, <1>3
<1>5. ASSUME NEW i \in 1 .. Len(s) PROVE (s \o Frame(p, c))[i] = s[i]
  BY <1>2, <1>3
<1> QED BY <1>2, <1>4, <1>5

LEMMA WholeAppended ==
    ASSUME NEW s \in Seq(Unit), NEW c \in Nat, NEW p \in Packets, Whole(s, c)
    PROVE  Whole(s \o Frame(p, c), c + 1)
<1> DEFINE t == s \o Frame(p, c)
<1>1. /\ t \in Seq(Unit) /\ Len(t) = Len(s) + Size[p]
      /\ \A i \in 1 .. Len(s) : t[i] = s[i]
      /\ \A i \in 1 .. Size[p] : t[Len(s) + i] = <<p, i, c>>
  BY FrameAppended
<1>2. PICK n \in Nat, m \in Nat \ {0} : n = Len(s) /\ m = Size[p]
  BY SocketAssumption, FrameType
<1> HIDE DEF t
<1>3. t # <<>> /\ t[Len(t)][2] = Size[t[Len(t)][1]] /\ c + 1 = t[Len(t)][3] + 1
  <2>1. m \in 1 .. Size[p] /\ Len(t) = n + m /\ Len(t) # 0
    BY <1>1, <1>2
  <2>2. t[n + m] = <<p, m, c>>
    BY <1>1, <1>2, <2>1
  <2>3. t # <<>>
    BY <1>1, <2>1, EmptySeq
  <2> QED BY <1>2, <2>1, <2>2, <2>3
<1>4. ASSUME NEW i \in 1 .. n
      PROVE  /\ t[i][2] <= Size[t[i][1]]
             /\ t[i][2] > 1 => i > 1 /\ t[i-1] = <<t[i][1], t[i][2] - 1, t[i][3]>>
             /\ t[i][2] = 1 /\ i = 1 => t[i][3] = 0
             /\ t[i][2] = 1 /\ i > 1 => t[i-1][2] = Size[t[i-1][1]] /\ t[i][3] = t[i-1][3] + 1
  <2>1. t[i] = s[i] /\ (i > 1 => t[i-1] = s[i-1])
    BY <1>1, <1>2
  <2> QED BY <1>2, <2>1 DEF Whole
<1>5. ASSUME NEW j \in 1 .. m
      PROVE  /\ t[n + j] = <<p, j, c>>
             /\ j > 1 => t[n + j - 1] = <<p, j - 1, c>>
             /\ j = 1 /\ n > 0 => t[n + j - 1] = s[n]
  <2>1. t[n + j] = <<p, j, c>>
    BY <1>1, <1>2
  <2>2. ASSUME j > 1 PROVE t[n + j - 1] = <<p, j - 1, c>>
    <3>1. j - 1 \in 1 .. Size[p] /\ n + j - 1 = Len(s) + (j - 1)
      BY <1>2, <2>2
    <3> QED BY <1>1, <3>1
  <2>3. ASSUME j = 1, n > 0 PROVE t[n + j - 1] = s[n]
    <3>1. n \in 1 .. Len(s) /\ n + j - 1 = n
      BY <1>2, <2>3
    <3> QED BY <1>1, <3>1
  <2> QED BY <2>1, <2>2, <2>3
<1>6. ASSUME NEW j \in 1 .. m, NEW i \in Nat, i = n + j
      PROVE  /\ t[i][2] <= Size[t[i][1]]
             /\ t[i][2] > 1 => i > 1 /\ t[i-1] = <<t[i][1], t[i][2] - 1, t[i][3]>>
             /\ t[i][2] = 1 /\ i = 1 => t[i][3] = 0
             /\ t[i][2] = 1 /\ i > 1 => t[i-1][2] = Size[t[i-1][1]] /\ t[i][3] = t[i-1][3] + 1
  <2>1. t[i] = <<p, j, c>>
    BY <1>5, <1>6
  <2>2. n = 0 => c = 0
    BY <1>2, EmptySeq DEF Whole
  <2>3. n > 0 => s[n][2] = Size[s[n][1]] /\ c = s[n][3] + 1
    BY <1>2, EmptySeq DEF Whole
  <2>4. CASE j > 1
    BY <1>2, <1>5, <1>6, <2>1, <2>4
  <2>5. CASE j = 1
    BY <1>2, <1>5, <1>6, <2>1, <2>2, <2>3, <2>5
  <2> QED BY <2>4, <2>5
<1>7. ASSUME NEW i \in 1 .. Len(t)
      PROVE  /\ t[i][2] <= Size[t[i][1]]
             /\ t[i][2] > 1 => i > 1 /\ t[i-1] = <<t[i][1], t[i][2] - 1, t[i][3]>>
             /\ t[i][2] = 1 /\ i = 1 => t[i][3] = 0
             /\ t[i][2] = 1 /\ i > 1 => t[i-1][2] = Size[t[i-1][1]] /\ t[i][3] = t[i-1][3] + 1
  <2>1. CASE i <= n
    BY <1>4, <2>1
  <2>2. CASE i > n
    <3>1. i - n \in 1 .. m /\ i = n + (i - n) /\ i \in Nat
      BY <1>1, <1>2, <2>2
    <3> QED BY <1>6, <3>1
  <2> QED BY <1>2, <2>1, <2>2
<1>8. Whole(t, c + 1)
  BY <1>3, <1>7 DEF Whole
<1> QED BY <1>8 DEF t

LEMMA Concats ==
    ASSUME NEW s \in Seq(Unit), NEW t \in Seq(Unit), NEW u \in Seq(Unit)
    PROVE  (s \o t) \o u = s \o (t \o u) /\ s \o t \in Seq(Unit)
<1>1. (s \o t) \o u = s \o (t \o u)
  BY ConcatAssociative
<1>2. s \o t \in Seq(Unit)
  BY ConcatProperties
<1> QED BY <1>1, <1>2

LEMMA EmptyLen ==
    ASSUME NEW S, NEW s \in Seq(S)
    PROVE  s = <<>> <=> Len(s) = 0
BY EmptySeq

\* what is sent leaves the buffer for the wire: the stream stays as it is
LEMMA SentStream ==
    ASSUME TypeOK, NEW n \in 1 .. Len(outBuffer), Sent(n)
    PROVE  /\ Stream' = Stream /\ wire' \in Seq(Unit) /\ outBuffer' \in Seq(Unit)
           /\ Len(outBuffer') = Len(outBuffer) - n
           /\ n < Len(outBuffer) => outBuffer' # <<>>
           /\ n = Len(outBuffer) => outBuffer' = <<>>
<1> DEFINE sent == SubSeq(outBuffer, 1, n)
           rest == SubSeq(outBuffer, n + 1, Len(outBuffer))
<1>1. wire' = wire \o sent /\ outBuffer' = rest
  BY DEF Sent
<1>2. outBuffer \in Seq(Unit) /\ wire \in Seq(Unit) /\ Len(outBuffer) \in Nat
  BY DEF TypeOK
<1>3. \A i \in 1 .. Len(outBuffer) : outBuffer[i] \in Unit
  BY <1>2, ElementOfSeq
<1>4. sent \in Seq(Unit)
  BY <1>2, <1>3, SubSeqProperties
<1>5. rest \in Seq(Unit) /\ Len(rest) = Len(outBuffer) - n
  <2>1. n + 1 \in Int /\ Len(outBuffer) \in Int /\ \A i \in (n + 1) .. Len(outBuffer) : outBuffer[i] \in Unit
    BY <1>2, <1>3
  <2>2. Len(rest) = (IF n + 1 <= Len(outBuffer) THEN Len(outBuffer) - (n + 1) + 1 ELSE 0)
        /\ rest \in Seq(Unit)
    BY <2>1, SubSeqProperties
  <2> QED BY <1>2, <2>2
<1>6. sent \o rest = outBuffer
  <2>1. SubSeq(outBuffer, 1, Len(outBuffer)) = outBuffer
    BY <1>2, SubSeqFull
  <2>2. 1 \in 1 .. Len(outBuffer) + 1 /\ n \in 1 - 1 .. Len(outBuffer)
        /\ Len(outBuffer) \in n .. Len(outBuffer)
    BY <1>2
  <2>3. sent \o rest = SubSeq(outBuffer, 1, Len(outBuffer))
    BY <1>2, <2>2, ConcatAdjacentSubSeq
  <2> QED BY <2>1, <2>3
<1>7. (wire \o sent) \o rest = wire \o (sent \o rest) /\ wire \o sent \in Seq(Unit)
  <2> HIDE DEF sent, rest
  <2> QED BY <1>2, <1>4, <1>5, Concats
<1>8. n = Len(outBuffer) => rest = <<>>
  BY <1>2, SubSeqEmpty
<1>9. n < Len(outBuffer) => rest # <<>>
  <2>1. rest = <<>> => Len(rest) = 0
    BY <1>5, EmptyLen
  <2> QED BY <1>2, <1>5, <2>1
<1> HIDE DEF sent, rest
<1> QED BY <1>1, <1>5, <1>6, <1>7, <1>8, <1>9 DEF Stream

\* a packet is encrypted and copied behind the stream
LEMMA BufferStream ==
    ASSUME TypeOK, NEW p \in Packets, Fits(p), Buffer(p), UNCHANGED wire
    PROVE  /\ Stream' = Stream \o Frame(p, crypt) /\ Stream \in Seq(Unit)
           /\ outBuffer' \in Seq(Unit) /\ Len(outBuffer') <= BufferSize /\ outBuffer' # <<>>
           /\ crypt' = crypt + 1 /\ crypt \in Nat
<1>1. /\ outBuffer \in Seq(Unit) /\ wire \in Seq(Unit) /\ crypt \in Nat
      /\ Len(outBuffer) \in Nat /\ Size[p] \in 1 .. BufferSize /\ BufferSize \in Nat
  BY FrameType, SocketAssumption DEF TypeOK
<1>2. Frame(p, crypt) \in Seq(Unit)
  BY <1>1, FrameType
<1>3. outBuffer' = outBuffer \o Frame(p, crypt) /\ wire' = wire /\ crypt' = crypt + 1
  BY DEF Buffer
<1>4. outBuffer' \in Seq(Unit) /\ Len(outBuffer') = Len(outBuffer) + Size[p]
  BY <1>1, <1>3, FrameAppended
<1>5. (wire \o outBuffer) \o Frame(p, crypt) = wire \o (outBuffer \o Frame(p, crypt))
      /\ wire \o outBuffer \in Seq(Unit)
  BY <1>1, <1>2, Concats
<1>6. outBuffer' # <<>>
  BY <1>1, <1>4, EmptySeq
<1>7. Len(outBuffer') <= BufferSize
  BY <1>1, <1>4 DEF Fits
<1> QED BY <1>1, <1>3, <1>4, <1>5, <1>6, <1>7 DEF Stream

LEMMA WholeStep ==
    ASSUME TypeOK, WholeFrames, NEW p \in Packets, Stream' = Stream \o Frame(p, crypt),
           Stream \in Seq(Unit), crypt' = crypt + 1
    PROVE  WholeFrames'
<1>1. Whole(Stream, crypt)
  BY WholeStream
<1>2. Whole(Stream \o Frame(p, crypt), crypt + 1)
  BY <1>1, WholeAppended DEF TypeOK
<1>3. WholeFrames' <=> Whole(Stream', crypt')
  BY DEF WholeFrames, Whole
<1> QED BY <1>2, <1>3

-----------------------------------------------------------------------------
(* Packets: where they are. *)

Accepted(p) == \E i \in 1 .. Len(accepted) : accepted[i] = p

LEMMA AppendedElements ==
    ASSUME NEW S, NEW s \in Seq(S), NEW e \in S, NEW x
    PROVE  (\E i \in 1 .. Len(Append(s, e)) : Append(s, e)[i] = x)
              <=> (\E i \in 1 .. Len(s) : s[i] = x) \/ x = e
<1>1. /\ Len(Append(s, e)) = Len(s) + 1 /\ Len(s) \in Nat
      /\ \A i \in 1 .. Len(s) : Append(s, e)[i] = s[i]
      /\ Append(s, e)[Len(s) + 1] = e
  BY AppendProperties
<1> QED BY <1>1

LEMMA TailElements ==
    ASSUME NEW S, NEW s \in Seq(S), s # <<>>
    PROVE  /\ Head(s) = s[1] /\ Tail(s) \in Seq(S) /\ Len(s) \in Nat \ {0}
           /\ Len(Tail(s)) = Len(s) - 1
           /\ \A i \in 1 .. Len(s) - 1 : Tail(s)[i] = s[i + 1]
<1>1. Len(s) \in Nat \ {0}
  BY EmptySeq
<1> QED BY <1>1, HeadTailProperties

\* the stream of a packet starts once more when the packet is put behind it
LEMMA StartsAppended ==
    ASSUME TypeOK, NEW p \in Packets, Stream' = Stream \o Frame(p, crypt), Stream \in Seq(Unit),
           NEW q \in Packets
    PROVE  /\ q # p => Starts(q)' = Starts(q)
           /\ q = p => Starts(q)' = Starts(q) \union {Len(Stream) + 1}
<1>1. PICK n \in Nat : n = Len(Stream)
  OBVIOUS
<1>2. /\ Len(Stream') = n + Size[p] /\ Size[p] \in 1 .. BufferSize /\ BufferSize \in Nat
      /\ \A i \in 1 .. n : Stream'[i] = Stream[i]
      /\ \A i \in 1 .. Size[p] : Stream'[n + i] = <<p, i, crypt>>
  <2>1. crypt \in Nat
    BY DEF TypeOK
  <2> DEFINE s == Stream
  <2>2. /\ Len(s \o Frame(p, crypt)) = Len(s) + Size[p]
        /\ \A i \in 1 .. Len(s) : (s \o Frame(p, crypt))[i] = s[i]
        /\ \A i \in 1 .. Size[p] : (s \o Frame(p, crypt))[Len(s) + i] = <<p, i, crypt>>
    <3> HIDE DEF s
    <3>1. s \in Seq(Unit)
      BY DEF s
    <3> QED BY <2>1, <3>1, FrameAppended
  <2>3. Size[p] \in 1 .. BufferSize /\ BufferSize \in Nat
    BY SocketAssumption
  <2> QED BY <1>1, <2>2, <2>3
<1>3. Starts(q)' = {i \in 1 .. Len(Stream') : Stream'[i][1] = q /\ Stream'[i][2] = 1}
  BY DEF Starts
<1>4. \A i \in n + 1 .. n + Size[p] : Stream'[i] = <<p, i - n, crypt>>
  <2>1. ASSUME NEW i \in n + 1 .. n + Size[p] PROVE Stream'[i] = <<p, i - n, crypt>>
    <3>1. i - n \in 1 .. Size[p] /\ n + (i - n) = i
      BY <1>2
    <3> QED BY <1>2, <3>1
  <2> QED BY <2>1
<1>5. \A i : i \in Starts(q)' <=>
                \/ i \in 1 .. n /\ Stream[i][1] = q /\ Stream[i][2] = 1
                \/ i = n + 1 /\ q = p
  <2> DEFINE w == Stream'
  <2>1. \A i : i \in Starts(q)' <=> i \in 1 .. Len(w) /\ w[i][1] = q /\ w[i][2] = 1
    BY <1>3
  <2>2. Len(w) = n + Size[p] /\ Size[p] \in Nat \ {0}
    BY <1>2
  <2>3. ASSUME NEW i \in 1 .. n
        PROVE  i \in Starts(q)' <=> Stream[i][1] = q /\ Stream[i][2] = 1
    <3>1. w[i] = Stream[i] /\ i \in 1 .. Len(w)
      BY <1>2, <2>2
    <3> QED BY <2>1, <3>1
  <2>4. ASSUME NEW i \in n + 1 .. n + Size[p]
        PROVE  i \in Starts(q)' <=> i = n + 1 /\ q = p
    <3>1. w[i] = <<p, i - n, crypt>>
      BY <1>4
    <3>2. i \in 1 .. Len(w) /\ (i - n = 1 <=> i = n + 1)
      <4> HIDE DEF w
      <4> QED BY <2>2
    <3> HIDE DEF w
    <3> QED BY <2>1, <3>1, <3>2
  <2> HIDE DEF w
  <2> QED BY <2>1, <2>2, <2>3, <2>4
<1>6. \A i : i \in Starts(q) <=> i \in 1 .. n /\ Stream[i][1] = q /\ Stream[i][2] = 1
  BY <1>1 DEF Starts
<1> QED BY <1>1, <1>5, <1>6

\* a new packet is put into the buffer or into the queue
LEMMA AcceptOnce ==
    ASSUME TypeOK, EachOnce, NEW p \in Packets, ~Accepted(p), accepted' = Append(accepted, p),
           \/ /\ Stream' = Stream \o Frame(p, crypt) /\ Stream \in Seq(Unit)
              /\ packetQueue' = packetQueue
           \/ Stream' = Stream /\ packetQueue' = Append(packetQueue, p)
    PROVE  EachOnce'
<1> SUFFICES ASSUME NEW q \in Packets
             PROVE  /\ Accepted(q)' <=> (Starts(q)' # {} \/ InQueue(q)')
                    /\ ~(Starts(q)' # {} /\ InQueue(q)')
                    /\ \A i, j \in Starts(q)' : i = j
                    /\ \A i, j \in 1 .. Len(packetQueue') :
                          packetQueue'[i] = q /\ packetQueue'[j] = q => i = j
  BY DEF EachOnce, Accepted, InQueue
<1>1. /\ Accepted(q) <=> (Starts(q) # {} \/ InQueue(q))
      /\ ~(Starts(q) # {} /\ InQueue(q))
      /\ \A i, j \in Starts(q) : i = j
      /\ \A i, j \in 1 .. Len(packetQueue) : packetQueue[i] = q /\ packetQueue[j] = q => i = j
  BY DEF EachOnce, Accepted
<1>2. Accepted(q)' <=> Accepted(q) \/ q = p
  <2>1. Accepted(q)' <=> \E i \in 1 .. Len(Append(accepted, p)) : Append(accepted, p)[i] = q
    BY DEF Accepted
  <2>2. accepted \in Seq(Packets)
    BY DEF TypeOK
  <2> HIDE DEF Accepted
  <2>3. Accepted(q) <=> \E i \in 1 .. Len(accepted) : accepted[i] = q
    BY DEF Accepted
  <2> QED BY <2>1, <2>2, <2>3, AppendedElements
<1>3. q = p => Starts(q) = {} /\ ~InQueue(q)
  BY <1>1
<1>4. CASE /\ Stream' = Stream \o Frame(p, crypt) /\ Stream \in Seq(Unit)
           /\ packetQueue' = packetQueue
  <2>1. InQueue(q)' <=> InQueue(q)
    BY <1>4 DEF InQueue
  <2>2. /\ q # p => Starts(q)' = Starts(q)
        /\ q = p => Starts(q)' = Starts(q) \union {Len(Stream) + 1}
    BY <1>4, StartsAppended
  <2> QED BY <1>1, <1>2, <1>3, <1>4, <2>1, <2>2
<1>5. CASE Stream' = Stream /\ packetQueue' = Append(packetQueue, p)
  <2>1. Starts(q)' = Starts(q)
    BY <1>5 DEF Starts
  <2>2. packetQueue \in Seq(Packets)
    BY DEF TypeOK
  <2>3. PICK n \in Nat : n = Len(packetQueue)
    BY <2>2
  <2>4. /\ Len(packetQueue') = n + 1 /\ packetQueue'[n + 1] = p
        /\ \A i \in 1 .. n : packetQueue'[i] = packetQueue[i]
    BY <1>5, <2>2, <2>3, AppendProperties
  <2>5. InQueue(q)' <=> InQueue(q) \/ q = p
    BY <2>3, <2>4 DEF InQueue
  <2>6. ASSUME NEW i \in 1 .. n + 1, NEW j \in 1 .. n + 1, packetQueue'[i] = q, packetQueue'[j] = q
        PROVE  i = j
    <3>1. CASE q = p
      <4>1. \A m \in 1 .. n : packetQueue[m] # q
        BY <1>3, <2>3, <3>1 DEF InQueue
      <4> QED BY <2>4, <2>6, <4>1
    <3>2. CASE q # p
      <4>1. i # n + 1 /\ j # n + 1
        BY <2>4, <2>6, <3>2
      <4> QED BY <1>1, <2>3, <2>4, <2>6, <4>1
    <3> QED BY <3>1, <3>2
  <2> QED BY <1>1, <1>2, <1>3, <2>1, <2>4, <2>5, <2>6
<1> QED BY <1>4, <1>5

\* the first packet of the queue is put into the buffer
LEMMA FlushOnce ==
    ASSUME TypeOK, EachOnce, packetQueue # <<>>, accepted' = accepted, Stream \in Seq(Unit),
           Stream' = Stream \o Frame(Head(packetQueue), crypt), packetQueue' = Tail(packetQueue)
    PROVE  EachOnce'
<1> DEFINE p == Head(packetQueue)
<1>1. packetQueue \in Seq(Packets)
  BY DEF TypeOK
<1>2. PICK n \in Nat : n + 1 = Len(packetQueue)
  <2>1. Len(packetQueue) \in Nat \ {0}
    BY <1>1, TailElements
  <2> QED BY <2>1
<1>3. /\ p = packetQueue[1] /\ p \in Packets /\ Len(packetQueue') = n
      /\ \A i \in 1 .. n : packetQueue'[i] = packetQueue[i + 1]
  <2>1. /\ p = packetQueue[1] /\ Len(packetQueue') = Len(packetQueue) - 1
        /\ \A i \in 1 .. Len(packetQueue) - 1 : packetQueue'[i] = packetQueue[i + 1]
    BY <1>1, TailElements
  <2>2. p \in Packets
    BY <1>1, HeadTailProperties
  <2> QED BY <1>2, <2>1, <2>2
<1> HIDE DEF p
<1> SUFFICES ASSUME NEW q \in Packets
             PROVE  /\ Accepted(q)' <=> (Starts(q)' # {} \/ InQueue(q)')
                    /\ ~(Starts(q)' # {} /\ InQueue(q)')
                    /\ \A i, j \in Starts(q)' : i = j
                    /\ \A i, j \in 1 .. Len(packetQueue') :
                          packetQueue'[i] = q /\ packetQueue'[j] = q => i = j
  BY DEF EachOnce, Accepted, InQueue
<1>4. /\ Accepted(q) <=> (Starts(q) # {} \/ InQueue(q))
      /\ ~(Starts(q) # {} /\ InQueue(q))
      /\ \A i, j \in Starts(q) : i = j
      /\ \A i, j \in 1 .. Len(packetQueue) : packetQueue[i] = q /\ packetQueue[j] = q => i = j
  BY DEF EachOnce, Accepted
<1>5. Accepted(q)' <=> Accepted(q)
  BY DEF Accepted
<1>6. /\ q # p => Starts(q)' = Starts(q)
      /\ q = p => Starts(q)' = Starts(q) \union {Len(Stream) + 1}
  BY <1>3, StartsAppended DEF p
<1>7. q = p => InQueue(q) /\ ~InQueue(q)'
  BY <1>2, <1>3, <1>4 DEF InQueue
<1>8. q # p => (InQueue(q)' <=> InQueue(q))
  <2>1. ASSUME q # p, NEW i \in 1 .. n + 1, packetQueue[i] = q
        PROVE  i - 1 \in 1 .. n /\ packetQueue'[i - 1] = q
    <3>1. i # 1
      BY <1>3, <2>1
    <3>2. i - 1 \in 1 .. n /\ (i - 1) + 1 = i
      BY <3>1
    <3> QED BY <1>3, <2>1, <3>2
  <2>2. ASSUME NEW i \in 1 .. n, packetQueue'[i] = q
        PROVE  i + 1 \in 1 .. n + 1 /\ packetQueue[i + 1] = q
    BY <1>3, <2>2
  <2> QED BY <1>2, <1>3, <2>1, <2>2 DEF InQueue
<1>9. \A i, j \in 1 .. n : packetQueue'[i] = q /\ packetQueue'[j] = q => i = j
  <2>1. ASSUME NEW i \in 1 .. n, NEW j \in 1 .. n, packetQueue'[i] = q, packetQueue'[j] = q
        PROVE  i = j
    <3>1. i + 1 \in 1 .. n + 1 /\ j + 1 \in 1 .. n + 1
      OBVIOUS
    <3>2. packetQueue[i + 1] = q /\ packetQueue[j + 1] = q
      BY <1>3, <2>1
    <3>3. i + 1 = j + 1
      BY <1>2, <1>4, <3>1, <3>2
    <3> QED BY <3>3
  <2> QED BY <2>1
<1> QED BY <1>3, <1>4, <1>5, <1>6, <1>7, <1>8, <1>9

LEMMA AcceptOrder ==
    ASSUME TypeOK, EachOnce, QueueInOrder, NEW p \in Packets, accepted' = Append(accepted, p),
           packetQueue' = packetQueue \/ packetQueue' = Append(packetQueue, p)
    PROVE  QueueInOrder'
<1>1. accepted \in Seq(Packets) /\ packetQueue \in Seq(Packets)
  BY DEF TypeOK
<1>2. PICK a \in Nat, n \in Nat : a = Len(accepted) /\ n = Len(packetQueue)
  BY <1>1
<1>3. /\ Len(accepted') = a + 1 /\ accepted'[a + 1] = p
      /\ \A i \in 1 .. a : accepted'[i] = accepted[i]
  BY <1>1, <1>2, AppendProperties
<1>4. ASSUME NEW i \in 1 .. n, NEW j \in 1 .. n, i < j
      PROVE  \E l, m \in 1 .. a + 1 :
                l < m /\ accepted'[l] = packetQueue[i] /\ accepted'[m] = packetQueue[j]
  <2>1. PICK l, m \in 1 .. a : l < m /\ accepted[l] = packetQueue[i] /\ accepted[m] = packetQueue[j]
    BY <1>2, <1>4 DEF QueueInOrder
  <2>2. l \in 1 .. a + 1 /\ m \in 1 .. a + 1
    OBVIOUS
  <2> QED BY <1>3, <2>1, <2>2
<1>5. CASE packetQueue' = packetQueue
  BY <1>2, <1>3, <1>4, <1>5 DEF QueueInOrder
<1>6. CASE packetQueue' = Append(packetQueue, p)
  <2>1. /\ Len(packetQueue') = n + 1 /\ packetQueue'[n + 1] = p
        /\ \A i \in 1 .. n : packetQueue'[i] = packetQueue[i]
    BY <1>1, <1>2, <1>6, AppendProperties
  <2>2. ASSUME NEW i \in 1 .. n + 1, NEW j \in 1 .. n + 1, i < j
        PROVE  \E l, m \in 1 .. a + 1 :
                  l < m /\ accepted'[l] = packetQueue'[i] /\ accepted'[m] = packetQueue'[j]
    <3>1. CASE j = n + 1
      <4>1. i \in 1 .. n /\ packetQueue[i] \in Packets
        BY <1>1, <1>2, <2>2, <3>1, ElementOfSeq
      <4>2. InQueue(packetQueue[i])
        BY <1>2, <4>1 DEF InQueue
      <4>3. PICK l \in 1 .. a : accepted[l] = packetQueue[i]
        BY <1>2, <4>1, <4>2 DEF EachOnce
      <4>4. l \in 1 .. a + 1 /\ a + 1 \in 1 .. a + 1 /\ l < a + 1
        OBVIOUS
      <4>5. accepted'[l] = packetQueue'[i] /\ accepted'[a + 1] = packetQueue'[j]
        BY <1>3, <2>1, <3>1, <4>1, <4>3
      <4> QED BY <4>4, <4>5
    <3>2. CASE j # n + 1
      <4>1. i \in 1 .. n /\ j \in 1 .. n
        BY <2>2, <3>2
      <4>2. PICK l, m \in 1 .. a + 1 :
               l < m /\ accepted'[l] = packetQueue[i] /\ accepted'[m] = packetQueue[j]
        BY <1>4, <2>2, <4>1
      <4>3. packetQueue'[i] = packetQueue[i] /\ packetQueue'[j] = packetQueue[j]
        BY <2>1, <4>1
      <4> QED BY <4>2, <4>3
    <3> QED BY <3>1, <3>2
  <2> SUFFICES ASSUME NEW i \in 1 .. Len(packetQueue'), NEW j \in 1 .. Len(packetQueue'), i < j
               PROVE  \E l, m \in 1 .. Len(accepted') :
                        l < m /\ accepted'[l] = packetQueue'[i] /\ accepted'[m] = packetQueue'[j]
    BY DEF QueueInOrder
  <2>3. i \in 1 .. n + 1 /\ j \in 1 .. n + 1
    BY <2>1
  <2>4. PICK l, m \in 1 .. a + 1 :
           l < m /\ accepted'[l] = packetQueue'[i] /\ accepted'[m] = packetQueue'[j]
    BY <2>2, <2>3
  <2> QED BY <1>3, <2>4
<1> QED BY <1>5, <1>6

LEMMA FlushOrder ==
    ASSUME TypeOK, QueueInOrder, packetQueue # <<>>, accepted' = accepted,
           packetQueue' = Tail(packetQueue)
    PROVE  QueueInOrder'
<1>1. packetQueue \in Seq(Packets)
  BY DEF TypeOK
<1>2. PICK n \in Nat : n + 1 = Len(packetQueue)
  <2>1. Len(packetQueue) \in Nat \ {0}
    BY <1>1, TailElements
  <2> QED BY <2>1
<1>3. Len(packetQueue') = n /\ \A i \in 1 .. n : packetQueue'[i] = packetQueue[i + 1]
  <2>1. /\ Len(packetQueue') = Len(packetQueue) - 1
        /\ \A i \in 1 .. Len(packetQueue) - 1 : packetQueue'[i] = packetQueue[i + 1]
    BY <1>1, TailElements
  <2> QED BY <1>2, <2>1
<1>4. ASSUME NEW i \in 1 .. n, NEW j \in 1 .. n, i < j
      PROVE  \E l, m \in 1 .. Len(accepted) :
                l < m /\ accepted[l] = packetQueue'[i] /\ accepted[m] = packetQueue'[j]
  <2>1. i + 1 \in 1 .. n + 1 /\ j + 1 \in 1 .. n + 1 /\ i + 1 < j + 1
    BY <1>4
  <2>2. PICK x, y \in 1 .. Len(packetQueue) : x = i + 1 /\ y = j + 1 /\ x < y
    BY <1>2, <2>1
  <2>3. \E l, m \in 1 .. Len(accepted) :
           l < m /\ accepted[l] = packetQueue[x] /\ accepted[m] = packetQueue[y]
    BY <2>2 DEF QueueInOrder
  <2> QED BY <1>3, <2>2, <2>3
<1> QED BY <1>3, <1>4 DEF QueueInOrder

\* steps that only move bytes leave the packets where they are
LEMMA SamePackets ==
    ASSUME WholeFrames, EachOnce, QueueInOrder, Stream' = Stream,
           UNCHANGED <<packetQueue, crypt, accepted>>
    PROVE  WholeFrames' /\ EachOnce' /\ QueueInOrder'
BY DEF WholeFrames, EachOnce, QueueInOrder, Starts, InQueue

-----------------------------------------------------------------------------
(* The steps. *)

\* what a step of the flags, the life and the buffer has to preserve
FlagsAndBuffer == TypeOK /\ PhaseInv /\ FlagMatchesReactor /\ QueueBehindBuffer

LEMMA InvOfParts ==
    ASSUME FlagsAndBuffer, WholeFrames, EachOnce, QueueInOrder
    PROVE  IInv
BY DEF IInv, FlagsAndBuffer, PacketInv

\* steps that touch neither the packets nor the bytes
LEMMA LifeStep ==
    ASSUME IInv,
           \/ OpenBegin \/ OpenFail \/ CloseSocket \/ AddNewSocket \/ PeerCloses
           \/ FlushEnd \/ ReactorCall \/ HandleClose \/ RemoveSocket
    PROVE  IInv'
<1> USE DEF IInv, TypeOK, PhaseInv, FlagMatchesReactor, PacketInv, QueueBehindBuffer, output,
            lifecycle, Locked, Return, Idle
<1>1. UNCHANGED <<outBuffer, wire, packetQueue, crypt, accepted, kernel>>
  BY DEF OpenBegin, OpenFail, CloseSocket, AddNewSocket, PeerCloses, FlushEnd, ReactorCall,
         HandleClose, RemoveSocket
<1>2. Stream' = Stream
  BY <1>1 DEF Stream
<1>3. WholeFrames' /\ EachOnce' /\ QueueInOrder'
  BY <1>1, <1>2, SamePackets
<1>4. CASE OpenBegin
  BY <1>1, <1>2, <1>3, <1>4 DEF OpenBegin
<1>5. CASE OpenFail
  BY <1>1, <1>2, <1>3, <1>5 DEF OpenFail
<1>6. CASE CloseSocket
  BY <1>1, <1>2, <1>3, <1>6 DEF CloseSocket
<1>7. CASE AddNewSocket
  BY <1>1, <1>2, <1>3, <1>7 DEF AddNewSocket
<1>8. CASE PeerCloses
  BY <1>1, <1>2, <1>3, <1>8 DEF PeerCloses
<1>9. CASE FlushEnd
  <2>1. packetQueue = <<>> \/ outBuffer # <<>>
    <3>1. ASSUME packetQueue # <<>>, outBuffer = <<>> PROVE FALSE
      <4>1. Head(packetQueue) \in Packets /\ Len(outBuffer) = 0
        BY <3>1, HeadTailProperties, EmptyLen
      <4>2. Size[Head(packetQueue)] <= BufferSize /\ BufferSize \in Nat
        BY <4>1, SocketAssumption
      <4> QED BY <1>9, <3>1, <4>1, <4>2 DEF FlushEnd, Fits
    <3> QED BY <3>1
  <2>2. /\ net.by \in {"none", "reactor", "manager"}
        /\ opened = "open" /\ ~closing /\ outActive = writeMask
        /\ UNCHANGED <<opened, managed, registered, peer, writeMask, closing>>
    BY <1>9 DEF FlushEnd
  <2>3. \/ net' = Idle /\ outActive' = outActive
        \/ net' = [at |-> "cancel", by |-> net.by] /\ outActive' = FALSE
        \/ net' = [at |-> "schedule", by |-> net.by] /\ outActive' = TRUE
    BY <1>9 DEF FlushEnd, CancelWakeup, ScheduleWakeup
  <2>4. net' \in [at : {"idle", "flush", "cancel", "schedule", "failed"},
                  by : {"none", "reactor", "manager"}]
    <3>1. \A x \in {"none", "reactor", "manager"}, y \in {"idle", "flush", "cancel", "schedule", "failed"} :
             [at |-> y, by |-> x] \in [at : {"idle", "flush", "cancel", "schedule", "failed"},
                                       by : {"none", "reactor", "manager"}]
      OBVIOUS
    <3> QED BY <2>2, <2>3, <3>1
  <2>8. outActive' \in BOOLEAN
    BY <2>2, <2>3
  <2>5. TypeOK'
    BY <1>1, <2>2, <2>4, <2>8
  <2>6. PhaseInv'
    BY <1>1, <1>2, <2>2, <2>3
  <2>7. FlagMatchesReactor' /\ QueueBehindBuffer'
    BY <1>1, <2>1, <2>2, <2>3
  <2> QED BY <1>3, <2>5, <2>6, <2>7
<1>10. CASE ReactorCall
  BY <1>1, <1>2, <1>3, <1>10 DEF ReactorCall
<1>11. CASE HandleClose
  BY <1>1, <1>2, <1>3, <1>11 DEF HandleClose
<1>12. CASE RemoveSocket
  BY <1>1, <1>2, <1>3, <1>12 DEF RemoveSocket
<1> QED BY <1>4, <1>5, <1>6, <1>7, <1>8, <1>9, <1>10, <1>11, <1>12

\* the start-up packet and the packets of the server
LEMMA AcceptStep ==
    ASSUME IInv, NEW p \in Packets, SendPacket(p) \/ (OpenEnd /\ p = Challenge)
    PROVE  IInv'
<1>1. /\ TypeOK /\ PhaseInv /\ FlagMatchesReactor /\ QueueBehindBuffer
      /\ WholeFrames /\ EachOnce /\ QueueInOrder
  BY DEF IInv, PacketInv
<1>2. /\ UNCHANGED <<managed, peer, closing, outActive, kernel, wire, net>>
      /\ opened' = "open" /\ ~closing /\ net.at # "flush" /\ ~Accepted(p)
      /\ accepted' = Append(accepted, p)
      /\ \/ Fits(p) /\ Buffer(p) /\ UNCHANGED packetQueue
         \/ ~Fits(p) /\ packetQueue' = Append(packetQueue, p) /\ UNCHANGED <<outBuffer, crypt>>
      /\ \/ opened = "open" /\ UNCHANGED <<registered, writeMask>>
         \/ opened = "opening" /\ registered' = TRUE /\ writeMask' = TRUE
  <2>1. CASE SendPacket(p)
    BY <2>1 DEF SendPacket, lifecycle, Locked, Accepted
  <2>2. CASE OpenEnd /\ p = Challenge
    <3>1. opened = "opening" /\ net = Idle /\ ~closing /\ accepted = <<>> /\ Stream = <<>>
      BY <1>1, <2>2 DEF OpenEnd, PhaseInv
    <3>2. outBuffer = <<>>
      <4>1. outBuffer \in Seq(Unit) /\ wire \in Seq(Unit)
        BY <1>1 DEF TypeOK
      <4> QED BY <3>1, <4>1, ConcatEqualIffEmpty DEF Stream
    <3>3. Fits(p)
      BY <2>2, <3>2, SocketAssumption DEF Fits
    <3>4. accepted' = Append(accepted, p)
      BY <2>2, <3>1 DEF OpenEnd
    <3>5. ~Accepted(p)
      BY <3>1 DEF Accepted
    <3>6. net.at # "flush"
      BY <3>1 DEF Idle
    <3> QED BY <2>2, <3>1, <3>3, <3>4, <3>5, <3>6 DEF OpenEnd
  <2> QED BY <2>1, <2>2
<1>3. accepted' \in Seq(Packets)
  BY <1>1, <1>2, AppendProperties DEF TypeOK
<1>4. QueueInOrder'
  BY <1>1, <1>2, AcceptOrder
<1>5. /\ packetQueue' \in Seq(Packets) /\ outBuffer' \in Seq(Unit) /\ Len(outBuffer') <= BufferSize
      /\ outBuffer' # <<>> /\ crypt' \in Nat /\ WholeFrames' /\ EachOnce'
  <2>1. CASE Fits(p) /\ Buffer(p) /\ UNCHANGED packetQueue
    <3>1. /\ Stream' = Stream \o Frame(p, crypt) /\ Stream \in Seq(Unit)
          /\ outBuffer' \in Seq(Unit) /\ Len(outBuffer') <= BufferSize /\ outBuffer' # <<>>
          /\ crypt' = crypt + 1 /\ crypt \in Nat
      BY <1>1, <1>2, <2>1, BufferStream
    <3>2. WholeFrames'
      BY <1>1, <3>1, WholeStep
    <3>3. EachOnce'
      BY <1>1, <1>2, <2>1, <3>1, AcceptOnce
    <3> QED BY <1>1, <2>1, <3>1, <3>2, <3>3 DEF TypeOK
  <2>2. CASE ~Fits(p) /\ packetQueue' = Append(packetQueue, p) /\ UNCHANGED <<outBuffer, crypt>>
    <3>1. Stream' = Stream
      BY <1>2, <2>2 DEF Stream
    <3>2. EachOnce'
      BY <1>1, <1>2, <2>2, <3>1, AcceptOnce
    <3>3. WholeFrames'
      BY <1>1, <2>2, <3>1 DEF WholeFrames
    <3>4. packetQueue' \in Seq(Packets)
      BY <1>1, <2>2, AppendProperties DEF TypeOK
    <3>5. outBuffer # <<>>
      <4>1. outBuffer = <<>> => Len(outBuffer) = 0
        OBVIOUS
      <4> QED BY <2>2, <4>1, SocketAssumption DEF Fits
    <3> QED BY <1>1, <2>2, <3>2, <3>3, <3>4, <3>5 DEF TypeOK
  <2> QED BY <1>2, <2>1, <2>2
<1>6. TypeOK'
  BY <1>1, <1>2, <1>3, <1>5 DEF TypeOK
<1>7. PhaseInv' /\ FlagMatchesReactor' /\ QueueBehindBuffer'
  BY <1>1, <1>2, <1>5 DEF TypeOK, PhaseInv, FlagMatchesReactor, QueueBehindBuffer, Idle
<1> QED BY <1>4, <1>5, <1>6, <1>7 DEF IInv, PacketInv

LEMMA FlushStep ==
    ASSUME IInv, FlushPacket
    PROVE  IInv'
<1>1. /\ TypeOK /\ PhaseInv /\ FlagMatchesReactor /\ QueueBehindBuffer
      /\ WholeFrames /\ EachOnce /\ QueueInOrder
  BY DEF IInv, PacketInv
<1>2. /\ net.at = "flush" /\ packetQueue # <<>> /\ packetQueue' = Tail(packetQueue)
      /\ UNCHANGED <<opened, managed, registered, peer, writeMask, closing, outActive, kernel,
                     wire, net, accepted>>
  BY DEF FlushPacket, lifecycle
<1>3. PICK p \in Packets : p = Head(packetQueue)
  BY <1>1, <1>2, HeadTailProperties DEF TypeOK
<1>4. /\ Stream' = Stream \o Frame(p, crypt) /\ Stream \in Seq(Unit)
      /\ outBuffer' \in Seq(Unit) /\ Len(outBuffer') <= BufferSize
      /\ crypt' = crypt + 1 /\ crypt \in Nat
  BY <1>1, <1>2, <1>3, BufferStream DEF FlushPacket
<1>5. packetQueue' \in Seq(Packets)
  BY <1>1, <1>2, HeadTailProperties DEF TypeOK
<1>6. WholeFrames' /\ QueueInOrder'
  BY <1>1, <1>2, <1>4, WholeStep, FlushOrder
<1>7. EachOnce'
  BY <1>1, <1>2, <1>3, <1>4, FlushOnce
<1>8. TypeOK'
  BY <1>1, <1>2, <1>4, <1>5 DEF TypeOK
<1>9. PhaseInv' /\ FlagMatchesReactor' /\ QueueBehindBuffer'
  BY <1>1, <1>2 DEF PhaseInv, FlagMatchesReactor, QueueBehindBuffer, Idle
<1> QED BY <1>6, <1>7, <1>8, <1>9 DEF IInv, PacketInv

\* a callback fails: its caller will close the socket
LEMMA FailStep ==
    ASSUME IInv, NEW by \in {"reactor", "manager"}, net = Idle, closing \/ registered,
           net' = [at |-> "failed", by |-> by],
           UNCHANGED <<opened, managed, registered, peer, writeMask, closing, outActive,
                       outBuffer, packetQueue, crypt, accepted, kernel, wire>>
    PROVE  IInv'
<1>1. /\ TypeOK /\ PhaseInv /\ FlagMatchesReactor /\ QueueBehindBuffer
      /\ WholeFrames /\ EachOnce /\ QueueInOrder
  BY DEF IInv, PacketInv
<1>2. Stream' = Stream
  BY DEF Stream
<1>3. WholeFrames' /\ EachOnce' /\ QueueInOrder'
  BY <1>1, <1>2, SamePackets
<1>4. TypeOK'
  BY <1>1 DEF TypeOK
<1>5. PhaseInv' /\ FlagMatchesReactor' /\ QueueBehindBuffer'
  BY <1>1, <1>2 DEF PhaseInv, FlagMatchesReactor, QueueBehindBuffer, Idle
<1> QED BY <1>3, <1>4, <1>5 DEF IInv, PacketInv

\* handle_output, whoever calls it
LEMMA OutputStep ==
    ASSUME IInv, NEW by \in {"reactor", "manager"}, net = Idle, registered \/ outBuffer # <<>>,
           HandleOutput(by)
    PROVE  IInv'
<1>1. /\ TypeOK /\ PhaseInv /\ FlagMatchesReactor /\ QueueBehindBuffer
      /\ WholeFrames /\ EachOnce /\ QueueInOrder
  BY DEF IInv, PacketInv
<1>2. /\ UNCHANGED <<opened, managed, registered, peer, writeMask, closing, packetQueue, crypt,
                     accepted>>
      /\ net.at # "flush"
  BY DEF HandleOutput, lifecycle, Idle
<1>3. /\ Stream' = Stream /\ wire' \in Seq(Unit) /\ outBuffer' \in Seq(Unit)
      /\ Len(outBuffer') <= BufferSize /\ kernel' \in 0 .. KernelSize
      /\ outBuffer = <<>> => outBuffer' = outBuffer
      /\ \/ net' = [at |-> "failed", by |-> by] /\ UNCHANGED <<outActive, outBuffer>>
         \/ /\ ~closing /\ (outBuffer # <<>> => outBuffer' # <<>>)
            /\ \/ net' = Idle /\ outActive' = outActive
               \/ net' = [at |-> "cancel", by |-> by] /\ outActive' = FALSE
               \/ net' = [at |-> "schedule", by |-> by] /\ outActive' = TRUE
         \/ ~closing /\ net' = [at |-> "flush", by |-> by] /\ outActive' = outActive /\ outBuffer # <<>>
  <2>1. ASSUME UNCHANGED <<outBuffer, kernel, wire>>
        PROVE  /\ Stream' = Stream /\ wire' \in Seq(Unit) /\ outBuffer' \in Seq(Unit)
               /\ Len(outBuffer') <= BufferSize /\ kernel' \in 0 .. KernelSize
    BY <1>1, <2>1 DEF TypeOK, Stream
  <2>2. CASE closing /\ Return(by, "failed") /\ UNCHANGED <<outActive, outBuffer, kernel, wire>>
    BY <2>1, <2>2 DEF Return
  <2>3. CASE ~closing /\ outBuffer = <<>> /\ CancelWakeup(by) /\ UNCHANGED <<outBuffer, kernel, wire>>
    BY <2>1, <2>3 DEF CancelWakeup, Return
  <2>4. CASE /\ ~closing /\ outBuffer # <<>> /\ Return(by, "failed")
             /\ UNCHANGED <<outActive, outBuffer, kernel, wire>>
    BY <2>1, <2>4 DEF Return
  <2>5. CASE ~closing /\ outBuffer # <<>> /\ ScheduleWakeup(by) /\ UNCHANGED <<outBuffer, kernel, wire>>
    BY <2>1, <2>5 DEF ScheduleWakeup, Return
  <2>6. ASSUME ~closing, outBuffer # <<>>, NEW n \in 1 .. (KernelSize - kernel),
               SendPart(by, n) \/ SendAll(by, n)
        PROVE  /\ Stream' = Stream /\ wire' \in Seq(Unit) /\ outBuffer' \in Seq(Unit)
               /\ Len(outBuffer') <= BufferSize /\ kernel' \in 0 .. KernelSize
               /\ \/ /\ outBuffer' # <<>>
                     /\ \/ net' = Idle /\ outActive' = outActive
                        \/ net' = [at |-> "schedule", by |-> by] /\ outActive' = TRUE
                  \/ net' = [at |-> "flush", by |-> by] /\ outActive' = outActive
    <3>1. /\ outBuffer \in Seq(Unit) /\ Len(outBuffer) \in Nat /\ Len(outBuffer) <= BufferSize
          /\ BufferSize \in Nat /\ kernel \in 0 .. KernelSize /\ KernelSize \in Nat
      BY <1>1, SocketAssumption DEF TypeOK
    <3>2. Sent(n) /\ n <= Len(outBuffer)
      BY <2>6, <3>1 DEF SendPart, SendAll
    <3>3. n \in 1 .. Len(outBuffer)
      BY <3>1, <3>2
    <3>4. /\ Stream' = Stream /\ wire' \in Seq(Unit) /\ outBuffer' \in Seq(Unit)
          /\ Len(outBuffer') = Len(outBuffer) - n
          /\ n < Len(outBuffer) => outBuffer' # <<>>
      BY <1>1, <3>2, <3>3, SentStream
    <3>5. kernel' \in 0 .. KernelSize /\ Len(outBuffer') <= BufferSize
      BY <3>1, <3>2, <3>3, <3>4 DEF Sent
    <3>6. CASE SendPart(by, n)
      BY <3>4, <3>5, <3>6 DEF SendPart, ScheduleWakeup, Return
    <3>7. CASE SendAll(by, n)
      BY <3>4, <3>5, <3>7 DEF SendAll, Return
    <3> QED BY <2>6, <3>6, <3>7
  <2> QED BY <2>2, <2>3, <2>4, <2>5, <2>6 DEF HandleOutput
<1>4. WholeFrames' /\ EachOnce' /\ QueueInOrder'
  BY <1>1, <1>2, <1>3, SamePackets
<1>5. opened = "open" \/ closing
  <2>1. Stream = <<>> => outBuffer = <<>>
    <3>1. outBuffer \in Seq(Unit) /\ wire \in Seq(Unit)
      BY <1>1 DEF TypeOK
    <3> QED BY <3>1, ConcatEqualIffEmpty DEF Stream
  <2> QED BY <1>1, <2>1 DEF TypeOK, PhaseInv
<1>6. \A y \in {"idle", "flush", "cancel", "schedule", "failed"} :
         [at |-> y, by |-> by] \in [at : {"idle", "flush", "cancel", "schedule", "failed"},
                                   by : {"none", "reactor", "manager"}]
  OBVIOUS
<1>7. outActive' \in BOOLEAN /\ net' \in [at : {"idle", "flush", "cancel", "schedule", "failed"},
                                         by : {"none", "reactor", "manager"}]
  <2>1. outActive' \in BOOLEAN
    BY <1>1, <1>3 DEF TypeOK
  <2>2. Idle \in [at : {"idle", "flush", "cancel", "schedule", "failed"},
                  by : {"none", "reactor", "manager"}]
    BY DEF Idle
  <2> QED BY <1>3, <1>6, <2>1, <2>2
<1>8. TypeOK'
  BY <1>1, <1>2, <1>3, <1>7 DEF TypeOK
<1>9. PhaseInv' /\ FlagMatchesReactor' /\ QueueBehindBuffer'
  <2>1. ~closing => outActive = writeMask
    BY <1>1, <1>5 DEF FlagMatchesReactor
  <2>2. ~(opened \in {"no", "opening"})
    BY <1>1, <1>5 DEF PhaseInv
  <2>3. packetQueue # <<>> => outBuffer # <<>>
    BY <1>1, <1>2 DEF QueueBehindBuffer
  <2>4. CASE net' = [at |-> "failed", by |-> by] /\ UNCHANGED <<outActive, outBuffer>>
    BY <1>1, <1>2, <2>2, <2>3, <2>4 DEF PhaseInv, FlagMatchesReactor, QueueBehindBuffer, Idle
  <2>5. CASE /\ ~closing /\ (outBuffer # <<>> => outBuffer' # <<>>)
             /\ \/ net' = Idle /\ outActive' = outActive
                \/ net' = [at |-> "cancel", by |-> by] /\ outActive' = FALSE
                \/ net' = [at |-> "schedule", by |-> by] /\ outActive' = TRUE
    BY <1>1, <1>2, <2>1, <2>2, <2>3, <2>5
       DEF PhaseInv, FlagMatchesReactor, QueueBehindBuffer, Idle
  <2>6. CASE ~closing /\ net' = [at |-> "flush", by |-> by] /\ outActive' = outActive
    BY <1>1, <1>2, <1>5, <2>1, <2>2, <2>6
       DEF PhaseInv, FlagMatchesReactor, QueueBehindBuffer, Idle
  <2> QED BY <1>3, <2>4, <2>5, <2>6
<1> QED BY <1>4, <1>8, <1>9 DEF IInv, PacketInv

\* the loop of the network thread
LEMMA UpdateStep ==
    ASSUME IInv, NEW by \in {"reactor", "manager"}, net = Idle, Update(by)
    PROVE  IInv'
<1>1. CASE closing /\ Return(by, "failed")
           /\ UNCHANGED <<lifecycle, writeMask, closing, outActive, output, kernel, wire>>
  BY <1>1, FailStep DEF Return, lifecycle, output
<1>2. CASE ~closing /\ ~outActive /\ outBuffer # <<>> /\ HandleOutput(by)
  BY <1>2, OutputStep
<1> QED BY <1>1, <1>2 DEF Update

LEMMA NetStep ==
    ASSUME IInv, WriteEvent \/ ReadEvent \/ UpdateSocket
    PROVE  IInv'
<1>1. CASE WriteEvent
  BY <1>1, OutputStep DEF WriteEvent
<1>2. CASE ReadEvent
  <2>1. CASE peer = "open" /\ Update("reactor")
    BY <1>2, <2>1, UpdateStep DEF ReadEvent
  <2>2. CASE /\ Return("reactor", "failed")
             /\ UNCHANGED <<lifecycle, writeMask, closing, outActive, output, kernel, wire>>
    BY <1>2, <2>2, FailStep DEF ReadEvent, Return, lifecycle, output
  <2> QED BY <1>2, <2>1, <2>2 DEF ReadEvent
<1>3. CASE UpdateSocket
  BY <1>3, UpdateStep DEF UpdateSocket
<1> QED BY <1>1, <1>2, <1>3

LEMMA ReadStep ==
    ASSUME IInv, ClientReads
    PROVE  IInv'
<1>1. /\ TypeOK /\ PhaseInv /\ FlagMatchesReactor /\ QueueBehindBuffer
      /\ WholeFrames /\ EachOnce /\ QueueInOrder
  BY DEF IInv, PacketInv
<1>2. /\ UNCHANGED <<lifecycle, writeMask, closing, outActive, output, wire, net>>
      /\ kernel' = kernel - 1 /\ kernel > 0
  BY DEF ClientReads
<1>3. Stream' = Stream
  BY <1>2 DEF Stream, output
<1>4. WholeFrames' /\ EachOnce' /\ QueueInOrder'
  BY <1>1, <1>2, <1>3, SamePackets DEF output
<1>5. kernel' \in 0 .. KernelSize
  BY <1>1, <1>2, SocketAssumption DEF TypeOK
<1>6. TypeOK'
  BY <1>1, <1>2, <1>5 DEF TypeOK, lifecycle, output
<1>7. PhaseInv' /\ FlagMatchesReactor' /\ QueueBehindBuffer'
  BY <1>1, <1>2, <1>3 DEF PhaseInv, FlagMatchesReactor, QueueBehindBuffer, lifecycle, output
<1> QED BY <1>4, <1>6, <1>7 DEF IInv, PacketInv

LEMMA InvStep ==
    ASSUME IInv, [Next]_vars
    PROVE  IInv'
<1>1. CASE UNCHANGED vars
  <2>1. Stream' = Stream
    BY <1>1 DEF vars, Stream
  <2> QED BY <1>1, <2>1, SamePackets
       DEF vars, IInv, PacketInv, TypeOK, PhaseInv, FlagMatchesReactor, QueueBehindBuffer
<1>2. ASSUME NEW p \in Packets, SendPacket(p) PROVE IInv'
  BY <1>2, AcceptStep
<1>3. CASE OpenEnd
  BY <1>3, AcceptStep, SocketAssumption
<1> QED BY <1>1, <1>2, <1>3, LifeStep, FlushStep, NetStep, ReadStep DEF Next, NetThread

LEMMA InvInit == Init => IInv
<1> SUFFICES ASSUME Init PROVE IInv
  OBVIOUS
<1>1. /\ outBuffer = <<>> /\ packetQueue = <<>> /\ accepted = <<>> /\ wire = <<>> /\ crypt = 0
      /\ Len(<<>>) = 0 /\ <<>> \in Seq(Unit) /\ <<>> \in Seq(Packets)
  BY EmptySeq DEF Init
<1>2. Stream = <<>>
  BY <1>1, ConcatEmptySeq DEF Stream
<1>3. WholeFrames /\ EachOnce /\ QueueInOrder
  BY <1>1, <1>2 DEF WholeFrames, EachOnce, QueueInOrder, Starts, InQueue
<1>4. TypeOK
  <2>1. net \in [at : {"idle", "flush", "cancel", "schedule", "failed"},
                by : {"none", "reactor", "manager"}]
    BY DEF Init, Idle
  <2>2. Len(outBuffer) <= BufferSize /\ kernel \in 0 .. KernelSize
    BY <1>1, SocketAssumption DEF Init
  <2>3. outBuffer \in Seq(Unit) /\ packetQueue \in Seq(Packets) /\ accepted \in Seq(Packets)
        /\ wire \in Seq(Unit) /\ crypt \in Nat
    <3>1. outBuffer \in Seq(Unit) /\ wire \in Seq(Unit)
      BY <1>1
    <3>2. packetQueue \in Seq(Packets) /\ accepted \in Seq(Packets)
      BY <1>1
    <3>3. crypt \in Nat
      BY <1>1
    <3> QED BY <3>1, <3>2, <3>3
  <2>4. registered \in BOOLEAN /\ writeMask \in BOOLEAN /\ closing \in BOOLEAN /\ outActive \in BOOLEAN
    BY DEF Init
  <2>5. opened = "no" /\ managed = "no" /\ peer = "open"
    BY DEF Init
  <2> QED BY <2>1, <2>2, <2>3, <2>4, <2>5 DEF TypeOK
<1>5. PhaseInv /\ FlagMatchesReactor /\ QueueBehindBuffer
  BY <1>1, <1>2 DEF Init, PhaseInv, FlagMatchesReactor, QueueBehindBuffer, Idle
<1> QED BY <1>3, <1>4, <1>5 DEF IInv, PacketInv

\* The inductive invariant of the socket.
THEOREM Invariance == Spec => []IInv
<1>1. IInv /\ [Next]_vars => IInv'
  BY InvStep
<1> QED BY <1>1, InvInit, PTL DEF Spec

\* However the wake-ups of iSendPacket, handle_output and the reactor interleave,
\* m_OutActive says whether the socket is registered for output, and Update
\* touches the buffer of no socket that is still being opened.
THEOREM FlagsHold == Spec => []FlagInv
<1>1. IInv => FlagInv
  BY DEF IInv, FlagInv, TypeOK, PhaseInv, UpdatedOnlyWhenOpen
<1> QED BY <1>1, Invariance, PTL

\* What the client receives is a sequence of whole packets, whose headers were
\* encrypted in the order in which they arrive (iSendPacket, handle_output,
\* iFlushPacketQueue), for all sizes of packets, buffer and sends.
THEOREM FramesStayWhole == Spec => []WholeFrames
<1>1. IInv => WholeFrames
  BY DEF IInv
<1> QED BY <1>1, Invariance, PTL

\* A packet SendPacket has accepted is in the stream or in m_PacketQueue, once;
\* the queue keeps the order, and never waits behind an empty buffer.
THEOREM PacketsAreKept == Spec => []PacketInv
<1>1. IInv => PacketInv
  BY DEF IInv
<1> QED BY <1>1, Invariance, PTL
=============================================================================
