------------------------ MODULE SessionPacketsProofs -------------------------
(***************************************************************************)
(* Proofs about SessionPackets, for any number of sessions, opcodes and    *)
(* packets: ProcessPackets neither loses nor doubles a packet of a session *)
(* that exists, those of one kind are handled in their order, and while    *)
(* the flag is down the async thread begins one session at most.           *)
(*                                                                         *)
(* A packet moves from one spot to another: from the queue of its kind     *)
(* into the hand of a thread, then to those that are done with, or aside   *)
(* and back to the queue.  What such a move keeps is shown once, for any   *)
(* spots.                                                                  *)
(***************************************************************************)
EXTENDS SessionPackets, FiniteSetTheorems, SequenceTheorems, TLAPS

-----------------------------------------------------------------------------
(* Spots, and sequences of packets at them. *)

AsideOf(t) == IF t = "world" THEN "aside of world" ELSE "aside of async"
HandOf(t)  == IF t = "world" THEN "hand of world" ELSE "hand of async"
Spots == Kinds \union {"done", "aside of world", "aside of async", "hand of world", "hand of async"}

\* a packet goes from a spot of a higher rank to one of a lower
Rank == [x \in Spots |-> IF x \in Kinds THEN 2 ELSE IF x = "done" THEN 0 ELSE 1]

Numbered(F, m) == \A x \in Spots : \A i \in 1 .. Len(F[x]) : F[x][i].n \in 1 .. m

\* no packet is twice at one spot, or at two
Unique(F) ==
  \A x, y \in Spots : \A i \in 1 .. Len(F[x]), j \in 1 .. Len(F[y]) :
    F[x][i].n = F[y][j].n => x = y /\ i = j

Somewhere(F, n) == \E x \in Spots : \E i \in 1 .. Len(F[x]) : F[x][i].n = n

\* packets of one kind that may not be put off are in their order
InLine(p, q) == Kind[p.op] = Kind[q.op] /\ p.op \notin Requeued /\ q.op \notin Requeued

Ordered(F) ==
  \A x, y \in Spots : \A i \in 1 .. Len(F[x]), j \in 1 .. Len(F[y]) :
    Rank[x] < Rank[y] \/ (x = y /\ i < j) => (InLine(F[x][i], F[y][j]) => F[x][i].n < F[y][j].n)

Good(F, m) ==
  /\ F \in [Spots -> Seq(Packets)]
  /\ Numbered(F, m) /\ Unique(F) /\ Ordered(F)
  /\ \A n \in 1 .. m : Somewhere(F, n)

\* the spots of a session: its queues, what is done, and the passes of the two threads
AsideIn(call, s) == IF call # None /\ call.session = s THEN call.aside ELSE <<>>
HandIn(call, s)  ==
  IF call # None /\ call.session = s /\ call.packet # None THEN <<call.packet>> ELSE <<>>

Spread(queues, done, calls, s) ==
  [x \in Spots |->
     IF x \in Kinds THEN queues[x]
     ELSE IF x = "done" THEN done
     ELSE IF x = "aside of world" THEN AsideIn(calls["world"], s)
     ELSE IF x = "aside of async" THEN AsideIn(calls["async"], s)
     ELSE IF x = "hand of world" THEN HandIn(calls["world"], s)
     ELSE HandIn(calls["async"], s)]

At(s) == Spread(_recvQueue[s], handled[s], pass, s)

-----------------------------------------------------------------------------
(* The inductive invariant. *)

KindsOf(t) == IF t = "world" THEN {"WORLD", "MAP"} ELSE {"DB_QUERY"}

\* a pass has packets of its kind in its hand, and those it has put off aside
PassInv(t) ==
  pass[t] # None =>
    /\ pass[t].kind \in KindsOf(t)
    /\ pass[t].packet # None => Kind[pass[t].packet.op] = pass[t].kind
    /\ \A i \in 1 .. Len(pass[t].aside) :
          /\ pass[t].aside[i].op \in Requeued
          /\ Kind[pass[t].aside[i].op] = pass[t].kind

KindsInv ==
  /\ \A s \in Sessions : traffic[s] \in Seq(Opcodes)
  /\ \A s \in Sessions, k \in Kinds : \A i \in 1 .. Len(_recvQueue[s][k]) :
        Kind[_recvQueue[s][k][i].op] = k
  /\ \A t \in Threads : PassInv(t)
  /\ apc \notin {"handle", "undefined"} => pass["async"] = None

\* the packets of the sessions that exist, and the order of those that are done
InALine(packets) ==
  \A i, j \in 1 .. Len(packets) :
    i < j => (InLine(packets[i], packets[j]) => packets[i].n < packets[j].n)

PacketInv ==
  /\ \A s \in Sessions \ deleted : Good(At(s), received[s])
  /\ \A s \in deleted : InALine(handled[s])

\* the flag is down while the tick updates the sessions, and the async thread has begun at
\* most one since, after which it stays away
FlagInv ==
  /\ wpc = "update" => ~m_canProcessAsyncPackets
  /\ ~m_canProcessAsyncPackets => late \in 0 .. 1 /\ (late = 1 => apc # "next")

IInv == TypeOK /\ KindsInv /\ PacketInv /\ FlagInv

-----------------------------------------------------------------------------
(* Sequences. *)

LEMMA AppendFacts ==
    ASSUME NEW S, NEW s \in Seq(S), NEW e \in S
    PROVE  /\ Append(s, e) \in Seq(S)
           /\ Len(s) \in Nat /\ Len(Append(s, e)) = Len(s) + 1
           /\ \A i \in 1 .. Len(s) : Append(s, e)[i] = s[i]
           /\ Append(s, e)[Len(s) + 1] = e
<1>1. Len(s) \in Nat
  OBVIOUS
<1> QED BY <1>1, AppendProperties

LEMMA TailFacts ==
    ASSUME NEW S, NEW s \in Seq(S), s # <<>>
    PROVE  /\ Head(s) = s[1] /\ Head(s) \in S /\ Tail(s) \in Seq(S) /\ Len(s) \in Nat \ {0}
           /\ Len(Tail(s)) = Len(s) - 1
           /\ \A i \in 1 .. Len(s) - 1 : Tail(s)[i] = s[i + 1]
<1>1. Len(s) \in Nat \ {0}
  BY EmptySeq
<1> QED BY <1>1, HeadTailProperties

LEMMA ConcatFacts ==
    ASSUME NEW S, NEW s \in Seq(S), NEW t \in Seq(S)
    PROVE  /\ s \o t \in Seq(S) /\ Len(s) \in Nat /\ Len(t) \in Nat
           /\ Len(s \o t) = Len(s) + Len(t)
           /\ \A i \in 1 .. Len(s) : (s \o t)[i] = s[i]
           /\ \A i \in 1 .. Len(t) : (s \o t)[Len(s) + i] = t[i]
<1>1. Len(s) \in Nat /\ Len(t) \in Nat
  OBVIOUS
<1>2. s \o t \in Seq(S) /\ Len(s \o t) = Len(s) + Len(t)
  BY ConcatProperties
<1>3. \A i \in 1 .. Len(s) + Len(t) : (s \o t)[i] = IF i <= Len(s) THEN s[i] ELSE t[i - Len(s)]
  BY ConcatProperties
<1>4. ASSUME NEW i \in 1 .. Len(t) PROVE (s \o t)[Len(s) + i] = t[i]
  <2>1. Len(s) + i \in 1 .. Len(s) + Len(t) /\ ~(Len(s) + i <= Len(s)) /\ (Len(s) + i) - Len(s) = i
    BY <1>1
  <2> QED BY <1>3, <2>1
<1>5. \A i \in 1 .. Len(s) : i \in 1 .. Len(s) + Len(t) /\ i <= Len(s)
  BY <1>1
<1> QED BY <1>1, <1>2, <1>3, <1>4, <1>5

-----------------------------------------------------------------------------
(* What happens to the packets at the spots, whatever the step. *)

SameBut(F, G, changed) == \A x \in Spots \ changed : G[x] = F[x]

\* the head of one spot goes to the end of a lower one
Moved(F, G, a, b) ==
  /\ F[a] # <<>> /\ Rank[b] < Rank[a]
  /\ \A y \in Spots \ {a} : Rank[b] < Rank[y] /\ Rank[y] <= Rank[a] =>
        \A j \in 1 .. Len(F[y]) : ~InLine(F[a][1], F[y][j])
  /\ G \in [Spots -> Seq(Packets)] /\ SameBut(F, G, {a, b})
  /\ G[a] = Tail(F[a]) /\ G[b] = Append(F[b], Head(F[a]))

LEMMA Move ==
    ASSUME NEW F, NEW m \in Nat, Good(F, m), NEW a \in Spots, NEW b \in Spots,
           NEW G, Moved(F, G, a, b)
    PROVE  Good(G, m)
<1> USE DEF Moved, SameBut
<1> DEFINE OX(x, i) == IF x = b /\ i = Len(F[b]) + 1 THEN a ELSE x
           OI(x, i) == IF x = b /\ i = Len(F[b]) + 1 THEN 1 ELSE IF x = a THEN i + 1 ELSE i
<1>1. /\ \A x \in Spots : F[x] \in Seq(Packets) /\ Len(F[x]) \in Nat /\ Len(G[x]) \in Nat
      /\ \A x \in Spots : \A i \in 1 .. Len(F[x]) : F[x][i].n \in 1 .. m
  <2>1. \A x \in Spots : F[x] \in Seq(Packets) /\ G[x] \in Seq(Packets)
    BY DEF Good
  <2>2. \A x \in Spots : Len(F[x]) \in Nat /\ Len(G[x]) \in Nat
    BY <2>1
  <2> QED BY <2>1, <2>2 DEF Good, Numbered
<1>2. \A x \in Spots : Rank[x] \in Nat
  BY DEF Rank
<1>3. a # b
  BY <1>2
<1>4. /\ Len(G[a]) = Len(F[a]) - 1 /\ Len(F[a]) > 0
      /\ \A i \in 1 .. Len(F[a]) - 1 : G[a][i] = F[a][i + 1]
      /\ Head(F[a]) = F[a][1] /\ F[a][1] \in Packets
  BY <1>1, TailFacts
<1>5. /\ Len(G[b]) = Len(F[b]) + 1
      /\ \A i \in 1 .. Len(F[b]) : G[b][i] = F[b][i]
      /\ G[b][Len(F[b]) + 1] = F[a][1]
  BY <1>1, <1>4, AppendFacts
<1>6. \A x \in Spots : \A i \in 1 .. Len(G[x]) :
        OX(x, i) \in Spots /\ OI(x, i) \in 1 .. Len(F[OX(x, i)]) /\ G[x][i] = F[OX(x, i)][OI(x, i)]
  <2>1. ASSUME NEW i \in 1 .. Len(G[a])
        PROVE  OX(a, i) = a /\ OI(a, i) = i + 1 /\ i + 1 \in 1 .. Len(F[a]) /\ G[a][i] = F[a][i + 1]
    BY <1>1, <1>3, <1>4
  <2>2. ASSUME NEW i \in 1 .. Len(G[b]), i # Len(F[b]) + 1
        PROVE  OX(b, i) = b /\ OI(b, i) = i /\ i \in 1 .. Len(F[b]) /\ G[b][i] = F[b][i]
    BY <1>1, <1>3, <1>5, <2>2
  <2>3. ASSUME NEW i \in 1 .. Len(G[b]), i = Len(F[b]) + 1
        PROVE  OX(b, i) = a /\ OI(b, i) = 1 /\ 1 \in 1 .. Len(F[a]) /\ G[b][i] = F[a][1]
    BY <1>1, <1>3, <1>4, <1>5, <2>3
  <2> QED BY <2>1, <2>2, <2>3
<1>7. \A x, y \in Spots : \A i \in 1 .. Len(G[x]), j \in 1 .. Len(G[y]) :
        OX(x, i) = OX(y, j) /\ OI(x, i) = OI(y, j) => x = y /\ i = j
  BY <1>1, <1>3, <1>4, <1>5
<1>8. \A y \in Spots : \A j \in 1 .. Len(F[y]) :
        \E x \in Spots : \E i \in 1 .. Len(G[x]) : G[x][i] = F[y][j]
  <2>1. ASSUME NEW y \in Spots \ {a}, NEW j \in 1 .. Len(F[y])
        PROVE  j \in 1 .. Len(G[y]) /\ G[y][j] = F[y][j]
    <3>1. CASE y = b
      <4>1. Len(F[b]) \in Nat /\ j \in 1 .. Len(F[b])
        BY <1>1, <3>1
      <4>2. j \in 1 .. Len(F[b]) + 1
        BY <4>1
      <4> QED BY <1>5, <3>1, <4>1, <4>2
    <3>2. CASE y # b
      BY <3>2
    <3> QED BY <3>1, <3>2
  <2>2. ASSUME NEW j \in 1 .. Len(F[a]), j # 1
        PROVE  j - 1 \in 1 .. Len(G[a]) /\ G[a][j - 1] = F[a][j]
    BY <1>1, <1>4, <2>2
  <2>3. Len(F[b]) + 1 \in 1 .. Len(G[b])
    BY <1>1, <1>5
  <2>4. ASSUME NEW y \in Spots, NEW j \in 1 .. Len(F[y])
        PROVE  \E x \in Spots : \E i \in 1 .. Len(G[x]) : G[x][i] = F[y][j]
    <3>1. CASE y # a
      BY <2>1, <3>1
    <3>2. CASE y = a /\ j # 1
      BY <2>2, <3>2
    <3>3. CASE y = a /\ j = 1
      BY <1>5, <2>3, <3>3
    <3> QED BY <3>1, <3>2, <3>3
  <2> QED BY <2>4
<1> HIDE DEF OX, OI
<1>9. Numbered(G, m)
  <2>1. ASSUME NEW x \in Spots, NEW i \in 1 .. Len(G[x]) PROVE G[x][i].n \in 1 .. m
    <3>1. PICK y \in Spots : \E j \in 1 .. Len(F[y]) : G[x][i] = F[y][j]
      BY <1>6
    <3> QED BY <1>1, <3>1
  <2> QED BY <2>1 DEF Numbered
<1>10. Unique(G)
  <2> SUFFICES ASSUME NEW x \in Spots, NEW y \in Spots,
                      NEW i \in 1 .. Len(G[x]), NEW j \in 1 .. Len(G[y]),
                      G[x][i].n = G[y][j].n
               PROVE  x = y /\ i = j
    BY DEF Unique
  <2> DEFINE X == OX(x, i)  Y == OX(y, j)  I == OI(x, i)  J == OI(y, j)
  <2>1. /\ X \in Spots /\ I \in 1 .. Len(F[X]) /\ G[x][i] = F[X][I]
        /\ Y \in Spots /\ J \in 1 .. Len(F[Y]) /\ G[y][j] = F[Y][J]
    BY <1>6
  <2>2. X = Y /\ I = J
    <3> HIDE DEF X, Y, I, J
    <3> QED BY <2>1 DEF Good, Unique
  <2> QED BY <1>7, <2>2
<1>11. \A n \in 1 .. m : Somewhere(G, n)
  <2>1. ASSUME NEW n \in 1 .. m PROVE Somewhere(G, n)
    <3>1. PICK y \in Spots : \E j \in 1 .. Len(F[y]) : F[y][j].n = n
      BY DEF Good, Somewhere
    <3>2. PICK j \in 1 .. Len(F[y]) : F[y][j].n = n
      BY <3>1
    <3>3. PICK x \in Spots : \E i \in 1 .. Len(G[x]) : G[x][i] = F[y][j]
      BY <1>8
    <3> QED BY <3>2, <3>3 DEF Somewhere
  <2> QED BY <2>1
<1>12. Ordered(G)
  <2> SUFFICES ASSUME NEW x \in Spots, NEW y \in Spots,
                      NEW i \in 1 .. Len(G[x]), NEW j \in 1 .. Len(G[y]),
                      Rank[x] < Rank[y] \/ (x = y /\ i < j), InLine(G[x][i], G[y][j])
               PROVE  G[x][i].n < G[y][j].n
    BY DEF Ordered
  <2> DEFINE X == OX(x, i)  Y == OX(y, j)  I == OI(x, i)  J == OI(y, j)
  <2>1. /\ X \in Spots /\ I \in 1 .. Len(F[X]) /\ G[x][i] = F[X][I]
        /\ Y \in Spots /\ J \in 1 .. Len(F[Y]) /\ G[y][j] = F[Y][J]
    BY <1>6
  <2>2. CASE Rank[X] < Rank[Y] \/ (X = Y /\ I < J)
    <3> HIDE DEF X, Y, I, J
    <3>1. InLine(F[X][I], F[Y][J])
      BY <2>1
    <3> QED BY <2>1, <2>2, <3>1 DEF Good, Ordered
  <2>3. ASSUME ~(Rank[X] < Rank[Y] \/ (X = Y /\ I < J))
        PROVE  X = a /\ I = 1 /\ Y # a /\ Y = y /\ J = j /\ Rank[b] < Rank[y] /\ Rank[y] <= Rank[a]
    <3>1. CASE x = b /\ i = Len(F[b]) + 1
      <4>1. X = a /\ I = 1
        BY <3>1 DEF OX, OI
      <4>2. ~(y = b /\ j = Len(F[b]) + 1)
        BY <3>1, <1>1, <1>2, <1>5
      <4>3. Y = y /\ (y # a => J = j)
        BY <4>2 DEF OX, OI
      <4>4. y # a
        <5>1. ASSUME y = a PROVE J > 1
          <6>1. J = j + 1
            BY <4>2, <5>1, <1>3 DEF OI
          <6> QED BY <6>1, <1>1
        <5> QED BY <5>1, <4>1, <4>3, <2>3
      <4>5. y # b
        <5>1. y = b => j > i
          BY <3>1, <1>2
        <5>2. y = b => j \in 1 .. Len(F[b]) + 1
          BY <1>5
        <5> QED BY <5>1, <5>2, <3>1, <1>1
      <4>6. Rank[b] < Rank[y]
        BY <3>1, <4>5
      <4> QED BY <1>2, <2>3, <4>1, <4>3, <4>4, <4>6
    <3>2. CASE ~(x = b /\ i = Len(F[b]) + 1)
      <4>1. X = x
        BY <3>2 DEF OX
      <4>2. CASE y = b /\ j = Len(F[b]) + 1
        <5>1. Y = a
          BY <4>2 DEF OX
        <5> QED BY <1>2, <2>3, <4>1, <4>2, <5>1
      <4>3. CASE ~(y = b /\ j = Len(F[b]) + 1)
        <5>1. Y = y
          BY <4>3 DEF OX
        <5>2. x = y /\ i < j => I < J
          BY <3>2, <4>3, <1>1 DEF OI
        <5> QED BY <2>3, <4>1, <5>1, <5>2
      <4> QED BY <4>2, <4>3
    <3> QED BY <3>1, <3>2
  <2>4. CASE ~(Rank[X] < Rank[Y] \/ (X = Y /\ I < J))
    <3>1. X = a /\ I = 1 /\ Y \in Spots \ {a} /\ Y = y /\ J = j /\ Rank[b] < Rank[y] /\ Rank[y] <= Rank[a]
      BY <2>1, <2>3, <2>4
    <3> HIDE DEF X, Y, I, J
    <3>2. G[x][i] = F[a][1] /\ G[y][j] = F[y][j] /\ j \in 1 .. Len(F[y])
      BY <2>1, <3>1
    <3>3. ~InLine(F[a][1], F[y][j])
      BY <3>1, <3>2
    <3> QED BY <3>2, <3>3
  <2> QED BY <2>2, <2>4
<1> QED BY <1>9, <1>10, <1>11, <1>12 DEF Good

LEMMA Sums ==
    ASSUME NEW p \in Nat, NEW q \in Nat
    PROVE  /\ \A i \in 1 .. p : i \in 1 .. p + q
           /\ \A i \in 1 .. q : p + i \in 1 .. p + q
           /\ \A i \in 1 .. p + q : i > p => i - p \in 1 .. q /\ p + (i - p) = i
  OBVIOUS

\* packets that were put off go back to the end of a spot
GoneBack(F, G, a, b) ==
  /\ a # b /\ \A i \in 1 .. Len(F[a]) : F[a][i].op \in Requeued
  /\ G \in [Spots -> Seq(Packets)] /\ SameBut(F, G, {a, b})
  /\ G[a] = <<>> /\ G[b] = F[b] \o F[a]

LEMMA Return ==
    ASSUME NEW F, NEW m \in Nat, Good(F, m), NEW a \in Spots, NEW b \in Spots,
           NEW G, GoneBack(F, G, a, b)
    PROVE  Good(G, m)
<1> USE DEF GoneBack, SameBut
<1> DEFINE OX(x, i) == IF x = b /\ i > Len(F[b]) THEN a ELSE x
           OI(x, i) == IF x = b /\ i > Len(F[b]) THEN i - Len(F[b]) ELSE i
<1>1. /\ \A x \in Spots : F[x] \in Seq(Packets) /\ Len(F[x]) \in Nat /\ Len(G[x]) \in Nat
      /\ \A x \in Spots : \A i \in 1 .. Len(F[x]) : F[x][i].n \in 1 .. m
  <2>1. \A x \in Spots : F[x] \in Seq(Packets) /\ G[x] \in Seq(Packets)
    BY DEF Good
  <2>2. \A x \in Spots : Len(F[x]) \in Nat /\ Len(G[x]) \in Nat
    BY <2>1
  <2> QED BY <2>1, <2>2 DEF Good, Numbered
<1>2. Len(G[a]) = 0
  BY EmptySeq
<1>3. /\ Len(F[a]) \in Nat /\ Len(F[b]) \in Nat /\ Len(G[b]) = Len(F[b]) + Len(F[a])
      /\ \A i \in 1 .. Len(F[b]) : G[b][i] = F[b][i]
      /\ \A i \in 1 .. Len(F[a]) : G[b][Len(F[b]) + i] = F[a][i]
  <2>1. F[a] \in Seq(Packets) /\ F[b] \in Seq(Packets)
    BY <1>1
  <2> DEFINE f == F[a]  g == F[b]
  <2>2. /\ Len(g) \in Nat /\ Len(f) \in Nat
        /\ Len(g \o f) = Len(g) + Len(f)
        /\ \A i \in 1 .. Len(g) : (g \o f)[i] = g[i]
        /\ \A i \in 1 .. Len(f) : (g \o f)[Len(g) + i] = f[i]
    <3>1. f \in Seq(Packets) /\ g \in Seq(Packets)
      BY <2>1
    <3> HIDE DEF f, g
    <3> QED BY <3>1, ConcatFacts
  <2> QED BY <2>2
<1>4. ASSUME NEW x \in Spots, NEW i \in 1 .. Len(G[x])
      PROVE  OX(x, i) \in Spots /\ OI(x, i) \in 1 .. Len(F[OX(x, i)])
             /\ G[x][i] = F[OX(x, i)][OI(x, i)]
  <2>1. CASE x = b /\ i > Len(F[b])
    <3>1. OX(x, i) = a /\ OI(x, i) = i - Len(F[b])
      BY <2>1
    <3>2. i - Len(F[b]) \in 1 .. Len(F[a]) /\ Len(F[b]) + (i - Len(F[b])) = i
      <4>1. i \in 1 .. Len(F[b]) + Len(F[a]) /\ i > Len(F[b])
        BY <1>3, <2>1
      <4> QED BY <1>3, <4>1, Sums
    <3>3. G[b][i] = F[a][i - Len(F[b])]
      BY <1>3, <3>2
    <3> QED BY <2>1, <3>1, <3>2, <3>3
  <2>2. CASE x = b /\ ~(i > Len(F[b]))
    <3>1. OX(x, i) = b /\ OI(x, i) = i
      BY <2>2
    <3>2. i \in 1 .. Len(F[b])
      BY <1>3, <2>2
    <3> QED BY <1>3, <2>2, <3>1, <3>2
  <2>3. CASE x # b
    <3>1. OX(x, i) = x /\ OI(x, i) = i
      BY <2>3
    <3>2. x # a
      BY <1>2
    <3> QED BY <2>3, <3>1, <3>2
  <2> QED BY <2>1, <2>2, <2>3
<1>5. \A x, y \in Spots : \A i \in 1 .. Len(G[x]), j \in 1 .. Len(G[y]) :
        OX(x, i) = OX(y, j) /\ OI(x, i) = OI(y, j) => x = y /\ i = j
  <2>1. \A x \in Spots : \A i \in 1 .. Len(G[x]) : i \in Nat /\ x # a
    BY <1>2
  <2> QED BY <1>3, <2>1
<1>6. ASSUME NEW y \in Spots, NEW j \in 1 .. Len(F[y])
      PROVE  \E x \in Spots : \E i \in 1 .. Len(G[x]) : G[x][i] = F[y][j]
  <2>1. CASE y = a
    <3>1. j \in 1 .. Len(F[a])
      BY <2>1
    <3>2. Len(F[b]) + j \in 1 .. Len(F[b]) + Len(F[a])
      BY <1>3, <3>1, Sums
    <3> QED BY <1>1, <1>3, <2>1, <3>1, <3>2
  <2>2. CASE y = b
    <3>1. j \in 1 .. Len(F[b])
      BY <2>2
    <3>2. j \in 1 .. Len(F[b]) + Len(F[a])
      BY <1>3, <3>1, Sums
    <3> QED BY <1>3, <2>2, <3>1, <3>2
  <2>3. CASE y \notin {a, b}
    BY <2>3
  <2> QED BY <2>1, <2>2, <2>3
<1>7. ASSUME NEW x \in Spots, NEW i \in 1 .. Len(G[x]), OX(x, i) # a
      PROVE  OX(x, i) = x /\ OI(x, i) = i
  BY <1>7
<1> HIDE DEF OX, OI
<1>8. Numbered(G, m)
  <2>1. ASSUME NEW x \in Spots, NEW i \in 1 .. Len(G[x]) PROVE G[x][i].n \in 1 .. m
    <3>1. PICK y \in Spots : \E j \in 1 .. Len(F[y]) : G[x][i] = F[y][j]
      BY <1>4
    <3> QED BY <1>1, <3>1
  <2> QED BY <2>1 DEF Numbered
<1>9. Unique(G)
  <2> SUFFICES ASSUME NEW x \in Spots, NEW y \in Spots,
                      NEW i \in 1 .. Len(G[x]), NEW j \in 1 .. Len(G[y]),
                      G[x][i].n = G[y][j].n
               PROVE  x = y /\ i = j
    BY DEF Unique
  <2> DEFINE X == OX(x, i)  Y == OX(y, j)  I == OI(x, i)  J == OI(y, j)
  <2>1. /\ X \in Spots /\ I \in 1 .. Len(F[X]) /\ G[x][i] = F[X][I]
        /\ Y \in Spots /\ J \in 1 .. Len(F[Y]) /\ G[y][j] = F[Y][J]
    BY <1>4
  <2>2. X = Y /\ I = J
    <3> HIDE DEF X, Y, I, J
    <3> QED BY <2>1 DEF Good, Unique
  <2> QED BY <1>5, <2>2
<1>10. \A n \in 1 .. m : Somewhere(G, n)
  <2>1. ASSUME NEW n \in 1 .. m PROVE Somewhere(G, n)
    <3>1. PICK y \in Spots : \E j \in 1 .. Len(F[y]) : F[y][j].n = n
      BY DEF Good, Somewhere
    <3>2. PICK j \in 1 .. Len(F[y]) : F[y][j].n = n
      BY <3>1
    <3>3. PICK x \in Spots : \E i \in 1 .. Len(G[x]) : G[x][i] = F[y][j]
      BY <1>6
    <3> QED BY <3>2, <3>3 DEF Somewhere
  <2> QED BY <2>1
<1>11. Ordered(G)
  <2> SUFFICES ASSUME NEW x \in Spots, NEW y \in Spots,
                      NEW i \in 1 .. Len(G[x]), NEW j \in 1 .. Len(G[y]),
                      Rank[x] < Rank[y] \/ (x = y /\ i < j), InLine(G[x][i], G[y][j])
               PROVE  G[x][i].n < G[y][j].n
    BY DEF Ordered
  <2>1. ASSUME NEW z \in Spots, NEW k \in 1 .. Len(G[z]), G[z][k].op \notin Requeued
        PROVE  k \in 1 .. Len(F[z]) /\ G[z][k] = F[z][k]
    <3> DEFINE X == OX(z, k)  I == OI(z, k)
    <3>1. X \in Spots /\ I \in 1 .. Len(F[X]) /\ G[z][k] = F[X][I]
      BY <1>4
    <3>2. X # a
      <4> HIDE DEF X, I
      <4> QED BY <2>1, <3>1
    <3>3. X = z /\ I = k
      BY <1>7, <3>2
    <3> HIDE DEF X, I
    <3> QED BY <3>1, <3>3
  <2>2. G[x][i].op \notin Requeued /\ G[y][j].op \notin Requeued
    BY DEF InLine
  <2> QED BY <2>1, <2>2 DEF Good, Ordered
<1> QED BY <1>8, <1>9, <1>10, <1>11 DEF Good

\* a packet that comes in is the last one
LEMMA Arrive ==
    ASSUME NEW F, NEW m \in Nat, Good(F, m), NEW b \in Kinds,
           NEW e \in Packets, e.n = m + 1,
           NEW G, G \in [Spots -> Seq(Packets)], SameBut(F, G, {b}),
           G[b] = Append(F[b], e)
    PROVE  Good(G, m + 1)
<1> USE DEF SameBut
<1>1. b \in Spots /\ Rank[b] = 2 /\ \A x \in Spots : Rank[x] \in 0 .. 2
  <2>1. b \in Spots
    BY DEF Spots
  <2> QED BY <2>1 DEF Rank
<1>2. /\ \A x \in Spots : F[x] \in Seq(Packets) /\ Len(F[x]) \in Nat /\ Len(G[x]) \in Nat
      /\ \A x \in Spots : \A i \in 1 .. Len(F[x]) : F[x][i].n \in 1 .. m
  <2>1. \A x \in Spots : F[x] \in Seq(Packets) /\ G[x] \in Seq(Packets)
    BY DEF Good
  <2>2. \A x \in Spots : Len(F[x]) \in Nat /\ Len(G[x]) \in Nat
    BY <2>1
  <2> QED BY <2>1, <2>2 DEF Good, Numbered
<1>3. /\ Len(F[b]) \in Nat /\ Len(G[b]) = Len(F[b]) + 1
      /\ \A i \in 1 .. Len(F[b]) : G[b][i] = F[b][i]
      /\ G[b][Len(F[b]) + 1] = e
  BY <1>1, <1>2, AppendFacts
<1>4. ASSUME NEW x \in Spots, NEW i \in 1 .. Len(G[x])
      PROVE  \/ i \in 1 .. Len(F[x]) /\ G[x][i] = F[x][i]
             \/ x = b /\ i = Len(F[b]) + 1 /\ G[x][i] = e
  <2>1. CASE x = b /\ i # Len(F[b]) + 1
    <3>1. i \in 1 .. Len(F[b])
      BY <1>3, <2>1
    <3> QED BY <1>3, <2>1, <3>1
  <2>2. CASE x = b /\ i = Len(F[b]) + 1
    BY <1>3, <2>2
  <2>3. CASE x # b
    BY <2>3
  <2> QED BY <2>1, <2>2, <2>3
<1>5. ASSUME NEW x \in Spots, NEW i \in 1 .. Len(F[x])
      PROVE  i \in 1 .. Len(G[x]) /\ G[x][i] = F[x][i]
  <2>1. CASE x = b
    <3>1. i \in 1 .. Len(F[b]) + 1
      BY <1>3, <2>1
    <3> QED BY <1>3, <2>1, <3>1
  <2>2. CASE x # b
    BY <2>2
  <2> QED BY <2>1, <2>2
<1>6. Numbered(G, m + 1)
  <2>1. ASSUME NEW x \in Spots, NEW i \in 1 .. Len(G[x]) PROVE G[x][i].n \in 1 .. m + 1
    BY <1>2, <1>4
  <2> QED BY <2>1 DEF Numbered
<1>7. Unique(G)
  <2> SUFFICES ASSUME NEW x \in Spots, NEW y \in Spots,
                      NEW i \in 1 .. Len(G[x]), NEW j \in 1 .. Len(G[y]),
                      G[x][i].n = G[y][j].n
               PROVE  x = y /\ i = j
    BY DEF Unique
  <2>1. CASE /\ i \in 1 .. Len(F[x]) /\ G[x][i] = F[x][i]
             /\ j \in 1 .. Len(F[y]) /\ G[y][j] = F[y][j]
    BY <2>1 DEF Good, Unique
  <2>2. CASE \/ i \in 1 .. Len(F[x]) /\ G[x][i] = F[x][i] /\ G[y][j] = e
             \/ j \in 1 .. Len(F[y]) /\ G[y][j] = F[y][j] /\ G[x][i] = e
    <3>1. \A n \in 1 .. m : n # m + 1
      OBVIOUS
    <3> QED BY <1>2, <2>2, <3>1
  <2> QED BY <1>4, <2>1, <2>2
<1>8. \A n \in 1 .. m + 1 : Somewhere(G, n)
  <2>1. ASSUME NEW n \in 1 .. m PROVE Somewhere(G, n)
    <3>1. PICK y \in Spots : \E j \in 1 .. Len(F[y]) : F[y][j].n = n
      BY DEF Good, Somewhere
    <3> QED BY <1>5, <3>1 DEF Somewhere
  <2>2. Somewhere(G, m + 1)
    <3>1. Len(F[b]) + 1 \in 1 .. Len(G[b])
      BY <1>3
    <3> QED BY <1>1, <1>3, <3>1 DEF Somewhere
  <2>3. \A n \in 1 .. m + 1 : n \in 1 .. m \/ n = m + 1
    OBVIOUS
  <2> QED BY <2>1, <2>2, <2>3
<1>9. Ordered(G)
  <2> SUFFICES ASSUME NEW x \in Spots, NEW y \in Spots,
                      NEW i \in 1 .. Len(G[x]), NEW j \in 1 .. Len(G[y]),
                      Rank[x] < Rank[y] \/ (x = y /\ i < j), InLine(G[x][i], G[y][j])
               PROVE  G[x][i].n < G[y][j].n
    BY DEF Ordered
  <2>1. CASE /\ i \in 1 .. Len(F[x]) /\ G[x][i] = F[x][i]
             /\ j \in 1 .. Len(F[y]) /\ G[y][j] = F[y][j]
    BY <2>1 DEF Good, Ordered
  <2>2. CASE i \in 1 .. Len(F[x]) /\ G[x][i] = F[x][i] /\ G[y][j] = e
    BY <1>2, <2>2
  <2>3. CASE x = b /\ i = Len(F[b]) + 1
    <3>1. ~(Rank[b] < Rank[y])
      <4>1. Rank[y] \in 0 .. 2
        BY <1>1
      <4> QED BY <1>1, <4>1
    <3>2. b = y /\ i < j
      BY <2>3, <3>1
    <3>3. j \in 1 .. Len(F[b]) + 1
      BY <1>3, <3>2
    <3> QED BY <1>3, <2>3, <3>2, <3>3
  <2> QED BY <1>4, <2>1, <2>2, <2>3
<1> QED BY <1>6, <1>7, <1>8, <1>9 DEF Good

-----------------------------------------------------------------------------
(* The spots of a session. *)

LEMMA SpotFacts ==
    /\ Kinds \subseteq Spots /\ "done" \in Spots
    /\ \A k \in Kinds : Rank[k] = 2
    /\ Rank["done"] = 0
    /\ \A t \in Threads : /\ AsideOf(t) \in Spots \ Kinds /\ AsideOf(t) # "done"
                          /\ HandOf(t) \in Spots \ Kinds /\ HandOf(t) # "done"
                          /\ Rank[AsideOf(t)] = 1 /\ Rank[HandOf(t)] = 1
    /\ \A t, u \in Threads : /\ AsideOf(t) # HandOf(u)
                             /\ t # u => AsideOf(t) # AsideOf(u) /\ HandOf(t) # HandOf(u)
    /\ \A x \in Spots : x \in Kinds \/ x = "done" \/ \E t \in Threads : x \in {AsideOf(t), HandOf(t)}
<1>1. Kinds \subseteq Spots /\ "done" \in Spots /\ "done" \notin Kinds
  BY DEF Spots, Kinds
<1>2. \A t \in Threads : /\ AsideOf(t) \in Spots \ Kinds /\ AsideOf(t) # "done"
                         /\ HandOf(t) \in Spots \ Kinds /\ HandOf(t) # "done"
  BY DEF Spots, Kinds, AsideOf, HandOf
<1>3. \A t, u \in Threads : /\ AsideOf(t) # HandOf(u)
                            /\ t # u => AsideOf(t) # AsideOf(u) /\ HandOf(t) # HandOf(u)
  BY DEF AsideOf, HandOf, Threads
<1>4. \A x \in Spots : x \in Kinds \/ x = "done" \/ \E t \in Threads : x \in {AsideOf(t), HandOf(t)}
  BY DEF Spots, AsideOf, HandOf, Threads
<1>5. \A x \in Spots : Rank[x] = IF x \in Kinds THEN 2 ELSE IF x = "done" THEN 0 ELSE 1
  BY DEF Rank
<1> QED BY <1>1, <1>2, <1>3, <1>4, <1>5

LEMMA SpreadFacts ==
    ASSUME NEW queues \in [Kinds -> Seq(Packets)], NEW done \in Seq(Packets),
           NEW calls \in [Threads -> Calls \union {None}], NEW s
    PROVE  /\ Spread(queues, done, calls, s) \in [Spots -> Seq(Packets)]
           /\ \A k \in Kinds : Spread(queues, done, calls, s)[k] = queues[k]
           /\ Spread(queues, done, calls, s)["done"] = done
           /\ \A t \in Threads :
                 /\ Spread(queues, done, calls, s)[AsideOf(t)] = AsideIn(calls[t], s)
                 /\ Spread(queues, done, calls, s)[HandOf(t)] = HandIn(calls[t], s)
<1>1. ASSUME NEW call \in Calls \union {None}
      PROVE  AsideIn(call, s) \in Seq(Packets) /\ HandIn(call, s) \in Seq(Packets)
  BY DEF AsideIn, HandIn, Calls
<1>2. /\ AsideIn(calls["world"], s) \in Seq(Packets) /\ HandIn(calls["world"], s) \in Seq(Packets)
      /\ AsideIn(calls["async"], s) \in Seq(Packets) /\ HandIn(calls["async"], s) \in Seq(Packets)
  <2>1. calls["world"] \in Calls \union {None} /\ calls["async"] \in Calls \union {None}
    BY DEF Threads
  <2> QED BY <1>1, <2>1
<1>3. Spread(queues, done, calls, s) \in [Spots -> Seq(Packets)]
  BY <1>2 DEF Spread
<1>4. \A k \in Kinds : Spread(queues, done, calls, s)[k] = queues[k]
  BY SpotFacts DEF Spread
<1>5. Spread(queues, done, calls, s)["done"] = done
  BY SpotFacts DEF Spread, Kinds
<1>6. \A t \in Threads :
         /\ Spread(queues, done, calls, s)[AsideOf(t)] = AsideIn(calls[t], s)
         /\ Spread(queues, done, calls, s)[HandOf(t)] = HandIn(calls[t], s)
  <2>1. \A t \in Threads : t = "world" \/ t = "async"
    BY DEF Threads
  <2> QED BY <2>1 DEF Spread, Spots, Kinds, AsideOf, HandOf
<1> QED BY <1>3, <1>4, <1>5, <1>6

LEMMA AtFacts ==
    ASSUME NEW s \in Sessions, TypeOK
    PROVE  /\ At(s) \in [Spots -> Seq(Packets)]
           /\ \A k \in Kinds : At(s)[k] = _recvQueue[s][k]
           /\ At(s)["done"] = handled[s]
           /\ \A t \in Threads : /\ At(s)[AsideOf(t)] = AsideIn(pass[t], s)
                                 /\ At(s)[HandOf(t)] = HandIn(pass[t], s)
<1>1. /\ _recvQueue[s] \in [Kinds -> Seq(Packets)] /\ handled[s] \in Seq(Packets)
      /\ pass \in [Threads -> Calls \union {None}]
  BY DEF TypeOK
<1>2. PICK queues \in [Kinds -> Seq(Packets)], done \in Seq(Packets),
           calls \in [Threads -> Calls \union {None}] :
         /\ At(s) = Spread(queues, done, calls, s)
         /\ queues = _recvQueue[s] /\ done = handled[s] /\ calls = pass
  BY <1>1 DEF At
<1>3. /\ Spread(queues, done, calls, s) \in [Spots -> Seq(Packets)]
      /\ \A k \in Kinds : Spread(queues, done, calls, s)[k] = queues[k]
      /\ Spread(queues, done, calls, s)["done"] = done
      /\ \A t \in Threads :
            /\ Spread(queues, done, calls, s)[AsideOf(t)] = AsideIn(calls[t], s)
            /\ Spread(queues, done, calls, s)[HandOf(t)] = HandIn(calls[t], s)
  BY SpreadFacts
<1> QED BY <1>2, <1>3

LEMMA DoneInALine ==
    ASSUME NEW s \in Sessions, TypeOK, NEW m, Good(At(s), m)
    PROVE  InALine(handled[s])
<1>1. PICK F : F = At(s) /\ F["done"] = handled[s] /\ Ordered(F)
  BY AtFacts DEF Good
<1>2. "done" \in Spots
  BY SpotFacts
<1> QED BY <1>1, <1>2 DEF Ordered, InALine

\* the same after a step
LEMMA AtFactsAfter ==
    ASSUME NEW s \in Sessions, TypeOK'
    PROVE  /\ At(s)' \in [Spots -> Seq(Packets)]
           /\ \A k \in Kinds : At(s)'[k] = _recvQueue'[s][k]
           /\ At(s)'["done"] = handled'[s]
           /\ \A t \in Threads : /\ At(s)'[AsideOf(t)] = AsideIn(pass'[t], s)
                                 /\ At(s)'[HandOf(t)] = HandIn(pass'[t], s)
<1>1. /\ _recvQueue'[s] \in [Kinds -> Seq(Packets)] /\ handled'[s] \in Seq(Packets)
      /\ pass' \in [Threads -> Calls \union {None}]
  BY DEF TypeOK
<1>2. PICK queues \in [Kinds -> Seq(Packets)], done \in Seq(Packets),
           calls \in [Threads -> Calls \union {None}] :
         /\ At(s)' = Spread(queues, done, calls, s)
         /\ queues = _recvQueue'[s] /\ done = handled'[s] /\ calls = pass'
  BY <1>1 DEF At
<1>3. /\ Spread(queues, done, calls, s) \in [Spots -> Seq(Packets)]
      /\ \A k \in Kinds : Spread(queues, done, calls, s)[k] = queues[k]
      /\ Spread(queues, done, calls, s)["done"] = done
      /\ \A t \in Threads :
            /\ Spread(queues, done, calls, s)[AsideOf(t)] = AsideIn(calls[t], s)
            /\ Spread(queues, done, calls, s)[HandOf(t)] = HandIn(calls[t], s)
  BY SpreadFacts
<1> QED BY <1>2, <1>3

\* the pass that a thread is in
LEMMA CallOf ==
    ASSUME TypeOK, NEW t \in Threads, pass[t] # None
    PROVE  /\ pass[t] \in Calls
           /\ Session(t) \in Sessions /\ pass[t].kind \in Kinds /\ pass[t].total \in Nat
           /\ pass[t].packet \in Packets \union {None} /\ pass[t].aside \in Seq(Packets)
           /\ Queue(t) \in Seq(Packets)
<1>1. pass[t] \in Calls
  BY DEF TypeOK
<1>2. /\ pass[t].session \in Sessions /\ pass[t].kind \in Kinds /\ pass[t].total \in Nat
      /\ pass[t].packet \in Packets \union {None} /\ pass[t].aside \in Seq(Packets)
  BY <1>1 DEF Calls
<1> QED BY <1>1, <1>2 DEF Session, Queue, TypeOK

\* the packets of its kind that are not its own are never of one line with its own
LEMMA Apart ==
    ASSUME TypeOK, KindsInv, NEW t \in Threads, pass[t] # None,
           NEW e \in Packets, Kind[e.op] = pass[t].kind,
           NEW y \in Spots, y \notin {"done", pass[t].kind, HandOf(t)},
           NEW j \in 1 .. Len(At(Session(t))[y])
    PROVE  ~InLine(e, At(Session(t))[y][j])
<1> DEFINE s == Session(t)
<1>1. s \in Sessions
  BY CallOf
<1>2. /\ \A k \in Kinds : At(s)[k] = _recvQueue[s][k]
      /\ \A u \in Threads : /\ At(s)[AsideOf(u)] = AsideIn(pass[u], s)
                            /\ At(s)[HandOf(u)] = HandIn(pass[u], s)
  <2> HIDE DEF s
  <2> QED BY <1>1, AtFacts
<1>3. CASE y \in Kinds
  <2>1. At(s)[y] = _recvQueue[s][y]
    BY <1>2, <1>3
  <2>2. Kind[_recvQueue[s][y][j].op] = y
    BY <1>1, <1>3, <2>1 DEF KindsInv
  <2> QED BY <2>1, <2>2 DEF InLine
<1>4. ASSUME NEW u \in Threads, y = AsideOf(u) PROVE ~InLine(e, At(s)[y][j])
  <2>1. At(s)[y] = AsideIn(pass[u], s)
    BY <1>2, <1>4
  <2>2. pass[u] # None /\ At(s)[y] = pass[u].aside
    <3>1. Len(<<>>) = 0 /\ ~\E i \in 1 .. 0 : TRUE
      BY EmptySeq
    <3> QED BY <2>1, <3>1 DEF AsideIn
  <2>3. At(s)[y][j].op \in Requeued
    BY <2>2 DEF KindsInv, PassInv
  <2> QED BY <2>3 DEF InLine
<1>5. ASSUME NEW u \in Threads, y = HandOf(u) PROVE ~InLine(e, At(s)[y][j])
  <2>1. At(s)[y] = HandIn(pass[u], s)
    BY <1>2, <1>5
  <2>2. pass[u] # None /\ pass[u].packet # None /\ At(s)[y] = <<pass[u].packet>> /\ j = 1
    <3>1. Len(<<>>) = 0 /\ ~\E i \in 1 .. 0 : TRUE
      BY EmptySeq
    <3> QED BY <2>1, <3>1 DEF HandIn
  <2>3. u # t
    BY <1>5
  <2>4. Kind[pass[u].packet.op] \in KindsOf(u) /\ pass[t].kind \in KindsOf(t)
    BY <2>2 DEF KindsInv, PassInv
  <2>5. Kind[pass[u].packet.op] # pass[t].kind
    BY <2>3, <2>4 DEF KindsOf, Threads
  <2> QED BY <2>2, <2>5 DEF InLine
<1> QED BY <1>3, <1>4, <1>5, SpotFacts

-----------------------------------------------------------------------------
(* Steps that leave the packets alone. *)

LEMMA QuietStep ==
    ASSUME IInv, UNCHANGED <<pass, _recvQueue, handled, received, traffic, deleted>>,
           TypeOK', FlagInv',
           apc' \notin {"handle", "undefined"} =>
              apc \notin {"handle", "undefined"} \/ pass["async"] = None
    PROVE  IInv'
<1>1. PacketInv'
  BY DEF IInv, PacketInv, At
<1>2. KindsInv'
  <2>1. \A t \in Threads : PassInv(t)'
    BY DEF IInv, KindsInv, PassInv
  <2> QED BY <2>1 DEF IInv, KindsInv
<1> QED BY <1>1, <1>2 DEF IInv

\* whatever the iteration may meet after a change of m_sessions
LEMMA IterationFacts ==
    ASSUME NEW found, found \subseteq Sessions, NEW freed, freed \subseteq {{None}},
           left \subseteq Sessions \union {None}, Iteration(found, freed)
    PROVE  left' \subseteq Sessions \union {None}
  BY DEF Iteration

LEMMA ThreadStep ==
    ASSUME IInv,
           \/ NextPhase
           \/ AsyncLoop \/ AsyncWait \/ AsyncEnd \/ AsyncHandled \/ AsyncLost \/ AsyncPoll
           \/ \E s \in Sessions : AddSession(s) \/ RemoveSession(s)
           \/ \E s \in Sessions : PlayerMoves(s) \/ CloseSocket(s) \/ WindowEnds(s)
           \/ StopNow \/ Join \/ JoinWaits \/ Done
    PROVE  IInv'
<1> USE DEF threadVars, objectVars, worldVars, asyncVars, packetVars, vars
<1>1. TypeOK /\ FlagInv
  BY DEF IInv
<1> DEFINE Kept == /\ UNCHANGED <<pass, _recvQueue, handled, received, traffic, deleted>>
                   /\ TypeOK' /\ FlagInv'
                   /\ apc' \notin {"handle", "undefined"} =>
                         apc \notin {"handle", "undefined"} \/ pass["async"] = None
<1>2. ASSUME UpdateBegin PROVE Kept
  <2>1. late' = 0 /\ ~m_canProcessAsyncPackets'
    BY <1>2 DEF UpdateBegin
  <2>2. FlagInv'
    BY <2>1 DEF FlagInv
  <2> QED BY <1>1, <1>2, <2>2 DEF UpdateBegin, TypeOK
<1>3. ASSUME UpdateEnd PROVE Kept
  BY <1>1, <1>3 DEF UpdateEnd, TypeOK, FlagInv
<1>4. ASSUME ShutdownBegin PROVE Kept
  <2>1. wpc' = "shutdown" /\ late' = 0 /\ socket' \in [Sessions -> BOOLEAN]
    BY <1>1, <1>4 DEF ShutdownBegin, TypeOK
  <2>2. FlagInv'
    BY <2>1 DEF FlagInv
  <2> QED BY <1>1, <1>4, <2>1, <2>2 DEF ShutdownBegin, TypeOK
<1>5. ASSUME ShutdownEnd PROVE Kept
  BY <1>1, <1>5 DEF ShutdownEnd, TypeOK, FlagInv
<1>6. ASSUME NEW s \in Sessions, AddSession(s) PROVE Kept
  <2>1. m_sessions \union {s} \subseteq Sessions /\ left \subseteq Sessions \union {None}
    BY <1>1 DEF TypeOK
  <2>2. Iteration(m_sessions \union {s}, {{None}})
    BY <1>6 DEF AddSession
  <2>3. left' \subseteq Sessions \union {None}
    BY <2>1, <2>2, IterationFacts
  <2> QED BY <1>1, <1>6, <2>1, <2>3 DEF AddSession, TypeOK, FlagInv
<1>7. ASSUME NEW s \in Sessions, RemoveSession(s) PROVE Kept
  <2>1. m_sessions \subseteq Sessions /\ left \subseteq Sessions \union {None}
    BY <1>1 DEF TypeOK
  <2>2. Iteration(m_sessions, {})
    BY <1>7 DEF RemoveSession
  <2>3. left' \subseteq Sessions \union {None}
    BY <2>1, <2>2, IterationFacts
  <2> QED BY <1>1, <1>7, <2>1, <2>3 DEF RemoveSession, TypeOK, FlagInv
<1>8. ASSUME AsyncLoop PROVE Kept
  BY <1>1, <1>8 DEF AsyncLoop, TypeOK, FlagInv
<1>9. ASSUME AsyncWait PROVE Kept
  BY <1>1, <1>9 DEF AsyncWait, TypeOK, FlagInv
<1>10. ASSUME AsyncEnd PROVE Kept
  BY <1>1, <1>10 DEF AsyncEnd, TypeOK, FlagInv
<1>11. ASSUME AsyncHandled PROVE Kept
  BY <1>1, <1>11 DEF AsyncHandled, TypeOK, FlagInv
<1>12. ASSUME AsyncLost PROVE Kept
  BY <1>1, <1>12 DEF AsyncLost, TypeOK, FlagInv
<1>13. ASSUME AsyncPoll \/ JoinWaits \/ Done PROVE Kept
  BY <1>1, <1>13 DEF AsyncPoll, JoinWaits, Done, TypeOK, FlagInv
<1>14. ASSUME NEW s \in Sessions, PlayerMoves(s) PROVE Kept
  BY <1>1, <1>14 DEF PlayerMoves, TypeOK, FlagInv
<1>15. ASSUME NEW s \in Sessions, CloseSocket(s) PROVE Kept
  BY <1>1, <1>15 DEF CloseSocket, TypeOK, FlagInv
<1>16. ASSUME NEW s \in Sessions, WindowEnds(s) PROVE Kept
  <2>1. count' \in [Sessions -> [Requeued -> 0 .. RequeueLimit \union {None}]]
    <3>1. PICK op \in Requeued : count' = [count EXCEPT ![s] = [@ EXCEPT ![op] = None]]
      BY <1>16 DEF WindowEnds
    <3>2. PICK row : row = [count[s] EXCEPT ![op] = None]
      OBVIOUS
    <3>3. count \in [Sessions -> [Requeued -> 0 .. RequeueLimit \union {None}]]
      BY <1>1 DEF TypeOK
    <3>4. row \in [Requeued -> 0 .. RequeueLimit \union {None}] /\ count' = [count EXCEPT ![s] = row]
      BY <3>1, <3>2, <3>3
    <3> QED BY <3>3, <3>4
  <2> QED BY <1>1, <1>16, <2>1 DEF WindowEnds, TypeOK, FlagInv
<1>17. ASSUME StopNow PROVE Kept
  BY <1>1, <1>17 DEF StopNow, TypeOK, FlagInv
<1>18. ASSUME Join PROVE Kept
  BY <1>1, <1>18 DEF Join, TypeOK, FlagInv
<1>19. Kept
  <2> HIDE DEF Kept
  <2> QED BY <1>2, <1>3, <1>4, <1>5, <1>6, <1>7, <1>8, <1>9, <1>10, <1>11, <1>12, <1>13,
             <1>14, <1>15, <1>16, <1>17, <1>18 DEF NextPhase
<1> QED BY <1>19, QuietStep

\* what happens to the packets of a session that is deleted is of no account
LEMMA DeleteStep ==
    ASSUME IInv, NEW s \in Sessions, DeleteSession(s) \/ DeleteLeft(s)
    PROVE  IInv'
<1> USE DEF threadVars, worldVars, asyncVars
<1>1. TypeOK /\ KindsInv /\ PacketInv /\ FlagInv
  BY DEF IInv
<1>2. /\ deleted' = deleted \union {s} /\ inWorld' = inWorld \ {s}
      /\ socket' = [socket EXCEPT ![s] = FALSE]
      /\ _recvQueue' = [_recvQueue EXCEPT ![s] = [k \in Kinds |-> <<>>]]
      /\ UNCHANGED <<count, handled, received, traffic, pass, wpc, apc, mpc, m_stopEvent,
                     m_canProcessAsyncPackets, late>>
  BY DEF DeleteSession, DeleteLeft, Deleted
<1>3. /\ _recvQueue'[s] = [k \in Kinds |-> <<>>]
      /\ \A r \in Sessions \ {s} : _recvQueue'[r] = _recvQueue[r]
      /\ _recvQueue' \in [Sessions -> [Kinds -> Seq(Packets)]]
  <2>1. <<>> \in Seq(Packets)
    BY EmptySeq
  <2>2. _recvQueue \in [Sessions -> [Kinds -> Seq(Packets)]]
    BY <1>1 DEF TypeOK
  <2>3. PICK row : row = [k \in Kinds |-> <<>>]
    OBVIOUS
  <2>4. row \in [Kinds -> Seq(Packets)]
    BY <2>1, <2>3
  <2> QED BY <1>2, <2>2, <2>3, <2>4
<1>4. TypeOK'
  <2>1. /\ m_sessions' \subseteq Sessions /\ removed' \subseteq Sessions
        /\ left' \subseteq Sessions \union {None}
    <3>1. CASE DeleteSession(s)
      BY <1>1, <3>1 DEF DeleteSession, TypeOK
    <3>2. CASE DeleteLeft(s)
      <4>1. m_sessions \subseteq Sessions /\ left \subseteq Sessions \union {None}
        BY <1>1 DEF TypeOK
      <4>2. Iteration(m_sessions, {})
        BY <3>2 DEF DeleteLeft
      <4>3. left' \subseteq Sessions \union {None}
        BY <4>1, <4>2, IterationFacts
      <4> QED BY <1>1, <3>2, <4>3 DEF DeleteLeft, TypeOK
    <3> QED BY <3>1, <3>2
  <2>2. deleted' \subseteq Sessions /\ inWorld' \subseteq Sessions /\ socket' \in [Sessions -> BOOLEAN]
    BY <1>1, <1>2 DEF TypeOK
  <2> QED BY <1>1, <1>2, <1>3, <2>1, <2>2 DEF TypeOK
<1>5. KindsInv'
  <2>1. \A t \in Threads : PassInv(t)'
    BY <1>1, <1>2 DEF KindsInv, PassInv
  <2>2. ASSUME NEW r \in Sessions, NEW k \in Kinds, NEW i \in 1 .. Len(_recvQueue'[r][k])
        PROVE  Kind[_recvQueue'[r][k][i].op] = k
    <3>1. CASE r = s
      <4>1. _recvQueue'[r][k] = <<>>
        BY <1>3, <3>1
      <4>2. Len(<<>>) = 0 /\ ~\E j \in 1 .. 0 : TRUE
        BY EmptySeq
      <4> QED BY <4>1, <4>2
    <3>2. CASE r # s
      <4>1. _recvQueue'[r] = _recvQueue[r]
        BY <1>3, <3>2
      <4> QED BY <1>1, <4>1 DEF KindsInv
    <3> QED BY <3>1, <3>2
  <2> QED BY <1>1, <1>2, <2>1, <2>2 DEF KindsInv
<1>6. PacketInv'
  <2>1. ASSUME NEW r \in Sessions \ deleted' PROVE Good(At(r)', received'[r])
    <3>1. r \in Sessions \ deleted /\ r # s
      BY <1>2
    <3>2. At(r)' = At(r)
      BY <1>2, <1>3, <3>1 DEF At
    <3> QED BY <1>1, <1>2, <3>1, <3>2 DEF PacketInv
  <2>2. ASSUME NEW r \in deleted' PROVE InALine(handled'[r])
    <3>1. CASE r \in deleted
      BY <1>1, <1>2, <3>1 DEF PacketInv
    <3>2. CASE r \notin deleted
      <4>1. r = s /\ Good(At(s), received[s])
        BY <1>1, <1>2, <3>2 DEF PacketInv
      <4>2. InALine(handled[s])
        BY <1>1, <4>1, DoneInALine
      <4> QED BY <1>2, <4>1, <4>2
    <3> QED BY <3>1, <3>2
  <2> QED BY <2>1, <2>2 DEF PacketInv
<1>7. FlagInv'
  BY <1>1, <1>2 DEF FlagInv
<1> QED BY <1>4, <1>5, <1>6, <1>7 DEF IInv

-----------------------------------------------------------------------------
(* A thread calls ProcessPackets. *)

\* a new call has nothing in its hand or aside
LEMMA StartStep ==
    ASSUME IInv, UNCHANGED <<packetVars, deleted>>, TypeOK', FlagInv',
           NEW t \in Threads, NEW s \in Sessions, NEW kind \in KindsOf(t),
           pass[t] = None, pass' = [pass EXCEPT ![t] = NewPass(s, kind)],
           t = "async" => apc' = "handle", t # "async" => apc' = apc
    PROVE  IInv'
<1>1. TypeOK /\ KindsInv /\ PacketInv
  BY DEF IInv
<1>2. /\ pass'[t] = NewPass(s, kind)
      /\ \A u \in Threads \ {t} : pass'[u] = pass[u]
  BY <1>1 DEF TypeOK
<1>3. \A r \in Sessions : At(r)' = At(r)
  <2>1. ASSUME NEW r \in Sessions
        PROVE  /\ AsideIn(pass'[t], r) = <<>> /\ HandIn(pass'[t], r) = <<>>
               /\ AsideIn(pass[t], r) = <<>> /\ HandIn(pass[t], r) = <<>>
    BY <1>2 DEF AsideIn, HandIn, NewPass
  <2>2. \A r \in Sessions, u \in Threads :
           AsideIn(pass'[u], r) = AsideIn(pass[u], r) /\ HandIn(pass'[u], r) = HandIn(pass[u], r)
    BY <1>2, <2>1
  <2>3. "world" \in Threads /\ "async" \in Threads
    BY DEF Threads
  <2> QED BY <2>2, <2>3 DEF At, Spread, packetVars
<1>4. PacketInv'
  BY <1>1, <1>3 DEF PacketInv, packetVars
<1>5. KindsInv'
  <2>1. \A u \in Threads \ {t} : PassInv(u)'
    BY <1>1, <1>2 DEF KindsInv, PassInv
  <2>2. PassInv(t)'
    <3>1. pass'[t].kind = kind /\ pass'[t].packet = None /\ pass'[t].aside = <<>>
      BY <1>2 DEF NewPass
    <3>2. Len(<<>>) = 0 /\ ~\E i \in 1 .. 0 : TRUE
      BY EmptySeq
    <3> QED BY <3>1, <3>2 DEF PassInv
  <2>3. apc' \notin {"handle", "undefined"} => pass'["async"] = None
    BY <1>1, <1>2 DEF KindsInv, Threads
  <2> QED BY <1>1, <2>1, <2>2, <2>3 DEF KindsInv, packetVars
<1> QED BY <1>4, <1>5 DEF IInv

LEMMA NewPassIsACall ==
    ASSUME NEW s \in Sessions, NEW kind \in Kinds
    PROVE  NewPass(s, kind) \in Calls
  BY DEF NewPass, Calls

LEMMA CallStep ==
    ASSUME IInv, NEW s \in Sessions, WorldPass(s) \/ MapPass(s) \/ AsyncNext(s)
    PROVE  IInv'
<1> USE DEF threadVars, objectVars, worldVars, asyncVars
<1>1. TypeOK /\ FlagInv /\ KindsInv
  BY DEF IInv
<1>2. CASE WorldPass(s)
  <2>1. /\ "world" \in Threads /\ "WORLD" \in KindsOf("world") /\ "WORLD" \in Kinds
    BY DEF Threads, KindsOf, Kinds
  <2>2. /\ pass["world"] = None /\ pass' = [pass EXCEPT !["world"] = NewPass(s, "WORLD")]
        /\ UNCHANGED <<threadVars, socket, inWorld, packetVars>>
    BY <1>2 DEF WorldPass, Starts
  <2>3. TypeOK'
    BY <1>1, <2>1, <2>2, NewPassIsACall DEF TypeOK, packetVars
  <2>4. FlagInv'
    BY <1>1, <2>2 DEF FlagInv
  <2> QED BY <2>1, <2>2, <2>3, <2>4, StartStep
<1>3. CASE MapPass(s)
  <2>1. /\ "world" \in Threads /\ "MAP" \in KindsOf("world") /\ "MAP" \in Kinds
    BY DEF Threads, KindsOf, Kinds
  <2>2. /\ pass["world"] = None /\ pass' = [pass EXCEPT !["world"] = NewPass(s, "MAP")]
        /\ UNCHANGED <<threadVars, socket, inWorld, packetVars>>
    BY <1>3 DEF MapPass, Starts
  <2>3. TypeOK'
    BY <1>1, <2>1, <2>2, NewPassIsACall DEF TypeOK, packetVars
  <2>4. FlagInv'
    BY <1>1, <2>2 DEF FlagInv
  <2> QED BY <2>1, <2>2, <2>3, <2>4, StartStep
<1>4. CASE AsyncNext(s)
  <2>1. /\ "async" \in Threads /\ "DB_QUERY" \in KindsOf("async") /\ "DB_QUERY" \in Kinds
    BY DEF Threads, KindsOf, Kinds
  <2>2. /\ apc = "next" /\ apc' = "handle" /\ left' = left \ {s}
        /\ late' = IF wpc \in {"update", "shutdown"} THEN late + 1 ELSE late
        /\ UNCHANGED <<worldVars, mpc, m_stopEvent, socket, inWorld, packetVars>>
    BY <1>4 DEF AsyncNext, Meets
  <2>3. pass["async"] = None
    BY <1>1, <2>2 DEF KindsInv
  <2>4. pass' = pass \/ pass' = [pass EXCEPT !["async"] = NewPass(s, "DB_QUERY")]
    BY <1>4 DEF AsyncNext, Meets, Begun
  <2>5. TypeOK'
    <3>1. pass' \in [Threads -> Calls \union {None}]
      <4>1. PICK call \in Calls : call = NewPass(s, "DB_QUERY")
        BY <2>1, NewPassIsACall
      <4>2. pass' = pass \/ pass' = [pass EXCEPT !["async"] = call]
        BY <2>4, <4>1
      <4>3. pass \in [Threads -> Calls \union {None}]
        BY <1>1 DEF TypeOK
      <4> QED BY <4>2, <4>3
    <3>2. late' \in Nat
      BY <1>1, <2>2 DEF TypeOK
    <3> QED BY <1>1, <2>2, <3>1, <3>2 DEF TypeOK, packetVars
  <2>6. FlagInv'
    BY <1>1, <2>2 DEF FlagInv
  <2>7. CASE pass' = pass
    BY <2>2, <2>3, <2>5, <2>6, <2>7, QuietStep DEF packetVars
  <2>8. CASE pass' = [pass EXCEPT !["async"] = NewPass(s, "DB_QUERY")]
    BY <2>1, <2>2, <2>3, <2>5, <2>6, <2>8, StartStep
  <2> QED BY <2>4, <2>7, <2>8
<1> QED BY <1>2, <1>3, <1>4

-----------------------------------------------------------------------------
(* ProcessPackets. *)

\* a step of the pass of thread t over the packets of kind k of session s
PassChange(t, s, k) ==
  /\ UNCHANGED <<threadVars, received, traffic>>
  /\ pass[t] # None /\ pass[t].session = s /\ pass[t].kind = k /\ s \notin deleted
  /\ \A r \in Sessions \ {s} : _recvQueue'[r] = _recvQueue[r] /\ handled'[r] = handled[r]
  /\ \A c \in Kinds \ {k} : _recvQueue'[s][c] = _recvQueue[s][c]
  /\ \A i \in 1 .. Len(_recvQueue'[s][k]) : Kind[_recvQueue'[s][k][i].op] = k
  /\ \A u \in Threads \ {t} : pass'[u] = pass[u]
  /\ pass'[t] # None => pass'[t].session = s
  /\ PassInv(t)'

LEMMA PassFrame ==
    ASSUME IInv, TypeOK', NEW t \in Threads, NEW s \in Sessions, NEW k \in Kinds,
           PassChange(t, s, k), Good(At(s)', received[s])
    PROVE  IInv'
<1> USE DEF PassChange
<1>1. TypeOK /\ KindsInv /\ PacketInv /\ FlagInv
  BY DEF IInv
<1>3. \A r \in Sessions \ {s} : At(r)' = At(r)
  <2>1. \A r \in Sessions \ {s}, u \in Threads :
           AsideIn(pass'[u], r) = AsideIn(pass[u], r) /\ HandIn(pass'[u], r) = HandIn(pass[u], r)
    BY DEF AsideIn, HandIn
  <2>2. "world" \in Threads /\ "async" \in Threads
    BY DEF Threads
  <2> QED BY <2>1, <2>2 DEF At, Spread
<1>4. PacketInv'
  <2>1. \A r \in Sessions : received'[r] = received[r]
    OBVIOUS
  <2>2. deleted' = deleted
    BY DEF threadVars
  <2>3. ASSUME NEW r \in Sessions \ deleted PROVE Good(At(r)', received'[r])
    BY <1>1, <1>3, <2>1 DEF PacketInv
  <2>4. ASSUME NEW r \in deleted PROVE InALine(handled'[r])
    <3>1. r \in Sessions \ {s}
      BY <1>1 DEF TypeOK
    <3> QED BY <1>1, <3>1 DEF PacketInv
  <2> QED BY <2>2, <2>3, <2>4 DEF PacketInv
<1>5. KindsInv'
  <2>1. \A u \in Threads \ {t} : PassInv(u)'
    BY <1>1 DEF KindsInv, PassInv
  <2>2. apc' \notin {"handle", "undefined"} => pass'["async"] = None
    <3>1. apc' = apc /\ (t = "async" => apc \in {"handle", "undefined"})
      BY <1>1 DEF threadVars, KindsInv
    <3> QED BY <1>1, <3>1 DEF KindsInv, Threads
  <2>3. ASSUME NEW r \in Sessions, NEW c \in Kinds, NEW i \in 1 .. Len(_recvQueue'[r][c])
        PROVE  Kind[_recvQueue'[r][c][i].op] = c
    BY <1>1 DEF KindsInv
  <2>4. \A r \in Sessions : traffic'[r] \in Seq(Opcodes)
    BY <1>1 DEF KindsInv
  <2> QED BY <2>1, <2>2, <2>3, <2>4 DEF KindsInv
<1>6. FlagInv'
  BY <1>1 DEF FlagInv, threadVars
<1> QED BY <1>4, <1>5, <1>6 DEF IInv

\* the packet that a pass takes from the queue
LEMMA HeadFacts ==
    ASSUME TypeOK, KindsInv, NEW t \in Threads, pass[t] # None, MayTake(t)
    PROVE  /\ Queue(t) \in Seq(Packets) /\ Queue(t) # <<>>
           /\ Head(Queue(t)) = Queue(t)[1] /\ Head(Queue(t)) \in Packets
           /\ Kind[Head(Queue(t)).op] = pass[t].kind
           /\ Tail(Queue(t)) \in Seq(Packets)
           /\ \A i \in 1 .. Len(Tail(Queue(t))) : Kind[Tail(Queue(t))[i].op] = pass[t].kind
<1>1. Session(t) \in Sessions /\ pass[t].kind \in Kinds /\ Queue(t) \in Seq(Packets)
  BY CallOf
<1>2. Queue(t) # <<>>
  BY DEF MayTake, MayProcess, Queue
<1>3. /\ Head(Queue(t)) = Queue(t)[1] /\ Head(Queue(t)) \in Packets /\ Tail(Queue(t)) \in Seq(Packets)
      /\ Len(Queue(t)) \in Nat \ {0} /\ Len(Tail(Queue(t))) = Len(Queue(t)) - 1
      /\ \A i \in 1 .. Len(Queue(t)) - 1 : Tail(Queue(t))[i] = Queue(t)[i + 1]
  BY <1>1, <1>2, TailFacts
<1>4. \A i \in 1 .. Len(Queue(t)) : Kind[Queue(t)[i].op] = pass[t].kind
  BY <1>1 DEF KindsInv, Queue
<1>5. ASSUME NEW i \in 1 .. Len(Tail(Queue(t))) PROVE Kind[Tail(Queue(t))[i].op] = pass[t].kind
  <2>1. i + 1 \in 1 .. Len(Queue(t)) /\ Tail(Queue(t))[i] = Queue(t)[i + 1]
    BY <1>3
  <2> QED BY <1>4, <2>1
<1>6. 1 \in 1 .. Len(Queue(t))
  BY <1>3
<1> QED BY <1>1, <1>2, <1>3, <1>4, <1>5, <1>6

\* a change of one queue, of one call, and of the spots of a session
LEMMA QueueChange ==
    ASSUME NEW old \in [Sessions -> [Kinds -> Seq(Packets)]], NEW s \in Sessions, NEW k \in Kinds,
           NEW packets \in Seq(Packets), NEW new, new = [old EXCEPT ![s][k] = packets]
    PROVE  /\ new \in [Sessions -> [Kinds -> Seq(Packets)]]
           /\ \A r \in Sessions \ {s} : new[r] = old[r]
           /\ \A c \in Kinds \ {k} : new[s][c] = old[s][c]
           /\ new[s][k] = packets
<1>1. PICK row : row = [old[s] EXCEPT ![k] = packets]
  OBVIOUS
<1>2. new = [old EXCEPT ![s] = row]
  BY <1>1
<1>3. /\ row \in [Kinds -> Seq(Packets)] /\ row[k] = packets
      /\ \A c \in Kinds \ {k} : row[c] = old[s][c]
  BY <1>1
<1> QED BY <1>2, <1>3

LEMMA OtherSpots ==
    ASSUME NEW F, NEW G, NEW changed,
           \A k \in Kinds : k \notin changed => G[k] = F[k],
           "done" \notin changed => G["done"] = F["done"],
           \A u \in Threads : AsideOf(u) \notin changed => G[AsideOf(u)] = F[AsideOf(u)],
           \A u \in Threads : HandOf(u) \notin changed => G[HandOf(u)] = F[HandOf(u)]
    PROVE  SameBut(F, G, changed)
<1>1. \A x \in Spots : x \in Kinds \/ x = "done" \/ \E t \in Threads : x \in {AsideOf(t), HandOf(t)}
  BY SpotFacts
<1> QED BY <1>1 DEF SameBut

LEMMA TakeStep ==
    ASSUME IInv, NEW t \in Threads, Take(t)
    PROVE  IInv'
<1>1. TypeOK /\ KindsInv /\ PacketInv
  BY DEF IInv
<1>2. pass[t] # None /\ Session(t) \notin deleted /\ pass[t].packet = None /\ MayTake(t) /\ ~PutsOff(t)
  BY DEF Take, Passing
<1>3. PICK s \in Sessions, k \in Kinds, e \in Packets :
        /\ s = Session(t) /\ s \notin deleted /\ s = pass[t].session /\ k = pass[t].kind
        /\ e = Head(Queue(t))
        /\ Queue(t) # <<>> /\ Queue(t) = _recvQueue[s][k] /\ e = Queue(t)[1] /\ Kind[e.op] = k
  BY <1>1, <1>2, CallOf, HeadFacts DEF Session, Queue
<1>4. /\ \A r \in Sessions \ {s} : _recvQueue'[r] = _recvQueue[r]
      /\ \A c \in Kinds \ {k} : _recvQueue'[s][c] = _recvQueue[s][c]
      /\ _recvQueue'[s][k] = Tail(_recvQueue[s][k])
      /\ _recvQueue' \in [Sessions -> [Kinds -> Seq(Packets)]]
      /\ \A i \in 1 .. Len(_recvQueue'[s][k]) : Kind[_recvQueue'[s][k][i].op] = k
  <2>1. _recvQueue' = [_recvQueue EXCEPT ![s][k] = Tail(_recvQueue[s][k])]
    BY <1>3 DEF Take, Popped
  <2>2. /\ Tail(_recvQueue[s][k]) \in Seq(Packets)
        /\ \A i \in 1 .. Len(Tail(_recvQueue[s][k])) : Kind[Tail(_recvQueue[s][k])[i].op] = k
    BY <1>1, <1>2, <1>3, HeadFacts
  <2>3. _recvQueue \in [Sessions -> [Kinds -> Seq(Packets)]]
    BY <1>1 DEF TypeOK
  <2>4. /\ _recvQueue' \in [Sessions -> [Kinds -> Seq(Packets)]]
        /\ \A r \in Sessions \ {s} : _recvQueue'[r] = _recvQueue[r]
        /\ \A c \in Kinds \ {k} : _recvQueue'[s][c] = _recvQueue[s][c]
        /\ _recvQueue'[s][k] = Tail(_recvQueue[s][k])
    BY <2>1, <2>2, <2>3, QueueChange
  <2> QED BY <2>2, <2>4
<1>5. /\ pass'[t] \in Calls /\ pass'[t].session = s /\ pass'[t].kind = k
      /\ pass'[t].packet = e /\ pass'[t].aside = pass[t].aside
      /\ \A u \in Threads \ {t} : pass'[u] = pass[u]
      /\ pass' \in [Threads -> Calls \union {None}]
  <2>1. /\ pass[t] \in Calls /\ pass[t].total + 1 \in Nat /\ pass[t].aside \in Seq(Packets)
        /\ pass \in [Threads -> Calls \union {None}]
    BY <1>1, <1>2, CallOf DEF TypeOK
  <2>2. PICK old \in Calls : old = pass[t] /\ old.session = s /\ old.kind = k
    BY <1>3, <2>1
  <2>3. PICK call \in Calls : call = [old EXCEPT !.packet = e, !.total = @ + 1]
    <3>1. [old EXCEPT !.packet = e, !.total = @ + 1] \in Calls
      BY <2>1, <2>2 DEF Calls
    <3> QED BY <3>1
  <2>4. call.session = s /\ call.kind = k /\ call.packet = e /\ call.aside = old.aside
    BY <2>2, <2>3 DEF Calls
  <2>5. pass' = [pass EXCEPT ![t] = call]
    BY <1>3, <2>2, <2>3 DEF Take
  <2> QED BY <2>1, <2>2, <2>3, <2>4, <2>5
<1>6. UNCHANGED <<threadVars, socket, inWorld, handled, received, traffic>> /\ e # None
  BY NoneAssumption DEF Take
<1>7. TypeOK'
  <2>1. count' \in [Sessions -> [Requeued -> 0 .. RequeueLimit \union {None}]]
    <3>1. /\ count \in [Sessions -> [Requeued -> 0 .. RequeueLimit \union {None}]]
          /\ RequeueLimit \in Nat
      BY <1>1, PacketsAssumption DEF TypeOK
    <3>2. CASE e.op \notin Requeued
      BY <1>3, <3>1, <3>2 DEF Take, Counted
    <3>3. CASE e.op \in Requeued
      <4>1. count' = [count EXCEPT ![s][e.op] = IF @ = None THEN 0 ELSE @ + 1]
        BY <1>3, <3>3 DEF Take, Counted
      <4>2. count[s][e.op] # RequeueLimit
        BY <1>2, <1>3, <3>3 DEF PutsOff
      <4>3. PICK n \in 0 .. RequeueLimit \union {None} :
               n = IF count[s][e.op] = None THEN 0 ELSE count[s][e.op] + 1
        BY <3>1, <3>3, <4>2
      <4>4. PICK row : row = [count[s] EXCEPT ![e.op] = n]
        OBVIOUS
      <4>5. row \in [Requeued -> 0 .. RequeueLimit \union {None}]
        BY <3>1, <4>3, <4>4
      <4>6. count' = [count EXCEPT ![s] = row]
        BY <4>1, <4>3, <4>4
      <4> QED BY <3>1, <4>5, <4>6
    <3> QED BY <3>2, <3>3
  <2> QED BY <1>1, <1>4, <1>5, <1>6, <2>1 DEF TypeOK, threadVars
<1>8. Good(At(s)', received[s])
  <2> DEFINE F == At(s)  G == At(s)'  h == HandOf(t)
  <2>1. /\ F \in [Spots -> Seq(Packets)] /\ \A c \in Kinds : F[c] = _recvQueue[s][c]
        /\ F["done"] = handled[s]
        /\ \A u \in Threads : F[AsideOf(u)] = AsideIn(pass[u], s) /\ F[HandOf(u)] = HandIn(pass[u], s)
    BY <1>1, AtFacts
  <2>2. /\ G \in [Spots -> Seq(Packets)] /\ \A c \in Kinds : G[c] = _recvQueue'[s][c]
        /\ G["done"] = handled'[s]
        /\ \A u \in Threads : G[AsideOf(u)] = AsideIn(pass'[u], s) /\ G[HandOf(u)] = HandIn(pass'[u], s)
    BY <1>7, AtFactsAfter
  <2>3. Good(F, received[s]) /\ received[s] \in Nat
    BY <1>1, <1>3 DEF PacketInv, TypeOK
  <2>4. \A y \in Spots \ {"done", k, h} : \A j \in 1 .. Len(F[y]) : ~InLine(e, F[y][j])
    BY <1>1, <1>2, <1>3, Apart
  <2>5. F[k] = Queue(t) /\ G[k] = Tail(F[k])
    BY <1>3, <1>4, <2>1, <2>2
  <2>6. F[h] = <<>> /\ G[h] = <<e>>
    BY <1>2, <1>5, <1>6, <2>1, <2>2, NoneAssumption DEF HandIn
  <2>7. SameBut(F, G, {k, h})
    <3>1. \A u \in Threads : AsideIn(pass'[u], s) = AsideIn(pass[u], s)
      BY <1>2, <1>3, <1>5, NoneAssumption DEF AsideIn
    <3>2. \A u \in Threads \ {t} : HandIn(pass'[u], s) = HandIn(pass[u], s)
      BY <1>5
    <3>3. \A u \in Threads : HandOf(u) \notin {k, h} => u # t
      OBVIOUS
    <3>4. \A c \in Kinds : c \notin {k, h} => G[c] = F[c]
      BY <1>4, <2>1, <2>2
    <3>5. G["done"] = F["done"]
      BY <1>6, <2>1, <2>2
    <3>6. \A u \in Threads : G[AsideOf(u)] = F[AsideOf(u)]
      BY <2>1, <2>2, <3>1
    <3>7. \A u \in Threads : HandOf(u) \notin {k, h} => G[HandOf(u)] = F[HandOf(u)]
      BY <2>1, <2>2, <3>2, <3>3
    <3> HIDE DEF F, G, h
    <3> QED BY <3>4, <3>5, <3>6, <3>7, OtherSpots
  <2>8. h \in Spots /\ k \in Spots /\ Rank[h] = 1 /\ Rank[k] = 2 /\ Rank["done"] = 0
    BY SpotFacts
  <2>9. G[h] = Append(F[h], Head(F[k])) /\ F[k] # <<>> /\ F[k][1] = e
    BY <1>3, <2>5, <2>6
  <2>10. \A y \in Spots \ {k} : Rank[h] < Rank[y] /\ Rank[y] <= Rank[k] =>
            \A j \in 1 .. Len(F[y]) : ~InLine(F[k][1], F[y][j])
    <3> HIDE DEF F, G, h
    <3>1. \A y \in Spots : Rank[h] < Rank[y] => y # h /\ y # "done"
      BY <2>8
    <3> QED BY <2>4, <2>9, <3>1
  <2> HIDE DEF F, G, h
  <2>11. Rank[h] < Rank[k]
    BY <2>8
  <2>12. PICK m \in Nat : m = received[s] /\ Good(F, m)
    BY <2>3
  <2>13. Moved(F, G, k, h)
    BY <2>2, <2>5, <2>7, <2>9, <2>10, <2>11 DEF Moved
  <2>14. Good(G, m)
    BY <2>8, <2>12, <2>13, Move
  <2> QED BY <2>12, <2>14 DEF G
<1>9. PassInv(t)'
  <2>1. PassInv(t)
    BY <1>1 DEF KindsInv
  <2> QED BY <1>2, <1>3, <1>5, <2>1 DEF PassInv
<1>10. PassChange(t, s, k)
  BY <1>2, <1>3, <1>4, <1>5, <1>6, <1>9 DEF PassChange
<1> QED BY <1>7, <1>8, <1>10, PassFrame

LEMMA RequeueStep ==
    ASSUME IInv, NEW t \in Threads, Requeue(t)
    PROVE  IInv'
<1>1. TypeOK /\ KindsInv /\ PacketInv
  BY DEF IInv
<1>2. pass[t] # None /\ Session(t) \notin deleted /\ pass[t].packet = None /\ MayTake(t) /\ PutsOff(t)
  BY DEF Requeue, Passing
<1>3. PICK s \in Sessions, k \in Kinds, e \in Packets :
        /\ s = Session(t) /\ s \notin deleted /\ s = pass[t].session /\ k = pass[t].kind
        /\ e = Head(Queue(t))
        /\ Queue(t) # <<>> /\ Queue(t) = _recvQueue[s][k] /\ e = Queue(t)[1] /\ Kind[e.op] = k
  BY <1>1, <1>2, CallOf, HeadFacts DEF Session, Queue
<1>4. e.op \in Requeued
  BY <1>2, <1>3 DEF PutsOff
<1>5. /\ \A r \in Sessions \ {s} : _recvQueue'[r] = _recvQueue[r]
      /\ \A c \in Kinds \ {k} : _recvQueue'[s][c] = _recvQueue[s][c]
      /\ _recvQueue'[s][k] = Tail(_recvQueue[s][k])
      /\ _recvQueue' \in [Sessions -> [Kinds -> Seq(Packets)]]
      /\ \A i \in 1 .. Len(_recvQueue'[s][k]) : Kind[_recvQueue'[s][k][i].op] = k
  <2>1. _recvQueue' = [_recvQueue EXCEPT ![s][k] = Tail(_recvQueue[s][k])]
    BY <1>3 DEF Requeue, Popped
  <2>2. /\ Tail(_recvQueue[s][k]) \in Seq(Packets)
        /\ \A i \in 1 .. Len(Tail(_recvQueue[s][k])) : Kind[Tail(_recvQueue[s][k])[i].op] = k
    BY <1>1, <1>2, <1>3, HeadFacts
  <2>3. _recvQueue \in [Sessions -> [Kinds -> Seq(Packets)]]
    BY <1>1 DEF TypeOK
  <2>4. /\ _recvQueue' \in [Sessions -> [Kinds -> Seq(Packets)]]
        /\ \A r \in Sessions \ {s} : _recvQueue'[r] = _recvQueue[r]
        /\ \A c \in Kinds \ {k} : _recvQueue'[s][c] = _recvQueue[s][c]
        /\ _recvQueue'[s][k] = Tail(_recvQueue[s][k])
    BY <2>1, <2>2, <2>3, QueueChange
  <2> QED BY <2>2, <2>4
<1>6. PICK aside \in Seq(Packets) : aside = pass[t].aside
  BY <1>1, <1>2, CallOf
<1>7. /\ Append(aside, e) \in Seq(Packets) /\ Len(aside) \in Nat
      /\ Len(Append(aside, e)) = Len(aside) + 1
      /\ \A i \in 1 .. Len(aside) : Append(aside, e)[i] = aside[i]
      /\ Append(aside, e)[Len(aside) + 1] = e
  BY AppendFacts
<1>8. /\ pass'[t] \in Calls /\ pass'[t].session = s /\ pass'[t].kind = k
      /\ pass'[t].packet = None /\ pass'[t].aside = Append(aside, e)
      /\ \A u \in Threads \ {t} : pass'[u] = pass[u]
      /\ pass' \in [Threads -> Calls \union {None}]
  <2>1. pass[t] \in Calls /\ pass[t].total + 1 \in Nat /\ pass \in [Threads -> Calls \union {None}]
    BY <1>1, <1>2, CallOf DEF TypeOK
  <2>2. PICK old \in Calls : old = pass[t] /\ old.session = s /\ old.kind = k /\ old.packet = None
    BY <1>2, <1>3, <2>1
  <2>3. PICK call \in Calls : call = [old EXCEPT !.aside = Append(aside, e), !.total = @ + 1]
    <3>1. [old EXCEPT !.aside = Append(aside, e), !.total = @ + 1] \in Calls
      BY <1>7, <2>1, <2>2 DEF Calls
    <3> QED BY <3>1
  <2>4. call.session = s /\ call.kind = k /\ call.packet = None /\ call.aside = Append(aside, e)
    BY <2>2, <2>3 DEF Calls
  <2>5. pass' = [pass EXCEPT ![t] = call]
    BY <1>3, <1>6, <2>2, <2>3 DEF Requeue
  <2> QED BY <2>1, <2>3, <2>4, <2>5
<1>9. UNCHANGED <<threadVars, socket, inWorld, count, handled, received, traffic>>
      /\ pass'[t] # None
  BY <1>8, NoneAssumption DEF Requeue
<1>10. TypeOK'
  BY <1>1, <1>5, <1>8, <1>9 DEF TypeOK, threadVars
<1>11. Good(At(s)', received[s])
  <2> DEFINE F == At(s)  G == At(s)'  h == AsideOf(t)
  <2>1. /\ F \in [Spots -> Seq(Packets)] /\ \A c \in Kinds : F[c] = _recvQueue[s][c]
        /\ F["done"] = handled[s]
        /\ \A u \in Threads : F[AsideOf(u)] = AsideIn(pass[u], s) /\ F[HandOf(u)] = HandIn(pass[u], s)
    BY <1>1, AtFacts
  <2>2. /\ G \in [Spots -> Seq(Packets)] /\ \A c \in Kinds : G[c] = _recvQueue'[s][c]
        /\ G["done"] = handled'[s]
        /\ \A u \in Threads : G[AsideOf(u)] = AsideIn(pass'[u], s) /\ G[HandOf(u)] = HandIn(pass'[u], s)
    BY <1>10, AtFactsAfter
  <2>3. Good(F, received[s]) /\ received[s] \in Nat
    BY <1>1, <1>3 DEF PacketInv, TypeOK
  <2>4. F[k] = Queue(t) /\ G[k] = Tail(F[k])
    BY <1>3, <1>5, <2>1, <2>2
  <2>5. F[h] = aside /\ G[h] = Append(aside, e)
    BY <1>2, <1>3, <1>6, <1>8, <1>9, <2>1, <2>2 DEF AsideIn
  <2>6. SameBut(F, G, {k, h})
    <3>1. \A u \in Threads : HandIn(pass'[u], s) = HandIn(pass[u], s)
      BY <1>2, <1>3, <1>8, <1>9 DEF HandIn
    <3>2. \A u \in Threads \ {t} : AsideIn(pass'[u], s) = AsideIn(pass[u], s)
      BY <1>8
    <3>3. \A u \in Threads : AsideOf(u) \notin {k, h} => u # t
      OBVIOUS
    <3>4. \A c \in Kinds : c \notin {k, h} => G[c] = F[c]
      BY <1>5, <2>1, <2>2
    <3>5. G["done"] = F["done"]
      BY <1>9, <2>1, <2>2
    <3>6. \A u \in Threads : G[HandOf(u)] = F[HandOf(u)]
      BY <2>1, <2>2, <3>1
    <3>7. \A u \in Threads : AsideOf(u) \notin {k, h} => G[AsideOf(u)] = F[AsideOf(u)]
      BY <2>1, <2>2, <3>2, <3>3
    <3> HIDE DEF F, G, h
    <3> QED BY <3>4, <3>5, <3>6, <3>7, OtherSpots
  <2>7. h \in Spots /\ k \in Spots /\ Rank[h] < Rank[k]
    BY SpotFacts
  <2>8. G[h] = Append(F[h], Head(F[k])) /\ F[k] # <<>> /\ F[k][1] = e
    BY <1>3, <2>4, <2>5
  <2>9. \A y \in Spots \ {k} : Rank[h] < Rank[y] /\ Rank[y] <= Rank[k] =>
           \A j \in 1 .. Len(F[y]) : ~InLine(F[k][1], F[y][j])
    BY <1>4, <2>8 DEF InLine
  <2> HIDE DEF F, G, h
  <2>10. PICK m \in Nat : m = received[s] /\ Good(F, m)
    BY <2>3
  <2>11. Moved(F, G, k, h)
    BY <2>2, <2>4, <2>6, <2>7, <2>8, <2>9 DEF Moved
  <2>12. Good(G, m)
    BY <2>7, <2>10, <2>11, Move
  <2> QED BY <2>10, <2>12 DEF G
<1>12. PassInv(t)'
  <2>1. PassInv(t)
    BY <1>1 DEF KindsInv
  <2>2. pass[t].kind \in KindsOf(t)
        /\ \A i \in 1 .. Len(aside) : aside[i].op \in Requeued /\ Kind[aside[i].op] = k
    BY <1>2, <1>3, <1>6, <2>1 DEF PassInv
  <2>3. ASSUME NEW i \in 1 .. Len(Append(aside, e))
        PROVE  Append(aside, e)[i].op \in Requeued /\ Kind[Append(aside, e)[i].op] = k
    <3>1. CASE i \in 1 .. Len(aside)
      BY <1>7, <2>2, <3>1
    <3>2. CASE i = Len(aside) + 1
      BY <1>3, <1>4, <1>7, <3>2
    <3>3. i \in 1 .. Len(aside) \/ i = Len(aside) + 1
      BY <1>7
    <3> QED BY <3>1, <3>2, <3>3
  <2> QED BY <1>3, <1>8, <2>2, <2>3 DEF PassInv
<1>13. PassChange(t, s, k)
  BY <1>2, <1>3, <1>5, <1>8, <1>9, <1>12 DEF PassChange
<1> QED BY <1>10, <1>11, <1>13, PassFrame

LEMMA HandleStep ==
    ASSUME IInv, NEW t \in Threads, Handle(t)
    PROVE  IInv'
<1>1. TypeOK /\ KindsInv /\ PacketInv
  BY DEF IInv
<1>2. pass[t] # None /\ Session(t) \notin deleted /\ pass[t].packet # None
  BY DEF Handle, Passing
<1>3. PICK s \in Sessions, k \in Kinds, e \in Packets :
        /\ s = Session(t) /\ s \notin deleted /\ s = pass[t].session /\ k = pass[t].kind
        /\ e = pass[t].packet
        /\ Kind[e.op] = k
  <2>1. PassInv(t)
    BY <1>1 DEF KindsInv
  <2> QED BY <1>1, <1>2, <2>1, CallOf DEF Session, PassInv
<1>4. /\ pass'[t] \in Calls /\ pass'[t].session = s /\ pass'[t].kind = k
      /\ pass'[t].packet = None /\ pass'[t].aside = pass[t].aside
      /\ \A u \in Threads \ {t} : pass'[u] = pass[u]
      /\ pass' \in [Threads -> Calls \union {None}]
  <2>1. pass[t] \in Calls /\ pass \in [Threads -> Calls \union {None}]
    BY <1>1, <1>2, CallOf DEF TypeOK
  <2>2. PICK old \in Calls : old = pass[t] /\ old.session = s /\ old.kind = k
    BY <1>3, <2>1
  <2>3. PICK call \in Calls : call = [old EXCEPT !.packet = None, !.over = old.total > PassLimit]
    <3>1. PICK over \in BOOLEAN : over = (old.total > PassLimit)
      <4>1. (old.total > PassLimit) \in BOOLEAN
        OBVIOUS
      <4> QED BY <4>1, Zenon
    <3>2. [old EXCEPT !.packet = None, !.over = over] \in Calls
      BY <2>2 DEF Calls
    <3> QED BY <3>1, <3>2
  <2>4. call.session = s /\ call.kind = k /\ call.packet = None /\ call.aside = old.aside
    BY <2>2, <2>3 DEF Calls
  <2>5. pass' = [pass EXCEPT ![t] = call]
    BY <2>2, <2>3 DEF Handle
  <2> QED BY <2>1, <2>2, <2>3, <2>4, <2>5
<1>5. /\ handled' \in [Sessions -> Seq(Packets)]
      /\ \A r \in Sessions \ {s} : handled'[r] = handled[r]
      /\ handled'[s] = Append(handled[s], e)
  <2>1. handled \in [Sessions -> Seq(Packets)]
    BY <1>1 DEF TypeOK
  <2>2. handled' = [handled EXCEPT ![s] = Append(handled[s], e)]
    BY <1>3 DEF Handle
  <2>3. Append(handled[s], e) \in Seq(Packets)
    BY <2>1, AppendFacts
  <2> QED BY <2>1, <2>2, <2>3
<1>6. UNCHANGED <<threadVars, socket, inWorld, _recvQueue, count, received, traffic>>
      /\ pass'[t] # None
  BY <1>4, NoneAssumption DEF Handle
<1>7. TypeOK'
  BY <1>1, <1>4, <1>5, <1>6 DEF TypeOK, threadVars
<1>8. Good(At(s)', received[s])
  <2> DEFINE F == At(s)  G == At(s)'  h == HandOf(t)
  <2>1. /\ F \in [Spots -> Seq(Packets)] /\ \A c \in Kinds : F[c] = _recvQueue[s][c]
        /\ F["done"] = handled[s]
        /\ \A u \in Threads : F[AsideOf(u)] = AsideIn(pass[u], s) /\ F[HandOf(u)] = HandIn(pass[u], s)
    BY <1>1, AtFacts
  <2>2. /\ G \in [Spots -> Seq(Packets)] /\ \A c \in Kinds : G[c] = _recvQueue'[s][c]
        /\ G["done"] = handled'[s]
        /\ \A u \in Threads : G[AsideOf(u)] = AsideIn(pass'[u], s) /\ G[HandOf(u)] = HandIn(pass'[u], s)
    BY <1>7, AtFactsAfter
  <2>3. Good(F, received[s]) /\ received[s] \in Nat
    BY <1>1, <1>3 DEF PacketInv, TypeOK
  <2>4. \A y \in Spots \ {"done", k, h} : \A j \in 1 .. Len(F[y]) : ~InLine(e, F[y][j])
    BY <1>1, <1>2, <1>3, Apart
  <2>5. F[h] = <<e>> /\ G[h] = <<>>
    BY <1>2, <1>3, <1>4, <1>6, <2>1, <2>2 DEF HandIn
  <2>6. Tail(<<e>>) = <<>> /\ Head(<<e>>) = e /\ <<e>> # <<>> /\ <<e>>[1] = e
    OBVIOUS
  <2>7. SameBut(F, G, {h, "done"})
    <3>1. \A u \in Threads : AsideIn(pass'[u], s) = AsideIn(pass[u], s)
      BY <1>2, <1>3, <1>4, <1>6 DEF AsideIn
    <3>2. \A u \in Threads \ {t} : HandIn(pass'[u], s) = HandIn(pass[u], s)
      BY <1>4
    <3>3. \A u \in Threads : HandOf(u) \notin {h, "done"} => u # t
      OBVIOUS
    <3>4. \A c \in Kinds : G[c] = F[c]
      BY <1>6, <2>1, <2>2
    <3>5. \A u \in Threads : G[AsideOf(u)] = F[AsideOf(u)]
      BY <2>1, <2>2, <3>1
    <3>6. \A u \in Threads : HandOf(u) \notin {h, "done"} => G[HandOf(u)] = F[HandOf(u)]
      BY <2>1, <2>2, <3>2, <3>3
    <3> HIDE DEF F, G, h
    <3> QED BY <3>4, <3>5, <3>6, OtherSpots
  <2>8. /\ h \in Spots /\ k \in Spots /\ "done" \in Spots
        /\ Rank[h] = 1 /\ Rank[k] = 2 /\ Rank["done"] = 0
    BY SpotFacts
  <2>9. G[h] = Tail(F[h]) /\ F[h] # <<>> /\ F[h][1] = e
        /\ G["done"] = Append(F["done"], Head(F[h]))
    BY <1>5, <2>1, <2>2, <2>5, <2>6
  <2>10. \A y \in Spots \ {h} : Rank["done"] < Rank[y] /\ Rank[y] <= Rank[h] =>
            \A j \in 1 .. Len(F[y]) : ~InLine(F[h][1], F[y][j])
    <3> HIDE DEF F, G, h
    <3>1. \A y \in Spots : Rank["done"] < Rank[y] /\ Rank[y] <= Rank[h] => y # k /\ y # "done"
      BY <2>8
    <3> QED BY <2>4, <2>9, <3>1
  <2> HIDE DEF F, G, h
  <2>11. Rank["done"] < Rank[h]
    BY <2>8
  <2>12. PICK m \in Nat : m = received[s] /\ Good(F, m)
    BY <2>3
  <2>13. Moved(F, G, h, "done")
    BY <2>2, <2>7, <2>9, <2>10, <2>11 DEF Moved
  <2>14. Good(G, m)
    BY <2>8, <2>12, <2>13, Move
  <2> QED BY <2>12, <2>14 DEF G
<1>9. PassInv(t)'
  <2>1. PassInv(t)
    BY <1>1 DEF KindsInv
  <2> QED BY <1>2, <1>3, <1>4, <2>1 DEF PassInv
<1>10. PassChange(t, s, k)
  <2>1. \A i \in 1 .. Len(_recvQueue'[s][k]) : Kind[_recvQueue'[s][k][i].op] = k
    BY <1>1, <1>6 DEF KindsInv
  <2> QED BY <1>2, <1>3, <1>4, <1>5, <1>6, <1>9, <2>1 DEF PassChange
<1> QED BY <1>7, <1>8, <1>10, PassFrame

\* a pass that has ended leaves nothing in its hand or aside
Ends(t, s, k) ==
  /\ pass[t] # None /\ pass[t].packet = None /\ pass[t].session = s /\ pass[t].kind = k
  /\ pass' = [pass EXCEPT ![t] = None]

LEMMA EndedFacts ==
    ASSUME TypeOK, TypeOK', KindsInv, NEW t \in Threads, NEW s \in Sessions, NEW k \in Kinds,
           Ends(t, s, k)
    PROVE  /\ At(s)[AsideOf(t)] = pass[t].aside /\ At(s)'[AsideOf(t)] = <<>>
           /\ \A i \in 1 .. Len(pass[t].aside) :
                 pass[t].aside[i].op \in Requeued /\ Kind[pass[t].aside[i].op] = k
           /\ \A u \in Threads : AsideOf(u) # AsideOf(t) => At(s)'[AsideOf(u)] = At(s)[AsideOf(u)]
           /\ \A u \in Threads : At(s)'[HandOf(u)] = At(s)[HandOf(u)]
           /\ At(s)'["done"] = handled'[s] /\ \A c \in Kinds : At(s)'[c] = _recvQueue'[s][c]
           /\ At(s)' \in [Spots -> Seq(Packets)]
<1> USE DEF Ends
<1>1. pass'[t] = None /\ \A u \in Threads \ {t} : pass'[u] = pass[u]
  BY DEF TypeOK
<1>2. /\ At(s)[AsideOf(t)] = AsideIn(pass[t], s)
      /\ \A u \in Threads : At(s)[AsideOf(u)] = AsideIn(pass[u], s) /\ At(s)[HandOf(u)] = HandIn(pass[u], s)
  BY AtFacts
<1>3. /\ At(s)'["done"] = handled'[s] /\ \A c \in Kinds : At(s)'[c] = _recvQueue'[s][c]
      /\ At(s)' \in [Spots -> Seq(Packets)]
      /\ \A u \in Threads : /\ At(s)'[AsideOf(u)] = AsideIn(pass'[u], s)
                            /\ At(s)'[HandOf(u)] = HandIn(pass'[u], s)
  BY AtFactsAfter
<1>4. AsideIn(pass[t], s) = pass[t].aside /\ AsideIn(pass'[t], s) = <<>>
  BY <1>1 DEF AsideIn
<1>5. HandIn(pass[t], s) = <<>> /\ HandIn(pass'[t], s) = <<>>
  BY <1>1 DEF HandIn
<1>6. PassInv(t)
  BY DEF KindsInv
<1>7. \A i \in 1 .. Len(pass[t].aside) :
         pass[t].aside[i].op \in Requeued /\ Kind[pass[t].aside[i].op] = k
  BY <1>6 DEF PassInv
<1>8. \A u \in Threads : At(s)'[HandOf(u)] = At(s)[HandOf(u)]
  BY <1>1, <1>2, <1>3, <1>5
<1>9. \A u \in Threads : AsideOf(u) # AsideOf(t) => At(s)'[AsideOf(u)] = At(s)[AsideOf(u)]
  BY <1>1, <1>2, <1>3
<1> QED BY <1>2, <1>3, <1>4, <1>7, <1>8, <1>9

OfKind(packets, k) == \A i \in 1 .. Len(packets) : Kind[packets[i].op] = k

LEMMA KindOfBoth ==
    ASSUME NEW k, NEW p \in Seq(Packets), NEW q \in Seq(Packets), OfKind(p, k), OfKind(q, k)
    PROVE  OfKind(p \o q, k)
<1> USE DEF OfKind
<1>1. /\ p \o q \in Seq(Packets) /\ Len(p) \in Nat /\ Len(q) \in Nat
      /\ Len(p \o q) = Len(p) + Len(q)
      /\ \A i \in 1 .. Len(p) : (p \o q)[i] = p[i]
      /\ \A i \in 1 .. Len(q) : (p \o q)[Len(p) + i] = q[i]
  BY ConcatFacts
<1>2. ASSUME NEW i \in 1 .. Len(p) + Len(q) PROVE Kind[(p \o q)[i].op] = k
  <2>1. CASE i \in 1 .. Len(p)
    BY <1>1, <2>1
  <2>2. CASE i > Len(p)
    <3>1. i - Len(p) \in 1 .. Len(q) /\ Len(p) + (i - Len(p)) = i
      BY <1>1, <2>2, Sums
    <3>2. (p \o q)[i] = q[i - Len(p)]
      BY <1>1, <3>1
    <3> QED BY <3>1, <3>2
  <2>3. i \in 1 .. Len(p) \/ i > Len(p)
    BY <1>1
  <2> QED BY <2>1, <2>2, <2>3
<1> QED BY <1>1, <1>2

LEMMA EndPassStep ==
    ASSUME IInv, NEW t \in Threads, EndPass(t)
    PROVE  IInv'
<1>1. TypeOK /\ KindsInv /\ PacketInv
  BY DEF IInv
<1>2. pass[t] # None /\ Session(t) \notin deleted /\ pass[t].packet = None
  BY DEF EndPass, Passing
<1>3. PICK s \in Sessions, k \in Kinds, aside \in Seq(Packets) :
        s = Session(t) /\ s \notin deleted /\ s = pass[t].session /\ k = pass[t].kind /\ aside = pass[t].aside
  BY <1>1, <1>2, CallOf DEF Session
<1>4. PICK queue \in Seq(Packets) :
        queue = _recvQueue[s][k] /\ \A i \in 1 .. Len(queue) : Kind[queue[i].op] = k
  BY <1>1 DEF TypeOK, KindsInv
<1>5. pass' = [pass EXCEPT ![t] = None]
      /\ UNCHANGED <<threadVars, socket, inWorld, count, handled, received, traffic>>
  BY DEF EndPass
<1>6. /\ queue \o aside \in Seq(Packets)
      /\ _recvQueue' \in [Sessions -> [Kinds -> Seq(Packets)]]
      /\ \A r \in Sessions \ {s} : _recvQueue'[r] = _recvQueue[r]
      /\ \A c \in Kinds \ {k} : _recvQueue'[s][c] = _recvQueue[s][c]
      /\ _recvQueue'[s][k] = queue \o aside
  <2>1. _recvQueue' = [_recvQueue EXCEPT ![s][k] = queue \o aside]
    BY <1>3, <1>4 DEF EndPass, Returned
  <2>2. queue \o aside \in Seq(Packets)
    BY ConcatFacts
  <2>3. _recvQueue \in [Sessions -> [Kinds -> Seq(Packets)]]
    BY <1>1 DEF TypeOK
  <2> QED BY <2>1, <2>2, <2>3, QueueChange
<1>7. TypeOK'
  <2>1. pass' \in [Threads -> Calls \union {None}]
    BY <1>1, <1>5 DEF TypeOK
  <2> QED BY <1>1, <1>5, <1>6, <2>1 DEF TypeOK, threadVars
<1>8. PICK F, G : F = At(s) /\ G = At(s)'
  OBVIOUS
<1>9. /\ F[AsideOf(t)] = aside /\ G[AsideOf(t)] = <<>>
      /\ \A i \in 1 .. Len(aside) : aside[i].op \in Requeued /\ Kind[aside[i].op] = k
      /\ \A u \in Threads : AsideOf(u) # AsideOf(t) => G[AsideOf(u)] = F[AsideOf(u)]
      /\ \A u \in Threads : G[HandOf(u)] = F[HandOf(u)]
      /\ G["done"] = handled'[s] /\ \A c \in Kinds : G[c] = _recvQueue'[s][c]
      /\ G \in [Spots -> Seq(Packets)]
  <2>1. Ends(t, s, k)
    BY <1>2, <1>3, <1>5 DEF Ends
  <2>2. /\ At(s)[AsideOf(t)] = pass[t].aside /\ At(s)'[AsideOf(t)] = <<>>
        /\ \A i \in 1 .. Len(pass[t].aside) :
              pass[t].aside[i].op \in Requeued /\ Kind[pass[t].aside[i].op] = k
        /\ \A u \in Threads : AsideOf(u) # AsideOf(t) => At(s)'[AsideOf(u)] = At(s)[AsideOf(u)]
        /\ \A u \in Threads : At(s)'[HandOf(u)] = At(s)[HandOf(u)]
        /\ At(s)'["done"] = handled'[s] /\ \A c \in Kinds : At(s)'[c] = _recvQueue'[s][c]
        /\ At(s)' \in [Spots -> Seq(Packets)]
    BY <1>1, <1>7, <2>1, EndedFacts
  <2> QED BY <1>3, <1>8, <2>2
<1>10. F["done"] = handled[s] /\ \A c \in Kinds : F[c] = _recvQueue[s][c]
  BY <1>1, <1>8, AtFacts
<1>11. Good(At(s)', received[s])
  <2>1. PICK m \in Nat : m = received[s] /\ Good(F, m)
    BY <1>1, <1>3, <1>8 DEF PacketInv, TypeOK
  <2>2. AsideOf(t) \in Spots /\ k \in Spots /\ AsideOf(t) # k
    BY SpotFacts
  <2>3. SameBut(F, G, {AsideOf(t), k})
    <3>1. \A c \in Kinds : c \notin {AsideOf(t), k} => G[c] = F[c]
      BY <1>6, <1>9, <1>10
    <3>2. G["done"] = F["done"]
      BY <1>5, <1>9, <1>10
    <3>3. \A u \in Threads : AsideOf(u) \notin {AsideOf(t), k} => G[AsideOf(u)] = F[AsideOf(u)]
      BY <1>9
    <3>4. \A u \in Threads : G[HandOf(u)] = F[HandOf(u)]
      BY <1>9
    <3> QED BY <3>1, <3>2, <3>3, <3>4, OtherSpots
  <2>4. G[k] = F[k] \o F[AsideOf(t)]
    BY <1>4, <1>6, <1>9, <1>10
  <2>5. GoneBack(F, G, AsideOf(t), k)
    BY <1>9, <2>2, <2>3, <2>4 DEF GoneBack
  <2>6. Good(G, m)
    BY <2>1, <2>2, <2>5, Return
  <2> QED BY <1>8, <2>1, <2>6
<1>12. PassInv(t)'
  BY <1>1, <1>5 DEF PassInv, TypeOK
<1>13. PassChange(t, s, k)
  <2>1. \A u \in Threads \ {t} : pass'[u] = pass[u]
    BY <1>1, <1>5 DEF TypeOK
  <2>2. \A i \in 1 .. Len(queue \o aside) : Kind[(queue \o aside)[i].op] = k
    <3>1. OfKind(queue, k) /\ OfKind(aside, k)
      BY <1>4, <1>9 DEF OfKind
    <3>2. OfKind(queue \o aside, k)
      BY <3>1, KindOfBoth
    <3> QED BY <3>2 DEF OfKind
  <2>3. pass'[t] = None
    BY <1>1, <1>5 DEF TypeOK
  <2> QED BY <1>2, <1>3, <1>5, <1>6, <1>12, <2>1, <2>2, <2>3 DEF PassChange
<1> QED BY <1>7, <1>11, <1>13, PassFrame

LEMMA DenyStep ==
    ASSUME IInv, NEW t \in Threads, Deny(t)
    PROVE  IInv'
<1>1. TypeOK /\ KindsInv /\ PacketInv
  BY DEF IInv
<1>2. pass[t] # None /\ Session(t) \notin deleted /\ pass[t].packet = None /\ MayTake(t)
  BY DEF Deny, Passing
<1>3. PICK s \in Sessions, k \in Kinds, aside \in Seq(Packets) :
        s = Session(t) /\ s \notin deleted /\ s = pass[t].session /\ k = pass[t].kind /\ aside = pass[t].aside
  BY <1>1, <1>2, CallOf DEF Session
<1>4. PICK queue \in Seq(Packets), e \in Packets :
        /\ queue = _recvQueue[s][k] /\ queue = Queue(t) /\ queue # <<>>
        /\ e = Head(queue) /\ e = queue[1] /\ Kind[e.op] = k
        /\ Tail(queue) \in Seq(Packets) /\ OfKind(Tail(queue), k)
  BY <1>1, <1>2, <1>3, HeadFacts DEF Session, Queue, OfKind
<1>5. pass' = [pass EXCEPT ![t] = None]
      /\ UNCHANGED <<threadVars, socket, inWorld, count, received, traffic>>
  BY DEF Deny
<1>6. /\ Tail(queue) \o aside \in Seq(Packets)
      /\ _recvQueue' \in [Sessions -> [Kinds -> Seq(Packets)]]
      /\ \A r \in Sessions \ {s} : _recvQueue'[r] = _recvQueue[r]
      /\ \A c \in Kinds \ {k} : _recvQueue'[s][c] = _recvQueue[s][c]
      /\ _recvQueue'[s][k] = Tail(queue) \o aside
  <2>1. _recvQueue' = [_recvQueue EXCEPT ![s][k] = Tail(queue) \o aside]
    <3>1. PICK popped \in [Sessions -> [Kinds -> Seq(Packets)]] :
            /\ popped = [_recvQueue EXCEPT ![s][k] = Tail(queue)]
            /\ popped[s][k] = Tail(queue)
      <4>1. _recvQueue \in [Sessions -> [Kinds -> Seq(Packets)]]
        BY <1>1 DEF TypeOK
      <4>2. PICK popped : popped = [_recvQueue EXCEPT ![s][k] = Tail(queue)]
        OBVIOUS
      <4>3. popped \in [Sessions -> [Kinds -> Seq(Packets)]] /\ popped[s][k] = Tail(queue)
        BY <1>4, <4>1, <4>2, QueueChange
      <4> QED BY <4>2, <4>3
    <3>2. _recvQueue' = [popped EXCEPT ![s][k] = @ \o aside]
      BY <1>3, <1>4, <3>1 DEF Deny, Returned, Popped
    <3>3. _recvQueue \in [Sessions -> [Kinds -> Seq(Packets)]]
      BY <1>1 DEF TypeOK
    <3> QED BY <3>1, <3>2, <3>3
  <2>2. Tail(queue) \o aside \in Seq(Packets)
    BY <1>4, ConcatFacts
  <2>3. _recvQueue \in [Sessions -> [Kinds -> Seq(Packets)]]
    BY <1>1 DEF TypeOK
  <2> QED BY <2>1, <2>2, <2>3, QueueChange
<1>7. /\ handled' \in [Sessions -> Seq(Packets)]
      /\ \A r \in Sessions \ {s} : handled'[r] = handled[r]
      /\ handled'[s] = Append(handled[s], e)
  <2>1. handled \in [Sessions -> Seq(Packets)]
    BY <1>1 DEF TypeOK
  <2>2. handled' = [handled EXCEPT ![s] = Append(handled[s], e)]
    BY <1>3, <1>4 DEF Deny
  <2>3. Append(handled[s], e) \in Seq(Packets)
    BY <2>1, AppendFacts
  <2> QED BY <2>1, <2>2, <2>3
<1>8. TypeOK'
  <2>1. pass' \in [Threads -> Calls \union {None}]
    BY <1>1, <1>5 DEF TypeOK
  <2> QED BY <1>1, <1>5, <1>6, <1>7, <2>1 DEF TypeOK, threadVars
<1>9. PICK F \in [Spots -> Seq(Packets)], G \in [Spots -> Seq(Packets)] :
         F = At(s) /\ G = At(s)'
  BY <1>1, <1>8, AtFacts, AtFactsAfter
<1>10. /\ F[AsideOf(t)] = aside /\ G[AsideOf(t)] = <<>>
       /\ \A i \in 1 .. Len(aside) : aside[i].op \in Requeued /\ Kind[aside[i].op] = k
       /\ \A u \in Threads : AsideOf(u) # AsideOf(t) => G[AsideOf(u)] = F[AsideOf(u)]
       /\ \A u \in Threads : G[HandOf(u)] = F[HandOf(u)]
       /\ G["done"] = handled'[s] /\ \A c \in Kinds : G[c] = _recvQueue'[s][c]
       /\ G \in [Spots -> Seq(Packets)]
  <2>1. Ends(t, s, k)
    BY <1>2, <1>3, <1>5 DEF Ends
  <2>2. /\ At(s)[AsideOf(t)] = pass[t].aside /\ At(s)'[AsideOf(t)] = <<>>
        /\ \A i \in 1 .. Len(pass[t].aside) :
              pass[t].aside[i].op \in Requeued /\ Kind[pass[t].aside[i].op] = k
        /\ \A u \in Threads : AsideOf(u) # AsideOf(t) => At(s)'[AsideOf(u)] = At(s)[AsideOf(u)]
        /\ \A u \in Threads : At(s)'[HandOf(u)] = At(s)[HandOf(u)]
        /\ At(s)'["done"] = handled'[s] /\ \A c \in Kinds : At(s)'[c] = _recvQueue'[s][c]
        /\ At(s)' \in [Spots -> Seq(Packets)]
    BY <1>1, <1>8, <2>1, EndedFacts
  <2> QED BY <1>3, <1>9, <2>2
<1>11. /\ F["done"] = handled[s] /\ \A c \in Kinds : F[c] = _recvQueue[s][c]
       /\ F[HandOf(t)] = <<>>
  <2>1. F[HandOf(t)] = HandIn(pass[t], s)
    BY <1>1, <1>9, AtFacts
  <2>2. HandIn(pass[t], s) = <<>>
    BY <1>2 DEF HandIn
  <2> QED BY <1>1, <1>9, <2>1, <2>2, AtFacts
<1>12. PICK m \in Nat : m = received[s] /\ Good(F, m)
  BY <1>1, <1>3, <1>9 DEF PacketInv, TypeOK
<1>13. /\ AsideOf(t) \in Spots /\ k \in Spots /\ "done" \in Spots
       /\ AsideOf(t) # k /\ AsideOf(t) # "done" /\ k # "done"
       /\ Rank["done"] < Rank[k]
       /\ \A y \in Spots : Rank["done"] < Rank[y] => y # "done"
  <2>1. Rank["done"] = 0 /\ Rank[k] = 2 /\ "done" \in Spots /\ k \in Spots
    BY SpotFacts
  <2> QED BY <2>1, SpotFacts
\* first the head of the queue, then what was put off
<1>14. PICK H \in [Spots -> Seq(Packets)] :
         /\ SameBut(F, H, {k, "done"})
         /\ H[k] = Tail(queue) /\ H["done"] = handled'[s]
  <2> DEFINE H == [F EXCEPT ![k] = Tail(queue), !["done"] = handled'[s]]
  <2>1. H \in [Spots -> Seq(Packets)]
    BY <1>4, <1>7
  <2>2. SameBut(F, H, {k, "done"}) /\ H[k] = Tail(queue) /\ H["done"] = handled'[s]
    BY <1>13 DEF SameBut
  <2> QED BY <2>1, <2>2
<1>15. Good(H, m)
  <2>1. F[k] = queue /\ F["done"] = handled[s]
    BY <1>4, <1>11
  <2>2. \A y \in Spots \ {k} : Rank["done"] < Rank[y] /\ Rank[y] <= Rank[k] =>
           \A j \in 1 .. Len(F[y]) : ~InLine(F[k][1], F[y][j])
    <3>1. ASSUME NEW y \in Spots \ {k}, y # "done", NEW j \in 1 .. Len(F[y])
          PROVE  ~InLine(e, F[y][j])
      <4>1. y # HandOf(t)
        <5>1. Len(<<>>) = 0 /\ ~\E i \in 1 .. 0 : TRUE
          BY EmptySeq
        <5> QED BY <1>11, <3>1, <5>1
      <4>2. y \notin {"done", pass[t].kind, HandOf(t)}
        BY <1>3, <3>1, <4>1
      <4>3. j \in 1 .. Len(At(Session(t))[y]) /\ F[y][j] = At(Session(t))[y][j]
        BY <1>3, <1>9, <3>1
      <4> QED BY <1>1, <1>2, <1>3, <1>4, <4>2, <4>3, Apart
    <3> QED BY <1>4, <1>13, <2>1, <3>1
  <2>3. H["done"] = Append(F["done"], Head(F[k])) /\ H[k] = Tail(F[k]) /\ F[k] # <<>>
    BY <1>4, <1>7, <1>14, <2>1
  <2>4. Moved(F, H, k, "done")
    BY <1>13, <1>14, <2>2, <2>3 DEF Moved
  <2> QED BY <1>12, <1>13, <2>4, Move
<1>16. Good(G, m)
  <2>1. H[AsideOf(t)] = aside
    BY <1>10, <1>13, <1>14 DEF SameBut
  <2>2. SameBut(H, G, {AsideOf(t), k})
    <3>1. \A c \in Kinds : c \notin {AsideOf(t), k} => G[c] = H[c]
      BY <1>6, <1>10, <1>11, <1>14, SpotFacts DEF SameBut
    <3>2. G["done"] = H["done"]
      BY <1>10, <1>14
    <3>3. \A u \in Threads : AsideOf(u) \notin {AsideOf(t), k} => G[AsideOf(u)] = H[AsideOf(u)]
      BY <1>10, <1>14, SpotFacts DEF SameBut
    <3>4. \A u \in Threads : G[HandOf(u)] = H[HandOf(u)]
      BY <1>10, <1>14, SpotFacts DEF SameBut
    <3> QED BY <3>1, <3>2, <3>3, <3>4, OtherSpots
  <2>3. G[k] = H[k] \o H[AsideOf(t)]
    BY <1>6, <1>10, <1>14, <2>1
  <2>4. GoneBack(H, G, AsideOf(t), k)
    BY <1>10, <1>13, <2>1, <2>2, <2>3 DEF GoneBack
  <2> QED BY <1>13, <1>15, <2>4, Return
<1>17. PassInv(t)'
  BY <1>1, <1>5 DEF PassInv, TypeOK
<1>18. PassChange(t, s, k)
  <2>1. \A u \in Threads \ {t} : pass'[u] = pass[u]
    BY <1>1, <1>5 DEF TypeOK
  <2>2. \A i \in 1 .. Len(Tail(queue) \o aside) : Kind[(Tail(queue) \o aside)[i].op] = k
    <3>1. OfKind(aside, k)
      BY <1>10 DEF OfKind
    <3>2. OfKind(Tail(queue) \o aside, k)
      BY <1>4, <3>1, KindOfBoth
    <3> QED BY <3>2 DEF OfKind
  <2>3. pass'[t] = None
    BY <1>1, <1>5 DEF TypeOK
  <2> QED BY <1>2, <1>3, <1>5, <1>6, <1>7, <1>17, <2>1, <2>2, <2>3 DEF PassChange
<1> QED BY <1>8, <1>9, <1>12, <1>16, <1>18, PassFrame

-----------------------------------------------------------------------------
(* A packet comes in. *)

LEMMA ArriveStep ==
    ASSUME IInv, NEW s \in Sessions, QueuePacket(s)
    PROVE  IInv'
<1>1. TypeOK /\ KindsInv /\ PacketInv /\ FlagInv
  BY DEF IInv
<1>2. PICK m \in Nat, op \in Opcodes, e \in Packets, k \in Kinds :
        /\ m = received[s] /\ op = traffic[s][m + 1] /\ e = [n |-> m + 1, op |-> op]
        /\ k = Kind[op] /\ e.n = m + 1 /\ e.op = op
  <2>1. PICK m \in Nat : m = received[s]
    BY <1>1 DEF TypeOK
  <2>2. traffic[s] \in Seq(Opcodes) /\ m < Len(traffic[s])
    BY <1>1, <2>1 DEF KindsInv, QueuePacket
  <2>3. m + 1 \in 1 .. Len(traffic[s])
    BY <2>2
  <2>4. PICK op \in Opcodes : op = traffic[s][m + 1]
    BY <2>2, <2>3
  <2>5. [n |-> m + 1, op |-> op] \in Packets /\ Kind[op] \in Kinds
    BY PacketsAssumption DEF Packets
  <2> QED BY <2>1, <2>4, <2>5
<1>3. UNCHANGED <<threadVars, socket, inWorld, pass, count, handled, traffic>>
  BY DEF QueuePacket
<1>4. received' = [received EXCEPT ![s] = m + 1]
  BY <1>2 DEF QueuePacket
<1>5. PICK queue \in Seq(Packets) :
        queue = _recvQueue[s][k] /\ \A i \in 1 .. Len(queue) : Kind[queue[i].op] = k
  BY <1>1 DEF TypeOK, KindsInv
<1>6. /\ Append(queue, e) \in Seq(Packets) /\ Len(queue) \in Nat
      /\ Len(Append(queue, e)) = Len(queue) + 1
      /\ \A i \in 1 .. Len(queue) : Append(queue, e)[i] = queue[i]
      /\ Append(queue, e)[Len(queue) + 1] = e
  BY AppendFacts
<1>7. /\ _recvQueue' \in [Sessions -> [Kinds -> Seq(Packets)]]
      /\ \A r \in Sessions \ {s} : _recvQueue'[r] = _recvQueue[r]
      /\ \A c \in Kinds \ {k} : _recvQueue'[s][c] = _recvQueue[s][c]
      /\ _recvQueue'[s][k] = Append(queue, e)
  <2>1. _recvQueue' = [_recvQueue EXCEPT ![s][k] = Append(queue, e)]
    BY <1>2, <1>5 DEF QueuePacket
  <2>2. _recvQueue \in [Sessions -> [Kinds -> Seq(Packets)]]
    BY <1>1 DEF TypeOK
  <2> QED BY <1>6, <2>1, <2>2, QueueChange
<1>8. TypeOK'
  <2>1. received' \in [Sessions -> Nat]
    BY <1>1, <1>4 DEF TypeOK
  <2> QED BY <1>1, <1>3, <1>7, <2>1 DEF TypeOK, threadVars
<1>9. KindsInv'
  <2>1. ASSUME NEW i \in 1 .. Len(Append(queue, e)) PROVE Kind[Append(queue, e)[i].op] = k
    <3>1. CASE i \in 1 .. Len(queue)
      BY <1>5, <1>6, <3>1
    <3>2. CASE i = Len(queue) + 1
      BY <1>2, <1>6, <3>2
    <3>3. i \in 1 .. Len(queue) \/ i = Len(queue) + 1
      BY <1>6
    <3> QED BY <3>1, <3>2, <3>3
  <2>2. ASSUME NEW r \in Sessions, NEW c \in Kinds, NEW i \in 1 .. Len(_recvQueue'[r][c])
        PROVE  Kind[_recvQueue'[r][c][i].op] = c
    <3>1. CASE r = s /\ c = k
      <4>1. _recvQueue'[r][c] = Append(queue, e)
        BY <1>7, <3>1
      <4> QED BY <2>1, <3>1, <4>1
    <3>2. CASE ~(r = s /\ c = k)
      <4>1. _recvQueue'[r][c] = _recvQueue[r][c]
        BY <1>7, <3>2
      <4> QED BY <1>1, <4>1 DEF KindsInv
    <3> QED BY <3>1, <3>2
  <2>3. \A t \in Threads : PassInv(t)'
    BY <1>1, <1>3 DEF KindsInv, PassInv
  <2>4. apc' \notin {"handle", "undefined"} => pass'["async"] = None
    BY <1>1, <1>3 DEF KindsInv, threadVars
  <2>5. \A r \in Sessions : traffic'[r] \in Seq(Opcodes)
    BY <1>1, <1>3 DEF KindsInv
  <2> QED BY <2>2, <2>3, <2>4, <2>5 DEF KindsInv
<1>10. FlagInv'
  BY <1>1, <1>3 DEF FlagInv, threadVars
<1>11. \A r \in Sessions \ {s} : At(r)' = At(r) /\ received'[r] = received[r]
  BY <1>1, <1>3, <1>4, <1>7 DEF At, TypeOK
<1>12. ASSUME s \notin deleted PROVE Good(At(s)', m + 1)
  <2>1. PICK F, G : F = At(s) /\ G = At(s)'
    OBVIOUS
  <2>2. /\ \A c \in Kinds : F[c] = _recvQueue[s][c]
        /\ F["done"] = handled[s]
        /\ \A u \in Threads : F[AsideOf(u)] = AsideIn(pass[u], s) /\ F[HandOf(u)] = HandIn(pass[u], s)
    BY <1>1, <2>1, AtFacts
  <2>3. /\ G \in [Spots -> Seq(Packets)] /\ \A c \in Kinds : G[c] = _recvQueue'[s][c]
        /\ G["done"] = handled'[s]
        /\ \A u \in Threads : G[AsideOf(u)] = AsideIn(pass'[u], s) /\ G[HandOf(u)] = HandIn(pass'[u], s)
    BY <1>8, <2>1, AtFactsAfter
  <2>4. SameBut(F, G, {k})
    <3>1. \A c \in Kinds : c \notin {k} => G[c] = F[c]
      BY <1>7, <2>2, <2>3
    <3>2. G["done"] = F["done"]
      BY <1>3, <2>2, <2>3
    <3>3. \A u \in Threads : G[AsideOf(u)] = F[AsideOf(u)] /\ G[HandOf(u)] = F[HandOf(u)]
      BY <1>3, <2>2, <2>3
    <3> QED BY <3>1, <3>2, <3>3, OtherSpots
  <2>5. G[k] = Append(F[k], e)
    BY <1>5, <1>7, <2>2, <2>3
  <2>6. Good(F, m)
    BY <1>1, <1>2, <1>12, <2>1 DEF PacketInv
  <2>7. Good(G, m + 1)
    BY <1>2, <2>3, <2>4, <2>5, <2>6, Arrive
  <2> QED BY <2>1, <2>7
<1>13. PacketInv'
  <2>1. ASSUME NEW r \in Sessions \ deleted' PROVE Good(At(r)', received'[r])
    <3> r \in Sessions \ deleted
      BY <1>3 DEF threadVars
    <3>1. CASE r = s
      <4>1. received'[s] = m + 1
        BY <1>1, <1>4 DEF TypeOK
      <4> QED BY <1>12, <3>1, <4>1
    <3>2. CASE r # s
      BY <1>1, <1>11, <3>2 DEF PacketInv
    <3> QED BY <3>1, <3>2
  <2>2. ASSUME NEW r \in deleted' PROVE InALine(handled'[r])
    <3>1. r \in deleted /\ handled' = handled
      BY <1>3 DEF threadVars
    <3> QED BY <1>1, <3>1 DEF PacketInv
  <2> QED BY <2>1, <2>2 DEF PacketInv
<1> QED BY <1>8, <1>9, <1>10, <1>13 DEF IInv

-----------------------------------------------------------------------------
(* The invariant holds of every state. *)

LEMMA InvariantInit == Init => IInv
<1> SUFFICES ASSUME Init PROVE IInv
  OBVIOUS
<1>1. \A s \in Sessions : traffic[s] \in Seq(Opcodes)
  BY PacketsAssumption DEF Init
<1>2. TypeOK
  <2>1. /\ wpc = "start" /\ apc = "loop" /\ mpc = "run" /\ m_sessions = {} /\ left = {}
        /\ removed = {} /\ deleted = {}
        /\ late = 0 /\ m_stopEvent = FALSE /\ m_canProcessAsyncPackets = FALSE /\ inWorld = {}
    BY DEF Init
  <2>2. /\ socket \in [Sessions -> BOOLEAN]
        /\ count \in [Sessions -> [Requeued -> 0 .. RequeueLimit \union {None}]]
        /\ received \in [Sessions -> Nat]
    BY DEF Init
  <2>3. pass \in [Threads -> Calls \union {None}]
    BY DEF Init
  <2>4. <<>> \in Seq(Packets)
    BY EmptySeq
  <2>5. _recvQueue \in [Sessions -> [Kinds -> Seq(Packets)]]
        /\ handled \in [Sessions -> Seq(Packets)]
    BY <2>4 DEF Init
  <2> QED BY <2>1, <2>2, <2>3, <2>5 DEF TypeOK
<1>3. /\ \A s \in Sessions, k \in Kinds : _recvQueue[s][k] = <<>>
      /\ \A s \in Sessions : handled[s] = <<>> /\ received[s] = 0
      /\ \A t \in Threads : pass[t] = None
  BY DEF Init
<1>4. Len(<<>>) = 0 /\ ~\E i \in 1 .. 0 : TRUE
  BY EmptySeq
<1>5. KindsInv
  <2>1. "async" \in Threads
    BY DEF Threads
  <2> QED BY <1>1, <1>3, <1>4, <2>1 DEF KindsInv, PassInv
<1>6. ASSUME NEW s \in Sessions PROVE Good(At(s), received[s])
  <2>1. At(s) \in [Spots -> Seq(Packets)] /\ \A x \in Spots : At(s)[x] = <<>>
    <3>1. /\ At(s) \in [Spots -> Seq(Packets)]
          /\ \A k \in Kinds : At(s)[k] = <<>>
          /\ At(s)["done"] = <<>>
          /\ \A t \in Threads : At(s)[AsideOf(t)] = <<>> /\ At(s)[HandOf(t)] = <<>>
      <4>1. /\ At(s) \in [Spots -> Seq(Packets)]
            /\ \A k \in Kinds : At(s)[k] = _recvQueue[s][k]
            /\ At(s)["done"] = handled[s]
            /\ \A t \in Threads : /\ At(s)[AsideOf(t)] = AsideIn(pass[t], s)
                                  /\ At(s)[HandOf(t)] = HandIn(pass[t], s)
        BY <1>2, AtFacts
      <4>2. \A t \in Threads : AsideIn(pass[t], s) = <<>> /\ HandIn(pass[t], s) = <<>>
        BY <1>3 DEF AsideIn, HandIn
      <4> QED BY <1>3, <4>1, <4>2
    <3> QED BY <3>1, SpotFacts
  <2>2. \A x \in Spots : Len(At(s)[x]) = 0
    BY <1>4, <2>1
  <2> QED BY <1>3, <1>4, <2>1, <2>2 DEF Good, Numbered, Unique, Ordered
<1>7. FlagInv
  BY DEF Init, FlagInv
<1>8. deleted = {}
  BY DEF Init
<1> QED BY <1>2, <1>5, <1>6, <1>7, <1>8 DEF IInv, PacketInv

LEMMA InvariantStep == IInv /\ [Next]_vars => IInv'
<1> SUFFICES ASSUME IInv, [Next]_vars PROVE IInv'
  OBVIOUS
<1>1. CASE NextPhase \/ AsyncPoll \/ StopNow \/ Join \/ JoinWaits \/ Done
  BY <1>1, ThreadStep
<1>2. CASE AsyncStep
  BY <1>2, ThreadStep, CallStep DEF AsyncStep
<1>8. ASSUME NEW s \in Sessions, DeleteSession(s) \/ DeleteLeft(s) PROVE IInv'
  BY <1>8, DeleteStep
<1>9. ASSUME NEW s \in Sessions, AddSession(s) \/ RemoveSession(s) PROVE IInv'
  BY <1>9, ThreadStep
<1>3. ASSUME NEW s \in Sessions, PlayerMoves(s) \/ CloseSocket(s) \/ WindowEnds(s) PROVE IInv'
  BY <1>3, ThreadStep
<1>4. ASSUME NEW s \in Sessions, WorldPass(s) \/ MapPass(s) PROVE IInv'
  BY <1>4, CallStep
<1>5. ASSUME NEW s \in Sessions, QueuePacket(s) PROVE IInv'
  BY <1>5, ArriveStep
<1>6. ASSUME NEW t \in Threads, Passes(t) PROVE IInv'
  BY <1>6, TakeStep, RequeueStep, HandleStep, DenyStep, EndPassStep DEF Passes
<1>7. CASE UNCHANGED vars
  <2>1. UNCHANGED <<pass, _recvQueue, handled, received, traffic, deleted>> /\ apc' = apc
    BY <1>7 DEF vars, threadVars, packetVars
  <2>2. TypeOK' /\ FlagInv'
    BY <1>7 DEF IInv, TypeOK, FlagInv, vars, threadVars, packetVars
  <2> QED BY <2>1, <2>2, QuietStep
<1> QED BY <1>1, <1>2, <1>3, <1>4, <1>5, <1>6, <1>7, <1>8, <1>9 DEF Next, MainStep

(* Every reachable state satisfies the inductive invariant. *)
THEOREM Invariance == Spec => []IInv
  BY InvariantInit, InvariantStep, PTL DEF Spec

-----------------------------------------------------------------------------
(* What follows from it. *)

LEMMA PlacesAreSpots ==
    ASSUME TypeOK, NEW s \in Sessions
    PROVE  /\ \A packets \in Places(s) : \E x \in Spots : packets = At(s)[x]
           /\ \A x \in Spots : At(s)[x] # <<>> => At(s)[x] \in Places(s)
<1>1. /\ \A k \in Kinds : At(s)[k] = _recvQueue[s][k]
      /\ At(s)["done"] = handled[s]
      /\ \A t \in Threads : At(s)[AsideOf(t)] = AsideIn(pass[t], s) /\ At(s)[HandOf(t)] = HandIn(pass[t], s)
  BY AtFacts
<1>2. ASSUME NEW t \in Threads, pass[t] # None, Session(t) = s
      PROVE  /\ At(s)[AsideOf(t)] = pass[t].aside
             /\ At(s)[HandOf(t)] = IF pass[t].packet = None THEN <<>> ELSE <<pass[t].packet>>
  BY <1>1, <1>2 DEF AsideIn, HandIn, Session
<1>3. ASSUME NEW t \in Threads, ~(pass[t] # None /\ Session(t) = s)
      PROVE  At(s)[AsideOf(t)] = <<>> /\ At(s)[HandOf(t)] = <<>>
  BY <1>1, <1>3 DEF AsideIn, HandIn, Session
<1>4. ASSUME NEW packets \in Places(s) PROVE \E x \in Spots : packets = At(s)[x]
  <2>1. CASE \E k \in Kinds : packets = _recvQueue[s][k]
    BY <1>1, <2>1, SpotFacts
  <2>2. CASE packets = handled[s]
    BY <1>1, <2>2, SpotFacts
  <2>3. CASE \E t \in Threads :
                /\ pass[t] # None /\ Session(t) = s
                /\ packets \in {pass[t].aside,
                                IF pass[t].packet = None THEN <<>> ELSE <<pass[t].packet>>}
    BY <1>2, <2>3, SpotFacts
  <2> QED BY <2>1, <2>2, <2>3 DEF Places
<1>5. ASSUME NEW x \in Spots, At(s)[x] # <<>> PROVE At(s)[x] \in Places(s)
  <2>1. CASE x \in Kinds
    BY <1>1, <2>1 DEF Places
  <2>2. CASE x = "done"
    BY <1>1, <2>2 DEF Places
  <2>3. ASSUME NEW t \in Threads, x \in {AsideOf(t), HandOf(t)} PROVE At(s)[x] \in Places(s)
    <3>1. pass[t] # None /\ Session(t) = s
      BY <1>3, <1>5, <2>3
    <3>2. At(s)[x] \in {pass[t].aside,
                        IF pass[t].packet = None THEN <<>> ELSE <<pass[t].packet>>}
      BY <1>2, <2>3, <3>1
    <3>3. t \in {u \in Threads : pass[u] # None /\ Session(u) = s}
      BY <3>1
    <3> QED BY <3>2, <3>3 DEF Places
  <2> QED BY <2>1, <2>2, <2>3, SpotFacts
<1> QED BY <1>4, <1>5

LEMMA PacketsAreOnce ==
    ASSUME TypeOK, NEW s \in Sessions, Good(At(s), received[s]), NEW n \in 1 .. received[s]
    PROVE  Cardinality(Held(s, n)) = 1
<1>1. PICK F : F = At(s) /\ F \in [Spots -> Seq(Packets)] /\ Unique(F) /\ Somewhere(F, n)
  BY DEF Good
<1>2. PICK x \in Spots : \E i \in 1 .. Len(F[x]) : F[x][i].n = n
  BY <1>1 DEF Somewhere
<1>3. PICK i \in 1 .. Len(F[x]) : F[x][i].n = n
  BY <1>2
<1>4. \A y \in Spots : DOMAIN F[y] = 1 .. Len(F[y])
  BY <1>1
<1>5. <<F[x], i>> \in Held(s, n)
  <2>1. F[x] # <<>>
    <3>1. Len(<<>>) = 0 /\ ~\E j \in 1 .. 0 : TRUE
      BY EmptySeq
    <3> QED BY <3>1
  <2>2. F[x] \in Places(s)
    BY <1>1, <2>1, PlacesAreSpots
  <2>3. <<F[x], i>> \in {F[x]} \X DOMAIN F[x]
    BY <1>4
  <2> QED BY <1>3, <2>2, <2>3 DEF Held
<1>6. ASSUME NEW h \in Held(s, n) PROVE h = <<F[x], i>>
  <2>1. PICK packets \in Places(s) : h \in {packets} \X DOMAIN packets
    BY DEF Held
  <2>2. h[1][h[2]].n = n
    BY DEF Held
  <2>3. PICK y \in Spots : packets = F[y]
    BY <1>1, PlacesAreSpots
  <2>4. PICK j \in 1 .. Len(F[y]) : h = <<F[y], j>>
    BY <1>4, <2>1, <2>3
  <2>5. F[y][j].n = n
    BY <2>2, <2>4
  <2>6. y = x /\ j = i
    BY <1>1, <1>3, <2>5 DEF Unique
  <2> QED BY <2>4, <2>6
<1>7. Held(s, n) = {<<F[x], i>>}
  BY <1>5, <1>6
<1> QED BY <1>7, FS_Singleton

(* No packet that came in is lost or there twice while its session exists,  *)
(* whatever is denied or put off, and whoever processes it, also when other *)
(* sessions are deleted under the async thread; and while the flag is down  *)
(* that thread begins one session at most, although it looks at the flag    *)
(* between two sessions only.                                               *)
THEOREM PacketsAreKept == Spec => []Inv
<1>1. IInv => Inv
  <2> SUFFICES ASSUME IInv PROVE Inv
    OBVIOUS
  <2>1. EachOnce
    BY PacketsAreOnce DEF IInv, PacketInv, EachOnce
  <2>2. AtMostOneLate
    BY DEF IInv, FlagInv, AtMostOneLate
  <2> QED BY <2>1, <2>2 DEF IInv, Inv
<1> QED BY <1>1, Invariance, PTL

(* The packets of one kind that may not be put off are handled in the order *)
(* in which they came: no two threads ever process the same kind.           *)
THEOREM HandledInOrder == Spec => []InOrder
<1>1. IInv => InOrder
  <2> SUFFICES ASSUME IInv, NEW s \in Sessions,
                      NEW i \in DOMAIN handled[s], NEW j \in DOMAIN handled[s],
                      i < j, Kind[handled[s][i].op] = Kind[handled[s][j].op],
                      {handled[s][i].op, handled[s][j].op} \intersect Requeued = {}
               PROVE  handled[s][i].n < handled[s][j].n
    BY DEF InOrder
  <2>1. TypeOK /\ PacketInv
    BY DEF IInv
  <2>2. InALine(handled[s])
    <3>1. CASE s \in deleted
      BY <2>1, <3>1 DEF PacketInv
    <3>2. CASE s \notin deleted
      <4>1. Good(At(s), received[s])
        BY <2>1, <3>2 DEF PacketInv
      <4> QED BY <2>1, <4>1, DoneInALine
    <3> QED BY <3>1, <3>2
  <2>3. i \in 1 .. Len(handled[s]) /\ j \in 1 .. Len(handled[s])
    BY <2>1 DEF TypeOK
  <2>4. InLine(handled[s][i], handled[s][j])
    BY DEF InLine
  <2> QED BY <2>2, <2>3, <2>4 DEF InALine
<1> QED BY <1>1, Invariance, PTL
=============================================================================
