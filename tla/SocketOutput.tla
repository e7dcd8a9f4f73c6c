---------------------------- MODULE SocketOutput ----------------------------
(***************************************************************************)
(* The output half of MangosSocket (framework/Network): threads of the     *)
(* server hand packets to SendPacket, which encrypts the header and copies *)
(* the packet into m_OutBuffer, or leaves it in m_PacketQueue when it does *)
(* not fit; the network thread of the socket (ReactorRunnable) writes the  *)
(* buffer to the kernel, when the reactor reports the socket as writable   *)
(* or when Update finds bytes nobody asked the reactor about.              *)
(*                                                                         *)
(* A packet is Size[p] units long, its header included.  One unit of the   *)
(* stream is <<p, i, k>>: the i-th unit of packet p, whose header was the  *)
(* k-th that AuthCrypt::EncryptSend encrypted (a stream cipher: the client *)
(* can read it only as the k-th header it receives).                       *)
(***************************************************************************)
EXTENDS Integers, Sequences

CONSTANTS Packets,      \* everything the server may send on this socket
          Challenge,    \* SMSG_AUTH_CHALLENGE, which SendStartupPacket sends
          Size,         \* units of a packet
          BufferSize,   \* m_OutBufferSize (Network.OutUBuff)
          KernelSize    \* units the kernel holds for a client that reads slowly

\* WorldSession::SendPacket drops what is longer than 0x8000, and the
\* distributed Network.OutUBuff is larger than that: every packet fits an
\* empty buffer.
ASSUME SocketAssumption ==
    /\ Challenge \in Packets
    /\ BufferSize \in Nat
    /\ KernelSize \in Nat \ {0}
    /\ Size \in [Packets -> 1..BufferSize]

VARIABLES
    opened,       \* open(): "no", "opening" after OnSocketOpen, "open", "failed"
    managed,      \* where ReactorRunnable has it: "no", "new" (m_NewSockets),
                  \* "yes" (m_Sockets), "gone"
    registered,   \* the reactor calls handle_input and handle_output of it
    writeMask,    \* the reactor watches it for output
    closing,      \* closing_
    outActive,    \* m_OutActive
    outBuffer,    \* the units between rd_ptr and wr_ptr of m_OutBuffer
    packetQueue,  \* m_PacketQueue
    crypt,        \* headers m_Crypt has encrypted
    kernel,       \* units sent and not yet taken by the client
    wire,         \* all units sent
    net,          \* where the network thread is, and who called it
    peer,         \* the client: "open" or "closed"
    accepted      \* history: packets SendPacket returned 0 for, in that order

vars == <<opened, managed, registered, writeMask, closing, outActive, outBuffer,
          packetQueue, crypt, kernel, wire, net, peer, accepted>>

lifecycle == <<opened, managed, registered, peer>>
output    == <<outBuffer, packetQueue, crypt, accepted>>

Unit   == Packets \X (1..BufferSize) \X Nat
Stream == wire \o outBuffer
Frame(p, k) == [i \in 1..Size[p] |-> <<p, i, k>>]

Idle   == [at |-> "idle", by |-> "none"]
\* m_OutBufferLock between two steps of this model: the loop of
\* iFlushPacketQueue runs with it held
Locked == net.at = "flush"

Init ==
    /\ opened = "no" /\ managed = "no" /\ registered = FALSE
    /\ writeMask = FALSE /\ closing = FALSE /\ outActive = FALSE
    /\ outBuffer = <<>> /\ packetQueue = <<>> /\ crypt = 0
    /\ kernel = 0 /\ wire = <<>>
    /\ net = Idle /\ peer = "open" /\ accepted = <<>>

-----------------------------------------------------------------------------
(* Opening, on the acceptor's thread *)

\* open up to OnSocketOpen, which puts the socket into m_NewSockets of a
\* network thread
OpenBegin ==
    /\ opened = "no"
    /\ opened' = "opening" /\ managed' = "new"
    /\ outActive' = TRUE
    /\ UNCHANGED <<registered, writeMask, closing, output, kernel, wire, net, peer>>

\* the first test of iSendPacket
Fits(p) == BufferSize - Len(outBuffer) >= Size[p]

\* iSendPacket once the room was found sufficient
Buffer(p) ==
    /\ outBuffer' = outBuffer \o Frame(p, crypt)
    /\ crypt' = crypt + 1

\* Mutant: registered for reading only
OpenEndReadOnly ==
    /\ opened = "opening"
    /\ opened' = "open"
    /\ Buffer(Challenge)
    /\ accepted' = <<Challenge>>
    /\ registered' = TRUE
    /\ UNCHANGED <<managed, writeMask, closing, outActive, packetQueue, kernel, wire, net, peer>>

\* the rest of open: m_OutBuffer, the start-up packet, register_handler
OpenEnd ==
    /\ opened = "opening"
    /\ opened' = "open"
    /\ Buffer(Challenge)
    /\ accepted' = <<Challenge>>
    /\ registered' = TRUE /\ writeMask' = TRUE
    /\ UNCHANGED <<managed, closing, outActive, packetQueue, kernel, wire, net, peer>>

\* open returns -1 after OnSocketOpen; the acceptor calls close
OpenFail ==
    /\ opened = "opening"
    /\ opened' = "failed" /\ closing' = TRUE
    /\ UNCHANGED <<managed, registered, writeMask, outActive, output, kernel, wire, net, peer>>

-----------------------------------------------------------------------------
(* Any thread that holds a reference to the socket *)

\* Mutant: the header is encrypted before the room is looked at
SendPacketEncryptsFirst(p) ==
    /\ opened = "open" /\ ~Locked /\ ~closing
    /\ p \notin {accepted[i] : i \in 1..Len(accepted)}
    /\ \/ Fits(p) /\ Buffer(p) /\ UNCHANGED packetQueue
       \/ ~Fits(p) /\ packetQueue' = Append(packetQueue, p) /\ crypt' = crypt + 1
          /\ UNCHANGED outBuffer
    /\ accepted' = Append(accepted, p)
    /\ UNCHANGED <<lifecycle, writeMask, closing, outActive, kernel, wire, net>>

SendPacket(p) ==
    /\ opened = "open" /\ ~Locked /\ ~closing
    /\ p \notin {accepted[i] : i \in 1..Len(accepted)}   \* a packet is sent once
    /\ \/ Fits(p) /\ Buffer(p) /\ UNCHANGED packetQueue
       \/ ~Fits(p) /\ packetQueue' = Append(packetQueue, p) /\ UNCHANGED <<outBuffer, crypt>>
    /\ accepted' = Append(accepted, p)
    /\ UNCHANGED <<lifecycle, writeMask, closing, outActive, kernel, wire, net>>

CloseSocket ==
    /\ opened = "open" /\ ~Locked /\ ~closing
    /\ closing' = TRUE
    /\ UNCHANGED <<lifecycle, writeMask, outActive, output, kernel, wire, net>>

-----------------------------------------------------------------------------
(* handle_output, on the network thread.  "by" is the caller: the reactor, *)
(* which answers -1 with handle_close, or the loop of ReactorRunnable::svc *)

Return(by, at) == net' = [at |-> at, by |-> by]

\* cancel_wakeup_output and schedule_wakeup_output set the flag, release the
\* lock and then call the reactor
CancelWakeup(by) ==
    IF outActive THEN outActive' = FALSE /\ Return(by, "cancel")
                 ELSE net' = Idle /\ UNCHANGED outActive

\* Mutant: the reactor is asked only when the flag was set already
ScheduleWakeupInverted(by) ==
    IF outActive THEN Return(by, "schedule") /\ UNCHANGED outActive
                 ELSE net' = Idle /\ outActive' = TRUE

ScheduleWakeup(by) ==
    IF outActive THEN net' = Idle /\ UNCHANGED outActive
                 ELSE outActive' = TRUE /\ Return(by, "schedule")

\* peer().send took the first n units
Sent(n) ==
    /\ wire' = wire \o SubSeq(outBuffer, 1, n)
    /\ outBuffer' = SubSeq(outBuffer, n + 1, Len(outBuffer))
    /\ kernel' = kernel + n

SendPart(by, n) ==
    /\ n < Len(outBuffer)
    /\ Sent(n) /\ ScheduleWakeup(by)

SendAll(by, n) ==
    /\ n = Len(outBuffer)
    /\ Sent(n) /\ Return(by, "flush") /\ UNCHANGED outActive

HandleOutput(by) ==
    /\ \/ closing /\ Return(by, "failed") /\ UNCHANGED <<outActive, outBuffer, kernel, wire>>
       \/ ~closing /\ outBuffer = <<>> /\ CancelWakeup(by) /\ UNCHANGED <<outBuffer, kernel, wire>>
       \/ /\ ~closing /\ outBuffer # <<>>
          /\ \/ peer = "closed" /\ Return(by, "failed") /\ UNCHANGED <<outActive, outBuffer, kernel, wire>>
             \/ kernel = KernelSize /\ ScheduleWakeup(by) /\ UNCHANGED <<outBuffer, kernel, wire>>
             \/ \E n \in 1..(KernelSize - kernel) : SendPart(by, n) \/ SendAll(by, n)
    /\ UNCHANGED <<lifecycle, writeMask, closing, packetQueue, crypt, accepted>>

\* Mutant: the packet is copied and left at the head of the queue
FlushPacketKeeps ==
    /\ net.at = "flush" /\ packetQueue # <<>> /\ Fits(Head(packetQueue))
    /\ Buffer(Head(packetQueue))
    /\ UNCHANGED <<packetQueue, lifecycle, writeMask, closing, outActive, kernel, wire, net, accepted>>

\* iFlushPacketQueue, one turn of its loop
FlushPacket ==
    /\ net.at = "flush" /\ packetQueue # <<>> /\ Fits(Head(packetQueue))
    /\ Buffer(Head(packetQueue))
    /\ packetQueue' = Tail(packetQueue)
    /\ UNCHANGED <<lifecycle, writeMask, closing, outActive, kernel, wire, net, accepted>>

\* the loop ends (the packet that does not fit goes back to the head); the
\* socket is marked for output if anything was copied
FlushEnd ==
    /\ net.at = "flush"
    /\ packetQueue # <<>> => ~Fits(Head(packetQueue))
    /\ IF outBuffer = <<>> THEN CancelWakeup(net.by) ELSE ScheduleWakeup(net.by)
    /\ UNCHANGED <<lifecycle, writeMask, closing, output, kernel, wire>>

\* reactor()->cancel_wakeup and schedule_wakeup
ReactorCall ==
    /\ net.at \in {"cancel", "schedule"}
    /\ writeMask' = (net.at = "schedule")
    /\ net' = Idle
    /\ UNCHANGED <<lifecycle, closing, outActive, output, kernel, wire>>

\* -1 from a callback: handle_close, which removes the handler
HandleClose ==
    /\ net = [at |-> "failed", by |-> "reactor"]
    /\ closing' = TRUE /\ registered' = FALSE /\ writeMask' = FALSE
    /\ net' = Idle
    /\ UNCHANGED <<opened, managed, peer, outActive, output, kernel, wire>>

\* -1 from Update in ReactorRunnable::svc
RemoveSocket ==
    /\ net = [at |-> "failed", by |-> "manager"]
    /\ closing' = TRUE /\ managed' = "gone"
    /\ net' = Idle
    /\ UNCHANGED <<opened, registered, peer, writeMask, outActive, output, kernel, wire>>

-----------------------------------------------------------------------------
(* The loop of the network thread *)

Update(by) ==
    \/ closing /\ Return(by, "failed")
       /\ UNCHANGED <<lifecycle, writeMask, closing, outActive, output, kernel, wire>>
    \/ ~closing /\ ~outActive /\ outBuffer # <<>> /\ HandleOutput(by)

WriteEvent ==
    /\ net = Idle /\ registered /\ writeMask
    /\ kernel < KernelSize \/ peer = "closed"
    /\ HandleOutput("reactor")

\* handle_input: data of the client (its effects are not part of this module)
\* or the end of the connection
ReadEvent ==
    /\ net = Idle /\ registered
    /\ \/ peer = "open" /\ Update("reactor")
       \/ /\ peer = "closed"
          /\ Return("reactor", "failed")
          /\ UNCHANGED <<lifecycle, writeMask, closing, outActive, output, kernel, wire>>

\* Mutant: a socket closed before it was taken over stays in m_NewSockets.
AddNewSocketForgets ==
    /\ net = Idle /\ managed = "new" /\ ~closing
    /\ managed' = "yes"
    /\ UNCHANGED <<opened, registered, peer, writeMask, closing, outActive, output, kernel, wire, net>>

AddNewSocket ==
    /\ net = Idle /\ managed = "new"
    /\ managed' = IF closing THEN "gone" ELSE "yes"
    /\ UNCHANGED <<opened, registered, peer, writeMask, closing, outActive, output, kernel, wire, net>>

UpdateSocket == net = Idle /\ managed = "yes" /\ Update("manager")

-----------------------------------------------------------------------------
(* The client *)

ClientReads ==
    /\ peer = "open" /\ kernel > 0
    /\ kernel' = kernel - 1
    /\ UNCHANGED <<lifecycle, writeMask, closing, outActive, output, wire, net>>

PeerCloses ==
    /\ opened = "open" /\ peer = "open"
    /\ peer' = "closed"
    /\ UNCHANGED <<opened, managed, registered, writeMask, closing, outActive, output, kernel, wire, net>>

NetThread == \/ WriteEvent \/ ReadEvent \/ AddNewSocket \/ UpdateSocket
             \/ FlushPacket \/ FlushEnd \/ ReactorCall \/ HandleClose \/ RemoveSocket

Next == \/ OpenBegin \/ OpenEnd \/ OpenFail
        \/ \E p \in Packets : SendPacket(p)
        \/ CloseSocket
        \/ NetThread
        \/ ClientReads \/ PeerCloses

Spec == Init /\ [][Next]_vars

\* ReactorRunnable::svc runs the reactor for m_Interval and then updates every
\* socket, for ever; the reactor reports every ready handler.  A client that
\* stops reading is taken to close its connection in the end (TCP gives up).
Fairness ==
    /\ WF_vars(WriteEvent) /\ WF_vars(AddNewSocket) /\ WF_vars(UpdateSocket)
    /\ WF_vars(ReadEvent /\ peer = "closed")
    /\ WF_vars(FlushPacket \/ FlushEnd \/ ReactorCall \/ HandleClose \/ RemoveSocket)
    /\ WF_vars(ClientReads)
    /\ WF_vars(OpenEnd \/ OpenFail)

FairSpec == Spec /\ Fairness

-----------------------------------------------------------------------------
(* Properties *)

\* The members of the socket have the values of their types, and the buffer
\* never holds more than it has room for.
TypeOK ==
    /\ opened \in {"no", "opening", "open", "failed"}
    /\ managed \in {"no", "new", "yes", "gone"}
    /\ registered \in BOOLEAN /\ writeMask \in BOOLEAN
    /\ closing \in BOOLEAN /\ outActive \in BOOLEAN
    /\ outBuffer \in Seq(Unit) /\ Len(outBuffer) <= BufferSize
    /\ packetQueue \in Seq(Packets) /\ accepted \in Seq(Packets)
    /\ crypt \in Nat /\ kernel \in 0..KernelSize /\ wire \in Seq(Unit)
    /\ net \in [at : {"idle", "flush", "cancel", "schedule", "failed"},
                by : {"none", "reactor", "manager"}]
    /\ peer \in {"open", "closed"}

\* What was sent and what is buffered is a sequence of whole packets, each
\* with its units in order, whose headers carry the keys 0, 1, 2, ... in that
\* order: the client can decrypt every header it reaches, whatever the sizes
\* of the sends and however packets were delayed (iSendPacket, handle_output).
WholeFrames ==
    LET s == Stream IN
    /\ \A i \in 1..Len(s) :
          LET p == s[i][1]
              u == s[i][2]
              k == s[i][3]
          IN  /\ u <= Size[p]
              /\ u > 1 => i > 1 /\ s[i-1] = <<p, u - 1, k>>
              /\ u = 1 /\ i = 1 => k = 0
              /\ u = 1 /\ i > 1 => s[i-1][2] = Size[s[i-1][1]] /\ k = s[i-1][3] + 1
    /\ IF s = <<>> THEN crypt = 0
       ELSE s[Len(s)][2] = Size[s[Len(s)][1]] /\ crypt = s[Len(s)][3] + 1

InQueue(p)  == \E i \in 1..Len(packetQueue) : packetQueue[i] = p
Starts(p)   == {i \in 1..Len(Stream) : Stream[i][1] = p /\ Stream[i][2] = 1}

\* Every packet SendPacket accepted is in the stream or in the queue, once and
\* in one of them, and nothing else is (SendPacket, iFlushPacketQueue).
EachOnce ==
    \A p \in Packets :
        LET accepted_ == \E i \in 1..Len(accepted) : accepted[i] = p IN
        /\ accepted_ <=> (Starts(p) # {} \/ InQueue(p))
        /\ ~(Starts(p) # {} /\ InQueue(p))
        /\ \A i, j \in Starts(p) : i = j
        /\ \A i, j \in 1..Len(packetQueue) : packetQueue[i] = p /\ packetQueue[j] = p => i = j

\* m_PacketQueue is flushed only when a send empties m_OutBuffer, and Update
\* does nothing when the buffer is empty: packets may wait in the queue only
\* behind something in the buffer, or nothing would ever send them.
QueueBehindBuffer ==
    packetQueue # <<>> /\ net.at # "flush" => outBuffer # <<>>

\* m_OutActive is true if the socket is registered with the reactor for output
\* whenever the network thread can look at it, though the flag is set under the
\* lock and the reactor is called without it.
FlagMatchesReactor ==
    net = Idle /\ opened = "open" /\ ~closing => outActive = writeMask

\* While open() is still initialising it, Update returns before it looks at
\* m_OutBuffer, which is not there yet.
UpdatedOnlyWhenOpen ==
    managed = "yes" /\ ~closing /\ ~outActive => opened = "open"

\* The queue keeps the packets in the order they were handed over.
QueueInOrder ==
    \A i, j \in 1..Len(packetQueue) : i < j =>
        \E m, n \in 1..Len(accepted) :
            m < n /\ accepted[m] = packetQueue[i] /\ accepted[n] = packetQueue[j]

\* What holds of every state: the types, and what the flags say.
FlagInv == TypeOK /\ FlagMatchesReactor /\ UpdatedOnlyWhenOpen

\* The packets: none lost or twice, those that wait in order and not forgotten.
PacketInv == EachOnce /\ QueueInOrder /\ QueueBehindBuffer

Delivered(p) == \E i \in 1..Len(wire) : wire[i][1] = p /\ wire[i][2] = Size[p]

\* Every packet handed over is sent completely, or the socket is closed: no
\* packet stays behind a wake-up that was cancelled, or in the queue.
EverythingIsSent ==
    \A p \in Packets :
        (\E i \in 1..Len(accepted) : accepted[i] = p) ~> (Delivered(p) \/ closing)

\* A closed socket leaves the list of its network thread, and the reactor too
\* when the client has gone.
ClosedLeaves ==
    /\ closing ~> managed = "gone"
    /\ (peer = "closed") ~> (~registered /\ managed = "gone")
=============================================================================
