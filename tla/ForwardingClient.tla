-------------------------- MODULE ForwardingClient --------------------------
(***************************************************************************)
(* One established client of a port forwarding rule.  The worker of the    *)
(* rule runs pumpEstablishedClient() over and over: it reads a chunk from  *)
(* the client's socket, writes to the SSH channel, forwards the end of the *)
(* client's stream, reads the channel, writes to the socket and forwards   *)
(* the end of the remote stream.  Nothing blocks; between two steps the    *)
(* client and the remote end do as they like.                              *)
(*                                                                         *)
(* The pump keeps bytes in order (ByteQueue appends at the back and        *)
(* consumes at the front), so a stream is given by how many of its bytes   *)
(* have passed each point.                                                 *)
(***************************************************************************)
EXTENDS Integers, TLAPS

CONSTANTS
    MaxBuffered,    \* maximumBufferedBytesPerDirection
    Chunk,          \* transferBufferSize
    Room,           \* what the socket, or the channel window, takes in
    Total           \* bound: bytes each end sends

ASSUME PumpAssumption ==
    /\ MaxBuffered \in Nat \ {0} /\ Chunk \in Nat \ {0} /\ Room \in Nat \ {0}
    /\ Total \in Nat

VARIABLES
    up,         \* the client's stream: bytes sent by the client, read into
                \* toRemote, written to the channel, taken by the remote end
    down,       \* the remote end's stream: sent, read into toClient, written
                \* to the socket, taken by the client
    ended,      \* which of the streams its sender has ended, and whether the
                \* client has reset its connection
    flags,      \* clientReadClosed, channelEofSent, clientWriteClosed
    step,       \* where the pump is, or "gone" once the client is erased
    why         \* why it was erased

vars == <<up, down, ended, flags, step, why>>

-----------------------------------------------------------------------------
Streams == [sent : Nat, read : Nat, written : Nat, taken : Nat]
NewStream == [sent |-> 0, read |-> 0, written |-> 0, taken |-> 0]

Least(a, b) == IF a <= b THEN a ELSE b

Unread(s)   == s.sent - s.read              \* waits in the socket or the channel
Buffered(s) == s.read - s.written           \* ByteQueue::size
Writable(s) == Least(Buffered(s), Room - (s.written - s.taken))
Arrived(s)  == Least(Unread(s), Chunk)      \* what one read returns

Steps == {"read", "write", "eof", "fetch", "flush", "shut", "gone"}

Init ==
    /\ up = NewStream /\ down = NewStream
    /\ ended = [client |-> FALSE, remote |-> FALSE, reset |-> FALSE]
    /\ flags = [readClosed |-> FALSE, eofSent |-> FALSE, writeClosed |-> FALSE]
    /\ step = "read"
    /\ why = "none"

Erase(reason) == step' = "gone" /\ why' = reason
GoTo(next) == step' = next /\ UNCHANGED why

-----------------------------------------------------------------------------
(***************************************************************************)
(* The two ends                                                            *)
(***************************************************************************)
ClientSends ==
    /\ step # "gone" /\ ~ended.client /\ ~ended.reset /\ up.sent < Total
    /\ up' = [up EXCEPT !.sent = @ + 1]
    /\ UNCHANGED <<down, ended, flags, step, why>>

RemoteSends ==
    /\ step # "gone" /\ ~ended.remote /\ down.sent < Total
    /\ down' = [down EXCEPT !.sent = @ + 1]
    /\ UNCHANGED <<up, ended, flags, step, why>>

ClientEnds ==
    /\ step # "gone" /\ ~ended.client /\ ~ended.reset
    /\ ended' = [ended EXCEPT !.client = TRUE]
    /\ UNCHANGED <<up, down, flags, step, why>>

\* What the client sent and the pump has not read is lost.
ClientResets ==
    /\ step # "gone" /\ ~ended.reset
    /\ ended' = [ended EXCEPT !.reset = TRUE]
    /\ UNCHANGED <<up, down, flags, step, why>>

RemoteEnds ==
    /\ step # "gone" /\ ~ended.remote
    /\ ended' = [ended EXCEPT !.remote = TRUE]
    /\ UNCHANGED <<up, down, flags, step, why>>

ClientTakes ==
    /\ ~ended.reset /\ down.taken < down.written
    /\ down' = [down EXCEPT !.taken = @ + 1]
    /\ UNCHANGED <<up, ended, flags, step, why>>

RemoteTakes ==
    /\ up.taken < up.written
    /\ up' = [up EXCEPT !.taken = @ + 1]
    /\ UNCHANGED <<down, ended, flags, step, why>>

-----------------------------------------------------------------------------
(***************************************************************************)
(* pumpEstablishedClient()                                                 *)
(***************************************************************************)
\* Seeded fault: append takes one chunk too many.
FitsLoosely(s, n) == n <= MaxBuffered + Chunk - Buffered(s)

\* ByteQueue::append refuses what does not fit; the read has happened.
Fits(s, n) == n <= MaxBuffered - Buffered(s)

ReadsClient == ~flags.readClosed /\ Buffered(up) < MaxBuffered

\* Seeded fault: the read does not tell a reset from a read that would block.
EndOnly == ended.client /\ ~ended.reset /\ Unread(up) = 0

\* A reset reads as Closed, which counts as the end of the stream.
ClientStreamOver == ended.reset \/ (ended.client /\ Unread(up) = 0)

ReadClient ==
    /\ step = "read"
    /\ flags' = [flags EXCEPT !.readClosed = @ \/ (ReadsClient /\ ClientStreamOver)]
    /\ IF ReadsClient /\ ~ended.reset /\ Unread(up) > 0
       THEN IF Fits(up, Arrived(up))
            THEN up' = [up EXCEPT !.read = @ + Arrived(up)] /\ GoTo("write")
            ELSE up' = up /\ Erase("overflow")
       ELSE up' = up /\ GoTo("write")
    /\ UNCHANGED <<down, ended>>

\* Written until the channel would block.
WriteRemote ==
    /\ step = "write"
    /\ up' = [up EXCEPT !.written = @ + Writable(up)]
    /\ GoTo("eof")
    /\ UNCHANGED <<down, ended, flags>>

\* Seeded fault: the end of the stream is forwarded before what is buffered.
EofAtOnce == flags.readClosed /\ ~flags.eofSent

EofDue == flags.readClosed /\ Buffered(up) = 0 /\ ~flags.eofSent

\* The send may time out; it is tried again on the next pass.
SendEof ==
    /\ step = "eof"
    /\ \/ EofDue /\ flags' = [flags EXCEPT !.eofSent = TRUE]
       \/ flags' = flags
    /\ GoTo("fetch")
    /\ UNCHANGED <<up, down, ended>>

\* One turn of the loop over readForwardingChannel().
ReadRemote ==
    /\ step = "fetch"
    /\ IF Buffered(down) < MaxBuffered /\ Unread(down) > 0
       THEN IF Fits(down, Arrived(down))
            THEN down' = [down EXCEPT !.read = @ + Arrived(down)] /\ GoTo("fetch")
            ELSE down' = down /\ Erase("overflow")
       ELSE down' = down /\ GoTo("flush")
    /\ UNCHANGED <<up, ended, flags>>

\* Seeded fault: the output is written only when the whole of it fits.
WriteClientWhole ==
    /\ step = "flush"
    /\ down' = IF Writable(down) = Buffered(down)
               THEN [down EXCEPT !.written = @ + Writable(down)] ELSE down
    /\ GoTo("shut")
    /\ UNCHANGED <<up, ended, flags>>

\* flushClientOutput()
WriteClient ==
    /\ step = "flush"
    /\ IF ended.reset /\ Buffered(down) > 0
       THEN down' = down /\ Erase("error")
       ELSE down' = [down EXCEPT !.written = @ + Writable(down)] /\ GoTo("shut")
    /\ UNCHANGED <<up, ended, flags>>

\* forwardingChannelEof() is false while the channel holds unread bytes.
RemoteAtEnd == ended.remote /\ Unread(down) = 0

ShutsClient == RemoteAtEnd /\ Buffered(down) = 0

\* Seeded fault: a client is erased while bytes for the remote end wait.
DoneEarly == flags'.readClosed /\ flags'.writeClosed /\ Buffered(down) = 0

Done == flags'.readClosed /\ flags'.writeClosed /\ Buffered(up) = 0 /\ Buffered(down) = 0

ShutdownWrite ==
    /\ step = "shut"
    /\ flags' = [flags EXCEPT !.writeClosed = @ \/ ShutsClient]
    /\ IF Done THEN Erase("finished") ELSE GoTo("read")
    /\ UNCHANGED <<up, down, ended>>

\* A read or write fails, on either side, or the rule stops.
Breaks(reason) ==
    /\ step # "gone"
    /\ Erase(reason)
    /\ UNCHANGED <<up, down, ended, flags>>

-----------------------------------------------------------------------------
Ends == ClientSends \/ RemoteSends \/ ClientEnds \/ RemoteEnds \/ ClientResets \/ ClientTakes \/ RemoteTakes

Pump == ReadClient \/ WriteRemote \/ SendEof \/ ReadRemote \/ WriteClient \/ ShutdownWrite

Next ==
    \/ Ends
    \/ Pump
    \/ \E reason \in {"error", "stopped"} : Breaks(reason)

Spec == Init /\ [][Next]_vars

\* The worker runs a pass at least every idlePollInterval.
FairSpec == Spec /\ WF_vars(Pump)

-----------------------------------------------------------------------------
(***************************************************************************)
(* Properties                                                              *)
(***************************************************************************)
\* Types, and that no buffer outgrows maximumBufferedBytesPerDirection and
\* no byte is written before it was read or taken before it was written.
TypeOK ==
    /\ up \in Streams /\ down \in Streams
    /\ \A s \in {up, down} :
          /\ s.taken <= s.written /\ s.written <= s.read /\ s.read <= s.sent
          /\ Buffered(s) <= MaxBuffered
          /\ s.written - s.taken <= Room
    /\ ended \in [client : BOOLEAN, remote : BOOLEAN, reset : BOOLEAN]
    /\ flags \in [readClosed : BOOLEAN, eofSent : BOOLEAN, writeClosed : BOOLEAN]
    /\ step \in Steps
    /\ why \in {"none", "finished", "overflow", "error", "stopped"}

\* A client that was erased as finished was sent every byte of the remote end
\* and, unless the client reset its connection, the remote end got every byte
\* of the client: neither end of stream overtakes data in its own direction
\* nor cuts off the other one.
FinishedIsComplete ==
    why = "finished" =>
        /\ ~ended.reset => ended.client /\ up.written = up.sent
        /\ ended.remote /\ down.written = down.sent

\* An end of stream is passed on only after the last byte before it.
EndOfStreamLast ==
    /\ flags.eofSent /\ ~ended.reset => ended.client /\ up.written = up.sent
    /\ flags.writeClosed => ended.remote /\ down.written = down.sent

\* The two directions do not wait for each other: what the remote end sends
\* reaches a client that reads, whether or not the remote end takes a byte.
DownstreamFlows ==
    WF_vars(ClientTakes) =>
        ((down.written < down.sent) ~> (down.written = down.sent \/ step = "gone"))

\* A connection whose two streams have ended, and whose ends still read, is
\* erased.
EndedConnectionLeaves ==
    WF_vars(ClientTakes) /\ WF_vars(RemoteTakes) =>
        (((ended.client \/ ended.reset) /\ ended.remote) ~> (step = "gone"))

\* V2_10_SCOPE lists "backpressure" with what the pump handles: a slow reader
\* slows the sender down and does not lose the connection.
SlowReaderKeepsConnection == why # "overflow"

-----------------------------------------------------------------------------
(***************************************************************************)
(* Theorems, for buffers, chunks and streams of any size.                  *)
(***************************************************************************)
\* The buffers of a client stay within their limit and no byte overtakes the
\* point before it, whatever the ends, the channel and the rule do.
THEOREM TypeCorrect == Spec => []TypeOK
<1> USE PumpAssumption DEF Streams, Steps, Unread, Buffered, Erase, GoTo
<1>1. Init => TypeOK
  BY DEF Init, TypeOK, NewStream
<1>2. TypeOK /\ [Next]_vars => TypeOK'
  <2> SUFFICES ASSUME TypeOK, [Next]_vars PROVE TypeOK'
    OBVIOUS
  <2> USE DEF TypeOK
  <2>1. CASE Ends
    <3>1. CASE ClientSends  BY <3>1 DEF ClientSends
    <3>2. CASE RemoteSends  BY <3>2 DEF RemoteSends
    <3>3. CASE ClientEnds   BY <3>3 DEF ClientEnds
    <3>4. CASE RemoteEnds   BY <3>4 DEF RemoteEnds
    <3>5. CASE ClientResets BY <3>5 DEF ClientResets
    <3>6. CASE ClientTakes  BY <3>6 DEF ClientTakes
    <3>7. CASE RemoteTakes  BY <3>7 DEF RemoteTakes
    <3> QED BY <2>1, <3>1, <3>2, <3>3, <3>4, <3>5, <3>6, <3>7 DEF Ends
  <2>2. CASE Pump
    <3>1. CASE ReadClient    BY <3>1 DEF ReadClient, ReadsClient, ClientStreamOver, Fits, Arrived, Least
    <3>2. CASE WriteRemote   BY <3>2 DEF WriteRemote, Writable, Least
    <3>3. CASE SendEof       BY <3>3 DEF SendEof
    <3>4. CASE ReadRemote    BY <3>4 DEF ReadRemote, Fits, Arrived, Least
    <3>5. CASE WriteClient   BY <3>5 DEF WriteClient, Writable, Least
    <3>6. CASE ShutdownWrite BY <3>6 DEF ShutdownWrite, ShutsClient, RemoteAtEnd
    <3> QED BY <2>2, <3>1, <3>2, <3>3, <3>4, <3>5, <3>6 DEF Pump
  <2>3. ASSUME NEW reason \in {"error", "stopped"}, Breaks(reason) PROVE TypeOK'
    BY <2>3 DEF Breaks
  <2>4. CASE UNCHANGED vars
    BY <2>4 DEF vars
  <2> QED BY <2>1, <2>2, <2>3, <2>4 DEF Next
<1> QED BY <1>1, <1>2, PTL DEF Spec

-----------------------------------------------------------------------------
\* What the two properties of the ends of streams rest on: a closed direction
\* has ended, and nothing of it is left in the socket or in the channel.
ReadSideClosed ==
    /\ flags.readClosed /\ ~ended.reset => ended.client /\ up.read = up.sent
    /\ flags.eofSent => flags.readClosed
    /\ flags.eofSent /\ ~ended.reset => up.written = up.read

\* The order of every stream and the end of both of them.
ClosedInOrder == ReadSideClosed /\ EndOfStreamLast /\ FinishedIsComplete

LEMMA ClosedInOrderHolds == Spec => []ClosedInOrder
<1> USE PumpAssumption DEF Streams, Unread, Buffered, Erase, GoTo
<1>1. Init => ClosedInOrder
  BY DEF Init, ClosedInOrder, ReadSideClosed, EndOfStreamLast, FinishedIsComplete
<1>2. TypeOK /\ ClosedInOrder /\ [Next]_vars => ClosedInOrder'
  <2> SUFFICES ASSUME TypeOK, ClosedInOrder, [Next]_vars PROVE ClosedInOrder'
    OBVIOUS
  <2> USE DEF TypeOK, ClosedInOrder, ReadSideClosed, EndOfStreamLast, FinishedIsComplete
  <2>1. CASE Ends
    <3>1. CASE ClientSends  BY <3>1 DEF ClientSends
    <3>2. CASE RemoteSends  BY <3>2 DEF RemoteSends
    <3>3. CASE ClientEnds   BY <3>3 DEF ClientEnds
    <3>4. CASE RemoteEnds   BY <3>4 DEF RemoteEnds
    <3>5. CASE ClientResets BY <3>5 DEF ClientResets
    <3>6. CASE ClientTakes  BY <3>6 DEF ClientTakes
    <3>7. CASE RemoteTakes  BY <3>7 DEF RemoteTakes
    <3> QED BY <2>1, <3>1, <3>2, <3>3, <3>4, <3>5, <3>6, <3>7 DEF Ends
  <2>2. CASE Pump
    <3>1. CASE ReadClient    BY <3>1 DEF ReadClient, ReadsClient, ClientStreamOver, Fits, Arrived, Least
    <3>2. CASE WriteRemote   BY <3>2 DEF WriteRemote, Writable, Least
    <3>3. CASE SendEof       BY <3>3 DEF SendEof, EofDue
    <3>4. CASE ReadRemote    BY <3>4 DEF ReadRemote, Fits, Arrived, Least
    <3>5. CASE WriteClient   BY <3>5 DEF WriteClient, Writable, Least
    <3>6. CASE ShutdownWrite BY <3>6 DEF ShutdownWrite, ShutsClient, RemoteAtEnd, Done
    <3> QED BY <2>2, <3>1, <3>2, <3>3, <3>4, <3>5, <3>6 DEF Pump
  <2>3. ASSUME NEW reason \in {"error", "stopped"}, Breaks(reason) PROVE ClosedInOrder'
    BY <2>3 DEF Breaks
  <2>4. CASE UNCHANGED vars
    BY <2>4 DEF vars
  <2> QED BY <2>1, <2>2, <2>3, <2>4 DEF Next
<1> QED BY <1>1, <1>2, TypeCorrect, PTL DEF Spec

\* A client erased as finished lost no byte of either direction, for streams
\* and buffers of any size (half-closed connections included).
THEOREM FinishedIsCompleteHolds == Spec => []FinishedIsComplete
BY ClosedInOrderHolds, PTL DEF ClosedInOrder

\* An end of stream passed on is the last thing its receiver gets.
THEOREM EndOfStreamLastHolds == Spec => []EndOfStreamLast
BY ClosedInOrderHolds, PTL DEF ClosedInOrder
=============================================================================
