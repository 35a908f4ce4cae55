------------------------------ MODULE Framing ------------------------------
(***************************************************************************)
(* The receive side of TcpTransport: the bytes of one connection, which    *)
(* TLS delivers in records, are collected in a buffer that grows with the  *)
(* messages and cut into messages by the length at the head of each.       *)
(*                                                                         *)
(* The event thread reads once whenever select says that the socket is     *)
(* readable.  SSL_read decrypts one record at a time; what of it does not  *)
(* fit into the buffer stays in the library, where select does not see it. *)
(* The thread serves all connections: the socket of another one that was   *)
(* closed makes every select fail, and a connect that is under way keeps   *)
(* the table of connections locked.                                        *)
(*                                                                         *)
(* A byte is <<message, position>>; the length at the head of a message    *)
(* takes HeadSize bytes (4 in the code), the first of which stands for it. *)
(***************************************************************************)
EXTENDS Integers, Sequences, SequencesExt

CONSTANTS
    Lengths,     \* the lengths of messages, each more than HeadSize
    HeadSize,
    DefaultSize, \* DEFAULT_RECV_BUFFER_SIZE; also the longest record of TLS
    ShrinkCount, \* DEFAULT_SHRINK_COUNT
    MaxMessages  \* bound: the messages the broker sends

ASSUME FramingAssumption ==
    /\ HeadSize \in Nat /\ Lengths \subseteq Nat /\ \A n \in Lengths : n > HeadSize
    /\ DefaultSize \in Nat

VARIABLES
    sent,      \* history: the messages, as sequences of bytes
    wire,      \* bytes written by the broker and not yet on the socket
    socket,    \* the records that have arrived
    pending,   \* the bytes SSL has decrypted and not yet handed out
    buf,       \* m_pRecvBuf, its m_recvBufUsed bytes
    size,      \* m_recvBufSize
    shrinkMax, shrinkCnt,
    out,       \* the messages handed on
    pc,        \* "select" or "process"
    connected,
    blind      \* another connection keeps the event thread from reading

sizes == <<size, shrinkMax, shrinkCnt>>
vars  == <<sent, wire, socket, pending, buf, sizes, out, pc, connected, blind>>

Init ==
    /\ sent = <<>> /\ wire = <<>> /\ socket = <<>> /\ pending = <<>>
    /\ buf = <<>> /\ size = DefaultSize /\ shrinkMax = DefaultSize /\ shrinkCnt = ShrinkCount
    /\ out = <<>> /\ pc = "select" /\ connected = TRUE /\ blind = FALSE

MinOf(a, b) == IF a < b THEN a ELSE b

Message(i, n) == [p \in 1 .. n |-> <<i, p>>]
-----------------------------------------------------------------------------
(* The broker and the network. *)

BrokerSends(n) ==
    /\ Len(sent) < MaxMessages
    /\ sent' = Append(sent, Message(Len(sent) + 1, n)) /\ wire' = wire \o Last(sent')
    /\ UNCHANGED <<socket, pending, buf, sizes, out, pc, connected, blind>>

\* A record holds any part of the stream.
RecordArrives(n) ==
    /\ n <= MinOf(Len(wire), DefaultSize)
    /\ socket' = Append(socket, SubSeq(wire, 1, n)) /\ wire' = SubSeq(wire, n + 1, Len(wire))
    /\ UNCHANGED <<sent, pending, buf, sizes, out, pc, connected, blind>>
-----------------------------------------------------------------------------
(* RecvData: RecvMsg, then ProcessData. *)

\* SSL_read hands out the rest of the current record, or decrypts the next one.
Available == IF pending # <<>> THEN pending ELSE Head(socket)

\* With no room it would return 0, which closes the connection.
RecvMsg ==
    /\ pc = "select" /\ connected /\ ~blind /\ socket # <<>>
    /\ LET n == MinOf(Len(Available), size - Len(buf))
       IN  /\ buf' = buf \o SubSeq(Available, 1, n)
           /\ pending' = SubSeq(Available, n + 1, Len(Available))
           /\ connected' = (n > 0)
    /\ socket' = IF pending # <<>> THEN socket ELSE Tail(socket)
    /\ pc' = "process"
    /\ UNCHANGED <<sent, wire, sizes, out, blind>>

\* Mutant: the length is taken to include its own field.
GetMsgSizeBare(b) == Len(sent[b[1][1]]) - HeadSize

\* The head gives the length of the message it begins, whatever byte that is.
GetMsgSize(b) == Len(sent[b[1][1]])

\* The buffer becomes as long as the message that does not fit.
ResizeBuf(n) == size' = n

\* m_shrinkMax never falls, so that no buffer is longer than it.
TryShrink(n) ==
    /\ shrinkMax' = IF n > shrinkMax THEN n ELSE shrinkMax
    /\ IF shrinkCnt = 0
       THEN /\ shrinkCnt' = ShrinkCount
            /\ IF size > shrinkMax' THEN ResizeBuf(shrinkMax') ELSE size' = size
       ELSE shrinkCnt' = shrinkCnt - 1 /\ size' = size

Busy == pc = "process" /\ Len(buf) > HeadSize

\* Mutant: the buffer grows only when it is full.
ProcessGrowsLate ==
    /\ Busy /\ GetMsgSize(buf) > size
    /\ IF Len(buf) > size THEN ResizeBuf(GetMsgSize(buf)) ELSE size' = size
    /\ shrinkCnt' = ShrinkCount /\ pc' = "select"
    /\ UNCHANGED <<sent, wire, socket, pending, buf, shrinkMax, out, connected, blind>>

ProcessGrows ==
    /\ Busy /\ GetMsgSize(buf) > size
    /\ ResizeBuf(GetMsgSize(buf)) /\ shrinkCnt' = ShrinkCount /\ pc' = "select"
    /\ UNCHANGED <<sent, wire, socket, pending, buf, shrinkMax, out, connected, blind>>

Complete(b) == Len(b) >= GetMsgSize(b)

ProcessTakes ==
    /\ Busy /\ GetMsgSize(buf) <= size /\ Complete(buf)
    /\ TryShrink(GetMsgSize(buf))
    /\ out' = Append(out, SubSeq(buf, 1, GetMsgSize(buf)))
    /\ buf' = SubSeq(buf, GetMsgSize(buf) + 1, Len(buf))
    /\ UNCHANGED <<sent, wire, socket, pending, pc, connected, blind>>

ProcessWaits ==
    /\ Busy /\ GetMsgSize(buf) <= size /\ ~Complete(buf)
    /\ TryShrink(GetMsgSize(buf)) /\ pc' = "select"
    /\ UNCHANGED <<sent, wire, socket, pending, buf, out, connected, blind>>

ProcessEnds ==
    /\ pc = "process" /\ Len(buf) <= HeadSize /\ pc' = "select"
    /\ UNCHANGED <<sent, wire, socket, pending, buf, sizes, out, connected, blind>>

\* A caller's RemoveTTS closes another connection's socket and leaves it in m_rset,
\* or a caller begins to connect; the lock of the table is held while data is read.
EventsStop ==
    /\ pc = "select" /\ ~blind /\ blind' = TRUE
    /\ UNCHANGED <<sent, wire, socket, pending, buf, sizes, out, pc, connected>>

\* UpdateEvent, once a connection has been made, builds m_rset from the table.
EventsResume ==
    /\ blind /\ blind' = FALSE
    /\ UNCHANGED <<sent, wire, socket, pending, buf, sizes, out, pc, connected>>

EventThread == RecvMsg \/ ProcessGrows \/ ProcessTakes \/ ProcessWaits \/ ProcessEnds

Arrivals == \E n \in 1 .. DefaultSize : RecordArrives(n)

Next ==
    \/ \E n \in Lengths : BrokerSends(n)
    \/ Arrivals \/ EventThread \/ EventsStop \/ EventsResume

Spec == Init /\ [][Next]_vars

\* The network delivers, and the event thread runs when it is not kept from it.
FairSpec == Spec /\ WF_vars(Arrivals) /\ WF_vars(EventThread)
-----------------------------------------------------------------------------
(* Properties. *)

\* What is handed on are the messages of the broker, whole and in order.
MessagesIntact == IsPrefix(out, sent)

\* Every message is handed on as long as the event thread reads: the buffer always
\* has room for the next byte, as a read of length 0 would take the connection for
\* closed.  A message waits only while the rest of a record lies in the TLS library,
\* which no select reports, or while another connection keeps the thread from
\* reading: after a RemoveTTS select fails until a new connection is made.
MessagesDelivered == []<>(out = sent \/ blind \/ (connected /\ pending # <<>>))
=============================================================================
