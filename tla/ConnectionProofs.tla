---------------------------- MODULE ConnectionProofs --------------------------
(* Proofs about module Connection, for every set of message objects: whichever *)
(* thread is at work, no handler meets an object that is gone, every message,  *)
(* buffer and closing is accounted for, and a message is encrypted once.       *)
(*                                                                             *)
(* The invariant has three parts: the types of the two objects, what relates   *)
(* the messages to them, and what relates the fields of the two objects (the   *)
(* life of a connection).  Each operation of connection.cpp gets a lemma on    *)
(* its types, one on the fields it leaves alone, and each action one on the    *)
(* invariant.                                                                  *)
EXTENDS Connection, FiniteSetTheorems, TLAPS

ConnSet == [state : States, socket : {"open", "closed", "deleted"},
            pendingRead : 0..1, pendingWrite : 0..1,
            readError : BOOLEAN, writeError : BOOLEAN, receivedFirst : BOOLEAN,
            reading : {"no", "header", "body"}, writing : Message \cup {NoMessage},
            readTimer : Timers, writeTimer : Timers,
            refCount : 0..Cardinality(Message),
            closeTasks : 0..1, releasing : BOOLEAN, stop : {"no", "posted", "done"}]

ProtoSet == [object : {"none", "alive", "deleted"}, linked : BOOLEAN,
             refCount : 0..Cardinality(Message), releasing : BOOLEAN,
             buffer : Message \cup {NoMessage}]

Types == conn \in ConnSet /\ proto \in ProtoSet

\* The messages: what is written is out, nothing is in both lists, and what is
\* not out is not encrypted (the objects are used again).
MessageInv ==
    /\ conn.writing # NoMessage => conn.writing \in used
    /\ autoSend \cap addQueue = {}
    /\ \A m \in Message \ used : sealed[m] = 0
    /\ SealedWhenWritten

Lists == /\ autoSend \subseteq used /\ addQueue \subseteq used /\ used \subseteq Message
         /\ old \subseteq used /\ sealed \in [Message -> 0..1] /\ fault = "none"

Messages == Lists /\ ObjectsOutliveMessages /\ BufferIsQueued /\ MessageInv

\* The life of a connection: while it is OPEN its socket is, a read is under way
\* and no error is known; while a write is pending its handler is due; the
\* protocol is linked until the closing task has been executed; and the network
\* thread deletes the socket when nothing can use it.
LinkInv ==
    /\ conn.state = "OPEN" =>
          /\ conn.socket = "open" /\ conn.reading # "no" /\ conn.pendingRead = 1
          /\ ~conn.readError /\ ~conn.writeError
          /\ conn.writing # NoMessage => conn.pendingWrite = 1
          /\ conn.receivedFirst => proto.linked
          /\ ~proto.linked => proto.object = "none"
    /\ conn.pendingWrite = 1 => conn.writing # NoMessage
    /\ conn.socket # "open" => conn.pendingWrite = 0
    /\ proto.linked => /\ proto.object = "alive" /\ ~proto.releasing
                       /\ conn.state \in {"OPEN", "REQUEST_CLOSE"}
    /\ proto.releasing => conn.state # "OPEN"
    /\ conn.releasing \/ conn.stop # "no" => conn.state = "CLOSED"
    /\ conn.releasing => conn.stop = "no"
    /\ conn.socket = "deleted" <=> conn.stop = "done"
    /\ conn.stop = "done" => conn.reading = "no"

Links == LinkInv /\ ClosingIsDriven

-------------------------------------------------------------------------------
(* The operations of connection.cpp keep the types.                            *)

\* What Close() relies on: a connection that may be asked to close has no task
\* for it yet.
Closable(c) == c.state \in {"OPEN", "CLOSING"} => c.closeTasks = 0

\* close() adds the one task a connection may have.
LEMMA CloseType ==
    ASSUME NEW c \in ConnSet, Closable(c)
    PROVE  Close(c) \in ConnSet
<1>1. CASE c.state \in {"CLOSED", "REQUEST_CLOSE"}
  BY <1>1 DEF Close
<1>2. CASE c.state \in {"OPEN", "CLOSING"}
  <2> DEFINE d == [c EXCEPT !.state = "REQUEST_CLOSE"]
  <2>1. d \in ConnSet /\ d.closeTasks = 0
    BY <1>2 DEF ConnSet, States, Closable
  <2> HIDE DEF d
  <2>2. [d EXCEPT !.closeTasks = @ + 1] \in ConnSet
    BY <2>1 DEF ConnSet
  <2> QED
    BY <1>2, <2>2 DEF Close, d
<1> QED
  BY <1>1, <1>2 DEF ConnSet, States

\* closeSocket() keeps the types.
LEMMA CloseSocketType ==
    ASSUME NEW c \in ConnSet
    PROVE  CloseSocket(c) \in ConnSet
<1> DEFINE d == [c EXCEPT !.socket = "closed"]
           e == [d EXCEPT !.pendingRead = 0]
<1>1. d \in ConnSet
  BY DEF ConnSet
<1> HIDE DEF d
<1>2. e \in ConnSet
  BY <1>1 DEF ConnSet
<1> HIDE DEF e
<1>3. [e EXCEPT !.pendingWrite = 0] \in ConnSet
  BY <1>2 DEF ConnSet
<1> QED
  BY <1>3 DEF CloseSocket, d, e

\* async_read is started when no read is pending.
LEMMA ReadType ==
    ASSUME NEW c \in ConnSet, NEW part \in {"header", "body"}, c.pendingRead = 0
    PROVE  StartRead(c, part) \in ConnSet
<1> DEFINE d == [c EXCEPT !.pendingRead = @ + 1]
           e == [d EXCEPT !.reading = part]
<1>1. d \in ConnSet
  BY DEF ConnSet
<1> HIDE DEF d
<1>2. e \in ConnSet
  BY <1>1 DEF ConnSet
<1> HIDE DEF e
<1>3. [e EXCEPT !.readTimer = @ \cup {"armed"}] \in ConnSet
  BY <1>2 DEF ConnSet, Timers
<1> QED
  BY <1>3 DEF StartRead, d, e

\* releaseConnection() keeps the types, tried again or not.
LEMMA ReleaseType ==
    ASSUME NEW c \in ConnSet
    PROVE  ReleaseConnection(c) \in ConnSet
<1> DEFINE d == [c EXCEPT !.releasing = FALSE]
<1>1. [c EXCEPT !.releasing = TRUE] \in ConnSet
  BY DEF ConnSet
<1>2. d \in ConnSet
  BY DEF ConnSet
<1> HIDE DEF d
<1>3. [d EXCEPT !.stop = "posted"] \in ConnSet
  BY <1>2 DEF ConnSet
<1> QED
  BY <1>1, <1>3 DEF ReleaseConnection, d

\* closeConnection() keeps the types.
LEMMA CloseConnectionType ==
    ASSUME NEW c \in ConnSet
    PROVE  CloseConnection(c) \in ConnSet
<1> DEFINE d == [c EXCEPT !.state = "CLOSING"]
           e == ReleaseConnection(CloseSocket(d))
<1>1. d \in ConnSet
  BY DEF ConnSet, States
<1> HIDE DEF d
<1>2. e \in ConnSet
  BY <1>1, CloseSocketType, ReleaseType
<1> HIDE DEF e
<1>3. [e EXCEPT !.state = "CLOSED"] \in ConnSet
  BY <1>2 DEF ConnSet, States
<1> QED
  BY <1>1, <1>3 DEF CloseConnection, d, e

\* So does the end of a read, with or without an error.
LEMMA AfterReadType ==
    ASSUME conn \in ConnSet, Closable(conn), NEW result \in {"ok", "error", "aborted"}
    PROVE  AfterRead(result) \in ConnSet
<1> DEFINE d == [conn EXCEPT !.readTimer = @ \ {"armed"}]
           e == [d EXCEPT !.reading = "no"]
           f == IF result = "aborted" THEN e ELSE Close(e)
<1>1. d \in ConnSet /\ Closable(d)
  BY DEF ConnSet, Timers, Closable
<1> HIDE DEF d
<1>2. e \in ConnSet /\ Closable(e)
  BY <1>1 DEF ConnSet, Closable
<1> HIDE DEF e
<1>3. f \in ConnSet
  BY <1>2, CloseType
<1> HIDE DEF f
<1>4. [f EXCEPT !.readError = TRUE] \in ConnSet
  BY <1>3 DEF ConnSet
<1>5. AfterRead(result) = IF result = "ok" THEN e ELSE [f EXCEPT !.readError = TRUE]
  BY DEF AfterRead, HandleReadError, d, e, f
<1> QED
  BY <1>2, <1>4, <1>5

\* Connection::send() keeps the types.
LEMMA SentType ==
    ASSUME NEW c \in ConnSet, Closable(c), NEW m \in Message
    PROVE  Sent(c, m) \in ConnSet
<1> DEFINE d == [c EXCEPT !.pendingWrite = @ + 1]
           e == [d EXCEPT !.writing = m]
<1>1. CASE Verdict(c) = "written"
  <2>1. d \in ConnSet
    BY <1>1 DEF ConnSet, Verdict
  <2> HIDE DEF d
  <2>2. e \in ConnSet
    BY <2>1 DEF ConnSet
  <2> HIDE DEF e
  <2>3. [e EXCEPT !.writeTimer = @ \cup {"armed"}] \in ConnSet
    BY <2>2 DEF ConnSet, Timers
  <2> QED
    BY <1>1, <2>3 DEF Sent, d, e
<1>2. CASE Verdict(c) = "closed"
  BY <1>2, CloseType DEF Sent
<1>3. CASE Verdict(c) \notin {"written", "closed"}
  BY <1>3 DEF Sent
<1> QED
  BY <1>1, <1>2, <1>3

-------------------------------------------------------------------------------
(* What the handlers have in common.                                           *)

\* A step that leaves the messages and their counts alone, and does not delete an
\* object that they need, keeps what is said of them.
LEMMA QuietStep ==
    ASSUME Types, Messages, UNCHANGED <<autoSend, addQueue, used, sealed, old, fault>>,
           conn'.refCount = conn.refCount, conn'.writing \in {conn.writing, NoMessage},
           proto'.refCount = proto.refCount, proto'.buffer = proto.buffer,
           used # {} => conn'.stop = conn.stop /\ proto'.object = proto.object
    PROVE  Messages'
<1>1. Lists' /\ BufferIsQueued'
  BY DEF Messages, Lists, BufferIsQueued
<1>2. ObjectsOutliveMessages'
  BY DEF Messages, ObjectsOutliveMessages
<1>3. MessageInv'
  BY ConnectionAssumption DEF Messages, MessageInv, SealedWhenWritten
<1> QED
  BY <1>1, <1>2, <1>3 DEF Messages

\* d is c in all that a request to close leaves alone; d is c as it was, or c
\* asked to close, if it is not asked or closed yet.
Same(d, c) ==
    /\ d.socket = c.socket /\ d.pendingRead = c.pendingRead /\ d.pendingWrite = c.pendingWrite
    /\ d.writeError = c.writeError /\ d.receivedFirst = c.receivedFirst
    /\ d.writing = c.writing /\ d.refCount = c.refCount
    /\ d.releasing = c.releasing /\ d.stop = c.stop

Unasked(d, c) == Same(d, c) /\ d.state = c.state /\ d.closeTasks = c.closeTasks

Asked(d, c) == /\ Same(d, c)
               /\ c.state \in {"CLOSED", "REQUEST_CLOSE"} => Unasked(d, c)
               /\ c.state \in {"OPEN", "CLOSING"} =>
                     d.state = "REQUEST_CLOSE" /\ d.closeTasks = c.closeTasks + 1

\* The types of the fields of a connection.
LEMMA ConnFields ==
    ASSUME NEW c \in ConnSet
    PROVE  /\ c.state \in States /\ c.closeTasks \in 0..1
           /\ c.pendingRead \in 0..1 /\ c.pendingWrite \in 0..1
           /\ c.readError \in BOOLEAN /\ c.writeError \in BOOLEAN /\ c.receivedFirst \in BOOLEAN
           /\ c.releasing \in BOOLEAN /\ c.stop \in {"no", "posted", "done"}
BY DEF ConnSet

\* ClosingIsDriven, case by case.
LEMMA DrivenCases ==
    ASSUME NEW c \in ConnSet
    PROVE  (CASE c.state = "OPEN"          -> c.closeTasks = 0
              [] c.state = "REQUEST_CLOSE" -> c.closeTasks = 1
              [] c.state = "CLOSING"       -> c.closeTasks = 0 /\ c.writing # NoMessage
              [] c.state = "CLOSED"        -> c.releasing \/ c.stop # "no")
           <=> /\ c.state \in {"OPEN", "CLOSING"} => c.closeTasks = 0
               /\ c.state = "REQUEST_CLOSE" => c.closeTasks = 1
               /\ c.state = "CLOSING" => c.writing # NoMessage
               /\ c.state = "CLOSED" => c.releasing \/ c.stop # "no"
BY DEF ConnSet, States

\* close() touches the state and the task, nothing else.
LEMMA CloseFields ==
    ASSUME NEW c \in ConnSet
    PROVE  /\ Asked(Close(c), c)
           /\ Close(c).reading = c.reading /\ Close(c).readError = c.readError
BY DEF Close, Asked, Unasked, Same, ConnSet

\* The end of a read: only an error that is not an abort asks for the closing.
LEMMA AfterReadFields ==
    ASSUME conn \in ConnSet, NEW result \in {"ok", "error", "aborted"}
    PROVE  LET c == AfterRead(result)
           IN /\ c.reading = "no"
              /\ result = "ok" => Unasked(c, conn) /\ c.readError = conn.readError
              /\ result = "error" => Asked(c, conn) /\ c.readError
              /\ result = "aborted" => Unasked(c, conn) /\ c.readError
BY DEF AfterRead, HandleReadError, Close, Asked, Unasked, Same, ConnSet

\* ClosingIsDriven, case by case, of a connection c; and all of it but what it
\* says of a connection that waits for the end of a write.
Drivable(c) == /\ c.state \in {"OPEN", "CLOSING"} => c.closeTasks = 0
               /\ c.state = "REQUEST_CLOSE" => c.closeTasks = 1
               /\ c.state = "CLOSED" => c.releasing \/ c.stop # "no"
Driven(c) == Drivable(c) /\ (c.state = "CLOSING" => c.writing # NoMessage)

\* The connection is driven (ClosingIsDriven).
LEMMA DrivenConn == ASSUME Types, Links PROVE Driven(conn)
BY DrivenCases DEF Types, Links, ClosingIsDriven, Driven, Drivable

\* To ask for the closing keeps the connection driven.
LEMMA AskedDriven ==
    ASSUME NEW c \in ConnSet, Drivable(c)
    PROVE  /\ Close(c) \in ConnSet /\ Driven(Close(c)) /\ Asked(Close(c), c)
           /\ Close(c).state \in {"REQUEST_CLOSE", "CLOSED"}
           /\ Close(c).reading = c.reading /\ Close(c).readError = c.readError
<1>1. Close(c) \in ConnSet
  BY CloseType DEF Closable, Drivable
<1>2. Asked(Close(c), c)
  BY CloseFields
<1>3. Driven(Close(c)) /\ Close(c).state \in {"REQUEST_CLOSE", "CLOSED"}
  BY <1>2, ConnFields DEF Driven, Drivable, Asked, Unasked, Same, States
<1> QED
  BY <1>1, <1>2, <1>3, CloseFields

\* The links hold after a handler that has asked for the closing.
LEMMA AskedLinks ==
    ASSUME Types, Links, proto'.linked = proto.linked, proto'.object = proto.object,
           proto'.releasing = proto.releasing, conn' \in ConnSet, Driven(conn'),
           conn.state \in {"OPEN", "REQUEST_CLOSE", "CLOSING"} => conn'.state = "REQUEST_CLOSE",
           conn.state = "CLOSED" => conn'.state = "CLOSED",
           conn'.releasing = conn.releasing, conn'.stop = conn.stop,
           conn'.pendingWrite = 1 => conn'.writing # NoMessage,
           conn'.socket # "open" => conn'.pendingWrite = 0,
           conn'.socket = "deleted" <=> conn.socket = "deleted",
           conn'.reading \in {conn.reading, "no"}
    PROVE  Links'
<1>1. ClosingIsDriven'
  BY DrivenCases DEF ClosingIsDriven, Driven, Drivable
<1>2. conn.state \in States
  BY ConnFields DEF Types
<1>3. LinkInv'
  BY <1>2 DEF Links, LinkInv, States
<1> QED
  BY <1>1, <1>3 DEF Links

\* The links hold after a handler that leaves an open connection open and its
\* write alone.
LEMMA OpenLinks ==
    ASSUME Types, Links, proto'.linked = proto.linked, proto'.object = proto.object,
           proto'.releasing = proto.releasing, conn' \in ConnSet, conn.state = "OPEN",
           Unasked(conn', conn), conn'.reading # "no", ~conn'.readError
    PROVE  Links'
<1>1. ClosingIsDriven'
  BY DrivenConn, DrivenCases DEF ClosingIsDriven, Driven, Drivable, Unasked, Same
<1>2. LinkInv'
  BY DEF Links, LinkInv, Unasked, Same
<1> QED
  BY <1>1, <1>2 DEF Links

\* A read has ended.
LEMMA AfterReadInv ==
    ASSUME Types, Links, NEW result \in Results
    PROVE  LET c == AfterRead(result)
           IN /\ c \in ConnSet /\ Driven(c) /\ c.reading = "no"
              /\ Asked(c, conn) \/ Unasked(c, conn)
              /\ Usable(c) => result = "ok" /\ Unasked(c, conn)
<1> DEFINE c == AfterRead(result)
<1>0. result \in {"ok", "error", "aborted"} /\ (result = "aborted" => conn.socket # "open")
  BY DEF Results
<1>1. Driven(conn)
  BY DrivenConn
<1>2. c \in ConnSet
  BY <1>0, <1>1, AfterReadType DEF Types, Driven, Drivable, Closable
<1>3. /\ c.reading = "no"
      /\ result = "ok" => Unasked(c, conn) /\ c.readError = conn.readError
      /\ result = "error" => Asked(c, conn) /\ c.readError
      /\ result = "aborted" => Unasked(c, conn) /\ c.readError
  BY <1>0, AfterReadFields DEF Types
<1> HIDE DEF c
<1>6. Driven(c)
  BY <1>0, <1>1, <1>2, <1>3, ConnFields DEF Driven, Drivable, Asked, Unasked, Same, Types, States
<1>7. Usable(c) => result = "ok"
  BY <1>0, <1>3 DEF Usable
<1> QED
  BY <1>0, <1>2, <1>3, <1>6, <1>7 DEF c

\* A read has ended and its handler asks for the closing.
LEMMA ReadFails ==
    ASSUME Types, Messages, Links, NEW result \in Results, conn' = Close(AfterRead(result)),
           UNCHANGED <<proto, autoSend, addQueue, used, sealed, old, fault>>
    PROVE  Types' /\ Messages' /\ Links'
<1> DEFINE c == AfterRead(result)
<1>1. /\ c \in ConnSet /\ Driven(c) /\ c.reading = "no"
      /\ Asked(c, conn) \/ Unasked(c, conn)
  BY AfterReadInv
<1> HIDE DEF c
<1>2. /\ conn' \in ConnSet /\ Driven(conn') /\ Asked(conn', c) /\ conn'.reading = "no"
  BY <1>1, AskedDriven DEF c, Driven
<1>3. Links'
  BY <1>1, <1>2, AskedLinks, ConnFields DEF Asked, Unasked, Same, Types, States, Links, LinkInv
<1>4. Messages'
  BY <1>1, <1>2, QuietStep, ConnFields DEF Asked, Unasked, Same, Types, States
<1> QED
  BY <1>2, <1>3, <1>4 DEF Types

\* parseHeader() keeps the invariant.
LEMMA ParseHeaderStep ==
    ASSUME Types, Messages, Links, NEW result, ParseHeader(result)
    PROVE  Types' /\ Messages' /\ Links'
<1> DEFINE c == AfterRead(result)
           d == [c EXCEPT !.pendingRead = @ - 1]
<1>1. /\ result \in Results
      /\ conn' = IF Usable(c) THEN StartRead(d, "body") ELSE Close(c)
      /\ UNCHANGED <<proto, autoSend, addQueue, used, sealed, old, fault>>
  BY DEF ParseHeader
<1>2. CASE Usable(c)
  <2>1. c \in ConnSet /\ Unasked(c, conn) /\ ~c.readError
    BY <1>1, <1>2, AfterReadInv DEF Usable
  <2> HIDE DEF c
  <2>2. conn.state = "OPEN" /\ conn.pendingRead = 1 /\ c.pendingRead = 1
    BY <1>2, <2>1 DEF Usable, Unasked, Same, Links, LinkInv
  <2>3. d \in ConnSet /\ d.pendingRead = 0
    BY <2>1, <2>2 DEF ConnSet
  <2>4. conn' \in ConnSet
    BY <1>1, <1>2, <2>3, ReadType
  <2>5. conn'.pendingRead = 1 /\ conn'.reading = "body" /\ conn'.readError = c.readError
    BY <1>1, <1>2, <2>1, <2>2 DEF StartRead, ConnSet
  <2>6. Unasked([conn' EXCEPT !.pendingRead = c.pendingRead], c)
    BY <1>1, <1>2, <2>1, <2>2 DEF StartRead, ConnSet, Unasked, Same
  <2>7. Unasked(conn', conn)
    BY <2>1, <2>2, <2>4, <2>5, <2>6 DEF Unasked, Same, ConnSet
  <2>8. Links'
    BY <1>1, <2>1, <2>2, <2>4, <2>5, <2>7, OpenLinks
  <2>9. Messages'
    BY <1>1, <2>7, QuietStep DEF Unasked, Same
  <2> QED
    BY <1>1, <2>4, <2>8, <2>9 DEF Types
<1>3. CASE ~Usable(c)
  BY <1>1, <1>3, ReadFails
<1> QED
  BY <1>2, <1>3

\* parsePacket() keeps the invariant when the read has failed.
LEMMA ParsePacketFailsStep ==
    ASSUME Types, Messages, Links, NEW result, ParsePacketFails(result)
    PROVE  Types' /\ Messages' /\ Links'
BY ReadFails DEF ParsePacketFails

\* closeSocket() touches the socket and what is pending on it, nothing else.
LEMMA CloseSocketFields ==
    ASSUME NEW c \in ConnSet
    PROVE  LET d == CloseSocket(c)
           IN /\ d.state = c.state /\ d.closeTasks = c.closeTasks
              /\ d.writeError = c.writeError /\ d.receivedFirst = c.receivedFirst
              /\ d.reading = c.reading /\ d.readError = c.readError
              /\ d.writing = c.writing /\ d.refCount = c.refCount
              /\ d.releasing = c.releasing /\ d.stop = c.stop
              /\ d.socket # "open" /\ (d.socket = "deleted" <=> c.socket = "deleted")
              /\ d.pendingWrite = IF c.socket = "open" THEN 0 ELSE c.pendingWrite
BY DEF CloseSocket, ConnSet

\* A handler closes the socket and asks for the closing.
LEMMA Hangs ==
    ASSUME Types, Messages, Links, NEW c \in ConnSet, Drivable(c), conn' = Close(CloseSocket(c)),
           UNCHANGED <<proto, autoSend, addQueue, used, sealed, old, fault>>,
           c.state \in {conn.state, "REQUEST_CLOSE"},
           conn.state \in {"CLOSED", "REQUEST_CLOSE"} => c.state = conn.state,
           c.socket = conn.socket, c.releasing = conn.releasing, c.stop = conn.stop,
           c.refCount = conn.refCount, c.reading = conn.reading,
           c.pendingWrite = conn.pendingWrite, c.writing \in {conn.writing, NoMessage}
    PROVE  Types' /\ Messages' /\ Links'
<1> DEFINE d == CloseSocket(c)
<1>1. d \in ConnSet /\ Drivable(d)
  BY CloseSocketType, CloseSocketFields DEF Drivable
<1>2. /\ d.state = c.state /\ d.closeTasks = c.closeTasks /\ d.reading = c.reading
      /\ d.writing = c.writing /\ d.refCount = c.refCount
      /\ d.releasing = c.releasing /\ d.stop = c.stop
      /\ d.socket # "open" /\ (d.socket = "deleted" <=> c.socket = "deleted")
      /\ d.pendingWrite = 0
  BY CloseSocketFields DEF Links, LinkInv
<1> HIDE DEF d
<1>3. /\ conn' \in ConnSet /\ Driven(conn') /\ Asked(conn', d)
      /\ conn'.state \in {"REQUEST_CLOSE", "CLOSED"} /\ conn'.reading = d.reading
  BY <1>1, AskedDriven DEF d
<1>4. /\ conn'.releasing = conn.releasing /\ conn'.stop = conn.stop /\ conn'.refCount = conn.refCount
      /\ conn'.writing \in {conn.writing, NoMessage} /\ conn'.reading = conn.reading
      /\ conn'.pendingWrite = 0 /\ (conn'.socket = "deleted" <=> conn.socket = "deleted")
  BY <1>2, <1>3 DEF Asked, Unasked, Same
<1>5. /\ conn.state \in {"OPEN", "REQUEST_CLOSE", "CLOSING"} => conn'.state = "REQUEST_CLOSE"
      /\ conn.state = "CLOSED" => conn'.state = "CLOSED"
  BY <1>2, <1>3 DEF Asked, Unasked
<1>6. Links'
  BY <1>3, <1>4, <1>5, AskedLinks
<1>7. Messages'
  BY <1>4, QuietStep
<1> QED
  BY <1>3, <1>6, <1>7 DEF Types

\* onWriteOperation() keeps the invariant: the message it was about still counts,
\* so that the socket is not deleted.
LEMMA OnWriteStep ==
    ASSUME Types, Messages, Links, NEW result, OnWrite(result)
    PROVE  Types' /\ Messages' /\ Links'
<1> DEFINE b == [conn EXCEPT !.writeTimer = @ \ {"armed"}]
           c == [b EXCEPT !.writing = NoMessage]
           d == IF result = "ok" THEN c ELSE HandleWriteError(c, result = "aborted")
<1>1. /\ result \in Results /\ conn.writing # NoMessage
      /\ IF d.state # "OPEN" \/ d.writeError
         THEN conn' = Close(CloseSocket(d)) /\ fault' = SocketUse(d)
         ELSE conn' = [d EXCEPT !.pendingWrite = @ - 1] /\ UNCHANGED fault
      /\ UNCHANGED <<proto, autoSend, addQueue, used, sealed, old>>
  BY DEF OnWrite
<1>2. b \in ConnSet
  BY DEF Types, ConnSet, Timers
<1>3. c \in ConnSet
  <2> HIDE DEF b
  <2> QED
    BY <1>2 DEF ConnSet
<1>4. /\ c.state = conn.state /\ c.closeTasks = conn.closeTasks /\ c.socket = conn.socket
      /\ c.pendingRead = conn.pendingRead /\ c.pendingWrite = conn.pendingWrite
      /\ c.readError = conn.readError /\ c.writeError = conn.writeError
      /\ c.receivedFirst = conn.receivedFirst /\ c.reading = conn.reading
      /\ c.refCount = conn.refCount /\ c.releasing = conn.releasing /\ c.stop = conn.stop
      /\ c.writing = NoMessage
  BY DEF Types, ConnSet
<1>5. Drivable(c)
  BY DrivenConn, <1>4 DEF Driven, Drivable
<1>6. conn.stop # "done" /\ c.socket # "deleted"
  BY <1>1, <1>4 DEF Links, LinkInv, Messages, MessageInv, ObjectsOutliveMessages
<1>7. conn.state = "OPEN" => conn.pendingWrite = 1 /\ conn.socket = "open"
  BY <1>1 DEF Links, LinkInv
<1> HIDE DEF c
<1>8. CASE result = "ok"
  <2>1. d = c
    BY <1>8
  <2> HIDE DEF d
  <2>2. CASE d.state # "OPEN" \/ d.writeError
    <3>1. UNCHANGED fault
      BY <1>1, <1>6, <2>1, <2>2 DEF SocketUse
    <3> QED
      BY <1>1, <1>3, <1>4, <1>5, <2>1, <2>2, <3>1, Hangs
  <2>3. CASE ~(d.state # "OPEN" \/ d.writeError)
    <3>1. conn' = [c EXCEPT !.pendingWrite = @ - 1] /\ UNCHANGED fault
      BY <1>1, <2>1, <2>3
    <3>2. conn.state = "OPEN" /\ c.pendingWrite = 1
      BY <1>4, <1>7, <2>1, <2>3
    <3>3. conn' \in ConnSet /\ conn'.pendingWrite = 0 /\ conn'.writing = NoMessage
      BY <1>3, <1>4, <3>1, <3>2 DEF ConnSet
    <3>4. /\ conn'.state = "OPEN" /\ conn'.closeTasks = conn.closeTasks /\ conn'.socket = conn.socket
          /\ conn'.pendingRead = conn.pendingRead
          /\ conn'.readError = conn.readError /\ conn'.writeError = conn.writeError
          /\ conn'.receivedFirst = conn.receivedFirst /\ conn'.reading = conn.reading
          /\ conn'.refCount = conn.refCount /\ conn'.releasing = conn.releasing
          /\ conn'.stop = conn.stop
      BY <1>3, <1>4, <3>1, <3>2 DEF ConnSet
    <3>5. ClosingIsDriven'
      BY <3>2, <3>3, <3>4, DrivenConn, DrivenCases DEF ClosingIsDriven, Driven, Drivable
    <3>6. LinkInv'
      BY <1>1, <3>2, <3>3, <3>4 DEF Links, LinkInv
    <3>7. Messages'
      BY <1>1, <3>1, <3>3, <3>4, QuietStep
    <3> QED
      BY <1>1, <3>3, <3>5, <3>6, <3>7 DEF Types, Links
  <2> QED
    BY <2>2, <2>3
<1>9. CASE result # "ok"
  <2> DEFINE e == IF result = "aborted" THEN c ELSE Close(c)
  <2>1. e \in ConnSet /\ Drivable(e) /\ e.reading = c.reading /\ (Asked(e, c) \/ Unasked(e, c))
    BY <1>3, <1>5, AskedDriven DEF Driven, Unasked, Same
  <2>2. d = [e EXCEPT !.writeError = TRUE]
    BY <1>9 DEF HandleWriteError
  <2> HIDE DEF d, e
  <2>3. d \in ConnSet /\ d.writeError
    BY <2>1, <2>2 DEF ConnSet
  <2>4. /\ d.state = e.state /\ d.closeTasks = e.closeTasks /\ d.socket = e.socket
        /\ d.pendingWrite = e.pendingWrite /\ d.reading = e.reading /\ d.writing = e.writing
        /\ d.refCount = e.refCount /\ d.releasing = e.releasing /\ d.stop = e.stop
    BY <2>1, <2>2 DEF ConnSet
  <2>5. /\ e.socket = c.socket /\ e.pendingWrite = c.pendingWrite /\ e.writing = c.writing
        /\ e.refCount = c.refCount /\ e.releasing = c.releasing /\ e.stop = c.stop
        /\ e.state \in {c.state, "REQUEST_CLOSE"}
        /\ c.state \in {"CLOSED", "REQUEST_CLOSE"} => e.state = c.state
    BY <1>3, <2>1, ConnFields DEF Asked, Unasked, Same, States
  <2>6. UNCHANGED fault
    BY <1>1, <1>6, <2>3, <2>4, <2>5 DEF SocketUse
  <2>7. conn' = Close(CloseSocket(d))
    BY <1>1, <2>3
  <2>8. Drivable(d)
    BY <2>1, <2>4 DEF Drivable
  <2> QED
    BY <1>1, <1>4, <2>1, <2>3, <2>4, <2>5, <2>6, <2>7, <2>8, Hangs
<1> QED
  BY <1>8, <1>9

\* A timer that runs off keeps the invariant.
LEMMA TimerSteps ==
    ASSUME Types, Messages, Links, ReadTimerExpires \/ WriteTimerExpires
    PROVE  Types' /\ Messages' /\ Links'
<1>1. [conn EXCEPT !.readTimer = {"queued"}] \in ConnSet
  BY DEF Types, ConnSet, Timers
<1>2. [conn EXCEPT !.writeTimer = {"queued"}] \in ConnSet
  BY DEF Types, ConnSet, Timers
<1>3. Types'
  BY <1>1, <1>2 DEF Types, ReadTimerExpires, WriteTimerExpires
<1>4. Messages'
  <2>1. conn'.refCount = conn.refCount /\ conn'.writing = conn.writing /\ conn'.stop = conn.stop
    BY DEF ReadTimerExpires, WriteTimerExpires, Types, ConnSet
  <2> QED
    BY <2>1, QuietStep DEF ReadTimerExpires, WriteTimerExpires
<1>5. Links'
  <2>1. /\ \/ conn' = [conn EXCEPT !.readTimer = {"queued"}]
           \/ conn' = [conn EXCEPT !.writeTimer = {"queued"}]
        /\ proto' = proto
    BY DEF ReadTimerExpires, WriteTimerExpires
  <2>2. /\ conn'.state = conn.state /\ conn'.socket = conn.socket
        /\ conn'.reading = conn.reading /\ conn'.pendingRead = conn.pendingRead
        /\ conn'.readError = conn.readError /\ conn'.writeError = conn.writeError
        /\ conn'.writing = conn.writing /\ conn'.pendingWrite = conn.pendingWrite
        /\ conn'.receivedFirst = conn.receivedFirst /\ conn'.closeTasks = conn.closeTasks
        /\ conn'.releasing = conn.releasing /\ conn'.stop = conn.stop
    BY <2>1 DEF Types, ConnSet
  <2>3. LinkInv'
    BY <2>1, <2>2 DEF Links, LinkInv
  <2>4. ClosingIsDriven'
    BY <2>2 DEF Links, ClosingIsDriven
  <2> QED
    BY <2>3, <2>4 DEF Links
<1> QED
  BY <1>3, <1>4, <1>5

\* A queued timeout handler, whose timer is taken off the connection in c.
LEMMA TimeoutStep ==
    ASSUME Types, Messages, Links, NEW c \in ConnSet, NEW condition, Timeout(c, condition),
           Unasked(c, conn), c.reading = conn.reading, c.readError = conn.readError
    PROVE  Types' /\ Messages' /\ Links'
<1>1. Driven(c)
  BY DrivenConn DEF Driven, Drivable, Unasked, Same
<1>2. CASE Owned /\ condition
  <2>1. conn.stop # "done"
    BY <1>2 DEF Owned, Links, LinkInv, Messages, ObjectsOutliveMessages
  <2>2. UNCHANGED fault
    BY <1>2, <2>1 DEF Timeout, SocketUse, Unasked, Same, Links, LinkInv
  <2> QED
    BY <1>1, <1>2, <2>2, Hangs DEF Timeout, Unasked, Same, Driven
<1>3. CASE ~(Owned /\ condition)
  <2>1. conn' = c /\ UNCHANGED <<proto, autoSend, addQueue, used, sealed, old, fault>>
    BY <1>3 DEF Timeout
  <2>2. ClosingIsDriven'
    BY <1>1, <2>1, DrivenCases DEF ClosingIsDriven, Driven, Drivable
  <2>3. LinkInv'
    BY <2>1 DEF Links, LinkInv, Unasked, Same
  <2>4. Messages'
    BY <2>1, QuietStep DEF Unasked, Same
  <2> QED
    BY <2>1, <2>2, <2>3, <2>4 DEF Types, Links
<1> QED
  BY <1>2, <1>3

\* onReadTimeout() and onWriteTimeout() keep the invariant.
LEMMA HandleTimeoutSteps ==
    ASSUME Types, Messages, Links, HandleReadTimeout \/ HandleWriteTimeout
    PROVE  Types' /\ Messages' /\ Links'
<1> DEFINE c == [conn EXCEPT !.readTimer = @ \ {"queued"}]
           d == [conn EXCEPT !.writeTimer = @ \ {"queued"}]
<1>1. /\ c \in ConnSet /\ Unasked(c, conn) /\ c.reading = conn.reading /\ c.readError = conn.readError
      /\ d \in ConnSet /\ Unasked(d, conn) /\ d.reading = conn.reading /\ d.readError = conn.readError
  BY DEF Types, ConnSet, Timers, Unasked, Same
<1>2. \/ Timeout(c, conn.pendingRead > 0 \/ conn.readError)
      \/ Timeout(d, conn.pendingWrite > 0 \/ conn.writeError)
  BY DEF HandleReadTimeout, HandleWriteTimeout
<1> HIDE DEF c, d
<1> QED
  BY <1>1, <1>2, TimeoutStep

\* onStop() keeps the invariant: no message is out.
LEMMA OnStopStep ==
    ASSUME Types, Messages, Links, OnStop
    PROVE  Types' /\ Messages' /\ Links'
<1> DEFINE c == [conn EXCEPT !.stop = "done"]
           d == [c EXCEPT !.socket = "deleted"]
           e == [d EXCEPT !.readTimer = @ \ {"armed"}]
<1>1. /\ conn.stop = "posted" /\ conn.reading = "no" 
      /\ conn' = [e EXCEPT !.writeTimer = @ \ {"armed"}]
      /\ UNCHANGED <<proto, autoSend, addQueue, used, sealed, old, fault>>
  BY DEF OnStop
<1>2. c \in ConnSet
  BY DEF Types, ConnSet
<1> HIDE DEF c
<1>3. d \in ConnSet
  BY <1>2 DEF ConnSet
<1> HIDE DEF d
<1>4. e \in ConnSet
  BY <1>3 DEF ConnSet, Timers
<1> HIDE DEF e
<1>5. conn' \in ConnSet
  BY <1>1, <1>4 DEF ConnSet, Timers
<1>6. /\ conn'.state = conn.state /\ conn'.closeTasks = conn.closeTasks /\ conn'.socket = "deleted"
      /\ conn'.pendingWrite = conn.pendingWrite /\ conn'.writing = conn.writing 
      /\ conn'.reading = conn.reading /\ conn'.refCount = conn.refCount
      /\ conn'.releasing = conn.releasing /\ conn'.stop = "done"
  BY DEF OnStop, Types, ConnSet
<1>7. conn.state = "CLOSED" /\ used = {} /\ conn.writing = NoMessage /\ conn.pendingWrite = 0
  BY <1>1, ConnFields DEF Types, Links, LinkInv, Messages, ObjectsOutliveMessages, MessageInv
<1>8. ClosingIsDriven'
  BY <1>5, <1>6, <1>7, DrivenCases DEF ClosingIsDriven
<1>9. LinkInv'
  BY <1>1, <1>6, <1>7 DEF Links, LinkInv
<1>10. Messages'
  BY <1>1, <1>6, <1>7, QuietStep
<1> QED
  BY <1>1, <1>5, <1>8, <1>9, <1>10 DEF Types, Links

\* A logout keeps the invariant.
LEMMA GameClosesStep ==
    ASSUME Types, Messages, Links, GameCloses
    PROVE  Types' /\ Messages' /\ Links'
<1>1. conn' = Close(conn) /\ UNCHANGED <<proto, autoSend, addQueue, used, sealed, old, fault>>
  BY DEF GameCloses
<1>2. /\ conn' \in ConnSet /\ Driven(conn') /\ Asked(conn', conn) /\ conn'.reading = conn.reading
  BY <1>1, AskedDriven, DrivenConn DEF Types, Driven
<1>3. Links'
  BY <1>1, <1>2, AskedLinks, ConnFields DEF Asked, Unasked, Same, Types, States, Links, LinkInv
<1>4. Messages'
  BY <1>1, <1>2, QuietStep, ConnFields DEF Asked, Unasked, Same, Types, States
<1> QED
  BY <1>1, <1>2, <1>3, <1>4 DEF Types

\* The number of messages that are out, when one is allocated or taken back.
LEMMA CountUp ==
    ASSUME Messages, NEW m \in Message \ used
    PROVE  /\ Cardinality(used) \in Nat /\ Cardinality(used \cup {m}) = Cardinality(used) + 1
           /\ Cardinality(used) + 1 \in 0..Cardinality(Message)
<1>1. used \subseteq Message /\ IsFiniteSet(used)
  BY ConnectionAssumption, FS_Subset DEF Messages, Lists
<1>2. Cardinality(used \cup {m}) = Cardinality(used) + 1 /\ Cardinality(used) \in Nat
  BY <1>1, FS_AddElement, FS_CardinalityType
<1>3. used \cup {m} \subseteq Message
  BY <1>1
<1>4. Cardinality(used \cup {m}) <= Cardinality(Message) /\ Cardinality(Message) \in Nat
  BY <1>3, ConnectionAssumption, FS_Subset, FS_CardinalityType
<1> QED
  BY <1>2, <1>4

\* The same when it is taken back.
LEMMA CountDown ==
    ASSUME Messages, NEW m \in used
    PROVE  /\ Cardinality(used) \in Nat /\ Cardinality(used \ {m}) = Cardinality(used) - 1
           /\ Cardinality(used) - 1 \in 0..Cardinality(Message)
<1>1. used \subseteq Message /\ IsFiniteSet(used)
  BY ConnectionAssumption, FS_Subset DEF Messages, Lists
<1>2. Cardinality(used \ {m}) = Cardinality(used) - 1 /\ Cardinality(used) \in Nat
  BY <1>1, FS_RemoveElement, FS_CardinalityType
<1>3. Cardinality(used \ {m}) \in Nat /\ Cardinality(used) <= Cardinality(Message)
      /\ Cardinality(Message) \in Nat
  BY <1>1, FS_RemoveElement, FS_Subset, FS_CardinalityType, ConnectionAssumption
<1> QED
  BY <1>2, <1>3

\* The counts are 0 just when no message is out.
LEMMA NoneOut ==
    ASSUME Types, Messages
    PROVE  /\ conn.refCount > 0 <=> used # {}
           /\ proto.refCount > 0 <=> used # {}
<1>1. IsFiniteSet(used)
  BY ConnectionAssumption, FS_Subset DEF Messages, Lists
<1>2. Cardinality(used) \in Nat /\ (Cardinality(used) = 0 <=> used = {})
  BY <1>1, FS_CardinalityType, FS_EmptySet
<1> QED
  BY <1>2 DEF Messages, ObjectsOutliveMessages

\* releaseConnection() touches the retry and the posted onStop(), nothing else.
LEMMA ReleaseFields ==
    ASSUME NEW c \in ConnSet
    PROVE  LET d == ReleaseConnection(c)
           IN /\ d.state = c.state /\ d.closeTasks = c.closeTasks
              /\ d.writeError = c.writeError /\ d.receivedFirst = c.receivedFirst
              /\ d.reading = c.reading /\ d.readError = c.readError
              /\ d.writing = c.writing /\ d.refCount = c.refCount
              /\ d.socket = c.socket /\ d.pendingWrite = c.pendingWrite
              /\ IF c.refCount > 0 THEN d.releasing /\ d.stop = c.stop
                 ELSE ~d.releasing /\ d.stop = "posted"
BY DEF ReleaseConnection, ConnSet

\* The retry of releaseConnection() keeps the invariant.
LEMMA RetryReleaseConnectionStep ==
    ASSUME Types, Messages, Links, RetryReleaseConnection
    PROVE  Types' /\ Messages' /\ Links'
<1>1. /\ conn.releasing /\ conn' = ReleaseConnection(conn)
      /\ UNCHANGED <<proto, autoSend, addQueue, used, sealed, old, fault>>
  BY DEF RetryReleaseConnection
<1>2. conn' \in ConnSet
  BY <1>1, ReleaseType DEF Types
<1>3. conn.state = "CLOSED" /\ conn.stop = "no"
  BY <1>1 DEF Links, LinkInv
<1>4. /\ conn'.state = conn.state /\ conn'.closeTasks = conn.closeTasks
      /\ conn'.reading = conn.reading /\ conn'.writing = conn.writing
      /\ conn'.refCount = conn.refCount
      /\ conn'.socket = conn.socket /\ conn'.pendingWrite = conn.pendingWrite
      /\ IF conn.refCount > 0 THEN conn'.releasing /\ conn'.stop = conn.stop
         ELSE ~conn'.releasing /\ conn'.stop = "posted"
  BY <1>1, ReleaseFields DEF Types
<1>5. ClosingIsDriven'
  BY <1>2, <1>3, <1>4, DrivenCases DEF ClosingIsDriven
<1>6. LinkInv'
  BY <1>1, <1>3, <1>4 DEF Links, LinkInv
<1>7. Messages'
  BY <1>1, <1>4, NoneOut, QuietStep
<1> QED
  BY <1>1, <1>2, <1>5, <1>6, <1>7 DEF Types, Links

\* releaseProtocol() touches the object and its retry, nothing else.
LEMMA ReleaseProtocolFields ==
    ASSUME NEW p \in ProtoSet
    PROVE  LET q == ReleaseProtocol(p)
           IN /\ q \in ProtoSet
              /\ q.linked = p.linked /\ q.refCount = p.refCount /\ q.buffer = p.buffer
              /\ IF p.refCount > 0 THEN q.releasing /\ q.object = p.object
                 ELSE ~q.releasing /\ q.object = "deleted"
<1> DEFINE r == [p EXCEPT !.releasing = FALSE]
<1>1. [p EXCEPT !.releasing = TRUE] \in ProtoSet /\ r \in ProtoSet
  BY DEF ProtoSet
<1>2. [r EXCEPT !.object = "deleted"] \in ProtoSet
  <2> HIDE DEF r
  <2> QED
    BY <1>1 DEF ProtoSet
<1>3. ReleaseProtocol(p) \in ProtoSet
  BY <1>1, <1>2 DEF ReleaseProtocol
<1> QED
  BY <1>3 DEF ReleaseProtocol, ProtoSet

\* The retry of releaseProtocol() keeps the invariant.
LEMMA RetryReleaseProtocolStep ==
    ASSUME Types, Messages, Links, RetryReleaseProtocol
    PROVE  Types' /\ Messages' /\ Links'
<1>1. /\ proto.releasing /\ proto' = ReleaseProtocol(proto)
      /\ UNCHANGED <<conn, autoSend, addQueue, used, sealed, old, fault>>
  BY DEF RetryReleaseProtocol
<1>2. /\ proto' \in ProtoSet /\ proto'.linked = proto.linked
      /\ proto'.refCount = proto.refCount /\ proto'.buffer = proto.buffer
      /\ IF proto.refCount > 0 THEN proto'.releasing /\ proto'.object = proto.object
         ELSE ~proto'.releasing /\ proto'.object = "deleted"
  BY <1>1, ReleaseProtocolFields DEF Types
<1>3. Messages'
  BY <1>1, <1>2, NoneOut, QuietStep
<1>4. ClosingIsDriven'
  BY <1>1 DEF Links, ClosingIsDriven
<1>5. LinkInv'
  BY <1>1, <1>2 DEF Links, LinkInv
<1> QED
  BY <1>1, <1>2, <1>3, <1>4, <1>5 DEF Types, Links

\* The task that close() has added keeps the invariant: the closing goes on with
\* the end of a write or with the retries.
LEMMA CloseConnectionTaskStep ==
    ASSUME Types, Messages, Links, CloseConnectionTask
    PROVE  Types' /\ Messages' /\ Links'
<1> DEFINE c == [conn EXCEPT !.closeTasks = @ - 1]
<1>1. conn.closeTasks = 1 /\ UNCHANGED <<autoSend, addQueue, used, sealed, old, fault>>
  BY ConnFields DEF CloseConnectionTask, Types
<1>2. c \in ConnSet /\ Same(c, conn) /\ c.state = conn.state /\ c.closeTasks = 0
      /\ c.reading = conn.reading /\ c.readError = conn.readError
  BY <1>1 DEF Types, ConnSet, Same
<1>3. CASE conn.state # "REQUEST_CLOSE"
  <2>1. conn' = c /\ UNCHANGED proto
    BY <1>3 DEF CloseConnectionTask
  <2>2. conn.state = "CLOSED"
    BY <1>1, <1>3, DrivenConn, ConnFields DEF Driven, Drivable, Types, States
  <2> HIDE DEF c
  <2>3. ClosingIsDriven'
    BY <1>2, <2>1, <2>2, DrivenCases, DrivenConn DEF ClosingIsDriven, Driven, Drivable, Same
  <2>4. LinkInv'
    BY <1>2, <2>1, <2>2 DEF Links, LinkInv, Same
  <2>5. Messages'
    BY <1>1, <1>2, <2>1, QuietStep DEF Same
  <2> QED
    BY <1>2, <2>1, <2>3, <2>4, <2>5 DEF Types, Links
<1>4. CASE conn.state = "REQUEST_CLOSE"
  <2>1. /\ conn' = CloseConnection(c)
        /\ proto' = IF proto.linked THEN ReleaseProtocol([proto EXCEPT !.linked = FALSE]) ELSE proto
    BY <1>4 DEF CloseConnectionTask, HasProtocol
  <2> HIDE DEF c
  <2>2. /\ proto' \in ProtoSet /\ ~proto'.linked
        /\ proto'.refCount = proto.refCount /\ proto'.buffer = proto.buffer
        /\ used # {} => proto'.object = proto.object
    <3> DEFINE p == [proto EXCEPT !.linked = FALSE]
    <3>1. p \in ProtoSet /\ ~p.linked /\ p.refCount = proto.refCount
          /\ p.buffer = proto.buffer /\ p.object = proto.object
      BY DEF Types, ProtoSet
    <3>2. proto.linked \in BOOLEAN
      BY DEF Types, ProtoSet
    <3> HIDE DEF p
    <3>3. CASE proto.linked
      BY <2>1, <3>1, <3>3, ReleaseProtocolFields, NoneOut DEF p
    <3>4. CASE ~proto.linked
      BY <2>1, <3>4 DEF Types
    <3> QED
      BY <3>3, <3>4
  <2>3. /\ ~conn.releasing /\ conn.stop = "no" /\ conn.socket # "deleted"
        /\ conn.pendingWrite > 0 => conn.writing # NoMessage
        /\ conn.socket # "open" => conn.pendingWrite = 0
        /\ conn.pendingWrite \in 0..1
    BY <1>4, ConnFields DEF Links, LinkInv, Types
  <2>4. conn' \in ConnSet
    BY <1>2, <2>1, CloseConnectionType
  <2>5. /\ conn'.writing = conn.writing /\ conn'.refCount = conn.refCount /\ conn'.reading = conn.reading
        /\ conn'.socket # "deleted" /\ conn'.stop \in {"no", "posted"}
        /\ conn'.pendingWrite = 1 => conn'.writing # NoMessage
        /\ conn'.socket # "open" => conn'.pendingWrite = 0
        /\ \/ /\ conn'.state = "CLOSING" /\ conn'.closeTasks = 0 /\ conn'.writing # NoMessage
              /\ ~conn'.releasing /\ conn'.stop = "no"
           \/ /\ conn'.state = "CLOSED" /\ (conn'.releasing \/ conn'.stop # "no")
              /\ conn'.releasing => conn'.stop = "no"
        /\ used # {} => conn'.stop = "no"
    <3> DEFINE d == [c EXCEPT !.state = "CLOSING"]
               e == CloseSocket(d)
               f == ReleaseConnection(e)
    <3>1. /\ d \in ConnSet /\ Same(d, c) /\ d.state = "CLOSING" /\ d.closeTasks = 0
          /\ d.reading = c.reading
      BY <1>2 DEF ConnSet, States, Same
    <3> HIDE DEF d
    <3>2. CASE c.pendingWrite > 0 /\ ~c.writeError
      <4>1. conn' = d
        BY <2>1, <3>2 DEF CloseConnection, d
      <4> QED
        BY <4>1, <1>2, <2>3, <3>1, <3>2 DEF Same
    <3>3. CASE ~(c.pendingWrite > 0 /\ ~c.writeError)
      <4>1. e \in ConnSet
        BY <3>1, CloseSocketType
      <4>2. /\ e.reading = conn.reading /\ e.writing = conn.writing /\ e.refCount = conn.refCount
            /\ e.releasing = conn.releasing /\ e.stop = conn.stop
            /\ e.socket # "open" /\ e.socket # "deleted" /\ e.pendingWrite = 0
        BY <1>2, <2>3, <3>1, CloseSocketFields DEF Same
      <4> HIDE DEF e
      <4>3. f \in ConnSet
        BY <4>1, ReleaseType
      <4>4. /\ f.reading = e.reading /\ f.writing = e.writing /\ f.refCount = e.refCount
            /\ f.socket = e.socket /\ f.pendingWrite = e.pendingWrite
            /\ IF e.refCount > 0 THEN f.releasing /\ f.stop = e.stop
               ELSE ~f.releasing /\ f.stop = "posted"
        BY <4>1, ReleaseFields
      <4> HIDE DEF f
      <4>5. conn' = [f EXCEPT !.state = "CLOSED"]
        BY <2>1, <3>3 DEF CloseConnection, d, e, f
      <4>6. /\ conn'.state = "CLOSED" /\ conn'.reading = f.reading /\ conn'.writing = f.writing
            /\ conn'.refCount = f.refCount /\ conn'.socket = f.socket
            /\ conn'.pendingWrite = f.pendingWrite /\ conn'.releasing = f.releasing
            /\ conn'.stop = f.stop
        BY <4>3, <4>5 DEF ConnSet
      <4> QED
        BY <2>3, <4>2, <4>4, <4>6, NoneOut
    <3> QED
      BY <3>2, <3>3
  <2>6. ClosingIsDriven'
    BY <2>4, <2>5, DrivenCases DEF ClosingIsDriven
  <2>7. LinkInv'
    BY <2>2, <2>5 DEF LinkInv
  <2>8. Messages'
    BY <1>1, <2>2, <2>3, <2>5, QuietStep
  <2> QED
    BY <2>2, <2>4, <2>6, <2>7, <2>8 DEF Types, Links
<1> QED
  BY <1>3, <1>4

\* internalReleaseMessage() keeps the invariant: nobody holds the message.
LEMMA TakeBackStep ==
    ASSUME Types, Messages, Links, NEW m \in Message, TakeBack(m)
    PROVE  Types' /\ Messages' /\ Links'
<1>1. /\ m \in used \ Held /\ used' = used \ {m} /\ old' = old \ {m}
      /\ sealed' = [sealed EXCEPT ![m] = 0]
      /\ conn' = [conn EXCEPT !.refCount = @ - 1]
      /\ proto' = [proto EXCEPT !.refCount = @ - 1]
      /\ UNCHANGED <<autoSend, addQueue>>
  BY DEF TakeBack
<1>2. fault' = fault
  BY <1>1 DEF TakeBack, ProtocolUse, Messages, ObjectsOutliveMessages
<1>3. Cardinality(used \ {m}) = Cardinality(used) - 1 /\ Cardinality(used) - 1 \in 0..Cardinality(Message)
  BY <1>1, CountDown
<1>4. conn.refCount - 1 \in 0..Cardinality(Message) /\ proto.refCount - 1 \in 0..Cardinality(Message)
      /\ conn.refCount - 1 = Cardinality(used') /\ proto.refCount - 1 = Cardinality(used')
  BY <1>1, <1>3 DEF Messages, ObjectsOutliveMessages
<1>5. conn' \in ConnSet /\ proto' \in ProtoSet
  BY <1>1, <1>4 DEF Types, ConnSet, ProtoSet
<1>6. /\ conn'.state = conn.state /\ conn'.closeTasks = conn.closeTasks
      /\ conn'.socket = conn.socket /\ conn'.pendingRead = conn.pendingRead
      /\ conn'.pendingWrite = conn.pendingWrite /\ conn'.readError = conn.readError
      /\ conn'.writeError = conn.writeError /\ conn'.receivedFirst = conn.receivedFirst
      /\ conn'.writing = conn.writing /\ conn'.reading = conn.reading
      /\ conn'.releasing = conn.releasing /\ conn'.stop = conn.stop
      /\ proto'.linked = proto.linked /\ proto'.object = proto.object
      /\ proto'.releasing = proto.releasing /\ proto'.buffer = proto.buffer
      /\ conn'.refCount = conn.refCount - 1 /\ proto'.refCount = proto.refCount - 1
  BY <1>1 DEF Types, ConnSet, ProtoSet
<1>7. Links'
  <2>1. ClosingIsDriven'
    BY <1>5, <1>6, DrivenConn, DrivenCases DEF ClosingIsDriven, Driven, Drivable
  <2>2. LinkInv'
    BY <1>6 DEF Links, LinkInv
  <2> QED
    BY <2>1, <2>2 DEF Links
<1>8. m \notin autoSend /\ m \notin addQueue /\ m # proto.buffer /\ m # conn.writing
  BY <1>1, ConnectionAssumption DEF Held
<1>9. Messages'
  <2>1. Lists'
    BY <1>1, <1>2, <1>8 DEF Messages, Lists
  <2>2. ObjectsOutliveMessages'
    BY <1>1, <1>4, <1>6 DEF Messages, ObjectsOutliveMessages
  <2>3. BufferIsQueued'
    BY <1>1, <1>6 DEF Messages, BufferIsQueued
  <2>4. MessageInv'
    BY <1>1, <1>6, <1>8 DEF Messages, MessageInv, SealedWhenWritten, Lists
  <2> QED
    BY <2>1, <2>2, <2>3, <2>4 DEF Messages
<1> QED
  BY <1>5, <1>7, <1>9 DEF Types

\* A new message in the protocol's buffer keeps the invariant.
LEMMA ProduceStep ==
    ASSUME Types, Messages, Links, NEW m \in Message, Produce(m)
    PROVE  Types' /\ Messages' /\ Links'
<1> DEFINE p == [proto EXCEPT !.buffer = m]
<1>1. /\ proto.linked /\ proto.buffer = NoMessage /\ m \notin used
      /\ used' = used \cup {m} /\ autoSend' = autoSend \cup {m}
      /\ conn' = [conn EXCEPT !.refCount = @ + 1]
      /\ proto' = [p EXCEPT !.refCount = @ + 1]
      /\ UNCHANGED <<addQueue, sealed, old, fault>>
  BY DEF Produce, Counted, HasProtocol
<1>2. /\ p \in ProtoSet /\ p.linked = proto.linked /\ p.object = proto.object
      /\ p.releasing = proto.releasing /\ p.buffer = m /\ p.refCount = proto.refCount
  BY DEF Types, ProtoSet
<1> HIDE DEF p
<1>3. /\ Cardinality(used \cup {m}) = Cardinality(used) + 1
      /\ Cardinality(used) + 1 \in 0..Cardinality(Message)
  BY <1>1, CountUp
<1>4. /\ conn.refCount + 1 = Cardinality(used') /\ p.refCount + 1 = Cardinality(used')
      /\ conn.refCount + 1 \in 0..Cardinality(Message) /\ p.refCount + 1 \in 0..Cardinality(Message)
  BY <1>1, <1>2, <1>3 DEF Messages, ObjectsOutliveMessages
<1>5. conn' \in ConnSet /\ proto' \in ProtoSet
  BY <1>1, <1>2, <1>4 DEF Types, ConnSet, ProtoSet
<1>6. /\ conn'.state = conn.state /\ conn'.closeTasks = conn.closeTasks
      /\ conn'.socket = conn.socket /\ conn'.pendingRead = conn.pendingRead
      /\ conn'.pendingWrite = conn.pendingWrite /\ conn'.readError = conn.readError
      /\ conn'.writeError = conn.writeError /\ conn'.receivedFirst = conn.receivedFirst
      /\ conn'.writing = conn.writing /\ conn'.reading = conn.reading
      /\ conn'.releasing = conn.releasing /\ conn'.stop = conn.stop
      /\ proto'.linked = proto.linked /\ proto'.object = proto.object
      /\ proto'.releasing = proto.releasing /\ proto'.buffer = m
      /\ conn'.refCount = conn.refCount + 1 /\ proto'.refCount = p.refCount + 1
  BY <1>1, <1>2 DEF Types, ConnSet, ProtoSet
<1>7. Links'
  <2>1. ClosingIsDriven'
    BY <1>5, <1>6, DrivenConn, DrivenCases DEF ClosingIsDriven, Driven, Drivable
  <2>2. LinkInv'
    BY <1>6 DEF Links, LinkInv
  <2> QED
    BY <2>1, <2>2 DEF Links
<1>8. conn'.stop = "no" /\ proto'.object = "alive"
  BY <1>1, <1>6, ConnFields DEF Types, Links, LinkInv
<1>9. Messages'
  <2>1. Lists'
    BY <1>1 DEF Messages, Lists
  <2>2. ObjectsOutliveMessages'
    BY <1>1, <1>4, <1>6, <1>8 DEF Messages, ObjectsOutliveMessages
  <2>3. BufferIsQueued'
    BY <1>1, <1>6 DEF Messages, BufferIsQueued
  <2>4. MessageInv'
    BY <1>1, <1>6, ConnectionAssumption DEF Messages, MessageInv, SealedWhenWritten, Lists
  <2> QED
    BY <2>1, <2>2, <2>3, <2>4 DEF Messages
<1> QED
  BY <1>5, <1>7, <1>9 DEF Types

\* Connection::send() starts the write or leaves the connection alone: that it
\* closes a slow one needs more pending writes than there can be.
LEMMA SentFields ==
    ASSUME NEW c \in ConnSet, Drivable(c), NEW m \in Message
    PROVE  LET d == Sent(c, m)
           IN /\ Verdict(c) \in {"written", "discarded", "waits"} /\ d \in ConnSet
              /\ d.state = c.state /\ d.closeTasks = c.closeTasks /\ d.socket = c.socket
              /\ d.pendingRead = c.pendingRead /\ d.readError = c.readError
              /\ d.writeError = c.writeError /\ d.receivedFirst = c.receivedFirst
              /\ d.reading = c.reading /\ d.refCount = c.refCount
              /\ d.releasing = c.releasing /\ d.stop = c.stop
              /\ IF Verdict(c) = "written"
                 THEN c.state = "OPEN" /\ d.pendingWrite = 1 /\ d.writing = m
                 ELSE d.pendingWrite = c.pendingWrite /\ d.writing = c.writing
<1>1. Verdict(c) \in {"written", "discarded", "waits"}
  BY ConnectionAssumption, ConnFields DEF Verdict
<1>2. Sent(c, m) \in ConnSet
  BY SentType DEF Closable, Drivable
<1>3. CASE Verdict(c) = "written"
  <2>1. c.state = "OPEN" /\ c.pendingWrite = 0
    BY <1>3 DEF Verdict
  <2>2. Sent(c, m) = [c EXCEPT !.pendingWrite = @ + 1, !.writing = m,
                               !.writeTimer = @ \cup {"armed"}]
    BY <1>3 DEF Sent
  <2> QED
    BY <1>2, <1>3, <2>1, <2>2 DEF ConnSet
<1>4. CASE Verdict(c) # "written"
  <2>1. Sent(c, m) = c
    BY <1>1, <1>4 DEF Sent
  <2> QED
    BY <1>1, <1>4, <2>1
<1> QED
  BY <1>3, <1>4, <1>1, <1>2

\* A message is handed to Connection::send() by a connection whose verdict is
\* that of c; in the state d and with the protocol p that the caller makes of it
\* what is said of the messages holds.
LEMMA SendMessages ==
    ASSUME Types, Messages, NEW m \in Message, NEW c, NEW d, NEW p \in ProtoSet,
           Send(m, c, d, p, autoSend \ {m}, addQueue),
           m \in autoSend \/ m \notin used, used' = used \cup {m}, UNCHANGED <<old, fault>>,
           Verdict(c) \in {"written", "discarded", "waits"},
           d.writing = IF Verdict(c) = "written" THEN m ELSE conn.writing,
           d.refCount = Cardinality(used'), p.refCount = Cardinality(used'),
           d.stop = "no", p.object = "alive", p.buffer = proto.buffer
    PROVE  /\ Messages' /\ proto' \in ProtoSet
           /\ proto'.linked = p.linked /\ proto'.object = p.object /\ proto'.releasing = p.releasing
<1>1. /\ conn' = d /\ sealed' = [sealed EXCEPT ![m] = @ + Seals(c)]
      /\ proto' = IF Seals(c) = 1 THEN LetGo(p, {m}) ELSE p
      /\ autoSend' = autoSend \ {m}
      /\ addQueue' = IF Verdict(c) = "waits" THEN addQueue \cup {m} ELSE addQueue
  BY DEF Send
<1>2. Seals(c) = IF Verdict(c) = "waits" THEN 0 ELSE 1
  BY DEF Seals
<1>3. /\ proto' \in ProtoSet
      /\ proto'.linked = p.linked /\ proto'.object = p.object /\ proto'.releasing = p.releasing
      /\ proto'.refCount = p.refCount
      /\ proto'.buffer = IF Seals(c) = 1 /\ p.buffer = m THEN NoMessage ELSE p.buffer
  BY <1>1 DEF LetGo, ProtoSet
<1>4. sealed[m] = 0 /\ m \notin addQueue /\ m # conn.writing
  BY ConnectionAssumption DEF Messages, Lists, MessageInv, SealedWhenWritten
<1>5. sealed' \in [Message -> 0..1] /\ sealed'[m] = Seals(c)
      /\ \A n \in Message \ {m} : sealed'[n] = sealed[n]
  BY <1>1, <1>2, <1>4 DEF Messages, Lists
<1>6. Lists'
  BY <1>1, <1>5 DEF Messages, Lists
<1>7. ObjectsOutliveMessages'
  BY <1>1, <1>3 DEF ObjectsOutliveMessages
<1>8. BufferIsQueued'
  BY <1>1, <1>2, <1>3 DEF Messages, BufferIsQueued
<1>9. MessageInv'
  <2>1. conn'.writing # NoMessage => conn'.writing \in used'
    BY <1>1 DEF Messages, MessageInv
  <2>2. autoSend' \cap addQueue' = {}
    BY <1>1 DEF Messages, MessageInv
  <2>3. \A n \in Message \ used' : sealed'[n] = 0
    BY <1>5 DEF Messages, MessageInv
  <2>4. ASSUME NEW n \in Message
        PROVE  /\ n \in autoSend' \cup addQueue' => sealed'[n] = 0
               /\ n = conn'.writing => sealed'[n] = 1 /\ proto'.buffer # n
    <3>1. CASE n = m
      BY <1>1, <1>2, <1>3, <1>4, <1>5, <3>1, ConnectionAssumption
    <3>2. CASE n # m
      <4>1. n \in autoSend' \cup addQueue' => n \in autoSend \cup addQueue
        BY <1>1, <3>2
      <4>2. n = conn'.writing => n = conn.writing
        BY <1>1, <3>2
      <4>3. proto'.buffer \in {proto.buffer, NoMessage}
        BY <1>3
      <4> QED
        BY <1>5, <3>2, <4>1, <4>2, <4>3, ConnectionAssumption DEF Messages, MessageInv, SealedWhenWritten
    <3> QED
      BY <3>1, <3>2
  <2> QED
    BY <2>1, <2>2, <2>3, <2>4 DEF MessageInv, SealedWhenWritten
<1> QED
  BY <1>3, <1>6, <1>7, <1>8, <1>9 DEF Messages

\* The second loop of sendAll() keeps the invariant.
LEMMA SendAllStep ==
    ASSUME Types, Messages, Links, NEW m \in Message, SendAll(m)
    PROVE  Types' /\ Messages' /\ Links'
<1> DEFINE d == Sent(conn, m)
<1>1. /\ m \in autoSend /\ Send(m, conn, d, proto, autoSend \ {m}, addQueue)
      /\ used' = used /\ old' = old /\ fault' = ProtocolUse
  BY DEF SendAll
<1>2. m \in used /\ used' = used \cup {m} /\ conn.stop = "no" /\ proto.object = "alive"
      /\ conn.refCount = Cardinality(used) /\ proto.refCount = Cardinality(used)
  BY <1>1 DEF Messages, Lists, ObjectsOutliveMessages
<1>3. fault' = fault
  BY <1>1, <1>2 DEF ProtocolUse
<1>4. /\ Verdict(conn) \in {"written", "discarded", "waits"} /\ d \in ConnSet
      /\ d.state = conn.state /\ d.closeTasks = conn.closeTasks /\ d.socket = conn.socket
      /\ d.pendingRead = conn.pendingRead /\ d.readError = conn.readError
      /\ d.writeError = conn.writeError /\ d.receivedFirst = conn.receivedFirst
      /\ d.reading = conn.reading /\ d.refCount = conn.refCount
      /\ d.releasing = conn.releasing /\ d.stop = conn.stop
      /\ IF Verdict(conn) = "written"
         THEN conn.state = "OPEN" /\ d.pendingWrite = 1 /\ d.writing = m
         ELSE d.pendingWrite = conn.pendingWrite /\ d.writing = conn.writing
  BY SentFields, DrivenConn DEF Driven, Types
<1>5. conn' = d
  BY <1>1 DEF Send
<1> HIDE DEF d
<1>6. /\ Messages' /\ proto' \in ProtoSet
      /\ proto'.linked = proto.linked /\ proto'.object = proto.object
      /\ proto'.releasing = proto.releasing
  <2>1. /\ m \in autoSend \/ m \notin used
        /\ used' = used \cup {m} /\ UNCHANGED <<old, fault>>
        /\ d.writing = IF Verdict(conn) = "written" THEN m ELSE conn.writing
        /\ d.refCount = Cardinality(used') /\ proto.refCount = Cardinality(used')
        /\ d.stop = "no" /\ proto.object = "alive" /\ proto \in ProtoSet
    BY <1>1, <1>2, <1>3, <1>4 DEF Types
  <2> QED
    BY <1>1, <1>4, <2>1, SendMessages
<1>7. ClosingIsDriven'
  BY <1>4, <1>5, DrivenConn, DrivenCases, ConnectionAssumption DEF ClosingIsDriven, Driven, Drivable
<1>8. LinkInv'
  BY <1>4, <1>5, <1>6, ConnectionAssumption DEF Links, LinkInv
<1> QED
  BY <1>4, <1>5, <1>6, <1>7, <1>8 DEF Types, Links

\* configureOutputMessage() touches the counts, nothing else.
LEMMA CountedFields ==
    ASSUME Messages, NEW m \in Message \ used
    PROVE  /\ \A c \in ConnSet : c.refCount = Cardinality(used) =>
                 /\ Counted(c) \in ConnSet /\ Unasked(Counted(c), [c EXCEPT !.refCount = @ + 1])
                 /\ Counted(c).reading = c.reading /\ Counted(c).readError = c.readError
                 /\ Counted(c).refCount = Cardinality(used \cup {m})
           /\ \A p \in ProtoSet : p.refCount = Cardinality(used) =>
                 /\ Counted(p) \in ProtoSet /\ Counted(p).refCount = Cardinality(used \cup {m})
                 /\ Counted(p).linked = p.linked /\ Counted(p).object = p.object
                 /\ Counted(p).releasing = p.releasing /\ Counted(p).buffer = p.buffer
<1>1. /\ Cardinality(used \cup {m}) = Cardinality(used) + 1
      /\ Cardinality(used) + 1 \in 0..Cardinality(Message)
  BY CountUp
<1>2. ASSUME NEW c \in ConnSet, c.refCount = Cardinality(used)
      PROVE  /\ Counted(c) \in ConnSet /\ Unasked(Counted(c), [c EXCEPT !.refCount = @ + 1])
             /\ Counted(c).reading = c.reading /\ Counted(c).readError = c.readError
             /\ Counted(c).refCount = Cardinality(used \cup {m})
  <2>1. Counted(c) \in ConnSet
    BY <1>1, <1>2 DEF Counted, ConnSet
  <2>2. Counted(c).refCount = Cardinality(used \cup {m})
    BY <1>1, <1>2 DEF Counted, ConnSet
  <2>3. Unasked(Counted(c), [c EXCEPT !.refCount = @ + 1])
        /\ Counted(c).reading = c.reading /\ Counted(c).readError = c.readError
    BY DEF Counted, ConnSet, Unasked, Same
  <2> QED
    BY <2>1, <2>2, <2>3
<1>3. ASSUME NEW p \in ProtoSet, p.refCount = Cardinality(used)
      PROVE  /\ Counted(p) \in ProtoSet /\ Counted(p).refCount = Cardinality(used \cup {m})
             /\ Counted(p).linked = p.linked /\ Counted(p).object = p.object
             /\ Counted(p).releasing = p.releasing /\ Counted(p).buffer = p.buffer
  BY <1>1, <1>3 DEF Counted, ProtoSet
<1> QED
  BY <1>2, <1>3

\* The age of a message is of no account to the invariant.
LEMMA AgeStep ==
    ASSUME Types, Messages, Links, NEW m \in Message, Age(m)
    PROVE  Types' /\ Messages' /\ Links'
<1>1. UNCHANGED <<conn, proto, autoSend, addQueue, used, sealed, fault>> /\ old' \subseteq used
  BY DEF Age, Messages, Lists
<1> QED
  BY <1>1 DEF Types, Messages, Lists, ObjectsOutliveMessages, BufferIsQueued, MessageInv,
              SealedWhenWritten, Links, LinkInv, ClosingIsDriven

\* The first loop of sendAll() keeps the invariant.
LEMMA RequeueStep ==
    ASSUME Types, Messages, Links, Requeue
    PROVE  Types' /\ Messages' /\ Links'
<1> DEFINE dropped == addQueue \cap old
<1>1. /\ autoSend' = autoSend \cup (addQueue \ dropped)
      /\ sealed' = [m \in Message |-> sealed[m] + (IF m \in dropped THEN 1 ELSE 0)]
      /\ proto' = LetGo(proto, dropped)
      /\ fault' = IF dropped = {} THEN fault ELSE ProtocolUse
      /\ addQueue' = {} /\ UNCHANGED <<conn, used, old>>
  BY DEF Requeue
<1>2. fault' = fault
  BY <1>1 DEF ProtocolUse, Messages, Lists, ObjectsOutliveMessages
<1>3. /\ proto' \in ProtoSet
      /\ proto'.linked = proto.linked /\ proto'.object = proto.object
      /\ proto'.releasing = proto.releasing /\ proto'.refCount = proto.refCount
      /\ proto'.buffer = IF proto.buffer \in dropped THEN NoMessage ELSE proto.buffer
  BY <1>1 DEF LetGo, Types, ProtoSet
<1>4. \A m \in dropped : m \in Message /\ sealed[m] = 0
  BY DEF Messages, Lists, MessageInv, SealedWhenWritten
<1>5. /\ sealed' \in [Message -> 0..1]
      /\ \A m \in Message : sealed'[m] = IF m \in dropped THEN 1 ELSE sealed[m]
  BY <1>1, <1>4 DEF Messages, Lists
<1>6. Lists'
  BY <1>1, <1>2, <1>5 DEF Messages, Lists
<1>7. ObjectsOutliveMessages'
  BY <1>1, <1>3 DEF Messages, ObjectsOutliveMessages
<1>8. BufferIsQueued'
  BY <1>1, <1>3 DEF Messages, BufferIsQueued
<1>9. MessageInv'
  <2>1. autoSend' \cap addQueue' = {} /\ (conn'.writing # NoMessage => conn'.writing \in used')
    BY <1>1 DEF Messages, MessageInv
  <2>2. \A n \in Message \ used' : sealed'[n] = 0
    BY <1>1, <1>5 DEF Messages, MessageInv, Lists
  <2>3. SealedWhenWritten'
    BY <1>1, <1>3, <1>4, <1>5, ConnectionAssumption DEF Messages, MessageInv, SealedWhenWritten
  <2> QED
    BY <2>1, <2>2, <2>3 DEF MessageInv
<1>10. Links'
  BY <1>1, <1>3 DEF Links, LinkInv, ClosingIsDriven
<1> QED
  BY <1>1, <1>3, <1>6, <1>7, <1>8, <1>9, <1>10 DEF Types, Messages

\* disconnectClient() keeps the invariant.
LEMMA DisconnectClientStep ==
    ASSUME Types, Messages, Links, NEW m \in Message, DisconnectClient(m)
    PROVE  Types' /\ Messages' /\ Links'
<1> DEFINE c == Counted(conn)
           e == Sent(c, m)
           p == Counted(proto)
<1>1. /\ proto.linked /\ m \notin used /\ Send(m, c, Close(e), p, autoSend, addQueue)
      /\ used' = used \cup {m} /\ UNCHANGED <<old, fault>>
  BY DEF DisconnectClient, HasProtocol
<1>2. /\ c \in ConnSet /\ c.refCount = Cardinality(used \cup {m})
      /\ Unasked(c, [conn EXCEPT !.refCount = @ + 1])
      /\ c.reading = conn.reading /\ c.readError = conn.readError
      /\ p \in ProtoSet /\ p.refCount = Cardinality(used \cup {m})
      /\ p.linked = proto.linked /\ p.object = proto.object
      /\ p.releasing = proto.releasing /\ p.buffer = proto.buffer
  BY <1>1, CountedFields DEF Types, Messages, ObjectsOutliveMessages
<1>3. /\ c.state = conn.state /\ c.closeTasks = conn.closeTasks /\ c.socket = conn.socket
      /\ c.writeError = conn.writeError /\ c.pendingWrite = conn.pendingWrite
      /\ c.receivedFirst = conn.receivedFirst /\ c.writing = conn.writing
      /\ c.releasing = conn.releasing /\ c.stop = conn.stop
  BY <1>2 DEF Unasked, Same, Types, ConnSet
<1> HIDE DEF c, p
<1>4. Drivable(c)
  BY <1>3, DrivenConn DEF Driven, Drivable
<1>5. /\ Verdict(c) \in {"written", "discarded", "waits"} /\ e \in ConnSet
      /\ e.state = c.state /\ e.closeTasks = c.closeTasks /\ e.socket = c.socket
      /\ e.reading = c.reading /\ e.refCount = c.refCount
      /\ e.releasing = c.releasing /\ e.stop = c.stop
      /\ IF Verdict(c) = "written" THEN e.pendingWrite = 1 /\ e.writing = m
         ELSE e.pendingWrite = c.pendingWrite /\ e.writing = c.writing
  BY <1>2, <1>4, SentFields
<1> HIDE DEF e
<1>6. Drivable(e)
  BY <1>4, <1>5 DEF Drivable
<1>7. /\ conn' = Close(e) /\ conn' \in ConnSet /\ Driven(conn') /\ Asked(conn', e)
      /\ conn'.state \in {"REQUEST_CLOSE", "CLOSED"} /\ conn'.reading = e.reading
  BY <1>1, <1>5, <1>6, AskedDriven DEF Send
<1>8. conn.stop = "no" /\ proto.object = "alive" /\ conn.state \in {"OPEN", "REQUEST_CLOSE"}
  BY <1>1, ConnFields DEF Types, Links, LinkInv
<1>9. /\ Messages' /\ proto' \in ProtoSet
      /\ proto'.linked = proto.linked /\ proto'.object = proto.object
      /\ proto'.releasing = proto.releasing
  <2>1. autoSend \ {m} = autoSend
    BY <1>1 DEF Messages, Lists
  <2>2. Send(m, c, Close(e), p, autoSend \ {m}, addQueue)
    BY <1>1, <2>1
  <2> DEFINE h == Close(e)
  <2>3. /\ h.writing = IF Verdict(c) = "written" THEN m ELSE conn.writing
        /\ h.refCount = Cardinality(used') /\ p.refCount = Cardinality(used')
        /\ h.stop = "no" /\ p.object = "alive"
    BY <1>1, <1>2, <1>3, <1>5, <1>7, <1>8 DEF Asked, Unasked, Same
  <2> HIDE DEF h
  <2>4. Send(m, c, h, p, autoSend \ {m}, addQueue)
    BY <2>2 DEF h
  <2>5. /\ p \in ProtoSet /\ Verdict(c) \in {"written", "discarded", "waits"}
        /\ m \in autoSend \/ m \notin used
        /\ used' = used \cup {m} /\ UNCHANGED <<old, fault>> /\ p.buffer = proto.buffer
    BY <1>1, <1>2, <1>5
  <2>6. /\ Messages' /\ proto' \in ProtoSet
        /\ proto'.linked = p.linked /\ proto'.object = p.object /\ proto'.releasing = p.releasing
    BY <2>3, <2>4, <2>5, SendMessages
  <2> QED
    BY <1>2, <2>6
<1>10. Links'
  <2>1. /\ conn'.state = "REQUEST_CLOSE" /\ conn'.releasing = conn.releasing /\ conn'.stop = conn.stop
        /\ (conn'.socket = "deleted" <=> conn.socket = "deleted")
        /\ conn'.reading \in {conn.reading, "no"}
    BY <1>2, <1>3, <1>5, <1>7, <1>8 DEF Asked, Unasked, Same
  <2>2. /\ conn'.pendingWrite = 1 => conn'.writing # NoMessage
        /\ conn'.socket # "open" => conn'.pendingWrite = 0
    <3>1. e.pendingWrite = 1 => e.writing # NoMessage
      BY <1>3, <1>5, ConnectionAssumption DEF Links, LinkInv
    <3>2. e.socket # "open" => e.pendingWrite = 0
      BY <1>3, <1>5 DEF Links, LinkInv, Verdict
    <3> QED
      BY <1>7, <3>1, <3>2 DEF Asked, Unasked, Same
  <2> QED
    BY <1>7, <1>8, <1>9, <2>1, <2>2, AskedLinks
<1> QED
  BY <1>7, <1>9, <1>10 DEF Types

\* async_read touches the read and its timer, nothing else.
LEMMA ReadFields ==
    ASSUME NEW d \in ConnSet, d.pendingRead = 0
    PROVE  LET f == StartRead(d, "header")
           IN /\ f.state = d.state /\ f.closeTasks = d.closeTasks /\ f.socket = d.socket
              /\ f.pendingRead = 1 /\ f.pendingWrite = d.pendingWrite
              /\ f.readError = d.readError /\ f.writeError = d.writeError
              /\ f.reading = "header" /\ f.writing = d.writing /\ f.refCount = d.refCount
              /\ f.releasing = d.releasing /\ f.stop = d.stop
BY DEF StartRead, ConnSet

\* The end of a packet: the next read is started, perhaps after a request to
\* close, by a connection that was open.
LEMMA EndOfPacket ==
    ASSUME NEW e \in ConnSet, NEW close \in BOOLEAN, e.state = "OPEN", e.closeTasks = 0,
           e.pendingRead = 0, ~e.readError, ~e.writeError, e.socket = "open",
           e.writing # NoMessage => e.pendingWrite = 1,
           e.pendingWrite = 1 => e.writing # NoMessage,
           e.stop = "no", ~e.releasing,
           conn' = StartRead(IF close THEN Close(e) ELSE e, "header"),
           proto'.linked, proto'.object = "alive", ~proto'.releasing
    PROVE  /\ conn' \in ConnSet /\ Links'
           /\ conn'.refCount = e.refCount /\ conn'.writing = e.writing /\ conn'.stop = e.stop
<1> DEFINE d == IF close THEN Close(e) ELSE e
<1>1. /\ d \in ConnSet /\ Same(d, e) /\ d.readError = e.readError
      /\ IF close THEN d.state = "REQUEST_CLOSE" /\ d.closeTasks = 1
         ELSE d.state = "OPEN" /\ d.closeTasks = 0
  BY AskedDriven, CloseFields DEF Drivable, Asked, Unasked, Same
<1> HIDE DEF d
<1>2. conn' = StartRead(d, "header")
  BY DEF d
<1>3. conn' \in ConnSet
  BY <1>1, <1>2, ReadType DEF Same
<1>4. /\ conn'.state = d.state /\ conn'.closeTasks = d.closeTasks /\ conn'.socket = d.socket
      /\ conn'.pendingRead = 1 /\ conn'.pendingWrite = d.pendingWrite
      /\ conn'.readError = d.readError /\ conn'.writeError = d.writeError
      /\ conn'.reading = "header" /\ conn'.writing = d.writing /\ conn'.refCount = d.refCount
      /\ conn'.releasing = d.releasing /\ conn'.stop = d.stop
  BY <1>1, <1>2, ReadFields DEF Same
<1>5. ClosingIsDriven'
  BY <1>1, <1>3, <1>4, DrivenCases DEF ClosingIsDriven
<1>6. LinkInv'
  BY <1>1, <1>4 DEF LinkInv, Same
<1> QED
  BY <1>1, <1>3, <1>4, <1>5, <1>6 DEF Links, Same

\* A packet: what the read leaves of the connection, c, and the protocol, p, if
\* the packet's protocol is known.
LEMMA ParsePacketStep ==
    ASSUME Types, Messages, Links, NEW known \in BOOLEAN, NEW answer \in BOOLEAN,
           NEW close \in BOOLEAN, ParsePacket(known, answer, close)
    PROVE  Types' /\ Messages' /\ Links'
<1> DEFINE b == AfterRead("ok")
           a == [b EXCEPT !.pendingRead = @ - 1]
           c == [a EXCEPT !.receivedFirst = TRUE]
           q == [proto EXCEPT !.object = "alive"]
           p == IF ~conn.receivedFirst /\ ~proto.linked THEN [q EXCEPT !.linked = TRUE] ELSE proto
           end(d) == StartRead(IF close THEN Close(d) ELSE d, "header")
<1>1. Usable(b) /\ b \in ConnSet /\ Driven(b) /\ Unasked(b, conn) /\ b.reading = "no"
  BY AfterReadInv DEF ParsePacket, Results
<1>2. /\ conn.state = "OPEN" /\ b.pendingRead = 1 /\ ~conn.writeError /\ ~b.readError
      /\ conn.pendingRead = 1 /\ conn.socket = "open"
      /\ conn.writing # NoMessage => conn.pendingWrite = 1
      /\ conn.pendingWrite = 1 => conn.writing # NoMessage
      /\ conn.receivedFirst => proto.linked
      /\ ~proto.linked => proto.object = "none"
      /\ proto.linked => proto.object = "alive"
      /\ ~proto.releasing
      /\ conn.stop = "no" /\ ~conn.releasing
  BY <1>1, ConnFields DEF Usable, Unasked, Same, Links, LinkInv, Types
<1>3. \/ /\ ~known /\ conn' = Close(c) /\ UNCHANGED <<proto, autoSend, addQueue, used, sealed, old, fault>>
      \/ /\ known /\ ~answer /\ conn' = end(c) /\ proto' = p
         /\ UNCHANGED <<autoSend, addQueue, used, sealed, old, fault>>
      \/ /\ known /\ answer
         /\ \E m \in Message \ used :
               /\ Send(m, Counted(c), end(Sent(Counted(c), m)), Counted(p), autoSend, addQueue)
               /\ used' = used \cup {m} /\ UNCHANGED <<old, fault>>
  BY DEF ParsePacket, HasProtocol
<1> HIDE DEF b
<1>4. a \in ConnSet
  BY <1>1, <1>2 DEF ConnSet
<1>5. a.pendingRead = 0 /\ a.state = b.state /\ a.closeTasks = b.closeTasks /\ a.socket = b.socket
      /\ a.pendingWrite = b.pendingWrite /\ a.writeError = b.writeError
      /\ a.readError = b.readError /\ a.reading = b.reading
      /\ a.writing = b.writing /\ a.refCount = b.refCount
      /\ a.releasing = b.releasing /\ a.stop = b.stop
  BY <1>1, <1>2 DEF ConnSet
<1> HIDE DEF a
<1>6. c \in ConnSet
  BY <1>4 DEF ConnSet
<1>7. c.pendingRead = 0 /\ c.state = a.state /\ c.closeTasks = a.closeTasks /\ c.socket = a.socket
      /\ c.pendingWrite = a.pendingWrite /\ c.writeError = a.writeError
      /\ c.readError = a.readError /\ c.reading = a.reading
      /\ c.writing = a.writing /\ c.refCount = a.refCount
      /\ c.releasing = a.releasing /\ c.stop = a.stop
  BY <1>4, <1>5 DEF ConnSet
<1> HIDE DEF c
<1>8. /\ c.pendingRead = 0 /\ c.state = "OPEN" /\ c.closeTasks = 0 /\ c.socket = "open"
      /\ c.pendingWrite = conn.pendingWrite /\ ~c.writeError /\ ~c.readError
      /\ c.reading = "no" /\ c.writing = conn.writing /\ c.refCount = conn.refCount
      /\ ~c.releasing /\ c.stop = "no"
  BY <1>1, <1>2, <1>5, <1>7 DEF Unasked, Same, Driven, Drivable
<1>9. /\ p \in ProtoSet /\ p.linked /\ p.object = "alive" /\ ~p.releasing
      /\ p.refCount = proto.refCount /\ p.buffer = proto.buffer
  <2>1. q \in ProtoSet /\ q.releasing = proto.releasing
        /\ q.refCount = proto.refCount /\ q.buffer = proto.buffer /\ q.object = "alive"
    BY DEF Types, ProtoSet
  <2> HIDE DEF q
  <2> QED
    BY <1>2, <2>1 DEF Types, ProtoSet
<1> HIDE DEF p
<1>10. CASE /\ ~known /\ conn' = Close(c)
            /\ UNCHANGED <<proto, autoSend, addQueue, used, sealed, old, fault>>
  <2>1. /\ conn' \in ConnSet /\ Driven(conn') /\ Asked(conn', c)
        /\ conn'.state \in {"REQUEST_CLOSE", "CLOSED"} /\ conn'.reading = c.reading
    BY <1>6, <1>8, <1>10, AskedDriven DEF Drivable
  <2>2. /\ conn'.state = "REQUEST_CLOSE" /\ conn'.writing = conn.writing
        /\ conn'.refCount = conn.refCount /\ conn'.releasing = conn.releasing
        /\ conn'.stop = conn.stop /\ conn'.pendingWrite = conn.pendingWrite
        /\ conn'.socket = "open" /\ conn'.reading = "no"
    BY <1>2, <1>6, <1>8, <2>1, ConnFields DEF Asked, Same, Types
  <2>3. Links'
    BY <1>2, <1>10, <2>1, <2>2, AskedLinks
  <2>4. Messages'
    BY <1>10, <2>2, QuietStep
  <2> QED
    BY <1>10, <2>1, <2>3, <2>4 DEF Types
<1>11. CASE /\ known /\ ~answer /\ conn' = end(c) /\ proto' = p
            /\ UNCHANGED <<autoSend, addQueue, used, sealed, old, fault>>
  <2>1. /\ conn' \in ConnSet /\ Links'
        /\ conn'.refCount = c.refCount /\ conn'.writing = c.writing /\ conn'.stop = c.stop
    BY <1>2, <1>6, <1>8, <1>9, <1>11, EndOfPacket
  <2>2. used # {} => proto.object = "alive"
    BY DEF Messages, ObjectsOutliveMessages
  <2>3. Messages'
    BY <1>2, <1>8, <1>9, <1>11, <2>1, <2>2, QuietStep
  <2> QED
    BY <1>9, <1>11, <2>1, <2>3 DEF Types
<1>12. ASSUME NEW m \in Message \ used,
              Send(m, Counted(c), end(Sent(Counted(c), m)), Counted(p), autoSend, addQueue),
              used' = used \cup {m}, UNCHANGED <<old, fault>>
       PROVE  Types' /\ Messages' /\ Links'
  <2> DEFINE d == Counted(c)
             r == Counted(p)
             e == Sent(d, m)
             f == end(e)
  <2>1. /\ d \in ConnSet /\ d.refCount = Cardinality(used \cup {m})
        /\ Unasked(d, [c EXCEPT !.refCount = @ + 1]) /\ d.reading = c.reading /\ d.readError = c.readError
        /\ r \in ProtoSet /\ r.refCount = Cardinality(used \cup {m})
        /\ r.linked = p.linked /\ r.object = p.object
        /\ r.releasing = p.releasing /\ r.buffer = p.buffer
    BY <1>6, <1>8, <1>9, CountedFields DEF Messages, ObjectsOutliveMessages
  <2>2. /\ d.pendingRead = 0 /\ d.state = "OPEN" /\ d.closeTasks = 0 /\ d.socket = "open"
        /\ d.pendingWrite = conn.pendingWrite /\ ~d.writeError /\ ~d.readError
        /\ d.writing = conn.writing /\ ~d.releasing /\ d.stop = "no"
    BY <1>6, <1>8, <2>1 DEF Unasked, Same, ConnSet
  <2>3. Send(m, d, f, r, autoSend, addQueue)
    BY <1>12
  <2> HIDE DEF d, r
  <2>4. /\ Verdict(d) \in {"written", "discarded", "waits"} /\ e \in ConnSet
        /\ e.state = d.state /\ e.closeTasks = d.closeTasks /\ e.socket = d.socket
        /\ e.pendingRead = d.pendingRead /\ e.readError = d.readError
        /\ e.writeError = d.writeError /\ e.refCount = d.refCount
        /\ e.releasing = d.releasing /\ e.stop = d.stop
        /\ IF Verdict(d) = "written" THEN e.pendingWrite = 1 /\ e.writing = m
           ELSE e.pendingWrite = d.pendingWrite /\ e.writing = d.writing
    BY <2>1, <2>2, SentFields DEF Drivable
  <2>5. conn' = f /\ (e.writing # NoMessage => e.pendingWrite = 1)
        /\ (e.pendingWrite = 1 => e.writing # NoMessage)
    BY <1>2, <2>2, <2>3, <2>4, ConnectionAssumption DEF Send
  <2> HIDE DEF e
  <2>6. /\ proto'.linked = r.linked /\ proto'.object = r.object /\ proto'.releasing = r.releasing
    BY <2>1, <2>3 DEF Send, LetGo, ProtoSet
  <2>7. /\ conn' \in ConnSet /\ Links'
        /\ conn'.refCount = e.refCount /\ conn'.writing = e.writing /\ conn'.stop = e.stop
    BY <1>9, <2>1, <2>2, <2>4, <2>5, <2>6, EndOfPacket
  <2> HIDE DEF f
  <2>8. /\ f.writing = IF Verdict(d) = "written" THEN m ELSE conn.writing
        /\ f.refCount = Cardinality(used') /\ r.refCount = Cardinality(used')
        /\ f.stop = "no" /\ r.object = "alive"
    BY <1>9, <1>12, <2>1, <2>2, <2>4, <2>5, <2>7
  <2>9. autoSend \ {m} = autoSend
    BY DEF Messages, Lists
  <2>10. /\ r \in ProtoSet /\ Verdict(d) \in {"written", "discarded", "waits"}
         /\ Send(m, d, f, r, autoSend \ {m}, addQueue) /\ m \in Message
         /\ m \in autoSend \/ m \notin used
         /\ used' = used \cup {m} /\ UNCHANGED <<old, fault>> /\ r.buffer = proto.buffer
    BY <1>9, <1>12, <2>1, <2>3, <2>4, <2>9
  <2>11. Messages' /\ proto' \in ProtoSet
    BY <2>8, <2>10, SendMessages
  <2> QED
    BY <2>7, <2>11 DEF Types
<1> QED
  BY <1>3, <1>10, <1>11, <1>12

-------------------------------------------------------------------------------
(* The specification.                                                          *)

\* A client has been accepted: the invariant holds.
LEMMA InvInit == Init => Types /\ Messages /\ Links
<1> SUFFICES ASSUME Init PROVE Types /\ Messages /\ Links
  OBVIOUS
<1>1. PICK single \in BOOLEAN, m \in Message :
         /\ conn = [state |-> "OPEN", socket |-> "open", pendingRead |-> 1,
                    pendingWrite |-> IF single THEN 1 ELSE 0,
                    readError |-> FALSE, writeError |-> FALSE, receivedFirst |-> FALSE,
                    reading |-> "header", writing |-> IF single THEN m ELSE NoMessage,
                    readTimer |-> {"armed"}, writeTimer |-> IF single THEN {"armed"} ELSE {},
                    refCount |-> IF single THEN 1 ELSE 0,
                    closeTasks |-> 0, releasing |-> FALSE, stop |-> "no"]
         /\ proto = [object |-> IF single THEN "alive" ELSE "none", linked |-> single,
                     refCount |-> IF single THEN 1 ELSE 0, releasing |-> FALSE,
                     buffer |-> NoMessage]
         /\ used = IF single THEN {m} ELSE {}
         /\ sealed = [n \in Message |-> IF single /\ n = m THEN 1 ELSE 0]
         /\ autoSend = {} /\ addQueue = {} /\ old = {} /\ fault = "none"
  BY DEF Init
<1>2. Cardinality(used) = IF single THEN 1 ELSE 0
  BY <1>1, FS_Singleton, FS_EmptySet
<1>3. Cardinality(Message) \in Nat /\ Cardinality(Message) >= 1
  <2>1. Cardinality({m}) <= Cardinality(Message) /\ Cardinality({m}) = 1
    BY ConnectionAssumption, FS_Subset, FS_Singleton
  <2> QED
    BY <2>1, ConnectionAssumption, FS_CardinalityType
<1>4. conn \in ConnSet
  BY <1>1, <1>3 DEF ConnSet, States, Timers
<1>5. proto \in ProtoSet
  BY <1>1, <1>3 DEF ProtoSet
<1>6. Lists /\ BufferIsQueued
  BY <1>1 DEF Lists, BufferIsQueued
<1>7. ObjectsOutliveMessages
  BY <1>1, <1>2 DEF ObjectsOutliveMessages
<1>8. MessageInv
  BY <1>1, ConnectionAssumption DEF MessageInv, SealedWhenWritten
<1>9. LinkInv
  BY <1>1, ConnectionAssumption DEF LinkInv
<1>10. ClosingIsDriven
  BY <1>1 DEF ClosingIsDriven
<1> QED
  BY <1>4, <1>5, <1>6, <1>7, <1>8, <1>9, <1>10 DEF Types, Messages, Links

\* No step breaks the invariant.
LEMMA InvStep == Types /\ Messages /\ Links /\ [Next]_vars => Types' /\ Messages' /\ Links'
<1> SUFFICES ASSUME Types, Messages, Links, [Next]_vars PROVE Types' /\ Messages' /\ Links'
  OBVIOUS
<1>1. ASSUME NEW r \in {"ok", "error", "aborted"}, ParseHeader(r) \/ ParsePacketFails(r) \/ OnWrite(r)
      PROVE  Types' /\ Messages' /\ Links'
  BY <1>1, ParseHeaderStep, ParsePacketFailsStep, OnWriteStep
<1>2. ASSUME NEW known \in BOOLEAN, NEW answer \in BOOLEAN, NEW close \in BOOLEAN,
             ParsePacket(known, answer, close)
      PROVE  Types' /\ Messages' /\ Links'
  BY <1>2, ParsePacketStep
<1>3. CASE ReadTimerExpires \/ WriteTimerExpires
  BY <1>3, TimerSteps
<1>4. CASE HandleReadTimeout \/ HandleWriteTimeout
  BY <1>4, HandleTimeoutSteps
<1>5. CASE OnStop
  BY <1>5, OnStopStep
<1>6. CASE CloseConnectionTask
  BY <1>6, CloseConnectionTaskStep
<1>7. CASE RetryReleaseConnection
  BY <1>7, RetryReleaseConnectionStep
<1>8. CASE RetryReleaseProtocol
  BY <1>8, RetryReleaseProtocolStep
<1>9. CASE GameCloses
  BY <1>9, GameClosesStep
<1>10. CASE Requeue
  BY <1>10, RequeueStep
<1>11. ASSUME NEW m \in Message, TakeBack(m) \/ Produce(m) \/ DisconnectClient(m) \/ SendAll(m) \/ Age(m)
       PROVE  Types' /\ Messages' /\ Links'
  BY <1>11, TakeBackStep, ProduceStep, DisconnectClientStep, SendAllStep, AgeStep
<1>12. CASE UNCHANGED vars
  BY <1>12 DEF vars, Types, Messages, Lists, ObjectsOutliveMessages, BufferIsQueued, MessageInv,
               SealedWhenWritten, Links, LinkInv, ClosingIsDriven
<1> QED
  BY <1>1, <1>2, <1>3, <1>4, <1>5, <1>6, <1>7, <1>8, <1>9, <1>10, <1>11, <1>12
     DEF Next, Network, Game

\* The invariant holds in every reachable state.
LEMMA InvHolds == Spec => [](Types /\ Messages /\ Links)
BY InvInit, InvStep, PTL DEF Spec

\* No handler of the two threads meets an object that is gone: the socket after
\* onStop(), or the protocol that a message points to (closeSocket, sendAll,
\* internalReleaseMessage).
THEOREM HandlersMeetLiveObjects == Spec => []NoFault
<1>1. Messages => NoFault
  BY DEF Messages, Lists, NoFault
<1> QED
  BY <1>1, InvHolds, PTL

\* The reference counts are the number of the messages that are out and keep both
\* objects alive; what is buffered will be sent, and a connection that is closing
\* has somebody who goes on with it (addRef, unRef, close, closeConnection).
THEOREM EverythingIsAccounted == Spec => []Accounted
<1>1. Types /\ Messages /\ Links => Accounted
  BY DEF Accounted, TypeOK, Types, Messages, Links, Lists, ConnSet, ProtoSet
<1> QED
  BY <1>1, InvHolds, PTL

\* A message is encrypted once, just before it is written, and never while it may
\* still be appended to or put off (send, sendAll, onSendMessage).
THEOREM EncryptedOnce == Spec => []SealedWhenWritten
<1>1. Messages => SealedWhenWritten
  BY DEF Messages, MessageInv
<1> QED
  BY <1>1, InvHolds, PTL
===============================================================================
