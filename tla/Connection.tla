------------------------------- MODULE Connection -----------------------------
(* One client connection with its protocol object and its output messages      *)
(* (sources/connection.cpp, protocol.cpp, outputmessage.cpp).  Two threads act *)
(* on it: the network thread executes the handlers of asynchronous reads,      *)
(* writes and timers; the dispatcher's thread lets the game write, sends the   *)
(* collected messages after every task, and takes the connection down.  The    *)
(* handlers hold m_connectionLock, so that each is one step.                   *)
(*                                                                             *)
(* Objects are deleted by reference counts: every output message counts in the *)
(* connection's and in the protocol's m_refCount until the dispatcher has      *)
(* taken it back; releaseConnection and releaseProtocol try again until the    *)
(* count is 0.  Lists are sets here: their order is not looked at.             *)
EXTENDS Naturals, FiniteSets

CONSTANTS Message,            \* output message objects
          NoMessage,
          SlowLimit,          \* 100: m_pendingWrite above which a client is slow
          ForceCloseSlow      \* forceSlowConnectionsToDisconnect

ASSUME ConnectionAssumption == /\ IsFiniteSet(Message)
                               /\ NoMessage \notin Message
                               /\ SlowLimit \in Nat \ {0}
                               /\ ForceCloseSlow \in BOOLEAN

VARIABLES conn,       \* the Connection object
          proto,      \* the Protocol object
          autoSend,   \* m_autoSend
          addQueue,   \* m_addQueue
          used,       \* the messages allocated and not yet taken back
          sealed,     \* how often onSendMessage was applied to a message
          old,        \* the messages older than ten seconds
          fault       \* what undefined behaviour or failed assertion was met

vars == <<conn, proto, autoSend, addQueue, used, sealed, old, fault>>

States == {"OPEN", "REQUEST_CLOSE", "CLOSING", "CLOSED"}
Timers == SUBSET {"armed", "queued"}   \* a queued handler cannot be cancelled

TypeOK ==
    /\ conn \in [state : States, socket : {"open", "closed", "deleted"},
                 pendingRead : 0..1, pendingWrite : 0..1,
                 readError : BOOLEAN, writeError : BOOLEAN, receivedFirst : BOOLEAN,
                 reading : {"no", "header", "body"}, writing : Message \cup {NoMessage},
                 readTimer : Timers, writeTimer : Timers,
                 refCount : 0..Cardinality(Message),
                 closeTasks : 0..1, releasing : BOOLEAN, stop : {"no", "posted", "done"}]
    /\ proto \in [object : {"none", "alive", "deleted"}, linked : BOOLEAN,
                  refCount : 0..Cardinality(Message), releasing : BOOLEAN,
                  buffer : Message \cup {NoMessage}]
    /\ autoSend \subseteq used /\ addQueue \subseteq used /\ used \subseteq Message
    /\ old \subseteq used
    /\ sealed \in [Message -> 0..1]
    /\ fault = "none"

\* ServicePort::handle() has accepted a client: the protocol of a port with a
\* single service exists already and has sent its challenge (ProtocolGame), that
\* of any other port is made from the first packet.
Init ==
    \E single \in BOOLEAN, m \in Message :
        /\ conn = [state |-> "OPEN", socket |-> "open", pendingRead |-> 1,
                   pendingWrite |-> IF single THEN 1 ELSE 0,
                   readError |-> FALSE, writeError |-> FALSE, receivedFirst |-> FALSE,
                   reading |-> "header", writing |-> IF single THEN m ELSE NoMessage,
                   readTimer |-> {"armed"}, writeTimer |-> IF single THEN {"armed"} ELSE {},
                   refCount |-> IF single THEN 1 ELSE 0,
                   closeTasks |-> 0, releasing |-> FALSE, stop |-> "no"]
        /\ proto = [object |-> IF single THEN "alive" ELSE "none", linked |-> single,
                    refCount |-> IF single THEN 1 ELSE 0, releasing |-> FALSE,
                    buffer |-> NoMessage]
        /\ used = IF single THEN {m} ELSE {}
        /\ sealed = [n \in Message |-> IF single /\ n = m THEN 1 ELSE 0]
        /\ autoSend = {} /\ addQueue = {} /\ old = {} /\ fault = "none"

\* The messages that a shared pointer still keeps: the last one to let go of a
\* message queues a task that takes it back (releaseMessage).
Held == autoSend \cup addQueue \cup ({proto.buffer, conn.writing} \ {NoMessage})

\* m_protocol, or the connection of m_protocol: set and cleared together.
HasProtocol == proto.linked

-------------------------------------------------------------------------------
(* Faulty variants of the operations below, one per slip the code could        *)
(* contain; the specification uses none of them (README, "Mutants").           *)

CloseNotAgain(c) ==              \* a request in CLOSING is refused, too
    IF c.state # "OPEN" THEN c ELSE [c EXCEPT !.state = "REQUEST_CLOSE", !.closeTasks = @ + 1]

ReleasedOnce(p) == IF p.refCount > 0 THEN p ELSE [p EXCEPT !.object = "deleted"]   \* no retry

OwnedForever == TRUE             \* a bound raw pointer instead of the weak one

SealedWhenQueued(c) == 1         \* encrypted before m_pendingWrite is looked at

-------------------------------------------------------------------------------
(* Connection: the functions of connection.cpp, on the state c.                *)

Close(c) ==
    IF c.state \in {"CLOSED", "REQUEST_CLOSE"} THEN c
    ELSE [c EXCEPT !.state = "REQUEST_CLOSE", !.closeTasks = @ + 1]

CloseSocket(c) ==
    IF c.socket # "open" THEN c
    ELSE [c EXCEPT !.socket = "closed", !.pendingRead = 0, !.pendingWrite = 0]

\* releaseConnection(): tried again while there are messages; then
\* deleteConnection() posts onStop() to the network thread.
ReleaseConnection(c) ==
    IF c.refCount > 0 THEN [c EXCEPT !.releasing = TRUE]
    ELSE [c EXCEPT !.releasing = FALSE, !.stop = "posted"]

ReleaseProtocol(p) ==
    IF p.refCount > 0 THEN [p EXCEPT !.releasing = TRUE]
    ELSE [p EXCEPT !.releasing = FALSE, !.object = "deleted"]

CloseConnection(c) ==
    LET closing == [c EXCEPT !.state = "CLOSING"]
    IN IF c.pendingWrite > 0 /\ ~c.writeError THEN closing
       ELSE [ReleaseConnection(CloseSocket(closing)) EXCEPT !.state = "CLOSED"]

\* async_read with its timer.
StartRead(c, part) == [c EXCEPT !.pendingRead = @ + 1, !.reading = part,
                                !.readTimer = @ \cup {"armed"}]

\* handleReadError(): only an aborted read does not ask to close.
HandleReadError(c, aborted) == [(IF aborted THEN c ELSE Close(c)) EXCEPT !.readError = TRUE]

HandleWriteError(c, aborted) == [(IF aborted THEN c ELSE Close(c)) EXCEPT !.writeError = TRUE]

\* closeSocket() dereferences m_socket, which onStop() has deleted.
SocketUse(c) == IF c.socket = "deleted" THEN "socket" ELSE fault

-------------------------------------------------------------------------------
(* Output messages.                                                            *)

\* What Connection::send() does with a message.
Verdict(c) == CASE c.state # "OPEN" \/ c.writeError                     -> "discarded"
                [] c.state = "OPEN" /\ ~c.writeError /\ c.pendingWrite = 0 -> "written"
                [] OTHER -> IF c.pendingWrite > SlowLimit /\ ForceCloseSlow
                            THEN "closed" ELSE "waits"

Sent(c, m) == CASE Verdict(c) = "written" -> [c EXCEPT !.pendingWrite = @ + 1, !.writing = m,
                                                       !.writeTimer = @ \cup {"armed"}]
                [] Verdict(c) = "closed"  -> Close(c)
                [] OTHER                  -> c

\* onSendMessage() adds the headers and encrypts; the protocol lets go of the
\* message, if it is its buffer.
Seals(c) == IF Verdict(c) \in {"written", "discarded"} THEN 1 ELSE 0

LetGo(p, S) == IF p.buffer \in S THEN [p EXCEPT !.buffer = NoMessage] ELSE p

\* Connection::send(m) by a connection in state c, after which it is in state d;
\* the message has left the lists auto and add.
Send(m, c, d, p, auto, add) ==
    /\ conn' = d
    /\ sealed' = [sealed EXCEPT ![m] = @ + Seals(c)]
    /\ proto' = IF Seals(c) = 1 THEN LetGo(p, {m}) ELSE p
    /\ autoSend' = auto
    /\ addQueue' = IF Verdict(c) = "waits" THEN add \cup {m} ELSE add

\* configureOutputMessage(): a message counts in the connection and the protocol.
Counted(r) == [r EXCEPT !.refCount = @ + 1]

\* A use of msg->getProtocol(), which is a plain pointer.
ProtocolUse == IF proto.object # "alive" THEN "protocol" ELSE fault

-------------------------------------------------------------------------------
(* The network thread.                                                         *)

\* How an asynchronous operation ends: aborted when its socket was closed.
Results == {"ok", "error"} \cup (IF conn.socket = "open" THEN {} ELSE {"aborted"})

\* The state in which parseHeader and parsePacket find the connection.
AfterRead(result) ==
    LET c == [conn EXCEPT !.readTimer = @ \ {"armed"}, !.reading = "no"]
    IN IF result = "ok" THEN c ELSE HandleReadError(c, result = "aborted")

Usable(c) == c.state = "OPEN" /\ ~c.readError

ParseHeader(result) ==
    /\ conn.reading = "header" /\ result \in Results
    /\ LET c == AfterRead(result)
       IN conn' = IF Usable(c) THEN StartRead([c EXCEPT !.pendingRead = @ - 1], "body")
                  ELSE Close(c)
    /\ UNCHANGED <<proto, autoSend, addQueue, used, sealed, old, fault>>

ParsePacketFails(result) ==
    /\ conn.reading = "body" /\ result \in Results
    /\ ~Usable(AfterRead(result))
    /\ conn' = Close(AfterRead(result))
    /\ UNCHANGED <<proto, autoSend, addQueue, used, sealed, old, fault>>

\* A packet has arrived and the protocol reacts: it leaves the packet to a task,
\* closes the connection, answers, or answers and closes (disconnectClient).
ParsePacket(known, answer, close) ==
    /\ conn.reading = "body"
    /\ Usable(AfterRead("ok"))
    /\ LET c      == [AfterRead("ok") EXCEPT !.pendingRead = @ - 1, !.receivedFirst = TRUE]
           p      == IF ~conn.receivedFirst /\ ~HasProtocol
                     THEN [proto EXCEPT !.object = "alive", !.linked = TRUE] ELSE proto
           end(d) == StartRead(IF close THEN Close(d) ELSE d, "header")
       IN CASE ~known -> /\ ~HasProtocol   \* makeProtocol() knows no such protocol
                         /\ ~answer /\ close
                         /\ conn' = Close(c)
                         /\ UNCHANGED <<proto, autoSend, addQueue, used, sealed, old>>
            [] known /\ ~answer -> /\ conn' = end(c)
                                   /\ proto' = p
                                   /\ UNCHANGED <<autoSend, addQueue, used, sealed, old>>
            [] known /\ answer ->
                  \E m \in Message \ used :
                     /\ Send(m, Counted(c), end(Sent(Counted(c), m)), Counted(p), autoSend, addQueue)
                     /\ used' = used \cup {m}
                     /\ UNCHANGED old
    /\ UNCHANGED fault

OnWrite(result) ==
    /\ conn.writing # NoMessage /\ result \in Results
    /\ LET c == [conn EXCEPT !.writeTimer = @ \ {"armed"}, !.writing = NoMessage]
           d == IF result = "ok" THEN c ELSE HandleWriteError(c, result = "aborted")
       IN IF d.state # "OPEN" \/ d.writeError
          THEN conn' = Close(CloseSocket(d)) /\ fault' = SocketUse(d)
          ELSE conn' = [d EXCEPT !.pendingWrite = @ - 1] /\ UNCHANGED fault
    /\ UNCHANGED <<proto, autoSend, addQueue, used, sealed, old>>

\* A timer runs off; its handler is queued and no longer heeds cancel().
ReadTimerExpires == /\ "armed" \in conn.readTimer
                    /\ conn' = [conn EXCEPT !.readTimer = {"queued"}]
                    /\ UNCHANGED <<proto, autoSend, addQueue, used, sealed, old, fault>>

WriteTimerExpires == /\ "armed" \in conn.writeTimer
                     /\ conn' = [conn EXCEPT !.writeTimer = {"queued"}]
                     /\ UNCHANGED <<proto, autoSend, addQueue, used, sealed, old, fault>>

\* weak.lock(): something still owns the connection.
Owned == conn.stop # "done" \/ conn.reading # "no" \/ used # {} \/ proto.linked

\* A queued timeout handler; condition is the one that onReadTimeout or
\* onWriteTimeout checks, and c the state without the handler.
Timeout(c, condition) ==
    /\ IF Owned /\ condition
       THEN conn' = Close(CloseSocket(c)) /\ fault' = SocketUse(c)
       ELSE conn' = c /\ UNCHANGED fault
    /\ UNCHANGED <<proto, autoSend, addQueue, used, sealed, old>>

HandleReadTimeout ==
    /\ "queued" \in conn.readTimer
    /\ Timeout([conn EXCEPT !.readTimer = @ \ {"queued"}], conn.pendingRead > 0 \/ conn.readError)

HandleWriteTimeout ==
    /\ "queued" \in conn.writeTimer
    /\ Timeout([conn EXCEPT !.writeTimer = @ \ {"queued"}], conn.pendingWrite > 0 \/ conn.writeError)

\* onStop(), which the dispatcher's thread has posted.  Handlers run in the order
\* in which they were queued: the aborted read was queued when the socket was
\* closed, before onStop() was posted.
OnStop == /\ conn.stop = "posted" /\ conn.reading = "no"
          /\ conn' = [conn EXCEPT !.stop = "done", !.socket = "deleted",
                                  !.readTimer = @ \ {"armed"}, !.writeTimer = @ \ {"armed"}]
          /\ UNCHANGED <<proto, autoSend, addQueue, used, sealed, old, fault>>

-------------------------------------------------------------------------------
(* The dispatcher's thread.                                                    *)

CloseConnectionTask ==
    /\ conn.closeTasks > 0
    /\ LET c == [conn EXCEPT !.closeTasks = @ - 1]
       IN IF conn.state # "REQUEST_CLOSE" THEN conn' = c /\ UNCHANGED proto
          ELSE /\ conn' = CloseConnection(c)
               /\ proto' = IF HasProtocol THEN ReleaseProtocol([proto EXCEPT !.linked = FALSE])
                           ELSE proto
    /\ UNCHANGED <<autoSend, addQueue, used, sealed, old, fault>>

RetryReleaseConnection == /\ conn.releasing
                          /\ conn' = ReleaseConnection(conn)
                          /\ UNCHANGED <<proto, autoSend, addQueue, used, sealed, old, fault>>

RetryReleaseProtocol == /\ proto.releasing
                        /\ proto' = ReleaseProtocol(proto)
                        /\ UNCHANGED <<conn, autoSend, addQueue, used, sealed, old, fault>>

\* internalReleaseMessage()
TakeBack(m) == /\ m \in used \ Held
               /\ used' = used \ {m} /\ old' = old \ {m}
               /\ sealed' = [sealed EXCEPT ![m] = 0]
               /\ conn' = [conn EXCEPT !.refCount = @ - 1]
               /\ proto' = [proto EXCEPT !.refCount = @ - 1]
               /\ fault' = ProtocolUse
               /\ UNCHANGED <<autoSend, addQueue>>

\* The game has something to tell the client: it goes into the protocol's
\* buffer, a new message if there is none (getOutputBuffer).
Produce(m) == /\ HasProtocol /\ conn.receivedFirst
              /\ proto.buffer = NoMessage /\ m \notin used
              /\ used' = used \cup {m}
              /\ autoSend' = autoSend \cup {m}
              /\ conn' = Counted(conn)
              /\ proto' = Counted([proto EXCEPT !.buffer = m])
              /\ UNCHANGED <<addQueue, sealed, old, fault>>

\* A logout or a kick.
GameCloses == /\ HasProtocol /\ conn.receivedFirst
              /\ conn' = Close(conn)
              /\ UNCHANGED <<proto, autoSend, addQueue, used, sealed, old, fault>>

\* A login that fails: disconnectClient() in a task.
DisconnectClient(m) ==
    /\ HasProtocol /\ conn.receivedFirst /\ m \notin used
    /\ Send(m, Counted(conn), Close(Sent(Counted(conn), m)), Counted(proto), autoSend, addQueue)
    /\ used' = used \cup {m}
    /\ UNCHANGED <<old, fault>>

\* sendAll(), first loop: messages put off return to the list, except those that
\* are too old, which are sealed and dropped.
Requeue == /\ addQueue # {}
           /\ LET dropped == addQueue \cap old
              IN /\ autoSend' = autoSend \cup (addQueue \ dropped)
                 /\ sealed' = [m \in Message |-> sealed[m] + (IF m \in dropped THEN 1 ELSE 0)]
                 /\ proto' = LetGo(proto, dropped)
                 /\ fault' = IF dropped = {} THEN fault ELSE ProtocolUse
           /\ addQueue' = {}
           /\ UNCHANGED <<conn, used, old>>

\* sendAll(), second loop: a message that is long or old enough.
SendAll(m) == /\ m \in autoSend
              /\ Send(m, conn, Sent(conn, m), proto, autoSend \ {m}, addQueue)
              /\ fault' = ProtocolUse
              /\ UNCHANGED <<used, old>>

\* Ten seconds have passed since m was allocated.
Age(m) == /\ m \in used \ old
          /\ old' = old \cup {m}
          /\ UNCHANGED <<conn, proto, autoSend, addQueue, used, sealed, fault>>

Network == \/ \E r \in {"ok", "error", "aborted"} : ParseHeader(r) \/ ParsePacketFails(r) \/ OnWrite(r)
           \/ \E known, answer, close \in BOOLEAN : ParsePacket(known, answer, close)
           \/ ReadTimerExpires \/ WriteTimerExpires
           \/ HandleReadTimeout \/ HandleWriteTimeout \/ OnStop

Game == \/ CloseConnectionTask \/ RetryReleaseConnection \/ RetryReleaseProtocol
        \/ GameCloses \/ Requeue
        \/ \E m \in Message : TakeBack(m) \/ Produce(m) \/ DisconnectClient(m) \/ SendAll(m)

Next == Network \/ Game \/ \E m \in Message : Age(m)

Spec == Init /\ [][Next]_vars

\* The dispatcher executes its tasks, sendAll() runs after each of them, and the
\* network thread executes its handlers; a write ends, or its timer runs off.
Fairness == /\ WF_vars(CloseConnectionTask)
            /\ WF_vars(RetryReleaseConnection) /\ WF_vars(RetryReleaseProtocol)
            /\ WF_vars(Requeue) /\ WF_vars(OnStop)
            /\ WF_vars(WriteTimerExpires) /\ WF_vars(HandleWriteTimeout)
            /\ WF_vars(OnWrite("aborted"))
            /\ WF_vars(ParseHeader("aborted")) /\ WF_vars(ParsePacketFails("aborted"))
            /\ \A m \in Message : WF_vars(TakeBack(m)) /\ WF_vars(SendAll(m))

FairSpec == Spec /\ Fairness

-------------------------------------------------------------------------------
(* Properties.                                                                 *)

\* No handler meets an object that is gone: m_socket after onStop(), or the
\* protocol of a message that is still sent, dropped or taken back.
NoFault == fault = "none"

\* As long as an output message is out, the connection and the protocol count it
\* and are not deleted (addRef, unRef, releaseConnection, releaseProtocol).
ObjectsOutliveMessages ==
    /\ conn.refCount = Cardinality(used) /\ proto.refCount = Cardinality(used)
    /\ used # {} => conn.stop = "no" /\ proto.object = "alive"

\* A message is encrypted once, just before it is written, and not while it may
\* still be appended to or put off (send, sendAll, onSendMessage): encrypted
\* twice, or written plain, it would desynchronise the client.
SealedWhenWritten ==
    \A m \in Message : /\ m \in autoSend \cup addQueue => sealed[m] = 0
                       /\ m = conn.writing => sealed[m] = 1 /\ proto.buffer # m

\* What the game writes into the protocol's buffer is not lost silently: the
\* buffer is a message that is going to be sent (getOutputBuffer, onSendMessage).
BufferIsQueued == proto.buffer # NoMessage => proto.buffer \in autoSend \cup addQueue

\* The connection is open or somebody will finish closing it: a task, the end of
\* the write that is waited for, or the retries (close, closeConnection, onWrite).
ClosingIsDriven ==
    CASE conn.state = "OPEN"          -> conn.closeTasks = 0
      [] conn.state = "REQUEST_CLOSE" -> conn.closeTasks = 1
      [] conn.state = "CLOSING"       -> conn.closeTasks = 0 /\ conn.writing # NoMessage
      [] conn.state = "CLOSED"        -> conn.releasing \/ conn.stop # "no"

\* Every message, buffer and closing is accounted for, whichever of the two
\* threads is at work.
Accounted == TypeOK /\ ObjectsOutliveMessages /\ BufferIsQueued /\ ClosingIsDriven

\* A connection that is being closed is deleted in the end, and its protocol too,
\* whatever the client does.
ClosingEnds == conn.state # "OPEN" ~> conn.stop = "done" /\ proto.object # "alive"
===============================================================================
