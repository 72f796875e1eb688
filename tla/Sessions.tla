------------------------------- MODULE Sessions -------------------------------
(***************************************************************************)
(* Who plays a character (protocolgame.cpp login(), connect(), logout(),   *)
(* releaseProtocol(); player.cpp onThink(), kickPlayer()) and who waits    *)
(* for a place in the world (waitlist.cpp).                                *)
(*                                                                         *)
(* A client's first packet, its logout and the end of its connection are   *)
(* tasks of the dispatcher, run in the order in which they were posted.    *)
(* A client that logs in to a character somebody plays has the other one   *)
(* disconnected and takes over one second later, by a task of the          *)
(* scheduler.                                                              *)
(*                                                                         *)
(* Left out: clones of a character, accounts limited to one player, game   *)
(* states, players who may always log in, waiting from two addresses.      *)
(***************************************************************************)
EXTENDS Naturals, FiniteSets, Sequences, SequencesExt

CONSTANTS
    Clients,        \* ProtocolGame objects at a time (a bound)
    Names,          \* characters
    Premium,        \* those of premium accounts
    Casts,          \* sets of pairs: which clients may log in to which
                    \* characters in a behaviour (a bound)
    MaxPlayers,     \* maxPlayers of the configuration
    ReplaceKick,    \* replaceKickOnLogin
    None

ASSUME SessionsAssumption ==
    /\ IsFiniteSet(Names) /\ Premium \subseteq Names
    /\ MaxPlayers \in Nat \ {0} /\ ReplaceKick \in BOOLEAN
    /\ None \notin Names \cup Clients \cup {"inside", "outside"}
    /\ None \notin [client : Clients \cup {None}, connecting : Clients \cup {None}]

VARIABLES
    world,      \* the characters in the world, with their Player's fields
    proto,      \* the ProtocolGame objects and their connections
    waitList,   \* WaitingList::waitList
    queue,      \* the dispatcher's tasks about them
    cast        \* one of Casts
vars == <<world, proto, waitList, queue, cast>>

(***************************************************************************)
(* world[n] is None or the Player of n: client is Player::client (the      *)
(* protocol, or None), connecting the one for which isConnecting was set   *)
(* (None: it is not).  proto[c].state is that of its connection and        *)
(* object: "closed" is released by its connection and kept by its          *)
(* references.  proto[c].player is ProtocolGame::player:                   *)
(* None, the Player of who in the world, or one that is not (any more) in  *)
(* it.  proto[c].event is m_eventConnect; it names a creature, so it is    *)
(* "stale" once that has left the world.                                   *)
(***************************************************************************)
Free == [state |-> "free", who |-> None, player |-> None, accept |-> FALSE, event |-> "none"]
Events == {"none", "armed", "queued", "stale", "stale_queued"}
TypeOK ==
    /\ cast \in Casts
    /\ world \in [Names -> {None} \cup [client : Clients \cup {None}, connecting : Clients \cup {None}]]
    /\ proto \in [Clients -> [state : {"free", "open", "closing", "closed"},
                              who : Names \cup {None}, player : {None, "inside", "outside"},
                              accept : BOOLEAN, event : Events]]
    /\ queue \in Seq({"login", "logout", "close", "connect"} \X Clients)
WaitListOK == waitList \in Seq([who : Names, late : BOOLEAN])

Inside(n) == world[n] # None
Online == Cardinality({n \in Names : Inside(n)})            \* getPlayersOnline
Place(list, n) == SelectInSeq(list, LAMBDA w : w.who = n)   \* 0: not in it

\* Connection::close posts closeConnection, once.
Closing(pr, c) == IF pr[c].state = "open" THEN [pr EXCEPT ![c].state = "closing"] ELSE pr
CloseTask(pr, c) == IF pr[c].state = "open" THEN <<<<"close", c>>>> ELSE <<>>
Do(pr, tasks) ==        \* what a task of the queue does
    proto' = pr /\ queue' = Tail(queue) \o tasks /\ UNCHANGED cast
CloseClient(pr, c) == Do(Closing(pr, c), CloseTask(pr, c))  \* disconnectClient

\* Those who hold the Player of n hold one outside the world after exitWorld().
LeftBehind(pr, n) == [c \in Clients |->
    IF pr[c].who # n THEN pr[c]
    ELSE [pr[c] EXCEPT !.player = IF @ = "inside" THEN "outside" ELSE @,
                       !.event = CASE @ = "armed"  -> "stale"
                                   [] @ = "queued" -> "stale_queued"
                                   [] OTHER        -> @]]
-------------------------------------------------------------------------------
(***************************************************************************)
(* WaitingList::login of a client for n: the list, and whether he may in.  *)
(***************************************************************************)
Wait(n) == [who |-> n, late |-> FALSE]
Enlist(list, n) ==      \* premium accounts before the others
    LET free == SelectInSeq(list, LAMBDA w : w.who \notin Premium)
    IN IF n \in Premium /\ free # 0 THEN InsertAt(list, free, Wait(n)) ELSE Append(list, Wait(n))
WaitingLoginUnlisted(list, n) ==    \* mutant: a free place is for whoever comes
    IF Online < MaxPlayers
    THEN [list |-> SelectSeq(list, LAMBDA w : w.who # n), admit |-> TRUE]
    ELSE [list |-> IF Place(list, n) # 0 THEN list ELSE Enlist(list, n), admit |-> FALSE]
WaitingLogin(list, n) ==
    LET kept == SelectSeq(list, LAMBDA w : ~w.late)     \* cleanup
        slot == Place(kept, n)
    IN IF list = <<>> /\ Online < MaxPlayers THEN [list |-> list, admit |-> TRUE]
       ELSE IF slot = 0 THEN [list |-> Enlist(kept, n), admit |-> FALSE]
       ELSE IF Online + slot > MaxPlayers
            THEN [list |-> [kept EXCEPT ![slot].late = FALSE], admit |-> FALSE]
            ELSE [list |-> RemoveAt(kept, slot), admit |-> TRUE]

\* A client that is told to wait does not come back in time.
Late(i) == /\ ~waitList[i].late
           /\ waitList' = [waitList EXCEPT ![i].late = TRUE]
           /\ UNCHANGED <<world, proto, queue, cast>>
-------------------------------------------------------------------------------
Init == /\ world = [n \in Names |-> None] /\ proto = [c \in Clients |-> Free]
        /\ waitList = <<>> /\ queue = <<>> /\ cast \in Casts

Running(what, c) == queue # <<>> /\ Head(queue) = <<what, c>>

\* ProtocolGame::parseFirstPacket
FirstPacket(c, n) ==
    /\ <<c, n>> \in cast /\ proto[c].state = "free"
    /\ proto' = [proto EXCEPT ![c] = [Free EXCEPT !.state = "open", !.who = n]]
    /\ queue' = Append(queue, <<"login", c>>)
    /\ UNCHANGED <<world, waitList, cast>>

(***************************************************************************)
(* ProtocolGame::login: of a character that is not in the world ...        *)
(***************************************************************************)
New(c) == [proto EXCEPT ![c].player = "outside"]    \* a Player, not in the world
LoginRefused(c) ==      \* banished, cannot be loaded, finds no place on the map
    /\ Running("login", c) /\ ~Inside(proto[c].who)
    /\ \/ UNCHANGED waitList
       \/ LET w == WaitingLogin(waitList, proto[c].who)
          IN w.admit /\ waitList' = w.list
    /\ CloseClient(New(c), c) /\ UNCHANGED world
LoginWaits(c) ==
    /\ Running("login", c) /\ ~Inside(proto[c].who)
    /\ LET w == WaitingLogin(waitList, proto[c].who)
       IN ~w.admit /\ waitList' = w.list
    /\ CloseClient(New(c), c) /\ UNCHANGED world
LoginAccepted(c) ==     \* a login script that refuses kicks him (didEnterWorld)
    /\ Running("login", c) /\ ~Inside(proto[c].who)
    /\ LET w == WaitingLogin(waitList, proto[c].who)
       IN w.admit /\ waitList' = w.list
    /\ \/ /\ world' = [world EXCEPT ![proto[c].who] = [client |-> c, connecting |-> None]]
          /\ Do([proto EXCEPT ![c].player = "inside", ![c].accept = TRUE], <<>>)
       \/ CloseClient([New(c) EXCEPT ![c].accept = TRUE], c) /\ UNCHANGED world

(***************************************************************************)
(* ... of one that somebody plays, who is disconnected, or of one that     *)
(* nobody plays.                                                           *)
(***************************************************************************)
TakeOverForever(c, kicked, n) ==    \* mutant: no task connects the other
    /\ world' = [world EXCEPT ![n].connecting = c]
    /\ Do(Closing(proto, kicked), CloseTask(proto, kicked))
TakeOver(c, kicked, n) ==
    /\ world' = [world EXCEPT ![n].connecting = c]
    /\ Do([Closing(proto, kicked) EXCEPT ![c].event = "armed"], CloseTask(proto, kicked))
LoginReplaces(c) ==
    /\ Running("login", c) /\ Inside(proto[c].who)
    /\ LET n == proto[c].who
           player == world[n]
       IN /\ player.client # None
          /\ IF ReplaceKick THEN TakeOver(c, player.client, n)
             ELSE CloseClient(proto, c) /\ UNCHANGED world
    /\ UNCHANGED waitList

\* ProtocolGame::connect
AttachAlways(c) ==      \* mutant: whoever is the client
    LET n == proto[c].who IN
    IF Inside(n) /\ proto[c].event \notin {"stale", "stale_queued"}
    THEN /\ world' = [world EXCEPT ![n] = [client |-> c, connecting |-> None]]
         /\ Do([proto EXCEPT ![c] = [@ EXCEPT !.player = "inside", !.accept = TRUE,
                                              !.event = "none"]], <<>>)
    ELSE CloseClient([proto EXCEPT ![c].event = "none"], c) /\ UNCHANGED world
Attach(c) ==
    LET n == proto[c].who IN
    IF Inside(n) /\ proto[c].event \notin {"stale", "stale_queued"} /\ world[n].client = None
    THEN /\ world' = [world EXCEPT ![n] = [client |-> c, connecting |-> None]]
         /\ Do([proto EXCEPT ![c] = [@ EXCEPT !.player = "inside", !.accept = TRUE,
                                              !.event = "none"]], <<>>)
    ELSE CloseClient([proto EXCEPT ![c].event = "none"], c) /\ UNCHANGED world
LoginAttaches(c) ==
    /\ Running("login", c) /\ Inside(proto[c].who) /\ world[proto[c].who].client = None
    /\ Attach(c) /\ UNCHANGED waitList
RetryDue(c) == proto[c].state = "closed" /\ proto[c].event = "none"
Second(c) ==            \* the scheduler's second is over: the client that c
                        \* replaces was released before, by a retry every 50 ms
    /\ proto[c].event \in {"armed", "stale"}
    /\ LET n == proto[c].who
       IN Inside(n) /\ world[n].connecting = c /\ world[n].client # None
          => ~RetryDue(world[n].client)
    /\ proto' = [proto EXCEPT ![c].event = IF @ = "armed" THEN "queued" ELSE "stale_queued"]
    /\ queue' = Append(queue, <<"connect", c>>)
    /\ UNCHANGED <<world, waitList, cast>>
Connect(c) == Running("connect", c) /\ Attach(c) /\ UNCHANGED waitList

(***************************************************************************)
(* The end of a session.                                                   *)
(***************************************************************************)
\* The network loses the client (Connection's handlers).
Lose(c) == /\ proto[c].state = "open"
           /\ proto' = Closing(proto, c)
           /\ queue' = queue \o CloseTask(proto, c)
           /\ UNCHANGED <<world, waitList, cast>>

\* Connection::closeConnection, ProtocolGame::releaseProtocol, and its retry
\* while a task still holds a reference.
Released(c) == [n \in Names |-> IF world[n] # None /\ world[n].client = c
                                THEN [world[n] EXCEPT !.client = None] ELSE world[n]]
CloseConnection(c) ==
    /\ Running("close", c)
    /\ world' = Released(c)
    /\ Do([proto EXCEPT ![c] = IF @.event = "none" THEN Free ELSE [@ EXCEPT !.state = "closed"]],
          <<>>)
    /\ UNCHANGED waitList
RetryRelease(c) ==
    /\ RetryDue(c)
    /\ world' = Released(c) /\ proto' = [proto EXCEPT ![c] = Free]
    /\ UNCHANGED <<waitList, queue, cast>>

\* ProtocolGame::parseLogout
AskLogout(c) ==
    /\ proto[c].state = "open" /\ proto[c].accept
    /\ <<"logout", c>> \notin ToSet(queue)
    /\ queue' = Append(queue, <<"logout", c>>)
    /\ UNCHANGED <<world, proto, waitList, cast>>

\* ProtocolGame::logout: a fight, the place or a script may forbid it.
Logout(c) ==
    /\ Running("logout", c) /\ UNCHANGED waitList
    /\ \/ /\ proto[c].player = "inside"
          /\ Do(proto, <<>>) /\ UNCHANGED world
       \/ /\ proto[c].player = "inside"
          /\ world' = [world EXCEPT ![proto[c].who] = None]
          /\ Do(LeftBehind(Closing(proto, c), proto[c].who), CloseTask(proto, c))
       \/ proto[c].player = "outside" /\ CloseClient(proto, c) /\ UNCHANGED world

\* Player::kickPlayer, by the game: its client is closed, and he leaves.
Kick(n) ==
    /\ Inside(n) /\ world' = [world EXCEPT ![n] = None]
    /\ LET c == world[n].client IN
       IF c = None THEN proto' = LeftBehind(proto, n) /\ UNCHANGED queue
       ELSE /\ proto' = LeftBehind(Closing(proto, c), n)
            /\ queue' = queue \o CloseTask(proto, c)
    /\ UNCHANGED <<waitList, cast>>

\* Player::onThink: no answer for a minute, and he may log out (canLogout).
PongTimeout(n) == Inside(n) /\ world[n].connecting = None /\ Kick(n)

\* He dies: his client stays, with a Player that is not in the world.
Die(n) == /\ Inside(n) /\ world' = [world EXCEPT ![n] = None]
          /\ proto' = LeftBehind(proto, n) /\ UNCHANGED <<waitList, queue, cast>>

Dispatch == \E c \in Clients :
    \/ LoginRefused(c) \/ LoginWaits(c) \/ LoginAccepted(c)
    \/ LoginReplaces(c) \/ LoginAttaches(c)
    \/ Connect(c) \/ CloseConnection(c) \/ Logout(c)
Next ==
    \/ \E c \in Clients, n \in Names : FirstPacket(c, n)
    \/ Dispatch
    \/ \E c \in Clients : Second(c) \/ Lose(c) \/ RetryRelease(c) \/ AskLogout(c)
    \/ \E n \in Names : Kick(n) \/ PongTimeout(n) \/ Die(n)
    \/ \E i \in DOMAIN waitList : Late(i)

\* The dispatcher runs its tasks, the scheduler's timers expire, and a player
\* thinks, and is found silent, as long as he may log out.
Spec == /\ Init /\ [][Next]_vars
        /\ WF_vars(Dispatch)
        /\ \A c \in Clients : WF_vars(Second(c)) /\ WF_vars(RetryRelease(c))
        /\ \A n \in Names : WF_vars(PongTimeout(n) /\ world[n].client = None)
-------------------------------------------------------------------------------
\* One client commands a character: any other that still holds its Player has
\* lost its connection, so that none of its packets is read any more
\* (login's takeover, connect, releaseProtocol).
OneCommander ==
    \A c \in Clients :
        proto[c].state = "open" /\ proto[c].player = "inside" => world[proto[c].who].client = c

\* A player may not be logged out while he waits for a client that takes him
\* over: then there is one, whose second is running (isConnecting is reset by
\* connect() alone).
ConnectingIsExpected ==
    \A n \in Names : Inside(n) /\ world[n].connecting # None =>
        LET c == world[n].connecting
        IN proto[c].who = n /\ proto[c].event \in {"armed", "queued"}

\* Player::client is never the address of a protocol that was deleted
\* (releaseProtocol, retried while the protocol is referenced).
ClientsExist ==
    \A n \in Names : Inside(n) /\ world[n].client # None =>
        LET c == world[n].client
        IN proto[c].state # "free" /\ proto[c].who = n /\ proto[c].player = "inside"

\* Whoever waits at a place that is his to take keeps it, whoever comes
\* before he does: only a premium account passes one that is not
\* (WaitingList::login).
Ready(on, list, n) == Place(list, n) # 0 /\ on + Place(list, n) <= MaxPlayers
NoOvertaking == [][
    \A n \in Names :
        /\ Ready(Online, waitList, n) /\ ~waitList[Place(waitList, n)].late
        /\ ~\E c \in Clients : proto[c].who = n /\ Running("login", c)
        /\ n \in Premium \/ ~\E m \in Premium : Place(waitList, m) = 0 /\ Place(waitList', m) # 0
        => Ready(Online, waitList, n)' ]_vars

\* The world is never fuller than maxPlayers, although places are given away
\* from a list of those who come back (WaitingList::login).
NeverOverfull == Online <= MaxPlayers

\* Clients and players agree on who commands whom (login, connect, releaseProtocol).
SessionsAgree == TypeOK /\ OneCommander /\ ConnectingIsExpected /\ ClientsExist

\* Places are given to those who wait for them and never beyond the limit
\* (WaitingList::login).
WaitingIsFair == NoOvertaking /\ [](WaitListOK /\ NeverOverfull)

\* A player without a client does not stay in the world for ever, unless
\* clients keep taking him over.
AbandonedLeave == \A n \in Names :
    (Inside(n) /\ world[n].client = None) ~> (~Inside(n) \/ world[n].client # None)
===============================================================================
