-------------------------------- MODULE Party --------------------------------
(***************************************************************************)
(* Parties (party.cpp), who is invited to them, and the chat channel of a  *)
(* party (chat.cpp).  A party is an object that deletes itself; its        *)
(* players hold raw pointers to it, it holds raw pointers to them, and the *)
(* channels are found by the address of their party.  A deleted party's    *)
(* address may be that of the next one.  All of it runs in the             *)
(* dispatcher's thread, one request at a time.                             *)
(*                                                                         *)
(* A call is an operator from a society to the society it leaves.  Left    *)
(* out: shared experience, shields and messages, the other channels.       *)
(***************************************************************************)
EXTENDS Naturals, FiniteSets, Sequences, SequencesExt

CONSTANTS
    Players,
    SelfInvites, \* whether a client invites its own player: none offers it,
                \* and the server does not check it
    Parties,    \* addresses at which party objects are allocated (a bound)
    None        \* no party, no leader (nullptr)

ASSUME PartyAssumption == None \notin Players \cup Parties

VARIABLE soc
vars == <<soc>>

(***************************************************************************)
(* online: the players in the world; linked: those with a client.          *)
(* party[p] and invited[p] are Player::party and invitePartyList;          *)
(* leader[x], members[x] and invites[x] belong to the party object at x    *)
(* (leader None: there is none).  chan[x] is the channel the chat keeps    *)
(* for address x, and users[x] the players in it (raw pointers too).       *)
(***************************************************************************)
Alive(s, x) == s.leader[x] # None
Member(s, x, p)  == p \in s.online /\ p \in Range(s.members[x])   \* isPlayerMember
IsInvited(s, x, p) == p \in s.online /\ p \in s.invites[x]        \* isPlayerInvited
CanDisband(s, x) == s.members[x] = <<>> /\ s.invites[x] = {}

\* Player::isInviting
Inviting(s, p, q) == LET x == s.party[p]
                     IN x # None /\ s.leader[x] = p /\ IsInvited(s, x, q)

\* Chat::getChannel for the party channel of p, and what is done with it:
\* ProtocolGame::sendClosePrivate takes him out of the channel it finds.
Channel(s, p) == IF s.party[p] # None /\ s.chan[s.party[p]] THEN s.party[p] ELSE None
CloseChannel(s, p) ==
    IF Channel(s, p) = None THEN s
    ELSE [s EXCEPT !.users[Channel(s, p)] = @ \ {p}]
SendClosePrivate(s, p) == IF p \in s.linked THEN CloseChannel(s, p) ELSE s

\* Party::disband of every party of X, which ends with "delete this".
DisbandOnly(s, X) ==                 \* mutant: the invitations stay
    [s EXCEPT
        !.party   = [p \in Players |-> IF @[p] \in X THEN None ELSE @[p]],
        !.leader  = [x \in Parties |-> IF x \in X THEN None ELSE @[x]],
        !.members = [x \in Parties |-> IF x \in X THEN <<>> ELSE @[x]],
        !.invites = [x \in Parties |-> IF x \in X THEN {} ELSE @[x]]]
Companions(s, x) == {s.leader[x]} \cup Range(s.members[x])
Disband(s, X) ==
    LET told(x) == {p \in Companions(s, x) \cap s.linked : s.party[p] = x}
    IN [s EXCEPT
         !.users   = [x \in Parties |-> IF x \in X /\ s.chan[x] THEN @[x] \ told(x) ELSE @[x]],
         !.party   = [p \in Players |->
                        IF \E x \in X : p \in Companions(s, x) THEN None ELSE @[p]],
         !.invited = [p \in Players |-> @[p] \ {x \in X : p \in s.invites[x]}],
         !.leader  = [x \in Parties |-> IF x \in X THEN None ELSE @[x]],
         !.members = [x \in Parties |-> IF x \in X THEN <<>> ELSE @[x]],
         !.invites = [x \in Parties |-> IF x \in X THEN {} ELSE @[x]]]

\* Party::passLeadership
PassLeadership(s, x, p) ==
    IF ~Member(s, x, p) \/ p = s.leader[x] THEN s
    ELSE [s EXCEPT !.leader[x] = p,
                   !.members[x] = <<s.leader[x]>> \o RemoveFirst(@, p)]

\* Party::leave
LeaveParty(s, x, p) ==
    LET alone == Len(s.members[x]) = 1 /\ s.invites[x] = {}
        missing == s.leader[x] = p /\ (s.members[x] = <<>> \/ alone)
        s1 == IF s.leader[x] = p /\ ~missing
              THEN PassLeadership(s, x, Head(s.members[x])) ELSE s
        s2 == [s1 EXCEPT !.members[x] = RemoveFirst(@, p), !.invites[x] = @ \ {p},
                         !.party[p] = None]
        s3 == SendClosePrivate(s2, p)
    IN IF ~Member(s, x, p) /\ p # s.leader[x] THEN s
       ELSE IF missing \/ CanDisband(s3, x) THEN Disband(s3, {x}) ELSE s3

\* Party::removeInvite of p by every party of X
RemoveInvites(s, X, p) ==
    LET gone == {x \in X : IsInvited(s, x, p)}
        t == [s EXCEPT
                !.invites = [x \in Parties |-> IF x \in gone THEN @[x] \ {p} ELSE @[x]],
                !.invited[p] = @ \ gone]
    IN Disband(t, {x \in gone : CanDisband(t, x)})

\* Player::clearPartyInvitations: a list of different parties, of which none
\* knows of the others.
ClearInvitations(s, p) == RemoveInvites([s EXCEPT !.invited[p] = {}], s.invited[p], p)

\* Chat::removeUserFromAllChannels
RemoveFromOwnChannel(s, p) == CloseChannel(s, p)    \* mutant: only from his own
RemoveFromAllChannels(s, p) ==
    [s EXCEPT !.users = [x \in Parties |-> IF s.chan[x] THEN @[x] \ {p} ELSE @[x]]]

-----------------------------------------------------------------------------
(* The players' requests.                                                  *)

Free == {x \in Parties : ~Alive(soc, x)}

\* Game::playerInviteToParty: the first invitation makes the party.
Invite(p, q) ==
    /\ {p, q} \subseteq soc.online /\ ~Inviting(soc, q, p) /\ soc.party[q] = None
    /\ p # q \/ SelfInvites
    /\ \E x \in IF soc.party[p] = None THEN Free ELSE {soc.party[p]} :
         /\ soc.party[p] # None => soc.leader[x] = p
         /\ ~IsInvited(soc, x, q)
         /\ soc' = [soc EXCEPT !.party[p] = x, !.leader[x] = p,
                               !.invites[x] = @ \cup {q}, !.invited[q] = @ \cup {x}]

\* Game::playerJoinParty and Party::join
Join(p, q) ==
    LET x == soc.party[q] IN
    /\ {p, q} \subseteq soc.online /\ Inviting(soc, q, p)
    /\ soc.party[p] = None /\ ~Member(soc, x, p)
    /\ soc' = [soc EXCEPT !.members[x] = Append(@, p), !.party[p] = x,
                          !.invited[p] = @ \ {x}, !.invites[x] = @ \ {p}]

\* Game::playerRevokePartyInvitation
Revoke(p, q) ==
    /\ {p, q} \subseteq soc.online /\ Inviting(soc, p, q)
    /\ soc' = RemoveInvites(soc, {soc.party[p]}, q)

\* Game::playerPassPartyLeadership
PlayerPassLeadership(p, q) ==
    LET x == soc.party[p] IN
    /\ {p, q} \subseteq soc.online /\ x # None /\ soc.leader[x] = p /\ soc.party[q] = x
    /\ soc' = PassLeadership(soc, x, q)

\* Game::playerLeaveParty, of one who is not in a fight
PlayerLeaveParty(p) ==
    /\ p \in soc.online /\ soc.party[p] # None
    /\ soc' = LeaveParty(soc, soc.party[p], p)

\* The list of channels makes the channel; Game::playerOpenChannel enters it.
RequestChannels(p) ==
    /\ p \in soc.online /\ soc.party[p] # None /\ Channel(soc, p) = None
    /\ soc' = [soc EXCEPT !.chan[soc.party[p]] = TRUE]
OpenChannel(p) ==
    /\ p \in soc.online /\ Channel(soc, p) # None
    /\ soc' = [soc EXCEPT !.users[Channel(soc, p)] = @ \cup {p}]
PlayerCloseChannel(p) == p \in soc.online /\ soc' = CloseChannel(soc, p)

-----------------------------------------------------------------------------
(* Coming and going.                                                       *)

\* What a player leaves when he logs out or a game master makes himself
\* invisible: the invitations first, then the party.
Unsociable(s, p) ==
    LET t == ClearInvitations(s, p)
    IN IF t.party[p] = None THEN t ELSE LeaveParty(t, t.party[p], p)
Ghost(p) == p \in soc.online /\ soc' = Unsociable(soc, p)

\* Player::onCreatureDisappear; the object of the player goes with him.
Logout(p) ==
    /\ p \in soc.online
    /\ soc' = [RemoveFromAllChannels(Unsociable(soc, p), p) EXCEPT
                 !.online = @ \ {p}, !.linked = @ \ {p}]
Login(p) ==
    /\ p \notin soc.online
    /\ soc' = [soc EXCEPT !.online = @ \cup {p}, !.linked = @ \cup {p},
                          !.party[p] = None, !.invited[p] = {}]

\* The client goes but the player stays in the world; another client of his
\* may take over (ProtocolGame::login).
LoseClient(p) == p \in soc.linked /\ soc' = [soc EXCEPT !.linked = @ \ {p}]
Replace(p) ==
    /\ p \in soc.online
    /\ soc' = [(IF p \in soc.linked THEN RemoveFromAllChannels(soc, p) ELSE soc) EXCEPT
                 !.linked = @ \cup {p}]

Init == soc = [online |-> Players, linked |-> Players,
    party |-> [p \in Players |-> None], invited |-> [p \in Players |-> {}],
    leader |-> [x \in Parties |-> None], members |-> [x \in Parties |-> <<>>],
    invites |-> [x \in Parties |-> {}],
    chan |-> [x \in Parties |-> FALSE], users |-> [x \in Parties |-> {}]]
Next == \E p \in Players :
    \/ \E q \in Players : Invite(p, q) \/ Join(p, q) \/ Revoke(p, q) \/ PlayerPassLeadership(p, q)
    \/ PlayerLeaveParty(p) \/ RequestChannels(p) \/ OpenChannel(p) \/ PlayerCloseChannel(p)
    \/ Ghost(p) \/ Logout(p) \/ Login(p) \/ LoseClient(p) \/ Replace(p)
Spec == Init /\ [][Next]_vars

-----------------------------------------------------------------------------
(* Properties.                                                             *)

TypeOK ==
    /\ soc.online \subseteq Players /\ soc.linked \subseteq soc.online
    /\ soc.party \in [Players -> Parties \cup {None}]
    /\ soc.invited \in [Players -> SUBSET Parties]
    /\ soc.leader \in [Parties -> Players \cup {None}]
    /\ soc.invites \in [Parties -> SUBSET Players]
    /\ \A x \in Parties : Range(soc.members[x]) \subseteq Players
    /\ soc.chan \in [Parties -> BOOLEAN] /\ soc.users \in [Parties -> SUBSET Players]

\* The pointers agree on both sides: who points to a party is its leader or
\* one of its members, once, and the other way round; so no player is left
\* with a pointer to a deleted party, no party with one to a player who is
\* gone, and no party of one without invitations stays allocated.
PartyAgrees ==
    /\ TypeOK
    /\ \A p \in Players, x \in Parties :
         (soc.party[p] = x) = (p \in {soc.leader[x]} \cup Range(soc.members[x]))
    /\ \A x \in Parties : Alive(soc, x) =>
         /\ {soc.leader[x]} \cup Range(soc.members[x]) \subseteq soc.online
         /\ IsInjective(soc.members[x]) /\ soc.leader[x] \notin Range(soc.members[x])
         /\ ~CanDisband(soc, x)

\* The invitations too: what a player may join is a party that lives and
\* invites him, even where its address was another party's before.
InvitesAgree == \A p \in Players, x \in Parties :
    /\ (x \in soc.invited[p]) = (p \in soc.invites[x])
    /\ p \in soc.invites[x] => Alive(soc, x) /\ p \in soc.online

\* What players and parties know of each other is the same on both sides.
SocietyAgrees == PartyAgrees /\ InvitesAgree

\* Nobody who has left the world is written to: every listener is in it.
ListenersInWorld == \A x \in Parties : soc.users[x] \subseteq soc.online

\* "Open the party channel to communicate with your companions"
\* (party.cpp): who hears the channel of a party is in that party.
CompanionsListen == \A x \in Parties : \A p \in soc.users[x] : soc.party[p] = x
=============================================================================
