------------------------------ MODULE PartyProofs ------------------------------
(* Proofs about module Party: players and parties agree about each other, and  *)
(* no channel keeps a listener who has left the world, for any players,        *)
(* addresses of parties and order of their requests.                           *)
EXTENDS Party, SequenceTheorems, TLAPS

-------------------------------------------------------------------------------
(* What the operations on a queue do to the set of its elements, and that they *)
(* keep a queue without duplicates free of them.                               *)

\* Putting a new element at the back (Dispatcher::addTask, push_back).
LEMMA AppendLemma ==
  ASSUME NEW S, NEW s \in Seq(S), NEW e \in S, e \notin Range(s)
  PROVE  /\ Range(Append(s, e)) = Range(s) \cup {e}
         /\ IsInjective(s) => IsInjective(Append(s, e))
<1>1. /\ DOMAIN Append(s, e) = 1..(Len(s) + 1)
      /\ DOMAIN s = 1..Len(s)
      /\ \A i \in 1..Len(s) : Append(s, e)[i] = s[i]
      /\ Append(s, e)[Len(s) + 1] = e
      /\ Len(s) \in Nat
  OBVIOUS
<1>2. Range(Append(s, e)) \subseteq Range(s) \cup {e}
  BY <1>1 DEF Range
<1>3. Range(s) \cup {e} \subseteq Range(Append(s, e))
  BY <1>1 DEF Range
<1>4. ASSUME IsInjective(s) PROVE IsInjective(Append(s, e))
  BY <1>1, <1>4 DEF IsInjective, Range
<1>. QED
  BY <1>2, <1>3, <1>4

\* Putting a new element at the front (Dispatcher::addTask, push_front).
LEMMA PrependLemma ==
  ASSUME NEW S, NEW s \in Seq(S), NEW e \in S, e \notin Range(s)
  PROVE  /\ Range(<<e>> \o s) = Range(s) \cup {e}
         /\ IsInjective(s) => IsInjective(<<e>> \o s)
<1> DEFINE q == <<e>> \o s
<1>1. /\ DOMAIN q = 1..(Len(s) + 1)
      /\ DOMAIN s = 1..Len(s)
      /\ \A i \in 1..Len(s) : q[i + 1] = s[i]
      /\ q[1] = e
      /\ Len(s) \in Nat
  OBVIOUS
<1>0. \A i \in 1..(Len(s) + 1) : i = 1 \/ (i - 1 \in 1..Len(s) /\ q[i] = s[i-1])
  BY <1>1
<1> HIDE DEF q
<1>2. Range(q) \subseteq Range(s) \cup {e}
  BY <1>1, <1>0 DEF Range
<1>3. Range(s) \cup {e} \subseteq Range(q)
  BY <1>1 DEF Range
<1>4. ASSUME IsInjective(s) PROVE IsInjective(q)
  BY <1>1, <1>0, <1>4 DEF IsInjective, Range
<1>. QED
  BY <1>2, <1>3, <1>4 DEF q

-------------------------------------------------------------------------------
(* The inductive invariant. *)

Society == [online : SUBSET Players, linked : SUBSET Players,
            party : [Players -> Parties \cup {None}],
            invited : [Players -> SUBSET Parties],
            leader : [Parties -> Players \cup {None}],
            members : [Parties -> Seq(Players)],
            invites : [Parties -> SUBSET Players],
            chan : [Parties -> BOOLEAN], users : [Parties -> SUBSET Players]]

\* The two sides of a membership and of an invitation; but who points to a party
\* of X, which is to be disbanded, may have been told already.
Mutual(s, X) ==
    \A p \in Players, x \in Parties :
        /\ s.party[p] = x => p \in Companions(s, x)
        /\ p \in Companions(s, x) => s.party[p] = x \/ (x \in X /\ s.party[p] = None)
        /\ x \in s.invited[p] <=> p \in s.invites[x]
        /\ p \in s.invites[x] => s.party[p] # x

\* A party that lives has its leader and somebody else; a deleted one nobody.
Sound(s, x) ==
    /\ Alive(s, x) => /\ Companions(s, x) \subseteq s.online
                      /\ IsInjective(s.members[x]) /\ s.leader[x] \notin Range(s.members[x])
                      /\ ~CanDisband(s, x)
    /\ ~Alive(s, x) => CanDisband(s, x)
    /\ s.invites[x] \subseteq s.online

Listeners(s, x) == s.users[x] \subseteq s.online /\ (~s.chan[x] => s.users[x] = {})

\* The society s, of which the parties of X are to be disbanded.
Good(s, X) == /\ s \in Society /\ s.linked \subseteq s.online
              /\ Mutual(s, X)
              /\ \A x \in Parties \ X : Sound(s, x)
              /\ \A x \in Parties : Listeners(s, x)

Inv == Good(soc, {})

-------------------------------------------------------------------------------
(* Disbanding. *)

\* What disbanding leaves in every part of a society.
LEMMA DisbandFields ==
    ASSUME NEW s \in Society, NEW X \in SUBSET Parties
    PROVE  LET t == Disband(s, X) IN
           /\ t \in Society
           /\ t.online = s.online /\ t.linked = s.linked /\ t.chan = s.chan
           /\ \A p \in Players :
                 /\ t.party[p] = IF \E x \in X : p \in Companions(s, x) THEN None
                                                                       ELSE s.party[p]
                 /\ t.invited[p] = s.invited[p] \ {x \in X : p \in s.invites[x]}
           /\ \A x \in Parties :
                 /\ t.leader[x] = IF x \in X THEN None ELSE s.leader[x]
                 /\ t.members[x] = IF x \in X THEN <<>> ELSE s.members[x]
                 /\ t.invites[x] = IF x \in X THEN {} ELSE s.invites[x]
                 /\ t.users[x] \subseteq s.users[x]
<1>. DEFINE told(x) == {p \in Companions(s, x) \cap s.linked : s.party[p] = x}
            users == [x \in Parties |-> IF x \in X /\ s.chan[x] THEN s.users[x] \ told(x)
                                                                ELSE s.users[x]]
            party == [p \in Players |-> IF \E x \in X : p \in Companions(s, x) THEN None
                                                                            ELSE s.party[p]]
            invited == [p \in Players |-> s.invited[p] \ {x \in X : p \in s.invites[x]}]
            leader == [x \in Parties |-> IF x \in X THEN None ELSE s.leader[x]]
            members == [x \in Parties |-> IF x \in X THEN <<>> ELSE s.members[x]]
            invites == [x \in Parties |-> IF x \in X THEN {} ELSE s.invites[x]]
<1>0. /\ s.users \in [Parties -> SUBSET Players]
      /\ s.party \in [Players -> Parties \cup {None}]
      /\ s.invited \in [Players -> SUBSET Parties]
      /\ s.leader \in [Parties -> Players \cup {None}]
      /\ s.members \in [Parties -> Seq(Players)]
      /\ s.invites \in [Parties -> SUBSET Players]
  BY DEF Society
<1>1. Disband(s, X) = [s EXCEPT !.users = users, !.party = party, !.invited = invited,
                                !.leader = leader, !.members = members, !.invites = invites]
  BY DEF Disband
<1>2. /\ users \in [Parties -> SUBSET Players]
      /\ \A x \in Parties : users[x] \subseteq s.users[x]
  BY <1>0
<1>3. party \in [Players -> Parties \cup {None}] BY <1>0
<1>4. invited \in [Players -> SUBSET Parties] BY <1>0
<1>5. leader \in [Parties -> Players \cup {None}] BY <1>0
<1>6. members \in [Parties -> Seq(Players)] BY <1>0
<1>7. invites \in [Parties -> SUBSET Players] BY <1>0
<1>8. /\ \A p \in Players :
            /\ party[p] = IF \E x \in X : p \in Companions(s, x) THEN None ELSE s.party[p]
            /\ invited[p] = s.invited[p] \ {x \in X : p \in s.invites[x]}
      /\ \A x \in Parties :
            /\ leader[x] = IF x \in X THEN None ELSE s.leader[x]
            /\ members[x] = IF x \in X THEN <<>> ELSE s.members[x]
            /\ invites[x] = IF x \in X THEN {} ELSE s.invites[x]
  OBVIOUS
<1>. HIDE DEF users, party, invited, leader, members, invites
<1>9. /\ Disband(s, X) \in Society
      /\ Disband(s, X).online = s.online /\ Disband(s, X).linked = s.linked
      /\ Disband(s, X).chan = s.chan /\ Disband(s, X).users = users
      /\ Disband(s, X).party = party /\ Disband(s, X).invited = invited
      /\ Disband(s, X).leader = leader /\ Disband(s, X).members = members
      /\ Disband(s, X).invites = invites
  BY <1>1, <1>2, <1>3, <1>4, <1>5, <1>6, <1>7 DEF Society
<1>. QED BY <1>2, <1>8, <1>9

\* Disbanding makes a society sound in which only the parties disbanded are not.
LEMMA DisbandGood ==
    ASSUME NEW s, NEW X \in SUBSET Parties, Good(s, X)
    PROVE  Good(Disband(s, X), {})
<1>0. PICK t : t = Disband(s, X) OBVIOUS
<1>1. s \in Society BY DEF Good
<1>2. /\ t \in Society
      /\ t.online = s.online /\ t.linked = s.linked /\ t.chan = s.chan
      /\ \A p \in Players :
            /\ t.party[p] = IF \E x \in X : p \in Companions(s, x) THEN None ELSE s.party[p]
            /\ t.invited[p] = s.invited[p] \ {x \in X : p \in s.invites[x]}
      /\ \A x \in Parties :
            /\ t.leader[x] = IF x \in X THEN None ELSE s.leader[x]
            /\ t.members[x] = IF x \in X THEN <<>> ELSE s.members[x]
            /\ t.invites[x] = IF x \in X THEN {} ELSE s.invites[x]
            /\ t.users[x] \subseteq s.users[x]
  BY <1>0, <1>1, DisbandFields
<1>3. None \notin Players /\ None \notin Parties BY PartyAssumption
<1>4. \A x \in Parties \ X : Companions(t, x) = Companions(s, x) BY <1>2 DEF Companions
<1>5. \A x \in X : Companions(t, x) = {None} BY <1>2 DEF Companions, Range
<1>6. ASSUME NEW p \in Players, NEW x \in Parties
      PROVE  /\ t.party[p] = x => p \in Companions(t, x)
             /\ p \in Companions(t, x) => t.party[p] = x
             /\ x \in t.invited[p] <=> p \in t.invites[x]
             /\ p \in t.invites[x] => t.party[p] # x
  <2>1. /\ s.party[p] = x => p \in Companions(s, x)
        /\ x \in s.invited[p] <=> p \in s.invites[x]
        /\ p \in s.invites[x] => s.party[p] # x
    BY DEF Good, Mutual
  <2>2. \A y \in Parties : p \in Companions(s, y) =>
            s.party[p] = y \/ (y \in X /\ s.party[p] = None)
    BY DEF Good, Mutual
  <2>3. t.party[p] # s.party[p] => t.party[p] = None BY <1>2
  <2>4. t.party[p] = x => p \in Companions(t, x)
    BY <1>2, <1>3, <1>4, <2>1
  <2>5. ASSUME p \in Companions(t, x) PROVE t.party[p] = x
    <3>1. x \notin X BY <1>3, <1>5, <2>5
    <3>2. p \in Companions(s, x) BY <1>4, <2>5, <3>1
    <3>3. s.party[p] = x BY <2>2, <3>1, <3>2
    <3>4. ASSUME NEW y \in X, p \in Companions(s, y) PROVE FALSE
      BY <1>3, <2>2, <3>1, <3>3, <3>4
    <3>. QED BY <1>2, <3>3, <3>4
  <2>6. (x \in t.invited[p]) <=> (p \in t.invites[x]) BY <1>2, <2>1
  <2>7. p \in t.invites[x] => t.party[p] # x BY <1>2, <1>3, <2>1
  <2>. QED BY <2>4, <2>5, <2>6, <2>7
<1>7. ASSUME NEW x \in Parties PROVE Sound(t, x)
  <2>1. CASE x \in X BY <1>2, <1>5, <2>1 DEF Sound, Alive, CanDisband
  <2>2. CASE x \notin X
    <3>1. Sound(s, x) BY <2>2 DEF Good
    <3>. QED BY <1>2, <1>4, <2>2, <3>1 DEF Sound, Alive, CanDisband
  <2>. QED BY <2>1, <2>2
<1>8. ASSUME NEW x \in Parties PROVE Listeners(t, x)
  <2>1. Listeners(s, x) BY DEF Good
  <2>. QED BY <1>2, <2>1 DEF Listeners
<1>9. t.linked \subseteq t.online BY <1>2 DEF Good
<1>10. Mutual(t, {}) BY <1>6 DEF Mutual
<1>. QED BY <1>0, <1>2, <1>7, <1>8, <1>9, <1>10 DEF Good

-------------------------------------------------------------------------------
(* Invitations. *)

\* t differs from s only in that the parties Y no longer invite p.
Uninvited(s, t, p, Y) ==
    /\ t \in Society
    /\ t.online = s.online /\ t.linked = s.linked /\ t.chan = s.chan /\ t.users = s.users
    /\ t.party = s.party /\ t.leader = s.leader /\ t.members = s.members
    /\ \A q \in Players : t.invited[q] = IF q = p THEN s.invited[p] \ Y ELSE s.invited[q]
    /\ \A x \in Parties : t.invites[x] = IF x \in Y THEN s.invites[x] \ {p}
                                                    ELSE s.invites[x]

\* The parties Y, which invite p, no longer do; those without anybody else are
\* to be disbanded.
LEMMA UninviteGood ==
    ASSUME NEW s, Good(s, {}), NEW p \in Players,
           NEW Y \in SUBSET Parties, \A x \in Y : p \in s.invites[x],
           NEW t, Uninvited(s, t, p, Y)
    PROVE  Good(Disband(t, {x \in Y : CanDisband(t, x)}), {})
<1>. DEFINE X == {x \in Y : CanDisband(t, x)}
<1>0. /\ t \in Society
      /\ t.online = s.online /\ t.linked = s.linked /\ t.chan = s.chan /\ t.users = s.users
      /\ t.party = s.party /\ t.leader = s.leader /\ t.members = s.members
      /\ \A q \in Players : t.invited[q] = IF q = p THEN s.invited[p] \ Y ELSE s.invited[q]
      /\ \A x \in Parties : t.invites[x] = IF x \in Y THEN s.invites[x] \ {p}
                                                      ELSE s.invites[x]
  BY DEF Uninvited
<1>1. \A x \in Parties : Companions(t, x) = Companions(s, x) BY <1>0 DEF Companions
<1>2. Mutual(t, X)
  <2>. SUFFICES ASSUME NEW q \in Players, NEW x \in Parties
                PROVE  /\ t.party[q] = x => q \in Companions(t, x)
                       /\ q \in Companions(t, x) => t.party[q] = x
                       /\ x \in t.invited[q] <=> q \in t.invites[x]
                       /\ q \in t.invites[x] => t.party[q] # x
    BY DEF Mutual
  <2>1. /\ s.party[q] = x => q \in Companions(s, x)
        /\ q \in Companions(s, x) => s.party[q] = x
        /\ x \in s.invited[q] <=> q \in s.invites[x]
        /\ q \in s.invites[x] => s.party[q] # x
    BY DEF Good, Mutual
  <2>2. (x \in t.invited[q]) <=> (q \in t.invites[x])
    <3>1. CASE q = p /\ x \in Y BY <1>0, <3>1
    <3>2. CASE q # p /\ x \in Y BY <1>0, <2>1, <3>2
    <3>3. CASE x \notin Y BY <1>0, <2>1, <3>3
    <3>. QED BY <3>1, <3>2, <3>3
  <2>. QED BY <1>0, <1>1, <2>1, <2>2
<1>3. ASSUME NEW x \in Parties \ X PROVE Sound(t, x)
  <2>1. Sound(s, x) BY DEF Good
  <2>2. CASE x \in Y
    <3>1. ~CanDisband(t, x) BY <2>2
    <3>2. ~CanDisband(s, x) BY <1>0, <2>2 DEF CanDisband
    <3>3. Alive(s, x) BY <2>1, <3>2 DEF Sound
    <3>. QED BY <1>0, <1>1, <2>1, <2>2, <3>1, <3>3 DEF Sound, Alive
  <2>3. CASE x \notin Y BY <1>0, <1>1, <2>1, <2>3 DEF Sound, Alive, CanDisband
  <2>. QED BY <2>2, <2>3
<1>4. \A x \in Parties : Listeners(t, x) BY <1>0 DEF Good, Listeners
<1>5. t.linked \subseteq t.online BY <1>0 DEF Good
<1>. HIDE DEF X
<1>6. Good(t, X) BY <1>0, <1>2, <1>3, <1>4, <1>5 DEF Good
<1>7. X \in SUBSET Parties BY DEF X
<1>8. Good(Disband(t, X), {}) BY <1>6, <1>7, DisbandGood
<1>. QED BY <1>8 DEF X

\* Party::removeInvite, called for some parties (Party::revokeInvitation).
LEMMA RemoveInvitesGood ==
    ASSUME NEW s, Good(s, {}), NEW p \in Players, NEW X \in SUBSET Parties
    PROVE  Good(RemoveInvites(s, X, p), {})
<1>. DEFINE gone == {x \in X : IsInvited(s, x, p)}
            invites == [x \in Parties |-> IF x \in gone THEN s.invites[x] \ {p}
                                                        ELSE s.invites[x]]
            invited == [s.invited EXCEPT ![p] = s.invited[p] \ gone]
            t == [s EXCEPT !.invites = invites, !.invited = invited]
<1>1. RemoveInvites(s, X, p) = Disband(t, {x \in gone : CanDisband(t, x)})
  BY DEF RemoveInvites
<1>2. /\ s \in Society /\ s.invited \in [Players -> SUBSET Parties]
      /\ s.invites \in [Parties -> SUBSET Players]
  BY DEF Good, Society
<1>3. /\ invites \in [Parties -> SUBSET Players]
      /\ \A x \in Parties : invites[x] = IF x \in gone THEN s.invites[x] \ {p}
                                                       ELSE s.invites[x]
  BY <1>2
<1>4. /\ invited \in [Players -> SUBSET Parties]
      /\ \A q \in Players : invited[q] = IF q = p THEN s.invited[p] \ gone ELSE s.invited[q]
  BY <1>2
<1>5. gone \in SUBSET Parties /\ \A x \in gone : p \in s.invites[x] BY DEF IsInvited
<1>. HIDE DEF gone, invites, invited
<1>6. /\ t \in Society /\ t.invites = invites /\ t.invited = invited
      /\ t.online = s.online /\ t.linked = s.linked /\ t.chan = s.chan
      /\ t.users = s.users /\ t.party = s.party /\ t.leader = s.leader
      /\ t.members = s.members
  BY <1>2, <1>3, <1>4 DEF Society
<1>. HIDE DEF t
<1>7. Uninvited(s, t, p, gone) BY <1>3, <1>4, <1>6 DEF Uninvited
<1>8. Good(Disband(t, {x \in gone : CanDisband(t, x)}), {})
  BY <1>5, <1>7, UninviteGood
<1>. QED BY <1>1, <1>8

\* Player::clearPartyInvitations: nobody invites the player any more.
LEMMA ClearInvitationsGood ==
    ASSUME NEW s, Good(s, {}), NEW p \in Players
    PROVE  Good(ClearInvitations(s, p), {}) /\ ClearInvitations(s, p).invited[p] = {}
<1>. DEFINE s1 == [s EXCEPT !.invited[p] = {}]
            Y == s.invited[p]
            gone == {x \in Y : IsInvited(s1, x, p)}
            invites == [x \in Parties |-> IF x \in gone THEN s1.invites[x] \ {p}
                                                        ELSE s1.invites[x]]
            t == [s1 EXCEPT !.invites = invites, !.invited[p] = s1.invited[p] \ gone]
            none == [s.invited EXCEPT ![p] = {}]
<1>1. ClearInvitations(s, p) = Disband(t, {x \in gone : CanDisband(t, x)})
  BY DEF ClearInvitations, RemoveInvites
<1>2. /\ s \in Society /\ s.invited \in [Players -> SUBSET Parties]
      /\ s.invites \in [Parties -> SUBSET Players]
  BY DEF Good, Society
<1>3. /\ none \in [Players -> SUBSET Parties]
      /\ \A q \in Players : none[q] = IF q = p THEN {} ELSE s.invited[q]
      /\ [none EXCEPT ![p] = none[p] \ gone] = none
  BY <1>2
<1>. HIDE DEF none
<1>4. /\ s1 \in Society /\ s1.invites = s.invites /\ s1.invited = none
      /\ s1.online = s.online /\ s1.linked = s.linked /\ s1.chan = s.chan
      /\ s1.users = s.users /\ s1.party = s.party /\ s1.leader = s.leader
      /\ s1.members = s.members
  BY <1>2, <1>3 DEF Society, none
<1>. HIDE DEF s1
<1>5. ASSUME NEW x \in Y PROVE p \in s.invites[x] /\ IsInvited(s1, x, p)
  <2>1. x \in Parties BY <1>2
  <2>2. p \in s.invites[x] BY <2>1 DEF Good, Mutual
  <2>3. Sound(s, x) BY <2>1 DEF Good
  <2>. QED BY <1>4, <2>2, <2>3 DEF IsInvited, Sound
<1>6. gone = Y /\ Y \in SUBSET Parties BY <1>2, <1>5
<1>. HIDE DEF gone
<1>7. /\ invites \in [Parties -> SUBSET Players]
      /\ \A x \in Parties : invites[x] = IF x \in gone THEN s.invites[x] \ {p}
                                                       ELSE s.invites[x]
  BY <1>2, <1>4
<1>. HIDE DEF invites
<1>8. t = [s1 EXCEPT !.invites = invites, !.invited = none]
  BY <1>3, <1>4 DEF Society
<1>9. /\ t \in Society /\ t.invites = invites /\ t.invited = none
      /\ t.online = s.online /\ t.linked = s.linked /\ t.chan = s.chan
      /\ t.users = s.users /\ t.party = s.party /\ t.leader = s.leader
      /\ t.members = s.members
  BY <1>3, <1>4, <1>7, <1>8 DEF Society
<1>. HIDE DEF t
<1>10. Uninvited(s, t, p, gone)
  <2>1. \A q \in Players : t.invited[q] = IF q = p THEN s.invited[p] \ gone ELSE s.invited[q]
    BY <1>3, <1>6, <1>9
  <2>. QED BY <1>7, <1>9, <2>1 DEF Uninvited
<1>11. gone \in SUBSET Parties /\ \A x \in gone : p \in s.invites[x] BY <1>5, <1>6
<1>12. Good(Disband(t, {x \in gone : CanDisband(t, x)}), {})
  BY <1>10, <1>11, UninviteGood
<1>13. Disband(t, {x \in gone : CanDisband(t, x)}).invited[p] = {}
  <2>. DEFINE X == {x \in gone : CanDisband(t, x)}
  <2>1. X \in SUBSET Parties BY <1>11
  <2>. HIDE DEF X
  <2>2. Disband(t, X).invited[p] = t.invited[p] \ {x \in X : p \in t.invites[x]}
    BY <1>9, <2>1, DisbandFields
  <2>3. t.invited[p] = {} BY <1>3, <1>9
  <2>. QED BY <2>2, <2>3 DEF X
<1>. QED BY <1>1, <1>12, <1>13

-------------------------------------------------------------------------------
(* The members of a party. *)

\* std::find and erase: a list of different elements loses just the one.
LEMMA RemoveFirstType ==
    ASSUME NEW S, NEW m \in Seq(S), IsInjective(m), NEW p
    PROVE  /\ RemoveFirst(m, p) \in Seq(S) /\ IsInjective(RemoveFirst(m, p))
           /\ Range(RemoveFirst(m, p)) = Range(m) \ {p}
<1>. DEFINE I == {i \in 1..Len(m) : m[i] = p}
            r == RemoveFirst(m, p)
<1>1. CASE I = {}
  <2>1. r = m BY <1>1 DEF RemoveFirst
  <2>2. p \notin Range(m) BY <1>1 DEF Range
  <2>. QED BY <2>1, <2>2
<1>2. CASE I # {}
  <2>1. PICK k \in 1..Len(m) : m[k] = p BY <1>2
  <2>2. I = {k} BY <2>1 DEF IsInjective
  <2>3. Min(I) = k
    <3>1. \E x \in I : \A y \in I : x =< y BY <2>2
    <3>. QED BY <2>2, <3>1 DEF Min
  <2>4. r = RemoveAt(m, Min(I)) BY <1>2 DEF RemoveFirst, SelectInSeq
  <2>5. PICK n \in Nat : n = Len(m) OBVIOUS
  <2>6. r = SubSeq(m, 1, k - 1) \o SubSeq(m, k + 1, n) BY <2>3, <2>4, <2>5 DEF RemoveAt
  <2>. HIDE DEF r, I
  <2>7. /\ SubSeq(m, 1, k - 1) \in Seq(S) /\ Len(SubSeq(m, 1, k - 1)) = k - 1
        /\ \A i \in 1..(k - 1) : SubSeq(m, 1, k - 1)[i] = m[i]
    BY <2>1, <2>5
  <2>8. /\ SubSeq(m, k + 1, n) \in Seq(S) /\ Len(SubSeq(m, k + 1, n)) = n - k
        /\ \A i \in 1..(n - k) : SubSeq(m, k + 1, n)[i] = m[k + i]
    BY <2>1, <2>5
  <2>9. /\ r \in Seq(S) /\ Len(r) = n - 1
        /\ \A i \in 1..(n - 1) : r[i] = IF i < k THEN m[i] ELSE m[i + 1]
    <3>1. PICK a : a = SubSeq(m, 1, k - 1) OBVIOUS
    <3>2. PICK b : b = SubSeq(m, k + 1, n) OBVIOUS
    <3>3. /\ a \in Seq(S) /\ Len(a) = k - 1 /\ b \in Seq(S) /\ Len(b) = n - k
          /\ k \in 1..n /\ n \in Nat
      BY <2>5, <2>7, <2>8, <3>1, <3>2
    <3>4. /\ a \o b \in Seq(S) /\ Len(a \o b) = n - 1
          /\ \A i \in 1..(n - 1) : (a \o b)[i] = IF i < k THEN a[i] ELSE b[i - (k - 1)]
      BY <3>3
    <3>5. ASSUME NEW i \in 1..(n - 1) PROVE (a \o b)[i] = IF i < k THEN m[i] ELSE m[i + 1]
      <4>1. CASE i < k BY <2>7, <3>1, <3>3, <3>4, <4>1
      <4>2. CASE ~(i < k)
        <5>1. i - (k - 1) \in 1..(n - k) /\ k + (i - (k - 1)) = i + 1 BY <3>3, <4>2
        <5>2. b[i - (k - 1)] = m[k + (i - (k - 1))] BY <2>8, <3>2, <5>1
        <5>. QED BY <3>4, <4>2, <5>1, <5>2
      <4>. QED BY <4>1, <4>2
    <3>. QED BY <2>6, <3>1, <3>2, <3>4, <3>5
  <2>10. DOMAIN r = 1..(n - 1) /\ DOMAIN m = 1..n BY <2>5, <2>9
  <2>. DEFINE from(i) == IF i < k THEN i ELSE i + 1
  <2>a. ASSUME NEW i \in 1..(n - 1)
        PROVE  r[i] = m[from(i)] /\ from(i) \in 1..n /\ from(i) # k
    BY <2>1, <2>5, <2>9
  <2>b. \A i, j \in 1..(n - 1) : from(i) = from(j) => i = j BY <2>1, <2>5
  <2>c. \A i, j \in 1..n : m[i] = m[j] => i = j BY <2>10 DEF IsInjective
  <2>d. k \in 1..n BY <2>5
  <2>. HIDE DEF from
  <2>11. IsInjective(r)
    <3>. SUFFICES ASSUME NEW i \in 1..(n - 1), NEW j \in 1..(n - 1), r[i] = r[j]
                  PROVE  i = j
      BY <2>10 DEF IsInjective
    <3>1. from(i) = from(j) BY <2>a, <2>c
    <3>. QED BY <2>b, <3>1
  <2>12. Range(r) \subseteq Range(m) \ {p}
    <3>. SUFFICES ASSUME NEW i \in 1..(n - 1) PROVE r[i] \in Range(m) \ {p}
      BY <2>10 DEF Range
    <3>1. r[i] = m[from(i)] /\ from(i) \in 1..n /\ from(i) # k BY <2>a
    <3>2. r[i] # p BY <2>1, <2>c, <2>d, <3>1
    <3>3. r[i] \in Range(m) BY <2>10, <3>1 DEF Range
    <3>. QED BY <3>2, <3>3
  <2>13. Range(m) \ {p} \subseteq Range(r)
    <3>. SUFFICES ASSUME NEW i \in 1..n, m[i] # p PROVE m[i] \in Range(r)
      BY <2>10 DEF Range
    <3>1. CASE i < k
      <4>1. i \in 1..(n - 1) /\ r[i] = m[i] BY <2>1, <2>5, <2>9, <3>1
      <4>. QED BY <2>10, <4>1 DEF Range
    <3>2. CASE i > k
      <4>1. i - 1 \in 1..(n - 1) /\ r[i - 1] = m[i] BY <2>1, <2>5, <2>9, <3>2
      <4>. QED BY <2>10, <4>1 DEF Range
    <3>. QED BY <2>1, <2>5, <3>1, <3>2
  <2>. QED BY <2>9, <2>11, <2>12, <2>13 DEF r
<1>. QED BY <1>1, <1>2

\* Party::passLeadership: the party is the same but for who leads it.
LEMMA PassLeadershipGood ==
    ASSUME NEW s, Good(s, {}), NEW x \in Parties, Alive(s, x),
           NEW p \in Range(s.members[x])
    PROVE  LET t == PassLeadership(s, x, p) IN
           /\ Good(t, {})
           /\ t.party = s.party /\ t.invited = s.invited /\ t.invites = s.invites
           /\ t.leader[x] = p /\ Companions(t, x) = Companions(s, x)
<1>. DEFINE l == s.leader[x]
            rest == RemoveFirst(s.members[x], p)
            leader == [s.leader EXCEPT ![x] = p]
            members == [s.members EXCEPT ![x] = <<l>> \o rest]
<1>0. /\ s \in Society
      /\ s.leader \in [Parties -> Players \cup {None}]
      /\ s.members \in [Parties -> Seq(Players)]
  BY DEF Good, Society
<1>1. /\ Companions(s, x) \subseteq s.online /\ IsInjective(s.members[x])
      /\ l \notin Range(s.members[x]) /\ ~CanDisband(s, x)
  BY DEF Good, Sound
<1>2. p # l /\ p \in s.online /\ p \in Players /\ l \in Players
  BY <1>0, <1>1 DEF Companions, Society, Alive
<1>3. /\ rest \in Seq(Players) /\ IsInjective(rest)
      /\ Range(rest) = Range(s.members[x]) \ {p}
  BY <1>0, <1>1, RemoveFirstType
<1>4. PassLeadership(s, x, p) = [s EXCEPT !.leader = leader, !.members = members]
  BY <1>0, <1>2 DEF PassLeadership, Member, Society
<1>5. /\ <<l>> \o rest \in Seq(Players) /\ IsInjective(<<l>> \o rest)
      /\ Range(<<l>> \o rest) = (Range(s.members[x]) \ {p}) \cup {l}
      /\ <<l>> \o rest # <<>>
  <2>1. <<l>> \o rest \in Seq(Players) /\ <<l>> \o rest # <<>> BY <1>2, <1>3
  <2>2. l \notin Range(rest) BY <1>1, <1>3
  <2>. QED BY <1>2, <1>3, <2>1, <2>2, PrependLemma
<1>. HIDE DEF rest
<1>6. /\ leader \in [Parties -> Players \cup {None}]
      /\ \A y \in Parties : leader[y] = IF y = x THEN p ELSE s.leader[y]
      /\ members \in [Parties -> Seq(Players)]
      /\ \A y \in Parties : members[y] = IF y = x THEN <<l>> \o rest ELSE s.members[y]
  BY <1>0, <1>2, <1>5
<1>. HIDE DEF leader, members
<1>7. PICK t : t = PassLeadership(s, x, p) OBVIOUS
<1>8. /\ t \in Society /\ t.leader = leader /\ t.members = members
      /\ t.online = s.online /\ t.linked = s.linked /\ t.chan = s.chan
      /\ t.users = s.users /\ t.party = s.party /\ t.invited = s.invited
      /\ t.invites = s.invites
  BY <1>0, <1>4, <1>6, <1>7 DEF Society
<1>9. /\ Companions(t, x) = Companions(s, x)
      /\ \A y \in Parties : Companions(t, y) = Companions(s, y)
  BY <1>5, <1>6, <1>8 DEF Companions
<1>10. Mutual(t, {})
  <2>1. Mutual(s, {}) BY DEF Good
  <2>. QED BY <1>8, <1>9, <2>1 DEF Mutual
<1>11. ASSUME NEW y \in Parties PROVE Sound(t, y)
  <2>1. Sound(s, y) BY DEF Good
  <2>2. CASE y = x
    <3>1. p \notin Range(<<l>> \o rest) BY <1>2, <1>5
    <3>2. p # None BY <1>2, PartyAssumption
    <3>. QED BY <1>1, <1>5, <1>6, <1>8, <1>9, <2>1, <2>2, <3>1, <3>2
             DEF Sound, Alive, CanDisband
  <2>3. CASE y # x BY <1>6, <1>8, <1>9, <2>1, <2>3 DEF Sound, Alive, CanDisband
  <2>. QED BY <2>2, <2>3
<1>12. \A y \in Parties : Listeners(t, y) BY <1>8 DEF Good, Listeners
<1>13. t.linked \subseteq t.online BY <1>8 DEF Good
<1>14. Good(t, {}) BY <1>8, <1>10, <1>11, <1>12, <1>13 DEF Good
<1>. QED BY <1>6, <1>7, <1>8, <1>9, <1>14

\* ProtocolGame::sendClosePrivate: a channel loses a listener, and no more.
LEMMA SendClosePrivateGood ==
    ASSUME NEW s, NEW X \in SUBSET Parties, Good(s, X), NEW p \in Players
    PROVE  \A t \in {CloseChannel(s, p), SendClosePrivate(s, p)} :
                 /\ Good(t, X)
                 /\ t.party = s.party /\ t.invited = s.invited
                 /\ t.members = s.members /\ t.invites = s.invites
<1>. DEFINE c == Channel(s, p)
            users == [s.users EXCEPT ![c] = s.users[c] \ {p}]
<1>0. /\ s \in Society /\ s.party \in [Players -> Parties \cup {None}]
      /\ s.users \in [Parties -> SUBSET Players]
  BY DEF Good, Society
<1>1. ASSUME c # None
      PROVE  LET t == CloseChannel(s, p) IN
             /\ Good(t, X)
             /\ t.party = s.party /\ t.invited = s.invited
             /\ t.members = s.members /\ t.invites = s.invites
  <2>1. c \in Parties BY <1>0, <1>1 DEF Channel
  <2>2. /\ users \in [Parties -> SUBSET Players]
        /\ \A x \in Parties : users[x] \subseteq s.users[x]
    BY <1>0, <2>1
  <2>3. CloseChannel(s, p) = [s EXCEPT !.users = users] BY <1>0, <1>1 DEF CloseChannel, Society
  <2>. HIDE DEF c, users
  <2>4. PICK t : t = CloseChannel(s, p) OBVIOUS
  <2>5. /\ t \in Society /\ t.users = users
        /\ t.online = s.online /\ t.linked = s.linked /\ t.chan = s.chan
        /\ t.party = s.party /\ t.invited = s.invited /\ t.leader = s.leader
        /\ t.members = s.members /\ t.invites = s.invites
    BY <1>0, <2>2, <2>3, <2>4 DEF Society
  <2>6. Mutual(t, X) BY <2>5 DEF Good, Mutual, Companions
  <2>7. \A x \in Parties \ X : Sound(t, x)
    BY <2>5 DEF Good, Sound, Companions, Alive, CanDisband
  <2>8. \A x \in Parties : Listeners(t, x) BY <2>2, <2>5 DEF Good, Listeners
  <2>9. t.linked \subseteq t.online BY <2>5 DEF Good
  <2>10. Good(t, X) BY <2>5, <2>6, <2>7, <2>8, <2>9 DEF Good
  <2>. QED BY <2>4, <2>5, <2>10
<1>2. c = None => CloseChannel(s, p) = s BY DEF CloseChannel
<1>. HIDE DEF c
<1>. QED BY <1>1, <1>2 DEF SendClosePrivate

\* The societies s and t before and after p is taken out of the party x.
Left(s, t, x, p) ==
    t = [s EXCEPT !.members[x] = RemoveFirst(@, p), !.invites[x] = @ \ {p}, !.party[p] = None]

\* The player p is no longer of the party x; a party that he leads, or that is
\* left without anybody, is to be disbanded.
LEMMA LeaveGood ==
    ASSUME NEW s, Good(s, {}), NEW x \in Parties, NEW p \in Companions(s, x), Alive(s, x),
           NEW X \in SUBSET {x},
           NEW t, Left(s, t, x, p),
           X = {} => s.leader[x] # p /\ ~CanDisband(t, x)
    PROVE  /\ Good(t, X)
           /\ t.party[p] = None /\ t.invited = s.invited
<1>. DEFINE rest == RemoveFirst(s.members[x], p)
            members == [s.members EXCEPT ![x] = rest]
            party == [s.party EXCEPT ![p] = None]
<1>0. /\ s \in Society
      /\ s.party \in [Players -> Parties \cup {None}]
      /\ s.members \in [Parties -> Seq(Players)]
      /\ s.invites \in [Parties -> SUBSET Players]
  BY DEF Good, Society
<1>1. /\ Companions(s, x) \subseteq s.online /\ IsInjective(s.members[x])
      /\ s.leader[x] \notin Range(s.members[x])
  BY DEF Good, Sound
<1>2. p \in Players /\ p \in s.online BY <1>0, <1>1 DEF Society
<1>3. /\ rest \in Seq(Players) /\ IsInjective(rest)
      /\ Range(rest) = Range(s.members[x]) \ {p}
  BY <1>0, <1>1, RemoveFirstType
<1>. HIDE DEF rest
<1>4. s.party[p] = x /\ p \notin s.invites[x] BY <1>2 DEF Good, Mutual
<1>5. [s.invites EXCEPT ![x] = s.invites[x] \ {p}] = s.invites
  <2>1. s.invites[x] \ {p} = s.invites[x] BY <1>4
  <2>. QED BY ONLY <1>0, <2>1
<1>6. /\ members \in [Parties -> Seq(Players)]
      /\ \A y \in Parties : members[y] = IF y = x THEN rest ELSE s.members[y]
      /\ party \in [Players -> Parties \cup {None}]
      /\ \A q \in Players : party[q] = IF q = p THEN None ELSE s.party[q]
  BY <1>0, <1>2, <1>3
<1>7. t = [s EXCEPT !.members = members, !.invites = s.invites, !.party = party]
  BY <1>0, <1>5 DEF Left, Society, rest
<1>. HIDE DEF members, party
<1>8. /\ t \in Society /\ t.members = members /\ t.party = party
      /\ t.online = s.online /\ t.linked = s.linked /\ t.chan = s.chan
      /\ t.users = s.users /\ t.invited = s.invited /\ t.leader = s.leader
      /\ t.invites = s.invites
  BY <1>0, <1>6, <1>7 DEF Society
<1>9. /\ Companions(t, x) = Companions(s, x) \ (IF s.leader[x] = p THEN {} ELSE {p})
      /\ \A y \in Parties \ {x} : Companions(t, y) = Companions(s, y)
  BY <1>1, <1>3, <1>6, <1>8 DEF Companions
<1>10. x # None BY PartyAssumption
<1>11. Mutual(t, X)
  <2>. SUFFICES ASSUME NEW q \in Players, NEW y \in Parties
                PROVE  /\ t.party[q] = y => q \in Companions(t, y)
                       /\ q \in Companions(t, y) =>
                            t.party[q] = y \/ (y \in X /\ t.party[q] = None)
                       /\ y \in t.invited[q] <=> q \in t.invites[y]
                       /\ q \in t.invites[y] => t.party[q] # y
    BY DEF Mutual
  <2>1. /\ s.party[q] = y => q \in Companions(s, y)
        /\ q \in Companions(s, y) => s.party[q] = y
        /\ y \in s.invited[q] <=> q \in s.invites[y]
        /\ q \in s.invites[y] => s.party[q] # y
    BY DEF Good, Mutual
  <2>2. y # None BY PartyAssumption
  <2>3. CASE q = p BY <1>4, <1>6, <1>8, <1>9, <2>1, <2>2, <2>3
  <2>4. CASE q # p BY <1>6, <1>8, <1>9, <2>1, <2>2, <2>4
  <2>. QED BY <2>3, <2>4
<1>12. ASSUME NEW y \in Parties \ X PROVE Sound(t, y)
  <2>1. Sound(s, y) BY DEF Good
  <2>2. CASE y = x
    <3>1. X = {} BY <2>2
    <3>2. Companions(t, x) \subseteq t.online BY <1>1, <1>8, <1>9
    <3>3. IsInjective(t.members[x]) /\ t.leader[x] \notin Range(t.members[x])
      BY <1>1, <1>3, <1>6, <1>8
    <3>. QED BY <1>8, <2>1, <2>2, <3>1, <3>2, <3>3 DEF Sound, Alive
  <2>3. CASE y # x BY <1>6, <1>8, <1>9, <2>1, <2>3 DEF Sound, Alive, CanDisband
  <2>. QED BY <2>2, <2>3
<1>13. \A y \in Parties : Listeners(t, y) BY <1>8 DEF Good, Listeners
<1>14. t.linked \subseteq t.online BY <1>8 DEF Good
<1>15. Good(t, X) BY <1>8, <1>11, <1>12, <1>13, <1>14 DEF Good
<1>. QED BY <1>2, <1>6, <1>8, <1>15

\* Party::leave: the player who leaves points to no party, and is not invited
\* to more of them.
LEMMA LeavePartyGood ==
    ASSUME NEW s, Good(s, {}), NEW p \in Players, NEW x \in Parties, s.party[p] = x
    PROVE  LET t == LeaveParty(s, x, p) IN
           /\ Good(t, {})
           /\ t.party[p] = None /\ t.invited[p] \subseteq s.invited[p]
<1>. DEFINE alone == Len(s.members[x]) = 1 /\ s.invites[x] = {}
            missing == s.leader[x] = p /\ (s.members[x] = <<>> \/ alone)
            s1 == IF s.leader[x] = p /\ ~missing
                  THEN PassLeadership(s, x, Head(s.members[x])) ELSE s
            s2 == [s1 EXCEPT !.members[x] = RemoveFirst(@, p), !.invites[x] = @ \ {p},
                             !.party[p] = None]
            s3 == SendClosePrivate(s2, p)
            X == IF missing \/ CanDisband(s3, x) THEN {x} ELSE {}
<1>0. /\ s.members \in [Parties -> Seq(Players)] /\ s.invites \in [Parties -> SUBSET Players]
      /\ None \notin Players
  BY PartyAssumption DEF Good, Society
<1>1. p \in Companions(s, x) BY DEF Good, Mutual
<1>2. Alive(s, x)
  <2>1. Sound(s, x) BY DEF Good
  <2>2. CASE p = s.leader[x] BY <1>0, <2>2 DEF Alive
  <2>3. CASE p \in Range(s.members[x])
    <3>1. s.members[x] # <<>> BY <2>3 DEF Range
    <3>. QED BY <2>1, <3>1 DEF Sound, CanDisband
  <2>. QED BY <1>1, <2>2, <2>3 DEF Companions
<1>3. /\ Good(s1, {}) /\ p \in Companions(s1, x) /\ Alive(s1, x)
      /\ s1.invited = s.invited
      /\ ~missing => s1.leader[x] # p
  <2>1. CASE s.leader[x] = p /\ ~missing
    <3>1. PICK h : h = Head(s.members[x]) OBVIOUS
    <3>2. h \in Range(s.members[x])
      BY <1>0, <2>1, <3>1 DEF Range
    <3>3. s1 = PassLeadership(s, x, h) BY <2>1, <3>1
    <3>4. h \in Players BY <1>0, <3>2 DEF Range
    <3>5. p # h BY <1>2, <2>1, <3>2 DEF Good, Sound
    <3>. HIDE DEF s1
    <3>6. /\ Good(s1, {}) /\ s1.invited = s.invited
          /\ s1.leader[x] = h /\ Companions(s1, x) = Companions(s, x)
      BY <1>2, <3>2, <3>3, PassLeadershipGood
    <3>. QED BY <1>0, <1>1, <3>4, <3>5, <3>6 DEF Alive
  <2>2. CASE ~(s.leader[x] = p /\ ~missing)
    <3>1. s1 = s BY <2>2
    <3>. QED BY <1>1, <1>2, <2>2, <3>1
  <2>. QED BY <2>1, <2>2
<1>4. LeaveParty(s, x, p) = IF missing \/ CanDisband(s3, x) THEN Disband(s3, {x}) ELSE s3
  <2>1. Member(s, x, p) \/ p = s.leader[x]
    BY <1>1, <1>2 DEF Member, Companions, Good, Sound
  <2>. QED BY <2>1 DEF LeaveParty
<1>. HIDE DEF missing, s1
<1>5. PICK u : u = s2 OBVIOUS
<1>6. CanDisband(s3, x) <=> CanDisband(u, x)
  <2>1. s3 = SendClosePrivate(u, p) BY <1>5
  <2>. HIDE DEF s3
  <2>2. s3.members = u.members /\ s3.invites = u.invites
    <3>1. CASE s3 = u BY <3>1
    <3>2. CASE s3 # u
      <4>1. PICK w : s3 = [u EXCEPT !.users = w] BY <2>1, <3>2 DEF SendClosePrivate, CloseChannel
      <4>. QED BY <4>1
    <3>. QED BY <3>1, <3>2
  <2>. QED BY <2>2 DEF CanDisband
<1>. HIDE DEF s3
<1>7. Good(u, X) /\ u.party[p] = None /\ u.invited = s1.invited
  <2>1. X = {} => s1.leader[x] # p /\ ~CanDisband(u, x) BY <1>3, <1>6
  <2>2. X \in SUBSET {x} OBVIOUS
  <2>3. Left(s1, u, x, p) BY <1>5 DEF Left
  <2>. HIDE DEF X
  <2>. QED BY <1>3, <2>1, <2>2, <2>3, LeaveGood
<1>8. s3 = SendClosePrivate(u, p) BY <1>5 DEF s3
<1>9. X \in SUBSET Parties OBVIOUS
<1>. HIDE DEF X
<1>10. Good(s3, X) /\ s3.party = u.party /\ s3.invited = u.invited
  BY <1>7, <1>8, <1>9, SendClosePrivateGood
<1>11. CASE missing \/ CanDisband(s3, x)
  <2>1. X = {x} BY <1>11 DEF X
  <2>2. PICK t : t = Disband(s3, X) OBVIOUS
  <2>3. Good(t, {}) BY <1>9, <1>10, <2>2, DisbandGood
  <2>4. s3 \in Society BY <1>10 DEF Good
  <2>5. t.party[p] \in {None, s3.party[p]} /\ t.invited[p] \subseteq s3.invited[p]
    BY <1>9, <2>2, <2>4, DisbandFields
  <2>. QED BY <1>3, <1>4, <1>7, <1>10, <1>11, <2>1, <2>2, <2>3, <2>5
<1>12. CASE ~(missing \/ CanDisband(s3, x))
  <2>1. X = {} BY <1>12 DEF X
  <2>. QED BY <1>3, <1>4, <1>7, <1>10, <1>12, <2>1
<1>. QED BY <1>11, <1>12

-------------------------------------------------------------------------------
(* The requests. *)

\* A player who is in no party may be invited to one that is new, or to that of
\* the leader who invites him.
LEMMA InviteGood ==
    ASSUME Inv, ~SelfInvites, NEW p \in Players, NEW q \in Players, Invite(p, q)
    PROVE  Inv'
<1>0. PICK s : s = soc OBVIOUS
<1>1. PICK t : t = soc' OBVIOUS
<1>2. Good(s, {}) BY <1>0 DEF Inv
<1>3. /\ p \in s.online /\ q \in s.online /\ s.party[q] = None /\ p # q
  BY <1>0 DEF Invite
<1>4. PICK x \in Parties :
         /\ \/ s.party[p] = None /\ ~Alive(s, x)
            \/ s.party[p] = x /\ s.leader[x] = p
         /\ t = [s EXCEPT !.party[p] = x, !.leader[x] = p,
                          !.invites[x] = @ \cup {q}, !.invited[q] = @ \cup {x}]
  <2>1. s.party[p] \in Parties \cup {None} BY <1>2 DEF Good, Society
  <2>2. PICK x \in IF soc.party[p] = None THEN Free ELSE {soc.party[p]} :
         /\ soc.party[p] # None => soc.leader[x] = p
         /\ soc' = [soc EXCEPT !.party[p] = x, !.leader[x] = p,
                               !.invites[x] = @ \cup {q}, !.invited[q] = @ \cup {x}]
    BY DEF Invite
  <2>3. x \in Parties BY <1>0, <2>1, <2>2 DEF Free
  <2>4. s.party[p] = None => ~Alive(s, x) BY <1>0, <2>2 DEF Free
  <2>. QED BY <1>0, <1>1, <2>2, <2>3, <2>4
<1>. DEFINE party == [s.party EXCEPT ![p] = x]
            leader == [s.leader EXCEPT ![x] = p]
            invites == [s.invites EXCEPT ![x] = s.invites[x] \cup {q}]
            invited == [s.invited EXCEPT ![q] = s.invited[q] \cup {x}]
<1>5. /\ s \in Society
      /\ s.party \in [Players -> Parties \cup {None}]
      /\ s.leader \in [Parties -> Players \cup {None}]
      /\ s.members \in [Parties -> Seq(Players)]
      /\ s.invites \in [Parties -> SUBSET Players]
      /\ s.invited \in [Players -> SUBSET Parties]
  BY <1>2 DEF Good, Society
<1>6. /\ party \in [Players -> Parties \cup {None}]
      /\ \A r \in Players : party[r] = IF r = p THEN x ELSE s.party[r]
      /\ leader \in [Parties -> Players \cup {None}]
      /\ \A y \in Parties : leader[y] = IF y = x THEN p ELSE s.leader[y]
  BY <1>5
<1>7. /\ invites \in [Parties -> SUBSET Players]
      /\ \A y \in Parties : invites[y] = IF y = x THEN s.invites[x] \cup {q} ELSE s.invites[y]
      /\ invited \in [Players -> SUBSET Parties]
      /\ \A r \in Players : invited[r] = IF r = q THEN s.invited[q] \cup {x} ELSE s.invited[r]
  BY <1>5
<1>8. t = [s EXCEPT !.party = party, !.leader = leader, !.invites = invites,
                    !.invited = invited]
  BY <1>4, <1>5 DEF Society
<1>. HIDE DEF party, leader, invites, invited
<1>9. /\ t \in Society /\ t.party = party /\ t.leader = leader
      /\ t.invites = invites /\ t.invited = invited
      /\ t.online = s.online /\ t.linked = s.linked /\ t.chan = s.chan
      /\ t.users = s.users /\ t.members = s.members
  BY <1>5, <1>6, <1>7, <1>8 DEF Society
<1>10. None \notin Players /\ None \notin Parties BY PartyAssumption
<1>11. Sound(s, x) BY <1>2 DEF Good
<1>12. /\ Companions(t, x) = (Companions(s, x) \ {None}) \cup {p}
       /\ \A y \in Parties \ {x} : Companions(t, y) = Companions(s, y)
       /\ \A r \in Players \ {p} : r \in Companions(t, x) <=> r \in Companions(s, x)
  <2>1. \A y \in Parties \ {x} : Companions(t, y) = Companions(s, y)
    BY <1>6, <1>9 DEF Companions
  <2>2. Range(s.members[x]) \subseteq Players BY <1>5 DEF Range
  <2>3. Companions(t, x) = {p} \cup Range(s.members[x]) BY <1>6, <1>9 DEF Companions
  <2>4. s.leader[x] \in {None, p} BY <1>4 DEF Alive
  <2>. QED BY <1>10, <2>1, <2>2, <2>3, <2>4 DEF Companions
<1>13. ~Alive(s, x) => s.members[x] = <<>> /\ s.invites[x] = {}
  BY <1>11 DEF Sound, CanDisband
<1>14. Mutual(t, {})
  <2>. SUFFICES ASSUME NEW r \in Players, NEW y \in Parties
                PROVE  /\ t.party[r] = y => r \in Companions(t, y)
                       /\ r \in Companions(t, y) => t.party[r] = y
                       /\ y \in t.invited[r] <=> r \in t.invites[y]
                       /\ r \in t.invites[y] => t.party[r] # y
    BY DEF Mutual
  <2>1. /\ s.party[r] = y => r \in Companions(s, y)
        /\ r \in Companions(s, y) => s.party[r] = y
        /\ y \in s.invited[r] <=> r \in s.invites[y]
        /\ r \in s.invites[y] => s.party[r] # y
    BY <1>2 DEF Good, Mutual
  <2>2. (y \in t.invited[r]) <=> (r \in t.invites[y])
    <3>1. CASE r = q /\ y = x BY <1>7, <1>9, <3>1
    <3>2. CASE ~(r = q /\ y = x) BY <1>7, <1>9, <2>1, <3>2
    <3>. QED BY <3>1, <3>2
  <2>3. r \in t.invites[y] => t.party[r] # y
    <3>1. CASE r = p BY <1>3, <1>4, <1>6, <1>7, <1>9, <1>13, <2>1, <3>1
    <3>2. CASE r # p BY <1>3, <1>6, <1>7, <1>9, <1>10, <2>1, <3>2
    <3>. QED BY <3>1, <3>2
  <2>4. t.party[r] = y <=> r \in Companions(t, y)
    <3>1. CASE r = p BY <1>4, <1>6, <1>9, <1>10, <1>12, <2>1, <3>1
    <3>2. CASE r # p BY <1>6, <1>9, <1>12, <2>1, <3>2
    <3>. QED BY <3>1, <3>2
  <2>. QED BY <2>2, <2>3, <2>4
<1>15. ASSUME NEW y \in Parties PROVE Sound(t, y)
  <2>1. Sound(s, y) BY <1>2 DEF Good
  <2>2. CASE y = x
    <3>1. Alive(t, x) /\ t.leader[x] = p BY <1>6, <1>9, <1>10 DEF Alive
    <3>2. Companions(t, x) \subseteq t.online
      <4>1. CASE Alive(s, x) BY <1>3, <1>9, <1>11, <1>12, <4>1 DEF Sound
      <4>2. CASE ~Alive(s, x)
        <5>1. Companions(s, x) = {None} BY <1>13, <4>2 DEF Companions, Alive, Range
        <5>. QED BY <1>3, <1>9, <1>12, <5>1
      <4>. QED BY <4>1, <4>2
    <3>3. IsInjective(t.members[x]) /\ p \notin Range(t.members[x])
      <4>1. CASE Alive(s, x) BY <1>4, <1>9, <1>10, <1>11, <4>1 DEF Sound, Alive
      <4>2. CASE ~Alive(s, x)
        <5>1. t.members[x] = <<>> BY <1>9, <1>13, <4>2
        <5>. QED BY <5>1 DEF IsInjective, Range
      <4>. QED BY <4>1, <4>2
    <3>4. t.invites[x] # {} /\ t.invites[x] \subseteq t.online
      BY <1>3, <1>7, <1>9, <1>11 DEF Sound
    <3>. QED BY <2>2, <3>1, <3>2, <3>3, <3>4 DEF Sound, CanDisband
  <2>3. CASE y # x BY <1>6, <1>7, <1>9, <1>12, <2>1, <2>3 DEF Sound, Alive, CanDisband
  <2>. QED BY <2>2, <2>3
<1>16. \A y \in Parties : Listeners(t, y) BY <1>2, <1>9 DEF Good, Listeners
<1>17. t.linked \subseteq t.online BY <1>2, <1>9 DEF Good
<1>18. Good(t, {}) BY <1>9, <1>14, <1>15, <1>16, <1>17 DEF Good
<1>. QED BY <1>1, <1>18 DEF Inv

\* Party::join: who is invited becomes the last member.
LEMMA JoinGood ==
    ASSUME Inv, NEW p \in Players, NEW q \in Players, Join(p, q)
    PROVE  Inv'
<1>0. PICK s : s = soc OBVIOUS
<1>1. PICK t : t = soc' OBVIOUS
<1>2. Good(s, {}) BY <1>0 DEF Inv
<1>3. PICK x : x = s.party[q] OBVIOUS
<1>4. /\ p \in s.online /\ s.party[p] = None /\ x # None /\ p \in s.invites[x]
      /\ p \notin Range(s.members[x]) /\ s.leader[x] = q
      /\ t = [s EXCEPT !.members[x] = Append(@, p), !.party[p] = x,
                       !.invited[p] = @ \ {x}, !.invites[x] = @ \ {p}]
  BY <1>0, <1>1, <1>3 DEF Join, Inviting, IsInvited, Member
<1>. DEFINE members == [s.members EXCEPT ![x] = Append(s.members[x], p)]
            party == [s.party EXCEPT ![p] = x]
            invites == [s.invites EXCEPT ![x] = s.invites[x] \ {p}]
            invited == [s.invited EXCEPT ![p] = s.invited[p] \ {x}]
<1>5. /\ s \in Society
      /\ s.party \in [Players -> Parties \cup {None}]
      /\ s.leader \in [Parties -> Players \cup {None}]
      /\ s.members \in [Parties -> Seq(Players)]
      /\ s.invites \in [Parties -> SUBSET Players]
      /\ s.invited \in [Players -> SUBSET Parties]
  BY <1>2 DEF Good, Society
<1>6. x \in Parties BY <1>3, <1>4, <1>5
<1>7. /\ members \in [Parties -> Seq(Players)]
      /\ \A y \in Parties : members[y] = IF y = x THEN Append(s.members[x], p)
                                                  ELSE s.members[y]
      /\ party \in [Players -> Parties \cup {None}]
      /\ \A r \in Players : party[r] = IF r = p THEN x ELSE s.party[r]
  BY <1>5, <1>6
<1>8. /\ invites \in [Parties -> SUBSET Players]
      /\ \A y \in Parties : invites[y] = IF y = x THEN s.invites[x] \ {p} ELSE s.invites[y]
      /\ invited \in [Players -> SUBSET Parties]
      /\ \A r \in Players : invited[r] = IF r = p THEN s.invited[p] \ {x} ELSE s.invited[r]
  BY <1>5
<1>9. t = [s EXCEPT !.members = members, !.party = party, !.invited = invited,
                    !.invites = invites]
  BY <1>4, <1>5 DEF Society
<1>. HIDE DEF members, party, invites, invited
<1>10. /\ t \in Society /\ t.party = party /\ t.members = members
       /\ t.invites = invites /\ t.invited = invited
       /\ t.online = s.online /\ t.linked = s.linked /\ t.chan = s.chan
       /\ t.users = s.users /\ t.leader = s.leader
  BY <1>5, <1>7, <1>8, <1>9 DEF Society
<1>11. None \notin Players /\ None \notin Parties BY PartyAssumption
<1>12. Alive(s, x) /\ q # p BY <1>3, <1>4, <1>11 DEF Alive
<1>13. Sound(s, x) BY <1>2, <1>6 DEF Good
<1>14. /\ Range(t.members[x]) = Range(s.members[x]) \cup {p}
       /\ IsInjective(t.members[x]) /\ t.members[x] # <<>>
  <2>1. IsInjective(s.members[x]) BY <1>12, <1>13 DEF Sound
  <2>2. s.members[x] \in Seq(Players) BY <1>5, <1>6
  <2>3. t.members[x] = Append(s.members[x], p) BY <1>6, <1>7, <1>10
  <2>4. Append(s.members[x], p) # <<>> BY <2>2
  <2>. QED BY <1>4, <2>1, <2>2, <2>3, <2>4, AppendLemma
<1>15. /\ Companions(t, x) = Companions(s, x) \cup {p}
       /\ \A y \in Parties \ {x} : Companions(t, y) = Companions(s, y)
  BY <1>7, <1>10, <1>14 DEF Companions
<1>16. Mutual(t, {})
  <2>. SUFFICES ASSUME NEW r \in Players, NEW y \in Parties
                PROVE  /\ t.party[r] = y => r \in Companions(t, y)
                       /\ r \in Companions(t, y) => t.party[r] = y
                       /\ y \in t.invited[r] <=> r \in t.invites[y]
                       /\ r \in t.invites[y] => t.party[r] # y
    BY DEF Mutual
  <2>1. /\ s.party[r] = y => r \in Companions(s, y)
        /\ r \in Companions(s, y) => s.party[r] = y
        /\ y \in s.invited[r] <=> r \in s.invites[y]
        /\ r \in s.invites[y] => s.party[r] # y
    BY <1>2 DEF Good, Mutual
  <2>2. (y \in t.invited[r]) <=> (r \in t.invites[y])
    <3>1. CASE r = p /\ y = x BY <1>8, <1>10, <3>1
    <3>2. CASE r = p /\ y # x BY <1>8, <1>10, <2>1, <3>2
    <3>3. CASE r # p BY <1>8, <1>10, <2>1, <3>3
    <3>. QED BY <3>1, <3>2, <3>3
  <2>3. r \in t.invites[y] => t.party[r] # y BY <1>7, <1>8, <1>10, <2>1
  <2>4. t.party[r] = y <=> r \in Companions(t, y)
    <3>1. CASE r = p BY <1>4, <1>7, <1>10, <1>11, <1>15, <2>1, <3>1
    <3>2. CASE r # p BY <1>7, <1>10, <1>15, <2>1, <3>2
    <3>. QED BY <3>1, <3>2
  <2>. QED BY <2>2, <2>3, <2>4
<1>17. ASSUME NEW y \in Parties PROVE Sound(t, y)
  <2>1. Sound(s, y) BY <1>2 DEF Good
  <2>2. CASE y = x
    <3>1. Alive(t, x) BY <1>10, <1>12 DEF Alive
    <3>2. Companions(t, x) \subseteq t.online
      BY <1>4, <1>10, <1>12, <1>13, <1>15 DEF Sound
    <3>3. t.leader[x] \notin Range(t.members[x])
      BY <1>4, <1>10, <1>12, <1>13, <1>14 DEF Sound
    <3>4. t.invites[x] \subseteq t.online BY <1>6, <1>8, <1>10, <1>13 DEF Sound
    <3>. QED BY <1>14, <2>2, <3>1, <3>2, <3>3, <3>4 DEF Sound, CanDisband
  <2>3. CASE y # x BY <1>7, <1>8, <1>10, <1>15, <2>1, <2>3 DEF Sound, Alive, CanDisband
  <2>. QED BY <2>2, <2>3
<1>18. \A y \in Parties : Listeners(t, y) BY <1>2, <1>10 DEF Good, Listeners
<1>19. t.linked \subseteq t.online BY <1>2, <1>10 DEF Good
<1>20. Good(t, {}) BY <1>10, <1>16, <1>17, <1>18, <1>19 DEF Good
<1>. QED BY <1>1, <1>20 DEF Inv

\* A step that leaves everything but the channels and the clients alone keeps
\* the society, whoever listens being in the world.
LEMMA ChannelsGood ==
    ASSUME NEW s, Good(s, {}), NEW t \in Society,
           t.online = s.online, t.party = s.party, t.invited = s.invited,
           t.leader = s.leader, t.members = s.members, t.invites = s.invites,
           t.linked \subseteq t.online, \A x \in Parties : Listeners(t, x)
    PROVE  Good(t, {})
<1>1. Mutual(t, {}) BY DEF Good, Mutual, Companions
<1>2. \A x \in Parties : Sound(t, x) BY DEF Good, Sound, Companions, Alive, CanDisband
<1>. QED BY <1>1, <1>2 DEF Good

\* The channels' requests.
LEMMA ChannelRequestsGood ==
    ASSUME Inv, NEW p \in Players,
           RequestChannels(p) \/ OpenChannel(p) \/ PlayerCloseChannel(p)
    PROVE  Inv'
<1>0. PICK s : s = soc OBVIOUS
<1>1. PICK t : t = soc' OBVIOUS
<1>2. Good(s, {}) BY <1>0 DEF Inv
<1>3. /\ s \in Society /\ s.party \in [Players -> Parties \cup {None}]
      /\ s.chan \in [Parties -> BOOLEAN] /\ s.users \in [Parties -> SUBSET Players]
      /\ s.linked \subseteq s.online
      /\ \A x \in Parties : s.users[x] \subseteq s.online /\ (~s.chan[x] => s.users[x] = {})
  BY <1>2 DEF Good, Society, Listeners
<1>4. CASE RequestChannels(p)
  <2>1. PICK x : x = s.party[p] OBVIOUS
  <2>2. x \in Parties /\ t = [s EXCEPT !.chan = [s.chan EXCEPT ![x] = TRUE]]
    BY <1>0, <1>1, <1>3, <1>4, <2>1 DEF RequestChannels
  <2>3. PICK chan : chan = [s.chan EXCEPT ![x] = TRUE] OBVIOUS
  <2>4. chan \in [Parties -> BOOLEAN] /\ \A y \in Parties : ~chan[y] => ~s.chan[y]
    BY <1>3, <2>3
  <2>5. /\ t \in Society /\ t.chan = chan
        /\ t.online = s.online /\ t.linked = s.linked
        /\ t.party = s.party /\ t.invited = s.invited /\ t.leader = s.leader
        /\ t.members = s.members /\ t.invites = s.invites /\ t.users = s.users
    BY <1>3, <2>2, <2>3, <2>4 DEF Society
  <2>6. \A y \in Parties : Listeners(t, y) BY <1>3, <2>4, <2>5 DEF Listeners
  <2>7. Good(t, {}) BY <1>2, <1>3, <2>5, <2>6, ChannelsGood
  <2>. QED BY <1>1, <2>7 DEF Inv
<1>5. CASE OpenChannel(p)
  <2>1. PICK x : x = Channel(s, p) OBVIOUS
  <2>2. /\ p \in s.online
        /\ x \in Parties /\ s.chan[x]
        /\ t = [s EXCEPT !.users = [s.users EXCEPT ![x] = s.users[x] \cup {p}]]
    BY <1>0, <1>1, <1>3, <1>5, <2>1 DEF OpenChannel, Channel
  <2>3. PICK users : users = [s.users EXCEPT ![x] = s.users[x] \cup {p}] OBVIOUS
  <2>4. /\ users \in [Parties -> SUBSET Players]
        /\ \A y \in Parties : users[y] = IF y = x THEN s.users[x] \cup {p} ELSE s.users[y]
    BY <1>3, <2>2, <2>3
  <2>5. /\ t \in Society /\ t.users = users
        /\ t.online = s.online /\ t.linked = s.linked
        /\ t.party = s.party /\ t.invited = s.invited /\ t.leader = s.leader
        /\ t.members = s.members /\ t.invites = s.invites /\ t.chan = s.chan
    BY <1>3, <2>2, <2>3, <2>4 DEF Society
  <2>6. \A y \in Parties : Listeners(t, y) BY <1>3, <2>2, <2>4, <2>5 DEF Listeners
  <2>7. Good(t, {}) BY <1>2, <1>3, <2>5, <2>6, ChannelsGood
  <2>. QED BY <1>1, <2>7 DEF Inv
<1>6. CASE PlayerCloseChannel(p)
  <2>1. t = CloseChannel(s, p) BY <1>0, <1>1, <1>6 DEF PlayerCloseChannel
  <2>2. PICK H \in SUBSET Parties : H = {} OBVIOUS
  <2>3. Good(t, H) BY <1>2, <2>1, <2>2, SendClosePrivateGood
  <2>. QED BY <1>1, <2>2, <2>3 DEF Inv
<1>. QED BY <1>4, <1>5, <1>6

\* Revoking an invitation, passing the leadership, leaving.
LEMMA PartyRequestsGood ==
    ASSUME Inv, NEW p \in Players, NEW q \in Players,
           Revoke(p, q) \/ PlayerPassLeadership(p, q) \/ PlayerLeaveParty(p)
    PROVE  Inv'
<1>0. PICK s : s = soc OBVIOUS
<1>1. PICK t : t = soc' OBVIOUS
<1>2. Good(s, {}) BY <1>0 DEF Inv
<1>3. PICK x : x = s.party[p] OBVIOUS
<1>4. x \in Parties \cup {None} BY <1>2, <1>3 DEF Good, Society
<1>5. CASE Revoke(p, q)
  <2>1. x # None /\ t = RemoveInvites(s, {x}, q)
    BY <1>0, <1>1, <1>3, <1>5 DEF Revoke, Inviting
  <2>2. {x} \in SUBSET Parties BY <1>4, <2>1
  <2>3. Good(t, {}) BY <1>2, <2>1, <2>2, RemoveInvitesGood
  <2>. QED BY <1>1, <2>3 DEF Inv
<1>6. CASE PlayerPassLeadership(p, q)
  <2>1. x \in Parties /\ s.leader[x] = p /\ s.party[q] = x /\ t = PassLeadership(s, x, q)
    BY <1>0, <1>1, <1>3, <1>4, <1>6 DEF PlayerPassLeadership
  <2>2. Alive(s, x) BY <2>1, PartyAssumption DEF Alive
  <2>3. q \in Companions(s, x) BY <1>2, <2>1 DEF Good, Mutual
  <2>4. CASE q \in Range(s.members[x])
    <3>1. Good(t, {}) BY <1>2, <2>1, <2>2, <2>4, PassLeadershipGood
    <3>. QED BY <1>1, <3>1 DEF Inv
  <2>5. CASE q \notin Range(s.members[x])
    <3>1. t = s BY <2>1, <2>5 DEF PassLeadership, Member
    <3>. QED BY <1>1, <1>2, <3>1 DEF Inv
  <2>. QED BY <2>4, <2>5
<1>7. CASE PlayerLeaveParty(p)
  <2>1. x \in Parties /\ t = LeaveParty(s, x, p)
    BY <1>0, <1>1, <1>3, <1>4, <1>7 DEF PlayerLeaveParty
  <2>2. Good(t, {}) BY <1>2, <1>3, <2>1, LeavePartyGood
  <2>. QED BY <1>1, <2>2 DEF Inv
<1>. QED BY <1>5, <1>6, <1>7

-------------------------------------------------------------------------------
(* Coming and going. *)

\* Who becomes unsociable is of no party and invited to none.
LEMMA UnsociableGood ==
    ASSUME NEW s, Good(s, {}), NEW p \in Players
    PROVE  LET t == Unsociable(s, p) IN
           Good(t, {}) /\ t.party[p] = None /\ t.invited[p] = {}
<1>1. PICK u : u = ClearInvitations(s, p) OBVIOUS
<1>2. Good(u, {}) /\ u.invited[p] = {} BY <1>1, ClearInvitationsGood
<1>3. u.party[p] \in Parties \cup {None} BY <1>2 DEF Good, Society
<1>4. Unsociable(s, p) = IF u.party[p] = None THEN u ELSE LeaveParty(u, u.party[p], p)
  BY <1>1 DEF Unsociable
<1>5. CASE u.party[p] = None BY <1>2, <1>4, <1>5
<1>6. CASE u.party[p] # None
  <2>1. PICK x \in Parties : u.party[p] = x BY <1>3, <1>6
  <2>2. PICK t : t = LeaveParty(u, x, p) OBVIOUS
  <2>3. Good(t, {}) /\ t.party[p] = None /\ t.invited[p] \subseteq u.invited[p]
    BY <1>2, <2>1, <2>2, LeavePartyGood
  <2>. QED BY <1>2, <1>4, <1>6, <2>1, <2>2, <2>3
<1>. QED BY <1>5, <1>6

\* What the chat forgets of a player in all its channels.
LEMMA RemoveFromAllChannelsFields ==
    ASSUME NEW s, Good(s, {}), NEW p \in Players
    PROVE  LET t == RemoveFromAllChannels(s, p) IN
           /\ Good(t, {})
           /\ t.online = s.online /\ t.linked = s.linked
           /\ t.party = s.party /\ t.invited = s.invited
           /\ \A x \in Parties : p \notin t.users[x]
<1>. DEFINE users == [x \in Parties |-> IF s.chan[x] THEN s.users[x] \ {p} ELSE s.users[x]]
<1>1. PICK t : t = RemoveFromAllChannels(s, p) OBVIOUS
<1>2. /\ s \in Society /\ s.users \in [Parties -> SUBSET Players]
      /\ s.linked \subseteq s.online
      /\ \A x \in Parties : s.users[x] \subseteq s.online /\ (~s.chan[x] => s.users[x] = {})
  BY DEF Good, Society, Listeners
<1>3. t = [s EXCEPT !.users = users] BY <1>1 DEF RemoveFromAllChannels
<1>4. /\ users \in [Parties -> SUBSET Players]
      /\ \A x \in Parties : users[x] \subseteq s.users[x] /\ p \notin users[x]
  BY <1>2
<1>. HIDE DEF users
<1>5. /\ t \in Society /\ t.users = users
      /\ t.online = s.online /\ t.linked = s.linked
      /\ t.party = s.party /\ t.invited = s.invited /\ t.leader = s.leader
      /\ t.members = s.members /\ t.invites = s.invites /\ t.chan = s.chan
  BY <1>2, <1>3, <1>4 DEF Society
<1>6. \A x \in Parties : Listeners(t, x) BY <1>2, <1>4, <1>5 DEF Listeners
<1>7. Good(t, {}) BY <1>2, <1>5, <1>6, ChannelsGood
<1>. QED BY <1>1, <1>4, <1>5, <1>7

\* Player::onCreatureDisappear.
LEMMA LogoutGood == ASSUME Inv, NEW p \in Players, Logout(p) PROVE Inv'
<1>0. PICK s : s = soc OBVIOUS
<1>1. PICK t : t = soc' OBVIOUS
<1>2. Good(s, {}) BY <1>0 DEF Inv
<1>3. PICK u : u = Unsociable(s, p) OBVIOUS
<1>4. PICK r : r = RemoveFromAllChannels(u, p) OBVIOUS
<1>5. t = [r EXCEPT !.online = r.online \ {p}, !.linked = r.linked \ {p}]
  BY <1>0, <1>1, <1>3, <1>4 DEF Logout
<1>6. Good(u, {}) /\ u.party[p] = None /\ u.invited[p] = {} BY <1>2, <1>3, UnsociableGood
<1>7. /\ Good(r, {}) /\ r.party[p] = None /\ r.invited[p] = {}
      /\ \A x \in Parties : p \notin r.users[x]
  BY <1>4, <1>6, RemoveFromAllChannelsFields
<1>8. /\ r \in Society /\ r.linked \subseteq r.online
      /\ r.online \in SUBSET Players /\ r.linked \in SUBSET Players
  BY <1>7 DEF Good, Society
<1>9. /\ t \in Society /\ t.online = r.online \ {p} /\ t.linked = r.linked \ {p}
      /\ t.party = r.party /\ t.invited = r.invited /\ t.leader = r.leader
      /\ t.members = r.members /\ t.invites = r.invites
      /\ t.chan = r.chan /\ t.users = r.users
  BY <1>5, <1>8 DEF Society
<1>10. \A x \in Parties : p \notin Companions(r, x) /\ p \notin r.invites[x]
  <2>1. None \notin Parties BY PartyAssumption
  <2>. QED BY <1>7, <2>1 DEF Good, Mutual
<1>11. Mutual(t, {}) BY <1>7, <1>9 DEF Good, Mutual, Companions
<1>12. ASSUME NEW x \in Parties PROVE Sound(t, x)
  <2>1. Sound(r, x) BY <1>7 DEF Good
  <2>2. Companions(t, x) = Companions(r, x) BY <1>9 DEF Companions
  <2>. QED BY <1>9, <1>10, <2>1, <2>2 DEF Sound, Alive, CanDisband
<1>13. \A x \in Parties : Listeners(t, x) BY <1>7, <1>9 DEF Good, Listeners
<1>14. t.linked \subseteq t.online BY <1>8, <1>9
<1>15. Good(t, {}) BY <1>9, <1>11, <1>12, <1>13, <1>14 DEF Good
<1>. QED BY <1>1, <1>15 DEF Inv

\* The player who logs in was of no party and invited to none.
LEMMA LoginGood == ASSUME Inv, NEW p \in Players, Login(p) PROVE Inv'
<1>0. PICK s : s = soc OBVIOUS
<1>1. PICK t : t = soc' OBVIOUS
<1>2. Good(s, {}) BY <1>0 DEF Inv
<1>3. /\ s \in Society /\ s.linked \subseteq s.online
      /\ s.online \in SUBSET Players /\ s.linked \in SUBSET Players
      /\ s.party \in [Players -> Parties \cup {None}]
      /\ s.invited \in [Players -> SUBSET Parties]
  BY <1>2 DEF Good, Society
<1>4. p \notin s.online BY <1>0 DEF Login
<1>5. \A x \in Parties : p \notin Companions(s, x) /\ p \notin s.invites[x]
  <2>. SUFFICES ASSUME NEW x \in Parties
                PROVE  p \notin Companions(s, x) /\ p \notin s.invites[x]
    OBVIOUS
  <2>1. Sound(s, x) BY <1>2 DEF Good
  <2>2. CASE Alive(s, x) BY <1>4, <2>1, <2>2 DEF Sound
  <2>3. CASE ~Alive(s, x)
    <3>1. Companions(s, x) = {None}
      BY <2>1, <2>3 DEF Sound, CanDisband, Alive, Companions, Range
    <3>. QED BY <1>4, <2>1, <3>1, PartyAssumption DEF Sound
  <2>. QED BY <2>2, <2>3
<1>6. s.party[p] = None /\ s.invited[p] = {}
  <2>1. s.party[p] \notin Parties BY <1>2, <1>5 DEF Good, Mutual
  <2>2. \A x \in Parties : x \notin s.invited[p] BY <1>2, <1>5 DEF Good, Mutual
  <2>. QED BY <1>3, <2>1, <2>2
<1>7. [s.party EXCEPT ![p] = None] = s.party /\ [s.invited EXCEPT ![p] = {}] = s.invited
  BY <1>3, <1>6
<1>8. t = [s EXCEPT !.online = s.online \cup {p}, !.linked = s.linked \cup {p},
                    !.party = s.party, !.invited = s.invited]
  BY <1>0, <1>1, <1>7 DEF Login
<1>9. /\ t \in Society /\ t.online = s.online \cup {p} /\ t.linked = s.linked \cup {p}
      /\ t.party = s.party /\ t.invited = s.invited /\ t.leader = s.leader
      /\ t.members = s.members /\ t.invites = s.invites
      /\ t.chan = s.chan /\ t.users = s.users
  BY <1>3, <1>8 DEF Society
<1>10. Mutual(t, {}) BY <1>2, <1>9 DEF Good, Mutual, Companions
<1>11. ASSUME NEW x \in Parties PROVE Sound(t, x)
  <2>1. Sound(s, x) BY <1>2 DEF Good
  <2>2. Companions(t, x) = Companions(s, x) BY <1>9 DEF Companions
  <2>. QED BY <1>9, <2>1, <2>2 DEF Sound, Alive, CanDisband
<1>12. \A x \in Parties : Listeners(t, x) BY <1>2, <1>9 DEF Good, Listeners
<1>13. t.linked \subseteq t.online BY <1>3, <1>9
<1>14. Good(t, {}) BY <1>9, <1>10, <1>11, <1>12, <1>13 DEF Good
<1>. QED BY <1>1, <1>14 DEF Inv

\* A client goes, or another takes over.
LEMMA ClientsGood == ASSUME Inv, NEW p \in Players, LoseClient(p) \/ Replace(p) PROVE Inv'
<1>0. PICK s : s = soc OBVIOUS
<1>1. PICK t : t = soc' OBVIOUS
<1>2. Good(s, {}) BY <1>0 DEF Inv
<1>3. PICK r : /\ Good(r, {}) /\ r.online = s.online
               /\ \E linked \in SUBSET r.online : t = [r EXCEPT !.linked = linked]
  <2>0. s.linked \subseteq s.online BY <1>2 DEF Good
  <2>1. CASE LoseClient(p)
    <3>1. t = [s EXCEPT !.linked = s.linked \ {p}] BY <1>0, <1>1, <2>1 DEF LoseClient
    <3>. QED BY <1>2, <2>0, <3>1
  <2>2. CASE Replace(p)
    <3>1. PICK r : r = IF p \in s.linked THEN RemoveFromAllChannels(s, p) ELSE s OBVIOUS
    <3>2. p \in s.online /\ t = [r EXCEPT !.linked = r.linked \cup {p}]
      BY <1>0, <1>1, <2>2, <3>1 DEF Replace
    <3>3. Good(r, {}) /\ r.online = s.online /\ r.linked = s.linked
      BY <1>2, <3>1, RemoveFromAllChannelsFields
    <3>. QED BY <2>0, <3>2, <3>3
  <2>. QED BY <2>1, <2>2
<1>4. PICK linked \in SUBSET r.online : t = [r EXCEPT !.linked = linked] BY <1>3
<1>5. r \in Society /\ linked \in SUBSET Players BY <1>3 DEF Good, Society
<1>6. /\ t \in Society /\ t.linked = linked
      /\ t.online = r.online /\ t.party = r.party /\ t.invited = r.invited
      /\ t.leader = r.leader /\ t.members = r.members /\ t.invites = r.invites
      /\ t.chan = r.chan /\ t.users = r.users
  BY <1>4, <1>5 DEF Society
<1>7. \A x \in Parties : Listeners(t, x) BY <1>3, <1>6 DEF Good, Listeners
<1>8. Good(t, {}) BY <1>3, <1>6, <1>7, ChannelsGood
<1>. QED BY <1>1, <1>8 DEF Inv

-------------------------------------------------------------------------------
(* The theorems. *)

\* Where no client invites its own player, the invariant holds in every state.
THEOREM Invariant == ASSUME ~SelfInvites PROVE Spec => []Inv
<1>1. Init => Inv
  <2>. SUFFICES ASSUME Init PROVE Inv OBVIOUS
  <2>1. None \notin Players /\ None \notin Parties BY PartyAssumption
  <2>2. PICK s : s = soc OBVIOUS
  <2>3. s \in Society
    <3>1. [x \in Parties |-> <<>>] \in [Parties -> Seq(Players)] OBVIOUS
    <3>. QED BY <2>2, <3>1 DEF Init, Society
  <2>4. /\ s.online = Players /\ s.linked = Players
        /\ \A p \in Players : s.party[p] = None /\ s.invited[p] = {}
        /\ \A x \in Parties : /\ s.leader[x] = None /\ s.members[x] = <<>>
                              /\ s.invites[x] = {} /\ s.users[x] = {}
    BY <2>2 DEF Init
  <2>5. \A x \in Parties : Companions(s, x) = {None} BY <2>4 DEF Companions, Range
  <2>6. Mutual(s, {}) BY <2>1, <2>4, <2>5 DEF Mutual
  <2>7. \A x \in Parties : Sound(s, x) BY <2>4 DEF Sound, Alive, CanDisband
  <2>8. \A x \in Parties : Listeners(s, x) BY <2>4 DEF Listeners
  <2>9. Good(s, {}) BY <2>3, <2>4, <2>6, <2>7, <2>8 DEF Good
  <2>. QED BY <2>2, <2>9 DEF Inv
<1>2. Inv /\ [Next]_vars => Inv'
  <2>. SUFFICES ASSUME Inv, [Next]_vars PROVE Inv' OBVIOUS
  <2>1. CASE UNCHANGED vars BY <2>1 DEF Inv, vars
  <2>2. CASE Next
    <3>1. PICK p \in Players :
             \/ \E q \in Players :
                   Invite(p, q) \/ Join(p, q) \/ Revoke(p, q) \/ PlayerPassLeadership(p, q)
             \/ PlayerLeaveParty(p) \/ RequestChannels(p) \/ OpenChannel(p)
             \/ PlayerCloseChannel(p)
             \/ Ghost(p) \/ Logout(p) \/ Login(p) \/ LoseClient(p) \/ Replace(p)
      BY <2>2 DEF Next
    <3>2. ASSUME NEW q \in Players, Invite(p, q) PROVE Inv' BY <3>2, InviteGood
    <3>3. ASSUME NEW q \in Players, Join(p, q) PROVE Inv' BY <3>3, JoinGood
    <3>4. ASSUME NEW q \in Players,
                 Revoke(p, q) \/ PlayerPassLeadership(p, q) \/ PlayerLeaveParty(p)
          PROVE  Inv'
      BY <3>4, PartyRequestsGood
    <3>5. CASE RequestChannels(p) \/ OpenChannel(p) \/ PlayerCloseChannel(p)
      BY <3>5, ChannelRequestsGood
    <3>6. CASE Ghost(p)
      <4>1. soc' = Unsociable(soc, p) BY <3>6 DEF Ghost
      <4>2. Good(Unsociable(soc, p), {}) BY UnsociableGood DEF Inv
      <4>. QED BY <4>1, <4>2 DEF Inv
    <3>7. CASE Logout(p) BY <3>7, LogoutGood
    <3>8. CASE Login(p) BY <3>8, LoginGood
    <3>9. CASE LoseClient(p) \/ Replace(p) BY <3>9, ClientsGood
    <3>. QED BY <3>1, <3>2, <3>3, <3>4, <3>5, <3>6, <3>7, <3>8, <3>9
  <2>. QED BY <2>1, <2>2
<1>. QED BY <1>1, <1>2, PTL DEF Spec

\* What players and parties know of each other is the same on both sides: nobody
\* is left with a pointer to a deleted party, no party with one to a player who
\* is gone, and no party of one without invitations stays allocated.
THEOREM SocietyAlwaysAgrees == ASSUME ~SelfInvites PROVE Spec => []SocietyAgrees
<1>1. Inv => SocietyAgrees
  <2>. SUFFICES ASSUME Inv PROVE SocietyAgrees OBVIOUS
  <2>1. PICK s : s = soc OBVIOUS
  <2>2. /\ s \in Society /\ s.linked \subseteq s.online
        /\ Mutual(s, {}) /\ \A x \in Parties : Sound(s, x)
    BY <2>1 DEF Inv, Good
  <2>3. TypeOK
    <3>1. \A x \in Parties : s.members[x] \in Seq(Players) BY <2>2 DEF Society
    <3>2. \A x \in Parties : Range(s.members[x]) \subseteq Players BY <3>1 DEF Range
    <3>. QED BY <2>1, <2>2, <3>2 DEF TypeOK, Society
  <2>4. \A p \in Players, x \in Parties :
            (s.party[p] = x) = (p \in {s.leader[x]} \cup Range(s.members[x]))
    BY <2>2 DEF Mutual, Companions
  <2>5. \A x \in Parties : Alive(s, x) =>
            /\ {s.leader[x]} \cup Range(s.members[x]) \subseteq s.online
            /\ IsInjective(s.members[x]) /\ s.leader[x] \notin Range(s.members[x])
            /\ ~CanDisband(s, x)
    BY <2>2 DEF Sound, Companions
  <2>6. \A p \in Players, x \in Parties :
            /\ (x \in s.invited[p]) = (p \in s.invites[x])
            /\ p \in s.invites[x] => Alive(s, x) /\ p \in s.online
    <3>. SUFFICES ASSUME NEW p \in Players, NEW x \in Parties
                  PROVE  /\ (x \in s.invited[p]) = (p \in s.invites[x])
                         /\ p \in s.invites[x] => Alive(s, x) /\ p \in s.online
      OBVIOUS
    <3>1. (x \in s.invited[p]) <=> (p \in s.invites[x]) BY <2>2 DEF Mutual
    <3>2. Sound(s, x) BY <2>2
    <3>. QED BY <3>1, <3>2 DEF Sound, CanDisband
  <2>. QED BY <2>1, <2>3, <2>4, <2>5, <2>6 DEF SocietyAgrees, PartyAgrees, InvitesAgree
<1>. QED BY <1>1, Invariant, PTL

\* Nobody who has left the world is written to by the channel of a party.
THEOREM ListenersAreInWorld == ASSUME ~SelfInvites PROVE Spec => []ListenersInWorld
<1>1. Inv => ListenersInWorld BY DEF Inv, Good, Listeners, ListenersInWorld
<1>. QED BY <1>1, Invariant, PTL
===============================================================================
