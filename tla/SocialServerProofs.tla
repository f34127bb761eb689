------------------------- MODULE SocialServerProofs -------------------------
(***************************************************************************)
(* Theorems about the social parts of the Worker: squads, for any users,   *)
(* squads, limit of members and calls at once; then the feed and the       *)
(* friends, for any users, options, limit and number of calls at once.     *)
(*                                                                         *)
(* Three of the four properties of squads hold however calls interleave,   *)
(* because the statement that writes repeats what matters of the reads     *)
(* before it, and because no row outlives its squad.  That a squad has one *)
(* leader holds for calls one after the other: InTurnAt says how far the   *)
(* one call under way has taken the tables from where they are between     *)
(* calls.                                                                  *)
(*                                                                         *)
(* ImagesInOrder is what makes the images of the feed match: at any moment *)
(* R2 holds the image the post shows and the one an upload has put, except *)
(* for what a call has dropped and not written off the row yet.            *)
(***************************************************************************)
EXTENDS SquadServer, FeedServer, FiniteSetTheorems, TLAPS

Ops == {"create", "join", "respond", "leave", "role", "kick", "settings"}
SquadPlaces ==
    {"actor", "squad", "request", "asker", "count", "target", "write", "close",
     "close last", "delete", "delete squad", "successor", "promote"}
Member == [squad : Squads \cup {NoSquad}, role : Roles]
SquadCalls ==
    [op : Ops, user : Users, squad : Squads \cup {NoSquad}, target : Users,
     role : Roles, accept : BOOLEAN, at : SquadPlaces, actor : Member,
     next : Users]

CallsTypeOK ==
    /\ squadCalls \in [SquadSlots -> {NoCall} \cup SquadCalls]
    /\ squadFaults \in Nat

(* What a call names is there, and what it has read it may rely on.        *)
CallFits(c) ==
    /\ c.op \in {"create", "join", "respond"} => c.squad \in Squads
    /\ c.op \in {"create", "join"} => <<c.user, c.squad>> \in wanted
    /\ c.op = "create" => ~SquadExists(c.squad)
    /\ c.op \in {"respond", "leave", "role", "kick", "settings"} /\ c.at # "actor"
           => c.actor.squad \in Squads
    /\ c.op = "respond" /\ c.at \in {"asker", "count", "write"}
           => c.squad = c.actor.squad /\ <<c.target, c.squad>> \in wanted
    /\ c.op = "leave" => c.target = c.user
    /\ c.op \in {"role", "kick"} /\ c.at # "actor" => c.target # c.user
    /\ c.at \in {"close last", "delete squad", "successor", "promote"}
           => c.op = "leave"

CallsFit == \A i \in SquadSlots : CallFits(squadCalls[i])

NewIdsDiffer ==
    \A i, j \in SquadSlots :
        /\ squadCalls[i].op = "create" /\ squadCalls[j].op = "create"
        /\ squadCalls[i].squad = squadCalls[j].squad
        => i = j

(* No row outlives its squad, and every request was made.                  *)
RowsFit ==
    \A u \in Users, s \in Squads :
        /\ ~SquadExists(s) => member[u].squad # s /\ open[u][s] = 0
        /\ requests[u][s] # "none" => <<u, s>> \in wanted

Base ==
    /\ SquadTypeOK /\ CallsTypeOK /\ CallsFit /\ NewIdsDiffer /\ RowsFit
    /\ SquadNeverOverfull /\ MembersWantedIn /\ OneOpenHistory

In(u, s) == member[u].squad = s
Leads(u, s) == member[u].squad = s /\ member[u].role = "leader"

(* The history of u is closed already, the row of the member is not gone.  *)
ClosedBy(c, u, s) ==
    /\ c.op \in {"leave", "kick"} /\ c.at \in {"delete", "delete squad"}
    /\ c.target = u /\ c.actor.squad = s

(* The leader of s has left, and nobody is promoted yet.                   *)
LeaderlessBy(c, s) == c.at \in {"successor", "promote"} /\ c.actor.squad = s

(* What the call has read is still so.                                     *)
StillSo(c) ==
    LET s == c.actor.squad IN
    /\ /\ c.op \in {"leave", "role", "kick", "settings"}
       /\ c.at \notin {"actor", "successor", "promote"}
       => member[c.user] = c.actor
    /\ c.op = "leave" /\ c.at \in {"close last", "delete squad"}
           => \A u \in Users : In(u, s) => u = c.user
    /\ c.op = "leave" /\ c.at \in {"close", "delete"}
           => \E u \in Users : In(u, s) /\ u # c.user
    /\ c.op = "kick" /\ c.at \in {"close", "delete"}
           => In(c.target, s) /\ ~Leads(c.target, s)
    /\ c.op = "role" /\ c.at = "write"
           => ~Leads(c.target, s) /\ c.role # "leader"
    /\ c.at = "successor" => \E u \in Users : In(u, s)
    /\ c.at = "promote" => In(c.next, s)

InTurnAt(c) ==
    /\ \A s \in Squads :
           /\ SquadExists(s) <=> \E u \in Users : In(u, s)
           /\ IF LeaderlessBy(c, s)
              THEN \A u \in Users : ~Leads(u, s)
              ELSE SquadExists(s) => \E u \in Users : Leads(u, s)
           /\ \A u, v \in Users : Leads(u, s) /\ Leads(v, s) => u = v
           /\ \A u \in Users :
                 open[u][s] = IF In(u, s) /\ ~ClosedBy(c, u, s) THEN 1 ELSE 0
    /\ StillSo(c)

InTurn ==
    undisturbed =>
        /\ \A i, j \in SquadSlots : ~SquadIdle(i) /\ ~SquadIdle(j) => i = j
        /\ (\A i \in SquadSlots : SquadIdle(i)) => InTurnAt(NoCall)
        /\ \A i \in SquadSlots : ~SquadIdle(i) => InTurnAt(squadCalls[i])

SquadIInv == Base /\ InTurn
----------------------------------------------------------------------------
(* Calls, and the numbers of members.                                      *)

LEMMA NoCallShape ==
    /\ NoCall.op = "none" /\ NoCall.at = "idle"
    /\ NoCall \notin SquadCalls
<1>1. NoCall.op = "none" /\ NoCall.at = "idle"
  BY DEF NoCall
<1>2. \A c \in SquadCalls : c.op # "none"
  BY DEF SquadCalls, Ops
<1> QED
  BY <1>1, <1>2

LEMMA CallShape ==
    ASSUME NEW c \in SquadCalls
    PROVE  /\ c.op \in Ops /\ c.at \in SquadPlaces /\ c.at # "idle"
           /\ c.user \in Users /\ c.target \in Users /\ c.next \in Users
           /\ c.squad \in Squads \cup {NoSquad} /\ c.role \in Roles
           /\ c.accept \in BOOLEAN
           /\ c.actor.squad \in Squads \cup {NoSquad} /\ c.actor.role \in Roles
           /\ c.actor \in Member
<1>1. /\ c.op \in Ops /\ c.at \in SquadPlaces
      /\ c.user \in Users /\ c.target \in Users /\ c.next \in Users
      /\ c.squad \in Squads \cup {NoSquad} /\ c.role \in Roles
      /\ c.accept \in BOOLEAN /\ c.actor \in Member
  BY DEF SquadCalls
<1>2. c.at # "idle"
  BY <1>1 DEF SquadPlaces
<1>3. c.actor.squad \in Squads \cup {NoSquad} /\ c.actor.role \in Roles
  BY <1>1 DEF Member
<1> QED
  BY <1>1, <1>2, <1>3

LEMMA BusyCall ==
    ASSUME CallsTypeOK, NEW i \in SquadSlots
    PROVE  /\ squadCalls[i] \in {NoCall} \cup SquadCalls
           /\ ~SquadIdle(i) => squadCalls[i] \in SquadCalls
           /\ SquadIdle(i) => squadCalls[i] = NoCall
           /\ squadCalls[i].op # "none" => squadCalls[i] \in SquadCalls
<1>1. squadCalls[i] \in {NoCall} \cup SquadCalls
  BY DEF CallsTypeOK
<1> QED
  BY <1>1, NoCallShape, CallShape DEF SquadIdle

LEMMA NoCallFits == CallFits(NoCall) /\ CallFits(NoCall)'
  BY NoCallShape DEF CallFits

LEMMA MembersFinite ==
    ASSUME NEW S \in SUBSET Users
    PROVE  IsFiniteSet(S) /\ Cardinality(S) \in Nat
  BY SquadAssumption, FS_Subset, FS_CardinalityType

LEMMA FewerMembers ==
    ASSUME NEW S \in SUBSET Users, NEW T \in SUBSET S,
           Cardinality(S) <= MaxMembers
    PROVE  Cardinality(T) <= MaxMembers
<1>1. IsFiniteSet(S) /\ Cardinality(S) \in Nat /\ Cardinality(T) \in Nat
  BY MembersFinite
<1>2. Cardinality(T) <= Cardinality(S)
  BY <1>1, FS_Subset
<1> QED
  BY <1>1, <1>2, SquadAssumption

LEMMA OneMoreMember ==
    ASSUME NEW S \in SUBSET Users, NEW u \in Users, NEW T \in SUBSET (S \cup {u}),
           Cardinality(S) < MaxMembers
    PROVE  Cardinality(T) <= MaxMembers
<1>1. IsFiniteSet(S) /\ Cardinality(S) \in Nat
  BY MembersFinite
<1>2. \/ Cardinality(S \cup {u}) = Cardinality(S)
      \/ Cardinality(S \cup {u}) = Cardinality(S) + 1
  BY <1>1, FS_AddElement, Zenon
<1>3. Cardinality(S \cup {u}) \in Nat /\ S \cup {u} \in SUBSET Users
  BY MembersFinite
<1>4. Cardinality(S \cup {u}) <= MaxMembers
  BY <1>1, <1>2, <1>3, SquadAssumption
<1> QED
  BY <1>3, <1>4, FewerMembers

LEMMA NobodyIn ==
    ASSUME NEW s, MembersOf(s) = {}
    PROVE  Cardinality(MembersOf(s)) < MaxMembers
  BY FS_EmptySet, SquadAssumption

LEMMA TypedTables ==
    ASSUME SquadTypeOK
    PROVE  /\ squads \in [Squads -> {"none", "public", "private"}]
           /\ member \in [Users -> Member]
           /\ \A u \in Users : /\ member[u].squad \in Squads \cup {NoSquad}
                               /\ member[u].role \in Roles
                               /\ member[u] \in Member
           /\ requests \in [Users -> [Squads ->
                                {"none", "pending", "accepted", "declined"}]]
           /\ open \in [Users -> [Squads -> Nat]]
           /\ NoSquad \notin Squads
<1>1. member \in [Users -> Member]
  BY DEF SquadTypeOK, Member
<1>2. \A u \in Users : member[u] \in Member
  BY <1>1
<1>3. \A u \in Users : /\ member[u].squad \in Squads \cup {NoSquad}
                       /\ member[u].role \in Roles
  BY <1>2 DEF Member
<1> QED
  BY <1>1, <1>2, <1>3, SquadAssumption DEF SquadTypeOK
----------------------------------------------------------------------------
(* The part of the invariant that any interleaving keeps.                  *)

(* One call goes on to d, or is over.                                      *)
LEMMA CallGoesOn ==
    ASSUME Base, NEW i \in SquadSlots, NEW d \in {NoCall} \cup SquadCalls,
           squadCalls' = [squadCalls EXCEPT ![i] = d], squadFaults' \in Nat,
           CallFits(d)',
           d.op = "create" => \A j \in SquadSlots \ {i} :
               squadCalls[j].op = "create" => squadCalls[j].squad # d.squad,
           wanted \subseteq wanted',
           \A j \in SquadSlots \ {i} :
               squadCalls[j].op = "create" => squads'[squadCalls[j].squad] = "none"
    PROVE  CallsTypeOK' /\ CallsFit' /\ NewIdsDiffer'
<1>1. /\ squadCalls'[i] = d
      /\ \A j \in SquadSlots \ {i} : squadCalls'[j] = squadCalls[j]
      /\ CallsTypeOK'
  BY DEF Base, CallsTypeOK
<1>2. CallsFit'
  <2>1. ASSUME NEW j \in SquadSlots \ {i}
        PROVE  CallFits(squadCalls[j])'
    <3>1. CallFits(squadCalls[j]) /\ squadCalls'[j] = squadCalls[j]
      BY <1>1 DEF Base, CallsFit
    <3> QED
      BY <3>1 DEF CallFits, SquadExists
  <2>2. CallFits(squadCalls[i])'
    BY <1>1 DEF CallFits
  <2> QED
    BY <2>1, <2>2 DEF CallsFit
<1>3. NewIdsDiffer'
  BY <1>1 DEF Base, NewIdsDiffer
<1> QED
  BY <1>1, <1>2, <1>3

(* A call that ends has nothing to fit.                                    *)
LEMMA CallEnds ==
    ASSUME Base, NEW i \in SquadSlots, EndCall(i), squadFaults' \in Nat,
           wanted \subseteq wanted',
           \A j \in SquadSlots \ {i} :
               squadCalls[j].op = "create" => squads'[squadCalls[j].squad] = "none"
    PROVE  CallsTypeOK' /\ CallsFit' /\ NewIdsDiffer'
<1>1. squadCalls' = [squadCalls EXCEPT ![i] = NoCall]
  BY DEF EndCall
<1>2. NoCall.op # "create" /\ CallFits(NoCall)' /\ NoCall \in {NoCall} \cup SquadCalls
  BY NoCallShape, NoCallFits
<1> QED
  BY <1>1, <1>2, CallGoesOn

(* Rows that go, or change without a member being added.                   *)
LEMMA NoMemberAdded ==
    ASSUME Base, SquadTypeOK', wanted' = wanted,
           \A u \in Users : member'[u].squad \in {member[u].squad, NoSquad},
           \A u \in Users, s \in Squads :
               /\ open'[u][s] \in {open[u][s], 0}
               /\ requests'[u][s] # "none" => <<u, s>> \in wanted,
           \A s \in Squads :
               /\ SquadExists(s)' => SquadExists(s)
               /\ SquadExists(s) /\ ~SquadExists(s)' =>
                      \A u \in Users : member'[u].squad # s /\ open'[u][s] = 0
    PROVE  /\ RowsFit' /\ SquadNeverOverfull' /\ MembersWantedIn'
           /\ OneOpenHistory'
<1> USE TypedTables DEF Base
<1>1. RowsFit'
  <2>1. ASSUME NEW u \in Users, NEW s \in Squads
        PROVE  /\ ~SquadExists(s)' => member'[u].squad # s /\ open'[u][s] = 0
               /\ requests'[u][s] # "none" => <<u, s>> \in wanted
    <3>1. ~SquadExists(s) => member[u].squad # s /\ open[u][s] = 0
      BY DEF RowsFit
    <3>2. s # NoSquad
      OBVIOUS
    <3>3. ~SquadExists(s) => member'[u].squad # s /\ open'[u][s] = 0
      <4>1. member'[u].squad = member[u].squad \/ member'[u].squad = NoSquad
        OBVIOUS
      <4>2. open'[u][s] = open[u][s] \/ open'[u][s] = 0
        OBVIOUS
      <4> QED
        BY ONLY <3>1, <3>2, <4>1, <4>2
    <3> QED
      BY <3>3
  <2> QED
    BY <2>1 DEF RowsFit, SquadExists
<1>2. SquadNeverOverfull'
  <2>1. ASSUME NEW s \in Squads
        PROVE  Cardinality(MembersOf(s)') <= MaxMembers
    <3>1. MembersOf(s)' \subseteq MembersOf(s) /\ MembersOf(s) \subseteq Users
      BY DEF MembersOf
    <3>2. Cardinality(MembersOf(s)) <= MaxMembers
      BY DEF SquadNeverOverfull
    <3> QED
      BY <3>1, <3>2, FewerMembers
  <2> QED
    BY <2>1 DEF SquadNeverOverfull
<1>3. MembersWantedIn'
  BY DEF MembersWantedIn
<1>4. OneOpenHistory'
  <2>1. ASSUME NEW u \in Users, NEW s \in Squads
        PROVE  open'[u][s] <= 1
    <3>1. open[u][s] <= 1
      BY DEF OneOpenHistory
    <3>2. open'[u][s] = open[u][s] \/ open'[u][s] = 0
      OBVIOUS
    <3> QED
      BY ONLY <3>1, <3>2
  <2> QED
    BY <2>1 DEF OneOpenHistory
<1> QED
  BY <1>1, <1>2, <1>3, <1>4

(* A step that reads, and goes on or ends its call.                        *)
LEMMA ReadKeepsBase ==
    ASSUME Base, NEW i \in SquadSlots, NEW d \in {NoCall} \cup SquadCalls,
           squadCalls' = [squadCalls EXCEPT ![i] = d],
           UNCHANGED squadTables, UNCHANGED wanted, UNCHANGED called,
           squadFaults' \in Nat, undisturbed' \in BOOLEAN, CallFits(d),
           d.op = "create" => /\ squadCalls[i].op = "create"
                              /\ squadCalls[i].squad = d.squad
    PROVE  Base'
<1>1. /\ squads' = squads /\ member' = member /\ requests' = requests
      /\ open' = open /\ wanted' = wanted /\ called' = called
  BY DEF squadTables
<1>2. CallFits(d)'
  BY <1>1 DEF CallFits, SquadExists
<1>3. /\ SquadTypeOK' /\ RowsFit' /\ SquadNeverOverfull' /\ MembersWantedIn'
      /\ OneOpenHistory'
  BY <1>1 DEF Base, SquadTypeOK, RowsFit, SquadNeverOverfull, MembersWantedIn,
              OneOpenHistory, SquadExists, MembersOf
<1>4. \A j \in SquadSlots \ {i} :
          squadCalls[j].op = "create" => squads'[squadCalls[j].squad] = "none"
  BY <1>1 DEF Base, CallsFit, CallFits, SquadExists
<1>5. d.op = "create" => \A j \in SquadSlots \ {i} :
          squadCalls[j].op = "create" => squadCalls[j].squad # d.squad
  BY DEF Base, NewIdsDiffer
<1>6. CallsTypeOK' /\ CallsFit' /\ NewIdsDiffer'
  BY <1>1, <1>2, <1>4, <1>5, CallGoesOn
<1> QED
  BY <1>3, <1>6 DEF Base
----------------------------------------------------------------------------
(* Calls one after the other: from one busy call to what it becomes.       *)

Ghosts == <<called, squadFaults, wanted, undisturbed>>

LEMMA InTurnGoesOn ==
    ASSUME InTurn, CallsTypeOK, NEW i \in SquadSlots, NEW c \in SquadCalls,
           c = squadCalls[i], NEW d \in {NoCall} \cup SquadCalls,
           squadCalls' = [squadCalls EXCEPT ![i] = d],
           undisturbed' = undisturbed,
           undisturbed /\ InTurnAt(c) => InTurnAt(d)'
    PROVE  InTurn'
<1> SUFFICES ASSUME undisturbed
             PROVE  /\ \A j, k \in SquadSlots :
                           ~SquadIdle(j)' /\ ~SquadIdle(k)' => j = k
                    /\ (\A j \in SquadSlots : SquadIdle(j)') => InTurnAt(NoCall)'
                    /\ \A j \in SquadSlots : ~SquadIdle(j)' => InTurnAt(squadCalls[j])'
  BY DEF InTurn
<1>1. ~SquadIdle(i)
  BY CallShape DEF SquadIdle
<1>2. \A j \in SquadSlots : ~SquadIdle(j) => j = i
  BY <1>1 DEF InTurn
<1>3. InTurnAt(c)
  BY <1>1 DEF InTurn
<1>4. InTurnAt(d)'
  BY <1>3
<1>5. /\ squadCalls'[i] = d
      /\ \A j \in SquadSlots \ {i} : squadCalls'[j] = squadCalls[j]
  BY DEF CallsTypeOK
<1>6. \A j \in SquadSlots : ~SquadIdle(j)' => j = i
  BY <1>2, <1>5 DEF SquadIdle
<1>7. ASSUME \A j \in SquadSlots : SquadIdle(j)'
      PROVE  InTurnAt(NoCall)'
  <2>1. d = NoCall
    BY <1>5, <1>7, CallShape DEF SquadIdle
  <2> QED
    BY <1>4, <2>1
<1>8. ASSUME NEW j \in SquadSlots, ~SquadIdle(j)'
      PROVE  InTurnAt(squadCalls[j])'
  <2>1. squadCalls'[j] = d
    BY <1>5, <1>6, <1>8
  <2> QED
    BY <1>4, <2>1
<1> QED
  BY <1>6, <1>7, <1>8

LEMMA NothingRead == StillSo(NoCall) /\ StillSo(NoCall)'
  BY NoCallShape DEF StillSo

(* A step that reads: what the call relies on later is so.                 *)
LEMMA ReadStep ==
    ASSUME SquadIInv, NEW i \in SquadSlots, NEW c \in SquadCalls,
           c = squadCalls[i], NEW d \in {NoCall} \cup SquadCalls,
           squadCalls' = [squadCalls EXCEPT ![i] = d],
           UNCHANGED squadTables, UNCHANGED Ghosts, CallFits(d),
           d.op = "create" => c.op = "create" /\ c.squad = d.squad,
           c.at \notin {"delete", "delete squad"},
           d.at \notin {"delete", "delete squad"},
           InTurnAt(c) => StillSo(d),
           InTurnAt(c) => \A s \in Squads : LeaderlessBy(c, s) <=> LeaderlessBy(d, s)
    PROVE  SquadIInv'
<1>1. /\ squads' = squads /\ member' = member /\ requests' = requests
      /\ open' = open /\ wanted' = wanted /\ called' = called
      /\ squadFaults' = squadFaults /\ undisturbed' = undisturbed
  BY DEF squadTables, Ghosts
<1>2. Base'
  <2>1. squadFaults' \in Nat /\ undisturbed' \in BOOLEAN
    BY <1>1 DEF SquadIInv, Base, CallsTypeOK, SquadTypeOK
  <2> QED
    BY <1>1, <2>1, ReadKeepsBase DEF SquadIInv
<1>3. ASSUME undisturbed, InTurnAt(c)
      PROVE  InTurnAt(d)'
  <2>1. StillSo(d)'
    BY <1>1, <1>3 DEF StillSo, In, Leads
  <2>2. \A u \in Users, s \in Squads : ClosedBy(c, u, s) <=> ClosedBy(d, u, s)
    BY DEF ClosedBy
  <2>3. \A s \in Squads :
           /\ SquadExists(s) <=> \E u \in Users : In(u, s)
           /\ IF LeaderlessBy(d, s)
              THEN \A u \in Users : ~Leads(u, s)
              ELSE SquadExists(s) => \E u \in Users : Leads(u, s)
           /\ \A u, v \in Users : Leads(u, s) /\ Leads(v, s) => u = v
           /\ \A u \in Users :
                 open[u][s] = IF In(u, s) /\ ~ClosedBy(d, u, s) THEN 1 ELSE 0
    BY <1>3, <2>2 DEF InTurnAt
  <2>4. \A s \in Squads :
           /\ SquadExists(s)' <=> SquadExists(s)
           /\ LeaderlessBy(d, s)' <=> LeaderlessBy(d, s)
           /\ \A u \in Users : /\ In(u, s)' <=> In(u, s)
                               /\ Leads(u, s)' <=> Leads(u, s)
                               /\ ClosedBy(d, u, s)' <=> ClosedBy(d, u, s)
    BY <1>1 DEF LeaderlessBy, ClosedBy, In, Leads, SquadExists
  <2> QED
    BY ONLY <1>1, <2>1, <2>3, <2>4 DEF InTurnAt
<1>4. InTurn'
  BY <1>1, <1>3, InTurnGoesOn DEF SquadIInv, Base
<1> QED
  BY <1>2, <1>4 DEF SquadIInv

LEMMA ReadEnds ==
    ASSUME SquadIInv, NEW i \in SquadSlots, NEW c \in SquadCalls,
           c = squadCalls[i], EndCall(i), UNCHANGED squadTables, UNCHANGED Ghosts,
           c.at \notin {"delete", "delete squad"},
           InTurnAt(c) => c.at \notin {"successor", "promote"}
    PROVE  SquadIInv'
<1>1. squadCalls' = [squadCalls EXCEPT ![i] = NoCall]
  BY DEF EndCall
<1>2. /\ CallFits(NoCall) /\ NoCall.op # "create" /\ NoCall.at = "idle"
      /\ StillSo(NoCall) /\ NoCall \in {NoCall} \cup SquadCalls
  BY NoCallShape, NoCallFits, NothingRead
<1>3. InTurnAt(c) => \A s \in Squads : LeaderlessBy(c, s) <=> LeaderlessBy(NoCall, s)
  BY <1>2 DEF LeaderlessBy
<1> QED
  BY <1>1, <1>2, <1>3, ReadStep

(* A call that moves on keeps all it has read.                             *)
Moved(c, d, place) ==
    /\ d.at = place /\ d.op = c.op /\ d.user = c.user /\ d.squad = c.squad
    /\ d.target = c.target /\ d.role = c.role /\ d.actor = c.actor
    /\ d.next = c.next

LEMMA MovedOn ==
    ASSUME CallsTypeOK, NEW i \in SquadSlots, NEW c \in SquadCalls,
           c = squadCalls[i], NEW place \in SquadPlaces, MoveTo(i, place)
    PROVE  \E d \in SquadCalls :
               /\ squadCalls' = [squadCalls EXCEPT ![i] = d]
               /\ Moved(c, d, place) /\ d.accept = c.accept
<1>1. PICK d : d = [c EXCEPT !.at = place]
  OBVIOUS
<1>2. d \in SquadCalls /\ Moved(c, d, place) /\ d.accept = c.accept
  BY <1>1 DEF SquadCalls, Moved
<1>3. squadCalls' = [squadCalls EXCEPT ![i] = d]
  BY <1>1 DEF MoveTo
<1> QED
  BY <1>2, <1>3

LEMMA ReadActorStep ==
    ASSUME SquadIInv, NEW i \in SquadSlots, ReadActor(i), UNCHANGED Ghosts
    PROVE  SquadIInv'
<1>1. PICK c : c = squadCalls[i]
  OBVIOUS
<1>2. c \in SquadCalls /\ c.at = "actor" /\ UNCHANGED squadTables
  BY <1>1, BusyCall, NoCallShape DEF ReadActor, SquadIInv, Base
<1>3. CASE ~MayProceed(c, member[c.user])
  BY <1>1, <1>2, <1>3, ReadEnds DEF ReadActor
<1>4. CASE MayProceed(c, member[c.user])
  <2>1. PICK d : d = [c EXCEPT !.actor = member[c.user], !.at = AfterActor(c.op)]
    OBVIOUS
  <2>2. /\ member[c.user] \in Member /\ NoSquad \notin Squads
        /\ member[c.user].squad \in Squads \cup {NoSquad}
    BY <1>2, TypedTables, CallShape DEF SquadIInv, Base
  <2>3. AfterActor(c.op) \in {"squad", "request", "count", "target", "write"}
    BY <1>2, CallShape DEF AfterActor, Ops
  <2>4. /\ d \in SquadCalls /\ d.op = c.op /\ d.user = c.user
        /\ d.target = c.target /\ d.squad = c.squad /\ d.actor = member[c.user]
        /\ d.at = AfterActor(c.op)
    BY <1>2, <2>1, <2>2, <2>3 DEF SquadCalls, SquadPlaces
  <2>5. squadCalls' = [squadCalls EXCEPT ![i] = d]
    BY <1>1, <1>2, <1>4, <2>1 DEF ReadActor, SquadCalls
  <2>6. CallFits(c) /\ c.op \in Ops
    BY <1>1, <1>2, CallShape DEF SquadIInv, Base, CallsFit
  <2>7. /\ c.op \in {"respond", "leave", "role", "kick", "settings"}
               => member[c.user].squad \in Squads
        /\ c.op \in {"role", "kick"} => c.target # c.user
    BY <1>4, <2>2, <2>6 DEF MayProceed, Ops
  <2>8. CallFits(d)
    BY <2>3, <2>4, <2>6, <2>7 DEF CallFits, AfterActor
  <2>9. StillSo(d)
    BY <2>3, <2>4, <2>6 DEF StillSo, AfterActor, Ops
  <2>10. \A s \in Squads : LeaderlessBy(c, s) <=> LeaderlessBy(d, s)
    BY <1>2, <2>3, <2>4 DEF LeaderlessBy
  <2> QED
    BY <1>1, <1>2, <2>3, <2>4, <2>5, <2>8, <2>9, <2>10, ReadStep
<1> QED
  BY <1>3, <1>4

(* The reads of join and of respond, of which nothing is relied on but the *)
(* squad of a request.                                                     *)
LEMMA AskingStep ==
    ASSUME SquadIInv, NEW i \in SquadSlots, UNCHANGED Ghosts,
           \/ JoinReadSquad(i) \/ CountMembers(i)
           \/ RespondReadRequest(i) \/ RespondReadAsker(i)
    PROVE  SquadIInv'
<1>1. PICK c : c = squadCalls[i]
  OBVIOUS
<1>2. /\ UNCHANGED squadTables /\ c.op \in {"join", "respond"}
      /\ c.at \in {"squad", "count", "request", "asker"}
  BY <1>1 DEF JoinReadSquad, CountMembers, RespondReadRequest, RespondReadAsker, CallAt
<1>3. c \in SquadCalls /\ CallFits(c)
  BY <1>1, <1>2, BusyCall DEF SquadIInv, Base, CallsFit
<1>4. CASE EndCall(i)
  BY <1>1, <1>2, <1>3, <1>4, ReadEnds
<1>5. CASE ~EndCall(i)
  <2>1. PICK d \in SquadCalls :
            /\ squadCalls' = [squadCalls EXCEPT ![i] = d]
            /\ d.op = c.op /\ d.user = c.user /\ d.squad = c.squad
            /\ d.target = c.target /\ d.actor = c.actor
            /\ d.at \in {"count", "write", "asker"}
            /\ c.op = "respond" => c.squad = c.actor.squad
                                   /\ <<c.target, c.squad>> \in wanted
    <3>1. CASE JoinReadSquad(i)
      <4>1. PICK d : d = [c EXCEPT !.at = "count",
                                   !.accept = squads[c.squad] = "private"]
        OBVIOUS
      <4>2. /\ d \in SquadCalls /\ d.op = c.op /\ d.user = c.user
            /\ d.squad = c.squad /\ d.target = c.target /\ d.actor = c.actor
            /\ d.at = "count"
        BY <1>3, <4>1 DEF SquadCalls, SquadPlaces
      <4>3. squadCalls' = [squadCalls EXCEPT ![i] = d] /\ c.op = "join"
        BY <1>1, <1>3, <1>5, <3>1, <4>1 DEF JoinReadSquad, SquadCalls, CallAt
      <4> QED
        BY <4>2, <4>3
    <3>2. CASE CountMembers(i)
      <4>1. MoveTo(i, "write") /\ "write" \in SquadPlaces /\ c.at = "count"
        BY <1>1, <1>5, <3>2 DEF CountMembers, SquadPlaces
      <4>2. PICK d \in SquadCalls :
               squadCalls' = [squadCalls EXCEPT ![i] = d] /\ Moved(c, d, "write")
        BY <1>1, <1>3, <4>1, MovedOn DEF SquadIInv, Base
      <4> QED
        BY <1>3, <4>1, <4>2 DEF Moved, CallFits
    <3>3. CASE RespondReadRequest(i)
      <4>1. /\ requests[c.target][c.squad] = "pending" /\ c.squad = c.actor.squad
            /\ c.op = "respond"
        BY <1>1, <1>5, <3>3 DEF RespondReadRequest, Answerable, CallAt
      <4>2. <<c.target, c.squad>> \in wanted
        BY <1>3, <4>1, CallShape DEF SquadIInv, Base, RowsFit, CallFits
      <4>3. PICK place \in {"asker", "write"} : MoveTo(i, place)
        BY <1>1, <1>5, <3>3 DEF RespondReadRequest
      <4>4. place \in SquadPlaces
        BY <4>3 DEF SquadPlaces
      <4>5. PICK d \in SquadCalls :
               squadCalls' = [squadCalls EXCEPT ![i] = d] /\ Moved(c, d, place)
        BY <1>1, <1>3, <4>3, <4>4, MovedOn DEF SquadIInv, Base
      <4> QED
        BY <4>1, <4>2, <4>3, <4>5 DEF Moved
    <3>4. CASE RespondReadAsker(i)
      <4>1. /\ MoveTo(i, "count") /\ "count" \in SquadPlaces /\ c.at = "asker"
        BY <1>1, <1>5, <3>4 DEF RespondReadAsker, SquadPlaces, CallAt
      <4>2. PICK d \in SquadCalls :
               squadCalls' = [squadCalls EXCEPT ![i] = d] /\ Moved(c, d, "count")
        BY <1>1, <1>3, <4>1, MovedOn DEF SquadIInv, Base
      <4> QED
        BY <1>3, <4>1, <4>2 DEF Moved, CallFits
    <3> QED
      BY <3>1, <3>2, <3>3, <3>4
  <2>2. CallFits(d)
    BY <1>2, <1>3, <2>1 DEF CallFits
  <2>3. StillSo(d)
    BY <1>2, <2>1 DEF StillSo
  <2>4. \A s \in Squads : LeaderlessBy(c, s) <=> LeaderlessBy(d, s)
    BY <1>2, <2>1 DEF LeaderlessBy
  <2> QED
    BY <1>1, <1>2, <1>3, <2>1, <2>2, <2>3, <2>4, ReadStep
<1> QED
  BY <1>4, <1>5

LEMMA CountedMembers ==
    ASSUME NEW S \in SUBSET Users, NEW u \in S
    PROVE  /\ Cardinality(S) <= 1 => \A v \in S : v = u
           /\ ~(Cardinality(S) <= 1) => \E v \in S : v # u
<1>1. IsFiniteSet(S) /\ Cardinality(S) \in Nat
  BY MembersFinite
<1>2. Cardinality(S) # 0
  BY <1>1, FS_EmptySet
<1>3. Cardinality(S) <= 1 => Cardinality(S) = 1
  BY <1>1, <1>2
<1>4. Cardinality(S) = 1 => \E x : S = {x}
  BY <1>1, FS_Singleton
<1>5. S = {u} => Cardinality(S) = 1
  BY FS_Singleton
<1> QED
  BY <1>1, <1>3, <1>4, <1>5

LEMMA LeaveCountStep ==
    ASSUME SquadIInv, NEW i \in SquadSlots, LeaveCount(i), UNCHANGED Ghosts
    PROVE  SquadIInv'
<1>1. PICK c : c = squadCalls[i]
  OBVIOUS
<1> DEFINE s == c.actor.squad
           place == IF Cardinality(MembersOf(s)) <= 1 THEN "close last" ELSE "close"
<1>2. /\ UNCHANGED squadTables /\ c.op = "leave" /\ c.at = "count"
      /\ MoveTo(i, place)
  BY <1>1 DEF LeaveCount, CallAt
<1>3. c \in SquadCalls /\ CallFits(c) /\ c.user \in Users
  BY <1>1, <1>2, BusyCall, CallShape DEF SquadIInv, Base, CallsFit
<1>4. PICK d \in SquadCalls :
          squadCalls' = [squadCalls EXCEPT ![i] = d] /\ Moved(c, d, place)
  <2>1. place \in SquadPlaces
    BY DEF SquadPlaces
  <2> QED
    BY <1>1, <1>2, <1>3, <2>1, MovedOn DEF SquadIInv, Base
<1>5. CallFits(d)
  BY <1>2, <1>3, <1>4 DEF CallFits, Moved
<1>6. ASSUME InTurnAt(c)
      PROVE  StillSo(d)
  <2>1. member[c.user] = c.actor
    BY <1>2, <1>6 DEF InTurnAt, StillSo
  <2>2. /\ MembersOf(s) \in SUBSET Users /\ c.user \in MembersOf(s)
        /\ \A u \in Users : In(u, s) <=> u \in MembersOf(s)
    BY <1>3, <2>1 DEF MembersOf, In
  <2>3. /\ Cardinality(MembersOf(s)) <= 1 => \A v \in MembersOf(s) : v = c.user
        /\ ~(Cardinality(MembersOf(s)) <= 1) => \E v \in MembersOf(s) : v # c.user
    BY <2>2, CountedMembers
  <2>4. /\ d.at = "close last" => \A u \in Users : In(u, s) => u = c.user
        /\ d.at = "close" => \E u \in Users : In(u, s) /\ u # c.user
        /\ d.at \in {"close last", "close"}
    BY <1>4, <2>2, <2>3 DEF Moved
  <2>5. d.op = "leave" /\ d.user = c.user /\ d.actor = c.actor
    BY <1>2, <1>4 DEF Moved
  <2> QED
    BY <2>1, <2>4, <2>5 DEF StillSo
<1>7. d.at \in {"close last", "close"} /\ d.op = "leave"
  BY <1>2, <1>4 DEF Moved
<1>8. \A q \in Squads : LeaderlessBy(c, q) <=> LeaderlessBy(d, q)
  BY <1>2, <1>7 DEF LeaderlessBy
<1> QED
  BY <1>1, <1>2, <1>3, <1>4, <1>5, <1>6, <1>7, <1>8, ReadStep

LEMMA ReadTargetStep ==
    ASSUME SquadIInv, NEW i \in SquadSlots, ReadTarget(i), UNCHANGED Ghosts
    PROVE  SquadIInv'
<1>1. PICK c : c = squadCalls[i]
  OBVIOUS
<1> DEFINE s == c.actor.squad
           allowed == /\ member[c.target].squad = s
                      /\ IF c.op = "role"
                         THEN CanChangeRole(c.actor.role, member[c.target].role, c.role)
                         ELSE CanKick(c.actor.role, member[c.target].role)
<1>2. /\ UNCHANGED squadTables /\ c.op \in {"role", "kick"} /\ c.at = "target"
      /\ IF ~allowed THEN EndCall(i)
                     ELSE MoveTo(i, IF c.op = "role" THEN "write" ELSE "close")
  BY <1>1 DEF ReadTarget
<1>3. /\ c \in SquadCalls /\ CallFits(c) /\ c.user \in Users /\ c.target \in Users
      /\ c.actor.squad \in Squads
  BY <1>1, <1>2, BusyCall, CallShape DEF SquadIInv, Base, CallsFit, CallFits
<1>4. CASE ~allowed
  BY <1>1, <1>2, <1>3, <1>4, ReadEnds
<1>5. CASE allowed
  <2>1. PICK place \in {"write", "close"} :
            MoveTo(i, place) /\ (place = "write" <=> c.op = "role")
    BY <1>2, <1>5
  <2>2. PICK d \in SquadCalls :
            squadCalls' = [squadCalls EXCEPT ![i] = d] /\ Moved(c, d, place)
    <3>1. place \in SquadPlaces
      BY DEF SquadPlaces
    <3> QED
      BY <1>1, <1>3, <2>1, <3>1, MovedOn DEF SquadIInv, Base
  <2>3. CallFits(d)
    BY <1>2, <1>3, <2>1, <2>2 DEF CallFits, Moved
  <2>4. ASSUME InTurnAt(c)
        PROVE  StillSo(d)
    <3>1. member[c.user] = c.actor /\ c.target # c.user
      BY <1>2, <1>3, <2>4 DEF InTurnAt, StillSo, CallFits
    <3>2. c.actor.role = "leader" => ~Leads(c.target, s)
      BY <1>3, <2>4, <3>1 DEF InTurnAt, Leads
    <3>3. ~Leads(c.target, s)
      BY <1>5, <3>2 DEF CanChangeRole, CanKick, RoleRank, Leads
    <3>4. c.op = "role" => c.role # "leader"
      BY <1>5 DEF CanChangeRole, RoleRank
    <3>5. In(c.target, s)
      BY <1>5 DEF In
    <3> QED
      BY <1>2, <2>1, <2>2, <3>1, <3>3, <3>4, <3>5 DEF StillSo, Moved
  <2>5. d.at \in {"write", "close"} /\ d.op \in {"role", "kick"}
    BY <1>2, <2>2 DEF Moved
  <2>6. \A q \in Squads : LeaderlessBy(c, q) <=> LeaderlessBy(d, q)
    BY <1>2, <2>5 DEF LeaderlessBy
  <2> QED
    BY <1>1, <1>2, <1>3, <2>2, <2>3, <2>4, <2>5, <2>6, ReadStep
<1> QED
  BY <1>4, <1>5

LEMMA ChooseSuccessorStep ==
    ASSUME SquadIInv, NEW i \in SquadSlots, ChooseSuccessor(i), UNCHANGED Ghosts
    PROVE  SquadIInv'
<1>1. PICK c : c = squadCalls[i]
  OBVIOUS
<1> DEFINE s == c.actor.squad
<1>2. /\ UNCHANGED squadTables /\ c.op = "leave" /\ c.at = "successor"
      /\ \/ MembersOf(s) = {} /\ EndCall(i)
         \/ \E u \in MembersOf(s) :
               squadCalls' = [squadCalls EXCEPT ![i].next = u, ![i].at = "promote"]
  BY <1>1, Zenon DEF ChooseSuccessor, CallAt
<1>3. c \in SquadCalls /\ CallFits(c)
  BY <1>1, <1>2, BusyCall DEF SquadIInv, Base, CallsFit
<1>4. CASE MembersOf(s) = {} /\ EndCall(i)
  <2>1. ~InTurnAt(c)
    BY <1>2, <1>4 DEF InTurnAt, StillSo, In, MembersOf
  <2> QED
    BY <1>1, <1>2, <1>3, <1>4, <2>1, ReadEnds
<1>5. CASE \E u \in MembersOf(s) :
               squadCalls' = [squadCalls EXCEPT ![i].next = u, ![i].at = "promote"]
  <2>1. PICK u \in MembersOf(s) :
               squadCalls' = [squadCalls EXCEPT ![i].next = u, ![i].at = "promote"]
    BY <1>5
  <2>2. PICK d : d = [c EXCEPT !.next = u, !.at = "promote"]
    OBVIOUS
  <2>3. u \in Users /\ In(u, s)
    BY DEF MembersOf, In
  <2>4. /\ d \in SquadCalls /\ d.op = c.op /\ d.user = c.user /\ d.actor = c.actor
        /\ d.target = c.target /\ d.squad = c.squad /\ d.at = "promote" /\ d.next = u
    BY <1>3, <2>2, <2>3 DEF SquadCalls, SquadPlaces
  <2>5. squadCalls' = [squadCalls EXCEPT ![i] = d]
    BY <1>1, <1>3, <2>1, <2>2 DEF SquadCalls
  <2>6. CallFits(d) /\ StillSo(d)
    BY <1>2, <1>3, <2>3, <2>4 DEF CallFits, StillSo
  <2>7. \A q \in Squads : LeaderlessBy(c, q) <=> LeaderlessBy(d, q)
    BY <1>2, <2>4 DEF LeaderlessBy
  <2> QED
    BY <1>1, <1>2, <1>3, <2>4, <2>5, <2>6, <2>7, ReadStep
<1> QED
  BY <1>2, <1>4, <1>5

LEMMA RequestShape ==
    ASSUME NEW r \in SquadRequests
    PROVE  /\ r \in SquadCalls /\ r.at = "actor"
           /\ r.op \in {"create", "join", "respond"} => r.squad \in Squads
           /\ r.op = "leave" => r.target = r.user
<1>1. NoMember \in Member
  BY DEF NoMember, Member, Roles
<1>2. \A u, v \in Users, s \in Squads \cup {NoSquad}, role \in Roles,
         a \in BOOLEAN, op \in Ops :
          LET q == SquadCall(op, u, s, v, role, a)
          IN  /\ q \in SquadCalls /\ q.at = "actor" /\ q.op = op
              /\ q.user = u /\ q.target = v /\ q.squad = s
  BY <1>1 DEF SquadCall, SquadCalls, SquadPlaces
<1>3. {"leader", "member"} \subseteq Roles
  BY DEF Roles
<1>4. \E u, v \in Users, s \in Squads \cup {NoSquad}, role \in Roles,
         a \in BOOLEAN, op \in Ops :
          /\ r = SquadCall(op, u, s, v, role, a)
          /\ op \in {"create", "join", "respond"} => s \in Squads
          /\ op = "leave" => v = u
  <2>1. CASE r \in {SquadCall("create", u, s, u, "leader", p) :
                     u \in Users, s \in Squads, p \in BOOLEAN}
    <3>1. PICK u \in Users, s \in Squads, p \in BOOLEAN :
                r = SquadCall("create", u, s, u, "leader", p)
      BY ONLY <2>1
    <3> QED
      BY <1>3, <3>1 DEF Ops
  <2>2. CASE r \in {SquadCall("join", u, s, u, "member", FALSE) :
                     u \in Users, s \in Squads}
    <3>1. PICK u \in Users, s \in Squads :
                r = SquadCall("join", u, s, u, "member", FALSE)
      BY ONLY <2>2 DEF SquadCall
    <3> QED
      BY <1>3, <3>1 DEF Ops
  <2>3. CASE r \in {SquadCall("respond", u, s, v, "member", a) :
                     u \in Users, v \in Users, s \in Squads, a \in BOOLEAN}
    <3>1. PICK u \in Users, v \in Users, s \in Squads, a \in BOOLEAN :
                r = SquadCall("respond", u, s, v, "member", a)
      BY ONLY <2>3
    <3> QED
      BY <1>3, <3>1 DEF Ops
  <2>4. CASE r \in {SquadCall("leave", u, NoSquad, u, "member", FALSE) :
                     u \in Users}
    <3>1. PICK u \in Users :
                r = SquadCall("leave", u, NoSquad, u, "member", FALSE)
      BY ONLY <2>4
    <3> QED
      BY <1>3, <3>1 DEF Ops
  <2>5. CASE r \in {SquadCall("role", u, NoSquad, v, q, FALSE) :
                     u \in Users, v \in Users, q \in Roles}
    <3>1. PICK u \in Users, v \in Users, q \in Roles :
                r = SquadCall("role", u, NoSquad, v, q, FALSE)
      BY ONLY <2>5 DEF SquadCall
    <3> QED
      BY <1>3, <3>1 DEF Ops
  <2>6. CASE r \in {SquadCall("kick", u, NoSquad, v, "member", FALSE) :
                     u \in Users, v \in Users}
    <3>1. PICK u \in Users, v \in Users :
                r = SquadCall("kick", u, NoSquad, v, "member", FALSE)
      BY ONLY <2>6 DEF SquadCall
    <3> QED
      BY <1>3, <3>1 DEF Ops
  <2>7. CASE r \in {SquadCall("settings", u, NoSquad, u, "member", p) :
                     u \in Users, p \in BOOLEAN}
    <3>1. PICK u \in Users, p \in BOOLEAN :
                r = SquadCall("settings", u, NoSquad, u, "member", p)
      BY ONLY <2>7
    <3> QED
      BY <1>3, <3>1 DEF Ops
  <2> QED
    BY <2>1, <2>2, <2>3, <2>4, <2>5, <2>6, <2>7 DEF SquadRequests, SquadCall
<1> QED
  BY <1>2, <1>4

LEMMA MakeCallStep ==
    ASSUME SquadIInv, NEW i \in SquadSlots, NEW r \in SquadRequests, MakeCall(i, r)
    PROVE  SquadIInv'
<1>1. /\ squads' = squads /\ member' = member /\ requests' = requests
      /\ open' = open /\ called' = called + 1 /\ called < MaxSquadCalls
      /\ squadFaults' = squadFaults /\ SquadIdle(i)
      /\ squadCalls' = [squadCalls EXCEPT ![i] = r]
      /\ undisturbed' = (undisturbed /\ Busy = {})
      /\ wanted' = IF r.op \in {"create", "join"}
                   THEN wanted \cup {<<r.user, r.squad>>} ELSE wanted
  BY DEF MakeCall, squadTables
<1>2. /\ r \in SquadCalls /\ r.at = "actor" /\ r.user \in Users
      /\ r.op \in {"create", "join", "respond"} => r.squad \in Squads
      /\ r.op = "leave" => r.target = r.user
  BY RequestShape, CallShape
<1>3. /\ wanted \subseteq wanted' /\ wanted' \subseteq Users \X Squads
  BY <1>1, <1>2 DEF SquadIInv, Base, SquadTypeOK
<1>4. Base'
  <2> USE DEF SquadIInv, Base
  <2>1. SquadTypeOK'
    <3>1. called' \in 0..MaxSquadCalls
      BY <1>1, SquadAssumption DEF SquadTypeOK
    <3>2. undisturbed' \in BOOLEAN
      BY <1>1 DEF SquadTypeOK
    <3> QED
      BY <1>1, <1>3, <3>1, <3>2 DEF SquadTypeOK
  <2>2. RowsFit' /\ SquadNeverOverfull' /\ MembersWantedIn' /\ OneOpenHistory'
    BY <1>1, <1>3 DEF RowsFit, SquadNeverOverfull, MembersWantedIn, OneOpenHistory,
                      SquadExists, MembersOf
  <2>3. CallFits(r)'
    <3>1. r.op \in {"create", "join"} => <<r.user, r.squad>> \in wanted'
      BY <1>1
    <3>2. r.op = "create" => squads'[r.squad] = "none"
      BY <1>1 DEF MakeCall, SquadExists
    <3> QED
      BY <1>2, <3>1, <3>2 DEF CallFits, SquadExists
  <2>4. r.op = "create" => \A j \in SquadSlots \ {i} :
            squadCalls[j].op = "create" => squadCalls[j].squad # r.squad
    <3>1. ASSUME NEW j \in SquadSlots, squadCalls[j].op = "create"
          PROVE  j \in Busy
      <4>1. squadCalls[j] \in SquadCalls
        BY <3>1, BusyCall
      <4> QED
        BY <4>1, CallShape DEF Busy, SquadIdle
    <3> QED
      BY <3>1 DEF MakeCall
  <2>5. \A j \in SquadSlots \ {i} :
            squadCalls[j].op = "create" => squads'[squadCalls[j].squad] = "none"
    BY <1>1 DEF CallsFit, CallFits, SquadExists
  <2>6. squadFaults' \in Nat
    BY <1>1 DEF CallsTypeOK
  <2>7. CallsTypeOK' /\ CallsFit' /\ NewIdsDiffer'
    BY <1>1, <1>2, <1>3, <2>3, <2>4, <2>5, <2>6, CallGoesOn
  <2> QED
    BY <2>1, <2>2, <2>7
<1>5. InTurn'
  <2> SUFFICES ASSUME undisturbed, Busy = {}
               PROVE  /\ \A j, k \in SquadSlots :
                           ~SquadIdle(j)' /\ ~SquadIdle(k)' => j = k
                      /\ (\A j \in SquadSlots : SquadIdle(j)') => InTurnAt(NoCall)'
                      /\ \A j \in SquadSlots : ~SquadIdle(j)' => InTurnAt(squadCalls[j])'
    BY <1>1 DEF InTurn
  <2>1. \A j \in SquadSlots : SquadIdle(j)
    BY DEF Busy
  <2>2. InTurnAt(NoCall)
    BY <2>1 DEF SquadIInv, InTurn
  <2>3. /\ squadCalls'[i] = r
        /\ \A j \in SquadSlots \ {i} : squadCalls'[j] = squadCalls[j]
    BY <1>1 DEF SquadIInv, Base, CallsTypeOK
  <2>4. /\ \A j \in SquadSlots : ~SquadIdle(j)' <=> j = i
    BY <1>2, <2>1, <2>3 DEF SquadIdle
  <2>5. InTurnAt(r)'
    <3>1. \A s \in Squads :
             /\ ~LeaderlessBy(NoCall, s) /\ ~LeaderlessBy(r, s)
             /\ LeaderlessBy(r, s)' <=> LeaderlessBy(r, s)
             /\ SquadExists(s)' <=> SquadExists(s)
             /\ \A u \in Users :
                   /\ ~ClosedBy(NoCall, u, s) /\ ~ClosedBy(r, u, s)
                   /\ ClosedBy(r, u, s)' <=> ClosedBy(r, u, s)
                   /\ In(u, s)' <=> In(u, s)
                   /\ Leads(u, s)' <=> Leads(u, s)
      BY <1>1, <1>2, NoCallShape DEF LeaderlessBy, ClosedBy, In, Leads, SquadExists
    <3>2. StillSo(r)'
      BY <1>2 DEF StillSo
    <3> QED
      BY ONLY <1>1, <2>2, <3>1, <3>2 DEF InTurnAt
  <2> QED
    BY <2>3, <2>4, <2>5
<1> QED
  BY <1>4, <1>5 DEF SquadIInv

LEMMA SquadFaultStep ==
    ASSUME SquadIInv, NEW i \in SquadSlots, SquadFault(i)
    PROVE  SquadIInv'
<1>1. /\ squadCalls' = [squadCalls EXCEPT ![i] = NoCall]
      /\ UNCHANGED squadTables /\ called' = called /\ wanted' = wanted
      /\ undisturbed' = FALSE /\ squadFaults' \in Nat
  BY DEF SquadFault, EndCall, SquadIInv, Base, CallsTypeOK
<1>2. NoCall \in {NoCall} \cup SquadCalls /\ CallFits(NoCall) /\ NoCall.op # "create"
  BY NoCallShape, NoCallFits
<1>3. Base'
  BY <1>1, <1>2, ReadKeepsBase DEF SquadIInv
<1>4. InTurn'
  BY <1>1 DEF InTurn
<1> QED
  BY <1>3, <1>4 DEF SquadIInv
----------------------------------------------------------------------------
(* The steps that write a table.                                           *)

(* The squads, their members, leaders and histories stay what they are.    *)
LEMMA InTurnEnds ==
    ASSUME NEW c \in SquadCalls, InTurnAt(c),
           c.at \notin {"delete", "delete squad", "successor", "promote"},
           \A s \in Squads :
               /\ SquadExists(s)' <=> SquadExists(s)
               /\ \A u \in Users : /\ In(u, s)' <=> In(u, s)
                                   /\ Leads(u, s)' <=> Leads(u, s)
                                   /\ open'[u][s] = open[u][s]
    PROVE  InTurnAt(NoCall)'
<1>1. \A s \in Squads :
          /\ ~LeaderlessBy(c, s) /\ ~LeaderlessBy(NoCall, s)'
          /\ \A u \in Users : ~ClosedBy(c, u, s) /\ ~ClosedBy(NoCall, u, s)'
  BY NoCallShape DEF LeaderlessBy, ClosedBy
<1>2. StillSo(NoCall)'
  BY NothingRead
<1> QED
  BY <1>1, <1>2 DEF InTurnAt

(* A call that has written, and ends or goes on to d.                      *)
LEMMA WriteStep ==
    ASSUME SquadIInv, NEW i \in SquadSlots, NEW c \in SquadCalls,
           c = squadCalls[i], NEW d \in {NoCall} \cup SquadCalls,
           squadCalls' = [squadCalls EXCEPT ![i] = d], UNCHANGED Ghosts,
           CallFits(d)', d.op # "create",
           \A j \in SquadSlots \ {i} :
               squadCalls[j].op = "create" => squads'[squadCalls[j].squad] = "none",
           SquadTypeOK', RowsFit', SquadNeverOverfull', MembersWantedIn',
           OneOpenHistory',
           InTurnAt(c) => InTurnAt(d)'
    PROVE  SquadIInv'
<1>1. /\ wanted' = wanted /\ undisturbed' = undisturbed
      /\ squadFaults' = squadFaults /\ squadFaults \in Nat
  BY DEF Ghosts, SquadIInv, Base, CallsTypeOK
<1>2. CallsTypeOK' /\ CallsFit' /\ NewIdsDiffer'
  BY <1>1, CallGoesOn DEF SquadIInv
<1>3. InTurn'
  BY <1>1, InTurnGoesOn DEF SquadIInv, Base
<1> QED
  BY <1>2, <1>3 DEF SquadIInv, Base

LEMMA OthersCreateYet ==
    ASSUME SquadIInv, NEW i \in SquadSlots,
           \A s \in Squads : SquadExists(s)' => SquadExists(s)
    PROVE  \A j \in SquadSlots \ {i} :
               squadCalls[j].op = "create" => squads'[squadCalls[j].squad] = "none"
<1> SUFFICES ASSUME NEW j \in SquadSlots, squadCalls[j].op = "create"
             PROVE  squads'[squadCalls[j].squad] = "none"
  OBVIOUS
<1>1. CallFits(squadCalls[j])
  BY DEF SquadIInv, Base, CallsFit
<1>2. squadCalls[j].squad \in Squads /\ squads[squadCalls[j].squad] = "none"
  BY <1>1 DEF CallFits, SquadExists
<1>3. PICK s \in Squads : s = squadCalls[j].squad
  BY <1>2
<1>4. squads'[s] = "none"
  BY <1>2, <1>3 DEF SquadExists
<1> QED
  BY <1>3, <1>4

LEMMA WritingEnds ==
    ASSUME SquadIInv, NEW i \in SquadSlots, NEW c \in SquadCalls,
           c = squadCalls[i], EndCall(i), UNCHANGED Ghosts,
           \A j \in SquadSlots \ {i} :
               squadCalls[j].op = "create" => squads'[squadCalls[j].squad] = "none",
           SquadTypeOK', RowsFit', SquadNeverOverfull', MembersWantedIn',
           OneOpenHistory',
           InTurnAt(c) => InTurnAt(NoCall)'
    PROVE  SquadIInv'
<1>1. squadCalls' = [squadCalls EXCEPT ![i] = NoCall]
  BY DEF EndCall
<1>2. CallFits(NoCall)' /\ NoCall.op # "create" /\ NoCall \in {NoCall} \cup SquadCalls
  BY NoCallShape, NoCallFits
<1> QED
  BY <1>1, <1>2, WriteStep

LEMMA CloseHistoryStep ==
    ASSUME SquadIInv, NEW i \in SquadSlots, CloseHistory(i), UNCHANGED Ghosts
    PROVE  SquadIInv'
<1>1. PICK c : c = squadCalls[i]
  OBVIOUS
<1> DEFINE s == c.actor.squad
           place == IF c.at = "close" THEN "delete" ELSE "delete squad"
<1>2. /\ c.op \in {"leave", "kick"} /\ c.at \in {"close", "close last"}
      /\ open' = [open EXCEPT ![c.target][s] = 0] /\ MoveTo(i, place)
      /\ squads' = squads /\ member' = member /\ requests' = requests
  BY <1>1 DEF CloseHistory
<1>3. /\ c \in SquadCalls /\ CallFits(c) /\ c.target \in Users /\ s \in Squads
  BY <1>1, <1>2, BusyCall, CallShape DEF SquadIInv, Base, CallsFit, CallFits
<1>4. PICK d \in SquadCalls :
          squadCalls' = [squadCalls EXCEPT ![i] = d] /\ Moved(c, d, place)
  <2>1. place \in SquadPlaces
    BY DEF SquadPlaces
  <2> QED
    BY <1>1, <1>2, <1>3, <2>1, MovedOn DEF SquadIInv, Base
<1>5. wanted' = wanted /\ called' = called /\ undisturbed' = undisturbed
  BY DEF Ghosts
<1>6. SquadTypeOK /\ open \in [Users -> [Squads -> Nat]]
  BY TypedTables DEF SquadIInv, Base
<1>7. /\ open' \in [Users -> [Squads -> Nat]]
      /\ open'[c.target][s] = 0
      /\ \A u \in Users, q \in Squads :
             ~(u = c.target /\ q = s) => open'[u][q] = open[u][q]
  BY <1>2, <1>3, <1>6
<1>8. SquadTypeOK'
  BY <1>2, <1>5, <1>6, <1>7 DEF SquadTypeOK
<1>9. RowsFit' /\ SquadNeverOverfull' /\ MembersWantedIn' /\ OneOpenHistory'
  <2>1. \A u \in Users, q \in Squads :
            /\ open'[u][q] \in {open[u][q], 0}
            /\ requests'[u][q] # "none" => <<u, q>> \in wanted
    BY <1>2, <1>7 DEF SquadIInv, Base, RowsFit
  <2>2. \A q \in Squads : SquadExists(q)' <=> SquadExists(q)
    BY <1>2 DEF SquadExists
  <2> QED
    BY <1>2, <1>5, <1>8, <2>1, <2>2, NoMemberAdded DEF SquadIInv
<1>10. CallFits(d)' /\ d.op # "create"
  <2>1. CallFits(d)
    BY <1>2, <1>3, <1>4 DEF CallFits, Moved
  <2> QED
    BY <1>2, <1>4, <1>5, <2>1 DEF CallFits, SquadExists, Moved
<1>11. \A j \in SquadSlots \ {i} :
           squadCalls[j].op = "create" => squads'[squadCalls[j].squad] = "none"
  BY <1>2, OthersCreateYet DEF SquadExists
<1>12. ASSUME InTurnAt(c)
       PROVE  InTurnAt(d)'
  <2>1. StillSo(d)'
    <3>1. StillSo(c)
      BY <1>12 DEF InTurnAt
    <3> QED
      BY <1>2, <1>3, <1>4, <3>1 DEF StillSo, Moved, CallFits, In, Leads
  <2>2. \A q \in Squads :
            /\ ~LeaderlessBy(c, q) /\ ~LeaderlessBy(d, q)'
            /\ SquadExists(q)' <=> SquadExists(q)
            /\ \A u \in Users : /\ In(u, q)' <=> In(u, q)
                                /\ Leads(u, q)' <=> Leads(u, q)
                                /\ ~ClosedBy(c, u, q)
                                /\ ClosedBy(d, u, q)' <=> u = c.target /\ q = s
    BY <1>2, <1>4 DEF LeaderlessBy, ClosedBy, In, Leads, SquadExists, Moved
  <2> QED
    BY <1>7, <1>12, <2>1, <2>2 DEF InTurnAt
<1> QED
  BY <1>1, <1>3, <1>4, <1>8, <1>9, <1>10, <1>11, <1>12, WriteStep

LEMMA DeleteSquadStep ==
    ASSUME SquadIInv, NEW i \in SquadSlots, DeleteSquad(i), UNCHANGED Ghosts
    PROVE  SquadIInv'
<1>1. PICK c : c = squadCalls[i]
  OBVIOUS
<1>a. c.op = "leave" /\ c.at = "delete squad" /\ EndCall(i)
  BY <1>1 DEF DeleteSquad, CallAt
<1>b. c \in SquadCalls /\ c.actor.squad \in Squads
  BY <1>1, <1>a, BusyCall DEF SquadIInv, Base, CallsFit, CallFits
<1>c. PICK s \in Squads : s = c.actor.squad
  BY <1>b
<1>2. /\ squads' = [squads EXCEPT ![s] = "none"]
      /\ member' = [u \in Users |-> IF member[u].squad = s THEN NoMember ELSE member[u]]
      /\ requests' = [u \in Users |-> [requests[u] EXCEPT ![s] = "none"]]
      /\ open' = [u \in Users |-> [open[u] EXCEPT ![s] = 0]]
  BY <1>1, <1>c DEF DeleteSquad
<1>3. wanted' = wanted /\ called' = called /\ undisturbed' = undisturbed
  BY DEF Ghosts
<1>4. SquadTypeOK
  BY DEF SquadIInv, Base
<1>5. NoMember \in Member /\ NoMember.squad = NoSquad
  BY DEF NoMember, Member, Roles
<1>6. /\ squads' \in [Squads -> {"none", "public", "private"}]
      /\ squads'[s] = "none" /\ \A q \in Squads \ {s} : squads'[q] = squads[q]
  BY <1>2, <1>4, TypedTables
<1>7. /\ open' \in [Users -> [Squads -> Nat]]
      /\ \A u \in Users : /\ open'[u][s] = 0
                          /\ \A q \in Squads \ {s} : open'[u][q] = open[u][q]
  BY <1>2, <1>4, TypedTables
<1>8. /\ requests' \in [Users -> [Squads -> {"none", "pending", "accepted", "declined"}]]
      /\ \A u \in Users : /\ requests'[u][s] = "none"
                          /\ \A q \in Squads \ {s} : requests'[u][q] = requests[u][q]
  BY <1>2, <1>4, TypedTables
<1>9. /\ member' \in [Users -> Member]
      /\ \A u \in Users : /\ member[u].squad = s => member'[u] = NoMember
                          /\ member[u].squad # s => member'[u] = member[u]
  BY <1>2, <1>4, <1>5, TypedTables
<1>10. SquadTypeOK'
  BY <1>3, <1>4, <1>6, <1>7, <1>8, <1>9 DEF SquadTypeOK, Member
<1>11. \A u \in Users : member'[u].squad # s
  BY <1>4, <1>5, <1>9, TypedTables
<1>12. RowsFit' /\ SquadNeverOverfull' /\ MembersWantedIn' /\ OneOpenHistory'
  <2>0. \A u \in Users, q \in Squads : requests[u][q] # "none" => <<u, q>> \in wanted
    BY DEF SquadIInv, Base, RowsFit
  <2>1. \A u \in Users, q \in Squads :
            /\ open'[u][q] \in {open[u][q], 0}
            /\ requests'[u][q] # "none" => <<u, q>> \in wanted
    <3>1. ASSUME NEW u \in Users, NEW q \in Squads
          PROVE  /\ open'[u][q] \in {open[u][q], 0}
                 /\ requests'[u][q] # "none" => <<u, q>> \in wanted
      BY ONLY <1>7, <1>8, <2>0, q = s \/ q \in Squads \ {s}
    <3> QED
      BY <3>1
  <2>2. \A q \in Squads :
            /\ SquadExists(q)' => SquadExists(q)
            /\ SquadExists(q) /\ ~SquadExists(q)' => q = s
    BY <1>6 DEF SquadExists
  <2>3. \A u \in Users : member'[u].squad \in {member[u].squad, NoSquad}
    BY <1>5, <1>9
  <2>4. \A q \in Squads : SquadExists(q) /\ ~SquadExists(q)' =>
            \A u \in Users : member'[u].squad # q /\ open'[u][q] = 0
    BY <1>7, <1>11, <2>2
  <2> QED
    BY <1>3, <1>10, <2>1, <2>2, <2>3, <2>4, NoMemberAdded DEF SquadIInv
<1>13. \A j \in SquadSlots \ {i} :
           squadCalls[j].op = "create" => squads'[squadCalls[j].squad] = "none"
  <2>1. \A q \in Squads : SquadExists(q)' => SquadExists(q)
    BY <1>6 DEF SquadExists
  <2> QED
    BY <2>1, OthersCreateYet
<1>14. ASSUME InTurnAt(c)
       PROVE  InTurnAt(NoCall)'
  <2>1. ~SquadExists(s)' /\ \A u \in Users : ~In(u, s)' /\ ~Leads(u, s)' /\ open'[u][s] = 0
    BY <1>6, <1>7, <1>11 DEF SquadExists, In, Leads
  <2>2. \A q \in Squads \ {s} :
            /\ SquadExists(q)' <=> SquadExists(q)
            /\ ~LeaderlessBy(c, q)
            /\ \A u \in Users : /\ In(u, q)' <=> In(u, q)
                                /\ Leads(u, q)' <=> Leads(u, q)
                                /\ ~ClosedBy(c, u, q)
                                /\ open'[u][q] = open[u][q]
    <3>1. ASSUME NEW q \in Squads, q # s
          PROVE  (SquadExists(q)' <=> SquadExists(q)) /\ ~LeaderlessBy(c, q)
      BY <1>6, <1>c, <3>1 DEF SquadExists, LeaderlessBy
    <3>2. ASSUME NEW q \in Squads, q # s, NEW u \in Users
          PROVE  ~ClosedBy(c, u, q) /\ open'[u][q] = open[u][q]
      BY <1>7, <1>c, <3>2 DEF ClosedBy
    <3>3. ASSUME NEW q \in Squads, q # s, NEW u \in Users
          PROVE  (In(u, q)' <=> In(u, q)) /\ (Leads(u, q)' <=> Leads(u, q))
      <4>1. CASE member[u].squad = s
        <5>1. member'[u].squad = NoSquad /\ NoSquad # q
          BY <1>5, <1>9, <4>1, SquadAssumption
        <5> QED
          BY <3>3, <4>1, <5>1 DEF In, Leads
      <4>2. CASE member[u].squad # s
        <5>1. member'[u] = member[u]
          BY <1>9, <4>2
        <5> QED
          BY <5>1 DEF In, Leads
      <4> QED
        BY <4>1, <4>2
    <3> QED
      BY <3>1, <3>2, <3>3
  <2>3. \A q \in Squads : /\ ~LeaderlessBy(NoCall, q)'
                          /\ \A u \in Users : ~ClosedBy(NoCall, u, q)'
    BY NoCallShape DEF LeaderlessBy, ClosedBy
  <2>4. StillSo(NoCall)'
    BY NothingRead
  <2> QED
    BY <1>14, <2>1, <2>2, <2>3, <2>4 DEF InTurnAt
<1> QED
  BY <1>1, <1>a, <1>b, <1>10, <1>12, <1>13, <1>14, WritingEnds

LEMMA DeleteMemberStep ==
    ASSUME SquadIInv, NEW i \in SquadSlots, DeleteMember(i), UNCHANGED Ghosts
    PROVE  SquadIInv'
<1>1. PICK c : c = squadCalls[i]
  OBVIOUS
<1>2. /\ c.op \in {"leave", "kick"} /\ c.at = "delete"
      /\ member' = IF member[c.target].squad = c.actor.squad
                   THEN [member EXCEPT ![c.target] = NoMember] ELSE member
      /\ IF c.op = "leave" /\ c.actor.role = "leader"
         THEN MoveTo(i, "successor") ELSE EndCall(i)
      /\ squads' = squads /\ requests' = requests /\ open' = open
  BY <1>1 DEF DeleteMember
<1>3. /\ c \in SquadCalls /\ CallFits(c) /\ c.target \in Users /\ c.user \in Users
      /\ c.actor.squad \in Squads /\ NoSquad \notin Squads
  BY <1>1, <1>2, BusyCall, CallShape, SquadAssumption DEF SquadIInv, Base, CallsFit, CallFits
<1>c. PICK s \in Squads, t \in Users : s = c.actor.squad /\ t = c.target
  BY <1>3
<1>4. /\ wanted' = wanted /\ called' = called /\ undisturbed' = undisturbed
      /\ SquadTypeOK
  BY DEF Ghosts, SquadIInv, Base
<1>5. NoMember \in Member /\ NoMember.squad = NoSquad
  BY DEF NoMember, Member, Roles
<1>6. /\ member' \in [Users -> Member]
      /\ member[t].squad = s => member'[t] = NoMember
      /\ member[t].squad # s => member'[t] = member[t]
      /\ \A u \in Users \ {t} : member'[u] = member[u]
  BY <1>2, <1>c, <1>4, <1>5, TypedTables
<1>7. SquadTypeOK'
  BY <1>2, <1>4, <1>6 DEF SquadTypeOK, Member
<1>8. RowsFit' /\ SquadNeverOverfull' /\ MembersWantedIn' /\ OneOpenHistory'
  <2>1. \A u \in Users, q \in Squads :
            /\ open'[u][q] \in {open[u][q], 0}
            /\ requests'[u][q] # "none" => <<u, q>> \in wanted
    BY <1>2 DEF SquadIInv, Base, RowsFit
  <2>2. \A q \in Squads : SquadExists(q)' <=> SquadExists(q)
    BY <1>2 DEF SquadExists
  <2>3. \A u \in Users : member'[u].squad \in {member[u].squad, NoSquad}
    BY <1>5, <1>6
  <2> QED
    BY <1>4, <1>7, <2>1, <2>2, <2>3, NoMemberAdded DEF SquadIInv
<1>9. \A j \in SquadSlots \ {i} :
          squadCalls[j].op = "create" => squads'[squadCalls[j].squad] = "none"
  BY <1>2, OthersCreateYet DEF SquadExists
<1>10. ASSUME InTurnAt(c)
       PROVE  /\ In(t, s) /\ open[t][s] = 0
              /\ \E v \in Users \ {t} : In(v, s)
              /\ Leads(t, s) <=> c.op = "leave" /\ c.actor.role = "leader"
  <2>1. StillSo(c) /\ member[c.user] = c.actor
    BY <1>2, <1>10 DEF InTurnAt, StillSo
  <2>2. CASE c.op = "leave"
    <3>1. t = c.user
      BY <1>3, <1>c, <2>2 DEF CallFits
    <3>2. In(t, s)
      BY <1>c, <2>1, <3>1 DEF In
    <3>3. Leads(t, s) <=> c.actor.role = "leader"
      BY <1>c, <2>1, <3>1 DEF Leads
    <3>4. \E v \in Users \ {t} : In(v, s)
      BY <1>2, <1>c, <2>1, <2>2, <3>1 DEF StillSo
    <3>5. open[t][s] = 0
      BY <1>2, <1>c, <1>10 DEF InTurnAt, ClosedBy
    <3> QED
      BY <2>2, <3>2, <3>3, <3>4, <3>5
  <2>3. CASE c.op = "kick"
    <3>1. t # c.user /\ In(c.user, s)
      BY <1>2, <1>3, <1>c, <2>1, <2>3 DEF CallFits, In
    <3>2. In(t, s) /\ ~Leads(t, s)
      BY <1>2, <1>c, <2>1, <2>3 DEF StillSo
    <3>3. open[t][s] = 0
      BY <1>2, <1>c, <1>10 DEF InTurnAt, ClosedBy
    <3> QED
      BY <1>3, <2>3, <3>1, <3>2, <3>3
  <2> QED
    BY <1>2, <2>2, <2>3
<1>11. ASSUME InTurnAt(c)
       PROVE  \A q \in Squads :
                  /\ ~LeaderlessBy(c, q)
                  /\ SquadExists(q)' <=> SquadExists(q)
                  /\ \A u \in Users :
                        /\ In(u, q)' <=> In(u, q) /\ ~(u = t /\ q = s)
                        /\ Leads(u, q)' <=> Leads(u, q) /\ ~(u = t /\ q = s)
                        /\ ClosedBy(c, u, q) <=> u = t /\ q = s
                        /\ open'[u][q] = open[u][q]
  BY <1>2, <1>3, <1>c, <1>5, <1>6, <1>10, <1>11
     DEF LeaderlessBy, SquadExists, In, Leads, ClosedBy
<1>12. CASE c.op = "leave" /\ c.actor.role = "leader"
  <2>1. PICK d \in SquadCalls :
            squadCalls' = [squadCalls EXCEPT ![i] = d] /\ Moved(c, d, "successor")
    BY <1>1, <1>2, <1>3, <1>12, MovedOn DEF SquadIInv, Base, SquadPlaces
  <2>2. CallFits(d)' /\ d.op # "create"
    <3>1. CallFits(d)
      BY <1>2, <1>3, <1>12, <2>1 DEF CallFits, Moved
    <3> QED
      BY <1>2, <1>4, <2>1, <3>1 DEF CallFits, SquadExists, Moved
  <2>3. ASSUME InTurnAt(c)
        PROVE  InTurnAt(d)'
    <3>1. \A q \in Squads :
              /\ LeaderlessBy(d, q)' <=> q = s
              /\ \A u \in Users : ~ClosedBy(d, u, q)'
      BY <1>c, <2>1 DEF LeaderlessBy, ClosedBy, Moved
    <3>2. StillSo(d)'
      BY <1>c, <1>10, <1>11, <1>12, <2>1, <2>3 DEF StillSo, Moved
    <3> QED
      BY <1>10, <1>11, <1>12, <2>3, <3>1, <3>2 DEF InTurnAt
  <2> QED
    BY <1>1, <1>3, <1>7, <1>8, <1>9, <2>1, <2>2, <2>3, WriteStep
<1>13. CASE ~(c.op = "leave" /\ c.actor.role = "leader")
  <2>1. EndCall(i)
    BY <1>2, <1>13
  <2>2. ASSUME InTurnAt(c)
        PROVE  InTurnAt(NoCall)'
    <3>1. \A q \in Squads :
              /\ ~LeaderlessBy(NoCall, q)'
              /\ \A u \in Users : ~ClosedBy(NoCall, u, q)'
      BY NoCallShape DEF LeaderlessBy, ClosedBy
    <3>2. StillSo(NoCall)'
      BY NothingRead
    <3> QED
      BY <1>10, <1>11, <1>13, <2>2, <3>1, <3>2 DEF InTurnAt
  <2> QED
    BY <1>1, <1>3, <1>7, <1>8, <1>9, <2>1, <2>2, WritingEnds
<1> QED
  BY <1>12, <1>13

LEMMA SetRoleKeepsBase ==
    ASSUME SquadIInv, NEW u \in Users, NEW s, NEW role \in Roles,
           SetRole(u, s, role), UNCHANGED <<squads, requests, open>>,
           UNCHANGED Ghosts
    PROVE  /\ SquadTypeOK' /\ RowsFit' /\ SquadNeverOverfull' /\ MembersWantedIn'
           /\ OneOpenHistory'
           /\ \A v \in Users : member'[v].squad = member[v].squad
           /\ \A v \in Users \ {u} : member'[v] = member[v]
           /\ member[u].squad = s => member'[u].role = role
           /\ member[u].squad # s => member'[u] = member[u]
<1>1. /\ wanted' = wanted /\ called' = called /\ undisturbed' = undisturbed
      /\ squads' = squads /\ requests' = requests /\ open' = open /\ SquadTypeOK
  BY DEF Ghosts, SquadIInv, Base
<1>2. PICK m : m = [member[u] EXCEPT !.role = role]
  OBVIOUS
<1>3. m \in Member /\ m.squad = member[u].squad /\ m.role = role
  BY <1>1, <1>2, TypedTables DEF Member
<1>4. member' = IF member[u].squad = s THEN [member EXCEPT ![u] = m] ELSE member
  BY <1>2 DEF SetRole
<1>5. /\ member' \in [Users -> Member]
      /\ \A v \in Users : member'[v].squad = member[v].squad
      /\ \A v \in Users \ {u} : member'[v] = member[v]
      /\ member[u].squad = s => member'[u].role = role
      /\ member[u].squad # s => member'[u] = member[u]
  BY <1>1, <1>3, <1>4, TypedTables
<1>6. SquadTypeOK'
  BY <1>1, <1>5 DEF SquadTypeOK, Member
<1>7. RowsFit' /\ SquadNeverOverfull' /\ MembersWantedIn' /\ OneOpenHistory'
  <2>1. \A v \in Users, q \in Squads :
            /\ open'[v][q] \in {open[v][q], 0}
            /\ requests'[v][q] # "none" => <<v, q>> \in wanted
    BY <1>1 DEF SquadIInv, Base, RowsFit
  <2>2. \A q \in Squads : SquadExists(q)' <=> SquadExists(q)
    BY <1>1 DEF SquadExists
  <2> QED
    BY <1>1, <1>5, <1>6, <2>1, <2>2, NoMemberAdded DEF SquadIInv
<1> QED
  BY <1>5, <1>6, <1>7

LEMMA PromoteStep ==
    ASSUME SquadIInv, NEW i \in SquadSlots, Promote(i), UNCHANGED Ghosts
    PROVE  SquadIInv'
<1>1. PICK c : c = squadCalls[i]
  OBVIOUS
<1>2. /\ c.op = "leave" /\ c.at = "promote" /\ EndCall(i)
      /\ SetRole(c.next, c.actor.squad, "leader")
      /\ squads' = squads /\ requests' = requests /\ open' = open
  BY <1>1 DEF Promote, CallAt
<1>3. /\ c \in SquadCalls /\ CallFits(c) /\ c.actor.squad \in Squads
      /\ c.next \in Users /\ "leader" \in Roles
  BY <1>1, <1>2, BusyCall, CallShape DEF SquadIInv, Base, CallsFit, CallFits, Roles
<1>c. PICK s \in Squads, n \in Users : s = c.actor.squad /\ n = c.next
  BY <1>3
<1>4. /\ SquadTypeOK' /\ RowsFit' /\ SquadNeverOverfull' /\ MembersWantedIn'
      /\ OneOpenHistory'
      /\ \A v \in Users : member'[v].squad = member[v].squad
      /\ \A v \in Users \ {n} : member'[v] = member[v]
      /\ member[n].squad = s => member'[n].role = "leader"
  BY <1>2, <1>3, <1>c, SetRoleKeepsBase
<1>5. \A j \in SquadSlots \ {i} :
          squadCalls[j].op = "create" => squads'[squadCalls[j].squad] = "none"
  BY <1>2, OthersCreateYet DEF SquadExists
<1>6. ASSUME InTurnAt(c)
      PROVE  InTurnAt(NoCall)'
  <2>1. In(n, s) /\ \A u \in Users : ~Leads(u, s)
    BY <1>2, <1>c, <1>6 DEF InTurnAt, StillSo, LeaderlessBy
  <2>2. \A q \in Squads :
            /\ SquadExists(q)' <=> SquadExists(q)
            /\ LeaderlessBy(c, q) <=> q = s
            /\ \A u \in Users :
                  /\ In(u, q)' <=> In(u, q)
                  /\ Leads(u, q)' <=> Leads(u, q) \/ (u = n /\ q = s)
                  /\ ~ClosedBy(c, u, q)
                  /\ open'[u][q] = open[u][q]
    BY <1>2, <1>c, <1>4, <2>1 DEF SquadExists, LeaderlessBy, In, Leads, ClosedBy
  <2>3. \A q \in Squads : /\ ~LeaderlessBy(NoCall, q)'
                          /\ \A u \in Users : ~ClosedBy(NoCall, u, q)'
    BY NoCallShape DEF LeaderlessBy, ClosedBy
  <2>4. StillSo(NoCall)'
    BY NothingRead
  <2> QED
    BY <1>6, <2>1, <2>2, <2>3, <2>4 DEF InTurnAt
<1> QED
  BY <1>1, <1>2, <1>3, <1>4, <1>5, <1>6, WritingEnds

LEMMA ChangeRoleStep ==
    ASSUME SquadIInv, NEW i \in SquadSlots, ChangeRole(i), UNCHANGED Ghosts
    PROVE  SquadIInv'
<1>1. PICK c : c = squadCalls[i]
  OBVIOUS
<1>2. /\ c.op = "role" /\ c.at = "write" /\ EndCall(i)
      /\ SetRole(c.target, c.actor.squad, c.role)
      /\ squads' = squads /\ requests' = requests /\ open' = open
  BY <1>1 DEF ChangeRole, CallAt
<1>3. /\ c \in SquadCalls /\ CallFits(c) /\ c.actor.squad \in Squads
      /\ c.target \in Users /\ c.role \in Roles
  BY <1>1, <1>2, BusyCall, CallShape DEF SquadIInv, Base, CallsFit, CallFits
<1>c. PICK s \in Squads, t \in Users : s = c.actor.squad /\ t = c.target
  BY <1>3
<1>4. /\ SquadTypeOK' /\ RowsFit' /\ SquadNeverOverfull' /\ MembersWantedIn'
      /\ OneOpenHistory'
      /\ \A v \in Users : member'[v].squad = member[v].squad
      /\ \A v \in Users \ {t} : member'[v] = member[v]
      /\ member[t].squad = s => member'[t].role = c.role
      /\ member[t].squad # s => member'[t] = member[t]
  BY <1>2, <1>3, <1>c, SetRoleKeepsBase
<1>5. \A j \in SquadSlots \ {i} :
          squadCalls[j].op = "create" => squads'[squadCalls[j].squad] = "none"
  BY <1>2, OthersCreateYet DEF SquadExists
<1>6. ASSUME InTurnAt(c)
      PROVE  InTurnAt(NoCall)'
  <2>1. ~Leads(t, s) /\ c.role # "leader"
    BY <1>2, <1>c, <1>6 DEF InTurnAt, StillSo
  <2>2. \A q \in Squads :
            /\ SquadExists(q)' <=> SquadExists(q)
            /\ \A u \in Users : /\ In(u, q)' <=> In(u, q)
                                /\ Leads(u, q)' <=> Leads(u, q)
                                /\ open'[u][q] = open[u][q]
    BY <1>2, <1>c, <1>4, <2>1 DEF SquadExists, In, Leads
  <2> QED
    BY <1>2, <1>3, <1>6, <2>2, InTurnEnds
<1> QED
  BY <1>1, <1>2, <1>3, <1>4, <1>5, <1>6, WritingEnds

LEMMA ChangeSettingsStep ==
    ASSUME SquadIInv, NEW i \in SquadSlots, ChangeSettings(i), UNCHANGED Ghosts
    PROVE  SquadIInv'
<1>1. PICK c : c = squadCalls[i]
  OBVIOUS
<1>2. /\ c.op = "settings" /\ c.at = "write" /\ EndCall(i)
      /\ squads' = IF SquadExists(c.actor.squad)
                   THEN [squads EXCEPT ![c.actor.squad] =
                            IF c.accept THEN "private" ELSE "public"]
                   ELSE squads
      /\ member' = member /\ requests' = requests /\ open' = open
  BY <1>1 DEF ChangeSettings, CallAt
<1>3. /\ c \in SquadCalls /\ CallFits(c) /\ c.actor.squad \in Squads
  BY <1>1, <1>2, BusyCall DEF SquadIInv, Base, CallsFit, CallFits
<1>4. /\ wanted' = wanted /\ called' = called /\ undisturbed' = undisturbed
      /\ SquadTypeOK
  BY DEF Ghosts, SquadIInv, Base
<1>5. /\ squads' \in [Squads -> {"none", "public", "private"}]
      /\ \A q \in Squads : SquadExists(q)' <=> SquadExists(q)
  BY <1>2, <1>3, <1>4, TypedTables DEF SquadExists
<1>6. SquadTypeOK'
  BY <1>2, <1>4, <1>5 DEF SquadTypeOK
<1>7. RowsFit' /\ SquadNeverOverfull' /\ MembersWantedIn' /\ OneOpenHistory'
  <2>1. \A v \in Users, q \in Squads :
            /\ open'[v][q] \in {open[v][q], 0}
            /\ requests'[v][q] # "none" => <<v, q>> \in wanted
    BY <1>2 DEF SquadIInv, Base, RowsFit
  <2>2. \A v \in Users : member'[v].squad \in {member[v].squad, NoSquad}
    BY <1>2
  <2> QED
    BY <1>4, <1>5, <1>6, <2>1, <2>2, NoMemberAdded DEF SquadIInv
<1>8. \A j \in SquadSlots \ {i} :
          squadCalls[j].op = "create" => squads'[squadCalls[j].squad] = "none"
  BY <1>5, OthersCreateYet
<1>9. ASSUME InTurnAt(c)
      PROVE  InTurnAt(NoCall)'
  <2>1. \A q \in Squads, u \in Users : /\ In(u, q)' <=> In(u, q)
                                       /\ Leads(u, q)' <=> Leads(u, q)
                                       /\ open'[u][q] = open[u][q]
    BY <1>2 DEF In, Leads
  <2> QED
    BY <1>2, <1>3, <1>5, <1>9, <2>1, InTurnEnds
<1> QED
  BY <1>1, <1>2, <1>3, <1>6, <1>7, <1>8, <1>9, WritingEnds
----------------------------------------------------------------------------
(* The steps that add a member.                                            *)

(* u comes into s, if at all: nothing else of the rows changes.            *)
LEMMA OneMemberAdded ==
    ASSUME Base, SquadTypeOK', wanted' = wanted, NEW u \in Users, NEW s \in Squads,
           <<u, s>> \in wanted, SquadExists(s)',
           \A v \in Users \ {u} : member'[v] = member[v],
           \/ member'[u] = member[u]
           \/ member'[u].squad = s /\ Cardinality(MembersOf(s)) < MaxMembers,
           \A v \in Users, q \in Squads :
               /\ v # u \/ q # s => open'[v][q] = open[v][q]
               /\ requests'[v][q] # "none" => <<v, q>> \in wanted,
           open'[u][s] <= 1,
           \A q \in Squads \ {s} : SquadExists(q)' <=> SquadExists(q)
    PROVE  /\ RowsFit' /\ SquadNeverOverfull' /\ MembersWantedIn'
           /\ OneOpenHistory'
<1> USE TypedTables DEF Base
<1>1. RowsFit'
  <2>1. ASSUME NEW v \in Users, NEW q \in Squads, ~SquadExists(q)'
        PROVE  member'[v].squad # q /\ open'[v][q] = 0
    <3>1. q # s /\ ~SquadExists(q)
      BY <2>1
    <3>2. member[v].squad # q /\ open[v][q] = 0
      BY <3>1 DEF RowsFit
    <3>3. open'[v][q] = 0
      BY <3>1, <3>2
    <3>4. member'[v].squad \in {member[v].squad, s}
      OBVIOUS
    <3> QED
      BY <3>1, <3>2, <3>3, <3>4
  <2> QED
    BY <2>1 DEF RowsFit, SquadExists
<1>2. SquadNeverOverfull'
  <2>1. ASSUME NEW q \in Squads
        PROVE  Cardinality(MembersOf(q)') <= MaxMembers
    <3>1. MembersOf(q) \in SUBSET Users /\ Cardinality(MembersOf(q)) <= MaxMembers
      BY DEF MembersOf, SquadNeverOverfull
    <3>2. CASE MembersOf(q)' \subseteq MembersOf(q)
      BY <3>1, <3>2, FewerMembers
    <3>3. CASE ~(MembersOf(q)' \subseteq MembersOf(q))
      <4>1. PICK v \in MembersOf(q)' : v \notin MembersOf(q)
        BY <3>3
      <4>2. v \in Users /\ member'[v].squad = q /\ member[v].squad # q
        BY <4>1 DEF MembersOf
      <4>3. v = u /\ member'[u].squad = s /\ Cardinality(MembersOf(s)) < MaxMembers
        BY <4>2
      <4>4. q = s
        BY <4>2, <4>3
      <4>5. MembersOf(q)' \subseteq MembersOf(q) \cup {u}
        BY DEF MembersOf
      <4> QED
        BY <3>1, <4>3, <4>4, <4>5, OneMoreMember
    <3> QED
      BY <3>2, <3>3
  <2> QED
    BY <2>1 DEF SquadNeverOverfull
<1>3. MembersWantedIn'
  BY DEF MembersWantedIn
<1>4. OneOpenHistory'
  BY DEF OneOpenHistory
<1> QED
  BY <1>1, <1>2, <1>3, <1>4

LEMMA CreateStep ==
    ASSUME SquadIInv, NEW i \in SquadSlots, Create(i), UNCHANGED Ghosts
    PROVE  SquadIInv'
<1>1. PICK c : c = squadCalls[i]
  OBVIOUS
<1>2. c.op = "create" /\ c.at = "write" /\ EndCall(i)
  BY <1>1 DEF Create, CallAt
<1>3. /\ c \in SquadCalls /\ CallFits(c) /\ c.squad \in Squads /\ c.user \in Users
      /\ NoSquad \notin Squads
  BY <1>1, <1>2, BusyCall, CallShape, SquadAssumption
     DEF SquadIInv, Base, CallsFit, CallFits
<1>c. PICK s \in Squads, u \in Users : s = c.squad /\ u = c.user
  BY <1>3
<1>4. CASE member[u].squad # NoSquad
  <2>1. UNCHANGED squadTables
    BY <1>1, <1>c, <1>4 DEF Create
  <2> QED
    BY <1>1, <1>2, <1>3, <2>1, ReadEnds
<1>5. CASE member[u].squad = NoSquad
  <2>1. /\ squads' = [squads EXCEPT ![s] = IF c.accept THEN "private" ELSE "public"]
        /\ member' = [member EXCEPT ![u] = Membership(s, "leader")]
        /\ open' = [open EXCEPT ![u][s] = @ + 1]
        /\ requests' = requests
    BY <1>1, <1>c, <1>5 DEF Create
  <2>2. /\ wanted' = wanted /\ called' = called /\ undisturbed' = undisturbed
        /\ SquadTypeOK /\ ~SquadExists(s) /\ <<u, s>> \in wanted
    BY <1>2, <1>3, <1>c DEF Ghosts, SquadIInv, Base, CallFits
  <2>3. /\ Membership(s, "leader") \in Member
        /\ Membership(s, "leader").squad = s /\ Membership(s, "leader").role = "leader"
    BY DEF Membership, Member, Roles
  <2>4. \A v \in Users : member[v].squad # s /\ open[v][s] = 0
    BY <2>2 DEF SquadIInv, Base, RowsFit
  <2>5. /\ squads' \in [Squads -> {"none", "public", "private"}]
        /\ SquadExists(s)'
        /\ \A q \in Squads \ {s} : SquadExists(q)' <=> SquadExists(q)
    BY <2>1, <2>2, TypedTables DEF SquadExists
  <2>6. /\ member' \in [Users -> Member]
        /\ member'[u] = Membership(s, "leader")
        /\ \A v \in Users \ {u} : member'[v] = member[v]
    BY <2>1, <2>2, <2>3, TypedTables
  <2>7. /\ open' \in [Users -> [Squads -> Nat]]
        /\ open'[u][s] = 1
        /\ \A v \in Users, q \in Squads :
              v # u \/ q # s => open'[v][q] = open[v][q]
    BY <2>1, <2>2, <2>4, TypedTables
  <2>8. SquadTypeOK'
    BY <2>1, <2>2, <2>5, <2>6, <2>7 DEF SquadTypeOK, Member
  <2>9. RowsFit' /\ SquadNeverOverfull' /\ MembersWantedIn' /\ OneOpenHistory'
    <3>1. Cardinality(MembersOf(s)) < MaxMembers
      BY <2>4, NobodyIn DEF MembersOf
    <3>2. \A v \in Users, q \in Squads :
              requests'[v][q] # "none" => <<v, q>> \in wanted
      BY <2>1 DEF SquadIInv, Base, RowsFit
    <3>3. /\ Base /\ member'[u].squad = s /\ open'[u][s] <= 1
      BY <2>3, <2>6, <2>7 DEF SquadIInv
    <3>4. \A v \in Users, q \in Squads :
              /\ v # u \/ q # s => open'[v][q] = open[v][q]
              /\ requests'[v][q] # "none" => <<v, q>> \in wanted
      BY <2>7, <3>2
    <3> QED
      BY <2>2, <2>5, <2>6, <2>8, <3>1, <3>3, <3>4, OneMemberAdded
  <2>10. \A j \in SquadSlots \ {i} :
             squadCalls[j].op = "create" => squads'[squadCalls[j].squad] = "none"
    <3>1. ASSUME NEW j \in SquadSlots \ {i}, squadCalls[j].op = "create"
          PROVE  squads'[squadCalls[j].squad] = "none"
      <4>1. PICK q : q = squadCalls[j].squad
        OBVIOUS
      <4>2. q \in Squads /\ ~SquadExists(q)
        BY <3>1, <4>1 DEF SquadIInv, Base, CallsFit, CallFits
      <4>3. q # s
        BY <1>1, <1>2, <1>c, <3>1, <4>1 DEF SquadIInv, Base, NewIdsDiffer
      <4> QED
        BY <2>5, <4>1, <4>2, <4>3 DEF SquadExists
    <3> QED
      BY <3>1
  <2>11. ASSUME InTurnAt(c)
         PROVE  InTurnAt(NoCall)'
    <3>1. \A q \in Squads, v \in Users :
              /\ In(v, q)' <=> In(v, q) \/ (v = u /\ q = s)
              /\ Leads(v, q)' <=> Leads(v, q) \/ (v = u /\ q = s)
              /\ ~In(v, s) /\ ~Leads(v, s)
      <4> SUFFICES ASSUME NEW q \in Squads, NEW v \in Users
                   PROVE  /\ In(v, q)' <=> In(v, q) \/ (v = u /\ q = s)
                          /\ Leads(v, q)' <=> Leads(v, q) \/ (v = u /\ q = s)
                          /\ ~In(v, s) /\ ~Leads(v, s)
        OBVIOUS
      <4>1. CASE v = u
        BY <1>3, <1>5, <2>3, <2>4, <2>6, <4>1 DEF In, Leads
      <4>2. CASE v # u
        BY <2>4, <2>6, <4>2 DEF In, Leads
      <4> QED
        BY <4>1, <4>2
    <3>2. \A q \in Squads :
              /\ ~LeaderlessBy(c, q) /\ ~LeaderlessBy(NoCall, q)'
              /\ \A v \in Users : ~ClosedBy(c, v, q) /\ ~ClosedBy(NoCall, v, q)'
      BY <1>2, NoCallShape DEF LeaderlessBy, ClosedBy
    <3>3. StillSo(NoCall)'
      BY NothingRead
    <3>4. \A q \in Squads \ {s} :
              /\ SquadExists(q)' <=> \E v \in Users : In(v, q)'
              /\ SquadExists(q)' => \E v \in Users : Leads(v, q)'
              /\ \A v, w \in Users : Leads(v, q)' /\ Leads(w, q)' => v = w
              /\ \A v \in Users : open'[v][q] = IF In(v, q)' THEN 1 ELSE 0
      BY <2>5, <2>7, <2>11, <3>1, <3>2 DEF InTurnAt
    <3>5. /\ SquadExists(s)' /\ \E v \in Users : In(v, s)' /\ Leads(v, s)'
          /\ \A v, w \in Users : Leads(v, s)' /\ Leads(w, s)' => v = w
          /\ \A v \in Users : open'[v][s] = IF In(v, s)' THEN 1 ELSE 0
      BY <2>4, <2>5, <2>7, <3>1
    <3> QED
      BY <3>2, <3>3, <3>4, <3>5 DEF InTurnAt
  <2> QED
    BY <1>1, <1>2, <1>3, <2>8, <2>9, <2>10, <2>11, WritingEnds
<1> QED
  BY <1>4, <1>5

(* The batch that join and respond share.                                  *)
LEMMA InsertShape ==
    ASSUME SquadIInv, NEW u \in Users, NEW s \in Squads, InsertMember(u, s)
    PROVE  /\ member' \in [Users -> Member]
           /\ \A v \in Users \ {u} : member'[v] = member[v]
           /\ \/ member'[u] = member[u]
              \/ /\ member'[u].squad = s /\ member'[u].role = "member"
                 /\ member[u].squad = NoSquad
                 /\ Cardinality(MembersOf(s)) < MaxMembers
           /\ open' \in [Users -> [Squads -> Nat]]
           /\ \A v \in Users, q \in Squads :
                 v # u \/ q # s => open'[v][q] = open[v][q]
           /\ open'[u][s] = IF member'[u].squad = s THEN 1 ELSE open[u][s]
<1>1. SquadTypeOK /\ OneOpenHistory
  BY DEF SquadIInv, Base
<1>2. /\ Membership(s, "member") \in Member
      /\ Membership(s, "member").squad = s /\ Membership(s, "member").role = "member"
  BY DEF Membership, Member, Roles
<1>3. /\ member' = IF Inserted(u, s) THEN [member EXCEPT ![u] = Membership(s, "member")]
                                     ELSE member
      /\ open' = IF member'[u].squad = s /\ open[u][s] = 0
                 THEN [open EXCEPT ![u][s] = @ + 1] ELSE open
  BY DEF InsertMember, OpensHistory
<1>4. /\ member' \in [Users -> Member]
      /\ \A v \in Users \ {u} : member'[v] = member[v]
      /\ \/ member'[u] = member[u]
         \/ member'[u] = Membership(s, "member") /\ Inserted(u, s)
  BY <1>1, <1>2, <1>3, TypedTables
<1>5. open[u][s] = 0 \/ open[u][s] = 1
  <2>1. open[u][s] \in Nat /\ open[u][s] <= 1
    BY <1>1, TypedTables DEF OneOpenHistory
  <2> QED
    BY ONLY <2>1
<1>6. /\ open' \in [Users -> [Squads -> Nat]]
      /\ \A v \in Users, q \in Squads : v # u \/ q # s => open'[v][q] = open[v][q]
      /\ open'[u][s] = IF member'[u].squad = s THEN 1 ELSE open[u][s]
  BY <1>1, <1>3, <1>5, TypedTables
<1> QED
  BY <1>2, <1>4, <1>6 DEF Inserted

LEMMA InsertStep ==
    ASSUME SquadIInv, NEW i \in SquadSlots, NEW c \in SquadCalls,
           c = squadCalls[i], EndCall(i), UNCHANGED Ghosts, squads' = squads,
           c.at = "write", NEW u \in Users, NEW s \in Squads, <<u, s>> \in wanted,
           SquadExists(s), InsertMember(u, s),
           requests' \in [Users -> [Squads -> {"none", "pending", "accepted", "declined"}]],
           \A v \in Users, q \in Squads :
               requests'[v][q] # "none" => <<v, q>> \in wanted
    PROVE  SquadIInv'
<1>1. /\ wanted' = wanted /\ called' = called /\ undisturbed' = undisturbed
      /\ SquadTypeOK /\ Base /\ NoSquad \notin Squads
  BY SquadAssumption DEF Ghosts, SquadIInv, Base
<1>2. /\ member' \in [Users -> Member]
      /\ \A v \in Users \ {u} : member'[v] = member[v]
      /\ \/ member'[u] = member[u]
         \/ /\ member'[u].squad = s /\ member'[u].role = "member"
            /\ member[u].squad = NoSquad
            /\ Cardinality(MembersOf(s)) < MaxMembers
      /\ open' \in [Users -> [Squads -> Nat]]
      /\ \A v \in Users, q \in Squads :
            v # u \/ q # s => open'[v][q] = open[v][q]
      /\ open'[u][s] = IF member'[u].squad = s THEN 1 ELSE open[u][s]
  BY InsertShape
<1>3. SquadTypeOK'
  BY <1>1, <1>2 DEF SquadTypeOK, Member
<1>4. /\ SquadExists(s)' /\ \A q \in Squads : SquadExists(q)' <=> SquadExists(q)
  BY DEF SquadExists
<1>5. RowsFit' /\ SquadNeverOverfull' /\ MembersWantedIn' /\ OneOpenHistory'
  <2>1. open'[u][s] <= 1
    BY <1>1, <1>2 DEF Base, OneOpenHistory
  <2>2. \A v \in Users, q \in Squads :
            /\ v # u \/ q # s => open'[v][q] = open[v][q]
            /\ requests'[v][q] # "none" => <<v, q>> \in wanted
    BY <1>2
  <2>3. \A q \in Squads \ {s} : SquadExists(q)' <=> SquadExists(q)
    BY <1>4
  <2>4. \/ member'[u] = member[u]
        \/ member'[u].squad = s /\ Cardinality(MembersOf(s)) < MaxMembers
    BY <1>2
  <2> QED
    BY <1>1, <1>2, <1>3, <1>4, <2>1, <2>2, <2>3, <2>4, OneMemberAdded
<1>6. \A j \in SquadSlots \ {i} :
          squadCalls[j].op = "create" => squads'[squadCalls[j].squad] = "none"
  BY OthersCreateYet DEF SquadExists
<1>7. ASSUME InTurnAt(c)
      PROVE  InTurnAt(NoCall)'
  <2>1. \A q \in Squads : /\ ~LeaderlessBy(c, q)
                          /\ \A v \in Users : ~ClosedBy(c, v, q)
    BY DEF LeaderlessBy, ClosedBy
  <2>2. CASE member'[u] = member[u]
    <3>1. \A v \in Users : member'[v] = member[v]
      BY <1>2, <2>2
    <3>2. In(u, s) => open[u][s] = 1
      BY <1>7, <2>1 DEF InTurnAt
    <3>3. \A q \in Squads, v \in Users : /\ In(v, q)' <=> In(v, q)
                                         /\ Leads(v, q)' <=> Leads(v, q)
      BY <3>1 DEF In, Leads
    <3>4. \A q \in Squads, v \in Users : open'[v][q] = open[v][q]
      BY <1>2, <2>2, <3>2 DEF In
    <3> QED
      BY <1>4, <1>7, <3>3, <3>4, InTurnEnds
  <2>3. CASE /\ member'[u].squad = s /\ member'[u].role = "member"
             /\ member[u].squad = NoSquad
    <3>1. \A q \in Squads, v \in Users :
              /\ In(v, q)' <=> In(v, q) \/ (v = u /\ q = s)
              /\ Leads(v, q)' <=> Leads(v, q)
      <4> SUFFICES ASSUME NEW q \in Squads, NEW v \in Users
                   PROVE  /\ In(v, q)' <=> In(v, q) \/ (v = u /\ q = s)
                          /\ Leads(v, q)' <=> Leads(v, q)
        OBVIOUS
      <4>1. CASE v = u
        BY <1>1, <2>3, <4>1 DEF In, Leads
      <4>2. CASE v # u
        BY <1>2, <4>2 DEF In, Leads
      <4> QED
        BY <4>1, <4>2
    <3>2. \A q \in Squads :
              /\ ~LeaderlessBy(NoCall, q)'
              /\ \A v \in Users : ~ClosedBy(NoCall, v, q)'
      BY NoCallShape DEF LeaderlessBy, ClosedBy
    <3>3. open'[u][s] = 1
      BY <1>2, <2>3
    <3>4. StillSo(NoCall)'
      BY NothingRead
    <3>5. ASSUME NEW q \in Squads
          PROVE  /\ SquadExists(q)' <=> \E v \in Users : In(v, q)'
                 /\ SquadExists(q)' => \E v \in Users : Leads(v, q)'
                 /\ \A v, w \in Users : Leads(v, q)' /\ Leads(w, q)' => v = w
                 /\ \A v \in Users : open'[v][q] = IF In(v, q)' THEN 1 ELSE 0
      <4>1. /\ SquadExists(q) <=> \E v \in Users : In(v, q)
            /\ SquadExists(q) => \E v \in Users : Leads(v, q)
            /\ \A v, w \in Users : Leads(v, q) /\ Leads(w, q) => v = w
            /\ \A v \in Users : open[v][q] = IF In(v, q) THEN 1 ELSE 0
        BY <1>7, <2>1 DEF InTurnAt
      <4>2. SquadExists(q)' <=> SquadExists(q)
        BY <1>4
      <4>3. \A v \in Users : open'[v][q] = IF In(v, q)' THEN 1 ELSE 0
        BY <1>2, <3>1, <3>3, <4>1
      <4>4. SquadExists(q)' <=> \E v \in Users : In(v, q)'
        BY <1>4, <3>1, <4>1, <4>2
      <4> QED
        BY <3>1, <4>1, <4>2, <4>3, <4>4
    <3> QED
      BY <3>2, <3>4, <3>5 DEF InTurnAt
  <2> QED
    BY <1>2, <2>2, <2>3
<1> QED
  BY <1>3, <1>5, <1>6, <1>7, WritingEnds

(* A request is made or answered: no squad is touched.                     *)
LEMMA RequestStep ==
    ASSUME SquadIInv, NEW i \in SquadSlots, NEW c \in SquadCalls,
           c = squadCalls[i], EndCall(i), UNCHANGED Ghosts,
           UNCHANGED <<squads, member, open>>, c.at = "write",
           requests' \in [Users -> [Squads -> {"none", "pending", "accepted", "declined"}]],
           \A v \in Users, q \in Squads :
               requests'[v][q] # "none" => <<v, q>> \in wanted
    PROVE  SquadIInv'
<1>1. /\ wanted' = wanted /\ called' = called /\ undisturbed' = undisturbed
      /\ SquadTypeOK /\ Base
  BY DEF Ghosts, SquadIInv, Base
<1>2. SquadTypeOK'
  BY <1>1 DEF SquadTypeOK
<1>3. \A q \in Squads : SquadExists(q)' <=> SquadExists(q)
  BY DEF SquadExists
<1>4. RowsFit' /\ SquadNeverOverfull' /\ MembersWantedIn' /\ OneOpenHistory'
  <2>1. \A v \in Users : member'[v].squad \in {member[v].squad, NoSquad}
    OBVIOUS
  <2>2. \A v \in Users, q \in Squads : open'[v][q] \in {open[v][q], 0}
    OBVIOUS
  <2> QED
    BY <1>1, <1>2, <1>3, <2>1, <2>2, NoMemberAdded
<1>5. \A j \in SquadSlots \ {i} :
          squadCalls[j].op = "create" => squads'[squadCalls[j].squad] = "none"
  BY <1>3, OthersCreateYet
<1>6. ASSUME InTurnAt(c)
      PROVE  InTurnAt(NoCall)'
  <2>1. \A q \in Squads, u \in Users : /\ In(u, q)' <=> In(u, q)
                                       /\ Leads(u, q)' <=> Leads(u, q)
                                       /\ open'[u][q] = open[u][q]
    BY DEF In, Leads
  <2> QED
    BY <1>3, <1>6, <2>1, InTurnEnds
<1> QED
  BY <1>2, <1>4, <1>5, <1>6, WritingEnds

LEMMA JoinStep ==
    ASSUME SquadIInv, NEW i \in SquadSlots, Join(i), UNCHANGED Ghosts
    PROVE  SquadIInv'
<1>1. PICK c : c = squadCalls[i]
  OBVIOUS
<1>2. c.op = "join" /\ c.at = "write" /\ EndCall(i)
  BY <1>1 DEF Join, CallAt
<1>3. /\ c \in SquadCalls /\ CallFits(c) /\ c.squad \in Squads /\ c.user \in Users
      /\ <<c.user, c.squad>> \in wanted
  BY <1>1, <1>2, BusyCall, CallShape DEF SquadIInv, Base, CallsFit, CallFits
<1>c. PICK s \in Squads, u \in Users : s = c.squad /\ u = c.user
  BY <1>3
<1>4. /\ requests \in [Users -> [Squads -> {"none", "pending", "accepted", "declined"}]]
      /\ \A v \in Users, q \in Squads :
             requests[v][q] # "none" => <<v, q>> \in wanted
  BY TypedTables DEF SquadIInv, Base, RowsFit
<1>5. CASE ~SquadExists(s)
  <2>1. UNCHANGED squadTables
    BY <1>1, <1>c, <1>5 DEF Join
  <2> QED
    BY <1>1, <1>2, <1>3, <2>1, ReadEnds
<1>6. CASE SquadExists(s) /\ c.accept
  <2>1. /\ requests' = [requests EXCEPT ![u][s] = "pending"]
        /\ UNCHANGED <<squads, member, open>>
    BY <1>1, <1>c, <1>6 DEF Join
  <2>2. /\ requests' \in [Users -> [Squads -> {"none", "pending", "accepted", "declined"}]]
        /\ \A v \in Users, q \in Squads :
               requests'[v][q] # "none" => <<v, q>> \in wanted
    BY <1>3, <1>c, <1>4, <2>1
  <2> QED
    BY <1>1, <1>2, <1>3, <2>1, <2>2, RequestStep
<1>7. CASE SquadExists(s) /\ ~c.accept
  <2>1. InsertMember(u, s) /\ squads' = squads /\ requests' = requests
    BY <1>1, <1>c, <1>7 DEF Join
  <2>2. /\ requests' \in [Users -> [Squads -> {"none", "pending", "accepted", "declined"}]]
        /\ \A v \in Users, q \in Squads :
               requests'[v][q] # "none" => <<v, q>> \in wanted
    BY <1>4, <2>1
  <2> QED
    BY <1>1, <1>2, <1>3, <1>c, <1>7, <2>1, <2>2, InsertStep
<1> QED
  BY <1>5, <1>6, <1>7

LEMMA RespondStep ==
    ASSUME SquadIInv, NEW i \in SquadSlots, Respond(i), UNCHANGED Ghosts
    PROVE  SquadIInv'
<1>1. PICK c : c = squadCalls[i]
  OBVIOUS
<1>2. c.op = "respond" /\ c.at = "write" /\ EndCall(i)
  BY <1>1 DEF Respond, CallAt
<1>3. /\ c \in SquadCalls /\ CallFits(c) /\ c.squad \in Squads /\ c.target \in Users
      /\ <<c.target, c.squad>> \in wanted /\ c.actor.squad = c.squad
  BY <1>1, <1>2, BusyCall, CallShape DEF SquadIInv, Base, CallsFit, CallFits
<1>c. PICK s \in Squads, u \in Users : s = c.squad /\ u = c.target
  BY <1>3
<1> DEFINE Close(status) ==
               requests' = IF requests[u][s] = "none" THEN requests
                           ELSE [requests EXCEPT ![u][s] = status]
<1>4. /\ requests \in [Users -> [Squads -> {"none", "pending", "accepted", "declined"}]]
      /\ \A v \in Users, q \in Squads :
             requests[v][q] # "none" => <<v, q>> \in wanted
  BY TypedTables DEF SquadIInv, Base, RowsFit
<1>5. ASSUME \/ Close("declined") \/ Close("accepted") \/ requests' = requests
      PROVE  /\ requests' \in [Users -> [Squads -> {"none", "pending", "accepted", "declined"}]]
             /\ \A v \in Users, q \in Squads :
                    requests'[v][q] # "none" => <<v, q>> \in wanted
  BY <1>3, <1>c, <1>4, <1>5
<1>6. CASE ~c.accept
  <2>1. Close("declined") /\ UNCHANGED <<squads, member, open>>
    BY <1>1, <1>c, <1>6 DEF Respond
  <2> QED
    BY <1>1, <1>2, <1>3, <1>5, <2>1, RequestStep
<1>7. CASE c.accept /\ ~SquadExists(s)
  <2>1. UNCHANGED squadTables
    BY <1>1, <1>3, <1>c, <1>7 DEF Respond
  <2> QED
    BY <1>1, <1>2, <1>3, <2>1, ReadEnds
<1>8. CASE c.accept /\ SquadExists(s)
  <2>1. /\ InsertMember(u, s) /\ squads' = squads
        /\ Close("accepted") \/ requests' = requests
    BY <1>1, <1>3, <1>c, <1>8 DEF Respond
  <2> QED
    BY <1>1, <1>2, <1>3, <1>c, <1>5, <1>8, <2>1, InsertStep
<1> QED
  BY <1>6, <1>7, <1>8
----------------------------------------------------------------------------
(* The invariant holds of every behaviour.                                 *)

LEMMA SquadInitKeeps == ASSUME SquadInit PROVE SquadIInv
<1>1. PICK s \in Squads, kind \in {"none", "public", "private"},
           roles \in [Users -> Roles \cup {"out"}] :
      \E asking \in SUBSET Users :
          LET in == {u \in Users : roles[u] # "out"}
          IN  /\ asking \subseteq IF kind = "private" THEN Users \ in ELSE {}
              /\ requests = [u \in Users |-> [q \in Squads |->
                    IF q = s /\ u \in asking THEN "pending" ELSE "none"]]
              /\ IF kind = "none"
                    THEN in = {}
                    ELSE Cardinality({u \in in : roles[u] = "leader"}) = 1
              /\ Cardinality(in) <= MaxMembers
              /\ squads = [q \in Squads |-> IF q = s THEN kind ELSE "none"]
              /\ member = [u \in Users |->
                    IF u \in in THEN Membership(s, roles[u]) ELSE NoMember]
              /\ open = [u \in Users |-> [q \in Squads |->
                    IF q = s /\ u \in in THEN 1 ELSE 0]]
              /\ wanted = {<<u, s>> : u \in in \cup asking}
  BY DEF SquadInit
<1> DEFINE in == {u \in Users : roles[u] # "out"}
<1>2. PICK asking \in SUBSET Users :
          /\ asking \subseteq IF kind = "private" THEN Users \ in ELSE {}
          /\ requests = [u \in Users |-> [q \in Squads |->
                IF q = s /\ u \in asking THEN "pending" ELSE "none"]]
          /\ IF kind = "none"
                THEN in = {}
                ELSE Cardinality({u \in in : roles[u] = "leader"}) = 1
          /\ Cardinality(in) <= MaxMembers
          /\ squads = [q \in Squads |-> IF q = s THEN kind ELSE "none"]
          /\ member = [u \in Users |->
                IF u \in in THEN Membership(s, roles[u]) ELSE NoMember]
          /\ open = [u \in Users |-> [q \in Squads |->
                IF q = s /\ u \in in THEN 1 ELSE 0]]
          /\ wanted = {<<u, s>> : u \in in \cup asking}
  BY <1>1
<1>3. /\ squadCalls = [i \in SquadSlots |-> NoCall] /\ called = 0
      /\ squadFaults = 0 /\ undisturbed = TRUE
  BY DEF SquadInit
<1>4. /\ NoMember \in Member /\ NoMember.squad = NoSquad
      /\ NoSquad \notin Squads
      /\ \A u \in in : /\ Membership(s, roles[u]) \in Member
                       /\ Membership(s, roles[u]).squad = s
                       /\ Membership(s, roles[u]).role = roles[u]
  BY SquadAssumption DEF Membership, NoMember, Member, Roles
<1>5. /\ member \in [Users -> Member]
      /\ \A u \in Users : member[u].squad = s <=> u \in in
      /\ \A u \in Users : member[u].squad = s \/ member[u].squad = NoSquad
      /\ \A u \in in : member[u].role = roles[u]
  BY <1>2, <1>4
<1>6. SquadTypeOK
  <2>1. /\ called \in 0..MaxSquadCalls
        /\ wanted \subseteq Users \X Squads
        /\ undisturbed \in BOOLEAN
    BY <1>2, <1>3, SquadAssumption
  <2>2. /\ squads \in [Squads -> {"none", "public", "private"}]
        /\ open \in [Users -> [Squads -> Nat]]
        /\ requests \in [Users -> [Squads -> {"none", "pending", "accepted", "declined"}]]
    BY <1>2
  <2> QED
    BY <1>5, <2>1, <2>2 DEF SquadTypeOK, Member
<1>7. CallsTypeOK /\ CallsFit /\ NewIdsDiffer
  BY <1>3, NoCallFits, NoCallShape DEF CallsTypeOK, CallsFit, NewIdsDiffer
<1>8. RowsFit
  <2>1. kind = "none" => in = {}
    BY <1>2
  <2>2. \A u \in Users, q \in Squads :
            ~SquadExists(q) => member[u].squad # q /\ open[u][q] = 0
    BY <1>2, <1>4, <1>5, <2>1 DEF SquadExists
  <2>3. \A u \in Users, q \in Squads : requests[u][q] # "none" => <<u, q>> \in wanted
    BY <1>2
  <2> QED
    BY <2>2, <2>3 DEF RowsFit
<1>9. SquadNeverOverfull
  <2>1. ASSUME NEW q \in Squads
        PROVE  Cardinality(MembersOf(q)) <= MaxMembers
    <3>1. MembersOf(q) \subseteq in /\ in \in SUBSET Users
      BY <1>4, <1>5 DEF MembersOf
    <3> QED
      BY <1>2, <3>1, FewerMembers
  <2> QED
    BY <2>1 DEF SquadNeverOverfull
<1>10. MembersWantedIn
  <2>1. ASSUME NEW u \in Users, member[u].squad # NoSquad
        PROVE  <<u, member[u].squad>> \in wanted
    <3>1. member[u].squad = s /\ u \in in
      BY <1>5, <2>1
    <3> QED
      BY <1>2, <3>1
  <2> QED
    BY <2>1 DEF MembersWantedIn
<1>11. OneOpenHistory
  BY <1>2 DEF OneOpenHistory
<1>12. InTurn
  <2>1. \A i \in SquadSlots : SquadIdle(i)
    BY <1>3, NoCallShape DEF SquadIdle
  <2>2. StillSo(NoCall)
    BY NothingRead
  <2>3. \A q \in Squads :
            /\ ~LeaderlessBy(NoCall, q)
            /\ \A u \in Users : /\ ~ClosedBy(NoCall, u, q)
                                /\ In(u, q) <=> q = s /\ u \in in
                                /\ Leads(u, q) <=> q = s /\ u \in in /\ roles[u] = "leader"
    BY <1>4, <1>5, NoCallShape DEF LeaderlessBy, ClosedBy, In, Leads
  <2>4. kind # "none" => \E u \in Users : \A v \in Users :
                             v \in in /\ roles[v] = "leader" <=> v = u
    <3> SUFFICES ASSUME kind # "none"
                 PROVE  \E u \in Users : \A v \in Users :
                            v \in in /\ roles[v] = "leader" <=> v = u
      OBVIOUS
    <3> DEFINE leaders == {u \in in : roles[u] = "leader"}
    <3>1. leaders \in SUBSET Users /\ Cardinality(leaders) = 1
      BY <1>2
    <3>2. \E u : leaders = {u}
      BY <3>1, MembersFinite, FS_Singleton
    <3> QED
      BY <3>1, <3>2
  <2>5. \A q \in Squads : SquadExists(q) <=> q = s /\ kind # "none"
    BY <1>2 DEF SquadExists
  <2>6. kind = "none" => in = {}
    BY <1>2
  <2>7. \A q \in Squads, u \in Users : open[u][q] = IF In(u, q) THEN 1 ELSE 0
    BY <1>2, <2>3
  <2>8. InTurnAt(NoCall)
    BY <2>2, <2>3, <2>4, <2>5, <2>6, <2>7 DEF InTurnAt
  <2> QED
    BY <2>1, <2>8 DEF InTurn
<1> QED
  BY <1>6, <1>7, <1>8, <1>9, <1>10, <1>11, <1>12 DEF SquadIInv, Base

LEMMA SquadStutterKeeps ==
    ASSUME SquadIInv, UNCHANGED squadVars
    PROVE  SquadIInv'
<1>1. /\ squads' = squads /\ member' = member /\ requests' = requests
      /\ open' = open /\ squadCalls' = squadCalls /\ called' = called
      /\ squadFaults' = squadFaults /\ wanted' = wanted
      /\ undisturbed' = undisturbed
  BY DEF squadVars, squadTables
<1>2. Base'
  <2> USE DEF SquadIInv, Base
  <2>1. SquadTypeOK' /\ CallsTypeOK'
    BY <1>1 DEF SquadTypeOK, CallsTypeOK
  <2>2. RowsFit' /\ SquadNeverOverfull' /\ MembersWantedIn' /\ OneOpenHistory'
    BY <1>1 DEF RowsFit, SquadNeverOverfull, MembersWantedIn, OneOpenHistory,
                SquadExists, MembersOf
  <2>3. CallsFit' /\ NewIdsDiffer'
    BY <1>1 DEF CallsFit, CallFits, NewIdsDiffer, SquadExists
  <2> QED
    BY <2>1, <2>2, <2>3
<1>3. InTurn'
  <2>1. \A s \in Squads :
            /\ SquadExists(s)' <=> SquadExists(s)
            /\ \A u \in Users : (In(u, s)' <=> In(u, s)) /\ (Leads(u, s)' <=> Leads(u, s))
    BY <1>1 DEF SquadExists, In, Leads
  <2>2. ASSUME NEW c, InTurnAt(c)
        PROVE  InTurnAt(c)'
    <3>1. StillSo(c)'
      BY <1>1, <2>2 DEF InTurnAt, StillSo, In, Leads
    <3>2. \A s \in Squads : /\ LeaderlessBy(c, s)' <=> LeaderlessBy(c, s)
                            /\ \A u \in Users : ClosedBy(c, u, s)' <=> ClosedBy(c, u, s)
      BY DEF LeaderlessBy, ClosedBy
    <3> QED
      BY <1>1, <2>1, <2>2, <3>1, <3>2 DEF InTurnAt
  <2>3. ASSUME NEW i \in SquadSlots, InTurnAt(squadCalls[i])
        PROVE  InTurnAt(squadCalls[i])'
    <3>1. PICK c : c = squadCalls[i]
      OBVIOUS
    <3>2. InTurnAt(c)' /\ squadCalls'[i] = c
      BY <1>1, <2>2, <2>3, <3>1
    <3> QED
      BY <3>2
  <2>4. \A i \in SquadSlots : SquadIdle(i)' <=> SquadIdle(i)
    BY <1>1 DEF SquadIdle
  <2>5. InTurnAt(NoCall) => InTurnAt(NoCall)'
    BY <2>2
  <2> QED
    BY <1>1, <2>3, <2>4, <2>5 DEF SquadIInv, InTurn
<1> QED
  BY <1>2, <1>3 DEF SquadIInv

LEMMA SquadNextKeeps ==
    ASSUME SquadIInv, [SquadNext]_squadVars
    PROVE  SquadIInv'
<1>1. ASSUME NEW i \in SquadSlots, NEW r \in SquadRequests, MakeCall(i, r)
      PROVE  SquadIInv'
  BY <1>1, MakeCallStep
<1>2. ASSUME NEW i \in SquadSlots, SquadStep(i),
             UNCHANGED <<called, squadFaults, wanted, undisturbed>>
      PROVE  SquadIInv'
  <2> UNCHANGED Ghosts
    BY <1>2 DEF Ghosts
  <2>1. CASE ReadActor(i)
    BY <2>1, ReadActorStep
  <2>2. CASE Create(i)
    BY <2>2, CreateStep
  <2>3. CASE \/ JoinReadSquad(i) \/ CountMembers(i)
             \/ RespondReadRequest(i) \/ RespondReadAsker(i)
    BY <2>3, AskingStep
  <2>4. CASE Join(i)
    BY <2>4, JoinStep
  <2>5. CASE Respond(i)
    BY <2>5, RespondStep
  <2>6. CASE LeaveCount(i)
    BY <2>6, LeaveCountStep
  <2>7. CASE CloseHistory(i)
    BY <2>7, CloseHistoryStep
  <2>8. CASE DeleteSquad(i)
    BY <2>8, DeleteSquadStep
  <2>9. CASE DeleteMember(i)
    BY <2>9, DeleteMemberStep
  <2>10. CASE ChooseSuccessor(i)
    BY <2>10, ChooseSuccessorStep
  <2>11. CASE Promote(i)
    BY <2>11, PromoteStep
  <2>12. CASE ReadTarget(i)
    BY <2>12, ReadTargetStep
  <2>13. CASE ChangeRole(i)
    BY <2>13, ChangeRoleStep
  <2>14. CASE ChangeSettings(i)
    BY <2>14, ChangeSettingsStep
  <2> QED
    BY <1>2, <2>1, <2>2, <2>3, <2>4, <2>5, <2>6, <2>7, <2>8, <2>9, <2>10,
       <2>11, <2>12, <2>13, <2>14 DEF SquadStep
<1>3. ASSUME NEW i \in SquadSlots, SquadFault(i)
      PROVE  SquadIInv'
  BY <1>3, SquadFaultStep
<1>4. CASE UNCHANGED squadVars
  BY <1>4, SquadStutterKeeps
<1> QED
  BY <1>1, <1>2, <1>3, <1>4 DEF SquadNext

LEMMA SquadInvariant == SquadSpec => []SquadIInv
<1>1. SquadInit => SquadIInv
  BY SquadInitKeeps
<1>2. SquadIInv /\ [SquadNext]_squadVars => SquadIInv'
  BY SquadNextKeeps
<1> QED
  BY <1>1, <1>2, PTL DEF SquadSpec

(* Between calls the invariant says that one leads and one only.           *)
LEMMA OneLeaderFromInvariant == ASSUME SquadIInv PROVE OneLeaderInTurn
<1> SUFFICES ASSUME undisturbed, Busy = {}, NEW s \in Squads
             PROVE  /\ SquadExists(s) <=> MembersOf(s) # {}
                    /\ MembersOf(s) # {} =>
                          Cardinality({u \in MembersOf(s) : member[u].role = "leader"}) = 1
                    /\ \A u \in Users : open[u][s] = IF u \in MembersOf(s) THEN 1 ELSE 0
  BY DEF OneLeaderInTurn
<1>1. InTurnAt(NoCall)
  BY DEF Busy, SquadIInv, InTurn
<1>2. \A u \in Users : /\ ~LeaderlessBy(NoCall, s) /\ ~ClosedBy(NoCall, u, s)
                       /\ In(u, s) <=> u \in MembersOf(s)
                       /\ Leads(u, s) <=> u \in MembersOf(s) /\ member[u].role = "leader"
  BY NoCallShape DEF LeaderlessBy, ClosedBy, In, Leads, MembersOf
<1>3. SquadExists(s) <=> MembersOf(s) # {}
  BY <1>1, <1>2 DEF InTurnAt, MembersOf
<1>4. \A u \in Users : open[u][s] = IF u \in MembersOf(s) THEN 1 ELSE 0
  BY <1>1, <1>2 DEF InTurnAt
<1>5. ASSUME MembersOf(s) # {}
      PROVE  Cardinality({u \in MembersOf(s) : member[u].role = "leader"}) = 1
  <2>1. ~LeaderlessBy(NoCall, s)
    BY NoCallShape DEF LeaderlessBy
  <2>2. PICK u \in Users : Leads(u, s) /\ \A v \in Users : Leads(v, s) => v = u
    BY <1>1, <1>3, <1>5, <2>1 DEF InTurnAt
  <2>3. {v \in MembersOf(s) : member[v].role = "leader"} = {u}
    BY <1>2, <2>2 DEF MembersOf
  <2> QED
    BY <2>3, FS_Singleton
<1> QED
  BY <1>3, <1>4, <1>5

(* Every row of every table is of its type, and the calls and the ghosts.  *)
THEOREM SquadTypeCorrect == SquadSpec => []SquadTypeOK
<1>1. SquadIInv => SquadTypeOK
  BY DEF SquadIInv, Base
<1> QED
  BY <1>1, SquadInvariant, PTL

(* However the calls of any number of members interleave and whichever     *)
(* statements fail, no squad is over full, nobody is in a squad they did   *)
(* not ask for, and no history is open twice; and while calls have come    *)
(* one after the other, every squad that exists has exactly one leader and *)
(* the history open of exactly its members.                                *)
THEOREM SquadsStayKept == SquadSpec => []SquadsKept
<1>1. SquadIInv => SquadsKept
  BY OneLeaderFromInvariant DEF SquadIInv, Base, SquadsKept
<1> QED
  BY <1>1, SquadInvariant, PTL
----------------------------------------------------------------------------
(* The feed and the friends.                                               *)
FeedOps ==
    {"publish", "upload", "unimage", "remove", "expire", "vote", "react", "ask",
     "respond", "elsewhere"}
FeedPlaces ==
    {"read", "write", "budget", "put", "drop", "count", "rows", "existing",
     "clear", "insert", "delete", "reciprocal", "accept", "befriend"}
FeedUsers == Persons \cup {"cron", "other"}
FeedCalls ==
    [op : FeedOps, user : FeedUsers, flag : BOOLEAN,
     choice : {0} \cup Options \cup Emoji \cup Persons, at : FeedPlaces,
     key : Nat, cost : {0, 1, 2}, made : Nat]

FeedCallsOK == feedCalls \in [FeedSlots -> {NoFeedCall} \cup FeedCalls]

ImageOps == {"upload", "unimage", "remove"}

(* What a call names and what it has found out, that nobody takes back.    *)
FeedCallFits(c) ==
    /\ c.op \in {"vote", "react", "ask", "respond"} => c.user \in Persons
    /\ c.op \in ImageOps => c.user = Author
    /\ c.op = "vote" => c.choice \in Options
    /\ c.op = "react" => c.choice \in Emoji
    /\ c.op = "ask" \/ (c.op = "respond" /\ c.flag) => c.user \in consenting
    /\ c.op = "ask" /\ c.at = "accept" => Other(c.user) \in consenting
    /\ c.op = "respond" /\ c.at \in {"write", "befriend"} =>
           c.choice = Other(c.user) /\ c.choice \in consenting
    /\ c.at = "befriend" => c.flag
    /\ c.at \in {"budget", "put", "drop", "count"} => c.cost # 0
    /\ c.op = "expire" => c.cost # 2
    /\ c.at = "put" => c.op \in ImageOps
    /\ c.at = "drop" => c.op \in ImageOps \cup {"expire"}
    /\ c.at = "budget" => c.op \in ImageOps \cup {"elsewhere"}
    /\ c.at = "count" => c.op \in ImageOps \cup {"expire", "elsewhere"}
    /\ c.op = "elsewhere" => c.key = 0 /\ c.at \in {"read", "budget", "count"}
    /\ c.op = "upload" /\ c.at \in {"drop", "count", "write"} => c.made # 0
    /\ c.op \in {"unimage", "remove"} => c.made = 0
    /\ c.op \in {"unimage", "remove", "upload"} /\ c.at \in {"read", "budget", "put"}
           => c.made = 0

FeedCallsFit ==
    \A i \in FeedBusy :
        /\ FeedCallFits(feedCalls[i])
        /\ feedCalls[i].key <= minted /\ feedCalls[i].made <= minted

(* Who never had two calls at once has one; so has the nightly job.        *)
OneCallEach ==
    \A i, j \in FeedBusy :
        \/ feedCalls[i].user = feedCalls[j].user /\ feedCalls[i].user \in Persons \ crossed
        \/ feedCalls[i].op = "expire" /\ feedCalls[j].op = "expire"
        => i = j

(* The calls that will count against the month's limit, and twice.         *)
Spends(c) == c.at \in {"put", "drop", "count", "rows"}
SpendsTwo(c) == Spends(c) /\ c.cost = 2
Spending == {i \in FeedSlots : Spends(feedCalls[i])}
SpendingTwo == {i \in FeedSlots : SpendsTwo(feedCalls[i])}

BudgetInOrder ==
    classA + Cardinality(Spending) + Cardinality(SpendingTwo)
        <= ImageLimit + 2 * (Cardinality(FeedSlots) - 1) + unchecked

(* Between the votes it clears and the one it inserts a call leaves none.  *)
VotesInOrder ==
    \A u \in Persons \ crossed :
        /\ \A o, p \in Options : <<u, o>> \in votes /\ <<u, p>> \in votes => o = p
        /\ \A i \in FeedBusy :
              FeedAt(i, "vote", "insert") /\ feedCalls[i].user = u =>
                  \A o \in Options : <<u, o>> \notin votes

AskedInOrder ==
    /\ consenting \subseteq Persons
    /\ \A u \in Persons : asked[u] # "none" => u \in consenting
    /\ ConsentedFriends

(* What R2 holds but for what it was asked to delete and did not.          *)
Stored == objects \ left

Quiet == crossed \cap {Author, "fault"} = {}

(* The call has dropped the image with key n, and not written the row yet. *)
Drops(c, n) ==
    /\ c.op \in ImageOps \cup {"expire"} /\ c.at \in {"count", "write"}
    /\ c.key = n

(* It has put the image with key n, and not written the row yet.           *)
Holds(c, n) ==
    c.op = "upload" /\ c.at \in {"drop", "count", "write"} /\ c.made = n

Dropped(n) == \E i \in FeedSlots : Drops(feedCalls[i], n)
Uploaded(n) == \E i \in FeedSlots : Holds(feedCalls[i], n)

(* A call of the author's on the image still finds the post, with the      *)
(* image it has read or with none, because the nightly job expired it.     *)
OwnsThePost(c) ==
    c.op \in ImageOps /\ c.at # "read" =>
        post.exists /\ (post.key = c.key \/ post.key = 0)

ImagesInOrder ==
    Quiet =>
        /\ \A i \in FeedBusy : OwnsThePost(feedCalls[i])
        /\ \A n \in 1..minted : Uploaded(n) =>
              /\ post.key # n
              /\ \A i \in FeedBusy : feedCalls[i].key # n
        /\ \A n \in 1..minted :
              n \in Stored <=> (n = post.key \/ Uploaded(n)) /\ ~Dropped(n)

FeedIInv ==
    /\ FeedTypeOK /\ FeedCallsOK /\ FeedCallsFit /\ OneCallEach
    /\ BudgetInOrder /\ VotesInOrder /\ AskedInOrder /\ ImagesInOrder
----------------------------------------------------------------------------
(* Calls.                                                                  *)

LEMMA NoFeedCallShape ==
    /\ NoFeedCall.op = "none" /\ NoFeedCall.at = "idle"
    /\ NoFeedCall \notin FeedCalls
<1>1. NoFeedCall.op = "none" /\ NoFeedCall.at = "idle"
  BY DEF NoFeedCall
<1>2. \A c \in FeedCalls : c.op # "none"
  BY DEF FeedCalls, FeedOps
<1> QED
  BY <1>1, <1>2

LEMMA FeedCallShape ==
    ASSUME NEW c \in FeedCalls
    PROVE  /\ c.op \in FeedOps /\ c.at \in FeedPlaces /\ c.at # "idle"
           /\ c.user \in FeedUsers /\ c.flag \in BOOLEAN
           /\ c.key \in Nat /\ c.cost \in {0, 1, 2} /\ c.made \in Nat
<1>1. /\ c.op \in FeedOps /\ c.at \in FeedPlaces
      /\ c.user \in FeedUsers /\ c.flag \in BOOLEAN
      /\ c.key \in Nat /\ c.cost \in {0, 1, 2} /\ c.made \in Nat
  BY DEF FeedCalls
<1> QED
  BY <1>1 DEF FeedPlaces

LEMMA BusyFeedCall ==
    ASSUME FeedCallsOK, NEW i \in FeedSlots
    PROVE  /\ feedCalls[i] \in {NoFeedCall} \cup FeedCalls
           /\ feedCalls[i].at # "idle" <=> feedCalls[i] \in FeedCalls
           /\ i \in FeedBusy <=> feedCalls[i] \in FeedCalls
           /\ feedCalls[i].op # "none" => feedCalls[i] \in FeedCalls
<1>1. feedCalls[i] \in {NoFeedCall} \cup FeedCalls
  BY DEF FeedCallsOK
<1> QED
  BY <1>1, NoFeedCallShape, FeedCallShape DEF FeedBusy

LEMMA TwoPersons ==
    /\ Author \in Persons /\ Viewer \in Persons
    /\ \A u \in Persons : Other(u) \in Persons /\ Persons = {u, Other(u)}
  BY FeedAssumption DEF Persons, Other

LEMMA FeedSlotsCounted ==
    /\ Cardinality(FeedSlots) \in Nat
    /\ \A S \in SUBSET FeedSlots : IsFiniteSet(S) /\ Cardinality(S) \in Nat
    /\ \A i \in FeedSlots : \A S \in SUBSET (FeedSlots \ {i}) :
           Cardinality(S) <= Cardinality(FeedSlots) - 1
<1>1. /\ IsFiniteSet(FeedSlots) /\ Cardinality(FeedSlots) \in Nat
      /\ \A S \in SUBSET FeedSlots : IsFiniteSet(S) /\ Cardinality(S) \in Nat
  BY FeedAssumption, FS_Subset, FS_CardinalityType
<1>2. ASSUME NEW i \in FeedSlots, NEW S \in SUBSET (FeedSlots \ {i})
      PROVE  Cardinality(S) <= Cardinality(FeedSlots) - 1
  <2>1. Cardinality(FeedSlots \ {i}) = Cardinality(FeedSlots) - 1
    BY <1>1, FS_RemoveElement
  <2>2. Cardinality(S) <= Cardinality(FeedSlots \ {i})
    BY <1>1, FS_Subset
  <2> QED
    BY <2>1, <2>2
<1> QED
  BY <1>1, <1>2

LEMMA OneMember ==
    ASSUME NEW S \in SUBSET FeedSlots, NEW i \in FeedSlots
    PROVE  /\ i \notin S => Cardinality(S \cup {i}) = Cardinality(S) + 1
           /\ i \in S => Cardinality(S \ {i}) = Cardinality(S) - 1
  BY FeedSlotsCounted, FS_AddElement, FS_RemoveElement

LEMMA OneChanges ==
    ASSUME NEW S \in SUBSET FeedSlots, NEW T \in SUBSET FeedSlots,
           NEW i \in FeedSlots, \A j \in FeedSlots \ {i} : j \in T <=> j \in S
    PROVE  Cardinality(T) = Cardinality(S)
               - (IF i \in S THEN 1 ELSE 0) + (IF i \in T THEN 1 ELSE 0)
<1>1. Cardinality(S) \in Nat /\ Cardinality(T) \in Nat
  BY FeedSlotsCounted
<1>2. CASE (i \in S) <=> (i \in T)
  <2>1. S = T
    BY <1>2
  <2> QED
    BY <1>1, <2>1
<1>3. CASE i \in S /\ i \notin T
  <2>1. T = S \ {i}
    BY <1>3
  <2> QED
    BY <1>1, <1>3, <2>1, OneMember
<1>4. CASE i \notin S /\ i \in T
  <2>1. T = S \cup {i}
    BY <1>4
  <2> QED
    BY <1>1, <1>4, <2>1, OneMember
<1> QED
  BY <1>2, <1>3, <1>4

(* What a call weighs in the budget.                                       *)
Weight(c) == (IF Spends(c) THEN 1 ELSE 0) + (IF SpendsTwo(c) THEN 1 ELSE 0)

LEMMA SpendingMoves ==
    ASSUME FeedCallsOK, NEW i \in FeedSlots, NEW c, c = feedCalls[i], NEW d,
           feedCalls' = [feedCalls EXCEPT ![i] = d]
    PROVE  /\ Cardinality(Spending) \in Nat /\ Cardinality(SpendingTwo) \in Nat
           /\ Cardinality(Spending') \in Nat /\ Cardinality(SpendingTwo') \in Nat
           /\ Cardinality(Spending') + Cardinality(SpendingTwo')
                  = Cardinality(Spending) + Cardinality(SpendingTwo)
                    - Weight(c) + Weight(d)
<1>1. /\ feedCalls'[i] = d
      /\ \A j \in FeedSlots \ {i} : feedCalls'[j] = feedCalls[j]
  BY DEF FeedCallsOK
<1>2. /\ Spending \in SUBSET FeedSlots /\ SpendingTwo \in SUBSET FeedSlots
      /\ Spending' \in SUBSET FeedSlots /\ SpendingTwo' \in SUBSET FeedSlots
  BY DEF Spending, SpendingTwo
<1>3. /\ Cardinality(Spending) \in Nat /\ Cardinality(SpendingTwo) \in Nat
      /\ Cardinality(Spending') \in Nat /\ Cardinality(SpendingTwo') \in Nat
  BY <1>2, FeedSlotsCounted
<1>4. Cardinality(Spending') = Cardinality(Spending)
          - (IF Spends(c) THEN 1 ELSE 0) + (IF Spends(d) THEN 1 ELSE 0)
  <2>1. \A j \in FeedSlots \ {i} : j \in Spending' <=> j \in Spending
    BY <1>1 DEF Spending, Spends
  <2>2. (i \in Spending' <=> Spends(d)) /\ (i \in Spending <=> Spends(c))
    BY <1>1 DEF Spending, Spends
  <2> QED
    BY <1>2, <2>1, <2>2, OneChanges
<1>5. Cardinality(SpendingTwo') = Cardinality(SpendingTwo)
          - (IF SpendsTwo(c) THEN 1 ELSE 0) + (IF SpendsTwo(d) THEN 1 ELSE 0)
  <2>1. \A j \in FeedSlots \ {i} : j \in SpendingTwo' <=> j \in SpendingTwo
    BY <1>1 DEF SpendingTwo, SpendsTwo, Spends
  <2>2. (i \in SpendingTwo' <=> SpendsTwo(d)) /\ (i \in SpendingTwo <=> SpendsTwo(c))
    BY <1>1 DEF SpendingTwo, SpendsTwo, Spends
  <2> QED
    BY <1>2, <2>1, <2>2, OneChanges
<1> QED
  BY <1>3, <1>4, <1>5 DEF Weight
----------------------------------------------------------------------------
(* A call goes on, or is over.                                             *)

Goes(i, c, d) ==
    /\ i \in FeedSlots /\ c \in FeedCalls /\ c = feedCalls[i]
    /\ d \in {NoFeedCall} \cup FeedCalls
    /\ feedCalls' = [feedCalls EXCEPT ![i] = d]
    /\ d # NoFeedCall => d.op = c.op /\ d.user = c.user

LEMMA GoesOn ==
    ASSUME FeedIInv, NEW i, NEW c, NEW d, Goes(i, c, d)
    PROVE  /\ FeedCallsOK' /\ feedCalls'[i] = d
           /\ \A j \in FeedSlots \ {i} : feedCalls'[j] = feedCalls[j]
           /\ i \in FeedBusy
           /\ d = NoFeedCall => FeedBusy' = FeedBusy \ {i}
           /\ d # NoFeedCall => FeedBusy' = FeedBusy /\ d \in FeedCalls
<1>1. /\ feedCalls'[i] = d /\ i \in FeedSlots
      /\ \A j \in FeedSlots \ {i} : feedCalls'[j] = feedCalls[j]
      /\ feedCalls' \in [FeedSlots -> {NoFeedCall} \cup FeedCalls]
  BY DEF Goes, FeedIInv, FeedCallsOK
<1>2. c.at # "idle" /\ (d.at # "idle" <=> d # NoFeedCall) /\ NoFeedCall.at = "idle"
  BY FeedCallShape, NoFeedCallShape DEF Goes
<1>3. \A j \in FeedSlots \ {i} : j \in FeedBusy' <=> j \in FeedBusy
  BY <1>1 DEF FeedBusy
<1>4. i \in FeedBusy /\ (i \in FeedBusy' <=> d # NoFeedCall)
  BY <1>1, <1>2 DEF FeedBusy, Goes
<1>5. FeedBusy \subseteq FeedSlots /\ FeedBusy' \subseteq FeedSlots
  BY DEF FeedBusy
<1>6. /\ d = NoFeedCall => FeedBusy' = FeedBusy \ {i}
      /\ d # NoFeedCall => FeedBusy' = FeedBusy
  BY <1>3, <1>4, <1>5
<1>7. d # NoFeedCall => d \in FeedCalls
  BY DEF Goes
<1> QED
  BY <1>1, <1>4, <1>6, <1>7 DEF FeedCallsOK

LEMMA GhostsSame ==
    ASSUME UNCHANGED feedGhosts
    PROVE  /\ UNCHANGED <<consenting, crossed>> /\ left' = left /\ unchecked' = unchecked
           /\ objects' = objects => Stored' = Stored
  BY DEF feedGhosts, Stored

LEMMA CallMoves ==
    ASSUME FeedIInv, NEW i, NEW c, NEW d, Goes(i, c, d), UNCHANGED <<consenting, crossed>>,
           minted' \in Nat, minted <= minted',
           d # NoFeedCall => FeedCallFits(d) /\ d.key <= minted' /\ d.made <= minted'
    PROVE  FeedCallsOK' /\ FeedCallsFit' /\ OneCallEach'
<1>1. /\ FeedCallsOK' /\ feedCalls'[i] = d
      /\ \A j \in FeedSlots \ {i} : feedCalls'[j] = feedCalls[j]
      /\ i \in FeedBusy /\ FeedBusy' \subseteq FeedBusy /\ FeedBusy \subseteq FeedSlots
      /\ i \in FeedBusy' => d # NoFeedCall
  BY GoesOn DEF FeedBusy
<1>2. consenting' = consenting /\ crossed' = crossed
  OBVIOUS
<1>3. FeedCallsFit'
  <2>1. ASSUME NEW j \in FeedBusy', j # i
        PROVE  /\ FeedCallFits(feedCalls[j])'
               /\ feedCalls'[j].key <= minted' /\ feedCalls'[j].made <= minted'
    <3>1. PICK e : e = feedCalls[j]
      OBVIOUS
    <3>2. FeedCallFits(e) /\ e.key <= minted /\ e.made <= minted /\ e \in FeedCalls
      BY <1>1, <2>1, <3>1, BusyFeedCall DEF FeedIInv, FeedCallsFit
    <3>3. e.key \in Nat /\ e.made \in Nat /\ minted \in Nat
      BY <3>2, FeedCallShape DEF FeedIInv, FeedTypeOK
    <3>4. feedCalls'[j] = e
      BY <1>1, <2>1, <3>1
    <3> QED
      BY <1>2, <3>2, <3>3, <3>4 DEF FeedCallFits
  <2>2. ASSUME i \in FeedBusy'
        PROVE  /\ FeedCallFits(feedCalls[i])'
               /\ feedCalls'[i].key <= minted' /\ feedCalls'[i].made <= minted'
    BY <1>1, <1>2, <2>2 DEF FeedCallFits
  <2> QED
    BY <2>1, <2>2 DEF FeedCallsFit
<1>4. OneCallEach'
  <2>1. \A j \in FeedBusy' : /\ feedCalls'[j].user = feedCalls[j].user
                             /\ feedCalls'[j].op = feedCalls[j].op
    BY <1>1 DEF Goes
  <2> QED
    BY <1>1, <1>2, <2>1 DEF FeedIInv, OneCallEach
<1> QED
  BY <1>1, <1>3, <1>4

LEMMA Weights ==
    \A c \in {NoFeedCall} \cup FeedCalls :
        /\ Weight(c) \in {0, 1, 2} /\ (Weight(c) = 0 <=> ~Spends(c))
        /\ c \in FeedCalls /\ Spends(c) /\ c.cost # 0 => Weight(c) = c.cost \/ Weight(c) = 1
        /\ c \in FeedCalls /\ Spends(c) => Weight(c) = IF c.cost = 2 THEN 2 ELSE 1
  BY FeedCallShape DEF Weight, SpendsTwo

LEMMA BudgetMoves ==
    ASSUME FeedIInv, NEW i, NEW c, NEW d, Goes(i, c, d), classA' \in Nat, unchecked' = unchecked,
           classA' + Weight(d) <= classA + Weight(c)
    PROVE  BudgetInOrder'
<1>1. /\ Cardinality(Spending) \in Nat /\ Cardinality(SpendingTwo) \in Nat
      /\ Cardinality(Spending') \in Nat /\ Cardinality(SpendingTwo') \in Nat
      /\ Cardinality(Spending') + Cardinality(SpendingTwo')
             = Cardinality(Spending) + Cardinality(SpendingTwo)
               - Weight(c) + Weight(d)
  BY SpendingMoves DEF FeedIInv, Goes
<1>2. Weight(c) \in Nat /\ Weight(d) \in Nat /\ classA \in Nat
  BY Weights DEF Goes, FeedIInv, FeedTypeOK
<1>3. Cardinality(FeedSlots) \in Nat /\ ImageLimit \in Nat /\ unchecked \in Nat
  BY FeedSlotsCounted, FeedAssumption DEF FeedIInv, FeedTypeOK
<1>4. classA + Cardinality(Spending) + Cardinality(SpendingTwo)
        <= ImageLimit + 2 * (Cardinality(FeedSlots) - 1) + unchecked
  BY DEF FeedIInv, BudgetInOrder
<1>5. classA' + Cardinality(Spending') + Cardinality(SpendingTwo')
        <= ImageLimit + 2 * (Cardinality(FeedSlots) - 1) + unchecked'
  BY <1>1, <1>2, <1>3, <1>4
<1> QED
  BY <1>5 DEF BudgetInOrder

LEMMA VotesSame ==
    ASSUME FeedIInv, NEW i, NEW c, NEW d, Goes(i, c, d), UNCHANGED <<consenting, crossed>>,
           votes' \subseteq votes, ~(d.op = "vote" /\ d.at = "insert")
    PROVE  VotesInOrder'
<1>1. /\ feedCalls'[i] = d /\ FeedBusy' \subseteq FeedBusy
      /\ \A j \in FeedSlots \ {i} : feedCalls'[j] = feedCalls[j]
      /\ FeedBusy \subseteq FeedSlots
  BY GoesOn DEF FeedBusy
<1>2. crossed' = crossed
  OBVIOUS
<1> SUFFICES ASSUME NEW u \in Persons \ crossed
             PROVE  /\ \A o, p \in Options :
                           <<u, o>> \in votes' /\ <<u, p>> \in votes' => o = p
                    /\ \A j \in FeedBusy' :
                          FeedAt(j, "vote", "insert")' /\ feedCalls'[j].user = u =>
                              \A o \in Options : <<u, o>> \notin votes'
  BY <1>2 DEF VotesInOrder
<1>3. \A o, p \in Options : <<u, o>> \in votes' /\ <<u, p>> \in votes' => o = p
  BY DEF FeedIInv, VotesInOrder
<1>4. ASSUME NEW j \in FeedBusy', FeedAt(j, "vote", "insert")', feedCalls'[j].user = u
      PROVE  \A o \in Options : <<u, o>> \notin votes'
  <2>1. j # i /\ j \in FeedBusy /\ feedCalls'[j] = feedCalls[j]
    BY <1>1, <1>4 DEF FeedAt
  <2> QED
    BY <1>4, <2>1 DEF FeedIInv, VotesInOrder, FeedAt
<1> QED
  BY <1>3, <1>4

LEMMA AskedSame ==
    ASSUME FeedIInv, UNCHANGED <<consenting, crossed>>, friends' = friends, asked' = asked
    PROVE  AskedInOrder'
  BY DEF FeedIInv, AskedInOrder, ConsentedFriends

(* What is dropped and uploaded, by the call that moves and by the others. *)
DroppedByOthers(i, n) == \E j \in FeedSlots \ {i} : Drops(feedCalls[j], n)
UploadedByOthers(i, n) == \E j \in FeedSlots \ {i} : Holds(feedCalls[j], n)

LEMMA ImagesOfCalls ==
    ASSUME FeedIInv, NEW i, NEW c, NEW d, Goes(i, c, d), NEW n
    PROVE  /\ Dropped(n) <=> Drops(c, n) \/ DroppedByOthers(i, n)
           /\ Uploaded(n) <=> Holds(c, n) \/ UploadedByOthers(i, n)
           /\ Dropped(n)' <=> Drops(d, n) \/ DroppedByOthers(i, n)
           /\ Uploaded(n)' <=> Holds(d, n) \/ UploadedByOthers(i, n)
<1>1. /\ feedCalls'[i] = d /\ i \in FeedSlots /\ c = feedCalls[i]
      /\ \A j \in FeedSlots \ {i} : feedCalls'[j] = feedCalls[j]
  BY GoesOn DEF Goes
<1>2. Dropped(n) <=> Drops(c, n) \/ DroppedByOthers(i, n)
  BY <1>1 DEF Dropped, DroppedByOthers
<1>3. Uploaded(n) <=> Holds(c, n) \/ UploadedByOthers(i, n)
  BY <1>1 DEF Uploaded, UploadedByOthers
<1>4. Dropped(n)' <=> Drops(d, n) \/ DroppedByOthers(i, n)
  BY <1>1 DEF Dropped, DroppedByOthers, Drops
<1>5. Uploaded(n)' <=> Holds(d, n) \/ UploadedByOthers(i, n)
  BY <1>1 DEF Uploaded, UploadedByOthers, Holds
<1> QED
  BY <1>2, <1>3, <1>4, <1>5

(* Every key is still what it was, and the call that moves has read the    *)
(* key of the post, if any.                                                *)
LEMMA ImagesSame ==
    ASSUME FeedIInv, NEW i, NEW c, NEW d, Goes(i, c, d), UNCHANGED <<consenting, crossed>>,
           post'.key = post.key, post.exists => post'.exists,
           Stored' = Stored, minted' = minted,
           \A n \in 1..minted : (Drops(d, n) <=> Drops(c, n)) /\ (Holds(d, n) <=> Holds(c, n)),
           d # NoFeedCall => d.key = c.key \/ d.key = post.key,
           d # NoFeedCall /\ Quiet => OwnsThePost(d)
    PROVE  ImagesInOrder'
<1> SUFFICES ASSUME Quiet
             PROVE  /\ \A j \in FeedBusy' : OwnsThePost(feedCalls[j])'
                    /\ \A n \in 1..minted : Uploaded(n)' =>
                          /\ post'.key # n
                          /\ \A j \in FeedBusy' : feedCalls'[j].key # n
                    /\ \A n \in 1..minted :
                          n \in Stored <=> (n = post'.key \/ Uploaded(n)') /\ ~Dropped(n)'
  BY DEF ImagesInOrder, Quiet
<1>1. /\ feedCalls'[i] = d /\ FeedBusy' \subseteq FeedBusy
      /\ \A j \in FeedSlots \ {i} : feedCalls'[j] = feedCalls[j]
      /\ FeedBusy \subseteq FeedSlots /\ i \in FeedBusy
      /\ i \in FeedBusy' => d # NoFeedCall
  BY GoesOn DEF FeedBusy
<1>2. \A n \in 1..minted : (Dropped(n)' <=> Dropped(n)) /\ (Uploaded(n)' <=> Uploaded(n))
  BY ImagesOfCalls
<1>3. ASSUME NEW j \in FeedBusy'
      PROVE  OwnsThePost(feedCalls[j])'
  <2>1. CASE j = i
    BY <1>1, <1>3, <2>1 DEF OwnsThePost
  <2>2. CASE j # i
    <3>1. OwnsThePost(feedCalls[j]) /\ feedCalls'[j] = feedCalls[j]
      BY <1>1, <2>2 DEF FeedIInv, ImagesInOrder
    <3> QED
      BY <3>1 DEF OwnsThePost
  <2> QED
    BY <2>1, <2>2
<1>4. ASSUME NEW n \in 1..minted, Uploaded(n)'
      PROVE  post'.key # n /\ \A j \in FeedBusy' : feedCalls'[j].key # n
  <2>1. post.key # n /\ \A j \in FeedBusy : feedCalls[j].key # n
    BY <1>2, <1>4 DEF FeedIInv, ImagesInOrder
  <2>2. d # NoFeedCall => d.key # n
    BY <1>1, <2>1 DEF Goes
  <2> QED
    BY <1>1, <2>1, <2>2
<1>5. \A n \in 1..minted :
          n \in Stored <=> (n = post'.key \/ Uploaded(n)') /\ ~Dropped(n)'
  BY <1>2 DEF FeedIInv, ImagesInOrder
<1> QED
  BY <1>3, <1>4, <1>5
----------------------------------------------------------------------------
(* The steps that read.                                                    *)

LEMMA FeedTypes ==
    ASSUME FeedIInv
    PROVE  /\ post.key \in 0..minted /\ post.exists \in BOOLEAN
           /\ minted \in Nat /\ classA \in Nat /\ ImageLimit \in Nat
           /\ objects \subseteq 1..minted /\ left \subseteq 1..minted /\ unchecked \in Nat
  BY FeedAssumption, GhostsSame DEF FeedIInv, FeedTypeOK

LEMMA CallOf ==
    ASSUME FeedIInv, NEW i \in FeedSlots, NEW c, c = feedCalls[i],
           c.op # "none" \/ c.at # "idle"
    PROVE  /\ c \in FeedCalls /\ c.op \in FeedOps /\ c.at \in FeedPlaces
           /\ c.key \in 0..minted /\ c.made \in 0..minted
           /\ FeedCallFits(c) /\ i \in FeedBusy
<1>1. c \in FeedCalls /\ i \in FeedBusy
  BY BusyFeedCall DEF FeedIInv
<1> QED
  BY <1>1, FeedCallShape DEF FeedIInv, FeedCallsFit

FeedMoved(c, d, place) ==
    /\ d.at = place /\ d.op = c.op /\ d.user = c.user /\ d.flag = c.flag
    /\ d.choice = c.choice /\ d.key = c.key /\ d.cost = c.cost /\ d.made = c.made

LEMMA FeedGoes ==
    ASSUME FeedIInv, NEW i \in FeedSlots, NEW c \in FeedCalls, c = feedCalls[i],
           NEW place \in FeedPlaces, FeedGo(i, place)
    PROVE  \E d \in FeedCalls : Goes(i, c, d) /\ FeedMoved(c, d, place)
<1>1. PICK d : d = [c EXCEPT !.at = place]
  OBVIOUS
<1>2. d \in FeedCalls /\ FeedMoved(c, d, place)
  BY <1>1 DEF FeedCalls, FeedMoved
<1>3. feedCalls' = [feedCalls EXCEPT ![i] = d]
  BY <1>1 DEF FeedGo
<1> QED
  BY <1>2, <1>3 DEF Goes, FeedMoved

LEMMA FeedEnds ==
    ASSUME NEW i \in FeedSlots, NEW c \in FeedCalls, c = feedCalls[i], FeedEnd(i)
    PROVE  Goes(i, c, NoFeedCall)
  BY DEF FeedEnd, Goes

LEMMA FeedReads ==
    ASSUME FeedIInv, NEW i, NEW c, NEW d, Goes(i, c, d), UNCHANGED feedGhosts,
           UNCHANGED feedTables, BudgetInOrder',
           c.at \notin {"drop", "count", "write"},
           d.op = "upload" => d.at \notin {"drop", "count", "write"},
           d.op \in ImageOps \cup {"expire"} /\ d.at \in {"count", "write"} => d.key = 0,
           ~(d.op = "vote" /\ d.at = "insert"),
           d # NoFeedCall => FeedCallFits(d) /\ d.made <= minted,
           d # NoFeedCall => d.key = c.key \/ d.key = post.key,
           d # NoFeedCall /\ Quiet => OwnsThePost(d)
    PROVE  FeedIInv'
<1>1. /\ post' = post /\ objects' = objects /\ minted' = minted /\ classA' = classA
      /\ votes' = votes /\ reactions' = reactions /\ friends' = friends
      /\ asked' = asked
  BY DEF feedTables
<1>2. c.key <= minted /\ post.key <= minted /\ minted \in Nat
  BY CallOf, FeedTypes, FeedCallShape DEF Goes
<1>3. FeedTypeOK'
  BY <1>1, GhostsSame DEF FeedIInv, FeedTypeOK
<1>4. FeedCallsOK' /\ FeedCallsFit' /\ OneCallEach'
  BY <1>1, <1>2, CallMoves, GhostsSame
<1>5. VotesInOrder' /\ AskedInOrder'
  BY <1>1, VotesSame, AskedSame, GhostsSame
<1>6. ImagesInOrder'
  <2>1. \A n \in 1..minted : ~Drops(d, n) /\ ~Drops(c, n) /\ ~Holds(d, n) /\ ~Holds(c, n)
    BY <1>2 DEF Drops, Holds
  <2> QED
    BY <1>1, <2>1, ImagesSame, GhostsSame
<1> QED
  BY <1>3, <1>4, <1>5, <1>6 DEF FeedIInv

LEMMA FeedReadEnds ==
    ASSUME FeedIInv, NEW i \in FeedSlots, NEW c \in FeedCalls, c = feedCalls[i],
           FeedEnd(i), UNCHANGED feedGhosts, UNCHANGED feedTables,
           c.at \notin {"drop", "count", "write"}
    PROVE  FeedIInv'
<1>1. Goes(i, c, NoFeedCall)
  BY FeedEnds
<1>2. classA' = classA /\ classA \in Nat
  BY FeedTypes DEF feedTables
<1>3. Weight(NoFeedCall) = 0 /\ Weight(c) \in {0, 1, 2}
  BY Weights, NoFeedCallShape DEF Spends
<1>4. BudgetInOrder'
  BY <1>1, <1>2, <1>3, BudgetMoves, GhostsSame
<1> QED
  BY <1>1, <1>4, NoFeedCallShape, FeedReads

(* A step that only reads, of a call that neither had nor gets a share in  *)
(* the budget.                                                             *)
LEMMA FeedReadGoesOn ==
    ASSUME FeedIInv, NEW i \in FeedSlots, NEW c \in FeedCalls, c = feedCalls[i],
           NEW place \in FeedPlaces, FeedGo(i, place),
           UNCHANGED feedGhosts, UNCHANGED feedTables,
           c.op \notin ImageOps \cup {"expire"},
           ~(c.op = "vote" /\ place = "insert"),
           ~Spends([c EXCEPT !.at = place]), FeedCallFits([c EXCEPT !.at = place]),
           c.at \notin {"count", "write"}
    PROVE  FeedIInv'
<1>1. PICK d \in FeedCalls : Goes(i, c, d) /\ FeedMoved(c, d, place)
  BY FeedGoes
<1>2. d = [c EXCEPT !.at = place]
  BY <1>1 DEF Goes, FeedGo, FeedCalls, FeedMoved
<1>3. classA' = classA /\ classA \in Nat
  BY FeedTypes DEF feedTables
<1>4. Weight(d) = 0 /\ Weight(c) \in {0, 1, 2}
  BY <1>2, Weights
<1>5. BudgetInOrder'
  BY <1>1, <1>3, <1>4, BudgetMoves, GhostsSame
<1>6. /\ d.op = c.op /\ d.at = place /\ d.key = c.key /\ d.made = c.made
      /\ FeedCallFits(d) /\ OwnsThePost(d)
  BY <1>1, <1>2 DEF FeedMoved, OwnsThePost
<1>7. c.made <= minted /\ c.at \notin {"drop", "count", "write"}
  BY CallOf, FeedCallShape DEF FeedCallFits
<1> QED
  BY <1>1, <1>5, <1>6, <1>7, FeedReads DEF ImageOps

LEMMA ReadImageStep ==
    ASSUME FeedIInv, NEW i \in FeedSlots, ReadImage(i), UNCHANGED feedGhosts
    PROVE  FeedIInv'
<1>1. PICK c : c = feedCalls[i]
  OBVIOUS
<1> DEFINE place == IF c.op = "upload" \/ post.key # 0 THEN "budget" ELSE "write"
<1>2. /\ c.op \in ImageOps /\ c.at = "read" /\ UNCHANGED feedTables
      /\ IF ~post.exists THEN FeedEnd(i)
         ELSE FeedNote(i, post.key, ImageCost(c.op), place)
  BY <1>1 DEF ReadImage, ImageOps
<1>3. c \in FeedCalls /\ FeedCallFits(c) /\ c.made <= minted
  BY <1>1, <1>2, CallOf, FeedTypes
<1>4. CASE ~post.exists
  BY <1>1, <1>2, <1>3, <1>4, FeedReadEnds
<1>5. CASE post.exists
  <2>1. PICK d : d = [c EXCEPT !.key = post.key, !.cost = ImageCost(c.op), !.at = place]
    OBVIOUS
  <2>2. ImageCost(c.op) \in {1, 2} /\ place \in FeedPlaces /\ post.key \in Nat
    BY FeedTypes DEF ImageCost, FeedPlaces
  <2>3. /\ d \in FeedCalls /\ d.op = c.op /\ d.user = c.user /\ d.key = post.key
        /\ d.made = c.made /\ d.at = place /\ d.cost \in {1, 2} /\ d.flag = c.flag
        /\ d.choice = c.choice
    BY <1>3, <2>1, <2>2 DEF FeedCalls
  <2>4. Goes(i, c, d)
    BY <1>1, <1>2, <1>3, <1>5, <2>1, <2>3 DEF FeedNote, Goes, FeedCalls
  <2>5. FeedCallFits(d)
    BY <1>2, <1>3, <2>3 DEF FeedCallFits, ImageOps
  <2>6. BudgetInOrder'
    <3>1. Weight(d) = 0 /\ Weight(c) \in {0, 1, 2}
      BY <1>3, <2>3, Weights DEF Spends
    <3>2. classA' = classA /\ classA \in Nat
      BY <1>2, FeedTypes DEF feedTables
    <3> QED
      BY <2>4, <3>1, <3>2, BudgetMoves, GhostsSame
  <2>7. OwnsThePost(d)
    BY <1>5, <2>3 DEF OwnsThePost
  <2>8. /\ d.op = "upload" => d.at = "budget"
        /\ d.at = "write" => d.key = 0
        /\ d.at \in {"budget", "write"}
    BY <2>3
  <2> QED
    BY <1>2, <1>3, <2>3, <2>4, <2>5, <2>6, <2>7, <2>8, FeedReads DEF ImageOps
<1> QED
  BY <1>4, <1>5

(* What passes the check counts from here on: the others at once need no   *)
(* more than two each.                                                     *)
LEMMA Affordable ==
    ASSUME FeedIInv, NEW i, NEW c, NEW d, Goes(i, c, d), classA' = classA, unchecked' = unchecked,
           ~Spends(c), classA + Weight(d) <= ImageLimit
    PROVE  BudgetInOrder'
<1>1. i \notin Spending /\ i \notin SpendingTwo /\ i \in FeedSlots
  BY DEF Spending, SpendingTwo, SpendsTwo, Goes
<1>2. Spending \subseteq FeedSlots \ {i} /\ SpendingTwo \subseteq FeedSlots \ {i}
  BY <1>1 DEF Spending, SpendingTwo
<1>3. /\ Cardinality(Spending) <= Cardinality(FeedSlots) - 1
      /\ Cardinality(SpendingTwo) <= Cardinality(FeedSlots) - 1
  BY <1>1, <1>2, FeedSlotsCounted
<1>4. /\ Cardinality(Spending) \in Nat /\ Cardinality(SpendingTwo) \in Nat
      /\ Cardinality(Spending') \in Nat /\ Cardinality(SpendingTwo') \in Nat
      /\ Cardinality(Spending') + Cardinality(SpendingTwo')
             = Cardinality(Spending) + Cardinality(SpendingTwo)
               - Weight(c) + Weight(d)
  BY SpendingMoves DEF FeedIInv, Goes
<1>5. /\ Weight(c) = 0 /\ Weight(d) \in Nat /\ classA \in Nat /\ ImageLimit \in Nat
      /\ unchecked \in Nat
  BY Weights, FeedTypes DEF Goes
<1>6. classA' + Cardinality(Spending') + Cardinality(SpendingTwo')
        <= ImageLimit + 2 * (Cardinality(FeedSlots) - 1) + unchecked'
  BY <1>3, <1>4, <1>5, FeedSlotsCounted
<1> QED
  BY <1>6 DEF BudgetInOrder

LEMMA CheckBudgetStep ==
    ASSUME FeedIInv, NEW i \in FeedSlots, CheckBudget(i), UNCHANGED feedGhosts
    PROVE  FeedIInv'
<1>1. PICK c : c = feedCalls[i]
  OBVIOUS
<1> DEFINE place == AfterCheck(c.op)
<1>2. /\ c.op \in ImageOps \cup {"elsewhere"} /\ c.at = "budget" /\ UNCHANGED feedTables
      /\ IF WithinBudget(c.cost) THEN FeedGo(i, place) ELSE FeedEnd(i)
      /\ place = IF c.op = "upload" THEN "put" ELSE IF c.op = "elsewhere" THEN "count" ELSE "drop"
  BY <1>1 DEF CheckBudget, ImageOps, AfterCheck
<1> HIDE DEF place
<1>3. c \in FeedCalls /\ FeedCallFits(c) /\ c.made <= minted /\ i \in FeedBusy
  BY <1>1, <1>2, CallOf, FeedTypes
<1>4. CASE ~WithinBudget(c.cost)
  BY <1>1, <1>2, <1>3, <1>4, FeedReadEnds
<1>5. CASE WithinBudget(c.cost)
  <2>1. PICK d \in FeedCalls : Goes(i, c, d) /\ FeedMoved(c, d, place)
    BY <1>1, <1>2, <1>3, <1>5, FeedGoes DEF FeedPlaces
  <2>2. FeedCallFits(d)
    BY <1>2, <1>3, <2>1 DEF FeedCallFits, ImageOps, FeedMoved
  <2>3. BudgetInOrder'
    <3>1. ~Spends(c) /\ Spends(d) /\ c.cost \in {1, 2} /\ d.cost = c.cost
      BY <1>2, <1>3, <2>1, FeedCallShape DEF Spends, FeedMoved, FeedCallFits
    <3>2. Weight(d) = c.cost
      BY <3>1, Weights
    <3>3. classA' = classA /\ classA + c.cost <= ImageLimit
      BY <1>2, <1>5 DEF feedTables, WithinBudget
    <3> QED
      BY <2>1, <3>1, <3>2, <3>3, Affordable, GhostsSame
  <2>4. Quiet => OwnsThePost(d)
    <3>1. Quiet => OwnsThePost(c)
      BY <1>1, <1>3 DEF FeedIInv, ImagesInOrder
    <3> QED
      BY <1>2, <2>1, <3>1 DEF OwnsThePost, FeedMoved
  <2>5. d.at = place /\ d.op = c.op /\ d.key = c.key /\ d.made = c.made
    BY <2>1 DEF FeedMoved
  <2>6. /\ d.op = "upload" => d.at \notin {"drop", "count", "write"}
        /\ ~(d.op \in ImageOps \cup {"expire"} /\ d.at \in {"count", "write"})
        /\ d.op # "vote"
    BY <1>2, <2>5 DEF ImageOps
  <2> QED
    BY <1>2, <1>3, <2>1, <2>2, <2>3, <2>4, <2>5, <2>6, FeedReads
<1> QED
  BY <1>4, <1>5

LEMMA ExpireUsageStep ==
    ASSUME FeedIInv, NEW i \in FeedSlots, ExpireUsage(i), UNCHANGED feedGhosts
    PROVE  FeedIInv'
<1>1. PICK c : c = feedCalls[i]
  OBVIOUS
<1>2. /\ c.op = "expire" /\ c.at = "read" /\ UNCHANGED feedTables
      /\ IF classA < ImageLimit THEN FeedGo(i, "rows") ELSE FeedEnd(i)
  BY <1>1 DEF ExpireUsage, FeedAt
<1>3. c \in FeedCalls /\ FeedCallFits(c) /\ c.made <= minted /\ i \in FeedBusy
  BY <1>1, <1>2, CallOf, FeedTypes
<1>4. CASE ~(classA < ImageLimit)
  BY <1>1, <1>2, <1>3, <1>4, FeedReadEnds
<1>5. CASE classA < ImageLimit
  <2>1. PICK d \in FeedCalls : Goes(i, c, d) /\ FeedMoved(c, d, "rows")
    BY <1>1, <1>2, <1>3, <1>5, FeedGoes DEF FeedPlaces
  <2>2. FeedCallFits(d)
    BY <1>2, <1>3, <2>1 DEF FeedCallFits, ImageOps, FeedMoved
  <2>3. BudgetInOrder'
    <3>1. ~Spends(c) /\ Spends(d) /\ d.cost # 2
      BY <1>2, <1>3, <2>1 DEF Spends, FeedMoved, FeedCallFits
    <3>2. Weight(d) = 1
      BY <3>1, Weights
    <3>3. classA' = classA /\ classA + 1 <= ImageLimit
      BY <1>2, <1>5, FeedTypes DEF feedTables
    <3> QED
      BY <2>1, <3>1, <3>2, <3>3, Affordable, GhostsSame
  <2>4. OwnsThePost(d) /\ d.at = "rows" /\ d.op = c.op /\ d.key = c.key /\ d.made = c.made
    BY <1>2, <2>1 DEF OwnsThePost, FeedMoved, ImageOps
  <2> QED
    BY <1>2, <1>3, <2>1, <2>2, <2>3, <2>4, FeedReads
<1> QED
  BY <1>4, <1>5

LEMMA ExpireRowsStep ==
    ASSUME FeedIInv, NEW i \in FeedSlots, ExpireRows(i), UNCHANGED feedGhosts
    PROVE  FeedIInv'
<1>1. PICK c : c = feedCalls[i]
  OBVIOUS
<1>2. /\ c.op = "expire" /\ c.at = "rows" /\ UNCHANGED feedTables
      /\ IF post.key # 0 /\ post.aged THEN FeedNote(i, post.key, 1, "drop") ELSE FeedEnd(i)
  BY <1>1 DEF ExpireRows, FeedAt
<1>3. c \in FeedCalls /\ FeedCallFits(c) /\ c.made <= minted
  BY <1>1, <1>2, CallOf, FeedTypes
<1>4. CASE FeedEnd(i)
  BY <1>1, <1>2, <1>3, <1>4, FeedReadEnds
<1>5. CASE FeedNote(i, post.key, 1, "drop")
  <2>1. PICK d : d = [c EXCEPT !.key = post.key, !.cost = 1, !.at = "drop"]
    OBVIOUS
  <2>2. /\ d \in FeedCalls /\ d.op = c.op /\ d.user = c.user /\ d.key = post.key
        /\ d.made = c.made /\ d.at = "drop" /\ d.cost = 1 /\ d.flag = c.flag
        /\ d.choice = c.choice
    <3>1. post.key \in Nat
      BY FeedTypes
    <3> QED
      BY <1>3, <2>1, <3>1 DEF FeedCalls, FeedPlaces
  <2>3. Goes(i, c, d)
    BY <1>1, <1>3, <1>5, <2>1, <2>2 DEF FeedNote, Goes, FeedCalls
  <2>4. FeedCallFits(d)
    BY <1>2, <1>3, <2>2 DEF FeedCallFits, ImageOps
  <2>5. BudgetInOrder'
    <3>1. Weight(d) = 1 /\ Weight(c) = 1
      BY <1>2, <1>3, <2>2, Weights DEF Spends, FeedCallFits
    <3>2. classA' = classA /\ classA \in Nat
      BY <1>2, FeedTypes DEF feedTables
    <3> QED
      BY <2>3, <3>1, <3>2, BudgetMoves, GhostsSame
  <2>6. OwnsThePost(d)
    BY <1>2, <2>2 DEF OwnsThePost, ImageOps
  <2> QED
    BY <1>2, <1>3, <2>2, <2>3, <2>4, <2>5, <2>6, FeedReads
<1> QED
  BY <1>2, <1>4, <1>5

LEMMA ChoiceReadStep ==
    ASSUME FeedIInv, NEW i \in FeedSlots, ViewPost(i) \/ ReadChoice(i),
           UNCHANGED feedGhosts
    PROVE  FeedIInv'
<1>1. PICK c : c = feedCalls[i]
  OBVIOUS
<1>2. /\ c.op \in {"vote", "react"} /\ c.at \in {"read", "existing"}
      /\ UNCHANGED feedTables
  BY <1>1 DEF ViewPost, ReadChoice
<1>3. c \in FeedCalls /\ FeedCallFits(c)
  BY <1>1, <1>2, CallOf
<1>4. CASE FeedEnd(i)
  BY <1>1, <1>2, <1>3, <1>4, FeedReadEnds
<1>5. CASE ~FeedEnd(i)
  <2>1. PICK place \in {"existing", "delete", "clear", "insert"} :
            FeedGo(i, place) /\ ~(c.op = "vote" /\ place = "insert")
    BY <1>1, <1>2, <1>5 DEF ViewPost, ReadChoice, NextOfChoice
  <2>2. PICK d : d = [c EXCEPT !.at = place]
    OBVIOUS
  <2>3. d.at = place /\ ~Spends(d) /\ FeedCallFits(d)
    BY <1>2, <1>3, <2>1, <2>2 DEF FeedCalls, Spends, FeedCallFits, ImageOps
  <2>4. place \in FeedPlaces /\ c.op \notin ImageOps \cup {"expire"} /\ c.at # "write"
    BY <1>2 DEF FeedPlaces, ImageOps
  <2> QED
    BY <1>1, <1>2, <1>3, <2>1, <2>2, <2>3, <2>4, FeedReadGoesOn
<1> QED
  BY <1>4, <1>5

LEMMA AskReadStep ==
    ASSUME FeedIInv, NEW i \in FeedSlots, AskRead(i) \/ AskReciprocal(i),
           UNCHANGED feedGhosts
    PROVE  FeedIInv'
<1>1. PICK c : c = feedCalls[i]
  OBVIOUS
<1>2. /\ c.op = "ask" /\ c.at \in {"read", "reciprocal"} /\ UNCHANGED feedTables
  BY <1>1 DEF AskRead, AskReciprocal, FeedAt
<1>3. c \in FeedCalls /\ FeedCallFits(c) /\ c.user \in Persons
  BY <1>1, <1>2, CallOf DEF FeedCallFits
<1>4. CASE FeedEnd(i)
  BY <1>1, <1>2, <1>3, <1>4, FeedReadEnds
<1>5. CASE ~FeedEnd(i)
  <2>1. PICK place \in {"reciprocal", "accept", "write"} :
            FeedGo(i, place) /\ (place = "accept" => asked[Other(c.user)] # "none")
    BY <1>1, <1>2, <1>5 DEF AskRead, AskReciprocal
  <2>2. PICK d : d = [c EXCEPT !.at = place]
    OBVIOUS
  <2>3. place = "accept" => Other(c.user) \in consenting
    BY <1>3, <2>1, TwoPersons DEF FeedIInv, AskedInOrder
  <2>4. d.at = place /\ ~Spends(d) /\ FeedCallFits(d)
    BY <1>2, <1>3, <2>1, <2>2, <2>3 DEF FeedCalls, Spends, FeedCallFits, ImageOps
  <2>5. place \in FeedPlaces /\ c.op \notin ImageOps \cup {"expire"} /\ c.at # "write"
    BY <1>2 DEF FeedPlaces, ImageOps
  <2> QED
    BY <1>1, <1>2, <1>3, <2>1, <2>2, <2>4, <2>5, FeedReadGoesOn
<1> QED
  BY <1>4, <1>5

LEMMA RespondReadStep ==
    ASSUME FeedIInv, NEW i \in FeedSlots, RespondRead(i), UNCHANGED feedGhosts
    PROVE  FeedIInv'
<1>1. PICK c : c = feedCalls[i]
  OBVIOUS
<1>2. /\ c.op = "respond" /\ c.at = "read" /\ UNCHANGED feedTables
      /\ \/ \E from \in Persons :
             /\ AnswerableRequest(c, from)
             /\ feedCalls' = [feedCalls EXCEPT ![i].choice = from, ![i].at = "write"]
         \/ FeedEnd(i)
  BY <1>1 DEF RespondRead, FeedAt
<1>3. c \in FeedCalls /\ FeedCallFits(c) /\ c.user \in Persons /\ c.made <= minted
  BY <1>1, <1>2, CallOf, FeedTypes DEF FeedCallFits
<1>4. CASE FeedEnd(i)
  BY <1>1, <1>2, <1>3, <1>4, FeedReadEnds
<1>5. CASE ~FeedEnd(i)
  <2>1. PICK from \in Persons :
             /\ AnswerableRequest(c, from)
             /\ feedCalls' = [feedCalls EXCEPT ![i].choice = from, ![i].at = "write"]
    BY <1>2, <1>5
  <2>2. PICK d : d = [c EXCEPT !.choice = from, !.at = "write"]
    OBVIOUS
  <2>3. /\ d \in FeedCalls /\ d.op = c.op /\ d.user = c.user /\ d.key = c.key
        /\ d.made = c.made /\ d.at = "write" /\ d.flag = c.flag /\ d.cost = c.cost
        /\ d.choice = from
    BY <1>3, <2>2 DEF FeedCalls, FeedPlaces
  <2>4. Goes(i, c, d)
    BY <1>1, <1>3, <2>1, <2>2, <2>3 DEF Goes, FeedCalls
  <2>5. from = Other(c.user) /\ from \in consenting
    BY <2>1 DEF AnswerableRequest, FeedIInv, AskedInOrder
  <2>6. FeedCallFits(d)
    BY <1>2, <1>3, <2>3, <2>5 DEF FeedCallFits, ImageOps
  <2>7. BudgetInOrder'
    <3>1. Weight(d) = 0 /\ Weight(c) \in {0, 1, 2}
      BY <1>3, <2>3, Weights DEF Spends
    <3>2. classA' = classA /\ classA \in Nat
      BY <1>2, FeedTypes DEF feedTables
    <3> QED
      BY <2>4, <3>1, <3>2, BudgetMoves, GhostsSame
  <2>8. OwnsThePost(d) /\ d.op \notin ImageOps \cup {"expire"}
    BY <1>2, <2>3 DEF OwnsThePost, ImageOps
  <2> QED
    BY <1>2, <1>3, <2>3, <2>4, <2>6, <2>7, <2>8, FeedReads
<1> QED
  BY <1>4, <1>5
----------------------------------------------------------------------------
(* The steps that write rows of posts, votes and friends.                  *)

LEMMA PlainStep ==
    ASSUME FeedIInv, NEW i, NEW c, NEW d, Goes(i, c, d), UNCHANGED feedGhosts,
           c.op \notin ImageOps \cup {"expire"},
           d # NoFeedCall => FeedCallFits(d) /\ d.key = c.key /\ d.made = c.made,
           ~Spends(d), classA' = classA, minted' = minted, objects' = objects,
           post'.key = post.key, post.exists => post'.exists
    PROVE  /\ FeedCallsOK' /\ FeedCallsFit' /\ OneCallEach' /\ BudgetInOrder'
           /\ ImagesInOrder'
<1>1. c.key <= minted /\ c.made <= minted /\ minted \in Nat /\ classA \in Nat
  BY CallOf, FeedTypes, FeedCallShape DEF Goes
<1>2. FeedCallsOK' /\ FeedCallsFit' /\ OneCallEach'
  BY <1>1, CallMoves, GhostsSame
<1>3. BudgetInOrder'
  <2>1. Weight(d) = 0 /\ Weight(c) \in {0, 1, 2}
    BY Weights DEF Goes
  <2> QED
    BY <1>1, <2>1, BudgetMoves, GhostsSame
<1>4. ImagesInOrder'
  <2>1. \A n \in 1..minted : ~Drops(d, n) /\ ~Drops(c, n) /\ ~Holds(d, n) /\ ~Holds(c, n)
    BY NoFeedCallShape DEF Drops, Holds, Goes, ImageOps
  <2>2. d # NoFeedCall => OwnsThePost(d)
    BY DEF OwnsThePost, Goes
  <2> QED
    BY <2>1, <2>2, ImagesSame, GhostsSame
<1> QED
  BY <1>2, <1>3, <1>4

LEMMA PublishStep ==
    ASSUME FeedIInv, NEW i \in FeedSlots, SyncUser(i) \/ UpsertPost(i),
           UNCHANGED feedGhosts
    PROVE  FeedIInv'
<1>1. PICK c : c = feedCalls[i]
  OBVIOUS
<1>2. /\ c.op = "publish" /\ c.at \in {"read", "write"}
      /\ objects' = objects /\ minted' = minted /\ classA' = classA
      /\ votes' = votes /\ reactions' = reactions /\ friends' = friends
      /\ asked' = asked
      /\ \/ post' = [post EXCEPT !.private = c.flag] /\ FeedGo(i, "write")
         \/ post' = [post EXCEPT !.exists = TRUE] /\ FeedEnd(i)
  BY <1>1 DEF SyncUser, UpsertPost, FeedAt
<1>3. c \in FeedCalls /\ FeedCallFits(c) /\ c.flag \in BOOLEAN
  BY <1>1, <1>2, CallOf, FeedCallShape
<1>4. FeedTypeOK' /\ post'.key = post.key /\ (post.exists => post'.exists)
  BY <1>2, <1>3, GhostsSame DEF FeedIInv, FeedTypeOK
<1>5. PICK d \in {NoFeedCall} \cup FeedCalls :
          /\ Goes(i, c, d) /\ (d # NoFeedCall => FeedMoved(c, d, "write"))
  BY <1>1, <1>2, <1>3, FeedGoes, FeedEnds DEF FeedPlaces
<1>6. d # NoFeedCall => FeedCallFits(d) /\ d.key = c.key /\ d.made = c.made
  BY <1>2, <1>3, <1>5 DEF FeedMoved, FeedCallFits, ImageOps
<1>7. ~Spends(d) /\ ~(d.op = "vote" /\ d.at = "insert")
  BY <1>5, NoFeedCallShape DEF Spends, FeedMoved
<1>8. /\ FeedCallsOK' /\ FeedCallsFit' /\ OneCallEach' /\ BudgetInOrder'
      /\ ImagesInOrder'
  BY <1>2, <1>4, <1>5, <1>6, <1>7, PlainStep DEF ImageOps
<1>9. VotesInOrder' /\ AskedInOrder'
  BY <1>2, <1>5, <1>7, VotesSame, AskedSame, GhostsSame
<1> QED
  BY <1>4, <1>8, <1>9 DEF FeedIInv

LEMMA ClearVotesStep ==
    ASSUME FeedIInv, NEW i \in FeedSlots, ClearVotes(i), UNCHANGED feedGhosts
    PROVE  FeedIInv'
<1>1. PICK c : c = feedCalls[i]
  OBVIOUS
<1>2. /\ c.op = "vote" /\ c.at = "clear" /\ FeedGo(i, "insert")
      /\ votes' = {v \in votes : v[1] # c.user}
      /\ post' = post /\ objects' = objects /\ minted' = minted /\ classA' = classA
      /\ reactions' = reactions /\ friends' = friends /\ asked' = asked
  BY <1>1 DEF ClearVotes, FeedAt
<1>3. c \in FeedCalls /\ FeedCallFits(c)
  BY <1>1, <1>2, CallOf
<1>4. FeedTypeOK' /\ votes' \subseteq votes
  BY <1>2, GhostsSame DEF FeedIInv, FeedTypeOK
<1>5. PICK d \in FeedCalls : Goes(i, c, d) /\ FeedMoved(c, d, "insert")
  BY <1>1, <1>2, <1>3, FeedGoes DEF FeedPlaces
<1>6. FeedCallFits(d) /\ d.key = c.key /\ d.made = c.made /\ ~Spends(d)
  BY <1>2, <1>3, <1>5 DEF FeedMoved, FeedCallFits, ImageOps, Spends
<1>7. /\ FeedCallsOK' /\ FeedCallsFit' /\ OneCallEach' /\ BudgetInOrder'
      /\ ImagesInOrder'
  BY <1>2, <1>5, <1>6, PlainStep DEF ImageOps
<1>8. VotesInOrder'
  <2>1. /\ feedCalls'[i] = d /\ FeedBusy' = FeedBusy /\ crossed' = crossed
        /\ \A j \in FeedSlots \ {i} : feedCalls'[j] = feedCalls[j]
        /\ FeedBusy \subseteq FeedSlots
    BY <1>5, GoesOn, NoFeedCallShape DEF FeedBusy, feedGhosts
  <2>2. \A o \in Options : <<c.user, o>> \notin votes'
    BY <1>2
  <2>3. ASSUME NEW u \in Persons \ crossed, NEW j \in FeedBusy,
               FeedAt(j, "vote", "insert")', feedCalls'[j].user = u
        PROVE  \A o \in Options : <<u, o>> \notin votes'
    <3>1. CASE j = i
      BY <1>5, <2>1, <2>2, <2>3, <3>1 DEF FeedMoved
    <3>2. CASE j # i
      BY <1>4, <2>1, <2>3, <3>2 DEF FeedIInv, VotesInOrder, FeedAt
    <3> QED
      BY <3>1, <3>2
  <2>4. \A u \in Persons \ crossed : \A o, p \in Options :
            <<u, o>> \in votes' /\ <<u, p>> \in votes' => o = p
    BY <1>4 DEF FeedIInv, VotesInOrder
  <2> QED
    BY <2>1, <2>3, <2>4 DEF VotesInOrder
<1>9. AskedInOrder'
  BY <1>2, AskedSame, GhostsSame
<1> QED
  BY <1>4, <1>7, <1>8, <1>9 DEF FeedIInv

LEMMA WriteChoiceStep ==
    ASSUME FeedIInv, NEW i \in FeedSlots, WriteChoice(i), UNCHANGED feedGhosts
    PROVE  FeedIInv'
<1>1. PICK c : c = feedCalls[i]
  OBVIOUS
<1> DEFINE Written(rows) ==
            IF c.at = "delete" THEN rows \ {<<c.user, c.choice>>}
            ELSE IF post.exists THEN rows \cup {<<c.user, c.choice>>} ELSE rows
<1>2. /\ c.op \in {"vote", "react"} /\ c.at \in {"delete", "insert"} /\ FeedEnd(i)
      /\ IF c.op = "vote" THEN votes' = Written(votes) /\ reactions' = reactions
                          ELSE reactions' = Written(reactions) /\ votes' = votes
      /\ post' = post /\ objects' = objects /\ minted' = minted /\ classA' = classA
      /\ friends' = friends /\ asked' = asked
  BY <1>1 DEF WriteChoice
<1>3. c \in FeedCalls /\ FeedCallFits(c) /\ i \in FeedBusy
  BY <1>1, <1>2, CallOf
<1>4. FeedTypeOK'
  <2>1. votes' \subseteq Persons \X Options /\ reactions' \subseteq Persons \X Emoji
    BY <1>2, <1>3 DEF FeedIInv, FeedTypeOK, FeedCallFits
  <2> QED
    BY <1>2, <2>1, GhostsSame DEF FeedIInv, FeedTypeOK
<1>5. Goes(i, c, NoFeedCall)
  BY <1>1, <1>2, <1>3, FeedEnds
<1>6. ~Spends(NoFeedCall) /\ ~(NoFeedCall.op = "vote")
  BY NoFeedCallShape DEF Spends
<1>7. /\ FeedCallsOK' /\ FeedCallsFit' /\ OneCallEach' /\ BudgetInOrder'
      /\ ImagesInOrder'
  BY <1>2, <1>5, <1>6, PlainStep DEF ImageOps
<1>8. VotesInOrder'
  <2>1. CASE votes' \subseteq votes
    BY <1>5, <1>6, <2>1, VotesSame, GhostsSame
  <2>2. CASE ~(votes' \subseteq votes)
    <3>1. c.op = "vote" /\ c.at = "insert" /\ votes' = votes \cup {<<c.user, c.choice>>}
      BY <1>2, <2>2
    <3>2. /\ FeedBusy' = FeedBusy \ {i} /\ crossed' = crossed
          /\ \A j \in FeedSlots \ {i} : feedCalls'[j] = feedCalls[j]
          /\ FeedBusy \subseteq FeedSlots
      BY <1>5, GoesOn DEF FeedBusy, feedGhosts
    <3>3. ASSUME NEW u \in Persons \ crossed, u = c.user
          PROVE  /\ \A o \in Options : <<u, o>> \notin votes
                 /\ \A j \in FeedBusy \ {i} : feedCalls[j].user # u
      BY <1>1, <1>3, <3>1, <3>3 DEF FeedIInv, VotesInOrder, FeedAt, OneCallEach
    <3>4. ASSUME NEW u \in Persons \ crossed
          PROVE  /\ \A o, p \in Options :
                        <<u, o>> \in votes' /\ <<u, p>> \in votes' => o = p
                 /\ \A j \in FeedBusy' :
                        FeedAt(j, "vote", "insert")' /\ feedCalls'[j].user = u =>
                            \A o \in Options : <<u, o>> \notin votes'
      <4>1. CASE u = c.user
        BY <3>1, <3>2, <3>3, <4>1
      <4>2. CASE u # c.user
        <5>1. \A o \in Options : <<u, o>> \in votes' <=> <<u, o>> \in votes
          BY <3>1, <4>2
        <5>2. \A j \in FeedBusy' : j \in FeedBusy /\ feedCalls'[j] = feedCalls[j]
          BY <3>2
        <5> QED
          BY <5>1, <5>2 DEF FeedIInv, VotesInOrder, FeedAt
      <4> QED
        BY <4>1, <4>2
    <3> QED
      BY <3>2, <3>4 DEF VotesInOrder
  <2> QED
    BY <2>1, <2>2
<1>9. AskedInOrder'
  BY <1>2, AskedSame, GhostsSame
<1> QED
  BY <1>4, <1>7, <1>8, <1>9 DEF FeedIInv

LEMMA FriendStep ==
    ASSUME FeedIInv, NEW i \in FeedSlots, UNCHANGED feedGhosts,
           AskAccepts(i) \/ AskPends(i) \/ RespondWrites(i) \/ RespondBefriends(i)
    PROVE  FeedIInv'
<1>1. PICK c : c = feedCalls[i]
  OBVIOUS
<1>2. /\ c.op \in {"ask", "respond"} /\ c.at \in {"accept", "write", "befriend"}
      /\ post' = post /\ objects' = objects /\ minted' = minted /\ classA' = classA
      /\ votes' = votes /\ reactions' = reactions
      /\ FeedEnd(i) \/ (FeedGo(i, "befriend") /\ c.op = "respond" /\ c.at = "write" /\ c.flag)
  BY <1>1 DEF AskAccepts, AskPends, RespondWrites, RespondBefriends, FeedAt
<1>3. /\ c \in FeedCalls /\ FeedCallFits(c) /\ c.user \in Persons
      /\ Other(c.user) \in Persons /\ Persons = {c.user, Other(c.user)}
  BY <1>1, <1>2, CallOf, TwoPersons DEF FeedCallFits
<1>4. PICK d \in {NoFeedCall} \cup FeedCalls :
          /\ Goes(i, c, d)
          /\ d # NoFeedCall => FeedMoved(c, d, "befriend") /\ c.op = "respond"
                               /\ c.at = "write" /\ c.flag
  BY <1>1, <1>2, <1>3, FeedGoes, FeedEnds DEF FeedPlaces
<1>5. d # NoFeedCall => FeedCallFits(d) /\ d.key = c.key /\ d.made = c.made
  BY <1>2, <1>3, <1>4 DEF FeedMoved, FeedCallFits, ImageOps
<1>6. ~Spends(d) /\ ~(d.op = "vote" /\ d.at = "insert")
  BY <1>4, NoFeedCallShape DEF Spends, FeedMoved
<1>7. /\ FeedCallsOK' /\ FeedCallsFit' /\ OneCallEach' /\ BudgetInOrder'
      /\ ImagesInOrder'
  BY <1>2, <1>4, <1>5, <1>6, PlainStep DEF ImageOps
<1>8. VotesInOrder'
  BY <1>2, <1>4, <1>6, VotesSame, GhostsSame
<1>9. FeedTypeOK' /\ AskedInOrder'
  <2>1. /\ consenting \subseteq Persons
        /\ \A u \in Persons : asked[u] # "none" => u \in consenting
        /\ friends => consenting = Persons
        /\ consenting' = consenting
        /\ asked \in [Persons -> {"none", "pending", "accepted", "declined"}]
        /\ friends \in BOOLEAN
    BY DEF FeedIInv, AskedInOrder, ConsentedFriends, FeedTypeOK, feedGhosts
  <2>2. PICK u \in consenting, status \in {"pending", "accepted", "declined"} :
            asked' = [asked EXCEPT ![u] = status] \/ asked' = asked
    <3>1. CASE AskAccepts(i)
      BY <1>1, <1>3, <3>1 DEF AskAccepts, FeedAt, FeedCallFits
    <3>2. CASE AskPends(i)
      BY <1>1, <1>3, <3>2 DEF AskPends, FeedAt, FeedCallFits
    <3>3. CASE RespondWrites(i)
      BY <1>1, <1>3, <3>3 DEF RespondWrites, FeedAt, FeedCallFits
    <3>4. CASE RespondBefriends(i)
      BY <1>1, <1>3, <3>4 DEF RespondBefriends, FeedAt, FeedCallFits
    <3> QED
      BY <3>1, <3>2, <3>3, <3>4
  <2>3. friends' = friends \/ (friends' = TRUE /\ consenting = Persons)
    <3>1. CASE AskAccepts(i)
      <4>1. c.user \in consenting /\ Other(c.user) \in consenting /\ friends' = TRUE
        BY <1>1, <1>3, <3>1 DEF AskAccepts, FeedAt, FeedCallFits
      <4> QED
        BY <1>3, <2>1, <4>1
    <3>2. CASE RespondBefriends(i)
      <4>1. c.user \in consenting /\ Other(c.user) \in consenting /\ friends' = TRUE
        BY <1>1, <1>3, <3>2 DEF RespondBefriends, FeedAt, FeedCallFits
      <4> QED
        BY <1>3, <2>1, <4>1
    <3>3. CASE AskPends(i) \/ RespondWrites(i)
      BY <3>3 DEF AskPends, RespondWrites
    <3> QED
      BY <3>1, <3>2, <3>3
  <2>4. /\ asked' \in [Persons -> {"none", "pending", "accepted", "declined"}]
        /\ \A v \in Persons : asked'[v] # "none" => v \in consenting
    BY <2>1, <2>2
  <2>5. FeedTypeOK'
    BY <1>2, <2>1, <2>3, <2>4, GhostsSame DEF FeedIInv, FeedTypeOK
  <2> QED
    BY <2>1, <2>3, <2>4, <2>5 DEF AskedInOrder, ConsentedFriends
<1> QED
  BY <1>7, <1>8, <1>9 DEF FeedIInv
----------------------------------------------------------------------------
(* The steps on the image.                                                 *)

LEMMA ImagesBefore ==
    ASSUME FeedIInv, NEW i, NEW c, NEW d, Goes(i, c, d), Quiet
    PROVE  /\ \A j \in FeedBusy : OwnsThePost(feedCalls[j])
           /\ OwnsThePost(c)
           /\ \A n \in 1..minted : Holds(c, n) \/ UploadedByOthers(i, n) =>
                  post.key # n /\ \A j \in FeedBusy : feedCalls[j].key # n
           /\ \A n \in 1..minted :
                  n \in Stored <=> /\ n = post.key \/ Holds(c, n) \/ UploadedByOthers(i, n)
                                   /\ ~Drops(c, n) /\ ~DroppedByOthers(i, n)
           /\ c.op \in ImageOps =>
                  /\ \A n : ~UploadedByOthers(i, n)
                  /\ \A j \in FeedBusy \ {i} : feedCalls[j].op \notin ImageOps
<1>1. i \in FeedBusy /\ c = feedCalls[i]
  BY GoesOn DEF Goes
<1>2. \A n : /\ Dropped(n) <=> Drops(c, n) \/ DroppedByOthers(i, n)
             /\ Uploaded(n) <=> Holds(c, n) \/ UploadedByOthers(i, n)
  BY ImagesOfCalls
<1>3. ASSUME c.op \in ImageOps
      PROVE  /\ \A n : ~UploadedByOthers(i, n)
             /\ \A j \in FeedBusy \ {i} : feedCalls[j].op \notin ImageOps
  <2>1. Author \in Persons \ crossed
    BY TwoPersons DEF Quiet
  <2>2. \A j \in FeedBusy : feedCalls[j].op \in ImageOps => feedCalls[j].user = Author
    BY DEF FeedIInv, FeedCallsFit, FeedCallFits
  <2>3. \A j \in FeedBusy \ {i} : feedCalls[j].op \notin ImageOps
    BY <1>1, <1>3, <2>1, <2>2 DEF FeedIInv, OneCallEach
  <2>4. \A j \in FeedSlots : feedCalls[j].op = "upload" => j \in FeedBusy
    BY BusyFeedCall DEF FeedIInv
  <2>5. \A n : ~UploadedByOthers(i, n)
    BY <2>3, <2>4 DEF UploadedByOthers, Holds, ImageOps
  <2> QED
    BY <2>3, <2>5
<1>4. /\ \A j \in FeedBusy : OwnsThePost(feedCalls[j])
      /\ \A n \in 1..minted : Uploaded(n) =>
              /\ post.key # n
              /\ \A j \in FeedBusy : feedCalls[j].key # n
      /\ \A n \in 1..minted :
              n \in Stored <=> (n = post.key \/ Uploaded(n)) /\ ~Dropped(n)
  BY DEF FeedIInv, ImagesInOrder
<1> QED
  BY <1>1, <1>2, <1>3, <1>4

LEMMA ImagesAfter ==
    ASSUME FeedIInv, NEW i, NEW c, NEW d, Goes(i, c, d), UNCHANGED <<consenting, crossed>>,
           d # NoFeedCall /\ Quiet => OwnsThePost(d)',
           Quiet => \A j \in FeedBusy \ {i} :
               feedCalls[j].op \in ImageOps /\ feedCalls[j].at # "read" =>
                   post'.exists /\ (post'.key = feedCalls[j].key \/ post'.key = 0),
           Quiet => \A n \in 1..minted' : Holds(d, n) \/ UploadedByOthers(i, n) =>
                        /\ post'.key # n /\ (d # NoFeedCall => d.key # n)
                        /\ \A j \in FeedBusy \ {i} : feedCalls[j].key # n,
           Quiet => \A n \in 1..minted' :
               n \in Stored' <=> /\ n = post'.key \/ Holds(d, n) \/ UploadedByOthers(i, n)
                                 /\ ~Drops(d, n) /\ ~DroppedByOthers(i, n)
    PROVE  ImagesInOrder'
<1> SUFFICES ASSUME Quiet
             PROVE  /\ \A j \in FeedBusy' : OwnsThePost(feedCalls[j])'
                    /\ \A n \in 1..minted' : Uploaded(n)' =>
                          /\ post'.key # n
                          /\ \A j \in FeedBusy' : feedCalls'[j].key # n
                    /\ \A n \in 1..minted' :
                          n \in Stored' <=> (n = post'.key \/ Uploaded(n)') /\ ~Dropped(n)'
  BY DEF ImagesInOrder, Quiet
<1>1. /\ feedCalls'[i] = d /\ FeedBusy' \subseteq FeedBusy
      /\ \A j \in FeedSlots \ {i} : feedCalls'[j] = feedCalls[j]
      /\ FeedBusy \subseteq FeedSlots
      /\ i \in FeedBusy' => d # NoFeedCall
  BY GoesOn DEF FeedBusy
<1>2. \A n : /\ Dropped(n)' <=> Drops(d, n) \/ DroppedByOthers(i, n)
             /\ Uploaded(n)' <=> Holds(d, n) \/ UploadedByOthers(i, n)
  BY ImagesOfCalls
<1>3. ASSUME NEW j \in FeedBusy'
      PROVE  OwnsThePost(feedCalls[j])'
  <2>1. CASE j = i
    BY <1>1, <1>3, <2>1 DEF OwnsThePost
  <2>2. CASE j # i
    BY <1>1, <2>2 DEF OwnsThePost
  <2> QED
    BY <2>1, <2>2
<1>4. ASSUME NEW n \in 1..minted', Uploaded(n)'
      PROVE  post'.key # n /\ \A j \in FeedBusy' : feedCalls'[j].key # n
  BY <1>1, <1>2, <1>4
<1> QED
  BY <1>2, <1>3, <1>4

LEMMA PutImageStep ==
    ASSUME FeedIInv, NEW i \in FeedSlots, PutImage(i), UNCHANGED feedGhosts
    PROVE  FeedIInv'
<1>1. PICK c : c = feedCalls[i]
  OBVIOUS
<1>2. /\ c.op = "upload" /\ c.at = "put" /\ minted' = minted + 1
      /\ objects' = objects \cup {minted'}
      /\ feedCalls' = [feedCalls EXCEPT ![i].made = minted', ![i].at = "drop"]
      /\ post' = post /\ classA' = classA /\ votes' = votes
      /\ reactions' = reactions /\ friends' = friends /\ asked' = asked
  BY <1>1 DEF PutImage, FeedAt
<1>3. /\ c \in FeedCalls /\ FeedCallFits(c) /\ c.key \in 0..minted
      /\ minted \in Nat /\ post.key \in 0..minted /\ objects \subseteq 1..minted
      /\ classA \in Nat /\ left \subseteq 1..minted
      /\ Stored' = Stored \cup {minted + 1}
  <2>1. /\ c \in FeedCalls /\ FeedCallFits(c) /\ c.key \in 0..minted
        /\ minted \in Nat /\ post.key \in 0..minted /\ objects \subseteq 1..minted
        /\ classA \in Nat /\ left \subseteq 1..minted
    BY <1>1, <1>2, CallOf, FeedTypes
  <2>2. minted + 1 \notin left
    BY <2>1
  <2> QED  BY <1>2, <2>1, <2>2, GhostsSame DEF Stored
<1>4. PICK d : d = [c EXCEPT !.made = minted + 1, !.at = "drop"]
  OBVIOUS
<1>5. /\ d \in FeedCalls /\ d.op = c.op /\ d.user = c.user /\ d.key = c.key
      /\ d.made = minted + 1 /\ d.at = "drop" /\ d.cost = c.cost
      /\ d.flag = c.flag /\ d.choice = c.choice
  <2>1. minted + 1 \in Nat /\ "drop" \in FeedPlaces
    BY <1>3 DEF FeedPlaces
  <2> QED
    BY ONLY <1>3, <1>4, <2>1 DEF FeedCalls
<1>6. Goes(i, c, d)
  BY <1>1, <1>2, <1>3, <1>4, <1>5 DEF Goes, FeedCalls
<1>7. FeedCallFits(d)
  BY <1>2, <1>3, <1>5 DEF FeedCallFits, ImageOps
<1>8. FeedTypeOK'
  BY <1>2, <1>3, GhostsSame DEF FeedIInv, FeedTypeOK
<1>9. FeedCallsOK' /\ FeedCallsFit' /\ OneCallEach'
  <2>1. d.key <= minted' /\ d.made <= minted' /\ minted <= minted' /\ minted' \in Nat
    BY <1>2, <1>3, <1>5
  <2> QED
    BY <1>6, <1>7, <2>1, CallMoves, GhostsSame
<1>10. BudgetInOrder'
  <2>1. Weight(d) = Weight(c) /\ Weight(c) \in {0, 1, 2}
    BY <1>2, <1>3, <1>5, Weights DEF Weight, Spends, SpendsTwo
  <2> QED
    BY <1>2, <1>3, <1>6, <2>1, BudgetMoves, GhostsSame
<1>11. VotesInOrder' /\ AskedInOrder'
  BY <1>2, <1>5, <1>6, VotesSame, AskedSame, GhostsSame
<1>12. ImagesInOrder'
  <2>1. Quiet =>
           /\ \A j \in FeedBusy : OwnsThePost(feedCalls[j])
           /\ OwnsThePost(c)
           /\ \A n \in 1..minted :
                  n \in Stored <=> /\ n = post.key \/ Holds(c, n) \/ UploadedByOthers(i, n)
                                   /\ ~Drops(c, n) /\ ~DroppedByOthers(i, n)
           /\ \A n : ~UploadedByOthers(i, n)
    BY <1>2, <1>6, ImagesBefore DEF ImageOps
  <2>2. \A j \in FeedBusy : feedCalls[j].key \in 0..minted
    BY CallOf DEF FeedBusy
  <2>3. ~DroppedByOthers(i, minted + 1)
    <3>1. \A j \in FeedSlots : feedCalls[j].op \in ImageOps \cup {"expire"} => j \in FeedBusy
      BY BusyFeedCall DEF FeedIInv, ImageOps
    <3> QED
      BY <1>3, <2>2, <3>1 DEF DroppedByOthers, Drops
  <2>4. /\ \A n : Holds(d, n) <=> n = minted + 1
        /\ \A n : ~Holds(c, n) /\ ~Drops(c, n) /\ ~Drops(d, n)
    BY <1>2, <1>5 DEF Holds, Drops
  <2>5. Quiet => OwnsThePost(d)'
    BY <1>2, <1>5, <2>1 DEF OwnsThePost
  <2>6. Quiet => \A j \in FeedBusy \ {i} :
            feedCalls[j].op \in ImageOps /\ feedCalls[j].at # "read" =>
                post'.exists /\ (post'.key = feedCalls[j].key \/ post'.key = 0)
    BY <1>2, <2>1 DEF OwnsThePost
  <2>7. Quiet => \A n \in 1..minted' : Holds(d, n) \/ UploadedByOthers(i, n) =>
            /\ post'.key # n /\ d.key # n
            /\ \A j \in FeedBusy \ {i} : feedCalls[j].key # n
    BY <1>2, <1>3, <1>5, <2>1, <2>2, <2>4
  <2>8. Quiet => \A n \in 1..minted' :
            n \in Stored' <=> /\ n = post'.key \/ Holds(d, n) \/ UploadedByOthers(i, n)
                              /\ ~Drops(d, n) /\ ~DroppedByOthers(i, n)
    <3> SUFFICES ASSUME Quiet, NEW n \in 1..minted'
                 PROVE  n \in Stored' <=>
                            /\ n = post'.key \/ Holds(d, n) \/ UploadedByOthers(i, n)
                            /\ ~Drops(d, n) /\ ~DroppedByOthers(i, n)
      OBVIOUS
    <3>1. CASE n = minted + 1
      BY <1>2, <1>3, <2>3, <2>4, <3>1
    <3>2. CASE n # minted + 1
      <4>1. n \in 1..minted
        BY <1>2, <1>3, <3>2
      <4> QED
        BY <1>2, <1>3, <2>1, <2>4, <3>2, <4>1
    <3> QED
      BY <3>1, <3>2
  <2> QED
    BY <1>6, <2>5, <2>6, <2>7, <2>8, ImagesAfter, GhostsSame
<1> QED
  BY <1>8, <1>9, <1>10, <1>11, <1>12 DEF FeedIInv

(* The image is gone, or left behind and no longer asked for.              *)
LEMMA DropStep ==
    ASSUME FeedIInv, NEW i \in FeedSlots, NEW c, c = feedCalls[i],
           c.op \in ImageOps \cup {"expire"}, c.at = "drop", FeedGo(i, "count"),
           Stored' = Stored \ {c.key}, FeedTypeOK',
           UNCHANGED <<post, minted, classA, votes, reactions, friends, asked>>,
           UNCHANGED <<unchecked, consenting, crossed>>
    PROVE  FeedIInv'
<1>1. /\ post' = post /\ minted' = minted /\ classA' = classA /\ votes' = votes
      /\ reactions' = reactions /\ friends' = friends /\ asked' = asked
      /\ unchecked' = unchecked
  OBVIOUS
<1>2. /\ c \in FeedCalls /\ FeedCallFits(c) /\ c.key \in 0..minted /\ c.made \in 0..minted
      /\ minted \in Nat /\ classA \in Nat
  BY CallOf, FeedTypes DEF ImageOps
<1>3. PICK d \in FeedCalls : Goes(i, c, d) /\ FeedMoved(c, d, "count")
  BY <1>2, FeedGoes DEF FeedPlaces
<1>4. /\ d.op = c.op /\ d.user = c.user /\ d.key = c.key /\ d.made = c.made
      /\ d.at = "count" /\ d.cost = c.cost /\ d.flag = c.flag /\ d.choice = c.choice
  BY <1>3 DEF FeedMoved
<1>5. FeedCallFits(d)
  BY <1>2, <1>4 DEF FeedCallFits
<1>6. FeedCallsOK' /\ FeedCallsFit' /\ OneCallEach'
  <2>1. d.key <= minted' /\ d.made <= minted' /\ minted <= minted' /\ minted' \in Nat
    BY <1>1, <1>2, <1>4
  <2> QED
    BY <1>3, <1>5, <2>1, CallMoves
<1>7. BudgetInOrder'
  <2>1. Weight(d) = Weight(c) /\ Weight(c) \in {0, 1, 2}
    BY <1>2, <1>4, Weights DEF Weight, Spends, SpendsTwo
  <2> QED
    BY <1>1, <1>2, <1>3, <2>1, BudgetMoves
<1>8. VotesInOrder' /\ AskedInOrder'
  BY <1>1, <1>3, <1>4, VotesSame, AskedSame
<1>9. ImagesInOrder'
  <2>1. Quiet =>
           /\ \A j \in FeedBusy : OwnsThePost(feedCalls[j])
           /\ OwnsThePost(c)
           /\ \A n \in 1..minted : Holds(c, n) \/ UploadedByOthers(i, n) =>
                  post.key # n /\ \A j \in FeedBusy : feedCalls[j].key # n
           /\ \A n \in 1..minted :
                  n \in Stored <=> /\ n = post.key \/ Holds(c, n) \/ UploadedByOthers(i, n)
                                   /\ ~Drops(c, n) /\ ~DroppedByOthers(i, n)
    BY <1>3, ImagesBefore
  <2>2. \A n : /\ Holds(d, n) <=> Holds(c, n)
               /\ ~Drops(c, n) /\ (Drops(d, n) <=> n = c.key)
    BY <1>4 DEF Holds, Drops
  <2>3. Quiet => OwnsThePost(d)'
    BY <1>1, <1>4, <2>1 DEF OwnsThePost
  <2>4. Quiet => \A j \in FeedBusy \ {i} :
            feedCalls[j].op \in ImageOps /\ feedCalls[j].at # "read" =>
                post'.exists /\ (post'.key = feedCalls[j].key \/ post'.key = 0)
    BY <1>1, <2>1 DEF OwnsThePost
  <2>5. c = feedCalls[i] /\ i \in FeedBusy
    BY <1>3, GoesOn DEF Goes
  <2>6. Quiet => \A n \in 1..minted' : Holds(d, n) \/ UploadedByOthers(i, n) =>
            /\ post'.key # n /\ d.key # n
            /\ \A j \in FeedBusy \ {i} : feedCalls[j].key # n
    BY <1>1, <1>4, <2>1, <2>2, <2>5
  <2>7. Quiet => \A n \in 1..minted' :
            n \in Stored' <=> /\ n = post'.key \/ Holds(d, n) \/ UploadedByOthers(i, n)
                              /\ ~Drops(d, n) /\ ~DroppedByOthers(i, n)
    BY <1>1, <2>1, <2>2
  <2> QED
    BY <1>3, <2>3, <2>4, <2>6, <2>7, ImagesAfter
<1> QED
  BY <1>6, <1>7, <1>8, <1>9 DEF FeedIInv

LEMMA DropImageStep ==
    ASSUME FeedIInv, NEW i \in FeedSlots, DropImage(i), UNCHANGED feedGhosts
    PROVE  FeedIInv'
<1>1. PICK c : c = feedCalls[i]
  OBVIOUS
<1>2. /\ c.op \in ImageOps \cup {"expire"} /\ c.at = "drop" /\ FeedGo(i, "count")
      /\ objects' = objects \ {c.key} /\ left' = left
      /\ UNCHANGED <<post, minted, classA, votes, reactions, friends, asked>>
      /\ UNCHANGED <<unchecked, consenting, crossed>>
  BY <1>1, GhostsSame DEF DropImage, ImageOps
<1>3. Stored' = Stored \ {c.key}
  BY <1>2 DEF Stored
<1>4. FeedTypeOK'
  BY <1>2 DEF FeedIInv, FeedTypeOK
<1> QED
  BY <1>1, <1>2, <1>3, <1>4, DropStep

LEMMA DropFailsStep ==
    ASSUME FeedIInv, NEW i \in FeedSlots, DropFails(i)
    PROVE  FeedIInv'
<1>1. PICK c : c = feedCalls[i]
  OBVIOUS
<1>2. /\ c.op \in ImageOps \cup {"expire"} /\ c.at = "drop" /\ FeedGo(i, "count")
      /\ objects' = objects /\ left' = left \cup {c.key} /\ c.key # 0
      /\ UNCHANGED <<post, minted, classA, votes, reactions, friends, asked>>
      /\ UNCHANGED <<unchecked, consenting, crossed>>
  BY <1>1 DEF DropFails, ImageOps, feedTables
<1>3. Stored' = Stored \ {c.key}
  BY <1>2 DEF Stored
<1>4. FeedTypeOK'
  <2>1. c.key \in 1..minted
    BY <1>1, <1>2, CallOf, FeedTypes DEF ImageOps
  <2> QED
    BY <1>2, <2>1 DEF FeedIInv, FeedTypeOK
<1> QED
  BY <1>1, <1>2, <1>3, <1>4, DropStep

LEMMA CountUsageStep ==
    ASSUME FeedIInv, NEW i \in FeedSlots, CountUsage(i), UNCHANGED feedGhosts
    PROVE  FeedIInv'
<1>1. PICK c : c = feedCalls[i]
  OBVIOUS
<1>2. /\ c.op \in ImageOps \cup {"expire"} /\ c.at = "count" /\ FeedGo(i, "write")
      /\ classA' = classA + c.cost
      /\ post' = post /\ objects' = objects /\ minted' = minted /\ votes' = votes
      /\ reactions' = reactions /\ friends' = friends /\ asked' = asked
  BY <1>1 DEF CountUsage, ImageOps
<1>3. /\ c \in FeedCalls /\ FeedCallFits(c) /\ c.key \in 0..minted /\ c.made \in 0..minted
      /\ minted \in Nat /\ classA \in Nat /\ c.cost \in {1, 2}
  BY <1>1, <1>2, CallOf, FeedTypes, FeedCallShape DEF ImageOps, FeedCallFits
<1>5. PICK d \in FeedCalls : Goes(i, c, d) /\ FeedMoved(c, d, "write")
  BY <1>1, <1>2, <1>3, FeedGoes DEF FeedPlaces
<1>6. /\ d.op = c.op /\ d.user = c.user /\ d.key = c.key /\ d.made = c.made
      /\ d.at = "write" /\ d.cost = c.cost /\ d.flag = c.flag /\ d.choice = c.choice
  BY <1>5 DEF FeedMoved
<1>7. FeedCallFits(d)
  BY <1>2, <1>3, <1>6 DEF FeedCallFits, ImageOps
<1>8. FeedTypeOK' /\ classA' \in Nat
  <2>1. classA' \in Nat
    BY <1>2, <1>3
  <2> QED
    BY <1>2, <2>1, GhostsSame DEF FeedIInv, FeedTypeOK
<1>9. FeedCallsOK' /\ FeedCallsFit' /\ OneCallEach'
  <2>1. d.key <= minted' /\ d.made <= minted' /\ minted <= minted' /\ minted' \in Nat
    BY <1>2, <1>3, <1>6
  <2> QED
    BY <1>5, <1>7, <2>1, CallMoves, GhostsSame
<1>10. BudgetInOrder'
  <2>1. Weight(d) = 0 /\ Weight(c) = c.cost
    BY <1>2, <1>3, <1>6, Weights DEF Spends
  <2> QED
    BY <1>2, <1>3, <1>5, <1>8, <2>1, BudgetMoves, GhostsSame
<1>11. VotesInOrder' /\ AskedInOrder'
  BY <1>2, <1>5, <1>6, VotesSame, AskedSame, GhostsSame
<1>12. ImagesInOrder'
  <2>1. \A n : (Holds(d, n) <=> Holds(c, n)) /\ (Drops(d, n) <=> Drops(c, n))
    BY <1>2, <1>6 DEF Holds, Drops
  <2>2. Quiet => OwnsThePost(d)
    <3>1. Quiet => OwnsThePost(c)
      BY <1>5, ImagesBefore
    <3> QED
      BY <1>2, <1>6, <3>1 DEF OwnsThePost
  <2> QED
    BY <1>2, <1>5, <1>6, <2>1, <2>2, ImagesSame, GhostsSame
<1> QED
  BY <1>8, <1>9, <1>10, <1>11, <1>12 DEF FeedIInv

(* Who spends elsewhere reads, checks and counts, and stores nothing here. *)
LEMMA SpendElsewhereStep ==
    ASSUME FeedIInv, NEW i \in FeedSlots, SpendElsewhere(i), UNCHANGED feedGhosts
    PROVE  FeedIInv'
<1>1. PICK c : c = feedCalls[i]
  OBVIOUS
<1>2. PICK cost \in 1..2 : FeedNote(i, 0, cost, "budget")
  BY DEF SpendElsewhere
<1>3. c.op = "elsewhere" /\ c.at = "read" /\ UNCHANGED feedTables
  BY <1>1 DEF SpendElsewhere, FeedAt
<1>4. c \in FeedCalls /\ FeedCallFits(c) /\ c.made <= minted
  BY <1>1, <1>3, CallOf, FeedTypes
<1>5. PICK d : d = [c EXCEPT !.key = 0, !.cost = cost, !.at = "budget"]
  OBVIOUS
<1>6. /\ d \in FeedCalls /\ d.op = c.op /\ d.user = c.user /\ d.key = 0
      /\ d.made = c.made /\ d.at = "budget" /\ d.cost = cost /\ d.flag = c.flag
      /\ d.choice = c.choice /\ d.key = c.key
  <2>1. cost \in {0, 1, 2} /\ c.key = 0
    BY <1>3, <1>4 DEF FeedCallFits
  <2> QED
    BY <1>4, <1>5, <2>1 DEF FeedCalls, FeedPlaces
<1>7. Goes(i, c, d)
  BY <1>1, <1>2, <1>4, <1>5, <1>6 DEF FeedNote, Goes, FeedCalls
<1>8. FeedCallFits(d) /\ OwnsThePost(d)
  BY <1>3, <1>4, <1>6 DEF FeedCallFits, OwnsThePost, ImageOps
<1>9. BudgetInOrder'
  <2>1. Weight(d) = 0 /\ Weight(c) \in {0, 1, 2}
    BY <1>4, <1>6, Weights DEF Spends
  <2>2. classA' = classA /\ classA \in Nat
    BY <1>3, FeedTypes DEF feedTables
  <2> QED
    BY <1>7, <2>1, <2>2, BudgetMoves, GhostsSame
<1> QED
  BY <1>3, <1>4, <1>6, <1>7, <1>8, <1>9, FeedReads DEF ImageOps

LEMMA CountElsewhereStep ==
    ASSUME FeedIInv, NEW i \in FeedSlots, CountElsewhere(i), UNCHANGED feedGhosts
    PROVE  FeedIInv'
<1>1. PICK c : c = feedCalls[i]
  OBVIOUS
<1>2. /\ c.op = "elsewhere" /\ c.at = "count" /\ FeedEnd(i) /\ classA' = classA + c.cost
      /\ post' = post /\ objects' = objects /\ minted' = minted /\ votes' = votes
      /\ reactions' = reactions /\ friends' = friends /\ asked' = asked
  BY <1>1 DEF CountElsewhere, FeedAt
<1>3. /\ c \in FeedCalls /\ FeedCallFits(c) /\ minted \in Nat /\ classA \in Nat
      /\ c.cost \in {1, 2}
  BY <1>1, <1>2, CallOf, FeedTypes, FeedCallShape DEF FeedCallFits
<1>4. Goes(i, c, NoFeedCall)
  BY <1>1, <1>2, <1>3, FeedEnds
<1>5. FeedTypeOK' /\ classA' \in Nat
  <2>1. classA' \in Nat
    BY <1>2, <1>3
  <2> QED
    BY <1>2, <2>1, GhostsSame DEF FeedIInv, FeedTypeOK
<1>6. FeedCallsOK' /\ FeedCallsFit' /\ OneCallEach'
  BY <1>2, <1>3, <1>4, CallMoves, GhostsSame
<1>7. BudgetInOrder'
  <2>1. Weight(NoFeedCall) = 0 /\ Weight(c) = c.cost
    BY <1>2, <1>3, Weights, NoFeedCallShape DEF Spends
  <2> QED
    BY <1>2, <1>3, <1>4, <1>5, <2>1, BudgetMoves, GhostsSame
<1>8. VotesInOrder' /\ AskedInOrder'
  BY <1>2, <1>4, VotesSame, AskedSame, NoFeedCallShape, GhostsSame
<1>9. ImagesInOrder'
  <2>1. \A n : /\ ~Holds(NoFeedCall, n) /\ ~Holds(c, n)
               /\ ~Drops(NoFeedCall, n) /\ ~Drops(c, n)
    BY <1>2, NoFeedCallShape DEF Holds, Drops, ImageOps
  <2> QED
    BY <1>2, <1>4, <2>1, ImagesSame, GhostsSame
<1> QED
  BY <1>5, <1>6, <1>7, <1>8, <1>9 DEF FeedIInv

(* What nobody checks is on top of what the calls may need.                *)
LEMMA PurgeDrawingStep ==
    ASSUME FeedIInv, NEW i \in FeedSlots, PurgeDrawing(i)
    PROVE  FeedIInv'
<1>1. /\ classA' = classA + 1 /\ unchecked' = unchecked + 1 /\ left' = left
      /\ post' = post /\ objects' = objects /\ minted' = minted /\ votes' = votes
      /\ reactions' = reactions /\ friends' = friends /\ asked' = asked
      /\ feedCalls' = feedCalls /\ consenting' = consenting /\ crossed' = crossed
  BY DEF PurgeDrawing
<1>2. FeedTypeOK' /\ FeedBusy' = FeedBusy
  BY <1>1 DEF FeedIInv, FeedTypeOK, FeedBusy
<1>3. FeedCallsOK' /\ FeedCallsFit' /\ OneCallEach'
  BY <1>1, <1>2 DEF FeedIInv, FeedCallsOK, FeedCallsFit, FeedCallFits, OneCallEach
<1>4. BudgetInOrder'
  <2>1. Spending' = Spending /\ SpendingTwo' = SpendingTwo
    BY <1>1 DEF Spending, SpendingTwo, SpendsTwo, Spends
  <2>2. /\ Cardinality(Spending) \in Nat /\ Cardinality(SpendingTwo) \in Nat
        /\ Cardinality(FeedSlots) \in Nat /\ ImageLimit \in Nat
        /\ classA \in Nat /\ unchecked \in Nat
    BY FeedSlotsCounted, FeedTypes DEF Spending, SpendingTwo
  <2>3. classA + Cardinality(Spending) + Cardinality(SpendingTwo)
            <= ImageLimit + 2 * (Cardinality(FeedSlots) - 1) + unchecked
    BY DEF FeedIInv, BudgetInOrder
  <2>4. classA' + Cardinality(Spending) + Cardinality(SpendingTwo)
            <= ImageLimit + 2 * (Cardinality(FeedSlots) - 1) + unchecked'
    BY <1>1, <2>2, <2>3
  <2> QED
    BY <2>1, <2>4 DEF BudgetInOrder
<1>5. VotesInOrder' /\ AskedInOrder'
  BY <1>1, <1>2 DEF FeedIInv, VotesInOrder, FeedAt, AskedInOrder, ConsentedFriends
<1>6. ImagesInOrder'
  BY <1>1, <1>2
     DEF FeedIInv, ImagesInOrder, Quiet, OwnsThePost, Uploaded, Dropped, Holds, Drops, Stored
<1> QED
  BY <1>2, <1>3, <1>4, <1>5, <1>6 DEF FeedIInv

(* The row takes the image the call has put, or none.                      *)
LEMMA AuthorWrites ==
    ASSUME FeedIInv, NEW i, NEW c, Goes(i, c, NoFeedCall), UNCHANGED feedGhosts,
           c.op \in ImageOps, c.at = "write", objects' = objects, minted' = minted,
           Quiet /\ post.exists => post'.key = c.made
    PROVE  ImagesInOrder'
<1> DEFINE d == NoFeedCall
<1>1. /\ c.key \in 0..minted /\ c.made \in 0..minted /\ FeedCallFits(c)
      /\ i \in FeedBusy /\ c = feedCalls[i]
  BY CallOf, GoesOn DEF Goes, ImageOps
<1>2. Quiet =>
         /\ OwnsThePost(c)
         /\ \A n \in 1..minted : Holds(c, n) \/ UploadedByOthers(i, n) =>
                post.key # n /\ \A j \in FeedBusy : feedCalls[j].key # n
         /\ \A n \in 1..minted :
                n \in Stored <=> /\ n = post.key \/ Holds(c, n) \/ UploadedByOthers(i, n)
                                 /\ ~Drops(c, n) /\ ~DroppedByOthers(i, n)
         /\ \A n : ~UploadedByOthers(i, n)
         /\ \A j \in FeedBusy \ {i} : feedCalls[j].op \notin ImageOps
  BY ImagesBefore
<1>3. \A n \in 1..minted : /\ Drops(c, n) <=> n = c.key
                           /\ Holds(c, n) <=> n = c.made
                           /\ ~Drops(d, n) /\ ~Holds(d, n)
  BY <1>1, NoFeedCallShape DEF Drops, Holds, FeedCallFits, ImageOps
<1>4. Quiet => post'.key = c.made /\ (post.key = c.key \/ post.key = 0)
  BY <1>2 DEF OwnsThePost
<1>5. Quiet => \A n \in 1..minted' :
          n \in Stored' <=> /\ n = post'.key \/ Holds(d, n) \/ UploadedByOthers(i, n)
                            /\ ~Drops(d, n) /\ ~DroppedByOthers(i, n)
  <2> SUFFICES ASSUME Quiet, NEW n \in 1..minted
               PROVE  n \in Stored <=> n = c.made /\ ~DroppedByOthers(i, n)
    BY <1>2, <1>3, <1>4, GhostsSame
  <2>1. n = c.made => c.key # n
    BY <1>1, <1>2, <1>3
  <2>2. n = post.key => n = c.key
    BY <1>4
  <2>3. n \in Stored <=> /\ n = post.key \/ n = c.made
                         /\ n # c.key /\ ~DroppedByOthers(i, n)
    BY <1>2, <1>3
  <2> QED
    BY <2>1, <2>2, <2>3
<1>6. Quiet => \A n \in 1..minted' : Holds(d, n) \/ UploadedByOthers(i, n) =>
          /\ post'.key # n /\ (d # NoFeedCall => d.key # n)
          /\ \A j \in FeedBusy \ {i} : feedCalls[j].key # n
  BY <1>2, <1>3
<1> QED
  BY <1>2, <1>5, <1>6, ImagesAfter, GhostsSame

LEMMA AuthorWriteStep ==
    ASSUME FeedIInv, NEW i \in FeedSlots, StoreImage(i) \/ RemovePost(i),
           UNCHANGED feedGhosts
    PROVE  FeedIInv'
<1>1. PICK c : c = feedCalls[i]
  OBVIOUS
<1>2. /\ c.op \in ImageOps /\ c.at = "write" /\ FeedEnd(i)
      /\ \/ post' = IF post.exists
                    THEN [post EXCEPT !.key = c.made, !.aged = FALSE] ELSE post
         \/ c.op = "remove" /\ post' = [NoPost EXCEPT !.private = post.private]
      /\ votes' \subseteq votes /\ reactions' \subseteq reactions
      /\ objects' = objects /\ minted' = minted /\ classA' = classA
      /\ friends' = friends /\ asked' = asked
  BY <1>1 DEF StoreImage, RemovePost, FeedAt, ImageOps
<1>3. /\ c \in FeedCalls /\ FeedCallFits(c) /\ c.made \in 0..minted
      /\ minted \in Nat /\ classA \in Nat
  BY <1>1, <1>2, CallOf, FeedTypes DEF ImageOps
<1>4. FeedTypeOK' /\ (post.exists => post'.key = c.made)
  <2>1. c.op = "remove" => c.made = 0
    BY <1>3 DEF FeedCallFits
  <2>2. /\ post' \in [exists : BOOLEAN, private : BOOLEAN, key : 0..minted, aged : BOOLEAN]
        /\ post.exists => post'.key = c.made
    BY <1>2, <1>3, <2>1 DEF FeedIInv, FeedTypeOK, NoPost
  <2> QED
    BY <1>2, <2>2, GhostsSame DEF FeedIInv, FeedTypeOK
<1>5. Goes(i, c, NoFeedCall)
  BY <1>1, <1>2, <1>3, FeedEnds
<1>6. FeedCallsOK' /\ FeedCallsFit' /\ OneCallEach'
  BY <1>2, <1>3, <1>5, CallMoves, GhostsSame
<1>7. BudgetInOrder'
  <2>1. Weight(NoFeedCall) = 0 /\ Weight(c) \in {0, 1, 2}
    BY <1>3, Weights, NoFeedCallShape DEF Spends
  <2> QED
    BY <1>2, <1>3, <1>5, <2>1, BudgetMoves, GhostsSame
<1>8. VotesInOrder' /\ AskedInOrder'
  BY <1>2, <1>5, VotesSame, AskedSame, NoFeedCallShape, GhostsSame
<1>9. ImagesInOrder'
  BY <1>2, <1>4, <1>5, AuthorWrites, GhostsSame
<1> QED
  BY <1>4, <1>6, <1>7, <1>8, <1>9 DEF FeedIInv

LEMMA ExpireRowStep ==
    ASSUME FeedIInv, NEW i \in FeedSlots, ExpireRow(i), UNCHANGED feedGhosts
    PROVE  FeedIInv'
<1>1. PICK c : c = feedCalls[i]
  OBVIOUS
<1>2. /\ c.op = "expire" /\ c.at = "write" /\ FeedEnd(i)
      /\ post' = IF post.key = c.key THEN [post EXCEPT !.key = 0, !.aged = FALSE] ELSE post
      /\ votes' = votes /\ reactions' = reactions
      /\ objects' = objects /\ minted' = minted /\ classA' = classA
      /\ friends' = friends /\ asked' = asked
  BY <1>1 DEF ExpireRow, FeedAt, StillItsImage
<1>3. /\ c \in FeedCalls /\ FeedCallFits(c) /\ c.key \in 0..minted
      /\ minted \in Nat /\ classA \in Nat /\ i \in FeedBusy
  BY <1>1, <1>2, CallOf, FeedTypes
<1>4. /\ FeedTypeOK' /\ post'.exists = post.exists
      /\ post.key = c.key => post'.key = 0
      /\ post.key # c.key => post'.key = post.key
  <2>1. /\ post' \in [exists : BOOLEAN, private : BOOLEAN, key : 0..minted, aged : BOOLEAN]
        /\ post'.exists = post.exists
        /\ post.key = c.key => post'.key = 0
        /\ post.key # c.key => post'.key = post.key
    <3>1. post \in [exists : BOOLEAN, private : BOOLEAN, key : 0..minted, aged : BOOLEAN]
      BY DEF FeedIInv, FeedTypeOK
    <3>2. CASE post.key = c.key
      <4>1. post' = [post EXCEPT !.key = 0, !.aged = FALSE] /\ 0 \in 0..minted
        BY <1>2, <1>3, <3>2
      <4> QED
        BY <3>1, <3>2, <4>1
    <3>3. CASE post.key # c.key
      BY <1>2, <3>1, <3>3
    <3> QED
      BY <3>2, <3>3
  <2> QED
    BY <1>2, <2>1, GhostsSame DEF FeedIInv, FeedTypeOK
<1>5. Goes(i, c, NoFeedCall)
  BY <1>1, <1>2, <1>3, FeedEnds
<1>6. FeedCallsOK' /\ FeedCallsFit' /\ OneCallEach'
  BY <1>2, <1>3, <1>5, CallMoves, GhostsSame
<1>7. BudgetInOrder'
  <2>1. Weight(NoFeedCall) = 0 /\ Weight(c) \in {0, 1, 2}
    BY <1>3, Weights, NoFeedCallShape DEF Spends
  <2> QED
    BY <1>2, <1>3, <1>5, <2>1, BudgetMoves, GhostsSame
<1>8. VotesInOrder' /\ AskedInOrder'
  BY <1>2, <1>5, VotesSame, AskedSame, NoFeedCallShape, GhostsSame
<1>9. ImagesInOrder'
  <2> DEFINE d == NoFeedCall
  <2>1. Quiet =>
           /\ \A j \in FeedBusy : OwnsThePost(feedCalls[j])
           /\ \A n \in 1..minted : Holds(c, n) \/ UploadedByOthers(i, n) =>
                  post.key # n /\ \A j \in FeedBusy : feedCalls[j].key # n
           /\ \A n \in 1..minted :
                  n \in Stored <=> /\ n = post.key \/ Holds(c, n) \/ UploadedByOthers(i, n)
                                   /\ ~Drops(c, n) /\ ~DroppedByOthers(i, n)
    BY <1>5, ImagesBefore
  <2>2. \A n \in 1..minted : /\ Drops(c, n) <=> n = c.key
                             /\ ~Holds(c, n) /\ ~Drops(d, n) /\ ~Holds(d, n)
    BY <1>2, NoFeedCallShape DEF Drops, Holds, ImageOps
  <2>3. Quiet => \A j \in FeedBusy \ {i} :
            feedCalls[j].op \in ImageOps /\ feedCalls[j].at # "read" =>
                post'.exists /\ (post'.key = feedCalls[j].key \/ post'.key = 0)
    BY <1>4, <2>1 DEF OwnsThePost
  <2>4. Quiet => \A n \in 1..minted' : Holds(d, n) \/ UploadedByOthers(i, n) =>
            /\ post'.key # n /\ (d # NoFeedCall => d.key # n)
            /\ \A j \in FeedBusy \ {i} : feedCalls[j].key # n
    <3> SUFFICES ASSUME Quiet, NEW n \in 1..minted, UploadedByOthers(i, n)
                 PROVE  post'.key # n /\ \A j \in FeedBusy : feedCalls[j].key # n
      BY <1>2, <2>2
    <3>1. post.key # n /\ \A j \in FeedBusy : feedCalls[j].key # n
      BY <2>1
    <3>2. post'.key = 0 \/ post'.key = post.key
      BY <1>4
    <3> QED
      BY <3>1, <3>2
  <2>5. Quiet => \A n \in 1..minted' :
            n \in Stored' <=> /\ n = post'.key \/ Holds(d, n) \/ UploadedByOthers(i, n)
                              /\ ~Drops(d, n) /\ ~DroppedByOthers(i, n)
    <3> SUFFICES ASSUME Quiet, NEW n \in 1..minted
                 PROVE  n \in Stored <=> /\ n = post'.key \/ UploadedByOthers(i, n)
                                         /\ ~DroppedByOthers(i, n)
      BY <1>2, <2>2, GhostsSame
    <3>1. UploadedByOthers(i, n) => n # c.key
      BY <1>1, <1>3, <2>1
    <3>2. n \in Stored <=> /\ n = post.key \/ UploadedByOthers(i, n)
                           /\ n # c.key /\ ~DroppedByOthers(i, n)
      BY <2>1, <2>2
    <3>3. n = post'.key <=> n = post.key /\ n # c.key
      BY <1>3, <1>4
    <3> QED
      BY <3>1, <3>2, <3>3
  <2> QED
    BY <1>5, <2>3, <2>4, <2>5, ImagesAfter, GhostsSame
<1> QED
  BY <1>4, <1>6, <1>7, <1>8, <1>9 DEF FeedIInv
----------------------------------------------------------------------------
(* Calls that arrive or fail, images that age, and the invariant.          *)

LEMMA FeedRequestShape ==
    ASSUME NEW r \in FeedRequests
    PROVE  /\ r \in FeedCalls /\ r.at = "read" /\ r.key = 0 /\ r.cost = 0 /\ r.made = 0
           /\ r.op \in {"vote", "react", "ask", "respond"} => r.user \in Persons
           /\ r.op \in ImageOps => r.user = Author
           /\ r.op = "vote" => r.choice \in Options
           /\ r.op = "react" => r.choice \in Emoji
<1>1. \A op \in FeedOps, u \in FeedUsers, f \in BOOLEAN,
         x \in {0} \cup Options \cup Emoji :
          LET c == FeedCall(op, u, f, x)
          IN  /\ c \in FeedCalls /\ c.at = "read" /\ c.key = 0 /\ c.cost = 0
              /\ c.made = 0 /\ c.op = op /\ c.user = u /\ c.choice = x
  BY DEF FeedCall, FeedCalls, FeedPlaces
<1>2. \E op \in FeedOps, u \in FeedUsers, f \in BOOLEAN,
         x \in {0} \cup Options \cup Emoji :
          /\ r = FeedCall(op, u, f, x)
          /\ op \in {"vote", "react", "ask", "respond"} => u \in Persons
          /\ op \in ImageOps => u = Author
          /\ op = "vote" => x \in Options
          /\ op = "react" => x \in Emoji
  <2>1. CASE r \in {FeedCall("publish", Author, p, 0) : p \in BOOLEAN}
    <3>1. PICK p \in BOOLEAN : r = FeedCall("publish", Author, p, 0)
      BY ONLY <2>1 DEF FeedCall
    <3> QED
      BY <3>1, TwoPersons DEF FeedOps, FeedUsers, ImageOps
  <2>2. CASE r \in {FeedCall(op, Author, FALSE, 0) : op \in {"upload", "unimage", "remove"}}
    <3>1. PICK op \in {"upload", "unimage", "remove"} : r = FeedCall(op, Author, FALSE, 0)
      BY ONLY <2>2 DEF FeedCall
    <3> QED
      BY <3>1, TwoPersons DEF FeedOps, FeedUsers, ImageOps
  <2>3. CASE r \in {FeedCall("expire", "cron", FALSE, 0), FeedCall("elsewhere", "other", FALSE, 0)}
    BY <2>3 DEF FeedOps, FeedUsers, ImageOps
  <2>4. CASE r \in {FeedCall("vote", u, FALSE, o) : u \in Persons, o \in Options}
    <3>1. PICK u \in Persons, o \in Options : r = FeedCall("vote", u, FALSE, o)
      BY ONLY <2>4 DEF FeedCall
    <3> QED
      BY <3>1, TwoPersons DEF FeedOps, FeedUsers, ImageOps
  <2>5. CASE r \in {FeedCall("react", u, FALSE, e) : u \in Persons, e \in Emoji}
    <3>1. PICK u \in Persons, e \in Emoji : r = FeedCall("react", u, FALSE, e)
      BY ONLY <2>5 DEF FeedCall
    <3> QED
      BY <3>1, TwoPersons DEF FeedOps, FeedUsers, ImageOps
  <2>6. CASE r \in {FeedCall("ask", u, FALSE, 0) : u \in Persons}
    <3>1. PICK u \in Persons : r = FeedCall("ask", u, FALSE, 0)
      BY ONLY <2>6 DEF FeedCall
    <3> QED
      BY <3>1, TwoPersons DEF FeedOps, FeedUsers, ImageOps
  <2>7. CASE r \in {FeedCall("respond", u, f, 0) : u \in Persons, f \in BOOLEAN}
    <3>1. PICK u \in Persons, f \in BOOLEAN : r = FeedCall("respond", u, f, 0)
      BY ONLY <2>7 DEF FeedCall
    <3> QED
      BY <3>1, TwoPersons DEF FeedOps, FeedUsers, ImageOps
  <2> QED
    BY <2>1, <2>2, <2>3, <2>4, <2>5, <2>6, <2>7 DEF FeedRequests, FeedCall
<1> QED
  BY <1>1, <1>2

LEMMA ReceiveStep ==
    ASSUME FeedIInv, NEW i \in FeedSlots, NEW r \in FeedRequests, FeedReceive(i, r)
    PROVE  FeedIInv'
<1>1. /\ feedCalls[i].at = "idle" /\ feedCalls' = [feedCalls EXCEPT ![i] = r]
      /\ r.op = "expire" => \A j \in FeedBusy : feedCalls[j].op # "expire"
      /\ consenting' = IF r.op = "ask" \/ (r.op = "respond" /\ r.flag)
                       THEN consenting \cup {r.user} ELSE consenting
      /\ crossed' = IF \E j \in FeedBusy : feedCalls[j].user = r.user
                    THEN crossed \cup {r.user} ELSE crossed
      /\ post' = post /\ objects' = objects /\ minted' = minted /\ classA' = classA
      /\ votes' = votes /\ reactions' = reactions /\ friends' = friends
      /\ asked' = asked /\ left' = left /\ unchecked' = unchecked
  BY DEF FeedReceive, feedTables
<1>2. /\ r \in FeedCalls /\ r.at = "read" /\ r.key = 0 /\ r.cost = 0 /\ r.made = 0
      /\ r.op \in {"vote", "react", "ask", "respond"} => r.user \in Persons
      /\ r.op \in ImageOps => r.user = Author
      /\ r.op = "vote" => r.choice \in Options
      /\ r.op = "react" => r.choice \in Emoji
  BY FeedRequestShape
<1>3. /\ feedCalls[i] = NoFeedCall /\ i \notin FeedBusy
      /\ feedCalls'[i] = r /\ FeedCallsOK' /\ FeedBusy \subseteq FeedSlots
      /\ \A j \in FeedSlots \ {i} : feedCalls'[j] = feedCalls[j]
  BY <1>1, <1>2, BusyFeedCall DEF FeedIInv, FeedCallsOK, FeedBusy
<1>4. FeedBusy' = FeedBusy \cup {i}
  <2>1. \A j \in FeedSlots \ {i} : j \in FeedBusy' <=> j \in FeedBusy
    BY <1>3 DEF FeedBusy
  <2>2. i \in FeedBusy' /\ FeedBusy' \subseteq FeedSlots
    BY <1>2, <1>3 DEF FeedBusy
  <2> QED
    BY <1>3, <2>1, <2>2
<1>5. consenting \subseteq consenting' /\ crossed \subseteq crossed'
  BY <1>1
<1>6. FeedTypeOK' /\ minted \in Nat /\ classA \in Nat /\ unchecked \in Nat
  BY <1>1, GhostsSame DEF FeedIInv, FeedTypeOK
<1>7. FeedCallsFit'
  <2>1. ASSUME NEW j \in FeedBusy
        PROVE  /\ FeedCallFits(feedCalls[j])'
               /\ feedCalls'[j].key <= minted' /\ feedCalls'[j].made <= minted'
    <3>1. PICK e : e = feedCalls[j]
      OBVIOUS
    <3>2. FeedCallFits(e) /\ e.key <= minted /\ e.made <= minted /\ feedCalls'[j] = e
      BY <1>3, <3>1 DEF FeedIInv, FeedCallsFit
    <3> QED
      BY <1>1, <1>5, <3>2 DEF FeedCallFits
  <2>2. /\ FeedCallFits(r)' /\ r.key <= minted' /\ r.made <= minted'
    BY <1>1, <1>2, <1>6 DEF FeedCallFits, ImageOps
  <2>3. FeedCallFits(feedCalls[i])'
    BY <1>3, <2>2 DEF FeedCallFits
  <2> QED
    BY <1>3, <1>4, <2>1, <2>2, <2>3 DEF FeedCallsFit
<1>8. OneCallEach'
  <2>1. ASSUME NEW j \in FeedBusy
        PROVE  /\ ~(feedCalls[j].user = r.user /\ r.user \notin crossed')
               /\ ~(feedCalls[j].op = "expire" /\ r.op = "expire")
    BY <1>1, <2>1
  <2>2. \A j \in FeedBusy : feedCalls'[j] = feedCalls[j]
    BY <1>3
  <2> QED
    BY <1>3, <1>4, <1>5, <2>1, <2>2 DEF FeedIInv, OneCallEach
<1>9. BudgetInOrder'
  <2>1. Weight(r) = 0 /\ Weight(NoFeedCall) = 0
    BY <1>2, Weights, NoFeedCallShape DEF Spends
  <2>2. /\ Cardinality(Spending) \in Nat /\ Cardinality(SpendingTwo) \in Nat
        /\ Cardinality(Spending') \in Nat /\ Cardinality(SpendingTwo') \in Nat
        /\ Cardinality(Spending') + Cardinality(SpendingTwo')
               = Cardinality(Spending) + Cardinality(SpendingTwo)
                 - Weight(NoFeedCall) + Weight(r)
    <3>1. NoFeedCall = feedCalls[i] /\ FeedCallsOK
      BY <1>3 DEF FeedIInv
    <3>2. feedCalls' = [feedCalls EXCEPT ![i] = r]
      BY <1>1
    <3> QED
      BY ONLY <3>1, <3>2, i \in FeedSlots, SpendingMoves
  <2>3. classA' + Cardinality(Spending') + Cardinality(SpendingTwo')
          <= ImageLimit + 2 * (Cardinality(FeedSlots) - 1) + unchecked'
    <3>1. classA + Cardinality(Spending) + Cardinality(SpendingTwo)
            <= ImageLimit + 2 * (Cardinality(FeedSlots) - 1) + unchecked
      BY DEF FeedIInv, BudgetInOrder
    <3>2. Cardinality(FeedSlots) \in Nat /\ ImageLimit \in Nat
      BY FeedSlotsCounted, FeedAssumption
    <3> QED
      BY <1>1, <1>6, <2>1, <2>2, <3>1, <3>2
  <2> QED
    BY <2>3 DEF BudgetInOrder
<1>10. VotesInOrder'
  <2>1. \A j \in FeedBusy' : FeedAt(j, "vote", "insert")' =>
            j \in FeedBusy /\ feedCalls'[j] = feedCalls[j]
    BY <1>2, <1>3, <1>4 DEF FeedAt
  <2> QED
    BY <1>1, <1>5, <2>1 DEF FeedIInv, VotesInOrder, FeedAt
<1>11. AskedInOrder'
  <2>1. consenting' \subseteq Persons
    BY <1>1, <1>2 DEF FeedIInv, AskedInOrder
  <2> QED
    BY <1>1, <1>5, <2>1 DEF FeedIInv, AskedInOrder, ConsentedFriends
<1>12. ImagesInOrder'
  <2>1. \A n \in 1..minted : (Dropped(n)' <=> Dropped(n)) /\ (Uploaded(n)' <=> Uploaded(n))
    <3>1. \A n : ~Drops(r, n) /\ ~Holds(r, n) /\ ~Drops(NoFeedCall, n) /\ ~Holds(NoFeedCall, n)
      BY <1>2, NoFeedCallShape DEF Drops, Holds
    <3>2. \A n : /\ Drops(feedCalls[i], n)' <=> Drops(feedCalls[i], n)
                 /\ Holds(feedCalls[i], n)' <=> Holds(feedCalls[i], n)
      BY <1>3, <3>1 DEF Drops, Holds
    <3>3. \A n : \A j \in FeedSlots \ {i} :
                 /\ Drops(feedCalls[j], n)' <=> Drops(feedCalls[j], n)
                 /\ Holds(feedCalls[j], n)' <=> Holds(feedCalls[j], n)
      BY <1>3 DEF Drops, Holds
    <3> QED
      BY <3>2, <3>3 DEF Dropped, Uploaded
  <2>2. Quiet' => Quiet
    BY <1>5 DEF Quiet
  <2>3. Quiet => \A j \in FeedBusy' : OwnsThePost(feedCalls[j])'
    <3>1. OwnsThePost(feedCalls[i])'
      BY <1>2, <1>3 DEF OwnsThePost
    <3>2. ASSUME Quiet, NEW j \in FeedBusy
          PROVE  OwnsThePost(feedCalls[j])'
      <4>1. OwnsThePost(feedCalls[j]) /\ feedCalls'[j] = feedCalls[j]
        BY <1>3, <3>2 DEF FeedIInv, ImagesInOrder
      <4> QED
        BY <1>1, <4>1 DEF OwnsThePost
    <3> QED
      BY <1>4, <3>1, <3>2
  <2>4. Quiet => \A n \in 1..minted : Uploaded(n) =>
            /\ post.key # n
            /\ \A j \in FeedBusy' : feedCalls'[j].key # n
    <3>1. \A j \in FeedBusy' : feedCalls'[j].key = 0 \/
              (j \in FeedBusy /\ feedCalls'[j].key = feedCalls[j].key)
      BY <1>2, <1>3, <1>4
    <3> QED
      BY <3>1 DEF FeedIInv, ImagesInOrder
  <2>5. Quiet => \A n \in 1..minted :
              n \in Stored <=> (n = post.key \/ Uploaded(n)) /\ ~Dropped(n)
    BY DEF FeedIInv, ImagesInOrder
  <2> QED
    BY <1>1, <2>1, <2>2, <2>3, <2>4, <2>5 DEF ImagesInOrder, Stored
<1> QED
  BY <1>3, <1>6, <1>7, <1>8, <1>9, <1>10, <1>11, <1>12 DEF FeedIInv

LEMMA FeedFaultStep ==
    ASSUME FeedIInv, NEW i \in FeedSlots, FeedFault(i)
    PROVE  FeedIInv'
<1>1. /\ feedCalls[i].at # "idle" /\ FeedEnd(i)
      /\ crossed' = crossed \cup {"fault"} /\ consenting' = consenting
      /\ post' = post /\ objects' = objects /\ minted' = minted /\ classA' = classA
      /\ votes' = votes /\ reactions' = reactions /\ friends' = friends
      /\ asked' = asked /\ left' = left /\ unchecked' = unchecked
  BY DEF FeedFault, feedTables
<1>2. PICK c : c = feedCalls[i]
  OBVIOUS
<1>3. c \in FeedCalls /\ Goes(i, c, NoFeedCall)
  BY <1>1, <1>2, BusyFeedCall, FeedEnds DEF FeedIInv
<1>4. /\ FeedCallsOK' /\ FeedBusy' = FeedBusy \ {i} /\ FeedBusy \subseteq FeedSlots
      /\ \A j \in FeedBusy' : feedCalls'[j] = feedCalls[j]
  BY <1>3, GoesOn DEF FeedBusy
<1>5. FeedTypeOK' /\ classA \in Nat
  BY <1>1, GhostsSame DEF FeedIInv, FeedTypeOK
<1>6. FeedCallsFit'
  <2>1. ASSUME NEW j \in FeedBusy'
        PROVE  /\ FeedCallFits(feedCalls[j])'
               /\ feedCalls'[j].key <= minted' /\ feedCalls'[j].made <= minted'
    <3>1. PICK e : e = feedCalls[j]
      OBVIOUS
    <3>2. FeedCallFits(e) /\ e.key <= minted /\ e.made <= minted /\ feedCalls'[j] = e
      BY <1>4, <2>1, <3>1 DEF FeedIInv, FeedCallsFit
    <3> QED
      BY <1>1, <3>2 DEF FeedCallFits
  <2> QED
    BY <2>1 DEF FeedCallsFit
<1>7. OneCallEach'
  BY <1>1, <1>4 DEF FeedIInv, OneCallEach
<1>8. BudgetInOrder'
  <2>1. Weight(NoFeedCall) = 0 /\ Weight(c) \in Nat
    BY <1>3, Weights, NoFeedCallShape DEF Spends
  <2>2. classA' \in Nat /\ classA' + Weight(NoFeedCall) <= classA + Weight(c)
    BY <1>1, <1>5, <2>1
  <2> QED
    BY <1>1, <1>3, <2>2, BudgetMoves
<1>9. VotesInOrder'
  BY <1>1, <1>4 DEF FeedIInv, VotesInOrder, FeedAt
<1>10. AskedInOrder'
  BY <1>1 DEF FeedIInv, AskedInOrder, ConsentedFriends
<1>11. ImagesInOrder'
  BY <1>1 DEF ImagesInOrder, Quiet
<1> QED
  BY <1>4, <1>5, <1>6, <1>7, <1>8, <1>9, <1>10, <1>11 DEF FeedIInv

LEMMA ImageAgesStep ==
    ASSUME FeedIInv, ImageAges
    PROVE  FeedIInv'
<1>1. /\ post' = [post EXCEPT !.aged = TRUE]
      /\ objects' = objects /\ minted' = minted /\ classA' = classA /\ votes' = votes
      /\ reactions' = reactions /\ friends' = friends /\ asked' = asked
      /\ feedCalls' = feedCalls /\ consenting' = consenting /\ crossed' = crossed
      /\ left' = left /\ unchecked' = unchecked
  BY DEF ImageAges, feedGhosts
<1>2. FeedTypeOK' /\ post'.key = post.key /\ post'.exists = post.exists
  BY <1>1, GhostsSame DEF FeedIInv, FeedTypeOK
<1>3. FeedBusy' = FeedBusy
  BY <1>1 DEF FeedBusy
<1>4. FeedCallsOK' /\ FeedCallsFit' /\ OneCallEach'
  BY <1>1, <1>3 DEF FeedIInv, FeedCallsOK, FeedCallsFit, FeedCallFits, OneCallEach
<1>5. BudgetInOrder' /\ VotesInOrder' /\ AskedInOrder'
  BY <1>1, <1>3
     DEF FeedIInv, BudgetInOrder, Spending, SpendingTwo, SpendsTwo, Spends,
         VotesInOrder, FeedAt, AskedInOrder, ConsentedFriends
<1>6. ImagesInOrder'
  BY <1>1, <1>2, <1>3
     DEF FeedIInv, ImagesInOrder, Quiet, OwnsThePost, Uploaded, Dropped, Holds, Drops, Stored
<1> QED
  BY <1>2, <1>4, <1>5, <1>6 DEF FeedIInv

LEMMA FeedStutters ==
    ASSUME FeedIInv, UNCHANGED feedVars
    PROVE  FeedIInv'
<1>1. /\ post' = post /\ objects' = objects /\ minted' = minted /\ classA' = classA
      /\ votes' = votes /\ reactions' = reactions /\ friends' = friends
      /\ asked' = asked
      /\ feedCalls' = feedCalls /\ consenting' = consenting /\ crossed' = crossed
      /\ left' = left /\ unchecked' = unchecked
  BY DEF feedVars, feedTables, feedGhosts
<1>2. FeedTypeOK' /\ FeedBusy' = FeedBusy
  BY <1>1, GhostsSame DEF FeedIInv, FeedTypeOK, FeedBusy
<1>3. FeedCallsOK' /\ FeedCallsFit' /\ OneCallEach'
  BY <1>1, <1>2 DEF FeedIInv, FeedCallsOK, FeedCallsFit, FeedCallFits, OneCallEach
<1>4. BudgetInOrder' /\ VotesInOrder' /\ AskedInOrder'
  BY <1>1, <1>2
     DEF FeedIInv, BudgetInOrder, Spending, SpendingTwo, SpendsTwo, Spends,
         VotesInOrder, FeedAt, AskedInOrder, ConsentedFriends
<1>5. ImagesInOrder'
  BY <1>1, <1>2
     DEF FeedIInv, ImagesInOrder, Quiet, OwnsThePost, Uploaded, Dropped, Holds, Drops, Stored
<1> QED
  BY <1>2, <1>3, <1>4, <1>5 DEF FeedIInv

LEMMA FeedStarts == FeedInit => FeedIInv
<1> SUFFICES ASSUME FeedInit PROVE FeedIInv
  OBVIOUS
<1>1. /\ post \in {NoPost, [NoPost EXCEPT !.exists = TRUE]}
      /\ objects = {} /\ minted = 0 /\ classA = 0 /\ votes = {} /\ reactions = {}
      /\ friends = FALSE /\ asked = [u \in Persons |-> "none"]
      /\ feedCalls = [i \in FeedSlots |-> NoFeedCall]
      /\ consenting = {} /\ crossed = {} /\ left = {} /\ unchecked = 0
  BY DEF FeedInit
<1>2. FeedTypeOK
  <2>1. 0 \in 0..minted /\ minted \in Nat /\ classA \in Nat
    BY <1>1
  <2>2. post \in [exists : BOOLEAN, private : BOOLEAN, key : 0..minted, aged : BOOLEAN]
    <3>1. NoPost \in [exists : BOOLEAN, private : BOOLEAN, key : 0..minted, aged : BOOLEAN]
      BY <2>1 DEF NoPost
    <3>2. [NoPost EXCEPT !.exists = TRUE]
              \in [exists : BOOLEAN, private : BOOLEAN, key : 0..minted, aged : BOOLEAN]
      BY <3>1
    <3> QED
      BY <1>1, <3>1, <3>2
  <2> QED
    BY <1>1, <2>1, <2>2 DEF FeedTypeOK
<1>3. FeedCallsOK /\ FeedBusy = {}
  BY <1>1, NoFeedCallShape DEF FeedCallsOK, FeedBusy
<1>4. FeedCallsFit /\ OneCallEach
  BY <1>3 DEF FeedCallsFit, OneCallEach
<1>5. BudgetInOrder
  <2>1. Spending = {} /\ SpendingTwo = {}
    BY <1>1, NoFeedCallShape DEF Spending, SpendingTwo, SpendsTwo, Spends
  <2>2. Cardinality(FeedSlots) \in Nat /\ Cardinality(FeedSlots) # 0 /\ ImageLimit \in Nat
    BY FeedSlotsCounted, FeedAssumption, FS_EmptySet
  <2> QED
    BY <1>1, <2>1, <2>2, FS_EmptySet DEF BudgetInOrder
<1>6. VotesInOrder /\ AskedInOrder
  BY <1>1, <1>3 DEF VotesInOrder, AskedInOrder, ConsentedFriends
<1>7. ImagesInOrder
  BY <1>1, <1>3 DEF ImagesInOrder
<1> QED
  BY <1>2, <1>3, <1>4, <1>5, <1>6, <1>7 DEF FeedIInv

LEMMA FeedStepKeeps ==
    ASSUME FeedIInv, NEW i \in FeedSlots, FeedStep(i), UNCHANGED feedGhosts
    PROVE  FeedIInv'
<1>1. CASE SyncUser(i) \/ UpsertPost(i)
  BY <1>1, PublishStep
<1>2. CASE StoreImage(i) \/ RemovePost(i)
  BY <1>2, AuthorWriteStep
<1>3. CASE ViewPost(i) \/ ReadChoice(i)
  BY <1>3, ChoiceReadStep
<1>4. CASE AskRead(i) \/ AskReciprocal(i)
  BY <1>4, AskReadStep
<1>5. CASE AskAccepts(i) \/ AskPends(i) \/ RespondWrites(i) \/ RespondBefriends(i)
  BY <1>5, FriendStep
<1>6. CASE ReadImage(i) \/ CheckBudget(i)
  BY <1>6, ReadImageStep, CheckBudgetStep
<1>7. CASE PutImage(i) \/ DropImage(i) \/ CountUsage(i)
  BY <1>7, PutImageStep, DropImageStep, CountUsageStep
<1>8. CASE ExpireUsage(i) \/ ExpireRows(i) \/ ExpireRow(i)
  BY <1>8, ExpireUsageStep, ExpireRowsStep, ExpireRowStep
<1>9. CASE ClearVotes(i) \/ WriteChoice(i) \/ RespondRead(i)
  BY <1>9, ClearVotesStep, WriteChoiceStep, RespondReadStep
<1>10. CASE SpendElsewhere(i) \/ CountElsewhere(i)
  BY <1>10, SpendElsewhereStep, CountElsewhereStep
<1> QED
  BY <1>1, <1>2, <1>3, <1>4, <1>5, <1>6, <1>7, <1>8, <1>9, <1>10 DEF FeedStep

LEMMA FeedNextKeeps == FeedIInv /\ [FeedNext]_feedVars => FeedIInv'
<1> SUFFICES ASSUME FeedIInv, [FeedNext]_feedVars PROVE FeedIInv'
  OBVIOUS
<1>1. CASE UNCHANGED feedVars
  BY <1>1, FeedStutters
<1>2. CASE ImageAges
  BY <1>2, ImageAgesStep
<1>3. ASSUME NEW i \in FeedSlots, NEW r \in FeedRequests, FeedReceive(i, r)
      PROVE  FeedIInv'
  BY <1>3, ReceiveStep
<1>4. ASSUME NEW i \in FeedSlots, FeedStep(i), UNCHANGED feedGhosts
      PROVE  FeedIInv'
  BY <1>4, FeedStepKeeps
<1>5. ASSUME NEW i \in FeedSlots, FeedFault(i) \/ DropFails(i) \/ PurgeDrawing(i)
      PROVE  FeedIInv'
  BY <1>5, FeedFaultStep, DropFailsStep, PurgeDrawingStep
<1> QED
  BY <1>1, <1>2, <1>3, <1>4, <1>5 DEF FeedNext

LEMMA FeedInvariant == FeedSpec => []FeedIInv
  BY FeedStarts, FeedNextKeeps, PTL DEF FeedSpec

(* The post, the objects in R2, the month's count, the votes, the reactions     *)
(* and the friendship keep their types, and no object or post has a key that    *)
(* was not made, whatever handlers interleave and fail.                         *)
THEOREM FeedTypeCorrect == FeedSpec => []FeedTypeOK
<1>1. FeedIInv => FeedTypeOK
  BY DEF FeedIInv
<1> QED
  BY <1>1, FeedInvariant, PTL

(* For any number of calls at once, any limit and whichever deletes fail: once  *)
(* all is quiet R2 holds the image the post shows and no other but those whose  *)
(* delete failed, the month's count, which other handlers share, is past the    *)
(* limit by no more than calls at once need and the purge of drawings added, a  *)
(* poll of one choice has one vote of a user, and nobody is a friend who did    *)
(* not ask for it or accept it.                                                 *)
THEOREM FeedStaysKept == FeedSpec => []FeedKept
<1>1. FeedIInv => FeedKept
  <2> SUFFICES ASSUME FeedIInv PROVE FeedKept
    OBVIOUS
  <2>1. ImagesMatch
    <3> SUFFICES ASSUME FeedBusy = {}, Quiet
                 PROVE  Stored = {post.key} \ {0}
      BY DEF ImagesMatch, Quiet, Stored
    <3>1. \A n : ~Uploaded(n) /\ ~Dropped(n)
      <4>1. \A i \in FeedSlots : feedCalls[i].at = "idle"
        BY DEF FeedBusy
      <4> QED
        BY <4>1 DEF Uploaded, Dropped, Holds, Drops
    <3>2. \A n \in 1..minted : n \in Stored <=> n = post.key
      BY <3>1 DEF FeedIInv, ImagesInOrder
    <3>3. Stored \subseteq 1..minted /\ minted \in Nat /\ post.key \in 0..minted
      BY DEF FeedIInv, FeedTypeOK, Stored
    <3>4. \A n : n \in 1..minted <=> n \in 0..minted /\ n # 0
      BY <3>3
    <3>5. \A n : n \in Stored <=> n \in {post.key} \ {0}
      BY <3>2, <3>3, <3>4
    <3> QED
      BY <3>5
  <2>2. BudgetKept
    <3>1. Cardinality(Spending) \in Nat /\ Cardinality(SpendingTwo) \in Nat
      BY FeedSlotsCounted DEF Spending, SpendingTwo
    <3>2. /\ classA \in Nat /\ ImageLimit \in Nat /\ unchecked \in Nat
          /\ Cardinality(FeedSlots) \in Nat
      BY FeedAssumption, FeedSlotsCounted DEF FeedIInv, FeedTypeOK
    <3> QED
      BY <3>1, <3>2 DEF FeedIInv, BudgetInOrder, BudgetKept
  <2>3. OneChoice
    <3> SUFFICES ASSUME NEW u \in Persons \ crossed
                 PROVE  Cardinality({v \in votes : v[1] = u}) <= 1
      BY DEF OneChoice
    <3>1. CASE {v \in votes : v[1] = u} = {}
      BY <3>1, FS_EmptySet
    <3>2. CASE {v \in votes : v[1] = u} # {}
      <4>1. PICK w \in votes : w[1] = u
        BY <3>2
      <4>2. votes \subseteq Persons \X Options
        BY DEF FeedIInv, FeedTypeOK
      <4>3. \A v \in votes : v[1] = u => v = w
        BY <4>1, <4>2 DEF FeedIInv, VotesInOrder
      <4>4. {v \in votes : v[1] = u} = {w}
        BY <4>1, <4>3
      <4> QED
        <5>1. PICK S : S = {v \in votes : v[1] = u}
          OBVIOUS
        <5>2. Cardinality({w}) = 1
          BY FS_Singleton
        <5>3. Cardinality(S) = 1
          BY ONLY <4>4, <5>1, <5>2
        <5> QED
          BY <5>1, <5>3
    <3> QED
      BY <3>1, <3>2
  <2>4. ConsentedFriends
    BY DEF FeedIInv, AskedInOrder
  <2> QED
    BY <2>1, <2>2, <2>3, <2>4 DEF FeedKept
<1> QED
  BY <1>1, FeedInvariant, PTL
=============================================================================
