---------------------------- MODULE SquadServer ----------------------------
(***************************************************************************)
(* Squads on the Cloudflare Worker: create, join, respond, leave, role,    *)
(* kick and settings.  Each D1 statement (or batch) is one step, so the    *)
(* calls of several members interleave between their statements, and a     *)
(* statement may fail, which ends its call with a 500.                     *)
(*                                                                         *)
(* Abstracted: names, the chat (its messages hang on the squad and nothing *)
(* reads them), the cached scores, authentication, and joined_at: the      *)
(* successor of a leader is any of the members of the highest rank.        *)
(***************************************************************************)
EXTENDS Integers, FiniteSets

CONSTANTS
    Users,
    Squads,         \* the ids squads can have
    NoSquad,        \* not a squad
    MaxMembers,     \* MAX_SQUAD_MEMBERS
    SquadSlots,     \* the calls the Worker can be handling at once
    MaxSquadCalls,  \* bound: the calls made
    MaxSquadFaults  \* bound: statements that fail

ASSUME SquadAssumption ==
    /\ IsFiniteSet(Users)
    /\ NoSquad \notin Squads
    /\ MaxMembers \in Nat \ {0}
    /\ MaxSquadCalls \in Nat
    /\ MaxSquadFaults \in Nat

VARIABLES
    squads,     \* the rows of squads, with is_private
    member,     \* squad_members: a user is in one squad at most
    requests,   \* the status of squad_join_requests
    open,       \* how many rows of squad_member_history a member has open
    squadCalls, \* the calls being handled
    called,     \* how many calls were made
    squadFaults,
    wanted,     \* ghost: who created, joined or asked to join which squad
    undisturbed \* ghost: no two calls ever overlapped, and none failed

squadTables == <<squads, member, requests, open>>
squadVars ==
    <<squadTables, squadCalls, called, squadFaults, wanted, undisturbed>>
----------------------------------------------------------------------------
Roles == {"leader", "co_leader", "elder", "member"}

RoleRank(role) ==
    CASE role = "leader" -> 4
      [] role = "co_leader" -> 3
      [] role = "elder" -> 2
      [] OTHER -> 1

CanManageRequests(role) == RoleRank(role) > RoleRank("member")

CanChangeRole(actor, target, next) ==
    \/ actor = "leader" /\ next # "leader"
    \/ /\ actor = "co_leader"
       /\ RoleRank(target) < RoleRank("co_leader")
       /\ RoleRank(next) < RoleRank("co_leader")

CanKick(actor, target) ==
    \/ actor = "leader" /\ target # "leader"
    \/ actor = "co_leader" /\ RoleRank(target) < RoleRank("co_leader")
    \/ actor = "elder" /\ target = "member"

NoMember == [squad |-> NoSquad, role |-> "member"]
Membership(squad, role) == [squad |-> squad, role |-> role]

MembersOf(s) == {u \in Users : member[u].squad = s}
SquadExists(s) == squads[s] # "none"

(* A call as it arrives.  user makes it; squad and target are what its     *)
(* body names, role and accept what it asks for; actor and next are what   *)
(* its statements have read.                                               *)
SquadCall(op, user, squad, target, role, accept) ==
    [op |-> op, user |-> user, squad |-> squad, target |-> target,
     role |-> role, accept |-> accept, at |-> "actor", actor |-> NoMember,
     next |-> user]

NoCall == [op |-> "none", at |-> "idle"]

SquadRequests ==
    {SquadCall("create", u, s, u, "leader", p) :
        u \in Users, s \in Squads, p \in BOOLEAN}
    \cup {SquadCall("join", u, s, u, "member", FALSE) : u \in Users, s \in Squads}
    \cup {SquadCall("respond", u, s, v, "member", a) :
        u \in Users, v \in Users, s \in Squads, a \in BOOLEAN}
    \cup {SquadCall("leave", u, NoSquad, u, "member", FALSE) : u \in Users}
    \cup {SquadCall("role", u, NoSquad, v, r, FALSE) :
        u \in Users, v \in Users, r \in Roles}
    \cup {SquadCall("kick", u, NoSquad, v, "member", FALSE) :
        u \in Users, v \in Users}
    \cup {SquadCall("settings", u, NoSquad, u, "member", p) :
        u \in Users, p \in BOOLEAN}
----------------------------------------------------------------------------
(* A squad with its members, of whom one leads, and those who ask to join  *)
(* it if it is private; or none at all.                                    *)
SquadInit ==
    /\ squadCalls = [i \in SquadSlots |-> NoCall]
    /\ called = 0
    /\ squadFaults = 0
    /\ undisturbed = TRUE
    /\ \E s \in Squads, kind \in {"none", "public", "private"},
          roles \in [Users -> Roles \cup {"out"}], asking \in SUBSET Users :
          LET in == {u \in Users : roles[u] # "out"}
          IN  /\ asking \subseteq IF kind = "private" THEN Users \ in ELSE {}
              /\ requests = [u \in Users |-> [q \in Squads |->
                    IF q = s /\ u \in asking THEN "pending" ELSE "none"]]
              /\ IF kind = "none"
                    THEN in = {}
                    ELSE Cardinality({u \in in : roles[u] = "leader"}) = 1
              /\ Cardinality(in) <= MaxMembers
              /\ squads = [q \in Squads |-> IF q = s THEN kind ELSE "none"]
              /\ member = [u \in Users |->
                    IF u \in in THEN Membership(s, roles[u]) ELSE NoMember]
              /\ open = [u \in Users |-> [q \in Squads |->
                    IF q = s /\ u \in in THEN 1 ELSE 0]]
              /\ wanted = {<<u, s>> : u \in in \cup asking}

SquadIdle(i) == squadCalls[i].at = "idle"
Busy == {i \in SquadSlots : ~SquadIdle(i)}

CallAt(i, op, place) == squadCalls[i].op = op /\ squadCalls[i].at = place
MoveTo(i, place) == squadCalls' = [squadCalls EXCEPT ![i].at = place]
EndCall(i) == squadCalls' = [squadCalls EXCEPT ![i] = NoCall]

(* A squad is created under a new id; a request is answered by its id,     *)
(* which names the squad it was made to.  A user only wants what a call of *)
(* their own asks for.                                                     *)
MakeCall(i, request) ==
    /\ SquadIdle(i) /\ called < MaxSquadCalls
    /\ request.op = "create" =>
          /\ ~SquadExists(request.squad)
          /\ \A j \in Busy : squadCalls[j].op = "create"
                               => squadCalls[j].squad # request.squad
    /\ request.op = "respond" => requests[request.target][request.squad] # "none"
    /\ squadCalls' = [squadCalls EXCEPT ![i] = request]
    /\ called' = called + 1
    /\ undisturbed' = (undisturbed /\ Busy = {})
    /\ wanted' = IF request.op \in {"create", "join"}
                    THEN wanted \cup {<<request.user, request.squad>>}
                    ELSE wanted
    /\ UNCHANGED <<squadTables, squadFaults>>

(* getUserSquadMember, the first statement of every route, reads the       *)
(* caller's squad and role.                                                *)
MayProceed(c, found) ==
    CASE c.op \in {"create", "join"} -> found.squad = NoSquad
      [] c.op = "respond" -> found.squad # NoSquad /\ CanManageRequests(found.role)
      [] c.op = "leave" -> found.squad # NoSquad
      [] c.op = "settings" -> found.squad # NoSquad /\ found.role = "leader"
      [] OTHER -> found.squad # NoSquad /\ c.target # c.user

AfterActor(op) ==
    CASE op = "join" -> "squad"
      [] op = "respond" -> "request"
      [] op = "leave" -> "count"
      [] op \in {"role", "kick"} -> "target"
      [] OTHER -> "write"

ReadActor(i) ==
    LET c == squadCalls[i]
        found == member[c.user]
    IN  /\ c.at = "actor"
        /\ IF MayProceed(c, found)
              THEN squadCalls' = [squadCalls EXCEPT ![i].actor = found,
                                                    ![i].at = AfterActor(c.op)]
              ELSE EndCall(i)
        /\ UNCHANGED squadTables
----------------------------------------------------------------------------
Create(i) ==
    LET c == squadCalls[i] IN
    /\ CallAt(i, "create", "write")
    /\ IF member[c.user].squad # NoSquad
          THEN UNCHANGED squadTables    \* user_id is UNIQUE: the batch fails
          ELSE /\ squads' = [squads EXCEPT ![c.squad] =
                     IF c.accept THEN "private" ELSE "public"]
               /\ member' = [member EXCEPT ![c.user] = Membership(c.squad, "leader")]
               /\ open' = [open EXCEPT ![c.user][c.squad] = @ + 1]
               /\ UNCHANGED requests
    /\ EndCall(i)

(* slip: the insert trusts the count the route made before it              *)
InsertedOnCount(u, s) == member[u].squad = NoSquad

(* The batch join and respond share: the member is inserted where there is *)
(* room and no other squad, and the history only with the member.          *)
Inserted(u, s) ==
    /\ Cardinality(MembersOf(s)) < MaxMembers
    /\ member[u].squad = NoSquad

(* slip: the history is opened whenever the member is inserted             *)
OpensAlways(u, s) == TRUE

OpensHistory(u, s) == open[u][s] = 0

InsertMember(u, s) ==
    LET added == IF Inserted(u, s)
                    THEN [member EXCEPT ![u] = Membership(s, "member")]
                    ELSE member
    IN  /\ member' = added
        /\ open' = IF added[u].squad = s /\ OpensHistory(u, s)
                      THEN [open EXCEPT ![u][s] = @ + 1] ELSE open

JoinReadSquad(i) ==
    LET c == squadCalls[i] IN
    /\ CallAt(i, "join", "squad")
    /\ IF SquadExists(c.squad)
          THEN squadCalls' = [squadCalls EXCEPT
                    ![i].at = "count", ![i].accept = squads[c.squad] = "private"]
          ELSE EndCall(i)
    /\ UNCHANGED squadTables

(* getSquadMemberCount of join and of an accepting respond.                *)
CountMembers(i) ==
    LET c == squadCalls[i]
        s == IF c.op = "respond" THEN c.actor.squad ELSE c.squad
    IN  /\ c.op \in {"join", "respond"} /\ c.at = "count"
        /\ IF Cardinality(MembersOf(s)) >= MaxMembers
              THEN EndCall(i) ELSE MoveTo(i, "write")
        /\ UNCHANGED squadTables

(* A private squad gets a request; one that is gone refuses the row.       *)
Join(i) ==
    LET c == squadCalls[i] IN
    /\ CallAt(i, "join", "write")
    /\ IF ~SquadExists(c.squad) THEN UNCHANGED squadTables
       ELSE IF c.accept
          THEN /\ requests' = [requests EXCEPT ![c.user][c.squad] = "pending"]
               /\ UNCHANGED <<squads, member, open>>
          ELSE InsertMember(c.user, c.squad) /\ UNCHANGED <<squads, requests>>
    /\ EndCall(i)

(* slip: the request is looked up by its id alone                          *)
AnswerableAnywhere(c) == requests[c.target][c.squad] = "pending"

Answerable(c) ==
    requests[c.target][c.squad] = "pending" /\ c.squad = c.actor.squad

RespondReadRequest(i) ==
    LET c == squadCalls[i] IN
    /\ CallAt(i, "respond", "request")
    /\ IF Answerable(c) THEN MoveTo(i, IF c.accept THEN "asker" ELSE "write")
                        ELSE EndCall(i)
    /\ UNCHANGED squadTables

RespondReadAsker(i) ==
    LET c == squadCalls[i] IN
    /\ CallAt(i, "respond", "asker")
    /\ IF member[c.target].squad # NoSquad THEN EndCall(i) ELSE MoveTo(i, "count")
    /\ UNCHANGED squadTables

Respond(i) ==
    LET c == squadCalls[i]
        s == c.actor.squad
        Close(status) ==
            requests' = IF requests[c.target][c.squad] = "none" THEN requests
                        ELSE [requests EXCEPT ![c.target][c.squad] = status]
    IN  /\ CallAt(i, "respond", "write")
        /\ IF ~c.accept THEN Close("declined") /\ UNCHANGED <<squads, member, open>>
           ELSE IF ~SquadExists(s) THEN UNCHANGED squadTables
           ELSE /\ InsertMember(c.target, s)
                /\ IF member'[c.target].squad = s THEN Close("accepted")
                                                  ELSE UNCHANGED requests
                /\ UNCHANGED squads
        /\ EndCall(i)
----------------------------------------------------------------------------
LeaveCount(i) ==
    /\ CallAt(i, "leave", "count")
    /\ MoveTo(i, IF Cardinality(MembersOf(squadCalls[i].actor.squad)) <= 1
                    THEN "close last" ELSE "close")
    /\ UNCHANGED squadTables

(* closeSquadMemberHistory of the member who leaves or is kicked.          *)
CloseHistory(i) ==
    LET c == squadCalls[i] IN
    /\ c.op \in {"leave", "kick"} /\ c.at \in {"close", "close last"}
    /\ open' = [open EXCEPT ![c.target][c.actor.squad] = 0]
    /\ MoveTo(i, IF c.at = "close" THEN "delete" ELSE "delete squad")
    /\ UNCHANGED <<squads, member, requests>>

(* The squad goes with all that hangs on it, history included.             *)
DeleteSquad(i) ==
    LET s == squadCalls[i].actor.squad IN
    /\ CallAt(i, "leave", "delete squad")
    /\ squads' = [squads EXCEPT ![s] = "none"]
    /\ member' = [u \in Users |-> IF member[u].squad = s THEN NoMember ELSE member[u]]
    /\ requests' = [u \in Users |-> [requests[u] EXCEPT ![s] = "none"]]
    /\ open' = [u \in Users |-> [open[u] EXCEPT ![s] = 0]]
    /\ EndCall(i)

(* slip: whoever leaves is followed by nobody                              *)
LeaveWithoutSuccessor(i) ==
    LET c == squadCalls[i] IN
    /\ c.op \in {"leave", "kick"} /\ c.at = "delete"
    /\ member' = IF member[c.target].squad = c.actor.squad
                    THEN [member EXCEPT ![c.target] = NoMember] ELSE member
    /\ EndCall(i)
    /\ UNCHANGED <<squads, requests, open>>

DeleteMember(i) ==
    LET c == squadCalls[i] IN
    /\ c.op \in {"leave", "kick"} /\ c.at = "delete"
    /\ member' = IF member[c.target].squad = c.actor.squad
                    THEN [member EXCEPT ![c.target] = NoMember] ELSE member
    /\ IF c.op = "leave" /\ c.actor.role = "leader"
          THEN MoveTo(i, "successor") ELSE EndCall(i)
    /\ UNCHANGED <<squads, requests, open>>

(* The ORDER BY knows co_leader and elder; every other role comes after,   *)
(* a leader's among them.                                                  *)
SuccessionRank(role) ==
    CASE role = "co_leader" -> 1 [] role = "elder" -> 2 [] OTHER -> 3

ChooseSuccessor(i) ==
    LET s == squadCalls[i].actor.squad
        First(u) == \A v \in MembersOf(s) :
            SuccessionRank(member[u].role) <= SuccessionRank(member[v].role)
    IN  /\ CallAt(i, "leave", "successor")
        /\ \/ MembersOf(s) = {} /\ EndCall(i)
           \/ \E u \in MembersOf(s) :
                 /\ First(u)
                 /\ squadCalls' = [squadCalls EXCEPT ![i].next = u,
                                                     ![i].at = "promote"]
        /\ UNCHANGED squadTables

SetRole(u, s, role) ==
    member' = IF member[u].squad = s THEN [member EXCEPT ![u].role = role] ELSE member

Promote(i) ==
    LET c == squadCalls[i] IN
    /\ CallAt(i, "leave", "promote")
    /\ SetRole(c.next, c.actor.squad, "leader")
    /\ EndCall(i)
    /\ UNCHANGED <<squads, requests, open>>

ReadTarget(i) ==
    LET c == squadCalls[i]
        target == member[c.target]
        allowed == /\ target.squad = c.actor.squad
                   /\ IF c.op = "role"
                         THEN CanChangeRole(c.actor.role, target.role, c.role)
                         ELSE CanKick(c.actor.role, target.role)
    IN  /\ c.op \in {"role", "kick"} /\ c.at = "target"
        /\ IF ~allowed THEN EndCall(i)
                       ELSE MoveTo(i, IF c.op = "role" THEN "write" ELSE "close")
        /\ UNCHANGED squadTables

ChangeRole(i) ==
    LET c == squadCalls[i] IN
    /\ CallAt(i, "role", "write")
    /\ SetRole(c.target, c.actor.squad, c.role)
    /\ EndCall(i)
    /\ UNCHANGED <<squads, requests, open>>

ChangeSettings(i) ==
    LET c == squadCalls[i] IN
    /\ CallAt(i, "settings", "write")
    /\ squads' = IF SquadExists(c.actor.squad)
                    THEN [squads EXCEPT ![c.actor.squad] =
                            IF c.accept THEN "private" ELSE "public"]
                    ELSE squads
    /\ EndCall(i)
    /\ UNCHANGED <<member, requests, open>>
----------------------------------------------------------------------------
SquadStep(i) ==
    \/ ReadActor(i) \/ Create(i)
    \/ JoinReadSquad(i) \/ CountMembers(i) \/ Join(i)
    \/ RespondReadRequest(i) \/ RespondReadAsker(i) \/ Respond(i)
    \/ LeaveCount(i) \/ CloseHistory(i) \/ DeleteSquad(i) \/ DeleteMember(i)
    \/ ChooseSuccessor(i) \/ Promote(i)
    \/ ReadTarget(i) \/ ChangeRole(i) \/ ChangeSettings(i)

(* A statement fails: nothing of it is written, and the call is over.      *)
SquadFault(i) ==
    /\ ~SquadIdle(i) /\ squadFaults < MaxSquadFaults
    /\ EndCall(i)
    /\ squadFaults' = squadFaults + 1
    /\ undisturbed' = FALSE
    /\ UNCHANGED <<squadTables, called, wanted>>

SquadNext ==
    \/ \E i \in SquadSlots, r \in SquadRequests : MakeCall(i, r)
    \/ \E i \in SquadSlots :
          SquadStep(i) /\ UNCHANGED <<called, squadFaults, wanted, undisturbed>>
    \/ \E i \in SquadSlots : SquadFault(i)

SquadSpec == SquadInit /\ [][SquadNext]_squadVars
----------------------------------------------------------------------------
(* Type of every variable.                                                 *)
SquadTypeOK ==
    /\ squads \in [Squads -> {"none", "public", "private"}]
    /\ member \in [Users -> [squad : Squads \cup {NoSquad}, role : Roles]]
    /\ requests \in [Users -> [Squads -> {"none", "pending", "accepted", "declined"}]]
    /\ open \in [Users -> [Squads -> Nat]]
    /\ called \in 0..MaxSquadCalls
    /\ wanted \subseteq Users \X Squads
    /\ undisturbed \in BOOLEAN

(* A squad never has more than MAX_SQUAD_MEMBERS, although join and        *)
(* respond count before they insert and others join in between.            *)
SquadNeverOverfull ==
    \A s \in Squads : Cardinality(MembersOf(s)) <= MaxMembers

(* Nobody is in a squad they never created, joined or asked to join,       *)
(* whoever answers which request.                                          *)
MembersWantedIn ==
    \A u \in Users : member[u].squad # NoSquad => <<u, member[u].squad>> \in wanted

(* A member has at most one row of the history open in a squad, so a day   *)
(* of theirs is never scored twice.                                        *)
OneOpenHistory == \A u \in Users, s \in Squads : open[u][s] <= 1

(* While calls have come one after the other, a squad has a leader and one *)
(* only, exists exactly while it has members, and its history is open for  *)
(* exactly its members.  (Overlapping calls break this: see the README.)   *)
OneLeaderInTurn ==
    undisturbed /\ Busy = {} =>
        \A s \in Squads :
            /\ SquadExists(s) <=> MembersOf(s) # {}
            /\ MembersOf(s) # {} =>
                  Cardinality({u \in MembersOf(s) : member[u].role = "leader"}) = 1
            /\ \A u \in Users : open[u][s] = IF u \in MembersOf(s) THEN 1 ELSE 0

(* The four together: the squads stay what their members made them.        *)
SquadsKept ==
    SquadNeverOverfull /\ MembersWantedIn /\ OneOpenHistory /\ OneLeaderInTurn
============================================================================
