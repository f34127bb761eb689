------------------------ MODULE VerifiedServerProofs ------------------------
(***************************************************************************)
(* Theorems about the verified study sessions of the Worker, for any       *)
(* number of calls at once, of sessions and of failing statements, and any *)
(* grace, silence and length of a session.                                 *)
(*                                                                         *)
(* A minute is credited once because the sessions of a user follow one     *)
(* another in time, only the last can be active, and the credits of a      *)
(* finished one are owed by one call.  A minute of a gap is because what   *)
(* has been credited lies before the end of what is recorded, or before    *)
(* the present while the one reconciliation on its way has to record it.   *)
(***************************************************************************)
EXTENDS VerifiedServer, TLAPS

Replies == {"none", "ok", "notfound", "error"}

Call(n) ==
    [route : Routes, session : 0..n,
     claim : SUBSET ((0..MaxTime) \X (0..MaxTime)), at : Places, row : 0..n,
     beat : 0..MaxTime, gap : Nat, reply : Replies]

Session ==
    [started : 0..MaxTime, beat : 0..MaxTime, active : BOOLEAN,
     credited : 0..MaxTime]

HasRow(r) ==
    r.at \in {"updating", "crediting", "looking", "claiming", "recording"}
        => r.row # 0

(* What a call holds that it needs later: the session its body names, the  *)
(* finished session whose credits it owes, the end of what is recorded.    *)
CallFits(r) ==
    /\ r.at = "arrived" /\ r.route \in {"heartbeat", "finish", "reconcile"}
           => r.session # 0
    /\ r.at = "crediting" => ~sessions[r.row].active
    /\ r.route = "reconcile" /\ r.at = "claiming"
           => covered[r.row] <= r.gap

CallsFit == \A c \in Slots : CallFits(calls[c])

OneCreditor ==
    \A c, d \in Slots :
        /\ calls[c].at = "crediting" /\ calls[d].at = "crediting"
        /\ calls[c].row = calls[d].row
        => c = d

OneReconciler ==
    \A c, d \in Slots :
        calls[c].route = "reconcile" /\ calls[d].route = "reconcile" => c = d

(* The sessions of the user follow one another, the active one last.       *)
SessionsInOrder ==
    \A i, j \in 1..Len(sessions) :
        i < j => /\ ~sessions[i].active
                 /\ sessions[i].started + sessions[i].credited
                        <= sessions[j].started

(* A call will record up to the present what it has credited to a.         *)
Recording(a) ==
    \E c \in Slots : At(c, "reconcile", "recording") /\ calls[c].row = a

GapsCovered ==
    faults = 0 =>
        \A a \in 1..Len(sessions) : \A m \in Minutes :
            /\ offline[a][m] <= 1
            /\ offline[a][m] # 0 =>
                   m < covered[a] \/ (Recording(a) /\ m < now)

ServerIInv ==
    /\ ServerTypeOK /\ CallsFit /\ OneCreditor /\ OneReconciler
    /\ SessionsInOrder /\ GapsCovered /\ CreditedExactlyOnce
----------------------------------------------------------------------------
(* What the next steps rely on at a glance.                                *)

LEMMA CallsTyped ==
    ASSUME ServerTypeOK
    PROVE  /\ calls \in [Slots -> Call(Len(sessions))]
           /\ sessions \in Seq(Session) /\ Len(sessions) \in Nat
           /\ DOMAIN sessions = 1..Len(sessions)
           /\ Len(offline) = Len(sessions) /\ Len(covered) = Len(sessions)
           /\ offline \in Seq([Minutes -> Nat])
           /\ covered \in Seq(0..MaxTime)
           /\ DOMAIN offline = 1..Len(sessions)
           /\ DOMAIN covered = 1..Len(sessions)
           /\ \A c \in Slots : HasRow(calls[c])
           /\ faults \in 0..MaxFaults
           /\ now \in 0..MaxTime
           /\ MaxTime \in Nat /\ MaxFaults \in Nat
           /\ Grace \in Nat /\ MaxSession \in Nat
           /\ Minutes \subseteq Nat
<1>1. calls \in [Slots -> Call(Len(sessions))]
  BY DEF ServerTypeOK, Call, Replies
<1>2. sessions \in Seq(Session) /\ Len(sessions) \in Nat
      /\ DOMAIN sessions = 1..Len(sessions)
  BY DEF ServerTypeOK, Session
<1>3. /\ offline \in Seq([Minutes -> Nat]) /\ DOMAIN offline = 1..Len(sessions)
      /\ covered \in Seq(0..MaxTime) /\ DOMAIN covered = 1..Len(sessions)
      /\ Len(offline) = Len(sessions) /\ Len(covered) = Len(sessions)
  BY DEF ServerTypeOK
<1>4. \A c \in Slots : HasRow(calls[c])
  BY DEF ServerTypeOK, HasRow
<1> QED
  BY <1>1, <1>2, <1>3, <1>4, ServerAssumption DEF ServerTypeOK, Minutes

(* An initial call, an answer: a call that holds nothing.                  *)
LEMMA FreshCall ==
    ASSUME NEW n \in Nat, NEW route \in Routes, NEW i \in 0..n,
           NEW claim \in SUBSET ((0..MaxTime) \X (0..MaxTime)),
           ServerTypeOK
    PROVE  /\ Request(route, i, claim) \in Call(n)
           /\ Request(route, i, claim).route = route
           /\ Request(route, i, claim).at = "arrived"
           /\ Request(route, i, claim).session = i
<1>1. 0 \in 0..MaxTime /\ 0 \in 0..n
  BY CallsTyped
<1> QED
  BY <1>1 DEF Request, Call, Places, Replies

LEMMA AnsweredCall ==
    ASSUME NEW n \in Nat, NEW route \in Routes, NEW i \in 0..n,
           NEW reply \in Replies, ServerTypeOK
    PROVE  /\ Answered(route, i, reply) \in Call(n)
           /\ Answered(route, i, reply).route = route
           /\ Answered(route, i, reply).at = "answered"
<1>1. 0 \in 0..MaxTime /\ 0 \in 0..n
  BY CallsTyped
<1> QED
  BY <1>1 DEF Answered, Request, Call, Places, Replies

LEMMA IdleCall ==
    ASSUME NEW n \in Nat, ServerTypeOK
    PROVE  Idle \in Call(n) /\ Idle.route = "settle" /\ Idle.at = "idle"
<1>1. 0 \in 0..MaxTime /\ 0 \in 0..n
  BY CallsTyped
<1> QED
  BY <1>1 DEF Idle, Request, Call, Places, Replies, Routes

LEMMA MovedCall ==
    ASSUME NEW n \in Nat, NEW r \in Call(n), NEW place \in Places
    PROVE  LET q == [r EXCEPT !.at = place]
           IN  /\ q \in Call(n) /\ q.at = place
               /\ q.route = r.route /\ q.row = r.row /\ q.session = r.session
               /\ q.gap = r.gap
  BY DEF Call
----------------------------------------------------------------------------
(* A step of one call that writes no table, and goes on to owe no credits. *)
LEMMA CallStep ==
    ASSUME ServerIInv, NEW c \in Slots, NEW r \in Call(Len(sessions)),
           calls' = [calls EXCEPT ![c] = r], UNCHANGED <<now, tables>>,
           faults' = faults \/ faults' = faults + 1, faults' \in 0..MaxFaults,
           HasRow(r), CallFits(r), r.at # "crediting",
           r.route = "reconcile" =>
               \A d \in Slots \ {c} : calls[d].route # "reconcile",
           calls[c].at = "crediting" => faults' # 0,
           At(c, "reconcile", "recording") => faults' # 0
    PROVE  ServerIInv'
<1> USE CallsTyped DEF ServerIInv
<1>1. /\ now' = now /\ sessions' = sessions /\ normal' = normal
      /\ offline' = offline /\ covered' = covered
  BY DEF tables
<1>2. /\ calls'[c] = r
      /\ \A d \in Slots \ {c} : calls'[d] = calls[d]
      /\ calls' \in [Slots -> Call(Len(sessions))]
  OBVIOUS
<1>3. ServerTypeOK'
  <2>1. \A d \in Slots : HasRow(calls'[d])
    BY <1>2
  <2> QED
    BY <1>1, <1>2, <2>1, SMTT(30) DEF ServerTypeOK, Call, Replies, HasRow
<1>4. CallsFit'
  <2>1. ASSUME NEW d \in Slots PROVE CallFits(calls[d])'
    <3>1. CallFits(calls'[d])
      BY <1>2 DEF CallsFit
    <3> QED
      BY ONLY <1>1, <3>1 DEF CallFits
  <2> QED
    BY <2>1 DEF CallsFit
<1>5. OneCreditor'
  <2>1. \A d \in Slots : calls'[d].at = "crediting" => calls'[d] = calls[d]
    BY <1>2
  <2> QED
    BY <2>1 DEF OneCreditor
<1>6. OneReconciler'
  BY <1>2 DEF OneReconciler
<1>7. SessionsInOrder'
  BY <1>1 DEF SessionsInOrder
<1>8. GapsCovered'
  <2>1. CASE faults' = 0
    <3>1. faults = 0
      BY <2>1
    <3>2. \A a \in 1..Len(sessions) : Recording(a) => Recording(a)'
      BY <1>2, <2>1 DEF Recording, At
    <3> QED
      BY <1>1, <3>1, <3>2 DEF GapsCovered, Minutes
  <2>2. CASE faults' # 0
    BY <2>2 DEF GapsCovered
  <2> QED
    BY <2>1, <2>2
<1>9. CreditedExactlyOnce'
  <2>1. Owed' \subseteq Owed
    BY <1>2 DEF Owed
  <2>2. CASE faults' = 0
    <3>1. Owed' = Owed
      BY <1>2, <2>2 DEF Owed
    <3>2. \A m \in Minutes : Due(m)' = Due(m)
      BY <1>1, <3>1 DEF Due, Active, Earned, Span, Minutes
    <3> QED
      BY <1>1, <2>2, <3>2 DEF CreditedExactlyOnce, Minutes
  <2>3. CASE faults' # 0
    <3>1. \A m \in Minutes : Due(m) <= Due(m)'
      BY <1>1, <2>1 DEF Due, Active, Earned, Span, Minutes
    <3>2. normal' \in [Minutes -> Nat]
      BY <1>1 DEF ServerTypeOK
    <3>3. \A m \in Minutes : Due(m) \in {0, 1} /\ Due(m)' \in {0, 1}
      BY DEF Due
    <3>4. \A m \in Minutes : normal[m] \in Nat /\ normal[m] <= Due(m)
      BY DEF ServerTypeOK, CreditedExactlyOnce
    <3>5. \A m \in Minutes : normal'[m] <= Due(m)'
      BY <1>1, <3>1, <3>3, <3>4
    <3> QED
      BY <2>3, <3>5 DEF CreditedExactlyOnce, Minutes
  <2> QED
    BY <2>2, <2>3
<1> QED
  BY <1>3, <1>4, <1>5, <1>6, <1>7, <1>8, <1>9

LEMMA AnswerStep ==
    ASSUME ServerIInv, NEW c \in Slots, NEW reply \in Replies,
           Answer(c, reply), UNCHANGED <<now, tables>>,
           faults' = faults \/ faults' = faults + 1, faults' \in 0..MaxFaults,
           calls[c].at = "crediting" => faults' # 0,
           At(c, "reconcile", "recording") => faults' # 0
    PROVE  ServerIInv'
<1> DEFINE r == Answered(calls[c].route, 0, reply)
<1> USE CallsTyped DEF ServerIInv
<1>1. calls[c] \in Call(Len(sessions)) /\ calls[c].route \in Routes
  BY DEF Call
<1>2. /\ r \in Call(Len(sessions)) /\ r.at = "answered"
      /\ r.route = calls[c].route
  BY <1>1, AnsweredCall
<1>3. calls' = [calls EXCEPT ![c] = r]
  BY DEF Answer
<1> HIDE DEF r
<1>4. HasRow(r) /\ CallFits(r) /\ r.at # "crediting"
  BY <1>2 DEF HasRow, CallFits
<1>5. r.route = "reconcile" =>
          \A d \in Slots \ {c} : calls[d].route # "reconcile"
  BY <1>2 DEF OneReconciler
<1> QED
  BY <1>2, <1>3, <1>4, <1>5, CallStep

LEMMA FinishRowStep ==
    ASSUME ServerIInv, NEW c \in Slots, NEW i \in Active, FinishRow(c, i),
           calls[c].at = "arrived", UNCHANGED <<now, tables, faults>>
    PROVE  ServerIInv'
<1> DEFINE r == [calls[c] EXCEPT !.at = "updating", !.row = i,
                                 !.beat = sessions[i].beat]
<1> USE CallsTyped DEF ServerIInv
<1>1. calls[c] \in Call(Len(sessions))
  OBVIOUS
<1>2. /\ i \in 1..Len(sessions) /\ i \in 0..Len(sessions) /\ i # 0
      /\ sessions[i].beat \in 0..MaxTime
  <2>1. i \in DOMAIN sessions
    BY Zenon DEF Active
  <2>2. sessions[i] \in Session
    BY <2>1
  <2>3. sessions[i].beat \in 0..MaxTime
    BY <2>2 DEF Session
  <2> QED
    BY <2>1, <2>3
<1>3. /\ r \in Call(Len(sessions)) /\ r.at = "updating" /\ r.row = i
      /\ r.route = calls[c].route
  <2>1. "updating" \in Places
    BY DEF Places
  <2> QED
    BY ONLY <1>1, <1>2, <2>1 DEF Call
<1>4. calls' = [calls EXCEPT ![c] = r]
  BY <1>1 DEF FinishRow, Call
<1> HIDE DEF r
<1>5. HasRow(r) /\ CallFits(r) /\ r.at # "crediting"
  BY <1>2, <1>3 DEF HasRow, CallFits
<1>6. r.route = "reconcile" =>
          \A d \in Slots \ {c} : calls[d].route # "reconcile"
  BY <1>3 DEF OneReconciler
<1> QED
  BY <1>3, <1>4, <1>5, <1>6, CallStep DEF At

LEMMA InsertingNext ==
    ASSUME ServerIInv, NEW c \in Slots, GoTo(c, "inserting"),
           calls[c].at \in {"arrived", "updating"},
           UNCHANGED <<now, tables, faults>>
    PROVE  ServerIInv'
<1> DEFINE r == [calls[c] EXCEPT !.at = "inserting"]
<1> USE CallsTyped DEF ServerIInv
<1>1. calls[c] \in Call(Len(sessions)) /\ "inserting" \in Places
  BY DEF Places
<1>2. /\ r \in Call(Len(sessions)) /\ r.at = "inserting"
      /\ r.route = calls[c].route
  BY <1>1, MovedCall
<1>3. calls' = [calls EXCEPT ![c] = r]
  BY DEF GoTo
<1> HIDE DEF r
<1>4. HasRow(r) /\ CallFits(r) /\ r.at # "crediting"
  BY <1>2 DEF HasRow, CallFits
<1>5. r.route = "reconcile" =>
          \A d \in Slots \ {c} : calls[d].route # "reconcile"
  BY <1>2 DEF OneReconciler
<1> QED
  BY <1>2, <1>3, <1>4, <1>5, CallStep DEF At

(* The steps of the calls that write no table.                             *)
LEMMA ReadingStep ==
    ASSUME ServerIInv, NEW c \in Slots,
           \/ StartResumes(c) \/ StartReplaces(c) \/ StartFresh(c)
           \/ InsertRefused(c) \/ Finish(c) \/ NotFound(c) \/ Settle(c)
           \/ Fault(c)
    PROVE  ServerIInv'
<1> USE CallsTyped DEF ServerIInv
<1>1. CASE StartResumes(c)
  <2>1. PICK i \in Active : AnswerSession(c, i)
    BY <1>1 DEF StartResumes
  <2> DEFINE r == Answered("start", i, "ok")
  <2>2. i \in 0..Len(sessions) /\ "start" \in Routes /\ "ok" \in Replies
    BY DEF Active, Routes, Replies
  <2>3. r \in Call(Len(sessions)) /\ r.at = "answered" /\ r.route = "start"
    BY <2>2, AnsweredCall
  <2>4. calls' = [calls EXCEPT ![c] = r]
    BY <2>1 DEF AnswerSession
  <2> HIDE DEF r
  <2>5. HasRow(r) /\ CallFits(r) /\ r.at # "crediting"
    BY <2>3 DEF HasRow, CallFits
  <2> QED
    BY <1>1, <2>3, <2>4, <2>5, CallStep DEF StartResumes, At
<1>2. CASE StartReplaces(c)
  BY <1>2, FinishRowStep DEF StartReplaces, At
<1>3. CASE StartFresh(c)
  BY <1>3, InsertingNext DEF StartFresh, At
<1>4. CASE InsertRefused(c)
  BY <1>4, AnswerStep DEF InsertRefused, At, Replies
<1>5. CASE Finish(c)
  BY <1>5, FinishRowStep DEF Finish, At
<1>6. CASE NotFound(c)
  BY <1>6, AnswerStep DEF NotFound, At, Replies
<1>7. CASE Settle(c)
  <2>1. CASE \E i \in Active : FinishRow(c, i)
    BY <1>7, <2>1, FinishRowStep DEF Settle, At
  <2>2. CASE Answer(c, "ok")
    BY <1>7, <2>2, AnswerStep DEF Settle, At, Replies
  <2> QED
    BY <1>7, <2>1, <2>2 DEF Settle
<1>8. CASE Fault(c)
  <2>1. faults' = faults + 1 /\ faults' \in 0..MaxFaults /\ faults' # 0
    BY <1>8 DEF Fault
  <2> QED
    BY <1>8, <2>1, AnswerStep DEF Fault, Replies
<1> QED
  BY <1>1, <1>2, <1>3, <1>4, <1>5, <1>6, <1>7, <1>8

LEMMA ReceiveReplyStep ==
    ASSUME ServerIInv, NEW c \in Slots, Receive(c) \/ Reply(c)
    PROVE  ServerIInv'
<1> USE CallsTyped DEF ServerIInv
<1>1. CASE Receive(c)
  <2>0. PICK route \in Offered :
            \E body \in Bodies(route) :
                /\ route = "reconcile" =>
                       \A d \in Slots : calls[d].route # "reconcile"
                /\ Arrive(c, Request(route, body[1], body[2]))
    BY <1>1 DEF Receive
  <2>1. PICK body \in Bodies(route) :
            /\ route = "reconcile" =>
                   \A d \in Slots : calls[d].route # "reconcile"
            /\ Arrive(c, Request(route, body[1], body[2]))
    BY <2>0
  <2>2. route \in Routes
    BY ServerAssumption DEF Routes
  <2>3. /\ body[1] \in 0..Len(sessions)
        /\ route \in {"heartbeat", "finish", "reconcile"} => body[1] # 0
        /\ body[2] \in SUBSET ((0..MaxTime) \X (0..MaxTime))
    <3>1. CASE route \in {"start", "settle"}
      BY <3>1 DEF Bodies
    <3>2. CASE route \in {"heartbeat", "finish"}
      BY <3>2 DEF Bodies
    <3>3. CASE route = "reconcile"
      BY <3>3 DEF Bodies
    <3> QED
      BY <2>2, <3>1, <3>2, <3>3 DEF Routes
  <2> DEFINE r == Request(route, body[1], body[2])
  <2>4. /\ r \in Call(Len(sessions)) /\ r.at = "arrived" /\ r.route = route
        /\ r.session = body[1]
    BY <2>2, <2>3, FreshCall
  <2>5. calls' = [calls EXCEPT ![c] = r] /\ calls[c].at = "idle"
    BY <2>1 DEF Arrive
  <2> HIDE DEF r
  <2>6. HasRow(r) /\ CallFits(r) /\ r.at # "crediting"
    BY <2>3, <2>4 DEF HasRow, CallFits
  <2> QED
    BY <1>1, <2>1, <2>4, <2>5, <2>6, CallStep DEF Receive, At
<1>2. CASE Reply(c)
  <2>1. Idle \in Call(Len(sessions)) /\ Idle.at = "idle" /\ Idle.route = "settle"
    BY IdleCall
  <2>2. HasRow(Idle) /\ CallFits(Idle)
    BY <2>1 DEF HasRow, CallFits
  <2>3. calls' = [calls EXCEPT ![c] = Idle] /\ calls[c].at = "answered"
        /\ UNCHANGED <<now, tables>> /\ faults' = faults
    BY <1>2 DEF Reply
  <2> QED
    BY <2>1, <2>2, <2>3, CallStep DEF At
<1> QED
  BY <1>1, <1>2
----------------------------------------------------------------------------
(* The steps that write a table.                                           *)

LEMMA LargerCall ==
    ASSUME NEW n \in Nat, NEW r \in Call(n)
    PROVE  r \in Call(n + 1)
  BY DEF Call

LEMMA InsertStep ==
    ASSUME ServerIInv, NEW c \in Slots, Insert(c)
    PROVE  ServerIInv'
<1> DEFINE n == Len(sessions)
           fresh == [started |-> now, beat |-> now, active |-> TRUE,
                     credited |-> 0]
           r == Answered("start", Len(sessions'), "ok")
<1> USE DEF ServerIInv
<1>0. /\ ServerTypeOK /\ n \in Nat /\ now \in 0..MaxTime /\ MaxTime \in Nat
      /\ calls[c].at = "inserting" /\ calls[c].route = "start"
  BY CallsTyped DEF Insert, At
<1>1. /\ now' = now /\ normal' = normal /\ faults' = faults
      /\ sessions' = Append(sessions, fresh)
      /\ offline' = Append(offline, Uncredited)
      /\ covered' = Append(covered, 0)
      /\ calls' = [calls EXCEPT ![c] = r]
  BY DEF Insert, AnswerSession
<1>2. \A i \in 1..n : ~sessions[i].active
  BY CallsTyped, Zenon DEF Insert, Active
<1>3. fresh \in Session /\ Uncredited \in [Minutes -> Nat]
  BY <1>0 DEF Session, Uncredited
<1>4. /\ sessions' \in Seq(Session) /\ Len(sessions') = n + 1
      /\ \A i \in 1..n : sessions'[i] = sessions[i]
      /\ sessions'[n + 1] = fresh
  BY <1>1, <1>3, CallsTyped, SMTT(30)
<1>5. /\ offline' \in Seq([Minutes -> Nat]) /\ Len(offline') = n + 1
      /\ \A i \in 1..n : offline'[i] = offline[i]
      /\ offline'[n + 1] = Uncredited
  BY <1>1, <1>3, CallsTyped, SMTT(30)
<1>6. /\ covered' \in Seq(0..MaxTime) /\ Len(covered') = n + 1
      /\ \A i \in 1..n : covered'[i] = covered[i]
  BY <1>1, <1>0, CallsTyped, SMTT(30)
<1>7. r \in Call(n + 1) /\ r.at = "answered" /\ r.route = "start"
  BY <1>0, <1>4, AnsweredCall DEF Routes, Replies
<1>8. /\ fresh.started = now /\ fresh.beat = now /\ fresh.active = TRUE
      /\ fresh.credited = 0
  OBVIOUS
<1> HIDE DEF fresh, r
<1>9. /\ calls' \in [Slots -> Call(n + 1)] /\ calls'[c] = r
      /\ \A d \in Slots \ {c} : calls'[d] = calls[d]
  BY <1>0, <1>1, <1>7, CallsTyped, LargerCall
<1>10. \A d \in Slots \ {c} :
           calls[d].at \in {"updating", "crediting", "looking", "claiming",
                            "recording"} => calls[d].row \in 1..n
  BY CallsTyped DEF HasRow, Call
<1>11. ServerTypeOK'
  <2>1. \A d \in Slots : HasRow(calls'[d])
    BY <1>7, <1>9, CallsTyped DEF HasRow
  <2>2. DOMAIN sessions' = 1..(n + 1)
    BY <1>4
  <2>3. \A i \in 1..(n + 1) :
            /\ sessions'[i].started <= sessions'[i].beat
            /\ sessions'[i].beat <= now'
            /\ sessions'[i].started + sessions'[i].credited <= now'
    <3>1. \A i \in 1..n :
            /\ sessions[i].started <= sessions[i].beat
            /\ sessions[i].beat <= now
            /\ sessions[i].started + sessions[i].credited <= now
      BY CallsTyped DEF ServerTypeOK
    <3>2. \A i \in 1..(n + 1) : i \in 1..n \/ i = n + 1
      BY <1>0
    <3> QED
      BY <1>0, <1>1, <1>4, <1>8, <3>1, <3>2
  <2> QED
    BY <1>0, <1>1, <1>4, <1>5, <1>6, <1>9, <2>1, <2>2, <2>3
       DEF ServerTypeOK, Call, Replies, HasRow, Session
<1>12. CallsFit'
  <2>1. ASSUME NEW d \in Slots \ {c}
        PROVE  CallFits(calls[d])'
    BY <1>4, <1>6, <1>9, <1>10, <2>1 DEF CallsFit, CallFits
  <2>2. CallFits(calls[c])'
    BY <1>7, <1>9 DEF CallFits
  <2> QED
    BY <2>1, <2>2 DEF CallsFit
<1>13. OneCreditor' /\ OneReconciler'
  <2>1. \A d \in Slots : calls'[d].at = "crediting" => calls'[d] = calls[d]
    BY <1>7, <1>9
  <2>2. \A d \in Slots : calls'[d].route = "reconcile" => calls'[d] = calls[d]
    BY <1>7, <1>9
  <2> QED
    BY <2>1, <2>2 DEF OneCreditor, OneReconciler
<1>14. SessionsInOrder'
  <2> SUFFICES ASSUME NEW i \in 1..(n + 1), NEW j \in 1..(n + 1), i < j
               PROVE  /\ ~sessions'[i].active
                      /\ sessions'[i].started + sessions'[i].credited
                             <= sessions'[j].started
    BY <1>4 DEF SessionsInOrder
  <2>1. i \in 1..n
    BY <1>0
  <2>2. CASE j \in 1..n
    BY <1>4, <2>1, <2>2 DEF SessionsInOrder
  <2>3. CASE j = n + 1
    <3>1. sessions'[i] = sessions[i] /\ sessions'[j].started = now
      BY <1>4, <1>8, <2>1, <2>3
    <3>2. ~sessions[i].active
      BY <1>2, <2>1
    <3>3. sessions[i].started + sessions[i].credited <= now
      BY <2>1, CallsTyped DEF ServerTypeOK
    <3> QED
      BY <3>1, <3>2, <3>3
  <2> QED
    BY <1>0, <2>2, <2>3
<1>15. GapsCovered'
  <2> SUFFICES ASSUME faults = 0, NEW a \in 1..(n + 1), NEW m \in Minutes
               PROVE  /\ offline'[a][m] <= 1
                      /\ offline'[a][m] # 0 =>
                             m < covered'[a] \/ (Recording(a)' /\ m < now')
    BY <1>1, <1>4 DEF GapsCovered, Minutes
  <2>1. CASE a = n + 1
    BY <1>5, <2>1 DEF Uncredited
  <2>2. CASE a \in 1..n
    <3>1. Recording(a) => Recording(a)'
      BY <1>0, <1>9 DEF Recording, At
    <3> QED
      BY <1>1, <1>5, <1>6, <2>2, <3>1 DEF GapsCovered
  <2> QED
    BY <1>0, <2>1, <2>2
<1>16. CreditedExactlyOnce'
  <2>1. Owed' = Owed
    BY <1>0, <1>7, <1>9 DEF Owed
  <2>2. Active' = {n + 1} /\ Active = {}
    <3>1. DOMAIN sessions' = 1..(n + 1) /\ DOMAIN sessions = 1..n
      BY <1>4
    <3>2. \A i \in 1..(n + 1) : i \in 1..n \/ i = n + 1
      BY <1>0
    <3>3. n + 1 \in 1..(n + 1) /\ sessions'[n + 1].active
      BY <1>0, <1>4, <1>8
    <3>4. \A i \in 1..n : ~sessions'[i].active
      BY <1>2, <1>4
    <3>5. Active' = {i \in DOMAIN sessions' : sessions'[i].active}
      BY DEF Active
    <3>6. Active' = {n + 1}
      BY ONLY <3>1, <3>2, <3>3, <3>4, <3>5, Zenon
    <3>7. Active = {}
      BY ONLY <1>2, <3>1, Zenon DEF Active
    <3> QED
      BY <3>6, <3>7
  <2>3. n + 1 \notin Owed
    BY <1>0, CallsTyped DEF Owed, Call
  <2>4. DOMAIN sessions' = 1..(n + 1) /\ DOMAIN sessions = 1..n
    BY <1>4
  <2>5. (DOMAIN sessions') \ (Active' \cup Owed')
            = (DOMAIN sessions) \ (Active \cup Owed)
    BY <1>0, <2>1, <2>2, <2>3, <2>4
  <2>6. \A i \in 1..n : Earned(i)' = Earned(i)
    BY <1>4 DEF Earned, Span, Minutes
  <2>7. \A m \in Minutes : Due(m)' = Due(m)
    BY <2>4, <2>5, <2>6 DEF Due
  <2> QED
    BY <1>1, <2>7 DEF CreditedExactlyOnce, Minutes
<1> QED
  BY <1>11, <1>12, <1>13, <1>14, <1>15, <1>16

(* One call goes on, under the route it came by.                           *)
LEMMA OnlyCall ==
    ASSUME ServerIInv, NEW c \in Slots, NEW r \in Call(Len(sessions)),
           calls' = [calls EXCEPT ![c] = r], r.route = calls[c].route,
           HasRow(r)
    PROVE  /\ calls' \in [Slots -> Call(Len(sessions))] /\ calls'[c] = r
           /\ \A d \in Slots \ {c} : calls'[d] = calls[d]
           /\ \A d \in Slots : HasRow(calls'[d])
           /\ OneReconciler'
<1>1. /\ calls' \in [Slots -> Call(Len(sessions))] /\ calls'[c] = r
      /\ \A d \in Slots \ {c} : calls'[d] = calls[d]
  BY CallsTyped DEF ServerIInv
<1>2. \A d \in Slots : HasRow(calls'[d])
  BY <1>1, CallsTyped DEF ServerIInv
<1>3. \A d \in Slots : calls'[d].route = calls[d].route
  BY <1>1
<1> QED
  BY <1>1, <1>2, <1>3 DEF OneReconciler, ServerIInv

LEMMA AnsweredNext ==
    ASSUME ServerIInv, NEW c \in Slots, NEW reply \in Replies,
           Answer(c, reply)
    PROVE  \E r \in Call(Len(sessions)) :
               /\ calls' = [calls EXCEPT ![c] = r] /\ r.at = "answered"
               /\ r.route = calls[c].route /\ HasRow(r)
<1> DEFINE r == Answered(calls[c].route, 0, reply)
<1>1. calls[c] \in Call(Len(sessions)) /\ calls[c].route \in Routes
  BY CallsTyped DEF Call, ServerIInv
<1>2. /\ r \in Call(Len(sessions)) /\ r.at = "answered"
      /\ r.route = calls[c].route
  BY <1>1, AnsweredCall, CallsTyped DEF ServerIInv
<1>3. calls' = [calls EXCEPT ![c] = r]
  BY DEF Answer
<1> HIDE DEF r
<1>4. HasRow(r)
  BY <1>2 DEF HasRow
<1> QED
  BY <1>2, <1>3, <1>4

LEMMA MovedNext ==
    ASSUME ServerIInv, NEW c \in Slots, NEW place \in Places,
           GoTo(c, place), calls[c].row # 0
    PROVE  \E r \in Call(Len(sessions)) :
               /\ calls' = [calls EXCEPT ![c] = r] /\ r.at = place
               /\ r.route = calls[c].route /\ r.row = calls[c].row
               /\ r.gap = calls[c].gap /\ HasRow(r)
<1> DEFINE r == [calls[c] EXCEPT !.at = place]
<1>1. calls[c] \in Call(Len(sessions))
  BY CallsTyped DEF ServerIInv
<1>2. /\ r \in Call(Len(sessions)) /\ r.at = place
      /\ r.route = calls[c].route /\ r.row = calls[c].row
      /\ r.gap = calls[c].gap
  BY <1>1, MovedCall, CallsTyped DEF ServerIInv
<1>3. calls' = [calls EXCEPT ![c] = r]
  BY DEF GoTo
<1> HIDE DEF r
<1>4. HasRow(r)
  BY <1>2 DEF HasRow
<1> QED
  BY <1>2, <1>3, <1>4

(* A session is rewritten, and keeps its start.                            *)
LEMMA SessionsTyped ==
    ASSUME ServerIInv, NEW i \in 1..Len(sessions), NEW s \in Session,
           sessions' = [sessions EXCEPT ![i] = s], now' = now,
           s.started = sessions[i].started, s.started <= s.beat,
           s.beat <= now, s.started + s.credited <= now,
           UNCHANGED <<offline, covered, faults>>,
           normal' \in [Minutes -> Nat],
           calls' \in [Slots -> Call(Len(sessions))],
           \A d \in Slots : HasRow(calls'[d])
    PROVE  /\ ServerTypeOK' /\ Len(sessions') = Len(sessions)
           /\ DOMAIN sessions' = 1..Len(sessions) /\ sessions'[i] = s
           /\ \A j \in 1..Len(sessions) : j # i => sessions'[j] = sessions[j]
<1>1. ServerTypeOK
  BY DEF ServerIInv
<1>2. /\ sessions' \in Seq(Session) /\ Len(sessions') = Len(sessions)
      /\ DOMAIN sessions' = 1..Len(sessions) /\ sessions'[i] = s
      /\ \A j \in 1..Len(sessions) : j # i => sessions'[j] = sessions[j]
  BY <1>1, CallsTyped
<1>3. \A j \in DOMAIN sessions' :
           /\ sessions'[j].started <= sessions'[j].beat
           /\ sessions'[j].beat <= now
           /\ sessions'[j].started + sessions'[j].credited <= now
  BY <1>1, <1>2, CallsTyped DEF ServerTypeOK
<1> QED
  BY <1>1, <1>2, <1>3, CallsTyped
     DEF ServerTypeOK, Session, Call, Replies, HasRow

LEMMA HeartbeatStep ==
    ASSUME ServerIInv, NEW c \in Slots, Heartbeat(c)
    PROVE  ServerIInv'
<1> DEFINE n == Len(sessions)
           i == calls[c].session
           s == [sessions[i] EXCEPT !.beat = now]
<1> USE DEF ServerIInv
<1>0. /\ ServerTypeOK /\ n \in Nat /\ now \in 0..MaxTime
      /\ calls[c].at = "arrived"
      /\ now' = now /\ normal' = normal /\ faults' = faults
      /\ offline' = offline /\ covered' = covered
  BY CallsTyped DEF Heartbeat, At
<1>1. i \in 1..n /\ sessions[i] \in Session
  <2>1. i \in DOMAIN sessions
    BY Zenon DEF Active, Heartbeat
  <2> QED
    BY <2>1, CallsTyped
<1>2. /\ s \in Session /\ s.started = sessions[i].started /\ s.beat = now
      /\ s.active = sessions[i].active /\ s.credited = sessions[i].credited
  BY <1>0, <1>1 DEF Session
<1>3. /\ s.started <= s.beat /\ s.beat <= now
      /\ s.started + s.credited <= now
  <2>1. /\ sessions[i].started <= sessions[i].beat
        /\ sessions[i].beat <= now
        /\ sessions[i].started + sessions[i].credited <= now
    BY <1>0, <1>1, CallsTyped DEF ServerTypeOK
  <2> QED
    BY <1>0, <1>1, <1>2, <2>1 DEF Session
<1>4. sessions' = [sessions EXCEPT ![i] = s]
  BY <1>1, CallsTyped DEF Heartbeat
<1> HIDE DEF s
<1>5. PICK r \in Call(n) :
          /\ calls' = [calls EXCEPT ![c] = r] /\ r.at = "answered"
          /\ r.route = calls[c].route /\ HasRow(r)
  BY AnsweredNext DEF Heartbeat, Replies
<1>6. /\ calls' \in [Slots -> Call(n)] /\ calls'[c] = r
      /\ \A d \in Slots \ {c} : calls'[d] = calls[d]
      /\ \A d \in Slots : HasRow(calls'[d])
      /\ OneReconciler'
  BY <1>5, OnlyCall
<1>7. normal \in [Minutes -> Nat]
  BY <1>0 DEF ServerTypeOK
<1>8. /\ ServerTypeOK' /\ Len(sessions') = n /\ DOMAIN sessions' = 1..n
      /\ sessions'[i] = s
      /\ \A j \in 1..n : j # i => sessions'[j] = sessions[j]
  BY <1>0, <1>1, <1>2, <1>3, <1>4, <1>6, <1>7, SessionsTyped
<1>9. \A j \in 1..n :
          /\ sessions'[j].started = sessions[j].started
          /\ sessions'[j].active = sessions[j].active
          /\ sessions'[j].credited = sessions[j].credited
  BY <1>1, <1>2, <1>8
<1>10. CallsFit'
  <2>1. ASSUME NEW d \in Slots \ {c}
        PROVE  CallFits(calls[d])'
    <3>1. calls[d].at = "crediting" => calls[d].row \in 1..n
      <4>1. calls[d] \in Call(n) /\ HasRow(calls[d]) /\ n \in Nat
        BY CallsTyped
      <4> HIDE DEF n
      <4> QED
        BY ONLY <4>1 DEF HasRow, Call
    <3>2. CallFits(calls[d]) /\ calls'[d] = calls[d]
      BY <1>6 DEF CallsFit
    <3>3. covered' = covered
      BY <1>0
    <3> HIDE DEF i, n, s
    <3> QED
      BY ONLY <1>9, <3>1, <3>2, <3>3 DEF CallFits
  <2>2. CallFits(calls[c])'
    BY <1>5, <1>6 DEF CallFits
  <2> QED
    BY <2>1, <2>2 DEF CallsFit
<1>11. OneCreditor'
  <2>1. \A d \in Slots : calls'[d].at = "crediting" => calls'[d] = calls[d]
    BY <1>5, <1>6
  <2> QED
    BY <2>1 DEF OneCreditor
<1>12. SessionsInOrder'
  BY <1>8, <1>9 DEF SessionsInOrder
<1>13. GapsCovered'
  <2>1. \A a \in 1..n : Recording(a) => Recording(a)'
    BY <1>0, <1>5, <1>6 DEF Recording, At
  <2> QED
    BY <1>0, <1>8, <2>1 DEF GapsCovered, Minutes
<1>14. CreditedExactlyOnce'
  <2>1. Owed' = Owed
    BY <1>0, <1>5, <1>6 DEF Owed
  <2>2. Active' = Active
    BY <1>8, <1>9, CallsTyped DEF Active
  <2>3. \A j \in 1..n : Earned(j)' = Earned(j)
    BY <1>9 DEF Earned, Span, Minutes
  <2>4. \A m \in Minutes : Due(m)' = Due(m)
    BY <1>8, <2>1, <2>2, <2>3, CallsTyped DEF Due
  <2> QED
    BY <1>0, <2>4 DEF CreditedExactlyOnce, Minutes
<1> QED
  BY <1>6, <1>8, <1>10, <1>11, <1>12, <1>13, <1>14

LEMMA CreditedBounds ==
    ASSUME ServerTypeOK, NEW started \in 0..now, NEW beat \in 0..MaxTime
    PROVE  /\ CreditedMinutes(started, beat) \in 0..MaxTime
           /\ started + CreditedMinutes(started, beat) <= now
<1>1. now \in 0..MaxTime /\ MaxTime \in Nat /\ Grace \in Nat /\ MaxSession \in Nat
  BY CallsTyped
<1>2. started \in 0..now /\ beat \in Nat
  BY <1>1
<1>3. NormalCreditBoundary(started, beat) \in Nat
  BY <1>1, <1>2 DEF NormalCreditBoundary, Smaller
<1> QED
  BY <1>1, <1>2, <1>3 DEF CreditedMinutes, Larger, Smaller

LEMMA RowInTable ==
    ASSUME ServerTypeOK, NEW c \in Slots,
           calls[c].at \in {"updating", "crediting", "looking", "claiming",
                            "recording"}
    PROVE  calls[c].row \in 1..Len(sessions)
<1>1. calls[c] \in Call(Len(sessions)) /\ HasRow(calls[c])
  BY CallsTyped
<1>2. calls[c].row \in 0..Len(sessions)
  BY <1>1 DEF Call
<1>3. calls[c].row # 0
  BY <1>1, Zenon DEF HasRow
<1> QED
  BY <1>2, <1>3, CallsTyped

(* What follows finishVerifiedSession answers, or goes on to insert.       *)
LEMMA AfterFinishingNext ==
    ASSUME ServerIInv, NEW c \in Slots, AfterFinishing(c), calls[c].row # 0
    PROVE  \E r \in Call(Len(sessions)) :
               /\ calls' = [calls EXCEPT ![c] = r]
               /\ r.at \in {"answered", "inserting"}
               /\ r.route = calls[c].route /\ HasRow(r)
<1>1. CASE calls[c].route = "start"
  BY <1>1, MovedNext DEF AfterFinishing, Places
<1>2. CASE calls[c].route # "start"
  BY <1>2, AnsweredNext DEF AfterFinishing, Replies
<1> QED
  BY <1>1, <1>2

LEMMA UpdateStep ==
    ASSUME ServerIInv, NEW c \in Slots, Update(c)
    PROVE  ServerIInv'
<1> DEFINE n == Len(sessions)
           i == calls[c].row
           s == [sessions[i] EXCEPT
                     !.active = FALSE,
                     !.credited = CreditedMinutes(sessions[i].started,
                                                  calls[c].beat)]
<1> USE DEF ServerIInv
<1>0. /\ ServerTypeOK /\ n \in Nat /\ now \in 0..MaxTime
      /\ calls[c].at = "updating" /\ calls[c] \in Call(n)
      /\ now' = now /\ normal' = normal /\ faults' = faults
      /\ offline' = offline /\ covered' = covered
  BY CallsTyped DEF Update
<1>a. i \in 1..n
  BY <1>0, RowInTable
<1>1. CASE i \notin Active
  <2>1. AfterFinishing(c) /\ sessions' = sessions
    BY <1>1 DEF Update
  <2>2. PICK r \in Call(n) :
            /\ calls' = [calls EXCEPT ![c] = r]
            /\ r.at \in {"answered", "inserting"}
            /\ r.route = calls[c].route /\ HasRow(r)
    BY <1>a, <2>1, AfterFinishingNext
  <2>3. CallFits(r) /\ r.at # "crediting"
    BY <2>2 DEF CallFits
  <2>4. r.route = "reconcile" =>
            \A d \in Slots \ {c} : calls[d].route # "reconcile"
    BY <2>2 DEF OneReconciler
  <2>5. UNCHANGED <<now, tables>> /\ faults' \in 0..MaxFaults
    BY <1>0, <2>1, CallsTyped DEF tables
  <2> QED
    BY <1>0, <2>2, <2>3, <2>4, <2>5, CallStep DEF At
<1>2. CASE i \in Active
  <2>1. /\ GoTo(c, "crediting")
        /\ sessions' = [sessions EXCEPT
                            ![i].active = FALSE,
                            ![i].credited =
                                CreditedMinutes(sessions[i].started,
                                                calls[c].beat)]
    BY <1>2 DEF Update
  <2>2. /\ sessions[i] \in Session /\ sessions[i].active
        /\ sessions[i].started <= sessions[i].beat
        /\ sessions[i].beat <= now
    <3>1. sessions[i].active
      BY <1>2, Zenon DEF Active
    <3> QED
      BY <1>0, <1>a, <3>1, CallsTyped DEF ServerTypeOK
  <2>3. /\ CreditedMinutes(sessions[i].started, calls[c].beat) \in 0..MaxTime
        /\ sessions[i].started
               + CreditedMinutes(sessions[i].started, calls[c].beat) <= now
    <3>1. sessions[i].started \in 0..now /\ calls[c].beat \in 0..MaxTime
      BY <1>0, <2>2 DEF Session, Call
    <3> QED
      BY <1>0, <3>1, CreditedBounds
  <2>4. /\ s \in Session /\ s.started = sessions[i].started
        /\ s.beat = sessions[i].beat /\ s.active = FALSE
        /\ s.started + s.credited <= now
    BY <2>2, <2>3 DEF Session
  <2>5. sessions' = [sessions EXCEPT ![i] = s]
    BY <1>a, <2>1, <2>2, CallsTyped DEF Session
  <2> HIDE DEF s
  <2>6. PICK r \in Call(n) :
            /\ calls' = [calls EXCEPT ![c] = r] /\ r.at = "crediting"
            /\ r.route = calls[c].route /\ r.row = i /\ HasRow(r)
    BY <1>a, <2>1, MovedNext DEF Places
  <2>7. /\ calls' \in [Slots -> Call(n)] /\ calls'[c] = r
        /\ \A d \in Slots \ {c} : calls'[d] = calls[d]
        /\ \A d \in Slots : HasRow(calls'[d])
        /\ OneReconciler'
    BY <2>6, OnlyCall
  <2>8. /\ ServerTypeOK' /\ Len(sessions') = n /\ DOMAIN sessions' = 1..n
        /\ sessions'[i] = s
        /\ \A j \in 1..n : j # i => sessions'[j] = sessions[j]
    <3>1. normal \in [Minutes -> Nat]
      BY <1>0 DEF ServerTypeOK
    <3> QED
      BY <1>0, <1>a, <2>2, <2>4, <2>5, <2>7, <3>1, SessionsTyped
  <2>9. \A d \in Slots \ {c} :
            calls[d].at = "crediting" => calls[d].row \in (1..n) \ {i}
    <3>1. \A d \in Slots : calls[d].at = "crediting" =>
              calls[d].row \in 1..n /\ ~sessions[calls[d].row].active
      BY <1>0, RowInTable DEF CallsFit, CallFits
    <3> QED
      BY <2>2, <3>1
  <2>10. CallsFit'
    <3>1. ASSUME NEW d \in Slots \ {c}
          PROVE  CallFits(calls[d])'
      <4>1. CallFits(calls[d]) /\ calls'[d] = calls[d]
        BY <2>7 DEF CallsFit
      <4> QED
        BY <1>0, <2>8, <2>9, <4>1 DEF CallFits
    <3>2. CallFits(calls[c])'
      BY <2>4, <2>6, <2>7, <2>8 DEF CallFits
    <3> QED
      BY <3>1, <3>2 DEF CallsFit
  <2>11. OneCreditor'
    <3>1. \A d \in Slots \ {c} :
              calls'[d].at = "crediting" =>
                  calls'[d] = calls[d] /\ calls'[d].row # calls'[c].row
      BY <2>6, <2>7, <2>9
    <3> QED
      BY <2>7, <3>1 DEF OneCreditor
  <2>12. SessionsInOrder'
    <3> SUFFICES ASSUME NEW j \in 1..n, NEW k \in 1..n, j < k
                 PROVE  /\ ~sessions'[j].active
                        /\ sessions'[j].started + sessions'[j].credited
                               <= sessions'[k].started
      BY <2>8 DEF SessionsInOrder
    <3>1. /\ ~sessions[j].active
          /\ sessions[j].started + sessions[j].credited
                 <= sessions[k].started
      BY DEF SessionsInOrder
    <3>2. j # i
      BY <2>2, <3>1
    <3>3. sessions'[k].started = sessions[k].started
      BY <2>4, <2>8
    <3> QED
      BY <2>8, <3>1, <3>2, <3>3
  <2>13. GapsCovered'
    <3>1. \A a \in 1..n : Recording(a) => Recording(a)'
      BY <1>0, <2>7 DEF Recording, At
    <3> QED
      BY <1>0, <2>8, <3>1 DEF GapsCovered, Minutes
  <2>14. CreditedExactlyOnce'
    <3>1. Owed' = Owed \cup {i}
      BY <1>0, <2>6, <2>7 DEF Owed
    <3>2. Active' = Active \ {i}
      <4>1. Active' = {j \in 1..n : sessions'[j].active}
        BY <2>8 DEF Active
      <4>2. Active = {j \in 1..n : sessions[j].active}
        BY CallsTyped DEF Active
      <4>3. ~sessions'[i].active
        BY <2>4, <2>8
      <4> QED
        BY ONLY <2>8, <4>1, <4>2, <4>3, Zenon
    <3>3. (DOMAIN sessions') \ (Active' \cup Owed')
              = (1..n) \ (Active \cup Owed)
      BY <1>2, <2>8, <3>1, <3>2
    <3>4. \A j \in (1..n) \ (Active \cup Owed) : Earned(j)' = Earned(j)
      BY <1>2, <2>8 DEF Earned, Span, Minutes
    <3>5. \A m \in Minutes : Due(m)' = Due(m)
      BY <3>3, <3>4, CallsTyped DEF Due
    <3> QED
      BY <1>0, <3>5 DEF CreditedExactlyOnce, Minutes
  <2> QED
    BY <2>7, <2>8, <2>10, <2>11, <2>12, <2>13, <2>14
<1> QED
  BY <1>1, <1>2

LEMMA SessionTimes ==
    ASSUME ServerTypeOK, NEW i \in 1..Len(sessions)
    PROVE  /\ sessions[i].started \in Nat /\ sessions[i].beat \in Nat
           /\ sessions[i].credited \in Nat
<1>1. sessions[i] \in Session /\ MaxTime \in Nat
  BY CallsTyped
<1> QED
  BY ONLY <1>1 DEF Session

LEMMA CoveredTimes ==
    ASSUME ServerTypeOK, NEW a \in 1..Len(sessions)
    PROVE  covered[a] \in 0..MaxTime /\ covered[a] \in Nat
<1>1. /\ covered \in Seq(0..MaxTime) /\ Len(covered) = Len(sessions)
      /\ MaxTime \in Nat
  BY CallsTyped
<1> QED
  BY ONLY <1>1, a \in 1..Len(sessions)

LEMMA BoundaryIsTime ==
    ASSUME NEW started \in Nat, NEW beat \in Nat
    PROVE  NormalCreditBoundary(started, beat) \in Nat
<1>1. started + MaxSession \in Nat /\ beat + Grace \in Nat
  BY ServerAssumption
<1> QED
  BY <1>1 DEF NormalCreditBoundary, Smaller

(* The sessions' minutes do not overlap, so what is credited was not.      *)
LEMMA CreditStep ==
    ASSUME ServerIInv, NEW c \in Slots, Credit(c)
    PROVE  ServerIInv'
<1> DEFINE n == Len(sessions)
           i == calls[c].row
           Settled == (1..n) \ (Active \cup Owed)
<1> USE DEF ServerIInv
<1>0. /\ ServerTypeOK /\ n \in Nat /\ calls[c].at = "crediting"
      /\ now' = now /\ sessions' = sessions /\ faults' = faults
      /\ offline' = offline /\ covered' = covered
      /\ normal' = Add(normal, Earned(i)) /\ normal \in [Minutes -> Nat]
      /\ DOMAIN sessions = 1..n
  BY CallsTyped DEF Credit, ServerTypeOK
<1>1. i \in 1..n
  BY <1>0, RowInTable
<1>2. PICK r \in Call(n) :
          /\ calls' = [calls EXCEPT ![c] = r]
          /\ r.at \in {"answered", "inserting"}
          /\ r.route = calls[c].route /\ HasRow(r)
  BY <1>1, AfterFinishingNext DEF Credit
<1>3. /\ calls' \in [Slots -> Call(n)] /\ calls'[c] = r
      /\ \A d \in Slots \ {c} : calls'[d] = calls[d]
      /\ \A d \in Slots : HasRow(calls'[d])
      /\ OneReconciler'
  BY <1>2, OnlyCall
<1>4. normal' \in [Minutes -> Nat]
  BY <1>0 DEF Add
<1>5. ServerTypeOK'
  BY <1>0, <1>3, <1>4, CallsTyped
     DEF ServerTypeOK, Session, Call, Replies, HasRow
<1>6. CallsFit'
  <2>1. ASSUME NEW d \in Slots \ {c}
        PROVE  CallFits(calls[d])'
    BY <1>0, <1>3 DEF CallsFit, CallFits
  <2>2. CallFits(calls[c])'
    BY <1>2, <1>3 DEF CallFits
  <2> QED
    BY <2>1, <2>2 DEF CallsFit
<1>7. OneCreditor'
  <2>1. \A d \in Slots : calls'[d].at = "crediting" => calls'[d] = calls[d]
    BY <1>2, <1>3
  <2> QED
    BY <2>1 DEF OneCreditor
<1>8. SessionsInOrder'
  BY <1>0 DEF SessionsInOrder
<1>9. GapsCovered'
  <2>1. \A a \in 1..n : Recording(a) => Recording(a)'
    BY <1>0, <1>3 DEF Recording, At
  <2> QED
    BY <1>0, <2>1 DEF GapsCovered, Minutes
<1>10. CreditedExactlyOnce'
  <2>1. Owed' = Owed \ {i} /\ i \in Owed
    BY <1>0, <1>2, <1>3 DEF Owed, OneCreditor
  <2>2. Active' = Active /\ i \notin Active
    BY <1>0, Zenon DEF Active, CallsFit, CallFits
  <2>3. (DOMAIN sessions') \ (Active' \cup Owed') = Settled \cup {i}
    BY <1>0, <1>1, <2>1, <2>2
  <2>4. \A j \in 1..n : Earned(j)' = Earned(j)
    BY <1>0 DEF Earned, Span, Minutes
  <2>5. \A j \in 1..n : \A m \in Minutes :
            m \in Earned(j) => /\ sessions[j].started <= m
                               /\ m < sessions[j].started
                                          + sessions[j].credited
    BY DEF Earned, Span
  <2>6. ASSUME NEW m \in Earned(i)
        PROVE  Due(m) = 0
    <3>1. SUFFICES ASSUME NEW j \in Settled, m \in Earned(j)
                   PROVE  FALSE
      BY <1>0 DEF Due
    <3>2. m \in Minutes /\ m \in Int
      BY CallsTyped DEF Earned, Span
    <3>3. j \in 1..n /\ j # i
      BY <2>1
    <3>4. /\ sessions[i].started \in Int /\ sessions[i].credited \in Int
          /\ sessions[j].started \in Int /\ sessions[j].credited \in Int
      <4>1. i \in 1..n /\ j \in 1..n
        BY <1>1, <3>3
      <4>2. \A k \in 1..n : sessions[k].started \in Nat /\ sessions[k].credited \in Nat
        BY <1>0, SessionTimes
      <4> QED
        BY ONLY <4>1, <4>2
    <3>5. CASE i < j
      BY <1>1, <2>5, <3>1, <3>2, <3>3, <3>4, <3>5, SMTT(30) DEF SessionsInOrder
    <3>6. CASE j < i
      <4>1. sessions[j].started + sessions[j].credited <= sessions[i].started
        BY <1>1, <3>3, <3>6 DEF SessionsInOrder
      <4>2. /\ sessions[i].started <= m
            /\ m < sessions[j].started + sessions[j].credited
        BY <1>1, <2>5, <2>6, <3>1, <3>2, <3>3
      <4> QED
        BY <3>2, <3>4, <4>1, <4>2
    <3> QED
      BY <1>1, <3>3, <3>5, <3>6
  <2>7. ASSUME NEW m \in Minutes
        PROVE  /\ normal'[m] <= Due(m)'
               /\ faults' = 0 => normal'[m] = Due(m)'
    <3>1. /\ normal[m] <= Due(m) /\ normal[m] \in Nat
          /\ faults = 0 => normal[m] = Due(m)
      BY <1>0 DEF CreditedExactlyOnce
    <3>2. CASE m \in Earned(i)
      <4>1. normal[m] = 0
        BY <2>6, <3>1, <3>2
      <4>2. normal'[m] = 1
        BY <1>0, <3>2, <4>1 DEF Add
      <4>3. Due(m)' = 1
        BY <1>1, <2>3, <2>4, <3>2 DEF Due
      <4> QED
        BY <4>2, <4>3
    <3>3. CASE m \notin Earned(i)
      <4>1. normal'[m] = normal[m]
        BY <1>0, <3>1, <3>3 DEF Add
      <4>2. Due(m)' = Due(m)
        BY <1>0, <1>1, <2>3, <2>4, <3>3 DEF Due
      <4> QED
        BY <1>0, <3>1, <4>1, <4>2
    <3> QED
      BY <3>2, <3>3
  <2> QED
    BY <2>7 DEF CreditedExactlyOnce, Minutes
<1> QED
  BY <1>3, <1>5, <1>6, <1>7, <1>8, <1>9, <1>10

LEMMA ReadStep ==
    ASSUME ServerIInv, NEW c \in Slots, ReadAnchor(c) \/ ReadCovered(c)
    PROVE  ServerIInv'
<1> DEFINE n == Len(sessions)
<1> USE DEF ServerIInv
<1>0. /\ ServerTypeOK /\ n \in Nat /\ calls[c] \in Call(n)
      /\ calls[c].route = "reconcile" /\ calls[c].at \in {"arrived", "looking"}
      /\ UNCHANGED <<now, tables>> /\ faults' = faults
      /\ faults' \in 0..MaxFaults
      /\ \A d \in Slots \ {c} : calls[d].route # "reconcile"
  BY CallsTyped DEF ReadAnchor, ReadCovered, At, OneReconciler
<1>1. CASE ReadAnchor(c)
  <2> DEFINE i == calls[c].session
             r == [calls[c] EXCEPT !.at = "looking", !.row = i,
                                   !.gap = GapStart(i)]
  <2>1. i \in 0..n /\ i # 0
    BY <1>0, <1>1 DEF ReadAnchor, At, Call, CallsFit, CallFits
  <2>2. i \in 1..n
    BY <1>0, <2>1
  <2>3. /\ sessions[i].started \in Nat /\ sessions[i].beat \in Nat
        /\ sessions[i].credited \in Nat
    BY <1>0, <2>2, SessionTimes
  <2>4. GapStart(i) \in Nat
    <3>1. NormalCreditBoundary(sessions[i].started, sessions[i].beat) \in Nat
      BY <2>3, BoundaryIsTime
    <3>2. sessions[i].started + sessions[i].credited \in Nat
      BY <2>3
    <3> QED
      BY <3>1, <3>2 DEF GapStart
  <2>5. /\ r \in Call(n) /\ r.at = "looking" /\ r.row = i
        /\ r.route = "reconcile"
    <3>1. "looking" \in Places
      BY DEF Places
    <3> QED
      BY ONLY <1>0, <2>1, <2>4, <3>1 DEF Call
  <2>6. calls' = [calls EXCEPT ![c] = r]
    BY <1>0, <1>1 DEF ReadAnchor, Call
  <2> HIDE DEF r, i
  <2>7. HasRow(r) /\ CallFits(r) /\ r.at # "crediting"
    BY <2>1, <2>5 DEF HasRow, CallFits
  <2> QED
    BY <1>0, <2>5, <2>6, <2>7, CallStep DEF At
<1>2. CASE ReadCovered(c)
  <2> DEFINE i == calls[c].row
             r == [calls[c] EXCEPT !.at = "claiming",
                                   !.gap = Larger(@, covered[i])]
  <2>1. calls[c].at = "looking" /\ i \in 1..n
    BY <1>0, <1>2, RowInTable DEF ReadCovered, At
  <2>2. /\ Larger(calls[c].gap, covered[i]) \in Nat
        /\ covered[i] <= Larger(calls[c].gap, covered[i])
    <3>1. covered[i] \in 0..MaxTime /\ MaxTime \in Nat /\ calls[c].gap \in Nat
      BY <1>0, <2>1, CallsTyped DEF Call
    <3> QED
      BY <3>1 DEF Larger
  <2>3. /\ r \in Call(n) /\ r.at = "claiming" /\ r.row = i
        /\ r.route = "reconcile" /\ r.gap = Larger(calls[c].gap, covered[i])
    <3>1. "claiming" \in Places
      BY DEF Places
    <3> QED
      BY ONLY <1>0, <2>2, <3>1 DEF Call
  <2>4. calls' = [calls EXCEPT ![c] = r]
    BY <1>0, <1>2 DEF ReadCovered, Call
  <2> HIDE DEF r
  <2>5. HasRow(r) /\ CallFits(r) /\ r.at # "crediting"
    BY <1>0, <2>1, <2>2, <2>3 DEF HasRow, CallFits
  <2> QED
    BY <1>0, <2>1, <2>3, <2>4, <2>5, CallStep DEF At
<1> QED
  BY <1>1, <1>2

LEMMA ClaimedInGap ==
    ASSUME ServerTypeOK, NEW c \in Slots, NEW m \in Claimed(c)
    PROVE  calls[c].gap <= m /\ m < now /\ m \in Minutes
<1>1. /\ calls[c] \in Call(Len(sessions)) /\ now \in 0..MaxTime
      /\ MaxTime \in Nat /\ Minutes \subseteq Nat
  BY CallsTyped
<1>2. /\ calls[c].gap \in Nat
      /\ calls[c].claim \subseteq (0..MaxTime) \X (0..MaxTime)
  BY ONLY <1>1 DEF Call
<1>3. PICK iv \in calls[c].claim :
          m \in Span(Larger(iv[1], calls[c].gap), Smaller(iv[2], now))
  BY DEF Claimed
<1>4. iv[1] \in 0..MaxTime /\ iv[2] \in 0..MaxTime
  BY <1>2, <1>3
<1>5. /\ m \in Minutes /\ Larger(iv[1], calls[c].gap) <= m
      /\ m < Smaller(iv[2], now)
  BY <1>3 DEF Span
<1> QED
  BY <1>1, <1>2, <1>4, <1>5 DEF Larger, Smaller

(* Two steps of the one reconciliation: what it credits has not been, and  *)
(* what it has credited is recorded before another may read the window.    *)
LEMMA ReconcileStep ==
    ASSUME ServerIInv, NEW c \in Slots,
           CreditOffline(c) \/ RecordReconciliation(c)
    PROVE  ServerIInv'
<1> DEFINE n == Len(sessions)
           i == calls[c].row
<1> USE DEF ServerIInv
<1>0. /\ ServerTypeOK /\ n \in Nat /\ calls[c].route = "reconcile"
      /\ calls[c].at \in {"claiming", "recording"}
      /\ now' = now /\ sessions' = sessions /\ normal' = normal
      /\ faults' = faults /\ DOMAIN sessions = 1..n
      /\ now \in 0..MaxTime /\ MaxTime \in Nat
      /\ \A d \in Slots \ {c} : calls[d].route # "reconcile"
  BY CallsTyped DEF CreditOffline, RecordReconciliation, At, OneReconciler
<1>1. i \in 1..n
  BY <1>0, RowInTable
<1>2. PICK r \in Call(n) :
          /\ calls' = [calls EXCEPT ![c] = r]
          /\ r.at = IF calls[c].at = "claiming" THEN "recording" ELSE "answered"
          /\ r.at = "recording" => r.row = i
          /\ r.route = "reconcile" /\ HasRow(r)
  <2>1. CASE CreditOffline(c)
    <3>1. GoTo(c, "recording") /\ "recording" \in Places
      BY <2>1 DEF CreditOffline, Places
    <3>2. calls[c].at = "claiming" /\ i # 0
      BY <1>1, <2>1 DEF CreditOffline, At
    <3> QED
      BY <1>0, <3>1, <3>2, MovedNext
  <2>2. CASE RecordReconciliation(c)
    <3>1. Answer(c, "ok") /\ "ok" \in Replies /\ calls[c].at = "recording"
      BY <2>2 DEF RecordReconciliation, Replies, At
    <3> QED
      BY <1>0, <3>1, AnsweredNext
  <2> QED
    BY <2>1, <2>2
<1>3. /\ calls' \in [Slots -> Call(n)] /\ calls'[c] = r
      /\ \A d \in Slots \ {c} : calls'[d] = calls[d]
      /\ \A d \in Slots : HasRow(calls'[d])
      /\ OneReconciler'
  BY <1>0, <1>2, OnlyCall
<1>4. CallsFit'
  <2>1. ASSUME NEW d \in Slots \ {c}
        PROVE  CallFits(calls[d])'
    BY <1>0, <1>3 DEF CallsFit, CallFits
  <2>2. CallFits(calls[c])'
    BY <1>2, <1>3 DEF CallFits
  <2> QED
    BY <2>1, <2>2 DEF CallsFit
<1>5. OneCreditor'
  <2>1. \A d \in Slots : calls'[d].at = "crediting" => calls'[d] = calls[d]
    BY <1>2, <1>3
  <2> QED
    BY <2>1 DEF OneCreditor
<1>6. SessionsInOrder'
  BY <1>0 DEF SessionsInOrder
<1>7. CreditedExactlyOnce'
  <2>1. Owed' = Owed
    BY <1>0, <1>2, <1>3 DEF Owed
  <2>2. \A m \in Minutes : Due(m)' = Due(m)
    BY <1>0, <2>1 DEF Due, Active, Earned, Span, Minutes
  <2> QED
    BY <1>0, <2>2 DEF CreditedExactlyOnce, Minutes
<1>8. ServerTypeOK' /\ GapsCovered'
  <2>1. CASE CreditOffline(c)
    <3>1. /\ calls[c].at = "claiming" /\ covered' = covered
          /\ offline' = [offline EXCEPT ![i] = Add(@, Claimed(c))]
      BY <2>1 DEF CreditOffline, At
    <3>2. /\ offline \in Seq([Minutes -> Nat]) /\ DOMAIN offline = 1..n
          /\ Len(offline) = n /\ Minutes \subseteq Nat
          /\ covered \in Seq(0..MaxTime) /\ DOMAIN covered = 1..n
      BY <1>0, CallsTyped
    <3>3. Add(offline[i], Claimed(c)) \in [Minutes -> Nat]
      <4>1. offline[i] \in [Minutes -> Nat]
        BY <1>1, <3>2
      <4> QED
        BY <4>1 DEF Add
    <3>4. /\ offline' \in Seq([Minutes -> Nat]) /\ Len(offline') = n
          /\ offline'[i] = Add(offline[i], Claimed(c))
          /\ \A a \in 1..n : a # i => offline'[a] = offline[a]
      BY <1>1, <3>1, <3>2, <3>3
    <3>5. ServerTypeOK'
      BY <1>0, <1>3, <3>1, <3>2, <3>4, CallsTyped
         DEF ServerTypeOK, Session, Call, Replies, HasRow
    <3>6. \A a \in 1..n : ~Recording(a)
      BY <1>0, <3>1 DEF Recording, At
    <3>7. \A a \in 1..n : a = i => Recording(a)'
      BY <1>2, <1>3, <3>1 DEF Recording, At
    <3>8. covered[i] <= calls[c].gap
      BY <1>0, <3>1 DEF CallsFit, CallFits
    <3>9. ASSUME faults = 0, NEW a \in 1..n, NEW m \in Minutes
          PROVE  /\ offline'[a][m] <= 1
                 /\ offline'[a][m] # 0 =>
                        m < covered'[a] \/ (Recording(a)' /\ m < now')
      <4>1. /\ offline[a][m] <= 1
            /\ offline[a][m] # 0 => m < covered[a]
        BY <3>6, <3>9 DEF GapsCovered
      <4>2. CASE a = i /\ m \in Claimed(c)
        <5>1. calls[c].gap <= m /\ m < now
          BY <1>0, <4>2, ClaimedInGap
        <5>2. covered[i] \in Nat /\ calls[c].gap \in Nat /\ m \in Nat
          <6>1. calls[c] \in Call(n)
            BY <1>0, CallsTyped
          <6>2. calls[c].gap \in Nat
            BY ONLY <6>1 DEF Call
          <6> QED
            BY <1>0, <1>1, <3>2, <6>2, CoveredTimes
        <5>3. offline[i][m] = 0
          BY <3>8, <4>1, <4>2, <5>1, <5>2
        <5>4. offline'[i][m] = 1
          BY <3>4, <4>2, <5>3 DEF Add
        <5> QED
          BY <1>0, <3>7, <4>2, <5>1, <5>4
      <4>3. CASE ~(a = i /\ m \in Claimed(c))
        <5>1. offline'[a][m] = offline[a][m]
          <6>1. offline[a][m] \in Nat
            BY <3>2
          <6> QED
            BY <3>4, <4>3, <6>1 DEF Add
        <5> QED
          BY <3>1, <4>1, <5>1
      <4> QED
        BY <4>2, <4>3
    <3> QED
      BY <1>0, <3>5, <3>9 DEF GapsCovered, Minutes
  <2>2. CASE RecordReconciliation(c)
    <3>1. /\ calls[c].at = "recording" /\ offline' = offline
          /\ covered' = [covered EXCEPT ![i] = Larger(@, now)]
      BY <2>2 DEF RecordReconciliation, At
    <3>2. covered \in Seq(0..MaxTime) /\ DOMAIN covered = 1..n /\ Len(covered) = n
      BY <1>0, CallsTyped
    <3>3. /\ Larger(covered[i], now) \in 0..MaxTime
          /\ now <= Larger(covered[i], now)
          /\ covered[i] <= Larger(covered[i], now)
      <4>1. covered[i] \in 0..MaxTime
        BY <1>0, <1>1, CoveredTimes
      <4> QED
        BY <1>0, <4>1 DEF Larger
    <3>4. /\ covered' \in Seq(0..MaxTime) /\ Len(covered') = n
          /\ covered'[i] = Larger(covered[i], now)
          /\ \A a \in 1..n : a # i => covered'[a] = covered[a]
      BY <1>1, <3>1, <3>2, <3>3
    <3>5. ServerTypeOK'
      BY <1>0, <1>3, <3>1, <3>4, CallsTyped
         DEF ServerTypeOK, Session, Call, Replies, HasRow
    <3>6. ASSUME faults = 0, NEW a \in 1..n, NEW m \in Minutes
          PROVE  /\ offline'[a][m] <= 1
                 /\ offline'[a][m] # 0 =>
                        m < covered'[a] \/ (Recording(a)' /\ m < now')
      <4>1. /\ offline[a][m] <= 1
            /\ offline[a][m] # 0 => m < covered[a] \/ (Recording(a) /\ m < now)
        BY <3>6 DEF GapsCovered
      <4>2. CASE a = i
        <5>1. covered[i] \in Int /\ m \in Int /\ now \in Int
          BY <1>0, <1>1, CoveredTimes, CallsTyped
        <5>2. covered'[i] \in Int
          BY <1>0, <3>3, <3>4
        <5> QED
          BY <3>1, <3>3, <3>4, <4>1, <4>2, <5>1, <5>2
      <4>3. CASE a # i
        <5>1. ~Recording(a)
          BY <1>0, <4>3 DEF Recording, At
        <5> QED
          BY <3>1, <3>4, <4>1, <4>3, <5>1
      <4> QED
        BY <4>2, <4>3
    <3> QED
      BY <1>0, <3>5, <3>6 DEF GapsCovered, Minutes
  <2> QED
    BY <2>1, <2>2
<1> QED
  BY <1>3, <1>4, <1>5, <1>6, <1>7, <1>8
----------------------------------------------------------------------------
LEMMA TickStep ==
    ASSUME ServerIInv, Tick
    PROVE  ServerIInv'
<1> USE DEF ServerIInv
<1>1. /\ now \in 0..MaxTime /\ MaxTime \in Nat /\ now < MaxTime
      /\ now' = now + 1 /\ calls' = calls /\ faults' = faults
      /\ sessions' = sessions /\ normal' = normal /\ offline' = offline
      /\ covered' = covered /\ Minutes \subseteq Nat
  BY CallsTyped DEF Tick, tables
<1>2. ServerTypeOK'
  <2>1. now' \in 0..MaxTime
    BY <1>1
  <2>2. \A i \in DOMAIN sessions :
            /\ sessions[i].beat <= now'
            /\ sessions[i].started + sessions[i].credited <= now'
    <3>1. ASSUME NEW i \in DOMAIN sessions
          PROVE  /\ sessions[i].beat <= now'
                 /\ sessions[i].started + sessions[i].credited <= now'
      <4>1. /\ sessions[i].beat <= now
            /\ sessions[i].started + sessions[i].credited <= now
        BY DEF ServerTypeOK
      <4>2. /\ sessions[i].started \in Nat /\ sessions[i].beat \in Nat
            /\ sessions[i].credited \in Nat
        BY SessionTimes, CallsTyped
      <4> QED
        BY <1>1, <4>1, <4>2
    <3> QED
      BY <3>1
  <2> QED
    BY <1>1, <2>1, <2>2 DEF ServerTypeOK
<1>3. CallsFit' /\ OneCreditor' /\ OneReconciler' /\ SessionsInOrder'
  BY <1>1 DEF CallsFit, CallFits, OneCreditor, OneReconciler, SessionsInOrder
<1>4. GapsCovered'
  <2>1. \A m \in Minutes : m < now => m < now'
    BY <1>1
  <2>2. \A a \in 1..Len(sessions) : Recording(a)' = Recording(a)
    BY <1>1 DEF Recording, At
  <2> QED
    BY <1>1, <2>1, <2>2 DEF GapsCovered, Minutes
<1>5. CreditedExactlyOnce'
  <2>1. \A m \in Minutes : Due(m)' = Due(m)
    BY <1>1 DEF Due, Active, Owed, Earned, Span, Minutes
  <2> QED
    BY <1>1, <2>1 DEF CreditedExactlyOnce, Minutes
<1> QED
  BY <1>2, <1>3, <1>4, <1>5

LEMMA StutterStep ==
    ASSUME ServerIInv, UNCHANGED serverVars
    PROVE  ServerIInv'
<1>1. /\ now' = now /\ calls' = calls /\ faults' = faults
      /\ sessions' = sessions /\ normal' = normal /\ offline' = offline
      /\ covered' = covered
  BY DEF serverVars, tables
<1>2. \A a \in 1..Len(sessions) : Recording(a)' = Recording(a)
  BY <1>1 DEF Recording, At
<1>3. \A m \in Minutes : Due(m)' = Due(m)
  BY <1>1 DEF Due, Active, Owed, Earned, Span, Minutes
<1>4. ServerTypeOK'
  BY <1>1 DEF ServerTypeOK, ServerIInv
<1>5. CallsFit' /\ OneCreditor' /\ OneReconciler' /\ SessionsInOrder'
  BY <1>1 DEF CallsFit, CallFits, OneCreditor, OneReconciler,
              SessionsInOrder, ServerIInv
<1>6. GapsCovered'
  BY <1>1, <1>2 DEF GapsCovered, Minutes, ServerIInv
<1>7. CreditedExactlyOnce'
  BY <1>1, <1>3 DEF CreditedExactlyOnce, Minutes, ServerIInv
<1> QED
  BY <1>4, <1>5, <1>6, <1>7 DEF ServerIInv

LEMMA ServerInitially == ServerInit => ServerIInv
<1> SUFFICES ASSUME ServerInit PROVE ServerIInv
  OBVIOUS
<1>1. /\ now = 0 /\ sessions = <<>> /\ normal = Uncredited /\ offline = <<>>
      /\ covered = <<>> /\ calls = [c \in Slots |-> Idle] /\ faults = 0
  BY DEF ServerInit
<1>2. MaxTime \in Nat /\ MaxFaults \in Nat
  BY ServerAssumption
<1>3. Idle \in Call(0) /\ Idle.at = "idle" /\ Idle.route = "settle"
  <2>1. 0 \in 0..MaxTime /\ 0 \in 0..0 /\ 0 \in Nat
    BY <1>2
  <2> QED
    BY <2>1 DEF Idle, Request, Call, Places, Replies, Routes
<1>4. Uncredited \in [Minutes -> Nat]
  BY DEF Uncredited
<1>5. \A c \in Slots : calls[c] = Idle
  BY <1>1
<1>6. ServerTypeOK
  <2>1. calls \in [Slots -> Call(Len(sessions))]
    <3>1. Len(sessions) = 0
      BY <1>1
    <3> QED
      BY <1>1, <1>3, <3>1
  <2>2. \A c \in Slots : HasRow(calls[c])
    BY <1>3, <1>5 DEF HasRow
  <2>3. /\ now \in 0..MaxTime /\ faults \in 0..MaxFaults
        /\ sessions \in Seq(Session) /\ DOMAIN sessions = {}
        /\ Len(sessions) = 0 /\ Len(offline) = 0 /\ Len(covered) = 0
        /\ normal \in [Minutes -> Nat] /\ offline \in Seq([Minutes -> Nat])
        /\ covered \in Seq(0..MaxTime)
    BY <1>1, <1>2, <1>4
  <2> QED
    BY <2>1, <2>2, <2>3 DEF ServerTypeOK, Session, Call, Replies, HasRow
<1>7. CallsFit /\ OneCreditor /\ OneReconciler
  BY <1>3, <1>5 DEF CallsFit, CallFits, OneCreditor, OneReconciler
<1>8. SessionsInOrder /\ GapsCovered
  <2>1. 1..Len(sessions) = {}
    BY <1>1
  <2> QED
    BY <2>1 DEF SessionsInOrder, GapsCovered
<1>9. CreditedExactlyOnce
  <2>1. \A m \in Minutes : Due(m) = 0
    BY <1>1 DEF Due
  <2>2. \A m \in Minutes : normal[m] = 0
    BY <1>1 DEF Uncredited
  <2> QED
    BY <2>1, <2>2 DEF CreditedExactlyOnce
<1> QED
  BY <1>6, <1>7, <1>8, <1>9 DEF ServerIInv

LEMMA ServerIInvHolds == ServerSpec => []ServerIInv
<1>1. ServerIInv /\ [ServerNext]_serverVars => ServerIInv'
  <2> SUFFICES ASSUME ServerIInv, [ServerNext]_serverVars
               PROVE  ServerIInv'
    OBVIOUS
  <2>1. ASSUME NEW c \in Slots, Receive(c) \/ Handle(c) \/ Fault(c) \/ Reply(c)
        PROVE  ServerIInv'
    <3>1. CASE Receive(c) \/ Reply(c)
      BY <3>1, ReceiveReplyStep
    <3>2. CASE \/ StartResumes(c) \/ StartReplaces(c) \/ StartFresh(c)
               \/ InsertRefused(c) \/ Finish(c) \/ NotFound(c) \/ Settle(c)
               \/ Fault(c)
      BY <3>2, ReadingStep
    <3>3. CASE Insert(c)
      BY <3>3, InsertStep
    <3>4. CASE Heartbeat(c)
      BY <3>4, HeartbeatStep
    <3>5. CASE Update(c)
      BY <3>5, UpdateStep
    <3>6. CASE Credit(c)
      BY <3>6, CreditStep
    <3>7. CASE ReadAnchor(c) \/ ReadCovered(c)
      BY <3>7, ReadStep
    <3>8. CASE CreditOffline(c) \/ RecordReconciliation(c)
      BY <3>8, ReconcileStep
    <3> QED
      BY <2>1, <3>1, <3>2, <3>3, <3>4, <3>5, <3>6, <3>7, <3>8 DEF Handle
  <2>2. CASE Tick
    BY <2>2, TickStep
  <2>3. CASE UNCHANGED serverVars
    BY <2>3, StutterStep
  <2> QED
    BY <2>1, <2>2, <2>3 DEF ServerNext
<1> QED
  BY <1>1, ServerInitially, PTL DEF ServerSpec

(* Type correctness of the Worker's tables and of the calls it handles.    *)
THEOREM ServerTypeCorrect == ServerSpec => []ServerTypeOK
<1>1. ServerIInv => ServerTypeOK
  BY DEF ServerIInv
<1> QED
  BY <1>1, ServerIInvHolds, PTL

(* However start, finish and settlement overlap and whatever statement     *)
(* fails, no minute is credited twice; and none is missing while none      *)
(* fails (finishVerifiedSession, the index of one active session).         *)
THEOREM MinutesCreditedOnce == ServerSpec => []CreditedExactlyOnce
<1>1. ServerIInv => CreditedExactlyOnce
  BY DEF ServerIInv
<1> QED
  BY <1>1, ServerIInvHolds, PTL

(* However often the client reconciles an anchor, no minute of its gap is  *)
(* credited twice (handleVerifiedSessionReconcileOffline).                 *)
THEOREM GapMinutesCreditedOnce == ServerSpec => []GapCreditedOnce
<1>1. ServerIInv => GapCreditedOnce
  BY CallsTyped DEF ServerIInv, GapsCovered, GapCreditedOnce
<1> QED
  BY <1>1, ServerIInvHolds, PTL
=============================================================================
